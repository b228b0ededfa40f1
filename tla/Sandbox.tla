------------------------------- MODULE Sandbox -------------------------------
(***************************************************************************)
(* The web site's sandbox: a registry in the browser's tab, the parties'   *)
(* workspaces over it (module Workspaces), the guided replay that runs     *)
(* seventeen steps on it (web/src/routes/Replay.tsx), and the copy of it   *)
(* in the tab's storage (web/src/state/registry.tsx,                       *)
(* web/src/lib/persist.ts).                                                *)
(*                                                                         *)
(* A circuit call of the simulator awaits nothing but microtasks.  What a  *)
(* click or a timer starts is therefore one action, with its refresh and   *)
(* its save.  A run of the replay waits on a timer before each step, and a *)
(* button of a workspace on one before its call; in between the visitor    *)
(* may press anything the page does not disable: the clock and the reset   *)
(* in the rail above it, and the links away.  A page that is left does not *)
(* stop its timers: the run goes on as an orphan, on the world every other *)
(* page shows, and a pressed button's call lands wherever the visitor is.  *)
(***************************************************************************)
EXTENDS ReplaySteps, Workspaces

CONSTANTS
    MaxIncidents,   \* bound on what happens beside the replay's own steps
    MaxPresses,     \* bound on the buttons pressed before the replay is opened
    NoLoop, NoWorld, NoCall

\* Worlds by the secrets they were made with: a visit makes one more for each incident at most.
Worlds == [keys : 1..MaxIncidents + 1, ledger : Ledgers, now : Nat, issued : Nat]

ASSUME SandboxAssumption ==
    MaxIncidents \in Nat /\ MaxPresses \in Nat /\ NoWorld \notin Worlds

N == Len(Steps)

VARIABLES
    world,      \* the registry in the tab: secrets, ledger, block time, invoices issued
    stored,     \* what the tab's storage holds
    writable,   \* persist.ts: no write has failed since the page was loaded
    page,       \* the replay's page
    orphan,     \* the run of a page that was left
    pending,    \* a button's call, awaiting its timer, and (history) the world it was pressed on
    presses,    \* how many buttons were pressed
    incidents,  \* how much happened beside the replay's own steps
    exact,      \* history: the world is what the steps shown on the page made of it
    clean       \* history: the first results that nothing interfered with

vars == <<world, stored, writable, page, orphan, pending, presses, incidents, exact, clean>>

\* A world this visit makes, its parties admitted.
FreshWorld(keys) ==
    [keys |-> keys, ledger |-> Admit(DeployedLedger, keys).ledger, now |-> 0, issued |-> 0]

\* The world as deployed, with the book as it is.
Genesis(w) == [w EXCEPT !.ledger = DeployedLedger, !.now = 0]

NoPage == [mounted |-> FALSE, index |-> 1, results |-> <<>>, snapshots |-> <<>>, loop |-> NoLoop]

\* A run awaits its timer before step next; first is the page's first snapshot's book.
Loop(next, auto, first) == [next |-> next, auto |-> auto, first |-> first]

Init ==
    /\ world = FreshWorld(1) /\ stored = world /\ writable = TRUE
    /\ page = NoPage /\ orphan = NoLoop /\ pending = NoCall /\ presses = 0 /\ incidents = 0
    /\ exact = FALSE /\ clean = 0

-----------------------------------------------------------------------------
(* The shared registry.                                                    *)

Costs(n) == incidents + n <= MaxIncidents /\ incidents' = incidents + n

\* saveWorld: one write of everything, or storage given up for the rest of the visit.
Saved(w, mayWrite, n) ==
    \/ Costs(n) /\ IF mayWrite THEN stored' = w /\ writable' = TRUE
                              ELSE UNCHANGED <<stored, writable>>
    \/ Costs(n + 1) /\ mayWrite /\ stored' = NoWorld /\ writable' = FALSE

\* Every change of the world ends in refresh, which saves it.
Becomes(w, n) == world' = w /\ Saved(w, writable, n)

\* Something other than the page's own steps changes the world.
Interference ==
    /\ exact' = FALSE
    /\ clean' = IF exact THEN Len(page.results) ELSE clean

\* The rail's +1 day, +7 days and Reset clock, which no run disables.
Advance(days) ==
    /\ Becomes([world EXCEPT !.now = @ + days], 1)
    /\ Interference /\ UNCHANGED <<page, orphan, pending, presses>>

ResetClock ==
    /\ Becomes([world EXCEPT !.now = 0], 1)
    /\ Interference /\ UNCHANGED <<page, orphan, pending, presses>>

\* The rail's Reset registry: the deployed ledger with the parties admitted again.
ResetRegistry ==
    /\ Becomes([Genesis(world) EXCEPT !.ledger = Admit(DeployedLedger, world.keys).ledger], 1)
    /\ Interference /\ UNCHANGED <<page, orphan, pending, presses>>

\* A button of a workspace: the call, with what it captured, awaits its timer.  Bounds: one call
\* at a time; writing an invoice is an incident, and so is any press once the replay was opened,
\* which is then one of the debtor's.
Press(call) ==
    /\ ~page.mounted /\ pending = NoCall
    /\ pending' = [call |-> call, shown |-> world]
    /\ \/ /\ presses < MaxPresses /\ call.do # "issue"
          /\ presses' = presses + 1 /\ UNCHANGED incidents
       \/ /\ call.do = "issue" \/ (presses = MaxPresses /\ call \in DebtorButtons(world.ledger))
          /\ Costs(1) /\ UNCHANGED presses
    /\ UNCHANGED <<world, stored, writable, page, orphan, exact, clean>>

\* The call lands on the registry as it is by then, and what became of it is saved either way.
\* An invoice the seller writes is added to the book.
Land ==
    /\ pending # NoCall
    /\ \E landed \in {Landed(pending.call, world.ledger, world.now, world.keys)} :
            Becomes([world EXCEPT !.ledger = landed.ledger,
                                  !.issued = IF pending.call.do = "issue" THEN @ + 1 ELSE @], 0)
    /\ pending' = NoCall
    /\ Interference /\ UNCHANGED <<page, orphan, presses>>

\* Mutation: the ledger comes back without the secrets it was made with.
LoadedAlone ==
    IF stored = NoWorld THEN FreshWorld(world.keys + 1) ELSE [stored EXCEPT !.keys = world.keys + 1]

\* loadWorld: what is stored, or a world made afresh.
Loaded == IF stored = NoWorld THEN FreshWorld(world.keys + 1) ELSE stored

\* The page is loaded again.  A world that cannot be read back is dropped.
Reload(readable) ==
    /\ LET w == IF readable THEN Loaded ELSE FreshWorld(world.keys + 1)
       IN  world' = w /\ Saved(w, TRUE, IF readable THEN 0 ELSE 1)
    /\ page' = NoPage /\ orphan' = NoLoop /\ pending' = NoCall
    /\ exact' = FALSE /\ clean' = 0 /\ UNCHANGED presses

-----------------------------------------------------------------------------
(* The replay's page.                                                      *)

\* The page opens on step one.  A link may ask it to run everything at once.  Bounds: not within
\* the 16 ms a call awaits, and the presses that cost nothing are over.
OpenReplay(asked) ==
    /\ ~page.mounted /\ pending = NoCall
    /\ page' = [NoPage EXCEPT !.mounted = TRUE, !.snapshots = <<Genesis(world)>>,
                              !.loop = IF asked THEN Loop(1, TRUE, world.issued) ELSE NoLoop]
    /\ exact' = FALSE /\ clean' = 0 /\ presses' = MaxPresses
    /\ UNCHANGED <<world, stored, writable, orphan, pending, incidents>>

\* The visitor follows a link away.  Bounded to one run left behind.
LeaveReplay ==
    /\ page.mounted
    /\ page.loop # NoLoop => orphan = NoLoop
    /\ orphan' = IF page.loop # NoLoop THEN page.loop ELSE orphan
    /\ page' = NoPage
    /\ exact' = FALSE /\ clean' = 0
    /\ UNCHANGED <<world, stored, writable, pending, presses, incidents>>

Idle == page.mounted /\ page.loop = NoLoop

FirstBook == page.snapshots[1].issued

\* The button of a step not yet run.
RunOne ==
    /\ Idle /\ page.index > Len(page.results)
    /\ page' = [page EXCEPT !.loop = Loop(page.index, FALSE, FirstBook)]
    /\ UNCHANGED <<world, stored, writable, orphan, pending, presses, incidents, exact, clean>>

\* "Run the rest" starts at the step on show, run before or not.
RunTheRest ==
    /\ Idle
    /\ Costs(IF page.index > Len(page.results) THEN 0 ELSE 1)
    /\ page' = [page EXCEPT !.loop = Loop(page.index, TRUE, FirstBook)]
    /\ UNCHANGED <<world, stored, writable, orphan, pending, presses, exact, clean>>

NextStep ==
    /\ Idle /\ page.index <= Len(page.results) /\ page.index < N
    /\ page' = [page EXCEPT !.index = @ + 1]
    /\ UNCHANGED <<world, stored, writable, orphan, pending, presses, incidents, exact, clean>>

\* The page at step i again.
Rewound(i) ==
    [page EXCEPT !.index = i, !.results = SubSeq(@, 1, i - 1), !.snapshots = SubSeq(@, 1, i)]

\* A step of the list, "Replay from here", or Reset: back to just before step i.
RewindTo(i) ==
    /\ Idle /\ i <= Len(page.results) + 1
    /\ Becomes(page.snapshots[i], 0)
    /\ page' = Rewound(i)
    /\ exact' = (exact \/ i - 1 <= clean)
    /\ clean' = IF exact' THEN N ELSE clean
    /\ UNCHANGED <<orphan, pending, presses>>

\* Mutation: step one runs on the world as it is.
BaselineAsItIs(i, first) == world

\* Step one runs on the deployed registry and the book the page opened with, every other step on
\* the world as it is.
Baseline(i, first) == IF i = 1 THEN [Genesis(world) EXCEPT !.issued = first] ELSE world

\* Mutation: the snapshot is taken before the step.
AfterStepLate(i, said, after) ==
    [page EXCEPT !.results = Append(SubSeq(@, 1, i - 1), said),
                 !.snapshots = Append(SubSeq(@, 1, i), world)]

\* The page with the result of step i, and the world after it as the next step's snapshot.
AfterStep(i, said, after) ==
    [page EXCEPT !.results = Append(SubSeq(@, 1, i - 1), said),
                 !.snapshots = Append(SubSeq(@, 1, i), after)]

\* Mutation: a refusal stops the run.
GoesOnUnrefused(loop, said) ==
    IF loop.auto /\ said = "ok" /\ loop.next < N THEN Loop(loop.next + 1, TRUE, loop.first) ELSE NoLoop

\* A run of the rest goes on after anything but an error.
GoesOn(loop, said) ==
    IF loop.auto /\ said # "error" /\ loop.next < N THEN Loop(loop.next + 1, TRUE, loop.first) ELSE NoLoop

\* What the step a run awaits makes of the registry in the tab: one outcome.
Outcomes(loop) ==
    LET base == Baseline(loop.next, loop.first)
    IN  {[after |-> [base EXCEPT !.ledger = ran.ledger], said |-> ran.said] :
            ran \in {RunOf(loop.next, base.ledger, base.now, base.keys)}}

\* The page's own timer.  A step run a second time runs on what it left the first time.
Timer ==
    /\ page.loop # NoLoop
    /\ \E ran \in Outcomes(page.loop) :
        LET i  == page.loop.next
            on == GoesOn(page.loop, ran.said)
        IN  /\ Becomes(ran.after, 0)
            /\ page' = [AfterStep(i, ran.said, ran.after)
                         EXCEPT !.loop = on, !.index = IF on = NoLoop THEN i ELSE on.next]
            /\ exact' = (i = 1 \/ (exact /\ i > Len(page.results)))
            /\ clean' = IF exact' THEN N ELSE Min({clean, i - 1})
    /\ UNCHANGED <<orphan, pending, presses>>

\* The timer of a run that was left behind: what it shows, it shows to nobody.
OrphanTimer ==
    /\ orphan # NoLoop
    /\ \E ran \in Outcomes(orphan) : Becomes(ran.after, 1) /\ orphan' = GoesOn(orphan, ran.said)
    /\ Interference /\ UNCHANGED <<page, pending, presses>>

-----------------------------------------------------------------------------
Next ==
    \/ Advance(1) \/ Advance(7) \/ ResetClock \/ ResetRegistry
    \/ \E call \in Presses(world.ledger, world.now) : Press(call)
    \/ Land
    \/ \E readable \in BOOLEAN : Reload(readable)
    \/ \E asked \in BOOLEAN : OpenReplay(asked)
    \/ LeaveReplay \/ RunOne \/ RunTheRest \/ NextStep
    \/ \E i \in 1..N : RewindTo(i)
    \/ Timer \/ OrphanTimer

Spec == Init /\ [][Next]_vars

\* Timers fire.
FairSpec == Spec /\ WF_vars(Timer)

-----------------------------------------------------------------------------
(* Properties.                                                             *)

\* What the page shows of a step is what the script says the contract must answer, refusal
\* code included (replay.ts 35-36), for every step nothing interfered with: whatever was
\* rewound, run one by one or in a row, and whatever happened later.
ResultsAreTheScripts ==
    \A i \in DOMAIN page.results : i <= clean => page.results[i] = Expected(i)

\* The ledgers the steps of the script make, one after the other, of a deployed registry.
LedgersOf(keys) ==
    LET after[m \in 0..N] ==
            IF m = 0 THEN DeployedLedger ELSE RunOf(m, after[m - 1], 0, keys).ledger
    IN  after

Script == [keys \in 1..MaxIncidents + 1 |-> LedgersOf(keys)]

\* Rewinding takes the whole world back to just before a step, block time included, even past
\* an interference (Replay.tsx 393-397): the world is what the steps shown make of a deployed
\* registry with its three parties admitted once.
RewindIsExact ==
    page.mounted /\ exact =>
        /\ world.ledger = Script[world.keys][Len(page.results)]
        /\ world.now = 0

\* Loading the page again changes nothing in the world unless the storage failed, at any
\* moment of a run (persist.ts 3-10), and never joins a ledger to secrets it was not made with.
ReloadKeepsTheWorld ==
    [][/\ Reload(TRUE) /\ writable => world' = world
       /\ ToSet(world'.ledger.members) \subseteq {Outsider, world'.keys}]_vars

\* A run of the rest gets to step seventeen unless something interferes (Replay.tsx 184-199).
RunReachesTheEnd ==
    (page.loop # NoLoop /\ page.loop.auto) ~>
        (Len(page.results) = N \/ ~page.mounted \/ clean < N)

\* A call that was good when its button was pressed is good when it lands a timer later, on the
\* same ledger, but for what the clock alone can spoil: no day that passes or comes back turns a
\* payment, a claim, a release or an answer to a request into a refusal (registry.tsx 195-201).
PressesLandAsShown ==
    pending # NoCall /\ world.ledger = pending.shown.ledger =>
        LET said(w) == Landed(pending.call, w.ledger, w.now, w.keys).said
        IN  said(pending.shown) = "ok" =>
                said(world) \in {"ok"} \cup ClockSpoils(pending.call, pending.shown.now, world.now)

\* Whatever the visitor did, in the workspaces, in the replay or to the clock: a row's button is
\* one the registry accepts, but for the three refused by name; the forms offer what the circuits
\* call free, and what stayed chosen past that is refused; paid proceeds wait behind exactly one
\* page's claim; and a press lands as it was shown, but for the clock (trade.tsx 45-49, 62-69,
\* 300-306 and 365-384, parties.tsx 122-152, disclosure.tsx 66-87 and 213-222).
WorkspacesAreHonest ==
    /\ ButtonsAreAccepted(world.ledger, world.now, world.keys)
    /\ ListsAreTheCircuits(world.ledger, world.now, world.keys)
    /\ ProceedsHaveOneButton(world.ledger, world.now, world.keys)
    /\ PressesLandAsShown
=============================================================================
