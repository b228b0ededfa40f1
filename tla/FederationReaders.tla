-------------------------- MODULE FederationReaders --------------------------
(***************************************************************************)
(* What reads the two registries of module Federation:                     *)
(*                                                                         *)
(*   lenders   clients of the SDK that ask before they accept;             *)
(*   demo      the command line's demonstration (cli/src/federation.ts);   *)
(*   panel     the web site's live check (web/src/lib/federation.ts,       *)
(*             web/src/components/Federation.tsx), with its cached reads.  *)
(***************************************************************************)
EXTENDS Federation

CONSTANTS
    Readers,        \* who reads: lenders, the demo, the panel
    Orders,         \* when lenders ask
    clerk,          \* the demonstration's lender, which banks with the peer
    control,        \* a receivable nobody offers
    Week,           \* the demonstration's offers expire so much later
    Ttl,            \* how long the panel reuses a read
    Skews,          \* how far the browser's clock may be ahead of the chain's
    MaxPresses,     \* bound: checks started in the panel
    PanelTime       \* bound on the block time while it is open

ASSUME ReadersAssumption ==
    clerk \in Financiers /\ Ttl \in Nat \ {0} /\ MaxPresses \in Nat

VARIABLES
    reader,         \* which of the three runs
    demo,           \* the demonstration: its step and what it heard
    presses,        \* the checks started, each with the loads it waits for
    loads,          \* loads[p][k]: the request for k that check p started
    cache,          \* the check that started the load the panel reuses for k, or 0
    shown,          \* the answer on the page
    skew,
    held            \* history: since when a receivable is taken up or paid, continuously

panelVars == <<presses, loads, cache, shown, skew, held>>
lenderVars == <<ask, order, torn>>
readerVars == <<ledgers, lenderVars, reader, demo, panelVars>>

-----------------------------------------------------------------------------
(* The demonstration.                                                      *)

DemoSteps ==
    <<"register-peer-a", "register-peer-b", "admit-debtor-b", "admit-lender-b", "check-before",
      "acknowledge-b", "offer-b", "double-pledge", "markers", "check-after", "check-free", "conclude">>

Checks == {"check-before", "check-after", "check-free"}
Unheard == [c \in Checks |-> NotAsking.of]
DemoOff == [step |-> 0, heard |-> Unheard, identical |-> FALSE, claimed |-> FALSE]

Doing(s) == demo.step # 0 /\ DemoSteps[demo.step] = s

DemoOffer(e) ==
    Peer!Offer(subject.seller, subject, holderTagOf(clerk, subject), now + Week, e)

DemoCall ==
    \/ Doing("register-peer-a") /\ RegisterPeer(Operator, "home", "peer")
    \/ Doing("register-peer-b") /\ RegisterPeer(PeerOperator, "peer", "home")
    \/ /\ UNCHANGED <<homeLedger, peers>>
       /\ \/ Doing("admit-debtor-b") /\ Peer!AdmitDebtor(PeerOperator, subject.debtor)
          \/ Doing("admit-lender-b") /\ Peer!AdmitFinancier(PeerOperator, clerk)
          \/ Doing("acknowledge-b") /\ Peer!Acknowledge(subject.debtor, subject)
          \/ Doing("offer-b") /\ \E e \in Ephemerals : DemoOffer(e)

\* A refusal, whatever its code, is put down to an earlier run.
DemoRefused ==
    \/ Doing("register-peer-a") /\ "peer" \in peers["home"]
    \/ Doing("register-peer-b") /\ "home" \in peers["peer"]
    \/ Doing("acknowledge-b") /\ ~Peer!FreshNumber(subject)
    \/ /\ Doing("offer-b")
       /\ ~(Peer!Offerable(subject.seller, subject, now + Week) /\ Peer!Free(subject))

RefusedAsEncumbered ==
    /\ Peer!Offerable(subject.seller, subject, now + Week)
    /\ ~Peer!Free(subject) /\ peerPledges[subject].status # "SETTLED"

NextStep == [demo EXCEPT !.step = @ + 1]

DemoStart ==
    /\ demo.step = 0 /\ ~demo.claimed
    /\ demo' = [DemoOff EXCEPT !.step = 1]
    /\ UNCHANGED <<ledgers, ask>>

DemoRecords ==
    \/ DemoCall /\ demo' = NextStep /\ UNCHANGED ask
    \/ /\ DemoRefused \/ (Doing("double-pledge") /\ RefusedAsEncumbered)
       /\ demo' = NextStep
       /\ UNCHANGED <<ledgers, ask>>

\* The lender's three checks; the last one is about the control.
DemoAsks ==
    /\ \E c \in Checks : Doing(c) /\ ask[clerk].about = None
                         /\ Ask(clerk, IF c = "check-free" THEN control ELSE subject)
    /\ UNCHANGED <<ledgers, demo>>

DemoHears == Hearing(clerk) /\ UNCHANGED <<ledgers, demo>>

DemoHeard ==
    /\ Answered(clerk)
    /\ demo' = [NextStep EXCEPT !.heard[DemoSteps[demo.step]] = ask[clerk].of]
    /\ ask' = [ask EXCEPT ![clerk] = NotAsking]
    /\ UNCHANGED ledgers

\* Both ledgers are read, and their own keys for the receivable compared.
DemoCompares ==
    /\ Doing("markers")
    /\ demo' = [NextStep EXCEPT !.identical =
                    \A r \in Registries : pledgeIn(r, subject).status # "ABSENT"]
    /\ UNCHANGED <<ledgers, ask>>

\* Mutation: what was heard before anything happened is not looked at.
ConclusiveAfter ==
    /\ encumberedAnywhere(demo.heard["check-after"])
    /\ ~encumberedAnywhere(demo.heard["check-free"])

Conclusive ==
    /\ encumberedAnywhere(demo.heard["check-before"])
    /\ encumbrance(demo.heard["check-before"]["peer"]) = "FREE"
    /\ encumberedAnywhere(demo.heard["check-after"])
    /\ ~encumberedAnywhere(demo.heard["check-free"])
    /\ demo.identical

\* The evidence is written.
DemoConcludes ==
    /\ Doing("conclude") /\ Conclusive
    /\ demo' = [demo EXCEPT !.step = 0, !.claimed = TRUE]
    /\ UNCHANGED <<ledgers, ask>>

\* The command ends: an error, a dropped connection, a call accepted that had to be refused, a
\* conclusion that does not stand.  It keeps no progress.
DemoFails ==
    /\ demo.step # 0
    /\ \/ UNCHANGED ledgers
       \/ DemoCall
       \/ /\ Doing("double-pledge") /\ UNCHANGED <<homeLedger, peers>>
          /\ \E e \in Ephemerals : DemoOffer(e)
    /\ demo' = DemoOff
    /\ ask' = [ask EXCEPT ![clerk] = NotAsking]

\* Registry A goes on meanwhile; nobody but the command is in registry B.
DemoNext ==
    \/ DemoStart \/ DemoRecords \/ DemoAsks \/ DemoHears \/ DemoHeard \/ DemoCompares
    \/ DemoConcludes \/ DemoFails
    \/ HomeStep /\ MembersStay /\ UNCHANGED <<ask, demo>>

-----------------------------------------------------------------------------
(* The panel.                                                              *)

Keys == {"head"} \cup Registries

Load(done, got) == [done |-> done, got |-> got]
NotLoading == Load("none", None)

LastPress == presses[Len(presses)]

\* Mutation: a read is reused for ever.
CachedForEver(k) == cache[k] # 0

\* A read is reused until it is Ttl old, be it still on its way.
Cached(k) == cache[k] # 0 /\ now - presses[cache[k]].at < Ttl

\* "Check again" forgets what was read; a marker's own button does not.
Press(n, fresh) ==
    LET p == Len(presses) + 1
        uses == [k \in Keys |-> IF ~fresh /\ Cached(k) THEN cache[k] ELSE p] IN
    /\ p <= MaxPresses
    /\ fresh => \E k \in Keys : cache[k] # 0
    /\ presses' = Append(presses, [marker |-> n, fresh |-> fresh, at |-> now, uses |-> uses])
    /\ loads' = [loads EXCEPT ![p] =
                    [k \in Keys |-> IF uses[k] = p THEN Load("pending", None) ELSE NotLoading]]
    /\ cache' = uses
    /\ shown' = None
    /\ held' = [r \in Registries |-> [held[r] EXCEPT !.atPress = held[r].since # None]]
    /\ UNCHANGED <<ledgers, skew>>

Pending(p, k) == loads[p][k].done = "pending"

\* The indexer answers with the latest block, or with the state of a registry.
Serve(p, k) ==
    /\ Pending(p, k)
    /\ loads' = [loads EXCEPT ![p][k] =
                    Load("ok", IF k = "head" THEN now ELSE findPledge(k, subject))]
    /\ UNCHANGED <<ledgers, presses, cache, shown, skew, held>>

\* It does not answer in time, refuses, or serves what cannot be decoded: not kept.
Lose(p, k) ==
    /\ Pending(p, k)
    /\ loads' = [loads EXCEPT ![p][k] = Load("failed", None)]
    /\ cache' = [cache EXCEPT ![k] = IF @ = p THEN 0 ELSE @]
    /\ UNCHANGED <<ledgers, presses, shown, skew, held>>

\* The chain's time if it was read, the browser's if not.
TimeOf(head) == IF head.done = "ok" THEN head.got ELSE now + skew

verdictOf(load, n, t) ==
    IF load.done = "failed" THEN "unreachable"
    ELSE CASE n # subject -> "free"
           [] encumbranceOf(load.got, t) = "ENCUMBERED" -> "encumbered"
           [] encumbranceOf(load.got, t) = "SETTLED" -> "settled"
           [] OTHER -> "free"

\* Mutation: a registry that did not answer does not count.
bitOfAnswered(verdicts) ==
    CASE "encumbered" \in verdicts -> "encumbered"
      [] "settled" \in verdicts -> "settled"
      [] OTHER -> "free"

bitOf(verdicts) ==
    CASE "encumbered" \in verdicts -> "encumbered"
      [] "settled" \in verdicts -> "settled"
      [] "unreachable" \in verdicts -> "no-answer"
      [] OTHER -> "free"

\* Mutation: an answer that comes late is shown.
CurrentAny(p) == TRUE

\* The answer of a check that is not the last one is dropped.
Current(p) == p = Len(presses)

Show(p) ==
    LET uses == presses[p].uses
        load == [k \in Keys |-> loads[uses[k]][k]]
        verdict == [r \in Registries |->
                        verdictOf(load[r], presses[p].marker, TimeOf(load["head"]))] IN
    /\ Current(p) /\ shown = None
    /\ \A k \in Keys : load[k].done \in {"ok", "failed"}
    /\ shown' = [marker |-> presses[p].marker, verdict |-> verdict,
                 read |-> [r \in Registries |-> load[r].got],
                 bit |-> bitOf({verdict[r] : r \in Registries})]
    /\ UNCHANGED <<ledgers, presses, loads, cache, skew, held>>

TakenUp(r) == pledgeIn(r, subject).status \in {"PLEDGED", "SETTLED"}
NotHeld == [since |-> None, atPress |-> FALSE]

\* Bound: the peer's book stays empty.  The panel treats all registries alike, and an empty
\* one that answers, or does not, is what it must not confuse.  Once the last check is started
\* only the clock moves, until it is answered; the clock stops at PanelTime.
LedgersMove ==
    /\ Len(presses) = MaxPresses => shown = None /\ UNCHANGED pledges
    /\ HomeStep /\ MembersStay
    /\ now' <= PanelTime
    /\ held' = [r \in Registries |->
                    CASE ~TakenUp(r)' -> NotHeld
                      [] TakenUp(r)' /\ held[r].since = None -> [NotHeld EXCEPT !.since = now]
                      [] OTHER -> held[r]]
    /\ UNCHANGED <<presses, loads, cache, shown, skew>>

PanelNext ==
    \/ \E n \in {subject, control}, fresh \in BOOLEAN :
        (presses = <<>> => n = subject) /\ Press(n, fresh)     \* bound: asked about first
    \/ \E p \in 1..Len(presses) :
        \/ \E k \in Keys : Serve(p, k) \/ Lose(p, k)
        \/ Show(p)
    \/ LedgersMove

-----------------------------------------------------------------------------

ReadersInit ==
    /\ reader \in Readers
    /\ IF reader # "demo" THEN LedgersReady
       ELSE /\ debtors = {subject.debtor} /\ financiers = Licensed("home")
            /\ acks = {subject} /\ ackNullifiers = {ackNullifierOf(subject)} /\ NothingPledged
            /\ Peer!Init
            /\ peers = [r \in Registries |-> {}]
    /\ ask = [l \in Financiers |-> NotAsking]
    /\ order \in IF reader = "lenders" THEN Orders ELSE {"before"}
    /\ torn = FALSE
    /\ demo = DemoOff
    /\ presses = <<>>
    /\ loads = [p \in 1..MaxPresses |-> [k \in Keys |-> NotLoading]]
    /\ cache = [k \in Keys |-> 0]
    /\ shown = None
    /\ skew \in IF reader = "panel" THEN Skews ELSE {0}
    /\ held = [r \in Registries |-> NotHeld]

ReadersNext ==
    /\ UNCHANGED reader
    /\ \/ reader = "lenders" /\ LendersNext /\ UNCHANGED <<demo, panelVars>>
       \/ reader = "demo" /\ DemoNext /\ UNCHANGED <<order, torn, panelVars>>
       \/ reader = "panel" /\ PanelNext /\ UNCHANGED <<lenderVars, demo>>

ReadersSpec == ReadersInit /\ [][ReadersNext]_readerVars

-----------------------------------------------------------------------------
(* Properties.                                                             *)

\* Evidence of a demonstration, however often it failed and was started again, is backed by the
\* two ledgers: each declares the other, both hold the receivable, the peer's copy is an offer
\* to the demonstration's lender, and registry A's was bound before the peer had one.
EvidenceIsOnTheLedgers ==
    demo.claimed =>
        /\ \A r \in Registries : peers[r] = OthersThan(r)
        /\ \A r \in Registries : pledgeIn(r, subject).status # "ABSENT"
        /\ subject \in peerAcks
        /\ peerPledges[subject].holderTag = holderTagOf(clerk, subject)
        /\ demo.heard["check-before"]["home"].said \in {"ENCUMBERED", "SETTLED"}

\* The panel never answers a question with the answer of another one, and never calls free what
\* has been taken up, or paid, ever since before the oldest read it may reuse: nothing older
\* than the button after "check again", nothing older than Ttl otherwise.
PanelAnswersHonestly ==
    [][shown' \notin {None, shown} =>
        /\ shown'.marker = LastPress.marker
        /\ (shown'.bit = "free" /\ shown'.marker = subject) => \A r \in Registries :
            held[r].since # None =>
                ~(LastPress.fresh /\ held[r].atPress) /\ held[r].since + Ttl > LastPress.at
      ]_readerVars

=============================================================================
