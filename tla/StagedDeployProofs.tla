-------------------------- MODULE StagedDeployProofs --------------------------
(***************************************************************************)
(* Theorems about StagedDeploy, for any list of maintenance circuits, any  *)
(* number of failures and any machine.                                     *)
(***************************************************************************)
EXTENDS StagedDeploy, FiniteSetTheorems, WellFoundedInduction, TLAPS

-----------------------------------------------------------------------------
(* The inductive invariant.                                                *)

\* The registries some progress speaks of.
Known == DOMAIN registries \ lost

\* Where a run stands: what it awaits says what is pending, and when the file is written.
RunStands ==
    /\ tab.at \in {"deploying", "deployed"} => tab.pendingDeploy
    /\ tab.at = "deploying" => Known = {}
    /\ tab.at = "deployed" => tab.first # NoTx /\ tab.last \in Known \cup {Void}
    /\ tab.at \in {"inserting", "inserted"} => tab.pendingCircuit \in Keys
    /\ tab.at = "inserted" => tab.last = tab.pendingCircuit
    /\ tab.at \in {"inserting", "inserted", "finishing", "recording"} => tab.progress.address # NoTx
    /\ tab.at \in {"idle", "recording"} => writes = <<>>
    /\ ~tab.loaded => tab.at = "idle" /\ tab.progress = NoProgress /\ ~tab.slow
    /\ tab.stale => tab.at # "idle" /\ tab.reading.progress # NoTx

\* A progress is of one of the registries rs, and names insertions by their own transactions,
\* except those of the circuits ks.
Sound(p, rs, ks) ==
    p # NoTx =>
        /\ p.address \in rs \cup {NoTx}
        /\ \A k \in Keys \ ks : p.ids[k] \in {NoTx, k}

CopiesAreSound ==
    /\ Sound(saved, DOMAIN registries, refused)
    /\ Sound(tab.progress, DOMAIN registries, refused)
    /\ Sound(tab.reading.progress, DOMAIN registries, refused)
    /\ \A i \in DOMAIN writes : Sound(writes[i], DOMAIN registries, refused)

\* A page that may deploy a registry, knowing of none, has lost all there are.
NothingElseKnown ==
    /\ \A r, s \in Known : r = s
    /\ tab.loaded /\ tab.at # "deployed" /\ KnowsNothing(tab.progress) => Known = {}
    /\ ~tab.loaded /\ KnowsNothing(tab.reading.progress) => Known = {}

\* The progress q does not forget what p holds, an address in rs aside.
Keeps(p, q, rs) ==
    p # NoTx =>
        /\ p.inserted \subseteq q.inserted
        /\ p.address \notin {NoTx} \cup rs => q.address = p.address

\* The file, what is on its way to it and what the page holds, in the order they were made.
\* A page that is stuck may be behind the file, which the operator edits under it.
OldestFirst ==
    /\ tab.loaded /\ (tab.at # "idle" \/ ~Stuck) =>
        /\ Keeps(saved, tab.progress, lost)
        /\ \A i \in DOMAIN writes : Keeps(writes[i], tab.progress, lost)
    /\ \A i \in DOMAIN writes : Keeps(saved, writes[i], lost)
    /\ \A i, j \in DOMAIN writes : i < j => Keeps(writes[i], writes[j], lost)

\* A lost registry's address is in the page's hands only because it is in the file.
LostIsSaved ==
    tab.loaded /\ tab.progress.address \in lost =>
        /\ saved # NoTx /\ saved.address = tab.progress.address
        /\ \A i \in DOMAIN writes : writes[i].address = tab.progress.address

\* What a page that was just opened is to read is what the file held, edits aside.
ReadingIsSaved ==
    ~tab.loaded =>
        IF tab.reading.progress = NoTx THEN saved = NoTx
        ELSE /\ saved # NoTx /\ saved.inserted = tab.reading.progress.inserted
             /\ tab.reading.progress.address # NoTx =>
                    saved.address = tab.reading.progress.address

RecordsAreSound ==
    \A i \in DOMAIN records : \A k \in Keys \ refused : records[i].ids[k] = k

DeployInv ==
    /\ TypeOK /\ RunStands /\ CopiesAreSound /\ NothingElseKnown /\ RecordsAreSound
    /\ ~overtaken => OldestFirst /\ LostIsSaved /\ ReadingIsSaved

-----------------------------------------------------------------------------
(* The constants.                                                          *)

LEMMA Constants ==
    /\ NoTx \notin Keys \cup Nat \cup {Void} /\ Void \notin Keys \cup Nat
    /\ NoTx \notin Tx /\ NoTx \notin Progress
    /\ MaxFailures \in Nat /\ MaxRegistries \in Nat /\ 1..MaxRegistries \subseteq Nat
    /\ Maintenance \in Seq(Keys)
  BY StagedDeployAssumption DEF StagedDeployAssumption, MaxRegistries, Tx

\* While circuits remain, one of them is the next.
LEMMA FirstIsOfThem ==
    ASSUME NEW S \in SUBSET Keys, S # {}
    PROVE  FirstOf(S) \in S
  <1> DEFINE T == {i \in DOMAIN Maintenance : Maintenance[i] \in S}
  <1>1. T # {}
    BY DEF Keys, ToSet
  <1>2. T \subseteq Nat
    BY Constants
  <1>3. PICK i \in T : \A j \in T : ~(<<j, i>> \in OpToRel(<, Nat))
    BY <1>1, <1>2, NatLessThanWellFounded, WFMin
  <1>4. \A j \in T : j \in Nat /\ i \in Nat /\ ~(j < i)
    BY <1>2, <1>3, Zenon DEF OpToRel
  <1>5. \A j \in T : i <= j
    <2> HIDE DEF T
    <2> QED BY <1>2, <1>4
  <1>6. \E k \in DOMAIN Maintenance :
            /\ Maintenance[k] \in S
            /\ \A j \in DOMAIN Maintenance : Maintenance[j] \in S => k <= j
    BY <1>5
  <1> QED BY <1>6 DEF FirstOf

-----------------------------------------------------------------------------
(* The run's bookkeeping.                                                  *)

\* What a run does to a progress: it only learns.
Follows(p, q) ==
    /\ p.inserted \subseteq q.inserted
    /\ p.txId # NoTx => q.txId = p.txId
    /\ p.address # NoTx => q.address = p.address

\* The bookkeeping leaves the rest of the page alone.
SameSession(t, u) ==
    /\ u.first = t.first /\ u.last = t.last /\ u.loaded = t.loaded /\ u.reading = t.reading
    /\ u.slow = t.slow /\ u.stale = t.stale

LEMMA CommittedFacts ==
    ASSUME NEW t \in Tab, NEW c, c = Committed(t)
    PROVE  /\ c \in Tab /\ SameSession(t, c) /\ c.at = t.at /\ c.remaining = t.remaining
           /\ Follows(t.progress, c.progress) /\ c.progress.address = t.progress.address
           /\ t.pendingDeploy /\ t.first # NoTx => c.progress.txId # NoTx
           /\ \A k \in Keys :
                \/ c.progress.ids[k] = t.progress.ids[k]
                \/ k = t.pendingCircuit /\ ~t.pendingDeploy /\ c.progress.ids[k] = t.last
  <1>1. CASE t.pendingDeploy
    <2> DEFINE p == [t.progress EXCEPT !.txId = IF @ = NoTx THEN t.first ELSE @]
    <2>1. c = [t EXCEPT !.pendingDeploy = FALSE, !.progress = p]
      BY <1>1 DEF Committed
    <2>2. /\ p \in Progress /\ p.inserted = t.progress.inserted /\ p.ids = t.progress.ids
          /\ p.address = t.progress.address
          /\ p.txId = IF t.progress.txId = NoTx THEN t.first ELSE t.progress.txId
      BY DEF Tab, Progress
    <2> HIDE DEF p
    <2>3. /\ c \in Tab /\ c.progress = p /\ c.at = t.at /\ c.remaining = t.remaining
          /\ SameSession(t, c)
      BY <2>1, <2>2 DEF Tab, SameSession
    <2> QED BY <1>1, <2>2, <2>3 DEF Follows
  <1>2. CASE ~t.pendingDeploy /\ t.pendingCircuit # NoTx
    <2> DEFINE pc == t.pendingCircuit
               ids == [t.progress.ids EXCEPT ![pc] = IF t.last = NoTx THEN @ ELSE t.last]
               p == [t.progress EXCEPT !.inserted = @ \cup {pc}, !.ids = ids]
    <2>1. c = [t EXCEPT !.pendingCircuit = NoTx, !.progress = p]
      BY <1>2 DEF Committed, Tab, Progress
    <2>2. /\ ids \in [Keys -> Tx \cup {NoTx}]
          /\ \A k \in Keys : ids[k] = t.progress.ids[k] \/ (k = pc /\ ids[k] = t.last)
      BY <1>2 DEF Tab, Progress
    <2> HIDE DEF ids
    <2>3. /\ p \in Progress /\ p.inserted = t.progress.inserted \cup {pc} /\ p.ids = ids
          /\ p.address = t.progress.address /\ p.txId = t.progress.txId
      BY <1>2, <2>2 DEF Tab, Progress
    <2> HIDE DEF p
    <2>4. /\ c \in Tab /\ c.progress = p /\ c.at = t.at /\ c.remaining = t.remaining
          /\ SameSession(t, c)
      BY <2>1, <2>3 DEF Tab, SameSession
    <2> QED BY <1>2, <2>2, <2>3, <2>4 DEF Follows
  <1>3. CASE ~t.pendingDeploy /\ t.pendingCircuit = NoTx
    BY <1>3 DEF Committed, SameSession, Follows
  <1> QED BY <1>1, <1>2, <1>3

\* What commit() and what follows it do to the page's run t.
RunsOn(t, u) ==
    /\ u \in Tab /\ SameSession(t, u)
    /\ Follows(t.progress, u.progress)
    /\ t.pendingDeploy /\ t.first # NoTx => u.progress.txId # NoTx
    /\ \A k \in Keys :
        \/ u.progress.ids[k] = t.progress.ids[k]
        \/ k = t.pendingCircuit /\ ~t.pendingDeploy /\ u.progress.ids[k] = t.last

LEMMA CaughtFacts ==
    ASSUME NEW t \in Tab, NEW u, u = Caught(t)
    PROVE  RunsOn(t, u) /\ u.at = "saving" /\ u.progress.address = t.progress.address
  <1> DEFINE c == Committed(t)
  <1>1. u = [c EXCEPT !.at = "saving"]
    BY DEF Caught
  <1>2. /\ RunsOn(t, c) /\ c.progress.address = t.progress.address
    BY CommittedFacts DEF RunsOn
  <1> HIDE DEF c
  <1>3. c \in Tab
    BY <1>2 DEF RunsOn
  <1>4. u \in Tab /\ u.at = "saving" /\ u.progress = c.progress /\ SameSession(c, u)
    BY <1>1, <1>3 DEF Tab, SameSession
  <1> QED BY <1>2, <1>4 DEF RunsOn, SameSession

LEMMA AdvancedFacts ==
    ASSUME NEW t \in Tab, NEW u, u = Advanced(t), Contract(t) \in 1..MaxRegistries
    PROVE  /\ RunsOn(t, u) /\ u.progress.address = Contract(t)
           /\ u.at \in {"inserting", "finishing"}
           /\ u.at = "inserting" => u.pendingCircuit \in Keys
  <1> DEFINE c == Committed(t)
             p == [c.progress EXCEPT !.address = Contract(t)]
             f == [p EXCEPT !.completed = TRUE]
  <1>1. /\ RunsOn(t, c) /\ c.progress.address = t.progress.address
        /\ c.remaining = t.remaining
    BY CommittedFacts DEF RunsOn
  <1>2. u = IF t.remaining = {}
            THEN [c EXCEPT !.at = "finishing", !.progress = f]
            ELSE [c EXCEPT !.at = "inserting", !.progress = p, !.pendingCircuit = FirstOf(t.remaining)]
    BY DEF Advanced, Announced, Finished
  <1> HIDE DEF c
  <1>3. c \in Tab /\ c.progress \in Progress
    BY <1>1 DEF RunsOn, Tab
  <1>4. Contract(t) = IF t.progress.address # NoTx THEN t.progress.address ELSE t.last
    BY DEF Contract
  <1>5. /\ p \in Progress /\ p.address = Contract(t) /\ p.inserted = c.progress.inserted
        /\ p.ids = c.progress.ids /\ p.txId = c.progress.txId
    BY <1>3 DEF Progress
  <1> HIDE DEF p
  <1>6. /\ f \in Progress /\ f.address = p.address /\ f.inserted = p.inserted
        /\ f.ids = p.ids /\ f.txId = p.txId
    BY <1>5 DEF Progress
  <1> HIDE DEF f
  <1>7. CASE t.remaining = {}
    <2>1. u = [c EXCEPT !.at = "finishing", !.progress = f]
      BY <1>2, <1>7
    <2>2. u \in Tab /\ u.at = "finishing" /\ u.progress = f /\ SameSession(c, u)
      BY <1>3, <1>6, <2>1 DEF Tab, SameSession
    <2> QED BY <1>1, <1>4, <1>5, <1>6, <2>2 DEF RunsOn, SameSession, Follows
  <1>8. CASE t.remaining # {}
    <2>1. FirstOf(t.remaining) \in Keys
      <3>1. t.remaining \in SUBSET Keys
        BY DEF Tab
      <3> QED BY <1>8, <3>1, FirstIsOfThem
    <2>2. u = [c EXCEPT !.at = "inserting", !.progress = p, !.pendingCircuit = FirstOf(t.remaining)]
      BY <1>2, <1>8
    <2>3. /\ u \in Tab /\ u.at = "inserting" /\ u.progress = p /\ SameSession(c, u)
          /\ u.pendingCircuit \in Keys
      BY <1>3, <1>5, <2>1, <2>2 DEF Tab, SameSession
    <2> QED BY <1>1, <1>4, <1>5, <2>3 DEF RunsOn, SameSession, Follows
  <1> QED BY <1>7, <1>8

LEMMA StartedFacts ==
    ASSUME tab \in Tab
    PROVE  /\ Started \in Tab /\ SameSession(tab, Started) /\ Started.progress = tab.progress
           /\ Started.pendingDeploy <=> tab.progress.address = NoTx
           /\ Started.pendingCircuit = NoTx
  BY DEF Started, Tab, SameSession

-----------------------------------------------------------------------------
(* A step of a run that saves its progress.                                *)

LEMMA Known_Domain ==
    ASSUME TypeOK
    PROVE  /\ DOMAIN registries = 1..Len(registries) /\ Len(registries) \in Nat
           /\ DOMAIN registries \subseteq 1..MaxRegistries
           /\ NoTx \notin DOMAIN registries /\ NoTx \notin lost /\ Void \notin DOMAIN registries
  <1>1. Len(registries) \in Nat /\ DOMAIN registries = 1..Len(registries)
    BY DEF TypeOK
  <1> QED BY <1>1, Constants DEF TypeOK

LEMMA SaveStep ==
    ASSUME DeployInv, NEW u \in Tab, Save(u), SameSession(tab, u),
           Follows(tab.progress, u.progress),
           tab.loaded, tab.at # "idle" \/ ~Stuck,
           UNCHANGED <<saved, records, lost, overtaken>>,
           registries' \in Seq([keys : SUBSET Keys, signed : BOOLEAN]),
           Len(registries') = Len(registries),
           unseen' \subseteq GivenUp,
           machine' \subseteq Troubles, failures' \in 0..MaxFailures,
           refused \subseteq refused', refused' \subseteq Keys,
           u.progress.address \in DOMAIN registries \cup {NoTx},
           u.progress.address \in lost => u.progress.address = tab.progress.address,
           \A k \in Keys \ refused' : u.progress.ids[k] \in {NoTx, k},
           u.at \in {"deploying", "inserting", "finishing", "saving"},
           u.at = "deploying" => u.pendingDeploy /\ Known = {},
           u.at = "inserting" => u.pendingCircuit \in Keys,
           u.at \in {"inserting", "finishing"} => u.progress.address # NoTx,
           tab.at = "deployed" => u.progress.txId # NoTx
    PROVE  DeployInv'
  <1>0. TypeOK
    BY DEF DeployInv
  <1>1. /\ tab' \in Tab /\ tab'.progress = u.progress /\ tab'.at = u.at
        /\ tab'.pendingDeploy = u.pendingDeploy /\ tab'.pendingCircuit = u.pendingCircuit
        /\ tab'.first = u.first /\ tab'.last = u.last /\ tab'.loaded = tab.loaded
        /\ tab'.reading \in {tab.reading, NoReading} /\ ~tab'.stale
    <2>1. tab' = [u EXCEPT !.stale = FALSE, !.reading = IF u.stale THEN NoReading ELSE @]
      BY DEF Save
    <2>2. NoReading \in Reading
      BY DEF NoReading, Reading
    <2> QED BY <2>1, <2>2 DEF Tab, SameSession
  <1>2. /\ writes \in Seq(Progress) /\ u.progress \in Progress /\ writes' \in Seq(Progress)
        /\ Len(writes) \in Nat /\ DOMAIN writes = 1..Len(writes)
        /\ DOMAIN writes' = 1..(Len(writes) + 1)
        /\ \A i \in DOMAIN writes : writes'[i] = writes[i]
        /\ writes'[Len(writes) + 1] = u.progress
    <2>1. writes' = Append(writes, u.progress) /\ u.progress \in Progress
      BY DEF Save, Tab
    <2> QED BY <1>0, <2>1 DEF TypeOK
  <1>3. DOMAIN registries' = DOMAIN registries /\ Known' = Known
    BY <1>0 DEF TypeOK, Known
  <1>4. TypeOK'
    BY <1>0, <1>1, <1>2, <1>3 DEF TypeOK
  <1>5. RunStands'
    BY <1>1, <1>3 DEF RunStands
  <1>6. CopiesAreSound'
    <2>1. \A p : Sound(p, DOMAIN registries, refused) => Sound(p, DOMAIN registries, refused')
      BY DEF Sound
    <2>2. Sound(u.progress, DOMAIN registries, refused')
      BY DEF Sound
    <2>3. Sound(NoReading.progress, DOMAIN registries, refused')
      BY DEF Sound, NoReading
    <2>4. Sound(tab.reading.progress, DOMAIN registries, refused')
      BY <2>1 DEF DeployInv, CopiesAreSound
    <2>5. Sound(saved, DOMAIN registries, refused')
          /\ \A i \in DOMAIN writes : Sound(writes[i], DOMAIN registries, refused')
      BY <2>1 DEF DeployInv, CopiesAreSound
    <2>6. \A i \in DOMAIN writes' : i \in DOMAIN writes \/ i = Len(writes) + 1
      BY <1>2
    <2> QED BY <1>1, <1>2, <1>3, <2>2, <2>3, <2>4, <2>5, <2>6 DEF CopiesAreSound
  <1>7. NothingElseKnown'
    <2>1. KnowsNothing(u.progress) => KnowsNothing(tab.progress) /\ tab.at # "deployed"
      BY <1>2, Constants DEF KnowsNothing, Follows
    <2> QED BY <1>1, <1>3, <2>1 DEF DeployInv, NothingElseKnown
  <1>8. RecordsAreSound'
    BY DEF DeployInv, RecordsAreSound
  <1>9. ASSUME ~overtaken' PROVE (OldestFirst /\ LostIsSaved /\ ReadingIsSaved)'
    <2>1. OldestFirst /\ LostIsSaved
      BY <1>9 DEF DeployInv
    <2>2. \A p : Keeps(p, tab.progress, lost) => Keeps(p, u.progress, lost)
      BY <1>0, Known_Domain DEF Keeps, Follows
    <2>3. Keeps(saved, u.progress, lost) /\ \A i \in DOMAIN writes : Keeps(writes[i], u.progress, lost)
      BY <2>1, <2>2 DEF OldestFirst
    <2>4. OldestFirst'
      <3>1. Keeps(u.progress, u.progress, lost)
        BY DEF Keeps
      <3>2. \A i \in DOMAIN writes' : i \in DOMAIN writes \/ i = Len(writes) + 1
        BY <1>2
      <3>3. \A i \in DOMAIN writes' :
                Keeps(saved, writes'[i], lost) /\ Keeps(writes'[i], u.progress, lost)
        BY <1>2, <2>1, <2>3, <3>1, <3>2 DEF OldestFirst
      <3>4. ASSUME NEW i \in DOMAIN writes', NEW j \in DOMAIN writes', i < j
            PROVE  Keeps(writes'[i], writes'[j], lost)
        <4>1. i \in DOMAIN writes
          BY <1>2, <3>4
        <4>2. CASE j \in DOMAIN writes
          BY <1>2, <2>1, <3>4, <4>1, <4>2 DEF OldestFirst
        <4>3. CASE j = Len(writes) + 1
          BY <1>2, <2>3, <4>1, <4>3
        <4> QED BY <3>2, <4>2, <4>3
      <3>5. saved' = saved /\ lost' = lost /\ tab'.progress = u.progress
        BY <1>1
      <3>6. Keeps(saved, u.progress, lost)
        BY <2>3
      <3> QED BY <3>3, <3>4, <3>5, <3>6 DEF OldestFirst
    <2>5. LostIsSaved'
      BY <1>1, <1>2, <2>1 DEF LostIsSaved
    <2>6. ReadingIsSaved'
      BY <1>1 DEF ReadingIsSaved
    <2> QED BY <2>4, <2>5, <2>6
  <1> QED BY <1>4, <1>5, <1>6, <1>7, <1>8, <1>9 DEF DeployInv

\* A run that goes on, or ends in the catch: what it commits is what it awaited.
LEMMA RunSaves ==
    ASSUME DeployInv, NEW u, RunsOn(tab, u), Save(u),
           \/ tab.at \in {"deploying", "deployed", "inserted"}
           \/ tab.at = "inserting" /\ tab.pendingCircuit \in refused',
           UNCHANGED <<saved, records, lost, overtaken, machine>>,
           registries' \in Seq([keys : SUBSET Keys, signed : BOOLEAN]),
           Len(registries') = Len(registries),
           unseen' \subseteq GivenUp,
           failures' \in 0..MaxFailures,
           refused \subseteq refused', refused' \subseteq Keys,
           \/ u.at = "saving" /\ u.progress.address = tab.progress.address
           \/ /\ u.at \in {"inserting", "finishing"} /\ u.progress.address = Contract(tab)
              /\ u.at = "inserting" => u.pendingCircuit \in Keys
              /\ tab.at \in {"deployed", "inserted"}
              /\ tab.at = "deployed" => tab.last # Void
    PROVE  DeployInv'
  <1>1. /\ TypeOK /\ u \in Tab /\ SameSession(tab, u) /\ Follows(tab.progress, u.progress)
        /\ RunStands /\ tab.loaded /\ tab.at # "idle"
    BY DEF DeployInv, RunsOn, RunStands
  <1>2. /\ tab.progress.address \in DOMAIN registries \cup {NoTx}
        /\ \A k \in Keys \ refused : tab.progress.ids[k] \in {NoTx, k}
    <2>1. tab.progress \in Progress
      BY <1>1 DEF TypeOK, Tab
    <2> QED BY <2>1, Constants DEF DeployInv, CopiesAreSound, Sound
  <1>3. /\ u.progress.address \in DOMAIN registries \cup {NoTx}
        /\ u.progress.address \in lost => u.progress.address = tab.progress.address
        /\ u.at \in {"inserting", "finishing"} => u.progress.address # NoTx
    BY <1>1, <1>2, Known_Domain DEF RunStands, Contract, Known
  <1>4. \A k \in Keys \ refused' : u.progress.ids[k] \in {NoTx, k}
    BY <1>1, <1>2 DEF RunsOn, RunStands
  <1>5. tab.at = "deployed" => u.progress.txId # NoTx
    BY <1>1 DEF RunsOn, RunStands
  <1>6. machine' \subseteq Troubles
    BY <1>1 DEF TypeOK
  <1> QED BY <1>1, <1>3, <1>4, <1>5, <1>6, SaveStep

LEMMA FailuresTyped ==
    ASSUME TypeOK, Fails \/ UNCHANGED failures PROVE failures' \in 0..MaxFailures
  BY Constants DEF TypeOK, Fails

\* What registry r carries, or whether its signing key is kept, is all that changes.
LEMMA RegistryChanges ==
    ASSUME registries \in Seq([keys : SUBSET Keys, signed : BOOLEAN]), NEW r, NEW e,
           registries' = [registries EXCEPT ![r] = e],
           r \in DOMAIN registries => e \in [keys : SUBSET Keys, signed : BOOLEAN]
    PROVE  /\ registries' \in Seq([keys : SUBSET Keys, signed : BOOLEAN])
           /\ Len(registries') = Len(registries) /\ DOMAIN registries' = DOMAIN registries
  <1> DEFINE R == [keys : SUBSET Keys, signed : BOOLEAN]
  <1>0. registries \in Seq(R) /\ (r \in DOMAIN registries => e \in R)
    OBVIOUS
  <1> HIDE DEF R
  <1>1. /\ Len(registries) \in Nat /\ DOMAIN registries = 1..Len(registries)
        /\ registries \in [1..Len(registries) -> R]
    BY <1>0
  <1>2. registries' = [i \in 1..Len(registries) |-> IF i = r THEN e ELSE registries[i]]
    BY <1>1
  <1>3. registries' \in [1..Len(registries) -> R]
    BY <1>0, <1>1, <1>2
  <1>4. registries' \in Seq(R) /\ Len(registries') = Len(registries) /\ DOMAIN registries' = DOMAIN registries
    BY <1>1, <1>3
  <1> QED BY <1>4 DEF R

LEMMA RegistrySigned ==
    ASSUME NEW x \in [keys : SUBSET Keys, signed : BOOLEAN], NEW y, y = [x EXCEPT !.signed = TRUE]
    PROVE  y \in [keys : SUBSET Keys, signed : BOOLEAN]
  OBVIOUS

LEMMA RegistryCarries ==
    ASSUME NEW x \in [keys : SUBSET Keys, signed : BOOLEAN], NEW k \in Keys,
           NEW y, y = [x EXCEPT !.keys = @ \cup {k}]
    PROVE  y \in [keys : SUBSET Keys, signed : BOOLEAN]
  OBVIOUS

LEMMA RegistryIsRecord ==
    ASSUME registries \in Seq([keys : SUBSET Keys, signed : BOOLEAN]), NEW r \in DOMAIN registries
    PROVE  registries[r] \in [keys : SUBSET Keys, signed : BOOLEAN]
  <1> DEFINE R == [keys : SUBSET Keys, signed : BOOLEAN]
  <1>1. registries \in Seq(R)
    OBVIOUS
  <1> HIDE DEF R
  <1>2. registries[r] \in R
    BY <1>1
  <1> QED BY <1>2 DEF R

LEMMA SigningKeyIsKept ==
    ASSUME registries \in Seq([keys : SUBSET Keys, signed : BOOLEAN]), NEW r, SigningKeyKept(r)
    PROVE  /\ registries' \in Seq([keys : SUBSET Keys, signed : BOOLEAN])
           /\ Len(registries') = Len(registries)
  <1> DEFINE e == [registries[r] EXCEPT !.signed = TRUE]
  <1>1. registries' = [registries EXCEPT ![r] = e]
    BY DEF SigningKeyKept
  <1>2. r \in DOMAIN registries => e \in [keys : SUBSET Keys, signed : BOOLEAN]
    BY RegistryIsRecord, RegistrySigned, Zenon
  <1> HIDE DEF e
  <1> QED BY <1>1, <1>2, RegistryChanges

LEMMA KeyIsInserted ==
    ASSUME registries \in Seq([keys : SUBSET Keys, signed : BOOLEAN]), NEW r, NEW k \in Keys,
           registries' = [registries EXCEPT ![r].keys = @ \cup {k}]
    PROVE  /\ registries' \in Seq([keys : SUBSET Keys, signed : BOOLEAN])
           /\ Len(registries') = Len(registries) /\ DOMAIN registries' = DOMAIN registries
  <1> DEFINE e == [registries[r] EXCEPT !.keys = @ \cup {k}]
  <1>1. registries' = [registries EXCEPT ![r] = e]
    OBVIOUS
  <1>2. r \in DOMAIN registries => e \in [keys : SUBSET Keys, signed : BOOLEAN]
    BY RegistryIsRecord, RegistryCarries, Zenon
  <1> HIDE DEF e
  <1> QED BY <1>1, <1>2, RegistryChanges

LEMMA StepSaves ==
    ASSUME DeployInv,
           \/ DeployRefused \/ DeployUnseen \/ AddressArrives \/ AddressLost
           \/ InsertRefused \/ InsertUnseen \/ InsertReturns \/ InsertThrows
    PROVE  DeployInv'
  <1>0. /\ TypeOK /\ RunStands /\ tab \in Tab
        /\ registries \in Seq([keys : SUBSET Keys, signed : BOOLEAN])
        /\ DOMAIN registries = 1..Len(registries) /\ DOMAIN registries \subseteq 1..MaxRegistries
    BY Known_Domain DEF DeployInv, TypeOK
  <1>1. ASSUME NEW r, SigningKeyKept(r)
        PROVE  /\ registries' \in Seq([keys : SUBSET Keys, signed : BOOLEAN])
               /\ Len(registries') = Len(registries)
    BY <1>0, <1>1, SigningKeyIsKept
  <1>2. ASSUME TypeOK
        PROVE  tab.pendingCircuit \in Keys => refused \cup {tab.pendingCircuit} \subseteq Keys
    BY <1>2 DEF TypeOK
  <1>3. CASE DeployRefused
    <2>1. failures' \in 0..MaxFailures
      BY <1>0, <1>3, FailuresTyped DEF DeployRefused, FailsIf
    <2>2. RunsOn(tab, Caught(tab)) /\ Caught(tab).at = "saving"
          /\ Caught(tab).progress.address = tab.progress.address
      BY <1>0, CaughtFacts
    <2> QED BY <1>0, <1>3, <2>1, <2>2, RunSaves DEF DeployRefused, TypeOK
  <1>4. CASE DeployUnseen
    <2>1. failures' \in 0..MaxFailures
      BY <1>0, <1>4, FailuresTyped DEF DeployUnseen
    <2>2. RunsOn(tab, Caught(tab)) /\ Caught(tab).at = "saving"
          /\ Caught(tab).progress.address = tab.progress.address
      BY <1>0, CaughtFacts
    <2>3. unseen' \subseteq GivenUp
      BY <1>0, <1>4 DEF DeployUnseen, TypeOK, GivenUp
    <2> QED BY <1>0, <1>4, <2>1, <2>2, <2>3, RunSaves DEF DeployUnseen, TypeOK
  <1>5. CASE AddressArrives
    <2>1. tab.last \in DOMAIN registries /\ Contract(tab) \in DOMAIN registries
      <3>1. tab.last \in DOMAIN registries
        BY <1>0, <1>5 DEF AddressArrives, RunStands, Known
      <3>2. tab.progress.address \in DOMAIN registries \cup {NoTx}
        BY Constants, <1>0 DEF DeployInv, CopiesAreSound, Sound, TypeOK, Tab
      <3> QED BY <3>1, <3>2 DEF Contract
    <2>2. /\ RunsOn(tab, Advanced(tab)) /\ Advanced(tab).progress.address = Contract(tab)
          /\ Advanced(tab).at \in {"inserting", "finishing"}
          /\ Advanced(tab).at = "inserting" => Advanced(tab).pendingCircuit \in Keys
      BY <1>0, <2>1, AdvancedFacts
    <2> QED BY <1>0, <1>1, <1>5, <2>2, RunSaves DEF AddressArrives, TypeOK
  <1>6. CASE AddressLost
    <2>1. failures' \in 0..MaxFailures
      BY <1>0, <1>6, FailuresTyped DEF AddressLost, FailsIf
    <2>2. RunsOn(tab, Caught(tab)) /\ Caught(tab).at = "saving"
          /\ Caught(tab).progress.address = tab.progress.address
      BY <1>0, CaughtFacts
    <2>3. /\ registries' \in Seq([keys : SUBSET Keys, signed : BOOLEAN])
          /\ Len(registries') = Len(registries)
      BY <1>0, <1>1, <1>6 DEF AddressLost
    <2> QED BY <1>0, <1>6, <2>1, <2>2, <2>3, RunSaves DEF AddressLost, TypeOK
  <1>7. CASE InsertRefused
    <2>1. failures' \in 0..MaxFailures
      BY <1>0, <1>7, FailuresTyped DEF InsertRefused, FailsIf
    <2>2. RunsOn(tab, Caught(tab)) /\ Caught(tab).at = "saving"
          /\ Caught(tab).progress.address = tab.progress.address
      BY <1>0, CaughtFacts
    <2>3. refused' = refused \cup {tab.pendingCircuit} /\ tab.pendingCircuit \in Keys
      BY <1>0, <1>7 DEF InsertRefused, RunStands
    <2> QED BY <1>0, <1>2, <1>7, <2>1, <2>2, <2>3, RunSaves DEF InsertRefused, TypeOK
  <1>8. CASE InsertUnseen
    <2>1. failures' \in 0..MaxFailures
      BY <1>0, <1>8, FailuresTyped DEF InsertUnseen
    <2>2. RunsOn(tab, Caught(tab)) /\ Caught(tab).at = "saving"
          /\ Caught(tab).progress.address = tab.progress.address
      BY <1>0, CaughtFacts
    <2>3. refused' = refused \cup {tab.pendingCircuit} /\ tab.pendingCircuit \in Keys
      BY <1>0, <1>8 DEF InsertUnseen, RunStands
    <2>4. Contract(tab) \in 1..MaxRegistries
      BY <1>0, <1>8 DEF InsertUnseen, RunStands, Contract, Tab, Progress
    <2>5. unseen' \subseteq GivenUp
      BY <1>0, <1>8, <2>3, <2>4 DEF InsertUnseen, TypeOK, GivenUp
    <2> QED BY <1>0, <1>2, <1>8, <2>1, <2>2, <2>3, <2>5, RunSaves DEF InsertUnseen, TypeOK
  <1>9. CASE InsertReturns
    <2> DEFINE t == [tab EXCEPT !.remaining = @ \ {tab.pendingCircuit}]
    <2>1. /\ t \in Tab /\ SameSession(tab, t) /\ t.progress = tab.progress /\ t.at = tab.at
          /\ t.pendingDeploy = tab.pendingDeploy /\ t.pendingCircuit = tab.pendingCircuit
          /\ t.last = tab.last
      BY <1>0 DEF Tab, SameSession
    <2>2. Contract(tab) \in 1..MaxRegistries /\ Contract(t) = Contract(tab)
      BY <1>0, <1>9, <2>1 DEF InsertReturns, RunStands, Contract, Tab, Progress
    <2> HIDE DEF t
    <2>3. /\ RunsOn(t, Advanced(t)) /\ Advanced(t).progress.address = Contract(tab)
          /\ Advanced(t).at \in {"inserting", "finishing"}
          /\ Advanced(t).at = "inserting" => Advanced(t).pendingCircuit \in Keys
      BY <2>1, <2>2, AdvancedFacts
    <2>4. RunsOn(tab, Advanced(t))
      BY <2>1, <2>3 DEF RunsOn, SameSession
    <2>5. Save(Advanced(t)) /\ tab.at = "inserted"
          /\ UNCHANGED <<registries, unseen, saved, records, machine, failures, refused, lost, overtaken>>
      BY <1>9 DEF InsertReturns, t
    <2> QED BY <1>0, <2>3, <2>4, <2>5, RunSaves DEF TypeOK
  <1>10. CASE InsertThrows
    <2>1. failures' \in 0..MaxFailures
      BY <1>0, <1>10, FailuresTyped DEF InsertThrows, FailsIf
    <2>2. RunsOn(tab, Caught(tab)) /\ Caught(tab).at = "saving"
          /\ Caught(tab).progress.address = tab.progress.address
      BY <1>0, CaughtFacts
    <2> QED BY <1>0, <1>10, <2>1, <2>2, RunSaves DEF InsertThrows, TypeOK
  <1> QED BY <1>3, <1>4, <1>5, <1>6, <1>7, <1>8, <1>9, <1>10

-----------------------------------------------------------------------------
(* Pressing the button.                                                    *)

LEMMA PressSaves ==
    ASSUME DeployInv, Press
    PROVE  DeployInv'
  <1>0. /\ TypeOK /\ RunStands /\ tab \in Tab /\ Startable
        /\ UNCHANGED <<registries, unseen, saved, records, machine, failures, refused, lost, overtaken>>
    BY DEF DeployInv, TypeOK, Press, StartDeploy, Resume
  <1>1. /\ tab.at = "idle" /\ tab.loaded /\ ~Stuck /\ tab.progress \in Progress
    BY <1>0 DEF Startable, Tab
  <1>2. /\ tab.progress.address \in DOMAIN registries \cup {NoTx}
        /\ \A k \in Keys \ refused : tab.progress.ids[k] \in {NoTx, k}
    BY <1>1, Constants DEF DeployInv, CopiesAreSound, Sound
  <1>3. DOMAIN registries \subseteq 1..MaxRegistries
    BY <1>0, Known_Domain
  <1>4. /\ Started \in Tab /\ SameSession(tab, Started) /\ Started.progress = tab.progress
        /\ Started.pendingDeploy <=> tab.progress.address = NoTx
        /\ Started.pendingCircuit = NoTx
    BY <1>0, StartedFacts
  <1>5. /\ registries' \in Seq([keys : SUBSET Keys, signed : BOOLEAN])
        /\ Len(registries') = Len(registries)
        /\ unseen' \subseteq GivenUp
        /\ machine' \subseteq Troubles /\ failures' \in 0..MaxFailures
        /\ refused \subseteq refused' /\ refused' \subseteq Keys
    BY <1>0 DEF TypeOK
  <1>6. CASE StartDeploy
    <2> DEFINE c == Committed(Started)
               u == [c EXCEPT !.at = "deploying", !.pendingDeploy = TRUE]
    <2>1. /\ c \in Tab /\ SameSession(Started, c)
          /\ Follows(Started.progress, c.progress) /\ c.progress.address = Started.progress.address
          /\ \A k \in Keys :
                \/ c.progress.ids[k] = Started.progress.ids[k]
                \/ k = Started.pendingCircuit
      BY <1>4, CommittedFacts
    <2>2. Save(u) /\ tab.progress.address = NoTx
      BY <1>6 DEF StartDeploy
    <2> HIDE DEF c
    <2>3. /\ u \in Tab /\ SameSession(c, u) /\ u.progress = c.progress /\ u.at = "deploying"
          /\ u.pendingDeploy
      BY <2>1 DEF Tab, SameSession
    <2> HIDE DEF u
    <2>4. SameSession(tab, u) /\ Follows(tab.progress, u.progress) /\ u.progress.address = NoTx
      BY <1>4, <2>1, <2>2, <2>3 DEF SameSession
    <2>5. \A k \in Keys \ refused' : u.progress.ids[k] \in {NoTx, k}
      BY <1>0, <1>2, <1>4, <2>1, <2>3, Constants
    <2>6. Known = {}
      BY <1>1, <2>2 DEF DeployInv, NothingElseKnown, Stuck, KnowsNothing
    <2>7. NoTx \notin lost
      BY <1>0, Known_Domain
    <2> QED BY <1>0, <1>1, <1>5, <2>2, <2>3, <2>4, <2>5, <2>6, <2>7, SaveStep
  <1>7. CASE Resume
    <2> DEFINE u == Advanced(Started)
    <2>1. Save(u) /\ tab.progress.address # NoTx /\ Contract(Started) = tab.progress.address
      BY <1>4, <1>7 DEF Resume, Contract
    <2>2. /\ RunsOn(Started, u) /\ u.progress.address = tab.progress.address
          /\ u.at \in {"inserting", "finishing"}
          /\ u.at = "inserting" => u.pendingCircuit \in Keys
      BY <1>2, <1>3, <1>4, <2>1, AdvancedFacts
    <2> HIDE DEF u
    <2>3. u \in Tab /\ SameSession(tab, u) /\ Follows(tab.progress, u.progress)
      BY <1>4, <2>2 DEF RunsOn, SameSession
    <2>4. \A k \in Keys \ refused' : u.progress.ids[k] \in {NoTx, k}
      BY <1>0, <1>2, <1>4, <2>2, Constants DEF RunsOn
    <2> QED BY <1>0, <1>1, <1>2, <1>5, <2>1, <2>2, <2>3, <2>4, SaveStep
  <1> QED BY <1>6, <1>7 DEF Press

-----------------------------------------------------------------------------
(* Steps that change no progress.                                          *)

LEMMA QuietStep ==
    ASSUME DeployInv, tab' \in Tab, tab'.progress = tab.progress, tab'.loaded = tab.loaded,
           tab'.reading \in {tab.reading, NoReading}, tab'.reading = tab.reading \/ tab.loaded,
           tab'.at # "idle" => tab.at # "idle",
           tab.at = "deployed" => tab'.at = "deployed",
           UNCHANGED <<saved, writes, refused, lost, overtaken>>,
           registries' \in Seq([keys : SUBSET Keys, signed : BOOLEAN]),
           Len(registries') = Len(registries),
           records' \in Seq([registry : 1..MaxRegistries, ids : [Keys -> Tx]]),
           unseen' \subseteq GivenUp,
           machine' \subseteq Troubles, failures' \in 0..MaxFailures,
           RunStands', RecordsAreSound'
    PROVE  DeployInv'
  <1>0. TypeOK
    BY DEF DeployInv
  <1>1. DOMAIN registries' = DOMAIN registries /\ Known' = Known
    BY <1>0 DEF TypeOK, Known
  <1>2. TypeOK'
    BY <1>0, <1>1 DEF TypeOK
  <1>3. CopiesAreSound'
    <2>1. Sound(NoReading.progress, DOMAIN registries, refused)
      BY DEF Sound, NoReading
    <2> QED BY <1>1, <2>1 DEF DeployInv, CopiesAreSound
  <1>4. NothingElseKnown'
    BY <1>1 DEF DeployInv, NothingElseKnown
  <1>5. ASSUME ~overtaken' PROVE (OldestFirst /\ LostIsSaved /\ ReadingIsSaved)'
    <2>1. OldestFirst /\ LostIsSaved /\ ReadingIsSaved
      BY <1>5 DEF DeployInv
    <2>2. OldestFirst'
      BY <2>1 DEF OldestFirst, Stuck
    <2>3. LostIsSaved'
      BY <2>1 DEF LostIsSaved
    <2>4. ReadingIsSaved'
      BY <2>1 DEF ReadingIsSaved
    <2> QED BY <2>2, <2>3, <2>4
  <1> QED BY <1>2, <1>3, <1>4, <1>5 DEF DeployInv

\* The page once transaction x is in a block.
LEMMA SubmittedFacts ==
    ASSUME tab \in Tab, NEW x \in Tx, NEW a \in {"deployed", "inserted"},
           tab' = [Submitted(x) EXCEPT !.at = a]
    PROVE  /\ tab' \in Tab /\ tab'.at = a /\ tab'.progress = tab.progress
           /\ tab'.loaded = tab.loaded /\ tab'.reading = tab.reading
           /\ tab'.pendingDeploy = tab.pendingDeploy
           /\ tab'.pendingCircuit = tab.pendingCircuit /\ tab'.first # NoTx /\ tab'.last = x
           /\ tab'.stale = tab.stale
  <1>1. x # NoTx
    BY Constants
  <1> QED BY <1>1 DEF Submitted, Tab

LEMMA RunIsQuiet ==
    ASSUME DeployInv, DeployCreatesNothing \/ InsertLands \/ WriteRecord
    PROVE  DeployInv'
  <1>0. /\ TypeOK /\ RunStands /\ RecordsAreSound /\ tab \in Tab /\ tab.progress \in Progress
    BY DEF DeployInv, TypeOK, Tab
  <1>1. ASSUME UNCHANGED <<registries, records, refused, unseen, machine>>
        PROVE  /\ registries' \in Seq([keys : SUBSET Keys, signed : BOOLEAN])
               /\ Len(registries') = Len(registries)
               /\ records' \in Seq([registry : 1..MaxRegistries, ids : [Keys -> Tx]])
               /\ unseen' \subseteq GivenUp
               /\ machine' \subseteq Troubles /\ RecordsAreSound'
    BY <1>0, <1>1 DEF TypeOK, RecordsAreSound
  <1>2. CASE DeployCreatesNothing
    <2>1. Void \in Tx
      BY DEF Tx
    <2>2. /\ tab.at = "deploying" /\ Fails /\ tab' = [Submitted(Void) EXCEPT !.at = "deployed"]
          /\ UNCHANGED <<registries, unseen, saved, writes, records, machine, refused, lost, overtaken>>
      BY <1>2 DEF DeployCreatesNothing
    <2>3. failures' \in 0..MaxFailures
      BY <1>0, <2>2, FailuresTyped
    <2>4. /\ tab' \in Tab /\ tab'.at = "deployed" /\ tab'.progress = tab.progress
          /\ tab'.loaded = tab.loaded /\ tab'.reading = tab.reading
          /\ tab'.pendingDeploy = tab.pendingDeploy
          /\ tab'.pendingCircuit = tab.pendingCircuit /\ tab'.first # NoTx /\ tab'.last = Void /\ tab'.stale = tab.stale
      <3>1. "deployed" \in {"deployed", "inserted"}
        OBVIOUS
      <3>2. tab' = [Submitted(Void) EXCEPT !.at = "deployed"]
        BY <2>2
      <3> QED BY <1>0, <2>1, <3>1, <3>2, SubmittedFacts, Zenon
    <2>5. RunStands'
      BY <1>0, <2>2, <2>4 DEF RunStands
    <2> QED BY <1>1, <2>2, <2>3, <2>4, <2>5, QuietStep
  <1>3. CASE InsertLands
    <2> DEFINE k == tab.pendingCircuit
    <2>1. /\ tab.at = "inserting" /\ tab' = [Submitted(k) EXCEPT !.at = "inserted"]
          /\ registries' = [registries EXCEPT ![Contract(tab)].keys = @ \cup {k}]
          /\ UNCHANGED <<unseen, saved, writes, records, machine, failures, refused, lost, overtaken>>
      BY <1>3 DEF InsertLands
    <2>2. k \in Keys /\ k \in Tx
      BY <1>0, <2>1 DEF RunStands, Tx
    <2>3. /\ registries' \in Seq([keys : SUBSET Keys, signed : BOOLEAN])
          /\ Len(registries') = Len(registries) /\ DOMAIN registries' = DOMAIN registries
      BY <1>0, <2>1, <2>2, KeyIsInserted DEF TypeOK
    <2>4. /\ tab' \in Tab /\ tab'.at = "inserted" /\ tab'.progress = tab.progress
          /\ tab'.loaded = tab.loaded /\ tab'.reading = tab.reading
          /\ tab'.pendingDeploy = tab.pendingDeploy
          /\ tab'.pendingCircuit = k /\ tab'.first # NoTx /\ tab'.last = k /\ tab'.stale = tab.stale
      <3>1. "inserted" \in {"deployed", "inserted"}
        OBVIOUS
      <3>2. tab' = [Submitted(k) EXCEPT !.at = "inserted"]
        BY <2>1
      <3> QED BY <1>0, <2>2, <3>1, <3>2, SubmittedFacts, Zenon
    <2> HIDE DEF k
    <2>5. RunStands'
      BY <1>0, <2>1, <2>2, <2>4 DEF RunStands
    <2>6. /\ records' \in Seq([registry : 1..MaxRegistries, ids : [Keys -> Tx]])
          /\ unseen' \subseteq GivenUp
          /\ machine' \subseteq Troubles /\ failures' \in 0..MaxFailures /\ RecordsAreSound'
      BY <1>0, <2>1 DEF TypeOK, RecordsAreSound
    <2> QED BY <2>1, <2>3, <2>4, <2>5, <2>6, QuietStep
  <1>4. CASE WriteRecord
    <2> DEFINE rec == [registry |-> tab.progress.address, ids |-> tab.progress.ids]
    <2>1. /\ tab.at = "recording" /\ \A k \in Keys : tab.progress.ids[k] # NoTx
          /\ records' = Append(records, rec)
          /\ tab' = [tab EXCEPT !.at = "idle", !.recorded = TRUE, !.stale = FALSE,
                                !.reading = IF tab.stale THEN NoReading ELSE @]
          /\ UNCHANGED <<registries, unseen, saved, writes, machine, failures, refused, lost, overtaken>>
      BY <1>4 DEF WriteRecord
    <2>2. /\ tab' \in Tab /\ tab'.at = "idle" /\ tab'.progress = tab.progress
          /\ tab'.loaded = tab.loaded /\ tab'.reading \in {tab.reading, NoReading} /\ ~tab'.stale
      <3>1. NoReading \in Reading
        BY DEF NoReading, Reading
      <3> QED BY <1>0, <2>1, <3>1 DEF Tab
    <2>3. RunStands'
      BY <1>0, <2>1, <2>2 DEF RunStands
    <2>4. /\ tab.progress.address \in 1..MaxRegistries
          /\ tab.progress.ids \in [Keys -> Tx]
          /\ \A k \in Keys \ refused : tab.progress.ids[k] = k
      <3>1. tab.progress.address \in 1..MaxRegistries
        BY <1>0, <2>1 DEF RunStands, Progress
      <3>2. tab.progress.ids \in [Keys -> Tx]
        BY <1>0, <2>1 DEF Progress
      <3>3. \A k \in Keys \ refused : tab.progress.ids[k] \in {NoTx, k}
        BY <1>0, Constants DEF DeployInv, CopiesAreSound, Sound
      <3> QED BY <2>1, <3>1, <3>2, <3>3
    <2>5. /\ rec \in [registry : 1..MaxRegistries, ids : [Keys -> Tx]]
          /\ rec.ids = tab.progress.ids
      BY <2>4
    <2>6. records' = Append(records, rec)
      BY <2>1
    <2> HIDE DEF rec
    <2>7. records \in Seq([registry : 1..MaxRegistries, ids : [Keys -> Tx]])
      BY <1>0 DEF TypeOK
    <2>8. /\ records' \in Seq([registry : 1..MaxRegistries, ids : [Keys -> Tx]])
          /\ \A i \in DOMAIN records' :
                \/ i \in DOMAIN records /\ records'[i] = records[i]
                \/ records'[i] = rec
      BY <2>5, <2>6, <2>7
    <2>9. RecordsAreSound'
      <3>1. refused' = refused
        BY <2>1
      <3> QED BY <1>0, <2>4, <2>5, <2>8, <3>1 DEF RecordsAreSound
    <2>10. tab.loaded
      BY <1>0, <2>1 DEF RunStands
    <2>11. /\ registries' \in Seq([keys : SUBSET Keys, signed : BOOLEAN])
           /\ Len(registries') = Len(registries)
           /\ unseen' \subseteq GivenUp
           /\ machine' \subseteq Troubles /\ failures' \in 0..MaxFailures
      BY <1>0, <2>1 DEF TypeOK
    <2> QED BY <2>1, <2>2, <2>3, <2>8, <2>9, <2>10, <2>11, QuietStep
  <1> QED BY <1>2, <1>3, <1>4

LEMMA BesideTheRun ==
    ASSUME DeployInv, Connect \/ DryRun \/ LateInsert \/ Breaks \/ Mends
    PROVE  DeployInv'
  <1>0. /\ TypeOK /\ RunStands /\ RecordsAreSound /\ tab \in Tab
    BY DEF DeployInv, TypeOK
  <1>1. CASE Connect
    <2>1. /\ tab.at = "idle"
          /\ tab' = [tab EXCEPT !.session = IF "dust" \in machine THEN "short" ELSE "nothing",
                                !.first = NoTx, !.last = NoTx]
          /\ UNCHANGED <<registries, unseen, saved, writes, records, machine, failures, refused, lost, overtaken>>
      BY <1>1 DEF Connect
    <2>2. /\ tab' \in Tab /\ tab'.at = "idle" /\ tab'.progress = tab.progress
          /\ tab'.loaded = tab.loaded /\ tab'.reading = tab.reading /\ tab'.stale = tab.stale
          /\ tab'.slow = tab.slow
      BY <1>0, <2>1 DEF Tab, Holdings
    <2>3. RunStands'
      BY <1>0, <2>1, <2>2 DEF RunStands
    <2>4. RecordsAreSound'
      BY <1>0, <2>1 DEF RecordsAreSound
    <2> QED BY <1>0, <2>1, <2>2, <2>3, <2>4, QuietStep DEF TypeOK
  <1>2. CASE DryRun
    <2> DEFINE d == dryRun(serverPreflight(machine, records # <<>>), machine, tab.session)
    <2>1. /\ tab.at = "idle" /\ tab.session # "none" /\ tab' = [tab EXCEPT !.dry = d]
          /\ UNCHANGED <<registries, unseen, saved, writes, records, machine, failures, refused, lost, overtaken>>
      BY <1>2 DEF DryRun
    <2>2. d \in {"none", "blocked", "warnings", "ready"}
      BY DEF dryRun
    <2> HIDE DEF d
    <2>3. /\ tab' \in Tab /\ tab'.at = "idle" /\ tab'.progress = tab.progress
          /\ tab'.loaded = tab.loaded /\ tab'.reading = tab.reading /\ tab'.stale = tab.stale
          /\ tab'.slow = tab.slow
      BY <1>0, <2>1, <2>2 DEF Tab
    <2>4. RunStands'
      BY <1>0, <2>1, <2>3 DEF RunStands
    <2>5. RecordsAreSound'
      BY <1>0, <2>1 DEF RecordsAreSound
    <2> QED BY <1>0, <2>1, <2>3, <2>4, <2>5, QuietStep DEF TypeOK
  <1>3. CASE LateInsert
    <2>1. PICK s \in unseen :
            /\ s.registry # NoTx
            /\ registries' = [registries EXCEPT ![s.registry].keys = @ \cup {s.key}]
            /\ unseen' = unseen \ {s}
            /\ UNCHANGED <<saved, writes, records, tab, machine, failures, refused, lost, overtaken>>
      BY <1>3 DEF LateInsert
    <2>2. s.key \in Keys
      BY <1>0, <2>1 DEF TypeOK, GivenUp, GivenUpDeploy
    <2>3. /\ registries' \in Seq([keys : SUBSET Keys, signed : BOOLEAN])
          /\ Len(registries') = Len(registries) /\ DOMAIN registries' = DOMAIN registries
      BY <1>0, <2>1, <2>2, KeyIsInserted DEF TypeOK
    <2>4. Known' = Known
      BY <2>1, <2>3 DEF Known
    <2>5. RunStands'
      BY <1>0, <2>1, <2>4 DEF RunStands
    <2>6. RecordsAreSound'
      BY <1>0, <2>1 DEF RecordsAreSound
    <2>7. unseen' \subseteq GivenUp
      BY <1>0, <2>1 DEF TypeOK
    <2>8. /\ tab' \in Tab /\ machine' \subseteq Troubles /\ failures' \in 0..MaxFailures
          /\ records' \in Seq([registry : 1..MaxRegistries, ids : [Keys -> Tx]])
      BY <1>0, <2>1 DEF TypeOK
    <2> QED BY <2>1, <2>3, <2>5, <2>6, <2>7, <2>8, QuietStep
  <1>4. CASE Breaks \/ Mends
    <2>1. /\ UNCHANGED <<registries, unseen, saved, writes, records, tab, refused, lost, overtaken>>
          /\ failures' \in 0..MaxFailures /\ machine' \subseteq Troubles
      <3>1. CASE Breaks
        BY <1>0, <3>1, FailuresTyped DEF Breaks, TypeOK
      <3>2. CASE Mends
        BY <1>0, <3>2 DEF Mends, TypeOK
      <3> QED BY <1>4, <3>1, <3>2
    <2>2. RunStands' /\ RecordsAreSound'
      BY <1>0, <2>1 DEF RunStands, RecordsAreSound, Known
    <2> QED BY <1>0, <2>1, <2>2, QuietStep DEF TypeOK
  <1> QED BY <1>1, <1>2, <1>3, <1>4

-----------------------------------------------------------------------------
(* A registry is created.                                                  *)

LEMMA RegistryCreated ==
    ASSUME TypeOK, Len(registries) < MaxRegistries, registries' = Append(registries, Deployed)
    PROVE  /\ registries' \in Seq([keys : SUBSET Keys, signed : BOOLEAN])
           /\ Len(registries') <= MaxRegistries
           /\ DOMAIN registries' = DOMAIN registries \cup {Len(registries) + 1}
           /\ Len(registries) + 1 \in 1..MaxRegistries
           /\ Len(registries) + 1 \notin DOMAIN registries
           /\ Len(registries) + 1 \notin lost
  <1> DEFINE R == [keys : SUBSET Keys, signed : BOOLEAN]
  <1>1. Deployed \in R
    BY DEF Deployed
  <1>2. registries \in Seq(R) /\ lost \subseteq DOMAIN registries
    BY DEF TypeOK
  <1> HIDE DEF R
  <1>3. /\ registries' \in Seq(R) /\ Len(registries') = Len(registries) + 1
        /\ Len(registries) \in Nat /\ DOMAIN registries = 1..Len(registries)
        /\ DOMAIN registries' = 1..(Len(registries) + 1)
    BY <1>1, <1>2
  <1>4. 1..(Len(registries) + 1) = 1..Len(registries) \cup {Len(registries) + 1}
    BY <1>3
  <1>5. /\ Len(registries) + 1 \notin 1..Len(registries) /\ Len(registries) + 1 \in 1..MaxRegistries
        /\ Len(registries') <= MaxRegistries
    BY <1>3, Constants
  <1>6. registries' \in Seq([keys : SUBSET Keys, signed : BOOLEAN])
    BY <1>3 DEF R
  <1> QED BY <1>2, <1>3, <1>4, <1>5, <1>6

LEMMA DeployLandsKeeps ==
    ASSUME DeployInv, DeployLands
    PROVE  DeployInv'
  <1> DEFINE n == Len(registries) + 1
  <1>0. /\ TypeOK /\ RunStands /\ tab \in Tab /\ tab.at = "deploying" /\ tab.loaded
        /\ Len(registries) < MaxRegistries /\ registries' = Append(registries, Deployed)
        /\ tab' = [Submitted(n) EXCEPT !.at = "deployed"]
        /\ UNCHANGED <<unseen, saved, writes, records, machine, failures, refused, lost, overtaken>>
    BY DEF DeployInv, TypeOK, RunStands, DeployLands
  <1>1. /\ registries' \in Seq([keys : SUBSET Keys, signed : BOOLEAN])
        /\ Len(registries') <= MaxRegistries
        /\ DOMAIN registries' = DOMAIN registries \cup {n}
        /\ n \in 1..MaxRegistries /\ n \notin lost
    BY <1>0, RegistryCreated
  <1> HIDE DEF n
  <1>2. Known' = {n}
    <2>1. Known = {} /\ lost' = lost
      BY <1>0 DEF RunStands
    <2> QED BY <1>1, <2>1 DEF Known
  <1>3. /\ tab' \in Tab /\ tab'.at = "deployed" /\ tab'.progress = tab.progress
        /\ tab'.loaded = tab.loaded /\ tab'.reading = tab.reading
        /\ tab'.pendingDeploy = tab.pendingDeploy
        /\ tab'.pendingCircuit = tab.pendingCircuit /\ tab'.first # NoTx /\ tab'.last = n /\ tab'.stale = tab.stale
    <2>1. n \in Tx /\ "deployed" \in {"deployed", "inserted"}
      BY <1>1 DEF Tx
    <2> QED BY <1>0, <2>1, SubmittedFacts
  <1>4. TypeOK'
    BY <1>0, <1>1, <1>3 DEF TypeOK
  <1>5. RunStands'
    <2>1. tab.pendingDeploy
      BY <1>0 DEF RunStands
    <2>2. tab'.last \in Known'
      BY <1>2, <1>3
    <2>3. tab'.loaded /\ tab'.pendingDeploy
      BY <1>0, <1>3, <2>1, Zenon
    <2>4. tab'.stale => tab'.reading.progress # NoTx
      <3>1. tab.stale => tab.reading.progress # NoTx
        BY <1>0 DEF RunStands
      <3> QED BY <1>3, <3>1, Zenon
    <2> QED BY <1>3, <2>2, <2>3, <2>4 DEF RunStands
  <1>6. CopiesAreSound'
    <2>1. \A p : Sound(p, DOMAIN registries, refused) => Sound(p, DOMAIN registries', refused')
      BY <1>0, <1>1 DEF Sound
    <2> QED BY <1>0, <1>3, <2>1 DEF DeployInv, CopiesAreSound
  <1>7. NothingElseKnown'
    BY <1>0, <1>2, <1>3 DEF NothingElseKnown
  <1>8. RecordsAreSound'
    BY <1>0 DEF DeployInv, RecordsAreSound
  <1>9. ASSUME ~overtaken' PROVE (OldestFirst /\ LostIsSaved /\ ReadingIsSaved)'
    <2>1. OldestFirst /\ LostIsSaved /\ ReadingIsSaved
      BY <1>0, <1>9 DEF DeployInv
    <2>2. OldestFirst'
      BY <1>0, <1>3, <2>1 DEF OldestFirst, Stuck
    <2>3. LostIsSaved'
      BY <1>0, <1>3, <2>1 DEF LostIsSaved
    <2>4. ReadingIsSaved'
      BY <1>0, <1>3, <2>1 DEF ReadingIsSaved
    <2> QED BY <2>2, <2>3, <2>4
  <1> QED BY <1>4, <1>5, <1>6, <1>7, <1>8, <1>9 DEF DeployInv

\* A registry that comes too late is lost from the start.
LEMMA LateDeployKeeps ==
    ASSUME DeployInv, LateDeploy
    PROVE  DeployInv'
  <1> DEFINE n == Len(registries) + 1
  <1>0. /\ TypeOK /\ RunStands /\ tab \in Tab
        /\ Len(registries) < MaxRegistries /\ registries' = Append(registries, Deployed)
        /\ lost' = lost \cup {n} /\ unseen' \subseteq unseen
        /\ UNCHANGED <<saved, writes, records, tab, machine, failures, refused, overtaken>>
    BY DEF DeployInv, TypeOK, LateDeploy
  <1>1. /\ registries' \in Seq([keys : SUBSET Keys, signed : BOOLEAN])
        /\ Len(registries') <= MaxRegistries
        /\ DOMAIN registries' = DOMAIN registries \cup {n}
        /\ n \notin DOMAIN registries
    BY <1>0, RegistryCreated
  <1> HIDE DEF n
  <1>2. Known' = Known
    BY <1>0, <1>1 DEF Known
  <1>3. TypeOK'
    BY <1>0, <1>1 DEF TypeOK
  <1>4. RunStands'
    BY <1>0, <1>2 DEF RunStands
  <1>5. CopiesAreSound'
    <2>1. \A p : Sound(p, DOMAIN registries, refused) => Sound(p, DOMAIN registries', refused')
      BY <1>0, <1>1 DEF Sound
    <2> QED BY <1>0, <2>1 DEF DeployInv, CopiesAreSound
  <1>6. NothingElseKnown'
    BY <1>0, <1>2 DEF DeployInv, NothingElseKnown
  <1>7. RecordsAreSound'
    BY <1>0 DEF DeployInv, RecordsAreSound
  <1>8. ASSUME ~overtaken' PROVE (OldestFirst /\ LostIsSaved /\ ReadingIsSaved)'
    <2>1. OldestFirst /\ LostIsSaved /\ ReadingIsSaved
      BY <1>0, <1>8 DEF DeployInv
    <2>2. \A p, q : Keeps(p, q, lost) => Keeps(p, q, lost')
      BY <1>0 DEF Keeps
    <2>3. OldestFirst'
      <3>1. UNCHANGED <<saved, writes, tab>>
        BY <1>0
      <3> QED BY <2>1, <2>2, <3>1 DEF OldestFirst, Stuck
    <2>4. LostIsSaved'
      <3>1. tab.progress.address \in lost' => tab.progress.address \in lost \/ tab.progress.address = n
        BY <1>0
      <3>2. tab.progress \in Progress /\ Sound(tab.progress, DOMAIN registries, refused)
        BY <1>0 DEF Tab, DeployInv, CopiesAreSound
      <3>3. tab.progress.address \in DOMAIN registries \cup {NoTx}
        BY <3>2, Constants DEF Sound
      <3>4. n # NoTx
        BY <1>0, Known_Domain, Constants DEF n
      <3> QED BY <1>0, <1>1, <2>1, <3>1, <3>3, <3>4 DEF LostIsSaved
    <2>5. ReadingIsSaved'
      BY <1>0, <2>1 DEF ReadingIsSaved
    <2> QED BY <2>3, <2>4, <2>5
  <1> QED BY <1>3, <1>4, <1>5, <1>6, <1>7, <1>8 DEF DeployInv

\* The operator looks the deploy transaction up.
LEMMA EditKeeps ==
    ASSUME DeployInv, EditFile
    PROVE  DeployInv'
  <1>0. /\ TypeOK /\ RunStands /\ tab \in Tab /\ tab.at = "idle" /\ writes = <<>>
        /\ saved # NoTx /\ saved.txId # NoTx /\ saved.address = NoTx
        /\ UNCHANGED <<registries, unseen, writes, records, tab, machine, refused, lost, overtaken>>
    BY DEF DeployInv, TypeOK, EditFile
  <1>1. failures' \in 0..MaxFailures
    BY <1>0, FailuresTyped DEF EditFile, FailsIf
  <1>2. saved \in Progress
    BY <1>0 DEF TypeOK
  <1>3. ASSUME NEW r \in DOMAIN registries, saved' = [saved EXCEPT !.address = r]
        PROVE  /\ saved' \in Progress /\ saved'.inserted = saved.inserted
               /\ saved'.ids = saved.ids /\ saved'.address = r
    <2>1. r \in 1..MaxRegistries
      BY <1>0, Known_Domain
    <2> QED BY <1>2, <1>3, <2>1 DEF Progress
  <1>4. ASSUME saved' = [saved EXCEPT !.txId = NoTx]
        PROVE  /\ saved' \in Progress /\ saved'.inserted = saved.inserted
               /\ saved'.ids = saved.ids /\ saved'.address = NoTx
    BY <1>0, <1>2, <1>4 DEF Progress
  <1>5. /\ saved' \in Progress /\ saved'.inserted = saved.inserted
        /\ saved'.ids = saved.ids /\ saved'.address \in DOMAIN registries \cup {NoTx}
    <2>1. CASE saved' = Edited
      <3>1. CASE saved.txId \in DOMAIN registries
        <4>1. saved' = [saved EXCEPT !.address = saved.txId]
          BY <2>1, <3>1 DEF Edited
        <4> QED BY <1>3, <3>1, <4>1
      <3>2. CASE saved.txId \notin DOMAIN registries
        <4>1. saved' = [saved EXCEPT !.txId = NoTx]
          BY <2>1, <3>2 DEF Edited
        <4> QED BY <1>4, <4>1
      <3> QED BY <3>1, <3>2
    <2>2. CASE \E r \in DOMAIN registries \ lost : saved' = [saved EXCEPT !.address = r]
      BY <1>3, <2>2
    <2> QED BY <2>1, <2>2 DEF EditFile
  <1>6. TypeOK'
    BY <1>0, <1>1, <1>5 DEF TypeOK
  <1>7. RunStands'
    BY <1>0 DEF RunStands, Known
  <1>8. CopiesAreSound'
    <2>1. Sound(saved', DOMAIN registries, refused)
      BY <1>0, <1>5 DEF DeployInv, CopiesAreSound, Sound
    <2> QED BY <1>0, <2>1 DEF DeployInv, CopiesAreSound
  <1>9. NothingElseKnown'
    BY <1>0 DEF DeployInv, NothingElseKnown, Known
  <1>10. RecordsAreSound'
    BY <1>0 DEF DeployInv, RecordsAreSound
  <1>11. ASSUME ~overtaken' PROVE (OldestFirst /\ LostIsSaved /\ ReadingIsSaved)'
    <2>1. OldestFirst /\ LostIsSaved /\ ReadingIsSaved
      BY <1>0, <1>11 DEF DeployInv
    <2>2. tab.loaded /\ ~Stuck => Keeps(saved', tab.progress, lost)
      <3>1. SUFFICES ASSUME tab.loaded, ~Stuck, saved'.address \notin {NoTx} \cup lost
                     PROVE  tab.progress.address = saved'.address
        BY <1>0, <2>1 , <1>5 DEF OldestFirst, Keeps
      <3>2. saved'.address \in Known
        BY <1>5, <3>1 DEF Known
      <3>3. tab.progress.address # NoTx
        BY <1>0, <3>1, <3>2 DEF DeployInv, NothingElseKnown, KnowsNothing, Stuck
      <3>4. tab.progress.address \notin lost
        BY <1>0, <2>1, <3>1, <3>3 DEF LostIsSaved
      <3>5. tab.progress \in Progress /\ Sound(tab.progress, DOMAIN registries, refused)
        BY <1>0 DEF Tab, DeployInv, CopiesAreSound
      <3>6. tab.progress.address \in Known
        BY <3>3, <3>4, <3>5, Constants DEF Sound, Known
      <3> QED BY <3>2, <3>6 DEF DeployInv, NothingElseKnown
    <2>3. OldestFirst'
      BY <1>0, <2>2 DEF OldestFirst, Stuck
    <2>4. LostIsSaved'
      <3>1. ~(tab.loaded /\ tab.progress.address \in lost)
        BY <1>0, <2>1, Known_Domain DEF LostIsSaved
      <3> QED BY <1>0, <3>1 DEF LostIsSaved
    <2>5. ReadingIsSaved'
      <3>1. saved' # NoTx
        BY <1>5, Constants
      <3> QED BY <1>0, <1>5, <2>1, <3>1 DEF ReadingIsSaved
    <2> QED BY <2>3, <2>4, <2>5
  <1> QED BY <1>6, <1>7, <1>8, <1>9, <1>10, <1>11 DEF DeployInv

-----------------------------------------------------------------------------
(* The page opens, and reads.                                              *)

LEMMA NoProgressFacts ==
    /\ NoProgress \in Progress /\ NoProgress.txId = NoTx /\ NoProgress.address = NoTx
    /\ NoProgress.inserted = {} /\ \A k \in Keys : NoProgress.ids[k] = NoTx
    /\ NoReading \in Reading /\ NoReading.progress = NoTx
  BY DEF NoProgress, Progress, NoReading, Reading

LEMMA ReadingIsTyped ==
    ASSUME tab \in Tab
    PROVE  tab.reading \in Reading /\ tab.reading.progress \in Progress \cup {NoTx}
  BY DEF Tab, Reading

\* The page t, once what was read is in it.
LEMMA AppliedFacts ==
    ASSUME NEW t \in Tab, NEW r \in Reading, NEW u, u = Applied(t, r)
    PROVE  /\ u \in Tab /\ u.loaded /\ u.at = t.at /\ u.reading = t.reading /\ u.slow = t.slow
           /\ u.pendingDeploy = t.pendingDeploy /\ u.pendingCircuit = t.pendingCircuit
           /\ u.first = t.first /\ u.last = t.last /\ u.stale = t.stale
           /\ u.progress = IF r.progress = NoTx THEN t.progress ELSE r.progress
  <1> DEFINE p == IF r.progress = NoTx THEN t.progress ELSE r.progress
  <1>1. u = [t EXCEPT !.loaded = TRUE, !.recorded = r.recorded, !.progress = p]
    BY DEF Applied, Tab
  <1>2. p \in Progress
    BY DEF Tab, Reading
  <1>3. r.recorded \in BOOLEAN
    BY Zenon DEF Reading
  <1> HIDE DEF p
  <1>4. /\ u \in Tab /\ u.at = t.at /\ u.reading = t.reading /\ u.slow = t.slow
        /\ u.pendingDeploy = t.pendingDeploy /\ u.pendingCircuit = t.pendingCircuit
        /\ u.first = t.first /\ u.last = t.last /\ u.stale = t.stale /\ u.progress = p
    BY <1>1, <1>2, <1>3 DEF Tab
  <1>5. u.loaded
    BY <1>1, Zenon DEF Tab
  <1> QED BY <1>4, <1>5 DEF p

LEMMA OpenedFacts ==
    ASSUME NEW r \in Reading, NEW u, u = Opened(r)
    PROVE  u \in Tab /\ u.at = "idle" /\ u.progress = NoProgress /\ ~u.loaded /\ u.reading = r
           /\ ~u.stale /\ ~u.slow
  <1>1. NoProgress \in Progress
    BY NoProgressFacts
  <1>2. u \in Tab
    BY <1>1 DEF Opened, Tab
  <1>3. u.at = "idle" /\ u.progress = NoProgress /\ u.reading = r
    BY DEF Opened
  <1>4. ~u.loaded /\ ~u.stale /\ ~u.slow
    BY DEF Opened
  <1> QED BY <1>2, <1>3, <1>4

LEMMA ReopenKeeps ==
    ASSUME DeployInv, NEW p \in Progress \cup {NoTx},
           Sound(p, DOMAIN registries, refused), Reopen(p),
           UNCHANGED <<registries, unseen, records, machine, refused, overtaken>>,
           failures' \in 0..MaxFailures
    PROVE  DeployInv'
  <1> DEFINE r == [progress |-> p, recorded |-> records # <<>>]
  <1>0. /\ TypeOK /\ saved' = p /\ writes' = <<>> /\ tab' = Opened(r)
        /\ lost' = IF KnowsNothing(p) THEN DOMAIN registries ELSE lost
    BY DEF DeployInv, Reopen
  <1>1. r \in Reading /\ r.progress = p
    BY DEF Reading
  <1> HIDE DEF r
  <1>2. /\ tab' \in Tab /\ tab'.at = "idle" /\ tab'.progress = NoProgress
        /\ ~tab'.loaded /\ tab'.reading = r /\ ~tab'.stale /\ ~tab'.slow
    BY <1>0, <1>1, OpenedFacts
  <1>3. TypeOK'
    BY <1>0, <1>2 DEF TypeOK
  <1>4. RunStands'
    BY <1>0, <1>2 DEF RunStands
  <1>5. CopiesAreSound'
    <2>1. Sound(NoProgress, DOMAIN registries, refused)
      BY NoProgressFacts DEF Sound
    <2> QED BY <1>0, <1>1, <1>2, <2>1 DEF CopiesAreSound
  <1>6. NothingElseKnown'
    <2>1. Known' \subseteq Known /\ (KnowsNothing(p) => Known' = {})
      BY <1>0 DEF Known, TypeOK
    <2> QED BY <1>1, <1>2, <2>1 DEF DeployInv, NothingElseKnown
  <1>7. RecordsAreSound'
    BY DEF DeployInv, RecordsAreSound
  <1>8. (OldestFirst /\ LostIsSaved /\ ReadingIsSaved)'
    BY <1>0, <1>1, <1>2 DEF OldestFirst, LostIsSaved, ReadingIsSaved
  <1> QED BY <1>3, <1>4, <1>5, <1>6, <1>7, <1>8 DEF DeployInv

LEMMA OpeningKeeps ==
    ASSUME DeployInv, CloseTab \/ Reload
    PROVE  DeployInv'
  <1>0. TypeOK
    BY DEF DeployInv
  <1>1. failures' \in 0..MaxFailures
    BY <1>0, FailuresTyped DEF CloseTab, Reload, FailsIf
  <1>2. UNCHANGED <<registries, unseen, records, machine, refused, overtaken>>
    BY DEF CloseTab, Reload
  <1>3. saved \in Progress \cup {NoTx} /\ Sound(saved, DOMAIN registries, refused)
    BY DEF DeployInv, TypeOK, CopiesAreSound
  <1>4. CASE Reload
    BY <1>1, <1>2, <1>3, <1>4, ReopenKeeps DEF Reload
  <1>5. CASE CloseTab
    <2>1. PICK n \in 0..Len(writes) : Reopen(IF n = 0 THEN saved ELSE writes[n])
      BY <1>5 DEF CloseTab
    <2>2. CASE n = 0
      BY <1>1, <1>2, <1>3, <2>1, <2>2, ReopenKeeps
    <2>3. CASE n # 0
      <3>1. n \in DOMAIN writes /\ writes[n] \in Progress
        BY <1>0, <2>3 DEF TypeOK
      <3>2. Sound(writes[n], DOMAIN registries, refused)
        BY <3>1 DEF DeployInv, CopiesAreSound
      <3>3. Reopen(writes[n])
        BY <2>1, <2>3
      <3> QED BY <1>1, <1>2, <3>1, <3>2, <3>3, ReopenKeeps
    <2> QED BY <2>2, <2>3
  <1> QED BY <1>4, <1>5

LEMMA FirstReadingKeeps ==
    ASSUME DeployInv, FirstReading
    PROVE  DeployInv'
  <1> DEFINE a == Applied(tab, tab.reading)
  <1>0. /\ TypeOK /\ RunStands /\ tab \in Tab /\ ~tab.loaded
        /\ UNCHANGED <<registries, unseen, saved, writes, records, machine, refused, lost, overtaken>>
    BY DEF DeployInv, TypeOK, FirstReading
  <1>1. tab.at = "idle" /\ tab.progress = NoProgress /\ writes = <<>> /\ ~tab.stale
    BY <1>0 DEF RunStands
  <1>2. failures' \in 0..MaxFailures
    BY <1>0, FailuresTyped DEF FirstReading
  <1>3. /\ a \in Tab /\ a.loaded /\ a.at = "idle" /\ a.reading = tab.reading
        /\ a.stale = tab.stale
        /\ a.progress = IF tab.reading.progress = NoTx THEN NoProgress ELSE tab.reading.progress
    BY <1>0, <1>1, ReadingIsTyped, AppliedFacts
  <1>4. tab' = [a EXCEPT !.reading = NoReading] \/ tab' = [a EXCEPT !.slow = TRUE]
    BY DEF FirstReading
  <1> HIDE DEF a
  <1>5. /\ tab' \in Tab /\ tab'.loaded /\ tab'.at = "idle" /\ tab'.progress = a.progress
        /\ tab'.reading \in {tab.reading, NoReading} /\ ~tab'.stale
    <2>1. CASE tab' = [a EXCEPT !.reading = NoReading]
      <3>1. tab' \in Tab /\ tab'.at = "idle" /\ tab'.progress = a.progress /\ tab'.reading = NoReading
        BY <1>3, <2>1, NoProgressFacts DEF Tab
      <3>2. tab'.loaded /\ ~tab'.stale
        BY <1>1, <1>3, <2>1, Zenon DEF Tab
      <3> QED BY <3>1, <3>2
    <2>2. CASE tab' = [a EXCEPT !.slow = TRUE]
      <3>1. tab' \in Tab /\ tab'.at = "idle" /\ tab'.progress = a.progress /\ tab'.reading = tab.reading
        BY <1>3, <2>2 DEF Tab
      <3>2. tab'.loaded /\ ~tab'.stale
        BY <1>1, <1>3, <2>2, Zenon DEF Tab
      <3> QED BY <3>1, <3>2
    <2> QED BY <1>4, <2>1, <2>2
  <1>6. TypeOK'
    BY <1>0, <1>2, <1>5 DEF TypeOK
  <1>7. RunStands'
    BY <1>0, <1>1, <1>5 DEF RunStands
  <1>8. CopiesAreSound'
    <2>1. Sound(NoProgress, DOMAIN registries, refused) /\ Sound(NoReading.progress, DOMAIN registries, refused)
      BY NoProgressFacts DEF Sound
    <2>2. Sound(tab.reading.progress, DOMAIN registries, refused) /\ Sound(saved, DOMAIN registries, refused)
      BY DEF DeployInv, CopiesAreSound
    <2> QED BY <1>0, <1>1, <1>3, <1>5, <2>1, <2>2 DEF CopiesAreSound
  <1>9. NothingElseKnown'
    <2>1. KnowsNothing(a.progress) => KnowsNothing(tab.reading.progress)
      BY <1>3 DEF KnowsNothing
    <2> QED BY <1>0, <1>5, <2>1 DEF DeployInv, NothingElseKnown, Known
  <1>10. RecordsAreSound'
    BY <1>0 DEF DeployInv, RecordsAreSound
  <1>11. ASSUME ~overtaken' PROVE (OldestFirst /\ LostIsSaved /\ ReadingIsSaved)'
    <2>1. ReadingIsSaved
      BY <1>0, <1>11 DEF DeployInv
    <2>2. ASSUME a.progress.txId = NoTx \/ a.progress.address # NoTx PROVE Keeps(saved, a.progress, lost)
      <3>1. CASE tab.reading.progress = NoTx
        BY <1>0, <2>1, <3>1 DEF ReadingIsSaved, Keeps
      <3>2. CASE tab.reading.progress # NoTx
        <4>1. /\ a.progress = tab.reading.progress /\ saved # NoTx
              /\ saved.inserted = a.progress.inserted
              /\ a.progress.address # NoTx => saved.address = a.progress.address
          BY <1>0, <1>3, <2>1, <3>2 DEF ReadingIsSaved
        <4>2. a.progress.address = NoTx => Known = {}
          BY <1>0, <2>2, <3>2, <4>1 DEF DeployInv, NothingElseKnown, KnowsNothing
        <4>3. saved.address \in DOMAIN registries \cup {NoTx}
          BY <4>1 DEF DeployInv, CopiesAreSound, Sound
        <4> QED BY <4>1, <4>2, <4>3 DEF Keeps, Known
      <3> QED BY <3>1, <3>2
    <2>3. OldestFirst'
      BY <1>0, <1>1, <1>5, <2>2 DEF OldestFirst, Stuck
    <2>4. LostIsSaved'
      <3>1. SUFFICES ASSUME a.progress.address \in lost
                     PROVE  saved # NoTx /\ saved.address = a.progress.address
        BY <1>0, <1>1, <1>5 DEF LostIsSaved
      <3>2. a.progress.address # NoTx
        BY <1>0, <3>1, Known_Domain
      <3>3. tab.reading.progress # NoTx
        BY <1>3, <3>2, NoProgressFacts
      <3> QED BY <1>0, <1>3, <2>1, <3>2, <3>3 DEF ReadingIsSaved
    <2>5. ReadingIsSaved'
      BY <1>5 DEF ReadingIsSaved
    <2> QED BY <2>3, <2>4, <2>5
  <1> QED BY <1>6, <1>7, <1>8, <1>9, <1>10, <1>11 DEF DeployInv

LEMMA RecheckKeeps ==
    ASSUME DeployInv, Recheck
    PROVE  DeployInv'
  <1> DEFINE r == [progress |-> saved, recorded |-> records # <<>>]
  <1>0. /\ TypeOK /\ RunStands /\ tab \in Tab /\ tab.at = "idle" /\ tab.loaded /\ writes = <<>>
        /\ tab' = Applied(tab, r) /\ Forgot
        /\ UNCHANGED <<registries, unseen, saved, writes, records, machine, failures, refused, overtaken>>
    BY DEF DeployInv, TypeOK, RunStands, Recheck
  <1>1. saved \in Progress \cup {NoTx} /\ r \in Reading /\ r.progress = saved
    BY <1>0 DEF TypeOK, Reading
  <1> HIDE DEF r
  <1>2. /\ tab' \in Tab /\ tab'.loaded /\ tab'.at = "idle" /\ tab'.reading = tab.reading
        /\ tab'.stale = tab.stale
        /\ tab'.progress = IF saved = NoTx THEN tab.progress ELSE saved
    BY <1>0, <1>1, AppliedFacts
  <1>3. /\ registries' \in Seq([keys : SUBSET Keys, signed : BOOLEAN])
        /\ Len(registries') = Len(registries)
        /\ records' \in Seq([registry : 1..MaxRegistries, ids : [Keys -> Tx]])
        /\ unseen' \subseteq GivenUp /\ machine' \subseteq Troubles /\ failures' \in 0..MaxFailures
    BY <1>0 DEF TypeOK
  <1>4. RunStands'
    BY <1>0, <1>2 DEF RunStands
  <1>5. RecordsAreSound'
    BY <1>0 DEF DeployInv, RecordsAreSound
  <1>6. CASE tab'.progress = tab.progress
    <2>1. lost' = lost
      BY <1>0, <1>6 DEF Forgot
    <2>2. tab'.loaded = tab.loaded
      BY <1>0, <1>2, Zenon DEF Applied, Tab
    <2> QED BY <1>0, <1>2, <1>3, <1>4, <1>5, <1>6, <2>1, <2>2, QuietStep
  <1>7. CASE tab'.progress # tab.progress
    <2>1. tab'.progress = saved /\ saved # NoTx
      BY <1>2, <1>7
    <2>2. lost' = IF KnowsNothing(saved) THEN DOMAIN registries ELSE lost
      BY <1>0, <1>7, <2>1 DEF Forgot
    <2>3. /\ lost \subseteq lost' /\ lost' \subseteq DOMAIN registries /\ Known' \subseteq Known
          /\ KnowsNothing(saved) => Known' = {}
      BY <1>0, <2>2 DEF TypeOK, Known
    <2>4. TypeOK'
      <3>1. UNCHANGED <<registries, unseen, saved, writes, records, machine, failures, refused, overtaken>>
        BY <1>0
      <3>2. TypeOK /\ DOMAIN registries' = DOMAIN registries
        BY <1>0, <3>1
      <3> QED BY <1>2, <2>3, <3>1, <3>2 DEF TypeOK
    <2>5. CopiesAreSound'
      BY <1>0, <1>2, <2>1 DEF DeployInv, CopiesAreSound
    <2>6. NothingElseKnown'
      <3>1. KnowsNothing(tab'.progress) => Known' = {}
        BY <2>1, <2>3
      <3>2. \A x, y \in Known' : x = y
        BY <2>3 DEF DeployInv, NothingElseKnown
      <3> QED BY <1>2, <3>1, <3>2 DEF NothingElseKnown
    <2>7. OldestFirst'
      BY <1>0, <2>1 DEF OldestFirst, Keeps
    <2>8. LostIsSaved' /\ ReadingIsSaved'
      BY <1>0, <1>2, <2>1 DEF LostIsSaved, ReadingIsSaved
    <2> QED BY <1>4, <1>5, <2>4, <2>5, <2>6, <2>7, <2>8 DEF DeployInv
  <1> QED BY <1>6, <1>7

-----------------------------------------------------------------------------
(* A slow reading overtakes the page.                                      *)

\* From here on nothing is claimed of what the page holds but that it is sound, and that a
\* page which may deploy again has lost every registry.
LEMMA Overtaking ==
    ASSUME DeployInv, tab' \in Tab, tab'.progress = tab.reading.progress,
           tab'.progress # tab.progress, Overtook,
           tab'.loaded, tab'.at = "idle", tab'.reading \in {tab.reading, NoReading}, ~tab'.stale,
           writes' = <<>>, saved' = saved \/ \E i \in DOMAIN writes : saved' = writes[i],
           UNCHANGED <<registries, unseen, records, machine, refused>>,
           failures' \in 0..MaxFailures
    PROVE  DeployInv'
  <1>0. TypeOK
    BY DEF DeployInv
  <1>1. /\ overtaken'
        /\ lost' = IF KnowsNothing(tab'.progress) THEN DOMAIN registries ELSE lost
    BY DEF Overtook, Forgot
  <1>2. /\ lost' \subseteq DOMAIN registries /\ Known' \subseteq Known
        /\ KnowsNothing(tab'.progress) => Known' = {}
    BY <1>0, <1>1 DEF TypeOK, Known
  <1>3. saved' \in Progress \cup {NoTx} /\ Sound(saved', DOMAIN registries, refused)
    BY <1>0 DEF TypeOK, DeployInv, CopiesAreSound
  <1>4. overtaken' \in BOOLEAN
    BY <1>1
  <1>5. TypeOK'
    BY <1>0, <1>2, <1>3, <1>4 DEF TypeOK
  <1>6. RunStands'
    BY DEF RunStands
  <1>7. CopiesAreSound'
    <2>1. Sound(NoReading.progress, DOMAIN registries, refused)
      BY NoProgressFacts DEF Sound
    <2>2. Sound(tab.reading.progress, DOMAIN registries, refused)
      BY DEF DeployInv, CopiesAreSound
    <2> QED BY <1>3, <2>1, <2>2 DEF CopiesAreSound
  <1>8. NothingElseKnown'
    BY <1>2 DEF DeployInv, NothingElseKnown
  <1>9. RecordsAreSound'
    BY DEF DeployInv, RecordsAreSound
  <1> QED BY <1>1, <1>5, <1>6, <1>7, <1>8, <1>9 DEF DeployInv

\* The run is over.
LEMMA EndedFacts ==
    ASSUME tab \in Tab, RunStands, NEW u, u = Ended(tab)
    PROVE  /\ u \in Tab /\ u.at = "idle" /\ u.loaded = tab.loaded /\ ~u.stale
           /\ u.reading \in {tab.reading, NoReading}
           /\ u.progress = tab.progress \/ (tab.stale /\ u.progress = tab.reading.progress)
  <1> DEFINE p == IF tab.stale THEN tab.reading.progress ELSE tab.progress
             r == IF tab.stale THEN NoReading ELSE tab.reading
  <1>1. u = [tab EXCEPT !.at = "idle", !.stale = FALSE, !.progress = p, !.reading = r]
    BY DEF Ended, Tab
  <1>2. p \in Progress /\ r \in Reading /\ r \in {tab.reading, NoReading}
    BY ReadingIsTyped, NoProgressFacts DEF RunStands, Tab
  <1>3. p = tab.progress \/ (tab.stale /\ p = tab.reading.progress)
    OBVIOUS
  <1> HIDE DEF p, r
  <1>4. /\ u \in Tab /\ u.at = "idle" /\ u.loaded = tab.loaded /\ u.reading = r
        /\ u.progress = p /\ u.stale = FALSE
    BY <1>1, <1>2 DEF Tab
  <1> QED BY <1>2, <1>3, <1>4

LEMMA SlowReadingKeeps ==
    ASSUME DeployInv, SlowReading
    PROVE  DeployInv'
  <1>0. /\ TypeOK /\ RunStands /\ tab \in Tab /\ Overtook
        /\ UNCHANGED <<registries, unseen, saved, writes, records, machine, failures, refused>>
    BY DEF DeployInv, TypeOK, SlowReading
  <1>1. /\ registries' \in Seq([keys : SUBSET Keys, signed : BOOLEAN])
        /\ Len(registries') = Len(registries)
        /\ records' \in Seq([registry : 1..MaxRegistries, ids : [Keys -> Tx]])
        /\ unseen' \subseteq GivenUp /\ machine' \subseteq Troubles /\ failures' \in 0..MaxFailures
    BY <1>0 DEF TypeOK
  <1>2. tab.loaded
    BY <1>0 DEF RunStands, SlowReading
  <1>3. RecordsAreSound'
    BY <1>0 DEF DeployInv, RecordsAreSound
  <1>4. CASE tab.at = "idle"
    <2> DEFINE a == Applied(tab, tab.reading)
    <2>1. tab' = [a EXCEPT !.slow = FALSE, !.reading = NoReading]
      BY <1>4 DEF SlowReading
    <2>2. /\ a \in Tab /\ a.loaded /\ a.at = "idle" /\ a.stale = tab.stale
          /\ a.progress = IF tab.reading.progress = NoTx THEN tab.progress ELSE tab.reading.progress
      BY <1>0, <1>4, ReadingIsTyped, AppliedFacts
    <2> HIDE DEF a
    <2>3. /\ tab' \in Tab /\ tab'.at = "idle" /\ tab'.progress = a.progress /\ tab'.reading = NoReading
      BY <2>1, <2>2, NoProgressFacts DEF Tab
    <2>4. tab'.loaded /\ ~tab'.stale
      <3>1. ~tab.stale
        BY <1>0, <1>4 DEF RunStands
      <3> QED BY <2>1, <2>2, <3>1, Zenon DEF Tab
    <2>5. writes = <<>>
      BY <1>0, <1>4 DEF RunStands
    <2>6. CASE tab'.progress = tab.progress
      <3>1. lost' = lost /\ overtaken' = overtaken
        BY <1>0, <2>6 DEF Overtook, Forgot, TypeOK
      <3>2. RunStands'
        BY <1>0, <2>3, <2>4, <2>5 DEF RunStands
      <3>3. tab'.loaded = tab.loaded
        <4>1. tab'.loaded \in BOOLEAN /\ tab.loaded \in BOOLEAN
          BY <1>0, <2>3, Zenon DEF Tab
        <4> QED BY <1>2, <2>4, <4>1, Zenon
      <3> QED BY <1>0, <1>1, <1>2, <1>3, <1>4, <2>3, <2>6, <3>1, <3>2, <3>3, QuietStep
    <2>7. CASE tab'.progress # tab.progress
      BY <1>0, <1>1, <2>2, <2>3, <2>4, <2>5, <2>7, Overtaking
    <2> QED BY <2>6, <2>7
  <1>5. CASE tab.at # "idle"
    <2> DEFINE b == tab.reading.progress # NoTx
    <2>1. tab' = [tab EXCEPT !.slow = FALSE, !.recorded = tab.reading.recorded, !.stale = b]
      BY <1>5 DEF SlowReading
    <2>2. tab.reading.recorded \in BOOLEAN /\ b \in BOOLEAN
      BY <1>0, ReadingIsTyped, Zenon DEF Reading
    <2>3. b => tab.reading.progress # NoTx
      OBVIOUS
    <2> HIDE DEF b
    <2>4. /\ tab' \in Tab /\ tab'.at = tab.at /\ tab'.progress = tab.progress
          /\ tab'.reading = tab.reading /\ tab'.loaded = tab.loaded
          /\ tab'.pendingDeploy = tab.pendingDeploy /\ tab'.pendingCircuit = tab.pendingCircuit
          /\ tab'.first = tab.first /\ tab'.last = tab.last /\ tab'.stale = b
      BY <1>0, <2>1, <2>2 DEF Tab
    <2>5. lost' = lost /\ overtaken' = overtaken
      BY <1>0, <2>4 DEF Overtook, Forgot, TypeOK
    <2>6. RunStands'
      <3>1. tab'.stale => tab'.at # "idle" /\ tab'.reading.progress # NoTx
        BY <1>5, <2>3, <2>4, Zenon
      <3>2. writes' = writes /\ Known' = Known
        BY <1>0, <2>5 DEF Known
      <3>3. tab'.loaded /\ (tab.pendingDeploy => tab'.pendingDeploy)
        BY <1>2, <2>4, Zenon
      <3> QED BY <1>0, <2>4, <3>1, <3>2, <3>3 DEF RunStands
    <2> QED BY <1>0, <1>1, <1>3, <1>5, <2>4, <2>5, <2>6, QuietStep
  <1> QED BY <1>4, <1>5

LEMMA RecordFailsKeeps ==
    ASSUME DeployInv, RecordFails
    PROVE  DeployInv'
  <1>0. /\ TypeOK /\ RunStands /\ tab \in Tab /\ Overtook /\ tab.at = "recording"
        /\ tab.loaded /\ writes = <<>> /\ tab' = Ended(tab)
        /\ UNCHANGED <<registries, unseen, saved, writes, records, machine, refused>>
    BY DEF DeployInv, TypeOK, RunStands, RecordFails
  <1>1. failures' \in 0..MaxFailures
    BY <1>0, FailuresTyped DEF RecordFails, FailsIf
  <1>2. /\ tab' \in Tab /\ tab'.at = "idle" /\ tab'.loaded = tab.loaded /\ ~tab'.stale
        /\ tab'.reading \in {tab.reading, NoReading}
        /\ tab'.progress = tab.progress \/ (tab.stale /\ tab'.progress = tab.reading.progress)
    BY <1>0, EndedFacts
  <1>3. tab'.loaded
    BY <1>0, <1>2, Zenon
  <1>4. CASE tab'.progress = tab.progress
    <2>1. lost' = lost /\ overtaken' = overtaken
      BY <1>0, <1>4 DEF Overtook, Forgot, TypeOK
    <2>2. RunStands'
      BY <1>0, <1>2, <1>3 DEF RunStands
    <2>3. /\ registries' \in Seq([keys : SUBSET Keys, signed : BOOLEAN])
          /\ Len(registries') = Len(registries)
          /\ records' \in Seq([registry : 1..MaxRegistries, ids : [Keys -> Tx]])
          /\ unseen' \subseteq GivenUp /\ machine' \subseteq Troubles
          /\ RecordsAreSound'
      BY <1>0 DEF TypeOK, DeployInv, RecordsAreSound
    <2> QED BY <1>0, <1>1, <1>2, <1>4, <2>1, <2>2, <2>3, QuietStep
  <1>5. CASE tab'.progress # tab.progress
    BY <1>0, <1>1, <1>2, <1>3, <1>5, Overtaking
  <1> QED BY <1>4, <1>5

-----------------------------------------------------------------------------
(* The file is written.                                                    *)

LEMMA WritesFacts ==
    ASSUME TypeOK, writes # <<>>
    PROVE  /\ Head(writes) = writes[1] /\ 1 \in DOMAIN writes /\ writes[1] \in Progress
           /\ Tail(writes) \in Seq(Progress) /\ DOMAIN writes = 1..Len(writes) /\ Len(writes) \in Nat
           /\ DOMAIN Tail(writes) = 1..(Len(writes) - 1)
           /\ \A i \in 1..(Len(writes) - 1) :
                Tail(writes)[i] = writes[i + 1] /\ i + 1 \in DOMAIN writes /\ i \in Nat
           /\ Len(writes) <= 1 => Tail(writes) = <<>>
  <1>1. writes \in Seq(Progress)
    BY DEF TypeOK
  <1>2. /\ Len(Tail(writes)) = Len(writes) - 1 /\ Len(writes) \in Nat /\ Len(writes) > 0
        /\ Tail(writes) \in Seq(Progress)
    BY <1>1
  <1>3. Len(writes) <= 1 => Tail(writes) = <<>>
    BY <1>1, <1>2
  <1> QED BY <1>1, <1>2, <1>3

\* A write that was under way is over, and the page is as it was, but for what it awaits.
LEMMA WriteStep ==
    ASSUME DeployInv, writes # <<>>, writes' = Tail(writes), saved' \in {saved, Head(writes)},
           tab' \in Tab, tab'.progress = tab.progress, tab'.loaded,
           tab'.reading \in {tab.reading, NoReading},
           RunStands', tab.at = "deployed" => tab'.at = "deployed",
           UNCHANGED <<registries, unseen, records, machine, refused, lost, overtaken>>,
           failures' \in 0..MaxFailures
    PROVE  DeployInv'
  <1>0. TypeOK /\ tab.at # "idle" /\ tab.loaded
    BY DEF DeployInv, RunStands
  <1>1. /\ Head(writes) = writes[1] /\ 1 \in DOMAIN writes /\ writes[1] \in Progress
        /\ writes' \in Seq(Progress) /\ DOMAIN writes = 1..Len(writes) /\ Len(writes) \in Nat
        /\ DOMAIN writes' = 1..(Len(writes) - 1)
        /\ \A i \in DOMAIN writes' :
                writes'[i] = writes[i + 1] /\ i + 1 \in DOMAIN writes /\ i \in Nat
    BY <1>0, WritesFacts
  <1>2. saved' \in Progress \cup {NoTx}
    BY <1>0, <1>1 DEF TypeOK
  <1>3. TypeOK'
    BY <1>0, <1>1, <1>2 DEF TypeOK
  <1>4. CopiesAreSound'
    <2>1. Sound(NoReading.progress, DOMAIN registries, refused)
      BY NoProgressFacts DEF Sound
    <2>2. /\ Sound(saved, DOMAIN registries, refused)
          /\ Sound(tab.progress, DOMAIN registries, refused)
          /\ Sound(tab.reading.progress, DOMAIN registries, refused)
          /\ \A i \in DOMAIN writes : Sound(writes[i], DOMAIN registries, refused)
      BY DEF DeployInv, CopiesAreSound
    <2>3. Sound(saved', DOMAIN registries, refused)
      BY <1>1, <2>2
    <2>4. \A i \in DOMAIN writes' : Sound(writes'[i], DOMAIN registries, refused)
      BY <1>1, <2>2
    <2> QED BY <2>1, <2>2, <2>3, <2>4 DEF CopiesAreSound
  <1>5. NothingElseKnown'
    BY <1>0 DEF DeployInv, NothingElseKnown, Known
  <1>6. RecordsAreSound'
    BY DEF DeployInv, RecordsAreSound
  <1>7. ASSUME ~overtaken' PROVE (OldestFirst /\ LostIsSaved /\ ReadingIsSaved)'
    <2>1. OldestFirst /\ LostIsSaved
      BY <1>7 DEF DeployInv
    <2>2. /\ Keeps(saved, tab.progress, lost)
          /\ \A i \in DOMAIN writes :
                Keeps(writes[i], tab.progress, lost) /\ Keeps(saved, writes[i], lost)
          /\ \A i, j \in DOMAIN writes : i < j => Keeps(writes[i], writes[j], lost)
      BY <1>0, <2>1 DEF OldestFirst
    <2>3. Keeps(saved', tab.progress, lost)
      BY <1>1, <2>2
    <2>4. \A i \in DOMAIN writes' : Keeps(writes'[i], tab.progress, lost)
      BY <1>1, <2>2
    <2>5. \A i \in DOMAIN writes' : Keeps(saved', writes'[i], lost)
      <3> SUFFICES ASSUME NEW i \in DOMAIN writes' PROVE Keeps(saved', writes[i + 1], lost)
        BY <1>1
      <3>1. i + 1 \in DOMAIN writes /\ 1 < i + 1
        BY <1>1
      <3> QED BY <1>1, <2>2, <3>1
    <2>6. \A i, j \in DOMAIN writes' : i < j => Keeps(writes'[i], writes'[j], lost)
      <3> SUFFICES ASSUME NEW i \in DOMAIN writes', NEW j \in DOMAIN writes', i < j
                   PROVE  Keeps(writes[i + 1], writes[j + 1], lost)
        BY <1>1
      <3> QED BY <1>1, <2>2
    <2>7. OldestFirst'
      BY <2>3, <2>4, <2>5, <2>6 DEF OldestFirst
    <2>8. LostIsSaved'
      <3> SUFFICES ASSUME tab.progress.address \in lost
                   PROVE  /\ saved' # NoTx /\ saved'.address = tab.progress.address
                          /\ \A i \in DOMAIN writes' : writes'[i].address = tab.progress.address
        BY DEF LostIsSaved
      <3> QED BY <1>0, <1>1, <2>1, Constants DEF LostIsSaved
    <2>9. ReadingIsSaved'
      BY DEF ReadingIsSaved
    <2> QED BY <2>7, <2>8, <2>9
  <1> QED BY <1>3, <1>4, <1>5, <1>6, <1>7 DEF DeployInv

LEMMA WriteKeeps ==
    ASSUME DeployInv, Write
    PROVE  DeployInv'
  <1>0. /\ TypeOK /\ RunStands /\ tab \in Tab /\ Overtook
        /\ writes # <<>> /\ writes' = Tail(writes) /\ saved' \in {saved, Head(writes)}
        /\ tab' \in {AfterWrite(TRUE), AfterWrite(FALSE)}
        /\ UNCHANGED <<registries, unseen, records, machine, refused>>
    BY DEF DeployInv, TypeOK, Write, WriteLands, WriteFails
  <1>1. failures' \in 0..MaxFailures
    BY <1>0, FailuresTyped DEF Write, WriteLands, WriteFails
  <1>2. tab.at \notin {"idle", "recording"} /\ tab.loaded
    BY <1>0 DEF RunStands
  <1>3. /\ Head(writes) = writes[1] /\ 1 \in DOMAIN writes /\ Len(writes) \in Nat
        /\ Len(writes) <= 1 => writes' = <<>>
    BY <1>0, WritesFacts
  <1>4. CASE tab' = tab
    <2>1. lost' = lost /\ overtaken' = overtaken
      BY <1>0, <1>4 DEF Overtook, Forgot, TypeOK
    <2>2. RunStands'
      BY <1>0, <1>2, <1>4, <2>1 DEF RunStands, Known
    <2> QED BY <1>0, <1>1, <1>2, <1>4, <2>1, <2>2, WriteStep
  <1>5. CASE /\ tab' = [tab EXCEPT !.at = "recording"] /\ tab.at = "finishing" /\ Len(writes) <= 1
    <2>1. /\ tab' \in Tab /\ tab'.at = "recording" /\ tab'.progress = tab.progress
          /\ tab'.loaded = tab.loaded /\ tab'.reading = tab.reading /\ tab'.stale = tab.stale
      BY <1>0, <1>5 DEF Tab
    <2>2. lost' = lost /\ overtaken' = overtaken
      BY <1>0, <2>1 DEF Overtook, Forgot, TypeOK
    <2>3. RunStands'
      <3>1. tab'.loaded
        BY <1>2, <2>1, Zenon
      <3>2. tab.stale => tab'.reading.progress # NoTx
        BY <1>0, <2>1 DEF RunStands
      <3>3. tab.progress.address # NoTx
        BY <1>0, <1>5 DEF RunStands
      <3> QED BY <1>3, <1>5, <2>1, <3>1, <3>2, <3>3 DEF RunStands
    <2>4. tab'.loaded
      BY <1>2, <2>1, Zenon
    <2> QED BY <1>0, <1>1, <1>5, <2>1, <2>2, <2>3, <2>4, WriteStep
  <1>6. CASE tab' = Ended(tab) /\ Len(writes) <= 1 /\ tab.at \in {"saving", "finishing"}
    <2>1. /\ tab' \in Tab /\ tab'.at = "idle" /\ tab'.loaded = tab.loaded /\ ~tab'.stale
          /\ tab'.reading \in {tab.reading, NoReading}
          /\ tab'.progress = tab.progress \/ (tab.stale /\ tab'.progress = tab.reading.progress)
      BY <1>0, <1>6, EndedFacts
    <2>2. tab'.loaded
      BY <1>2, <2>1, Zenon
    <2>3. writes' = <<>>
      BY <1>3, <1>6
    <2>4. CASE tab'.progress = tab.progress
      <3>1. lost' = lost /\ overtaken' = overtaken
        BY <1>0, <2>4 DEF Overtook, Forgot, TypeOK
      <3>2. RunStands'
        BY <2>1, <2>2, <2>3 DEF RunStands
      <3> QED BY <1>0, <1>1, <1>6, <2>1, <2>2, <2>4, <3>1, <3>2, WriteStep
    <2>5. CASE tab'.progress # tab.progress
      <3>1. saved' = saved \/ \E i \in DOMAIN writes : saved' = writes[i]
        BY <1>0, <1>3
      <3> QED BY <1>0, <1>1, <2>1, <2>2, <2>3, <2>5, <3>1, Overtaking
    <2> QED BY <2>4, <2>5
  <1> QED
    <2>1. ASSUME NEW b \in BOOLEAN, tab' = AfterWrite(b)
          PROVE  \/ tab' = tab
                 \/ tab' = [tab EXCEPT !.at = "recording"] /\ tab.at = "finishing" /\ Len(writes) <= 1
                 \/ tab' = Ended(tab) /\ Len(writes) <= 1 /\ tab.at \in {"saving", "finishing"}
      BY <1>3, <2>1 DEF AfterWrite
    <2> QED BY <1>0, <1>4, <1>5, <1>6, <2>1

-----------------------------------------------------------------------------
(* The theorems.                                                           *)

LEMMA InitIsInvariant ==
    ASSUME Init PROVE DeployInv
  <1>1. /\ registries = <<>> /\ unseen = {} /\ saved = NoTx /\ writes = <<>> /\ records = <<>>
        /\ tab = Opened(NoReading) /\ machine \subseteq Troubles /\ failures = 0
        /\ refused = {} /\ lost = {} /\ overtaken = FALSE
    BY DEF Init
  <1>2. /\ tab \in Tab /\ tab.at = "idle" /\ tab.progress = NoProgress /\ ~tab.loaded
        /\ tab.reading = NoReading /\ ~tab.stale /\ ~tab.slow
    BY <1>1, NoProgressFacts, OpenedFacts
  <1>3. DOMAIN registries = {} /\ DOMAIN writes = {} /\ DOMAIN records = {} /\ Known = {}
    BY <1>1 DEF Known
  <1>4. TypeOK
    <2>1. Len(registries) <= MaxRegistries /\ failures \in 0..MaxFailures
      BY <1>1, Constants
    <2>2. registries \in Seq([keys : SUBSET Keys, signed : BOOLEAN])
      BY <1>1
    <2>3. writes \in Seq(Progress) /\ records \in Seq([registry : 1..MaxRegistries, ids : [Keys -> Tx]])
      BY <1>1
    <2>4. overtaken \in BOOLEAN /\ unseen \subseteq GivenUp /\ lost \subseteq DOMAIN registries
      BY <1>1
    <2> QED BY <1>1, <1>2, <2>1, <2>2, <2>3, <2>4 DEF TypeOK
  <1>5. RunStands
    BY <1>1, <1>2, <1>3 DEF RunStands
  <1>6. CopiesAreSound
    BY <1>1, <1>2, <1>3, NoProgressFacts DEF CopiesAreSound, Sound
  <1>7. NothingElseKnown
    BY <1>3 DEF NothingElseKnown
  <1>8. RecordsAreSound
    BY <1>3 DEF RecordsAreSound
  <1>9. OldestFirst /\ LostIsSaved /\ ReadingIsSaved
    BY <1>1, <1>2, <1>3, NoProgressFacts DEF OldestFirst, LostIsSaved, ReadingIsSaved, Keeps
  <1> QED BY <1>4, <1>5, <1>6, <1>7, <1>8, <1>9 DEF DeployInv

LEMMA NextKeepsInvariant == DeployInv /\ [Next]_vars => DeployInv'
  <1> SUFFICES ASSUME DeployInv, [Next]_vars PROVE DeployInv'
    OBVIOUS
  <1>1. CASE FirstReading
    BY <1>1, FirstReadingKeeps
  <1>2. CASE SlowReading
    BY <1>2, SlowReadingKeeps
  <1>3. CASE Recheck
    BY <1>3, RecheckKeeps
  <1>4. CASE Connect \/ DryRun \/ LateInsert \/ Breaks \/ Mends
    BY <1>4, BesideTheRun
  <1>5. CASE Press
    BY <1>5, PressSaves
  <1>6. CASE Step
    BY <1>6, DeployLandsKeeps, RunIsQuiet, StepSaves, RecordFailsKeeps DEF Step
  <1>7. CASE Write
    BY <1>7, WriteKeeps
  <1>8. CASE CloseTab \/ Reload
    BY <1>8, OpeningKeeps
  <1>9. CASE EditFile
    BY <1>9, EditKeeps
  <1>10. CASE LateDeploy
    BY <1>10, LateDeployKeeps
  <1>11. CASE UNCHANGED vars
    <2>1. UNCHANGED <<registries, unseen, saved, writes, records, tab, machine, failures, refused, lost, overtaken>>
      BY <1>11 DEF vars
    <2>2. /\ registries' \in Seq([keys : SUBSET Keys, signed : BOOLEAN])
          /\ Len(registries') = Len(registries)
          /\ records' \in Seq([registry : 1..MaxRegistries, ids : [Keys -> Tx]])
          /\ unseen' \subseteq GivenUp /\ machine' \subseteq Troubles
          /\ failures' \in 0..MaxFailures /\ tab' \in Tab
      BY <2>1 DEF DeployInv, TypeOK
    <2>3. RunStands' /\ RecordsAreSound'
      BY <2>1 DEF DeployInv, RunStands, RecordsAreSound, Known
    <2> QED BY <2>1, <2>2, <2>3, QuietStep
  <1> QED BY <1>1, <1>2, <1>3, <1>4, <1>5, <1>6, <1>7, <1>8, <1>9, <1>10, <1>11 DEF Next

\* Whatever fails, whatever is edited and whichever page writes last, the invariant stands.
THEOREM DeployInvariant == Spec => []DeployInv
  <1>1. Init => DeployInv
    BY InitIsInvariant
  <1> QED BY <1>1, NextKeepsInvariant, PTL DEF Spec

\* The files, the page, the chain and the key table hold what they may hold.
THEOREM DeployTyping == Spec => []TypeOK
  <1>1. DeployInv => TypeOK
    BY DEF DeployInv
  <1> QED BY <1>1, DeployInvariant, PTL

\* However many times the run is pressed, refused, cut short or taken up again by another page,
\* at most one registry is on chain that no page ever gave up as lost (deploy.ts 103-115).
THEOREM NoSecondRegistry == Spec => []OneRegistryUnlessLost
  <1>1. DeployInv => OneRegistryUnlessLost
    <2> SUFFICES ASSUME DeployInv PROVE Cardinality(Known) <= 1
      BY DEF OneRegistryUnlessLost, Known
    <2>1. \A r, s \in Known : r = s
      BY DEF DeployInv, NothingElseKnown
    <2>2. CASE Known = {}
      BY <2>2, FS_EmptySet
    <2>3. CASE Known # {}
      <3>1. PICK r : r \in Known
        BY <2>3
      <3>2. Known = {r}
        BY <2>1, <3>1
      <3>3. Cardinality({r}) = 1
        BY FS_Singleton
      <3> QED BY <3>2, <3>3
    <2> QED BY <2>2, <2>3
  <1> QED BY <1>1, DeployInvariant, PTL

\* A record names, for every circuit that was never refused, the transaction that inserted its
\* key, whatever the session submitted before and after it (deploy.ts 124-127, 177-190).
THEOREM RecordsNameInsertions == Spec => []RecordNamesInsertions
  <1>1. DeployInv => RecordNamesInsertions
    BY DEF DeployInv, RecordsAreSound, RecordNamesInsertions
  <1> QED BY <1>1, DeployInvariant, PTL

\* The file never forgets a circuit, nor the registry it is about unless that one is lost: the
\* writes land in the order they were made, and each was made from a page that had read the
\* one before (deploy.ts 93-98).
THEOREM ProgressKept == Spec => ProgressIsKept
  <1>1. ASSUME DeployInv, [Next]_vars, ~overtaken, saved # NoTx
        PROVE  /\ saved.inserted \subseteq saved'.inserted
               /\ saved.address \notin {NoTx} \cup lost => saved'.address = saved.address
    <2>0. /\ TypeOK /\ saved \in Progress
          /\ \A i \in DOMAIN writes : Keeps(saved, writes[i], lost)
      BY <1>1 DEF DeployInv, OldestFirst, TypeOK
    <2>1. CASE saved' = saved
      BY <2>1
    <2>2. CASE \E i \in DOMAIN writes : saved' = writes[i]
      BY <1>1, <2>0, <2>2 DEF Keeps
    <2>3. CASE EditFile
      <3>1. saved.address = NoTx
        BY <2>3 DEF EditFile
      <3>2. \A r : [saved EXCEPT !.address = r].inserted = saved.inserted
        BY <2>0 DEF Progress
      <3>3. [saved EXCEPT !.txId = NoTx].inserted = saved.inserted
        BY <2>0 DEF Progress
      <3>4. saved'.inserted = saved.inserted
        BY <2>3, <3>2, <3>3 DEF EditFile, Edited
      <3> QED BY <3>1, <3>4
    <2>4. CASE WriteLands
      <3>1. saved' = writes[1] /\ 1 \in DOMAIN writes
        BY <2>0, <2>4, WritesFacts DEF WriteLands
      <3> QED BY <2>2, <3>1
    <2>5. CASE CloseTab
      <3>1. PICK n \in 0..Len(writes) : saved' = IF n = 0 THEN saved ELSE writes[n]
        BY <2>5 DEF CloseTab, Reopen
      <3>2. n # 0 => n \in DOMAIN writes
        BY <2>0 DEF TypeOK
      <3> QED BY <2>1, <2>2, <3>1, <3>2
    <2>6. CASE Reload
      BY <2>1, <2>6 DEF Reload, Reopen
    <2>7. CASE FirstReading \/ SlowReading \/ Recheck \/ Connect \/ DryRun \/ LateDeploy
                \/ LateInsert \/ Breaks \/ Mends \/ WriteFails
      BY <2>1, <2>7 DEF FirstReading, SlowReading, Recheck, Connect, DryRun, LateDeploy,
                        LateInsert, Breaks, Mends, WriteFails
    <2>8. CASE Press \/ Step
      BY <2>1, <2>8 DEF Press, Step, StartDeploy, Resume, DeployLands, DeployCreatesNothing,
                        DeployRefused, DeployUnseen, AddressArrives, AddressLost, InsertLands,
                        InsertRefused, InsertUnseen, InsertReturns, InsertThrows, WriteRecord,
                        RecordFails
    <2>9. CASE UNCHANGED vars
      BY <2>1, <2>9 DEF vars
    <2> QED BY <1>1, <2>3, <2>4, <2>5, <2>6, <2>7, <2>8, <2>9 DEF Next, Write
  <1>2. DeployInv /\ [Next]_vars =>
            [~overtaken /\ saved # NoTx =>
                /\ saved.inserted \subseteq saved'.inserted
                /\ saved.address \notin {NoTx} \cup lost => saved'.address = saved.address]_vars
    BY <1>1
  <1> QED BY <1>2, DeployInvariant, PTL DEF Spec, ProgressIsKept

=============================================================================
