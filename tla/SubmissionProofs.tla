-------------------------- MODULE SubmissionProofs --------------------------
(***************************************************************************)
(* Theorems about Submission, for any submissions, whoever makes them, and *)
(* any number of connections and of losses.                                *)
(***************************************************************************)
EXTENDS Submission, SequenceTheorems, TLAPS

-----------------------------------------------------------------------------
(* The inductive invariant.  An outcome stands because of what is still on *)
(* its way when it is settled: the statuses that were not delivered, and   *)
(* what the node may yet do with the transaction.                          *)

\* What the node made of a transaction is final once a block took it or it was refused, and every
\* final status on its way says so.
StatusesAreTrue ==
    /\ applied = {s \in Submissions : node[s] = "block"}
    /\ \A s \in Submissions : \A i \in 1..Len(statuses[s]) :
        /\ statuses[s][i] = "InBlock" => node[s] = "block"
        /\ statuses[s][i] = "InBlockFailed" => node[s] = "failed"
        /\ statuses[s][i] = "Invalid" => node[s] = "gone"

\* Only what went out and was not settled before may reach the node.
OnlySentReaches ==
    \A s \in Submissions :
        /\ job[s].outcome # "none" => job[s].at = "settled"
        /\ job[s].reply = "none" => node[s] = "unsent"
        /\ job[s].at \in {"new", "connecting", "importing", "pricing", "sending"} => job[s].reply = "none"

\* What a rejection says of the transaction, for each of the reasons that are final.
RejectionsAreTrue ==
    \A s \in Submissions : job[s].outcome = "rejected" =>
        /\ job[s].reason \in {"malformed", "not priced", "not sent"} =>
                node[s] = "unsent" /\ job[s].reply \in {"none", "failed"}
        /\ job[s].reason = "refused" => node[s] = "refused"
        /\ job[s].reason = "InBlockFailed" => node[s] = "failed"
        /\ job[s].reason = "Invalid" => node[s] = "gone"
        /\ job[s].reason \in {"malformed", "not priced", "not sent", "refused", "reply lost"}
                             \cup (Statuses \ {"InBlock"})

SubmissionInv ==
    /\ TypeOK /\ StatusesAreTrue /\ OnlySentReaches /\ RejectionsAreTrue /\ InBlockIsApplied

-----------------------------------------------------------------------------
(* Types.                                                                  *)

LEMMA FinishedType ==
    ASSUME NEW j \in Job, NEW outcome \in {"in-block", "rejected", "unseen", "error"},
           NEW reason \in Reasons
    PROVE  /\ Finished(j, outcome, reason) \in Job
           /\ Finished(j, outcome, reason).by = j.by /\ Finished(j, outcome, reason).reply = j.reply
           /\ Finished(j, outcome, reason).connection = j.connection
           /\ j.outcome # "none" => Finished(j, outcome, reason) = j
           /\ j.outcome = "none" =>
                /\ Finished(j, outcome, reason).outcome = outcome
                /\ Finished(j, outcome, reason).reason = reason
                /\ Finished(j, outcome, reason).at = "settled"
  BY DEF Finished, Job

LEMMA InitInv == Init => SubmissionInv
  <1> SUFFICES ASSUME Init PROVE SubmissionInv
    OBVIOUS
  <1>1. PICK courier \in Couriers : job = [s \in Submissions |-> Waiting(courier[s])]
    BY DEF Init
  <1>2. courier \in [Submissions -> {"console", "rpc"}] /\ MaxConnections \in Nat /\ MaxDrops \in Nat
    BY SubmissionAssumption DEF SubmissionAssumption
  <1>3. job \in [Submissions -> Job]
    BY <1>1, <1>2 DEF Waiting, Job, Reasons
  <1>4. TypeOK
    BY <1>2, <1>3 DEF Init, TypeOK
  <1>5. StatusesAreTrue
    BY DEF Init, StatusesAreTrue
  <1>6. \A s \in Submissions :
          job[s].outcome = "none" /\ job[s].at = "new" /\ job[s].reply = "none"
    BY <1>1 DEF Waiting
  <1>7. OnlySentReaches /\ RejectionsAreTrue /\ InBlockIsApplied
    BY <1>6 DEF Init, OnlySentReaches, RejectionsAreTrue, InBlockIsApplied
  <1> QED BY <1>4, <1>5, <1>7 DEF SubmissionInv

\* One field of a record is set: it stays a record of its kind.
LEMMA JobFields ==
    ASSUME NEW j \in Job
    PROVE  /\ \A at \in {"connecting", "importing", "pricing", "sending"} : [j EXCEPT !.at = at] \in Job
           /\ [j EXCEPT !.at = "watching", !.reply = "waiting"] \in Job
           /\ [j EXCEPT !.reply = "failed"] \in Job
           /\ Subscribed(j) \in Job
           /\ \A k \in 0..MaxConnections : [j EXCEPT !.connection = k] \in Job
           /\ [j EXCEPT !.subscription = "closed"] \in Job
           /\ [j EXCEPT !.subscription = IF @ = "open" THEN "closed" ELSE @] \in Job
  BY DEF Job, Subscribed

LEMMA ConnectionsType ==
    ASSUME TypeOK, NEW s, Open(s)
    PROVE  /\ connections' \in Seq({"opening", "up", "down", "failed", "closed"})
           /\ Len(connections') = Len(connections) + 1 /\ Len(connections') <= MaxConnections
           /\ Len(connections) \in Nat /\ Len(connections') \in 0..MaxConnections
  BY SubmissionAssumption DEF SubmissionAssumption, TypeOK, Open

LEMMA StatusesType ==
    ASSUME TypeOK, NEW s \in Submissions, NEW status \in Statuses, Report(s, status)
    PROVE  /\ statuses' \in [Submissions -> Seq(Statuses)]
           /\ \A q \in Submissions \ {s} : statuses'[q] = statuses[q]
           /\ statuses'[s] \in {statuses[s], Append(statuses[s], status)}
  BY DEF TypeOK, Report

LEMMA StepType == TypeOK /\ [Next]_vars => TypeOK'
  <1> SUFFICES ASSUME TypeOK, [Next]_vars PROVE TypeOK'
    OBVIOUS
  <1> USE DEF TypeOK
  <1>1. ASSUME NEW s \in Submissions, NEW r \in Job, Put(s, r),
               UNCHANGED <<node, statuses, connections, cached, drops, applied>>
        PROVE  TypeOK'
    BY <1>1 DEF Put
  <1>2. ASSUME NEW s \in Submissions, Begin(s) PROVE TypeOK'
    <2>1. [job[s] EXCEPT !.at = "connecting"] \in Job
          /\ Finished(job[s], "rejected", "malformed") \in Job
      BY JobFields, FinishedType DEF Reasons
    <2> QED BY <1>1, <1>2, <2>1 DEF Begin
  <1>3. ASSUME NEW s \in Submissions, Connect(s) \/ Reconnect(s) PROVE TypeOK'
    <2>1. cached \in 0..MaxConnections
      BY SubmissionAssumption DEF SubmissionAssumption
    <2>2. /\ [job[s] EXCEPT !.connection = cached] \in Job
          /\ [job[s] EXCEPT !.at = "importing"] \in Job
      BY <2>1, JobFields
    <2> QED BY <1>1, <1>3, <2>2 DEF Connect, Reconnect
  <1>4. ASSUME NEW s \in Submissions, Connected(s) \/ NotConnected(s) PROVE TypeOK'
    <2>1. /\ \A at \in {"pricing", "sending"} : [job[s] EXCEPT !.at = at] \in Job
          /\ Finished(job[s], "error", "not a Midnight node") \in Job
          /\ Finished(job[s], "error", "no connection") \in Job
      BY JobFields, FinishedType DEF Reasons
    <2> QED BY <1>1, <1>4, <2>1 DEF Connected, NotConnected
  <1>5. ASSUME NEW s \in Submissions, Import(s) PROVE TypeOK'
    <2> DEFINE k == Len(connections')
    <2>1. Open(s) /\ k \in 0..MaxConnections
      BY <1>5, ConnectionsType DEF Import
    <2> HIDE DEF k
    <2>2. [job[s] EXCEPT !.at = "pricing"] \in Job
      BY JobFields
    <2>3. [job[s] EXCEPT !.at = "connecting", !.connection = k] \in Job
      BY <2>1 DEF Job
    <2>4. job' \in [Submissions -> Job]
      BY <1>5, <2>2, <2>3 DEF Import, Put, k
    <2>5. cached' \in 0..Len(connections')
      BY <1>5, <2>1, ConnectionsType DEF Import, k
    <2> QED BY <1>5, <2>1, <2>4, <2>5, ConnectionsType DEF Import
  <1>6. ASSUME NEW s \in Submissions, Price(s) PROVE TypeOK'
    <2>1. /\ [job[s] EXCEPT !.at = "sending"] \in Job
          /\ Finished(job[s], "rejected", "not priced") \in Job
      BY JobFields, FinishedType DEF Reasons
    <2> QED BY <1>1, <1>6, <2>1 DEF Price
  <1>7. ASSUME NEW s \in Submissions, Send(s) \/ Reply(s) \/ ReplyLost(s) PROVE TypeOK'
    <2> DEFINE j == [job[s] EXCEPT !.reply = "failed"]
    <2>1. /\ [job[s] EXCEPT !.at = "watching", !.reply = "waiting"] \in Job
          /\ Subscribed(job[s]) \in Job
          /\ j \in Job
      BY JobFields
    <2>2. \A reason \in {"not sent", "refused", "reply lost"} :
            Finished(j, "rejected", reason) \in Job
      BY <2>1, FinishedType DEF Reasons
    <2> QED BY <1>1, <1>7, <2>1, <2>2 DEF Send, Reply, ReplyLost
  <1>8. ASSUME NEW s \in Submissions, Status(s) PROVE TypeOK'
    <2> DEFINE j == Finished(job[s], Verdict(s, Head(statuses[s])), Head(statuses[s]))
    <2>1. Head(statuses[s]) \in Statuses /\ Tail(statuses[s]) \in Seq(Statuses)
      BY <1>8, HeadTailProperties DEF Status
    <2>2. Verdict(s, Head(statuses[s])) \in {"in-block", "rejected"} /\ Head(statuses[s]) \in Reasons
      BY <2>1 DEF Verdict, Reasons
    <2>3. j \in Job
      BY <2>2, FinishedType
    <2>4. job' = [job EXCEPT ![s] = j] /\ statuses' = [statuses EXCEPT ![s] = Tail(@)]
      BY <1>8 DEF Status, Put
    <2> HIDE DEF j
    <2> QED BY <1>8, <2>1, <2>3, <2>4 DEF Status
  <1>9. ASSUME NEW s \in Submissions, Timeout(s) PROVE TypeOK'
    <2>1. "timer" \in Reasons
      BY DEF Reasons
    <2>2. Finished(job[s], "unseen", "timer") \in Job
      BY <2>1, FinishedType
    <2> QED BY <1>1, <1>9, <2>2 DEF Timeout
  <1>10. ASSUME NEW s \in Submissions, Disconnect(s) PROVE TypeOK'
    <2> DEFINE j == [job[s] EXCEPT !.subscription = IF @ = "open" THEN "closed" ELSE @]
    <2>1. j \in Job
      BY JobFields
    <2>2. connections' = [connections EXCEPT ![job[s].connection] = "closed"]
      BY <1>10 DEF Disconnect
    <2>3. /\ connections' \in Seq({"opening", "up", "down", "failed", "closed"})
          /\ Len(connections') = Len(connections)
      <3>1. CASE job[s].connection \in 1..Len(connections)
        BY <2>2, <3>1, ExceptSeq
      <3>2. CASE job[s].connection \notin 1..Len(connections)
        <4>1. connections \in [1..Len(connections) -> {"opening", "up", "down", "failed", "closed"}]
          BY LenProperties
        <4>2. connections' = connections
          BY <2>2, <3>2, <4>1
        <4> QED BY <4>2
      <3> QED BY <3>1, <3>2
    <2>4. job' = [job EXCEPT ![s] = j]
      BY <1>10 DEF Disconnect, Put
    <2>5. statuses' \in [Submissions -> Seq(Statuses)]
      BY <1>10 DEF Disconnect
    <2> HIDE DEF j
    <2> QED BY <1>10, <2>1, <2>3, <2>4, <2>5 DEF Disconnect
  <1>11. ASSUME NEW s \in Submissions, NodeTakes(s) PROVE TypeOK'
    BY <1>11 DEF NodeTakes
  <1>12. ASSUME NEW s \in Submissions, Included(s) \/ LeavesPool(s) PROVE TypeOK'
    <2>1. PICK status \in Statuses : Report(s, status)
      BY <1>12 DEF Included, LeavesPool, Statuses
    <2>2. statuses' \in [Submissions -> Seq(Statuses)]
      BY <2>1, StatusesType
    <2> QED BY <1>12, <2>2 DEF Included, LeavesPool
  <1>13. ASSUME NEW k \in 1..Len(connections), Opens(k) \/ Returns(k) PROVE TypeOK'
    <2>1. PICK state \in {"opening", "up", "down", "failed", "closed"} :
            connections' = [connections EXCEPT ![k] = state]
      BY <1>13 DEF Opens, Returns
    <2>2. /\ connections' \in Seq({"opening", "up", "down", "failed", "closed"})
          /\ Len(connections') = Len(connections)
      BY <2>1, ExceptSeq
    <2> QED BY <1>13, <2>2 DEF Opens, Returns
  <1>14. ASSUME NEW k \in 1..Len(connections), Drops(k) PROVE TypeOK'
    <2>1. job' \in [Submissions -> Job]
      BY <1>14, JobFields DEF Drops
    <2>2. statuses' \in [Submissions -> Seq(Statuses)]
      BY <1>14 DEF Drops
    <2>3. drops' \in 0..MaxDrops
      BY <1>14, SubmissionAssumption DEF SubmissionAssumption, Drops
    <2> QED BY <1>14, <2>1, <2>2, <2>3, ExceptSeq DEF Drops
  <1>15. CASE UNCHANGED vars
    BY <1>15 DEF vars
  <1> QED
    BY <1>2, <1>3, <1>4, <1>5, <1>6, <1>7, <1>8, <1>9, <1>10, <1>11, <1>12, <1>13, <1>14, <1>15
    DEF Next

-----------------------------------------------------------------------------
(* The node and the statuses.                                              *)

\* A verdict of the node is final: what a block took stays there.
LEMMA NodeStep ==
    ASSUME TypeOK, [Next]_vars
    PROVE  /\ \A s \in Submissions :
                node[s] \in {"block", "failed", "refused", "gone"} => node'[s] = node[s]
           /\ applied = {s \in Submissions : node[s] = "block"} =>
                applied' = {s \in Submissions : node'[s] = "block"}
  <1> USE DEF TypeOK
  <1>1. CASE UNCHANGED <<node, applied>>
    BY <1>1
  <1>2. ASSUME NEW s \in Submissions, NodeTakes(s)
        PROVE  /\ node[s] = "unsent" /\ applied' = applied
               /\ \E verdict \in {"pool", "refused"} : node' = [node EXCEPT ![s] = verdict]
    BY <1>2 DEF NodeTakes
  <1>3. ASSUME NEW s \in Submissions, LeavesPool(s)
        PROVE  /\ node[s] = "pool" /\ applied' = applied
               /\ \E verdict \in {"adrift", "gone"} : node' = [node EXCEPT ![s] = verdict]
    BY <1>3 DEF LeavesPool
  <1>4. ASSUME NEW s \in Submissions, Included(s)
        PROVE  /\ node[s] \in {"pool", "adrift"}
               /\ \/ node' = [node EXCEPT ![s] = "block"] /\ applied' = applied \cup {s}
                  \/ node' = [node EXCEPT ![s] = "failed"] /\ applied' = applied
    BY <1>4 DEF Included
  <1>5. \/ UNCHANGED <<node, applied>>
        \/ \E s \in Submissions : NodeTakes(s) \/ LeavesPool(s) \/ Included(s)
    BY DEF Next, Begin, Connect, Import, Connected, NotConnected, Reconnect, Price, Send, Reply, ReplyLost,
           Status, Timeout, Disconnect, Opens, Drops, Returns, vars
  <1> QED BY <1>1, <1>2, <1>3, <1>4, <1>5

\* A status on its way was there before, or says what the node does in this very step.
LEMMA ReportStep ==
    ASSUME TypeOK, [Next]_vars, NEW s \in Submissions, NEW i \in 1..Len(statuses'[s])
    PROVE  \/ \E k \in 1..Len(statuses[s]) : statuses'[s][i] = statuses[s][k]
           \/ statuses'[s][i] = "InBlock" /\ node'[s] = "block"
           \/ statuses'[s][i] = "InBlockFailed" /\ node'[s] = "failed"
           \/ statuses'[s][i] = "Invalid" /\ node'[s] = "gone"
           \/ statuses'[s][i] \in {"Dropped", "Usurped"}
  <1> USE DEF TypeOK
  <1>1. CASE statuses'[s] = statuses[s]
    BY <1>1
  <1>2. CASE statuses'[s] = <<>>
    BY <1>2
  <1>3. CASE statuses[s] # <<>> /\ statuses'[s] = Tail(statuses[s])
    <2>1. statuses[s] \in Seq(Statuses) /\ Len(statuses[s]) \in Nat
      OBVIOUS
    <2>2. Len(statuses'[s]) = Len(statuses[s]) - 1
      BY <1>3, <2>1, HeadTailProperties
    <2>3. i + 1 \in 1..Len(statuses[s]) /\ statuses'[s][i] = statuses[s][i + 1]
      BY <1>3, <2>1, <2>2
    <2> QED BY <2>3
  <1>4. ASSUME NEW status \in Statuses, statuses'[s] = Append(statuses[s], status)
        PROVE  \/ \E k \in 1..Len(statuses[s]) : statuses'[s][i] = statuses[s][k]
               \/ statuses'[s][i] = status
    <2>1. statuses[s] \in Seq(Statuses) /\ Len(statuses[s]) \in Nat
      OBVIOUS
    <2>2. i \in 1..(Len(statuses[s]) + 1)
      BY <1>4, <2>1
    <2> QED BY <1>4, <2>1, <2>2
  <1>5. ASSUME NEW q \in Submissions, Included(q) \/ LeavesPool(q), statuses' # statuses
        PROVE  /\ \A p \in Submissions \ {q} : statuses'[p] = statuses[p]
               /\ \E status \in Statuses :
                    /\ statuses'[q] = Append(statuses[q], status)
                    /\ status = "InBlock" => node'[q] = "block"
                    /\ status = "InBlockFailed" => node'[q] = "failed"
                    /\ status = "Invalid" => node'[q] = "gone"
    <2>1. PICK status \in Statuses :
            /\ Report(q, status)
            /\ status = "InBlock" => node'[q] = "block"
            /\ status = "InBlockFailed" => node'[q] = "failed"
            /\ status = "Invalid" => node'[q] = "gone"
      BY <1>5 DEF Included, LeavesPool, Statuses
    <2>2. statuses' = [statuses EXCEPT ![q] = Append(@, status)]
      BY <1>5, <2>1 DEF Report
    <2> QED BY <2>1, <2>2
  <1>6. \/ UNCHANGED statuses
        \/ \E q \in Submissions : Status(q) \/ Disconnect(q) \/ Included(q) \/ LeavesPool(q)
        \/ \E k \in 1..Len(connections) : Drops(k)
    BY DEF Next, Begin, Connect, Import, Connected, NotConnected, Reconnect, Price, Send, Reply, ReplyLost,
           Timeout, NodeTakes, Opens, Returns, vars
  <1>7. ASSUME NEW q \in Submissions, Status(q)
        PROVE  statuses'[s] = statuses[s] \/ (statuses[s] # <<>> /\ statuses'[s] = Tail(statuses[s]))
    BY <1>7 DEF Status
  <1>8. ASSUME NEW q \in Submissions, Disconnect(q)
        PROVE  statuses'[s] = statuses[s] \/ statuses'[s] = <<>>
    BY <1>8 DEF Disconnect
  <1>9. ASSUME NEW k \in 1..Len(connections), Drops(k)
        PROVE  statuses'[s] = statuses[s] \/ statuses'[s] = <<>>
    BY <1>9 DEF Drops
  <1>10. ASSUME NEW q \in Submissions, Included(q) \/ LeavesPool(q)
         PROVE  \/ statuses'[s] = statuses[s]
                \/ \E status \in Statuses :
                     /\ statuses'[s] = Append(statuses[s], status)
                     /\ status = "InBlock" => node'[s] = "block"
                     /\ status = "InBlockFailed" => node'[s] = "failed"
                     /\ status = "Invalid" => node'[s] = "gone"
    BY <1>5, <1>10
  <1> QED
    BY <1>1, <1>2, <1>3, <1>4, <1>6, <1>7, <1>8, <1>9, <1>10 DEF Statuses

LEMMA StatusesStep ==
    ASSUME TypeOK, StatusesAreTrue, [Next]_vars
    PROVE  StatusesAreTrue'
  <1>1. applied' = {s \in Submissions : node'[s] = "block"}
    BY NodeStep DEF StatusesAreTrue
  <1>2. ASSUME NEW s \in Submissions, NEW i \in 1..Len(statuses'[s])
        PROVE  /\ statuses'[s][i] = "InBlock" => node'[s] = "block"
               /\ statuses'[s][i] = "InBlockFailed" => node'[s] = "failed"
               /\ statuses'[s][i] = "Invalid" => node'[s] = "gone"
    <2>1. CASE \E k \in 1..Len(statuses[s]) : statuses'[s][i] = statuses[s][k]
      BY <2>1, NodeStep DEF StatusesAreTrue
    <2>2. CASE ~ \E k \in 1..Len(statuses[s]) : statuses'[s][i] = statuses[s][k]
      BY <2>2, ReportStep
    <2> QED BY <2>1, <2>2
  <1> QED BY <1>1, <1>2 DEF StatusesAreTrue

-----------------------------------------------------------------------------
(* The outcomes.                                                           *)

\* What the invariant says of one submission.
Fine(s) ==
    /\ job[s].outcome # "none" => job[s].at = "settled"
    /\ job[s].reply = "none" => node[s] = "unsent"
    /\ job[s].at \in {"new", "connecting", "importing", "pricing", "sending"} => job[s].reply = "none"
    /\ job[s].outcome = "rejected" =>
        /\ job[s].reason \in {"malformed", "not priced", "not sent"} =>
                node[s] = "unsent" /\ job[s].reply \in {"none", "failed"}
        /\ job[s].reason = "refused" => node[s] = "refused"
        /\ job[s].reason = "InBlockFailed" => node[s] = "failed"
        /\ job[s].reason = "Invalid" => node[s] = "gone"
        /\ job[s].reason \in {"malformed", "not priced", "not sent", "refused", "reply lost"}
                             \cup (Statuses \ {"InBlock"})
    /\ Console(s) /\ job[s].outcome = "in-block" => node[s] = "block"

LEMMA FineIsAll ==
    StatusesAreTrue => ((\A s \in Submissions : Fine(s))
                        <=> OnlySentReaches /\ RejectionsAreTrue /\ InBlockIsApplied)
  BY DEF StatusesAreTrue, Fine, OnlySentReaches, RejectionsAreTrue, InBlockIsApplied

\* What finish leaves of a submission.
LEMMA FinishedFields ==
    ASSUME NEW j \in Job, NEW outcome \in {"in-block", "rejected", "unseen", "error"},
           NEW reason \in Reasons, NEW d, d = Finished(j, outcome, reason)
    PROVE  /\ d.by = j.by /\ d.reply = j.reply
           /\ j.outcome = "none" => d.outcome = outcome /\ d.reason = reason /\ d.at = "settled"
           /\ j.outcome # "none" => d.outcome = j.outcome /\ d.reason = j.reason /\ d.at = j.at
  <1>1. /\ Finished(j, outcome, reason).by = j.by /\ Finished(j, outcome, reason).reply = j.reply
        /\ j.outcome # "none" => Finished(j, outcome, reason) = j
        /\ j.outcome = "none" =>
             /\ Finished(j, outcome, reason).outcome = outcome
             /\ Finished(j, outcome, reason).reason = reason
             /\ Finished(j, outcome, reason).at = "settled"
    BY FinishedType
  <1> QED BY <1>1

\* A reply that failed is all that changes.
LEMMA FailedFields ==
    ASSUME NEW j \in Job, NEW f, f = [j EXCEPT !.reply = "failed"]
    PROVE  /\ f \in Job /\ f.reply = "failed" /\ f.by = j.by /\ f.at = j.at
           /\ f.outcome = j.outcome /\ f.reason = j.reason
  BY DEF Job

LEMMA FineStep ==
    ASSUME TypeOK, StatusesAreTrue, [Next]_vars, NEW q \in Submissions, Fine(q)
    PROVE  Fine(q)'
  <1> USE DEF TypeOK
  \* A request that failed.
  <1>0. ASSUME NEW s \in Submissions, NEW reason \in Reasons, q = s,
               Put(s, Finished([job[s] EXCEPT !.reply = "failed"], "rejected", reason))
        PROVE  /\ job'[q].by = job[q].by /\ job'[q].reply = "failed"
               /\ job[q].outcome = "none" => /\ job'[q].outcome = "rejected"
                                             /\ job'[q].reason = reason /\ job'[q].at = "settled"
               /\ job[q].outcome # "none" => /\ job'[q].outcome = job[q].outcome
                                             /\ job'[q].reason = job[q].reason
                                             /\ job'[q].at = job[q].at
    <2> DEFINE f == [job[q] EXCEPT !.reply = "failed"]
    <2>1. job'[q] = Finished(f, "rejected", reason)
      BY <1>0 DEF Put
    <2>2. /\ f \in Job /\ f.reply = "failed" /\ f.by = job[q].by /\ f.at = job[q].at
          /\ f.outcome = job[q].outcome /\ f.reason = job[q].reason
      BY FailedFields
    <2> HIDE DEF f
    <2> QED BY <2>1, <2>2, FinishedFields
  \* The connection and the subscription of a submission say nothing of its outcome.
  <1>1. ASSUME /\ job'[q].by = job[q].by /\ job'[q].at = job[q].at
               /\ job'[q].outcome = job[q].outcome /\ job'[q].reason = job[q].reason
               /\ job'[q].reply = job[q].reply,
               node'[q] = node[q]
        PROVE  Fine(q)'
    BY <1>1 DEF Fine, Console
  <1>2. ASSUME NEW s \in Submissions, NEW r, Put(s, r), node' = node,
               q = s => Fine(q)'
        PROVE  Fine(q)'
    BY <1>1, <1>2 DEF Put
  <1>3. ASSUME NEW s \in Submissions, Begin(s) PROVE Fine(q)'
    <2>1. node' = node /\ job[s].at = "new"
      BY <1>3 DEF Begin
    <2>2. CASE Put(s, [job[s] EXCEPT !.at = "connecting"])
      <3>1. q = s => /\ job'[q].at = "connecting" /\ job'[q].by = job[q].by
                     /\ job'[q].outcome = job[q].outcome /\ job'[q].reason = job[q].reason
                     /\ job'[q].reply = job[q].reply
        BY <2>2 DEF Put, Job
      <3>2. q = s => Fine(q)'
        BY <2>1, <3>1 DEF Fine, Console
      <3> QED BY <1>2, <2>1, <2>2, <3>2
    <2>3. CASE Put(s, Finished(job[s], "rejected", "malformed"))
      <3>1. q = s => job'[q] = Finished(job[q], "rejected", "malformed")
        BY <2>3 DEF Put
      <3>2. q = s => Fine(q)'
        BY <2>1, <3>1 DEF Fine, Console, Finished, Job
      <3> QED BY <1>2, <2>1, <2>3, <3>2
    <2> QED BY <1>3, <2>2, <2>3 DEF Begin
  <1>4. ASSUME NEW s \in Submissions, Connect(s) \/ Reconnect(s) \/ Import(s) PROVE Fine(q)'
    <2>1. node' = node /\ job[s].at \in {"connecting", "importing", "pricing"}
      BY <1>4 DEF Connect, Reconnect, Import
    <2>2. ASSUME NEW at \in {"connecting", "importing", "pricing"}, NEW k,
                 Put(s, [job[s] EXCEPT !.at = at, !.connection = k])
          PROVE  Fine(q)'
      <3>1. q = s => /\ job'[q].at = at /\ job'[q].by = job[q].by
                     /\ job'[q].outcome = job[q].outcome /\ job'[q].reason = job[q].reason
                     /\ job'[q].reply = job[q].reply
        BY <2>2 DEF Put, Job
      <3>2. q = s => Fine(q)'
        BY <2>1, <3>1 DEF Fine, Console
      <3> QED BY <1>2, <2>1, <2>2, <3>2
    <2>3. CASE Connect(s) /\ Put(s, [job[s] EXCEPT !.connection = cached])
      <3>1. Put(s, [job[s] EXCEPT !.at = "connecting", !.connection = cached])
        BY <2>3 DEF Connect, Put, Job
      <3> QED BY <2>2, <3>1
    <2>4. CASE Put(s, [job[s] EXCEPT !.at = "importing"])
      <3>1. Put(s, [job[s] EXCEPT !.at = "importing", !.connection = job[s].connection])
        BY <2>4 DEF Put, Job
      <3> QED BY <2>2, <3>1
    <2>5. CASE Import(s) /\ job[s].connection # 0
      <3>1. Put(s, [job[s] EXCEPT !.at = "pricing", !.connection = job[s].connection])
        BY <2>5 DEF Import, Put, Job
      <3> QED BY <2>2, <3>1
    <2>6. CASE Import(s) /\ job[s].connection = 0
      <3>1. Put(s, [job[s] EXCEPT !.at = "connecting", !.connection = Len(connections')])
        BY <2>6 DEF Import, Put, Job
      <3> QED BY <2>2, <3>1
    <2> QED BY <1>4, <2>3, <2>4, <2>5, <2>6 DEF Connect, Reconnect
  <1>5. ASSUME NEW s \in Submissions, Connected(s) \/ NotConnected(s) \/ Price(s) PROVE Fine(q)'
    <2>1. node' = node /\ job[s].at \in {"connecting", "pricing"}
      BY <1>5 DEF Connected, NotConnected, Price
    <2>2. ASSUME NEW at \in {"pricing", "sending"}, Put(s, [job[s] EXCEPT !.at = at])
          PROVE  Fine(q)'
      <3>1. q = s => /\ job'[q].at = at /\ job'[q].by = job[q].by
                     /\ job'[q].outcome = job[q].outcome /\ job'[q].reason = job[q].reason
                     /\ job'[q].reply = job[q].reply
        BY <2>2 DEF Put, Job
      <3>2. q = s => Fine(q)'
        BY <2>1, <3>1 DEF Fine, Console
      <3> QED BY <1>2, <2>1, <2>2, <3>2
    <2>3. ASSUME NEW outcome, NEW reason, Put(s, Finished(job[s], outcome, reason)),
                 outcome = "error" \/ (outcome = "rejected" /\ reason = "not priced")
          PROVE  Fine(q)'
      <3>1. q = s => job'[q] = Finished(job[q], outcome, reason)
        BY <2>3 DEF Put
      <3>2. q = s => Fine(q)'
        BY <2>1, <2>3, <3>1 DEF Fine, Console, Finished, Job
      <3> QED BY <1>2, <2>1, <2>3, <3>2
    <2> QED BY <1>5, <2>2, <2>3 DEF Connected, NotConnected, Price
  <1>6. ASSUME NEW s \in Submissions, Send(s) PROVE Fine(q)'
    <2>1. node' = node /\ job[s].at = "sending"
      BY <1>6 DEF Send
    <2>2. CASE Put(s, [job[s] EXCEPT !.at = "watching", !.reply = "waiting"])
      <3>1. q = s => /\ job'[q].at = "watching" /\ job'[q].by = job[q].by
                     /\ job'[q].outcome = job[q].outcome /\ job'[q].reason = job[q].reason
                     /\ job'[q].reply = "waiting"
        BY <2>2 DEF Put, Job
      <3>2. q = s => Fine(q)'
        BY <2>1, <3>1 DEF Fine, Console
      <3> QED BY <1>2, <2>1, <2>2, <3>2
    <2>3. CASE Put(s, Finished([job[s] EXCEPT !.reply = "failed"], "rejected", "not sent"))
      <3>1. "not sent" \in Reasons
        BY DEF Reasons
      <3>2. q = s => job[q].outcome = "none"
        BY <2>1 DEF Fine
      <3>3. q = s => /\ job'[q].by = job[q].by /\ job'[q].reply = "failed" /\ job'[q].at = "settled"
                     /\ job'[q].outcome = "rejected" /\ job'[q].reason = "not sent"
        BY <1>0, <2>3, <3>1, <3>2
      <3>4. q = s => Fine(q)'
        BY <2>1, <3>3 DEF Fine, Console
      <3> QED BY <1>2, <2>1, <2>3, <3>4
    <2> QED BY <1>6, <2>2, <2>3 DEF Send
  <1>7. ASSUME NEW s \in Submissions, Reply(s) \/ ReplyLost(s) PROVE Fine(q)'
    <2>1. node' = node /\ job[s].reply = "waiting"
      BY <1>7 DEF Reply, ReplyLost
    <2>2. CASE Put(s, Subscribed(job[s]))
      <3>1. q = s => job'[q] = Subscribed(job[q])
        BY <2>2 DEF Put
      <3>2. q = s => Fine(q)'
        <4>1. q = s => /\ job'[q].by = job[q].by /\ job'[q].at = job[q].at
                       /\ job'[q].outcome = job[q].outcome /\ job'[q].reason = job[q].reason
                       /\ job'[q].reply = "subscribed"
          BY <3>1 DEF Subscribed, Job
        <4> QED BY <2>1, <4>1 DEF Fine, Console
      <3> QED BY <1>2, <2>1, <2>2, <3>2
    <2>3. ASSUME NEW reason, reason = "reply lost" \/ (reason = "refused" /\ node[s] = "refused"),
                 Put(s, Finished([job[s] EXCEPT !.reply = "failed"], "rejected", reason))
          PROVE  Fine(q)'
      <3>2. q = s => Fine(q)'
        <4>1. reason \in Reasons
          BY <2>3 DEF Reasons
        <4>2. q = s => /\ job'[q].by = job[q].by /\ job'[q].reply = "failed"
                       /\ job[q].outcome = "none" => /\ job'[q].outcome = "rejected"
                                                     /\ job'[q].reason = reason
                                                     /\ job'[q].at = "settled"
                       /\ job[q].outcome # "none" => /\ job'[q].outcome = job[q].outcome
                                                     /\ job'[q].reason = job[q].reason
                                                     /\ job'[q].at = job[q].at
          BY <1>0, <2>3, <4>1
        <4> QED BY <2>1, <2>3, <4>2 DEF Fine, Console
      <3> QED BY <1>2, <2>1, <2>3, <3>2
    <2> QED BY <1>7, <2>2, <2>3 DEF Reply, ReplyLost
  <1>8. ASSUME NEW s \in Submissions, Status(s) PROVE Fine(q)'
    <2> DEFINE status == Head(statuses[s])
    <2>1. /\ node' = node /\ Put(s, Finished(job[s], Verdict(s, status), status))
          /\ statuses[s] # <<>> /\ statuses[s] \in Seq(Statuses)
      BY <1>8 DEF Status
    <2>2. status = statuses[s][1] /\ 1 \in 1..Len(statuses[s]) /\ status \in Statuses
      BY <2>1, HeadTailProperties, EmptySeq
    <2>3. /\ status = "InBlock" => node[s] = "block"
          /\ status = "InBlockFailed" => node[s] = "failed"
          /\ status = "Invalid" => node[s] = "gone"
      BY <2>2 DEF StatusesAreTrue
    <2>4. q = s => job'[q] = Finished(job[q], Verdict(q, status), status)
      BY <2>1 DEF Put
    <2> HIDE DEF status
    <2>5. q = s => Fine(q)'
      <3>1. /\ status \in Reasons /\ Verdict(q, status) \in {"in-block", "rejected"}
            /\ Verdict(q, status) = "rejected" => status # "InBlock"
            /\ Console(q) /\ Verdict(q, status) = "in-block" => status = "InBlock"
        BY <2>2 DEF Verdict, Reasons, Statuses
      <3>2. q = s => /\ job'[q].by = job[q].by /\ job'[q].reply = job[q].reply
                     /\ job[q].outcome = "none" => /\ job'[q].outcome = Verdict(q, status)
                                                   /\ job'[q].reason = status
                                                   /\ job'[q].at = "settled"
                     /\ job[q].outcome # "none" => /\ job'[q].outcome = job[q].outcome
                                                   /\ job'[q].reason = job[q].reason
                                                   /\ job'[q].at = job[q].at
        BY <2>4, <3>1, FinishedFields
      <3> QED BY <2>1, <2>2, <2>3, <3>1, <3>2 DEF Fine, Console, Statuses
    <2> QED BY <1>2, <2>1, <2>5
  <1>9. ASSUME NEW s \in Submissions, Timeout(s) PROVE Fine(q)'
    <2>1. node' = node /\ Put(s, Finished(job[s], "unseen", "timer"))
      BY <1>9 DEF Timeout
    <2>2. q = s => job'[q] = Finished(job[q], "unseen", "timer")
      BY <2>1 DEF Put
    <2>3. q = s => Fine(q)'
      <3>1. "timer" \in Reasons
        BY DEF Reasons
      <3>2. q = s => /\ job'[q].by = job[q].by /\ job'[q].reply = job[q].reply
                     /\ job'[q].outcome = "unseen" /\ job'[q].at = "settled"
        <4>1. q = s => job[q].outcome = "none"
          BY <1>9 DEF Timeout, TimerRuns, Fine
        <4> QED BY <2>2, <3>1, <4>1, FinishedFields
      <3> QED BY <2>1, <3>2 DEF Fine, Console
    <2> QED BY <1>2, <2>1, <2>3
  <1>10. ASSUME NEW s \in Submissions, Disconnect(s) PROVE Fine(q)'
    BY <1>1, <1>10 DEF Disconnect, Put, Job
  <1>11. ASSUME NEW k \in 1..Len(connections), Drops(k) PROVE Fine(q)'
    BY <1>1, <1>11 DEF Drops, Job
  <1>12. ASSUME NEW s \in Submissions, NodeTakes(s) \/ Included(s) \/ LeavesPool(s) PROVE Fine(q)'
    <2>1. job' = job /\ \A p \in Submissions \ {s} : node'[p] = node[p]
      BY <1>12 DEF NodeTakes, Included, LeavesPool
    <2>2. node[s] = "unsent" => job[s].reply = "waiting"
      BY <1>12 DEF NodeTakes, Included, LeavesPool
    <2>3. node[s] \in {"unsent", "pool", "adrift"}
      BY <1>12 DEF NodeTakes, Included, LeavesPool
    <2> QED BY <1>1, <2>1, <2>2, <2>3 DEF Fine, Console
  <1>13. CASE \/ \E k \in 1..Len(connections) : Opens(k) \/ Returns(k)
              \/ UNCHANGED vars
    BY <1>1, <1>13 DEF Opens, Returns, vars
  <1> QED
    BY <1>3, <1>4, <1>5, <1>6, <1>7, <1>8, <1>9, <1>10, <1>11, <1>12, <1>13 DEF Next

LEMMA SubmissionInvariant == Spec => []SubmissionInv
  <1>1. TypeOK /\ StatusesAreTrue /\ (\A s \in Submissions : Fine(s)) <=> SubmissionInv
    BY FineIsAll DEF SubmissionInv
  <1>2. SubmissionInv /\ [Next]_vars
        => (TypeOK /\ StatusesAreTrue /\ \A s \in Submissions : Fine(s))'
    <2> SUFFICES ASSUME SubmissionInv, [Next]_vars
                 PROVE  (TypeOK /\ StatusesAreTrue /\ \A s \in Submissions : Fine(s))'
      OBVIOUS
    <2>1. TypeOK /\ StatusesAreTrue /\ \A s \in Submissions : Fine(s)
      BY <1>1
    <2>2. TypeOK' /\ StatusesAreTrue'
      BY <2>1, StepType, StatusesStep
    <2>3. \A s \in Submissions : Fine(s)'
      BY <2>1, FineStep
    <2> QED BY <2>2, <2>3
  <1> QED BY <1>1, <1>2, InitInv, PTL DEF Spec

\* The two functions, the node and the connections keep their shape for any submissions.
THEOREM SubmissionTyping == Spec => []TypeOK
  <1>1. SubmissionInv => TypeOK
    BY DEF SubmissionInv
  <1> QED BY <1>1, SubmissionInvariant, PTL

\* Whichever of the timer, the statuses and the reply comes first, what the caller is told stays
\* true: in-block is in a block and did not fail there, and a final rejection is final.
THEOREM ToldOutcomesStand == Spec => []OutcomesStand
  <1>1. SubmissionInv => OutcomesStand
    <2> SUFFICES ASSUME SubmissionInv PROVE FinalRejectionsStand
      BY DEF SubmissionInv, OutcomesStand
    <2>1. \A s \in applied : s \in Submissions /\ node[s] = "block"
      BY DEF SubmissionInv, StatusesAreTrue
    <2> QED
      BY <2>1 DEF SubmissionInv, RejectionsAreTrue, FinalRejectionsStand, Statuses
  <1> QED BY <1>1, SubmissionInvariant, PTL

=============================================================================
