------------------------ MODULE NotificationsProofs -------------------------
(***************************************************************************)
(* Proofs about Notifications, for every set of users and events and every *)
(* bound.                                                                  *)
(***************************************************************************)
EXTENDS Notifications, FiniteSetTheorems, TLAPS

(* Next, by who takes the step: the API and the removals, the queue, the   *)
(* invocation                                                              *)

ApiStep ==
  \/ \E e \in Events : write(e) \/ publish(e) \/ delete_post(e) \/ clear_notification(e)
  \/ \E u \in Users : update_preference(u) \/ lock_account(u)
  \/ commit_removal \/ rollback_removal

QueueStep ==
  \/ \E batch \in SUBSET Queued : handler(batch)
  \/ acknowledge \/ dies
  \/ \E e \in Events : redelivered(e)

RecordStep(e) == Handling(e) \/ storage_fails(e)

LEMMA NextCases ==
  [Next]_vars =>
    ApiStep \/ QueueStep \/ (\E e \in Events : RecordStep(e)) \/ UNCHANGED vars
BY DEF Next, ApiStep, QueueStep, RecordStep

(* The invocation, and what its receives have counted *)

\* Past its commit, the record whose turn it is has a row more than a record
\* still to be handled.
InProgress(e) == job.at \in {"committed", "mailing"} /\ job.now = e

JobOK ==
  /\ job.at = "idle" => job = Idle
  /\ job.todo \subseteq job.batch
  /\ job.failed \subseteq job.batch \ job.todo
  /\ job.at \in {"resolved", "committed", "mailing"} => job.now \in job.todo
  /\ \A e \in job.batch : event[e] = "taken"

\* One handling adds at most one row and sends at most one email.
Counting ==
  \A e \in Events :
    /\ event[e] \in {"none", "stored", "lost"} => received[e] = 0
    /\ event[e] = "queued" => received[e] < MaxReceive
    /\ Rows(e) <= received[e] /\ mailed[e] <= received[e]
    /\ e \in job.todo => mailed[e] < received[e]
    /\ e \in job.todo /\ ~InProgress(e) => Rows(e) < received[e]

Jobs == [at : {"idle", "next", "resolved", "committed", "mailing"},
         now : Events \cup {"none"}, batch : SUBSET Events,
         todo : SUBSET Events, failed : SUBSET Events, aborted : BOOLEAN]

\* An account was removed under the record e, which is to be mailed.
LateMail(e) == job.at = "mailing" /\ job.now = e /\ ~(Parties(e) \subseteq accounts)

\* A step of the record e: it is over, or at its next phase.
Turn(e) ==
  /\ job' \in Jobs
  /\ job'.at \in {"next", "resolved", "committed", "mailing"}
  /\ job'.batch = job.batch
  /\ job'.todo = IF job'.at = "next" THEN job.todo \ {e} ELSE job.todo
  /\ job'.at # "next" => job'.now = e /\ job'.failed = job.failed
  /\ job'.failed \in {job.failed, job.failed \cup {e}}
  /\ job'.failed # job.failed => job'.aborted \/ LateMail(e)
  /\ job.aborted => job'.aborted

\* What Over and At make of the invocation.
LEMMA Turns ==
  ASSUME TypeOK, JobOK, NEW e \in job.todo, NEW failed \in {{}, {e}}, NEW aborted \in BOOLEAN,
         NEW phase \in {"resolved", "committed", "mailing"},
         job.aborted => aborted, failed # {} => aborted \/ LateMail(e),
         Over(e, failed, aborted) \/ At(e, phase)
  PROVE  Turn(e)
<1> USE DEF Turn, Jobs
<1>1. e \in Events /\ e \in job.batch /\ e \notin job.failed
  BY DEF TypeOK, JobOK
<1>2. CASE Over(e, failed, aborted)
  BY <1>1, <1>2 DEF Over, TypeOK, JobOK
<1>3. CASE At(e, phase)
  BY <1>1, <1>3 DEF At, TypeOK, JobOK
<1>4. QED
  BY <1>2, <1>3

Bookkeeping == TypeOK /\ JobOK /\ Counting

\* What a message becomes that was handed out and not deleted.
LEMMA Returns ==
  ASSUME TypeOK, NEW e \in Events
  PROVE  Return(e) \in {"queued", "dead"} /\ (Return(e) = "queued" => received[e] < MaxReceive)
BY DEF Return

\* The API's own steps, and a removal's: the invocation is untouched.
LEMMA ApiKeepsBooks ==
  ASSUME Bookkeeping, ApiStep
  PROVE  Bookkeeping'
<1> USE BoundAssumption, EventAssumption DEF Bookkeeping, TypeOK, JobOK, Counting, InProgress, Rows
<1>1. ASSUME NEW e \in Events, write(e) PROVE Bookkeeping'
  BY <1>1 DEF write
<1>2. ASSUME NEW e \in Events, publish(e) PROVE Bookkeeping'
  BY <1>2 DEF publish
<1>3. ASSUME NEW e \in Events, delete_post(e) PROVE Bookkeeping'
  BY <1>3 DEF delete_post
<1>4. ASSUME NEW e \in Events, clear_notification(e) PROVE Bookkeeping'
  <2>1. /\ shown[e] - 1 \in 0..MaxReceive /\ cleared[e] + 1 \in 0..MaxReceive
        /\ (shown[e] - 1) + (cleared[e] + 1) = shown[e] + cleared[e]
    <3>1. /\ shown[e] \in Nat /\ cleared[e] \in Nat /\ received[e] \in 0..MaxReceive
          /\ shown[e] + cleared[e] <= received[e] /\ shown[e] > 0
      BY <1>4 DEF clear_notification
    <3>2. QED
      BY <3>1
  <2>2. /\ shown' = [shown EXCEPT ![e] = shown[e] - 1]
        /\ cleared' = [cleared EXCEPT ![e] = cleared[e] + 1]
        /\ UNCHANGED <<accounts, remover, post, event, received, mailed, emails, job, faults>>
    BY <1>4 DEF clear_notification
  <2>3. /\ shown' \in [Events -> 0..MaxReceive] /\ cleared' \in [Events -> 0..MaxReceive]
        /\ \A f \in Events : shown'[f] + cleared'[f] = shown[f] + cleared[f]
    BY <2>1, <2>2
  <2>4. QED
    BY <2>2, <2>3
<1>5. ASSUME NEW u \in Users, update_preference(u) PROVE Bookkeeping'
  BY <1>5 DEF update_preference
<1>6. ASSUME NEW u \in Users, lock_account(u) PROVE Bookkeeping'
  BY <1>6 DEF lock_account
<1>7. CASE commit_removal
  <2>1. /\ shown' \in [Events -> 0..MaxReceive] /\ cleared' \in [Events -> 0..MaxReceive]
        /\ \A f \in Events : shown'[f] + cleared'[f] <= shown[f] + cleared[f]
    BY <1>7 DEF commit_removal
  <2>2. post' \in [Posted -> {"none", "live", "deleted", "anonymous", "gone"}]
    BY <1>7 DEF commit_removal
  <2>3. remover' \in accounts' \cup {"none"} /\ accounts' \subseteq Users /\ emails' \subseteq Users
    BY <1>7 DEF commit_removal
  <2>4. UNCHANGED <<event, received, mailed, job, faults>>
    BY <1>7 DEF commit_removal
  <2>5. QED
    BY <2>1, <2>2, <2>3, <2>4
<1>8. CASE rollback_removal
  BY <1>8 DEF rollback_removal
<1>9. QED
  BY <1>1, <1>2, <1>3, <1>4, <1>5, <1>6, <1>7, <1>8 DEF ApiStep

\* The queue's steps: a batch is taken, settled, lost or handed out again.
LEMMA QueueKeepsBooks ==
  ASSUME Bookkeeping, QueueStep
  PROVE  Bookkeeping'
<1> USE BoundAssumption, EventAssumption DEF Bookkeeping, Rows
<1>1. ASSUME NEW batch \in SUBSET Queued, handler(batch) PROVE Bookkeeping'
  <2>1. /\ \A f \in batch : f \in Events /\ event[f] = "queued" /\ received[f] < MaxReceive
        /\ \A f \in Events : received[f] \in 0..MaxReceive
    BY DEF Queued, Counting, TypeOK
  <2>2. /\ received' \in [Events -> 0..MaxReceive]
        /\ \A f \in Events : received'[f] = IF f \in batch THEN received[f] + 1 ELSE received[f]
        /\ \A f \in Events : event'[f] = IF f \in batch THEN "taken" ELSE event[f]
        /\ event' \in [Events -> {"none", "stored", "lost", "queued", "taken", "done", "dead"}]
    BY <1>1, <2>1 DEF handler, TypeOK
  <2>3. /\ job' = [at |-> "next", now |-> "none", batch |-> batch, todo |-> batch,
                   failed |-> {}, aborted |-> FALSE]
        /\ job = Idle
        /\ UNCHANGED <<accounts, remover, post, shown, cleared, mailed, emails, faults>>
    BY <1>1 DEF handler, JobOK
  <2>4. TypeOK'
    BY <2>1, <2>2, <2>3 DEF TypeOK
  <2>5. JobOK'
    BY <2>1, <2>2, <2>3 DEF JobOK
  <2>6. Counting'
    <3> SUFFICES ASSUME NEW f \in Events PROVE
          /\ event'[f] \in {"none", "stored", "lost"} => received'[f] = 0
          /\ event'[f] = "queued" => received'[f] < MaxReceive
          /\ (shown[f] + cleared[f])' <= received'[f] /\ mailed'[f] <= received'[f]
          /\ f \in job'.todo => mailed'[f] < received'[f] /\ (shown[f] + cleared[f])' < received'[f]
      BY DEF Counting
    <3>1. /\ shown[f] \in Nat /\ cleared[f] \in Nat /\ mailed[f] \in Nat /\ received[f] \in Nat
      BY DEF TypeOK
    <3>2. /\ shown[f] + cleared[f] <= received[f] /\ mailed[f] <= received[f]
          /\ event[f] \in {"none", "stored", "lost"} => received[f] = 0
          /\ event[f] = "queued" => received[f] < MaxReceive
      BY DEF Counting
    <3>3. job'.todo = batch
      BY <2>3
    <3>4. QED
      BY <2>2, <2>3, <3>1, <3>2, <3>3
  <2>7. QED
    BY <2>4, <2>5, <2>6
<1>2. ASSUME job' = Idle, NEW to \in [Events -> {"queued", "dead", "done"}],
             \A f \in Events : to[f] = "queued" => received[f] < MaxReceive,
             event' = [f \in Events |-> IF f \in job.batch THEN to[f] ELSE event[f]],
             faults' \in 0..MaxFaults,
             UNCHANGED <<accounts, remover, post, received, shown, cleared, mailed, emails>>
      PROVE  Bookkeeping'
  <2>1. /\ job'.at = "idle" /\ job'.now = "none" /\ job'.batch = {} /\ job'.todo = {}
        /\ job'.failed = {} /\ job'.aborted = FALSE
    BY <1>2 DEF Idle
  <2>2. TypeOK'
    BY <1>2 DEF TypeOK, Idle
  <2>3. JobOK'
    BY <1>2, <2>1 DEF JobOK
  <2>4. Counting'
    BY <1>2, <2>1 DEF Counting, TypeOK
  <2>5. QED
    BY <2>2, <2>3, <2>4
<1>3. CASE acknowledge
  <2> DEFINE to == [f \in Events |-> Settled(f)]
  <2>1. /\ to \in [Events -> {"queued", "dead", "done"}]
        /\ \A f \in Events : to[f] = "queued" => received[f] < MaxReceive
    BY Returns DEF Settled
  <2>2. event' = [f \in Events |-> IF f \in job.batch THEN to[f] ELSE event[f]]
    BY <1>3 DEF acknowledge
  <2>3. faults' \in 0..MaxFaults
    BY <1>3 DEF acknowledge, TypeOK
  <2> HIDE DEF to
  <2>4. QED
    BY <1>2, <1>3, <2>1, <2>2, <2>3 DEF acknowledge
<1>4. CASE dies
  <2> DEFINE to == [f \in Events |-> Return(f)]
  <2>1. /\ to \in [Events -> {"queued", "dead", "done"}]
        /\ \A f \in Events : to[f] = "queued" => received[f] < MaxReceive
    BY Returns
  <2>2. event' = [f \in Events |-> IF f \in job.batch THEN to[f] ELSE event[f]]
    BY <1>4 DEF dies
  <2>3. faults' \in 0..MaxFaults
    BY <1>4 DEF dies, Fault, TypeOK
  <2> HIDE DEF to
  <2>4. QED
    BY <1>2, <1>4, <2>1, <2>2, <2>3 DEF dies
<1>5. ASSUME NEW e \in Events, redelivered(e) PROVE Bookkeeping'
  BY <1>5 DEF redelivered, Fault, TypeOK, JobOK, Counting, InProgress
<1>6. QED
  BY <1>1, <1>3, <1>4, <1>5 DEF QueueStep

\* The Lambda's steps for one record, one of which may fail.
Adds(e) == shown' = [shown EXCEPT ![e] = @ + 1]

\* What they have in common: only a commit adds a row and only a sent email
\* counts, each once in a handling, and no phase is skipped.
LEMMA HandlingShape ==
  ASSUME TypeOK, JobOK, NEW e \in Events, RecordStep(e)
  PROVE  /\ e \in job.todo /\ Turn(e)
         /\ job.at # "next" => job.now = e
         /\ job'.at = "next" /\ e \notin job'.failed => InProgress(e) \/ NothingToTell(e)
         /\ job'.aborted # job.aborted =>
              \/ faults' = faults + 1
              \/ job.at = "resolved" /\ job.now = e /\ ~(Parties(e) \subseteq accounts)
         /\ job'.at = "resolved" => job.at = "next" /\ Parties(e) \subseteq accounts
         /\ UNCHANGED <<accounts, remover, post, event, received, cleared, emails>>
         /\ faults' \in 0..MaxFaults /\ faults' >= faults
         /\ \/ /\ shown' = shown
               /\ job'.at \in {"committed", "mailing"} => InProgress(e)
            \/ /\ job.at = "resolved" /\ job.now = e /\ Adds(e)
               /\ Parties(e) \subseteq accounts
               /\ job'.at \in {"next", "committed"}
         /\ \/ mailed' = mailed
            \/ /\ job.at = "mailing" /\ job.now = e /\ job'.at = "next"
               /\ mailed' = [mailed EXCEPT ![e] = @ + 1]
<1> USE BoundAssumption DEF Adds, InProgress
<1>1. e \in job.todo
  BY DEF RecordStep, Handling, handle_domain_event, commit_notification, read_preference, send,
         storage_fails, JobOK
<1>2. job.aborted \in BOOLEAN /\ faults \in 0..MaxFaults /\ shown \in [Events -> 0..MaxReceive]
      /\ mailed \in [Events -> 0..MaxReceive]
  BY DEF TypeOK
<1>3. CASE handle_domain_event(e)
  <2>1. Turn(e)
    BY <1>1, <1>2, <1>3, Turns DEF handle_domain_event, Raises
  <2>2. QED
    BY <1>1, <1>2, <1>3, <2>1 DEF handle_domain_event, NothingToTell, Over, At
<1>4. CASE commit_notification(e)
  <2>1. Turn(e)
    BY <1>1, <1>2, <1>4, Turns DEF commit_notification
  <2>2. QED
    BY <1>1, <1>2, <1>4, <2>1 DEF commit_notification, Over, At
<1>5. CASE read_preference(e)
  <2>1. Turn(e)
    BY <1>1, <1>2, <1>5, Turns DEF read_preference
  <2>2. QED
    BY <1>1, <1>2, <1>5, <2>1 DEF read_preference, Over, At
<1>6. CASE send(e)
  <2>1. PICK failed \in {{}, {e}} : Over(e, failed, job.aborted) /\ (failed # {} => LateMail(e))
    BY <1>6 DEF send, LateMail
  <2>2. Turn(e)
    BY <1>1, <1>2, <2>1, Turns
  <2>3. mailed' = mailed \/ mailed' = [mailed EXCEPT ![e] = @ + 1]
    <3>1. CASE mailed' = mailed
      BY <3>1
    <3>2. CASE \E sent \in {0, 1} : mailed' = [mailed EXCEPT ![e] = @ + sent]
      <4>1. PICK sent \in {0, 1} : mailed' = [mailed EXCEPT ![e] = @ + sent]
        BY <3>2
      <4>2. sent = 0 => mailed' = mailed
        BY <1>2, <4>1
      <4>3. sent = 1 => mailed' = [mailed EXCEPT ![e] = @ + 1]
        BY <4>1
      <4>4. QED
        BY <4>2, <4>3
    <3>3. QED
      BY <1>6, <3>1, <3>2 DEF send
  <2>4. job.at = "mailing" /\ job.now = e /\ job'.at = "next" /\ job'.aborted = job.aborted
    BY <1>6, <2>1 DEF send, Over
  <2>5. UNCHANGED <<accounts, remover, post, event, received, shown, cleared, emails, faults>>
    BY <1>6 DEF send
  <2>6. QED
    BY <1>1, <1>2, <2>2, <2>3, <2>4, <2>5
<1>7. CASE storage_fails(e)
  <2>1. Turn(e)
    BY <1>1, <1>2, <1>7, Turns DEF storage_fails
  <2>2. faults' \in 0..MaxFaults /\ faults' >= faults /\ faults' = faults + 1
    BY <1>2, <1>7 DEF storage_fails, Fault
  <2>3. job'.at = "next" /\ e \in job'.failed
    BY <1>7 DEF storage_fails, Over
  <2>4. QED
    BY <1>1, <1>2, <1>7, <2>1, <2>2, <2>3 DEF storage_fails
<1>8. QED
  BY <1>3, <1>4, <1>5, <1>6, <1>7 DEF RecordStep, Handling

LEMMA HandlingKeepsBooks ==
  ASSUME Bookkeeping, NEW e \in Events, RecordStep(e)
  PROVE  Bookkeeping'
<1> USE BoundAssumption DEF Bookkeeping
<1>1. /\ e \in job.todo /\ Turn(e)
      /\ UNCHANGED <<accounts, remover, post, event, received, cleared, emails>>
      /\ faults' \in 0..MaxFaults
  BY HandlingShape
<1>2. JobOK'
  BY <1>1 DEF JobOK, Turn
<1>3. /\ \A f \in Events : /\ shown[f] \in 0..MaxReceive /\ cleared[f] \in 0..MaxReceive
                            /\ mailed[f] \in 0..MaxReceive /\ received[f] \in 0..MaxReceive
  BY DEF TypeOK
<1>4. /\ mailed' \in [Events -> 0..MaxReceive]
      /\ \A f \in Events : mailed'[f] <= received[f] /\ (f \in job'.todo => mailed'[f] < received[f])
  <2>1. CASE mailed' = mailed
    BY <1>1, <2>1 DEF TypeOK, Counting, Turn
  <2>2. CASE job'.at = "next" /\ mailed' = [mailed EXCEPT ![e] = @ + 1]
    <3>1. mailed[e] < received[e]
      BY <1>1 DEF Counting
    <3>2. mailed[e] + 1 \in 0..MaxReceive /\ mailed[e] + 1 <= received[e]
      BY <1>3, <3>1
    <3>3. mailed' \in [Events -> 0..MaxReceive]
      BY <2>2, <3>2 DEF TypeOK
    <3>4. mailed'[e] = mailed[e] + 1 /\ \A f \in Events \ {e} : mailed'[f] = mailed[f]
      BY <2>2 DEF TypeOK
    <3>5. job'.todo = job.todo \ {e}
      BY <1>1, <2>2 DEF Turn
    <3>6. QED
      BY <3>2, <3>3, <3>4, <3>5 DEF Counting
  <2>3. QED
    BY <2>1, <2>2, HandlingShape
<1>5. /\ shown' \in [Events -> 0..MaxReceive]
      /\ \A f \in Events : /\ shown'[f] + cleared[f] <= received[f]
                           /\ f \in job'.todo /\ ~InProgress(f)' => shown'[f] + cleared[f] < received[f]
  <2>1. CASE shown' = shown /\ (job'.at \in {"committed", "mailing"} => InProgress(e))
    <3>1. /\ job.at # "next" => job.now = e
          /\ job'.at = "resolved" => job.at = "next"
      BY HandlingShape
    <3>2. \A f \in job'.todo : f \in job.todo /\ (InProgress(f) => InProgress(f)')
      BY <1>1, <3>1 DEF Turn, InProgress
    <3>3. QED
      BY <2>1, <3>2 DEF TypeOK, Counting, Rows
  <2>2. CASE job.at = "resolved" /\ job.now = e /\ Adds(e)
    <3>1. shown[e] + cleared[e] < received[e]
      BY <1>1, <2>2 DEF Counting, InProgress, Rows
    <3>2. shown[e] + 1 \in 0..MaxReceive /\ (shown[e] + 1) + cleared[e] <= received[e]
      BY <1>3, <3>1
    <3>3. shown' \in [Events -> 0..MaxReceive]
      BY <2>2, <3>2 DEF TypeOK, Adds
    <3>4. shown'[e] = shown[e] + 1 /\ \A f \in Events \ {e} : shown'[f] = shown[f]
      BY <2>2 DEF TypeOK, Adds
    <3>5. job'.at \in {"next", "committed"}
      BY <2>2, HandlingShape, <1>3, <3>4
    <3>6. e \in job'.todo => InProgress(e)'
      BY <1>1, <3>5 DEF Turn, InProgress
    <3>7. \A f \in job'.todo : f \in job.todo
      BY <1>1 DEF Turn
    <3>8. \A f \in Events : ~InProgress(f)
      BY <2>2 DEF InProgress
    <3>9. QED
      BY <3>2, <3>3, <3>4, <3>6, <3>7, <3>8 DEF Counting, Rows
  <2>3. QED
    BY <2>1, <2>2, HandlingShape
<1>6. TypeOK'
  BY <1>1, <1>4, <1>5 DEF TypeOK, Turn, Jobs
<1>7. Counting'
  BY <1>1, <1>4, <1>5 DEF Counting, Rows
<1>8. QED
  BY <1>2, <1>6, <1>7

-----------------------------------------------------------------------------
THEOREM Bookkept == Spec => []Bookkeeping
<1>1. Init => Bookkeeping
  BY BoundAssumption
     DEF Init, Bookkeeping, TypeOK, JobOK, Counting, Idle, InProgress, Rows
<1>2. Bookkeeping /\ UNCHANGED vars => Bookkeeping'
  BY DEF vars, Bookkeeping, TypeOK, JobOK, Counting, InProgress, Rows
<1>3. Bookkeeping /\ [Next]_vars => Bookkeeping'
  BY <1>2, NextCases, ApiKeepsBooks, QueueKeepsBooks, HandlingKeepsBooks
<1>4. QED
  BY <1>1, <1>3, PTL DEF Spec

\* Every reachable state is well formed: no message is received more often
\* than the queue's policy allows.
THEOREM TypeCorrect == Spec => []TypeOK
<1>1. Bookkeeping => TypeOK
  BY DEF Bookkeeping
<1>2. QED
  BY <1>1, Bookkept, PTL

\* However often the queue delivers an event, each delivery makes at most one
\* notification of it.
THEOREM RowsBounded == Spec => []ReceivesBoundRows
<1>1. Bookkeeping => ReceivesBoundRows
  BY DEF Bookkeeping, Counting, ReceivesBoundRows
<1>2. QED
  BY <1>1, Bookkept, PTL

-----------------------------------------------------------------------------
(* What became of the posts and accounts an event names *)

\* An event that was written has a post, and a reply's row goes only with its
\* author's account.
PostsKept ==
  \A e \in Posted :
    /\ post[e] = "none" <=> event[e] = "none"
    /\ e \in Replies /\ post[e] = "gone" => Actor[e] \notin accounts

Vanishing == PostsKept /\ NoRowOfTheRemoved

LEMMA VanishingKept ==
  ASSUME Bookkeeping, Vanishing, [Next]_vars
  PROVE  Vanishing'
<1> USE EventAssumption DEF Vanishing, PostsKept, NoRowOfTheRemoved, Rows, Posted, Events
<1> Bookkeeping /\ TypeOK /\ JobOK
  BY DEF Bookkeeping
<1>1. ASSUME NEW e \in Events, write(e) PROVE Vanishing'
  BY <1>1 DEF write, TypeOK
<1>2. ASSUME NEW e \in Events, publish(e) PROVE Vanishing'
  BY <1>2 DEF publish, TypeOK
<1>3. ASSUME NEW e \in Events, delete_post(e) PROVE Vanishing'
  BY <1>3 DEF delete_post, TypeOK
<1>4. ASSUME NEW e \in Events, clear_notification(e) PROVE Vanishing'
  BY <1>4 DEF clear_notification, TypeOK
<1>5. ASSUME NEW u \in Users, update_preference(u) \/ lock_account(u) PROVE Vanishing'
  BY <1>5 DEF update_preference, lock_account
<1>6. CASE commit_removal
  <2>1. PostsKept'
    BY <1>6 DEF commit_removal, TypeOK
  <2>2. NoRowOfTheRemoved'
    BY <1>6 DEF commit_removal, TypeOK, Forgotten
  <2>3. QED
    BY <2>1, <2>2
<1>7. CASE rollback_removal
  BY <1>7 DEF rollback_removal
<1>8. CASE QueueStep
  <2>1. UNCHANGED <<accounts, post, shown, cleared>>
    BY <1>8 DEF QueueStep, handler, acknowledge, dies, redelivered
  <2>2. \A f \in Events : event'[f] = "none" <=> event[f] = "none"
    BY <1>8, Returns
       DEF QueueStep, handler, acknowledge, dies, redelivered, Settled, TypeOK, Queued, JobOK
  <2>3. QED
    BY <2>1, <2>2
<1>9. ASSUME NEW e \in Events, RecordStep(e) PROVE Vanishing'
  <2>1. CASE shown' = shown
    BY <1>9, <2>1, HandlingShape
  <2>2. CASE Adds(e) /\ Parties(e) \subseteq accounts
    BY <1>9, <2>2, HandlingShape DEF Adds, TypeOK
  <2>3. QED
    BY <1>9, <2>1, <2>2, HandlingShape
<1>10. CASE UNCHANGED vars
  BY <1>10 DEF vars
<1>11. QED
  BY <1>1, <1>2, <1>3, <1>4, <1>5, <1>6, <1>7, <1>8, <1>9, <1>10, NextCases DEF ApiStep

LEMMA VanishingHolds == Spec => []Vanishing
<1>1. Init => Vanishing
  BY DEF Init, Vanishing, PostsKept, NoRowOfTheRemoved, Rows, Posted, Events
<1>2. QED
  BY <1>1, VanishingKept, Bookkept, PTL DEF Spec

\* No notification names a removed account, whatever was handled meanwhile.
THEOREM NothingOfTheRemoved == Spec => []NoRowOfTheRemoved
<1>1. Vanishing => NoRowOfTheRemoved
  BY DEF Vanishing
<1>2. QED
  BY <1>1, VanishingHolds, PTL

\* The list shows only notifications whose post is there.
THEOREM ListCorrect == Spec => []ListedIsThere
<1>1. Bookkeeping /\ Vanishing => ListedIsThere
  <2> SUFFICES ASSUME Bookkeeping, Vanishing, NEW e \in Posted, Listed(e)
               PROVE  post[e] = "live"
    BY DEF ListedIsThere
  <2>0. e \in Events
    BY DEF Events
  <2>1. e \in Events /\ shown[e] > 0 /\ shown[e] \in Nat /\ cleared[e] \in Nat
    BY <2>0 DEF Listed, Bookkeeping, TypeOK
  <2>2. Rows(e) \in Nat /\ Rows(e) > 0 /\ Rows(e) <= received[e] /\ received[e] \in Nat
    BY <2>1 DEF Rows, Bookkeeping, Counting, TypeOK
  <2>3. post[e] # "none"
    BY <2>1, <2>2 DEF Vanishing, PostsKept, Bookkeeping, Counting
  <2>4. post[e] = "gone" => e \notin Replies
    BY <2>1, <2>2 DEF Vanishing, PostsKept, NoRowOfTheRemoved, Parties
  <2>5. QED
    BY <2>1, <2>3, <2>4 DEF Listed, Posted, Bookkeeping, TypeOK
<1>2. QED
  BY <1>1, VanishingHolds, Bookkept, PTL

-----------------------------------------------------------------------------
(* What a handled event has left *)

\* While a record is past its commit, its email is not sent yet.
Mailing ==
  /\ MailNeedsRow
  /\ \A e \in Events : InProgress(e) /\ Parties(e) \subseteq accounts => mailed[e] < Rows(e)

\* Somebody is to be told of the event, and it is still there.
Due(e) ==
  /\ Parties(e) \subseteq accounts
  /\ Actor[e] # Recipient[e]
  /\ e \in Posted => post[e] = "live"

\* A record that is over, and not as a failure, has left a row.
Telling ==
  \A e \in Events :
    /\ Due(e)
    /\ event[e] = "done" \/ e \in job.batch \ (job.todo \cup job.failed) \/ InProgress(e)
    => Rows(e) >= 1

\* Rows of accounts that stay are not deleted, and emails are sent by records.
LEMMA ApiLeavesRows ==
  ASSUME Bookkeeping, ApiStep
  PROVE  /\ UNCHANGED <<mailed, job>> /\ accounts' \subseteq accounts
         /\ \A e \in Events : Parties(e) \subseteq accounts' => Rows(e)' = Rows(e)
         /\ \A e \in Events : event'[e] = "done" <=> event[e] = "done"
         /\ \A e \in Events : event[e] # "none" /\ Due(e)' => Due(e)
<1> USE EventAssumption DEF Bookkeeping, TypeOK, Rows, Due, Posted, Events
<1>1. ASSUME NEW e \in Events, write(e)
      PROVE  /\ UNCHANGED <<accounts, mailed, job, shown, cleared>>
             /\ \A f \in Events : event'[f] = "done" <=> event[f] = "done"
             /\ \A f \in Events : event[f] # "none" /\ Due(f)' => Due(f)
  BY <1>1 DEF write
<1>2. ASSUME NEW e \in Events, publish(e)
      PROVE  /\ UNCHANGED <<accounts, mailed, job, shown, cleared, post>>
             /\ \A f \in Events : event'[f] = "done" <=> event[f] = "done"
  BY <1>2 DEF publish
<1>3. ASSUME NEW e \in Events, delete_post(e)
      PROVE  /\ UNCHANGED <<accounts, mailed, job, shown, cleared, event>>
             /\ \A f \in Events : Due(f)' => Due(f)
  BY <1>3 DEF delete_post
<1>4. ASSUME NEW e \in Events, clear_notification(e)
      PROVE  /\ UNCHANGED <<accounts, mailed, job, event, post>>
             /\ \A f \in Events : Rows(f)' = Rows(f)
  BY <1>4 DEF clear_notification
<1>5. CASE commit_removal
  <2>1. /\ UNCHANGED <<mailed, job, event>> /\ accounts' = accounts \ {remover}
    BY <1>5 DEF commit_removal
  <2>2. \A f \in Events : Parties(f) \subseteq accounts' => Rows(f)' = Rows(f)
    BY <1>5, <2>1 DEF commit_removal, Forgotten
  <2>3. \A f \in Events : Due(f)' => Due(f)
    BY <1>5, <2>1 DEF commit_removal
  <2>4. QED
    BY <2>1, <2>2, <2>3
<1>6. ASSUME rollback_removal \/ \E u \in Users : update_preference(u) \/ lock_account(u)
      PROVE  UNCHANGED <<accounts, mailed, job, shown, cleared, event, post>>
  BY <1>6 DEF rollback_removal, update_preference, lock_account
<1>7. QED
  BY <1>1, <1>2, <1>3, <1>4, <1>5, <1>6 DEF ApiStep

\* The queue's steps begin and end invocations, and touch nothing else.
LEMMA QueueLeavesRows ==
  ASSUME Bookkeeping, QueueStep
  PROVE  /\ UNCHANGED <<accounts, post, shown, cleared, mailed>>
         /\ \/ job' = job
            \/ /\ \A e \in Events : ~InProgress(e)'
               /\ job'.batch \ (job'.todo \cup job'.failed) = {}
         /\ \A e \in Events : event'[e] = "done" =>
              event[e] = "done" \/ e \in job.batch \ (job.todo \cup job.failed)
<1> USE DEF Bookkeeping, TypeOK, JobOK, InProgress
<1>1. UNCHANGED <<accounts, post, shown, cleared, mailed>>
  BY DEF QueueStep, handler, acknowledge, dies, redelivered
<1>2. CASE \E batch \in SUBSET Queued : handler(batch)
  BY <1>1, <1>2 DEF handler
<1>3. CASE acknowledge
  BY <1>1, <1>3, Returns DEF acknowledge, Settled, Idle
<1>4. CASE dies
  BY <1>1, <1>4, Returns DEF dies, Idle
<1>5. CASE \E e \in Events : redelivered(e)
  <2>1. PICK e \in Events : redelivered(e)
    BY <1>5
  <2>2. job' = job /\ event[e] = "done" /\ event' = [event EXCEPT ![e] = "queued"]
    BY <2>1 DEF redelivered
  <2>3. QED
    BY <1>1, <2>2
<1>6. QED
  BY <1>2, <1>3, <1>4, <1>5 DEF QueueStep

LEMMA MailingKept ==
  ASSUME Bookkeeping, Mailing, [Next]_vars
  PROVE  Mailing'
<1> USE DEF Mailing, MailNeedsRow
<1>1. \A e \in Events : Rows(e) \in Nat /\ mailed[e] \in Nat
  BY BoundAssumption DEF Bookkeeping, TypeOK, Rows
<1>2. CASE ApiStep
  <2>1. \A e \in Events : InProgress(e)' => InProgress(e)
    BY <1>2, ApiLeavesRows DEF InProgress
  <2>2. QED
    BY <1>2, <2>1, ApiLeavesRows
<1>3. CASE QueueStep
  <2>1. UNCHANGED <<accounts, shown, cleared, mailed>>
    BY <1>3, QueueLeavesRows
  <2>2. \A e \in Events : InProgress(e)' => InProgress(e)
    BY <1>3, QueueLeavesRows DEF InProgress
  <2>3. QED
    BY <2>1, <2>2 DEF Rows
<1>4. ASSUME NEW e \in Events, RecordStep(e) PROVE Mailing'
  <2>1. TypeOK /\ JobOK
    BY DEF Bookkeeping
  <2>2. \A f \in Events : f # e => ~InProgress(f)'
    BY <1>4, <2>1, HandlingShape DEF InProgress, Turn
  <2>3. CASE shown' = shown
    <3>1. \A f \in Events : Rows(f)' = Rows(f)
      BY <1>4, <2>1, <2>3, HandlingShape DEF Rows
    <3>2. CASE mailed' = mailed
      <4>1. \A f \in Events : InProgress(f)' => InProgress(f)
        BY <1>4, <2>1, <2>2, <2>3, HandlingShape DEF InProgress, Adds, TypeOK
      <4>2. QED
        BY <1>4, <2>1, <3>1, <3>2, <4>1, HandlingShape
    <3>3. CASE /\ job.at = "mailing" /\ job.now = e /\ job'.at = "next"
               /\ mailed' = [mailed EXCEPT ![e] = @ + 1]
      <4>1. InProgress(e) /\ \A f \in Events : ~InProgress(f)'
        BY <3>3 DEF InProgress
      <4>2. mailed'[e] = mailed[e] + 1 /\ \A f \in Events \ {e} : mailed'[f] = mailed[f]
        BY <2>1, <3>3 DEF TypeOK
      <4>3. QED
        BY <1>1, <1>4, <2>1, <3>1, <4>1, <4>2, HandlingShape
    <3>4. QED
      BY <1>4, <2>1, <3>2, <3>3, HandlingShape
  <2>4. CASE job.at = "resolved" /\ Adds(e)
    <3>1. Rows(e)' = Rows(e) + 1 /\ \A f \in Events \ {e} : Rows(f)' = Rows(f)
      BY <1>4, <2>1, <2>4, HandlingShape DEF Rows, Adds, TypeOK
    <3>2. UNCHANGED <<mailed, accounts>>
      BY <1>4, <2>1, <2>4, HandlingShape
    <3>3. QED
      BY <1>1, <2>2, <3>1, <3>2 DEF Parties
  <2>5. QED
    BY <1>4, <2>1, <2>3, <2>4, HandlingShape
<1>5. CASE UNCHANGED vars
  BY <1>5 DEF vars, InProgress, Rows
<1>6. QED
  BY <1>2, <1>3, <1>4, <1>5, NextCases

\* No email without its row, however storage fails around the commit.
THEOREM MailCorrect == Spec => []MailNeedsRow
<1>1. Init => Mailing
  BY DEF Init, Mailing, MailNeedsRow, Rows, InProgress, Idle
<1>2. Mailing => MailNeedsRow
  BY DEF Mailing
<1>3. QED
  BY <1>1, <1>2, MailingKept, Bookkept, PTL DEF Spec

LEMMA TellingKept ==
  ASSUME Bookkeeping, Vanishing, Telling, [Next]_vars
  PROVE  Telling'
<1> USE DEF Telling
<1>1. \A e \in Events : Rows(e) \in Nat
  BY BoundAssumption DEF Bookkeeping, TypeOK, Rows
<1>2. TypeOK /\ JobOK
  BY DEF Bookkeeping
<1>3. CASE ApiStep
  <2> SUFFICES ASSUME NEW e \in Events, Due(e)',
                      event'[e] = "done" \/ e \in job'.batch \ (job'.todo \cup job'.failed)
                        \/ InProgress(e)'
               PROVE  Rows(e)' >= 1
    OBVIOUS
  <2>1. job' = job /\ Rows(e)' = Rows(e) /\ (event'[e] = "done" <=> event[e] = "done")
    BY <1>3, ApiLeavesRows DEF Due
  <2>2. event[e] = "done" \/ e \in job.batch \ (job.todo \cup job.failed) \/ InProgress(e)
    BY <2>1 DEF InProgress
  <2>3. event[e] \in {"done", "taken"}
    BY <1>2, <2>2 DEF JobOK, InProgress
  <2>4. QED
    BY <1>3, <2>1, <2>2, <2>3, ApiLeavesRows
<1>4. CASE QueueStep
  <2>1. \A e \in Events : Rows(e)' = Rows(e) /\ (Due(e)' <=> Due(e))
                           /\ (InProgress(e)' => InProgress(e))
    BY <1>4, QueueLeavesRows DEF Rows, Due, InProgress
  <2>2. QED
    BY <1>4, <2>1, QueueLeavesRows
<1>5. ASSUME NEW e \in Events, RecordStep(e) PROVE Telling'
  <2>1. /\ \A f \in Events : (Due(f)' <=> Due(f)) /\ event'[f] = event[f]
        /\ \A f \in Events : Rows(f)' \in Nat /\ Rows(f)' >= Rows(f)
    <3>1. \A f \in Events : shown'[f] \in Nat /\ cleared'[f] \in Nat
      BY <1>5, HandlingKeepsBooks, BoundAssumption DEF Bookkeeping, TypeOK
    <3>2. QED
      BY <1>2, <1>5, <3>1, HandlingShape DEF Due, Rows, Adds, TypeOK
  <2>2. InProgress(e)' /\ Due(e) => Rows(e)' >= 1
    BY <1>1, <1>2, <1>5, <2>1, HandlingShape DEF InProgress, Rows, Adds, TypeOK
  <2>3. e \in job'.batch \ (job'.todo \cup job'.failed) /\ Due(e) => Rows(e)' >= 1
    <3>1. CASE InProgress(e)
      BY <1>1, <2>1, <3>1
    <3>2. CASE NothingToTell(e)
      BY <3>2 DEF NothingToTell, Due
    <3>3. QED
      BY <1>2, <1>5, <3>1, <3>2, HandlingShape DEF Turn
  <2>4. ASSUME NEW f \in Events \ {e}, Due(f)',
               event'[f] = "done" \/ f \in job'.batch \ (job'.todo \cup job'.failed)
                 \/ InProgress(f)'
        PROVE  Rows(f)' >= 1
    <3>1. ~InProgress(f)'
      BY <1>2, <1>5, HandlingShape DEF InProgress, Turn
    <3>2. event[f] = "done" \/ f \in job.batch \ (job.todo \cup job.failed)
      BY <1>2, <1>5, <2>1, <2>4, <3>1, HandlingShape DEF Turn
    <3>3. QED
      BY <1>1, <2>1, <2>4, <3>2
  <2>5. event[e] # "done"
    BY <1>2, <1>5, HandlingShape DEF JobOK
  <2>6. QED
    BY <2>1, <2>2, <2>3, <2>4, <2>5
<1>6. CASE UNCHANGED vars
  BY <1>6 DEF vars, InProgress, Rows, Due
<1>7. QED
  BY <1>3, <1>4, <1>5, <1>6, NextCases

\* No notification is dropped, for any number of events, users and faults.
THEOREM NothingDropped == Spec => []ToldUnlessGone
<1>1. Init => Telling
  BY DEF Init, Telling, InProgress, Idle
<1>2. Telling => ToldUnlessGone
  BY DEF Telling, ToldUnlessGone, Due
<1>3. QED
  BY <1>1, <1>2, TellingKept, VanishingHolds, Bookkept, PTL DEF Spec

-----------------------------------------------------------------------------
(* What a dead letter has cost *)

\* Each receive but the current one was followed by a trouble of its own, and
\* so was the current one, for the whole batch, where the session is in disorder,
\* a record has failed, or an account went under the record in progress.
Effort ==
  /\ \A e \in Events :
       /\ event[e] = "queued" => received[e] <= Trouble
       /\ event[e] \in {"taken", "done"} => received[e] <= Trouble + 1
  /\ \/ job.aborted
     \/ job.failed # {}
     \/ job.at \in {"resolved", "committed", "mailing"} /\ ~(Parties(job.now) \subseteq accounts)
     => \A e \in job.batch : received[e] <= Trouble
  /\ DeadLettersAreEarned

\* Removed accounts do not come back.
LEMMA TroubleGrows ==
  ASSUME TypeOK, accounts' \subseteq accounts, faults' \in Nat, faults' >= faults
  PROVE  Trouble \in Nat /\ Trouble' \in Nat /\ Trouble' >= Trouble
<1>1. /\ IsFiniteSet(Users \ accounts) /\ IsFiniteSet(Users \ accounts')
      /\ (Users \ accounts) \subseteq (Users \ accounts')
  BY EventAssumption, FS_Subset
<1>2. /\ Cardinality(Users \ accounts) \in Nat /\ Cardinality(Users \ accounts') \in Nat
      /\ Cardinality(Users \ accounts) <= Cardinality(Users \ accounts')
  BY <1>1, FS_CardinalityType, FS_Subset
<1>3. faults \in Nat
  BY BoundAssumption DEF TypeOK
<1>4. QED
  BY <1>2, <1>3 DEF Trouble

LEMMA TroubleCounts ==
  ASSUME TypeOK
  PROVE  /\ faults \in Nat /\ Trouble \in Nat
         /\ accounts' = accounts /\ faults' = faults + 1 => Trouble' = Trouble + 1
<1>1. IsFiniteSet(Users \ accounts)
  BY EventAssumption, FS_Subset
<1>2. Cardinality(Users \ accounts) \in Nat
  BY <1>1, FS_CardinalityType
<1>3. faults \in Nat
  BY BoundAssumption DEF TypeOK
<1>4. ASSUME accounts' = accounts, faults' = faults + 1
      PROVE  Trouble' = Trouble + 1
  <2>1. Trouble' = faults + 1 + Cardinality(Users \ accounts)
    BY <1>4 DEF Trouble
  <2>2. QED
    BY <1>2, <1>3, <2>1 DEF Trouble
<1>5. QED
  BY <1>2, <1>3, <1>4 DEF Trouble

LEMMA RemovalIsTrouble ==
  ASSUME TypeOK, commit_removal
  PROVE  Trouble \in Nat /\ Trouble' = Trouble + 1
<1>1. remover \in accounts /\ remover \in Users /\ accounts' = accounts \ {remover} /\ faults' = faults
  BY DEF commit_removal, TypeOK
<1>2. IsFiniteSet(Users \ accounts) /\ remover \notin Users \ accounts
  BY <1>1, EventAssumption, FS_Subset
<1>3. Users \ accounts' = (Users \ accounts) \cup {remover}
  BY <1>1
<1>4. Cardinality((Users \ accounts) \cup {remover}) = Cardinality(Users \ accounts) + 1
  BY <1>2, FS_AddElement
<1>5. Cardinality(Users \ accounts) \in Nat
  BY <1>2, FS_CardinalityType
<1>6. faults \in Nat
  BY BoundAssumption DEF TypeOK
<1>7. QED
  BY <1>1, <1>3, <1>4, <1>5, <1>6 DEF Trouble

LEMMA EffortKept ==
  ASSUME Bookkeeping, Effort, [Next]_vars
  PROVE  Effort'
<1> USE BoundAssumption DEF Effort, DeadLettersAreEarned
<1>1. TypeOK /\ JobOK /\ Counting
  BY DEF Bookkeeping
<1>2. \A e \in Events : received[e] \in Nat
  BY <1>1 DEF TypeOK
<1>3. faults \in Nat /\ Trouble \in Nat
  BY <1>1, TroubleCounts
<1>4. CASE commit_removal
  <2>1. Trouble' = Trouble + 1
    BY <1>1, <1>4, RemovalIsTrouble
  <2>2. UNCHANGED <<event, received, job>>
    BY <1>4 DEF commit_removal
  <2>3. \A e \in job.batch : e \in Events /\ event[e] = "taken"
    BY <1>1 DEF JobOK, TypeOK
  <2>4. QED
    BY <1>2, <1>3, <2>1, <2>2, <2>3
<1>5. ASSUME NEW e \in Events, publish(e) PROVE Effort'
  <2>1. received[e] = 0 /\ UNCHANGED <<received, job, accounts, faults>>
    BY <1>1, <1>5 DEF publish, Counting
  <2>2. Trouble' = Trouble
    BY <2>1 DEF Trouble
  <2>3. \A f \in Events : f # e => event'[f] = event[f]
    BY <1>1, <1>5 DEF publish, TypeOK
  <2>4. event'[e] \in {"queued", "lost"}
    BY <1>1, <1>5 DEF publish, TypeOK
  <2>5. QED
    BY <1>2, <1>3, <2>1, <2>2, <2>3, <2>4
<1>6. CASE ApiStep /\ ~commit_removal /\ ~\E e \in Events : publish(e)
  <2>1. UNCHANGED <<received, job, accounts, faults>>
    BY <1>6 DEF ApiStep, write, delete_post, clear_notification, update_preference,
                lock_account, rollback_removal
  <2>2. Trouble' = Trouble
    BY <2>1 DEF Trouble
  <2>3. \A e \in Events : event'[e] \in {event[e], "stored"}
    BY <1>1, <1>6 DEF ApiStep, write, delete_post, clear_notification, update_preference,
                      lock_account, rollback_removal, TypeOK
  <2>4. QED
    BY <1>2, <1>3, <2>1, <2>2, <2>3
<1>7. ASSUME NEW e \in Events, RecordStep(e) PROVE Effort'
  <2>1. UNCHANGED <<accounts, event, received>> /\ job'.batch = job.batch
    BY <1>1, <1>7, HandlingShape DEF Turn
  <2>2. faults' \in Nat /\ faults' >= faults
    BY <1>1, <1>7, HandlingShape
  <2>3. Trouble' \in Nat /\ Trouble' >= Trouble
    BY <1>1, <2>1, <2>2, TroubleGrows
  <2>4. faults' = faults + 1 => Trouble' = Trouble + 1
    BY <1>1, <2>1, TroubleCounts
  <2>5. \A f \in job.batch : f \in Events /\ event[f] = "taken"
    BY <1>1 DEF JobOK, TypeOK
  <2> DEFINE Late == job.at \in {"resolved", "committed", "mailing"} /\ ~(Parties(job.now) \subseteq accounts)
  <2>6. \/ job'.at \in {"resolved", "committed", "mailing"} /\ ~(Parties(job'.now) \subseteq accounts)
        \/ job'.aborted \/ job'.failed # {}
        => Late \/ job.aborted \/ job.failed # {} \/ faults' = faults + 1
    <3>1. job'.aborted => Late \/ job.aborted \/ faults' = faults + 1
      BY <1>1, <1>7, HandlingShape
    <3>2. job'.failed # {} => Late \/ job.failed # {} \/ job'.aborted
      BY <1>1, <1>7, HandlingShape DEF Turn, LateMail
    <3>3. job'.at \in {"resolved", "committed", "mailing"} /\ ~(Parties(job'.now) \subseteq accounts) => Late
      BY <1>1, <1>7, HandlingShape DEF Turn, InProgress
    <3>4. QED
      BY <3>1, <3>2, <3>3
  <2>7. Late \/ job.aborted \/ job.failed # {} => \A f \in job.batch : received[f] <= Trouble
    OBVIOUS
  <2>8. Late \/ job.aborted \/ job.failed # {} \/ faults' = faults + 1
        => \A f \in job.batch : received[f] <= Trouble'
    BY <1>2, <1>3, <2>3, <2>4, <2>5, <2>7
  <2>9. \A f \in Events :
          /\ event'[f] = "queued" => received'[f] <= Trouble'
          /\ event'[f] \in {"taken", "done"} => received'[f] <= Trouble' + 1
          /\ event'[f] = "dead" => Trouble' >= MaxReceive
    BY <1>2, <1>3, <2>1, <2>3
  <2> HIDE DEF Late
  <2>10. QED
    BY <2>1, <2>6, <2>8, <2>9
<1>8. CASE UNCHANGED vars
  BY <1>8 DEF vars, Trouble
<1>9. CASE QueueStep
  <2>1. accounts' = accounts
    BY <1>9 DEF QueueStep, handler, acknowledge, dies, redelivered
  <2>2. ASSUME NEW batch \in SUBSET Queued, handler(batch) PROVE Effort'
    <3>1. Trouble' = Trouble
      BY <2>1, <2>2 DEF handler, Trouble
    <3>2. /\ received' = [e \in Events |-> IF e \in batch THEN received[e] + 1 ELSE received[e]]
          /\ event' = [e \in Events |-> IF e \in batch THEN "taken" ELSE event[e]]
          /\ job'.aborted = FALSE /\ job'.failed = {} /\ job'.at = "next"
      BY <2>2 DEF handler
    <3>3. \A e \in batch : event[e] = "queued" /\ e \in Events
      BY DEF Queued
    <3>4. ASSUME NEW e \in Events
          PROVE  /\ event'[e] = "queued" => received'[e] <= Trouble
                 /\ event'[e] \in {"taken", "done"} => received'[e] <= Trouble + 1
                 /\ event'[e] = "dead" => Trouble >= MaxReceive
      <4>1. CASE e \in batch
        <5>1. received'[e] = received[e] + 1 /\ event'[e] = "taken" /\ received[e] <= Trouble
          BY <3>2, <3>3, <4>1
        <5>2. QED
          BY <1>2, <1>3, <5>1
      <4>2. CASE e \notin batch
        <5>1. received'[e] = received[e] /\ event'[e] = event[e]
          BY <3>2, <4>2
        <5>2. QED
          BY <5>1
      <4>3. QED
        BY <4>1, <4>2
    <3>5. QED
      BY <3>1, <3>2, <3>4
  <2>3. CASE acknowledge
    <3>1. /\ Trouble' = Trouble /\ received' = received
          /\ job'.aborted = FALSE /\ job'.failed = {} /\ job'.at = "idle"
      BY <2>1, <2>3 DEF acknowledge, Trouble, Idle
    <3>2. \A e \in job.batch : /\ event[e] = "taken" /\ e \in Events
                                /\ event'[e] = IF e \in job.failed THEN Return(e) ELSE "done"
      BY <1>1, <2>3 DEF acknowledge, Settled, JobOK, TypeOK
    <3>3. \A e \in Events \ job.batch : event'[e] = event[e]
      BY <2>3 DEF acknowledge
    <3>4. \A e \in job.failed : received[e] <= Trouble
      BY <1>1 DEF JobOK, TypeOK
    <3>5. \A e \in job.batch :
            /\ event'[e] = "queued" => received[e] <= Trouble
            /\ event'[e] = "dead" => Trouble >= MaxReceive
            /\ event'[e] = "done" => received[e] <= Trouble + 1
            /\ event'[e] # "taken"
      BY <1>2, <1>3, <3>2, <3>4 DEF Return
    <3>6. QED
      BY <3>1, <3>3, <3>5
  <2>4. CASE dies
    <3>1. /\ received' = received /\ faults' = faults + 1
          /\ job'.aborted = FALSE /\ job'.failed = {} /\ job'.at = "idle"
      BY <2>4 DEF dies, Fault, Idle
    <3>2. Trouble' = Trouble + 1
      BY <1>1, <2>1, <3>1, TroubleCounts
    <3>3. \A e \in job.batch : e \in Events /\ event[e] = "taken" /\ event'[e] = Return(e)
      BY <1>1, <2>4 DEF dies, JobOK, TypeOK
    <3>4. \A e \in Events \ job.batch : event'[e] = event[e]
      BY <2>4 DEF dies
    <3>5. \A e \in job.batch :
            /\ event'[e] = "queued" => received[e] <= Trouble + 1
            /\ event'[e] = "dead" => Trouble + 1 >= MaxReceive
            /\ event'[e] \notin {"taken", "done"}
      BY <1>2, <1>3, <3>3 DEF Return
    <3>6. QED
      BY <1>2, <1>3, <3>1, <3>2, <3>4, <3>5
  <2>5. ASSUME NEW e \in Events, redelivered(e) PROVE Effort'
    <3>1. /\ received' = received /\ faults' = faults + 1 /\ job' = job
          /\ event[e] = "done" /\ event' = [event EXCEPT ![e] = "queued"]
      BY <2>5 DEF redelivered, Fault
    <3>2. Trouble' = Trouble + 1
      BY <1>1, <2>1, <3>1, TroubleCounts
    <3>3. event'[e] = "queued" /\ \A f \in Events \ {e} : event'[f] = event[f]
      BY <1>1, <3>1 DEF TypeOK
    <3>4. job.batch \subseteq Events
      BY <1>1 DEF TypeOK
    <3>5. QED
      BY <1>2, <1>3, <2>1, <3>1, <3>2, <3>3, <3>4
  <2>6. QED
    BY <1>9, <2>2, <2>3, <2>4, <2>5 DEF QueueStep
<1>10. QED
  BY <1>4, <1>5, <1>6, <1>7, <1>8, <1>9, NextCases

\* Nothing is dead-lettered for less than a failure per receive, each with a
\* crash, a storage error, a redelivery or a removal of its own: what an event
\* names being gone is none.
THEOREM DeadLettersCost == Spec => []DeadLettersAreEarned
<1>1. Init => Effort
  BY DEF Init, Effort, DeadLettersAreEarned, Idle
<1>2. Effort => DeadLettersAreEarned
  BY DEF Effort
<1>3. QED
  BY <1>1, <1>2, EffortKept, Bookkept, PTL DEF Spec

-----------------------------------------------------------------------------
(* The properties the runs check, each of two of the above *)

\* No event is dropped, and no email goes out in the place of a row.
THEOREM ToldCorrect == Spec => []EventsAreTold
<1>1. ToldUnlessGone /\ MailNeedsRow => EventsAreTold
  BY DEF EventsAreTold
<1>2. QED
  BY <1>1, NothingDropped, MailCorrect, PTL

\* Nothing names what is gone: a removed account, a deleted or undone post.
THEOREM GoneCorrect == Spec => []GoneIsNotTold
<1>1. ListedIsThere /\ NoRowOfTheRemoved => GoneIsNotTold
  BY DEF GoneIsNotTold
<1>2. QED
  BY <1>1, ListCorrect, NothingOfTheRemoved, PTL

\* Redelivery makes no more rows than receives, and dead-letters only what it
\* had that many troubles with.
THEOREM RedeliveryCorrect == Spec => []RedeliveryIsBounded
<1>1. ReceivesBoundRows /\ DeadLettersAreEarned => RedeliveryIsBounded
  BY DEF RedeliveryIsBounded
<1>2. QED
  BY <1>1, RowsBounded, DeadLettersCost, PTL
=============================================================================
