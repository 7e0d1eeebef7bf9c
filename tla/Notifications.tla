--------------------------- MODULE Notifications ----------------------------
(***************************************************************************)
(* From a committed reply, repost or follow to its recipient's list and    *)
(* mailbox: the event bus, the SQS queue, the notifications Lambda that    *)
(* handles a batch of events on one database session, and everything that  *)
(* can remove what an event names before it is handled.                    *)
(*                                                                         *)
(* Each event has one actor and one recipient.  A reply's or a repost's    *)
(* event names a post of its actor; the recipient is the author of the     *)
(* post it answers.                                                        *)
(***************************************************************************)
EXTENDS Naturals, FiniteSets

CONSTANTS
  Users,
  Replies, Reposts, Follows,  \* the events, by what they tell of
  Actor, Recipient,           \* who did it, and whom it would be told
  BatchSize,                  \* the queue trigger's batch size
  MaxReceive,                 \* maxReceiveCount of the notification queue
  MaxFaults                   \* bound on crashes, storage errors and redeliveries

Posted == Replies \cup Reposts
Events == Posted \cup Follows

ASSUME EventAssumption ==
  /\ Actor \in [Events -> Users]
  /\ Recipient \in [Events -> Users]
  /\ Posted \cap Follows = {} /\ Replies \cap Reposts = {}
  /\ \A e \in Follows : Actor[e] # Recipient[e]
  /\ "none" \notin Events \cup Users
  /\ IsFiniteSet(Users)

ASSUME BoundAssumption ==
  /\ BatchSize \in Nat \ {0}
  /\ MaxReceive \in Nat \ {0}
  /\ MaxFaults \in Nat

VARIABLES
  accounts,   \* users with a local row
  remover,    \* the user whose removal holds the lock of its row, or "none"
  post,       \* the post an event names
  event,      \* where the event is
  received,   \* how often the queue handed it out
  shown,      \* its notifications in the recipient's list
  cleared,    \* its notifications the recipient cleared
  mailed,     \* emails sent for it
  emails,     \* users whose email notifications are enabled
  job,        \* the Lambda invocation
  faults      \* crashes, storage errors and redeliveries so far

vars == <<accounts, remover, post, event, received, shown, cleared, mailed,
          emails, job, faults>>

Parties(e) == {Actor[e], Recipient[e]}

\* Notification rows of an event; each receive can add one.
Rows(e) == shown[e] + cleared[e]

Idle == [at |-> "idle", now |-> "none", batch |-> {}, todo |-> {}, failed |-> {},
         aborted |-> FALSE]

TypeOK ==
  /\ accounts \subseteq Users
  /\ remover \in accounts \cup {"none"}
  /\ post \in [Posted -> {"none", "live", "deleted", "anonymous", "gone"}]
  /\ event \in [Events -> {"none", "stored", "lost", "queued", "taken", "done", "dead"}]
  /\ received \in [Events -> 0..MaxReceive]
  /\ shown \in [Events -> 0..MaxReceive]
  /\ cleared \in [Events -> 0..MaxReceive]
  /\ mailed \in [Events -> 0..MaxReceive]
  /\ emails \subseteq Users
  /\ job \in [at : {"idle", "next", "resolved", "committed", "mailing"},
              now : Events \cup {"none"}, batch : SUBSET Events,
              todo : SUBSET Events, failed : SUBSET Events, aborted : BOOLEAN]
  /\ faults \in 0..MaxFaults

Init ==
  /\ accounts = Users /\ remover = "none"
  /\ post = [e \in Posted |-> "none"]
  /\ event = [e \in Events |-> "none"]
  /\ received = [e \in Events |-> 0]
  /\ shown = [e \in Events |-> 0]
  /\ cleared = [e \in Events |-> 0]
  /\ mailed = [e \in Events |-> 0]
  /\ emails = Users
  /\ job = Idle
  /\ faults = 0

-----------------------------------------------------------------------------
(* The API *)

\* A reply, repost or follow is committed.  Its foreign keys wait for a
\* removal that holds a row they name.
write(e) ==
  /\ event[e] = "none"
  /\ Parties(e) \subseteq accounts
  /\ remover # Actor[e]
  /\ e \in Follows => remover # Recipient[e]
  /\ event' = [event EXCEPT ![e] = "stored"]
  /\ post' = [f \in Posted |-> IF f = e THEN "live" ELSE post[f]]
  /\ UNCHANGED <<accounts, remover, received, shown, cleared, mailed, emails, job, faults>>

\* After the commit: EventBridge takes the event, or the call fails (or the
\* process died) and nothing ever publishes it.
publish(e) ==
  /\ event[e] = "stored"
  /\ \E to \in {"queued", "lost"} : event' = [event EXCEPT ![e] = to]
  /\ UNCHANGED <<accounts, remover, post, received, shown, cleared, mailed, emails, job, faults>>

\* The owner deletes a reply (softly), or undoes a plain repost (its row goes).
delete_post(e) ==
  /\ e \in Posted /\ post[e] = "live" /\ Actor[e] \in accounts
  /\ post' = [post EXCEPT ![e] = IF e \in Reposts THEN "gone" ELSE "deleted"]
  /\ UNCHANGED <<accounts, remover, event, received, shown, cleared, mailed, emails, job, faults>>

clear_notification(e) ==
  /\ shown[e] > 0
  /\ shown' = [shown EXCEPT ![e] = @ - 1]
  /\ cleared' = [cleared EXCEPT ![e] = @ + 1]
  /\ UNCHANGED <<accounts, remover, post, event, received, mailed, emails, job, faults>>

update_preference(u) ==
  /\ u \in accounts
  /\ emails' = IF u \in emails THEN emails \ {u} ELSE emails \cup {u}
  /\ UNCHANGED <<accounts, remover, post, event, received, shown, cleared, mailed, job, faults>>

\* Faulty: the list asks only for deleted posts.
ListedUnlessDeleted(e) ==
  /\ shown[e] > 0
  /\ e \in Posted => post[e] \notin {"deleted", "anonymous"}

\* What GET /notifications answers: the uncleared rows, without the posts
\* their owner deleted, and without the reposts that have no row.
Listed(e) ==
  /\ shown[e] > 0
  /\ e \in Posted => post[e] \notin {"deleted", "anonymous"}
  /\ e \in Reposts => post[e] # "gone"

-----------------------------------------------------------------------------
(* Permanent account removal, as the notifications see it *)

lock_account(u) ==
  /\ remover = "none" /\ u \in accounts
  /\ remover' = u
  /\ UNCHANGED <<accounts, post, event, received, shown, cleared, mailed, emails, job, faults>>

\* The notifications remove_account_notifications deletes.
Forgotten(u) == {e \in Events : u \in Parties(e)}

\* One commit deletes the account, the notifications that name it and its
\* posts; those others' posts need stay as anonymous, deleted rows.
commit_removal ==
  LET u == remover IN
  /\ u # "none"
  /\ accounts' = accounts \ {u} /\ remover' = "none"
  /\ \E needed \in SUBSET {e \in Posted : Actor[e] = u /\ post[e] \in {"live", "deleted"}} :
       post' = [e \in Posted |->
                  IF Actor[e] # u \/ post[e] = "none" THEN post[e]
                  ELSE IF e \in needed THEN "anonymous" ELSE "gone"]
  /\ shown' = [e \in Events |-> IF e \in Forgotten(u) THEN 0 ELSE shown[e]]
  /\ cleared' = [e \in Events |-> IF e \in Forgotten(u) THEN 0 ELSE cleared[e]]
  /\ emails' = emails \cup {u}
  /\ UNCHANGED <<event, received, mailed, job, faults>>

rollback_removal ==
  /\ remover # "none"
  /\ remover' = "none"
  /\ UNCHANGED <<accounts, post, event, received, shown, cleared, mailed, emails, job, faults>>

-----------------------------------------------------------------------------
(* The Lambda: a batch of events, one session *)

handler(batch) ==
  /\ job.at = "idle"
  /\ batch # {} /\ Cardinality(batch) <= BatchSize
  /\ event' = [e \in Events |-> IF e \in batch THEN "taken" ELSE event[e]]
  /\ received' = [e \in Events |-> IF e \in batch THEN received[e] + 1 ELSE received[e]]
  /\ job' = [at |-> "next", now |-> "none", batch |-> batch, todo |-> batch,
             failed |-> {}, aborted |-> FALSE]
  /\ UNCHANGED <<accounts, remover, post, shown, cleared, mailed, emails, faults>>

\* Faulty: the record stays in the batch and is handled again.
OverAgain(e, failed, aborted) ==
  job' = [at |-> "next", now |-> "none", batch |-> job.batch, todo |-> job.todo,
          failed |-> job.failed \cup failed, aborted |-> aborted]

\* The record is over, well or badly, and the next one's turn comes; a
\* database error leaves the session unusable for the rest of the batch.
Over(e, failed, aborted) ==
  job' = [at |-> "next", now |-> "none", batch |-> job.batch, todo |-> job.todo \ {e},
          failed |-> job.failed \cup failed, aborted |-> aborted]

At(e, phase) ==
  job' = [at |-> phase, now |-> e, batch |-> job.batch, todo |-> job.todo,
          failed |-> job.failed, aborted |-> job.aborted]

\* No recipient: the new post is not there any more, what it answers is
\* anonymous, a party is gone, or they told only themselves.
NothingToTell(e) ==
  \/ e \in Posted /\ post[e] # "live"
  \/ ~(Parties(e) \subseteq accounts)
  \/ Actor[e] = Recipient[e]

\* On an aborted session the first query raises, whatever the record is.
Raises(e) == job.aborted

handle_domain_event(e) ==
  /\ job.at = "next" /\ e \in job.todo
  /\ \/ Raises(e) /\ Over(e, {e}, job.aborted)
     \/ ~Raises(e) /\ NothingToTell(e) /\ Over(e, {}, job.aborted)
     \/ ~Raises(e) /\ ~NothingToTell(e) /\ At(e, "resolved")
  /\ UNCHANGED <<accounts, remover, post, event, received, shown, cleared, mailed, emails, faults>>

\* INSERT and COMMIT: the foreign keys wait for a removal of either party,
\* and fail when it has committed.
commit_notification(e) ==
  /\ job.at = "resolved" /\ job.now = e
  /\ remover \notin Parties(e)
  /\ IF Parties(e) \subseteq accounts
     THEN shown' = [shown EXCEPT ![e] = @ + 1] /\ At(e, "committed")
     ELSE shown' = shown /\ Over(e, {e}, TRUE)
  /\ UNCHANGED <<accounts, remover, post, event, received, cleared, mailed, emails, faults>>

read_preference(e) ==
  /\ job.at = "committed" /\ job.now = e
  /\ IF Recipient[e] \in emails THEN At(e, "mailing") ELSE Over(e, {}, job.aborted)
  /\ UNCHANGED <<accounts, remover, post, event, received, shown, cleared, mailed, emails, faults>>

\* Whether the email went out or the sender raised, the record has succeeded;
\* but what is logged of the sender's error is read again after the commit, and
\* that raises when a removal has deleted the notification.
send(e) ==
  /\ job.at = "mailing" /\ job.now = e
  /\ \/ /\ \E sent \in {0, 1} : mailed' = [mailed EXCEPT ![e] = @ + sent]
        /\ Over(e, {}, job.aborted)
     \/ /\ ~(Parties(e) \subseteq accounts)
        /\ mailed' = mailed /\ Over(e, {e}, job.aborted)
  /\ UNCHANGED <<accounts, remover, post, event, received, shown, cleared, emails, faults>>

\* Faulty: the message never comes back.
ReturnNever(e) == "taken"

\* A message that was not deleted comes back until it was received too often.
Return(e) == IF received[e] < MaxReceive THEN "queued" ELSE "dead"

\* Faulty: the failures are logged and not reported.
SettledAnyway(e) == "done"

Settled(e) == IF e \in job.failed THEN Return(e) ELSE "done"

acknowledge ==
  /\ job.at = "next" /\ job.todo = {}
  /\ event' = [e \in Events |-> IF e \in job.batch THEN Settled(e) ELSE event[e]]
  /\ job' = Idle
  /\ UNCHANGED <<accounts, remover, post, received, shown, cleared, mailed, emails, faults>>

-----------------------------------------------------------------------------
(* What can go wrong around it *)

Fault == faults < MaxFaults /\ faults' = faults + 1

\* A query, or the commit, raises: the record fails and the session with it.
\* A commit whose answer is lost has still written the row.
storage_fails(e) ==
  /\ Fault
  /\ \/ job.at = "next" /\ e \in job.todo /\ shown' = shown
     \/ job.at = "resolved" /\ job.now = e
        /\ \/ shown' = shown
           \/ /\ Parties(e) \subseteq accounts /\ remover \notin Parties(e)
              /\ shown' = [shown EXCEPT ![e] = @ + 1]
     \/ job.at \in {"committed", "mailing"} /\ job.now = e /\ shown' = shown
  /\ Over(e, {e}, TRUE)
  /\ UNCHANGED <<accounts, remover, post, event, received, cleared, mailed, emails>>

\* The invocation times out or dies: nothing is acknowledged.
dies ==
  /\ Fault
  /\ job.at # "idle"
  /\ event' = [e \in Events |-> IF e \in job.batch THEN Return(e) ELSE event[e]]
  /\ job' = Idle
  /\ UNCHANGED <<accounts, remover, post, received, shown, cleared, mailed, emails>>

\* SQS hands out a message again that was deleted.
redelivered(e) ==
  /\ Fault
  /\ event[e] = "done" /\ received[e] < MaxReceive
  /\ event' = [event EXCEPT ![e] = "queued"]
  /\ UNCHANGED <<accounts, remover, post, received, shown, cleared, mailed, emails, job>>

Queued == {e \in Events : event[e] = "queued"}

Handling(e) ==
  \/ handle_domain_event(e) \/ commit_notification(e) \/ read_preference(e) \/ send(e)

Next ==
  \/ \E e \in Events :
       \/ write(e) \/ publish(e) \/ delete_post(e) \/ clear_notification(e)
       \/ Handling(e)
       \/ storage_fails(e) \/ redelivered(e)
  \/ \E u \in Users : update_preference(u) \/ lock_account(u)
  \/ commit_removal \/ rollback_removal
  \/ \E batch \in SUBSET Queued : handler(batch)
  \/ acknowledge
  \/ dies

\* Lambda polls the queue and runs what it took; a removal ends; a waiting
\* INSERT gets the row lock in the end, however often it is taken before.
Fairness ==
  /\ WF_vars(\E batch \in SUBSET Queued : handler(batch))
  /\ WF_vars(acknowledge)
  /\ WF_vars(commit_removal \/ rollback_removal)
  /\ \A e \in Events :
       /\ WF_vars(handle_domain_event(e))
       /\ SF_vars(commit_notification(e))
       /\ WF_vars(read_preference(e))
       /\ WF_vars(send(e))

Spec == Init /\ [][Next]_vars /\ Fairness

-----------------------------------------------------------------------------
(* Properties *)

\* No notification is dropped: an event whose message was deleted has a row,
\* unless the post or an account it names is gone or it is told to its actor.
ToldUnlessGone ==
  \A e \in Events :
    /\ event[e] = "done"
    /\ Parties(e) \subseteq accounts
    /\ Actor[e] # Recipient[e]
    /\ e \in Posted => post[e] = "live"
    => Rows(e) >= 1

\* Email is a side channel of a committed row: none is sent without one,
\* however storage fails around the commit.
MailNeedsRow ==
  \A e \in Events : Parties(e) \subseteq accounts => mailed[e] <= Rows(e)

\* Every event is told to its recipient, by a row first and an email beside it.
EventsAreTold == ToldUnlessGone /\ MailNeedsRow

\* What at-least-once delivery costs: one handling adds at most one row, so
\* an event has at most as many as its message had receives.
ReceivesBoundRows == \A e \in Events : Rows(e) <= received[e]

\* The list shows no notification of a post that is not there: its filters
\* see soft deletes and undone reposts, and a reply's row is only removed in
\* the commit that removes its notifications.
ListedIsThere == \A e \in Posted : Listed(e) => post[e] = "live"

\* A removal that ran while an event of the account was being handled leaves
\* no notification that names it.
NoRowOfTheRemoved ==
  \A e \in Events : Rows(e) > 0 => Parties(e) \subseteq accounts

\* The feed and a removal agree with what the batches commit meanwhile.
GoneIsNotTold == ListedIsThere /\ NoRowOfTheRemoved

\* What ever made a handling fail: crashes, storage errors and redeliveries,
\* and the accounts removed under one.
Trouble == faults + Cardinality(Users \ accounts)

\* A human is paged for nothing less than a failure per receive.  Undone posts
\* and accounts that are gone fail no handling; an account that goes between
\* a handling's look and its email fails that one, and perhaps its batch, once.
DeadLettersAreEarned == \A e \in Events : event[e] = "dead" => Trouble >= MaxReceive

\* Redelivery is bounded both ways: it makes no more rows than receives, and
\* gives up on an event only after as many troubles.
RedeliveryIsBounded == ReceivesBoundRows /\ DeadLettersAreEarned

\* Every event the queue took is handled, or dead-lettered, in the end.
EveryEventIsSettled ==
  \A e \in Events : event[e] = "queued" ~> event[e] \in {"done", "dead"}
=============================================================================
