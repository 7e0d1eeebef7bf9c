--------------------------- MODULE MediaPipeline ----------------------------
(***************************************************************************)
(* One account's image uploads: the presigned form, the quarantine and     *)
(* public buckets, GuardDuty's scan results queued at least once, the      *)
(* media Lambda that publishes or rejects, and the account's removal.      *)
(*                                                                         *)
(* S3 and Postgres share no transaction, so a Lambda or a removal may die  *)
(* after an object is written or deleted and before its row is.  The row   *)
(* lock is the only mutual exclusion between them.                         *)
(***************************************************************************)
EXTENDS Naturals, FiniteSets

CONSTANTS
  Media,        \* the uploads of the account
  MaxUploads,   \* how often one form is posted: its key, and so its object, is reused
  MaxReceive,   \* maxReceiveCount of the scan-result queue
  MaxRemovals   \* how often the owner asks for the account's removal

ASSUME MediaAssumption ==
  /\ IsFiniteSet(Media)
  /\ MaxUploads \in Nat \ {0}
  /\ MaxReceive \in Nat \ {0}
  /\ MaxRemovals \in Nat

Holders == {"nobody", "lambda", "removal"}

\* What is posted: a picture, a picture carrying malware, a clean non-image.
Contents == {"picture", "malware", "junk"}
Uploads == 1..MaxUploads
Results == [media : Media, upload : Uploads]
Variants == {"served", "thumbnail"}

VARIABLES
  row,        \* the Media row, or NoRow
  form,       \* is the presigned form of the upload still accepted
  posted,     \* how many times it was posted
  quarantine, \* the object under the upload's quarantine key, or NoObject
  public,     \* the variants in the public bucket, with what they were made from
  scans,      \* scans GuardDuty has still to report
  queue,      \* scan results in the SQS queue and how often each was received
  dlq,        \* scan results in the dead-letter queue
  lock,       \* who holds the row lock of an upload
  job,        \* the Lambda invocation handling a scan result
  removal,    \* phase of the account's removal
  account,    \* does the local account exist, and does its Cognito identity
  asked,      \* how often the removal was asked for
  halfway,    \* a removal failed after it had begun deleting objects
  torn        \* history variable: uploads whose publication died after a put

vars == <<row, form, posted, quarantine, public, scans, queue, dlq, lock, job,
          removal, account, asked, halfway, torn>>

-----------------------------------------------------------------------------
(* Rows and objects *)

NoRow == [status |-> "none", key |-> FALSE, variants |-> FALSE]
NewRow == [status |-> "uploaded", key |-> TRUE, variants |-> FALSE]
Statuses == {"none", "uploaded", "scanning", "processed", "rejected"}
Terminal == {"processed", "rejected"}

\* The State machine's table: where a row may go from each status.
allowed_next(status) ==
  CASE status = "uploaded" -> {"scanning"}
    [] status = "scanning" -> Terminal
    [] OTHER -> {}

NoObject == [content |-> "none", upload |-> 0, tag |-> "none"]

NoJob == [at |-> "idle", outcome |-> "none", content |-> "none"]
JobPhases == {"idle", "read", "put", "thumbnail", "sweep", "save"}

Messages == [result : Results, verdict : {"clean", "other"}, received : 0..MaxReceive]
ResultOf(m, n) == [media |-> m, upload |-> n]

TypeOK ==
  /\ row \in [Media -> [status : Statuses, key : BOOLEAN, variants : BOOLEAN]]
  /\ form \in [Media -> BOOLEAN]
  /\ posted \in [Media -> 0..MaxUploads]
  /\ quarantine \in [Media -> [content : Contents \cup {"none"}, upload : 0..MaxUploads,
                               tag : {"none", "clean", "other"}]]
  /\ public \subseteq [media : Media, variant : Variants, content : Contents \cup {"none"}]
  /\ scans \subseteq [result : Results, content : Contents]
  /\ queue \subseteq Messages
  /\ dlq \subseteq Results
  /\ lock \in [Media -> Holders]
  /\ job \in [Results -> [at : JobPhases, outcome : {"none", "processed", "rejected"},
                          content : Contents \cup {"none"}]]
  /\ removal \in {"idle", "locked", "quarantine_gone", "public_gone", "saved"}
  /\ account \in [local : BOOLEAN, identity : BOOLEAN]
  /\ asked \in 0..MaxRemovals
  /\ halfway \in BOOLEAN
  /\ torn \subseteq Media

Init ==
  /\ row = [m \in Media |-> NoRow]
  /\ form = [m \in Media |-> FALSE]
  /\ posted = [m \in Media |-> 0]
  /\ quarantine = [m \in Media |-> NoObject]
  /\ public = {}
  /\ scans = {}
  /\ queue = {}
  /\ dlq = {}
  /\ lock = [m \in Media |-> "nobody"]
  /\ job = [r \in Results |-> NoJob]
  /\ removal = "idle"
  /\ account = [local |-> TRUE, identity |-> TRUE]
  /\ asked = 0
  /\ halfway = FALSE
  /\ torn = {}

-----------------------------------------------------------------------------
(* The owner uploads; GuardDuty scans *)

RemovalHoldsUser == removal \in {"locked", "quarantine_gone", "public_gone"}

\* POST /media/uploads: the insert's foreign key waits for a removal holding
\* the user row, and fails once that has committed.
create_upload(m) ==
  /\ account.local /\ ~RemovalHoldsUser
  /\ row[m] = NoRow /\ ~form[m]
  /\ row' = [row EXCEPT ![m] = NewRow]
  /\ form' = [form EXCEPT ![m] = TRUE]
  /\ UNCHANGED <<posted, quarantine, public, scans, queue, dlq, lock, job, removal,
                 account, asked, halfway, torn>>

\* The browser posts the form, again and again while it is valid.
PostForm(m, content) ==
  /\ form[m] /\ posted[m] < MaxUploads
  /\ posted' = [posted EXCEPT ![m] = @ + 1]
  /\ quarantine' = [quarantine EXCEPT ![m] =
       [content |-> content, upload |-> posted'[m], tag |-> "none"]]
  /\ scans' = scans \cup {[result |-> ResultOf(m, posted'[m]), content |-> content]}
  /\ UNCHANGED <<row, form, public, queue, dlq, lock, job, removal, account, asked,
                 halfway, torn>>

\* ExpiresIn: 300 seconds after the upload was created.
FormExpires(m) ==
  /\ form[m]
  /\ form' = [form EXCEPT ![m] = FALSE]
  /\ UNCHANGED <<row, posted, quarantine, public, scans, queue, dlq, lock, job, removal,
                 account, asked, halfway, torn>>

Tagged(object, verdict) ==
  [content |-> object.content, upload |-> object.upload, tag |-> verdict]

\* GuardDuty tags the object, if it still is the one it scanned, and its
\* result reaches the queue.  A scan may fail whatever the content.
Scan(s, verdict) ==
  LET m == s.result.media IN
  /\ verdict = "clean" => s.content # "malware"
  /\ scans' = scans \ {s}
  /\ quarantine' = IF quarantine[m].upload = s.result.upload
                   THEN [quarantine EXCEPT ![m] = Tagged(@, verdict)] ELSE quarantine
  /\ queue' = queue \cup {[result |-> s.result, verdict |-> verdict, received |-> 0]}
  /\ UNCHANGED <<row, form, posted, public, dlq, lock, job, removal, account, asked,
                 halfway, torn>>

\* The bucket's one-day expiry: long after the form and every retry.
ObjectExpires(m) ==
  /\ quarantine[m] # NoObject /\ ~form[m]
  /\ \A x \in scans \cup queue : x.result.media # m
  /\ quarantine' = [quarantine EXCEPT ![m] = NoObject]
  /\ UNCHANGED <<row, form, posted, public, scans, queue, dlq, lock, job, removal,
                 account, asked, halfway, torn>>

-----------------------------------------------------------------------------
(* The media Lambda *)

Received(msg) ==
  [result |-> msg.result, verdict |-> msg.verdict, received |-> msg.received + 1]

\* The record is not in batchItemFailures: SQS deletes the message, or, being
\* at-least-once, delivers it again all the same.
Acknowledge(msg) ==
  /\ \/ queue' = queue \ {msg}
     \/ /\ msg.received + 1 < MaxReceive
        /\ queue' = (queue \ {msg}) \cup {Received(msg)}
  /\ UNCHANGED dlq

\* FAULTY: no receive is ever counted.
ReturnUncounted(msg) == queue' = queue /\ dlq' = dlq

\* It is: the message returns, to the dead-letter queue after MaxReceive times.
Return(msg) ==
  IF msg.received + 1 < MaxReceive
  THEN queue' = (queue \ {msg}) \cup {Received(msg)} /\ UNCHANGED dlq
  ELSE queue' = queue \ {msg} /\ dlq' = dlq \cup {msg.result}

Idle(msg) == job[msg.result].at = "idle"

\* No row has this quarantine key: decided before, or the account is gone.
NothingToDo(msg) ==
  /\ Idle(msg)
  /\ ~row[msg.result.media].key
  /\ Acknowledge(msg)
  /\ UNCHANGED <<row, form, posted, quarantine, public, scans, lock, job, removal,
                 account, asked, halfway, torn>>

\* FAULTY: the query without FOR UPDATE.
FreeAnyway(m) == TRUE

Free(m) == lock[m] = "nobody"

\* SELECT ... FOR UPDATE finds the row and locks it.  A verdict that is not
\* clean rejects without reading; a clean one runs the pipeline.
_process_record(msg) ==
  LET m == msg.result.media IN
  /\ Idle(msg)
  /\ row[m].key /\ Free(m)
  /\ "scanning" \in allowed_next(row[m].status)
  /\ lock' = [lock EXCEPT ![m] = "lambda"]
  /\ job' = [job EXCEPT ![msg.result] =
       IF msg.verdict = "clean"
       THEN [at |-> "read", outcome |-> "none", content |-> "none"]
       ELSE [at |-> "sweep", outcome |-> "rejected", content |-> "none"]]
  /\ UNCHANGED <<row, form, posted, quarantine, public, scans, queue, dlq, removal,
                 account, asked, halfway, torn>>

\* FAULTY: any scanned object may be read.
ReadableOnceScanned(m) == quarantine[m].tag # "none"

\* The bucket policy: an object not tagged clean cannot be read.
Readable(m) == quarantine[m].tag = "clean"

\* get_object, then what Pillow makes of the bytes: MediaRejected for anything
\* that is not a picture of the allow-list and size.
validate_type(r) ==
  LET object == quarantine[r.media] IN
  /\ job[r].at = "read"
  /\ Readable(r.media)
  /\ job' = [job EXCEPT ![r] =
       IF object.content = "junk"
       THEN [at |-> "sweep", outcome |-> "rejected", content |-> object.content]
       ELSE [at |-> "put", outcome |-> "processed", content |-> object.content]]
  /\ UNCHANGED <<row, form, posted, quarantine, public, scans, queue, dlq, lock, removal,
                 account, asked, halfway, torn>>

At(r, phase) == [at |-> phase, outcome |-> job[r].outcome, content |-> job[r].content]

Put(r, variant) ==
  public' = public \cup {[media |-> r.media, variant |-> variant, content |-> job[r].content]}

put_served(r) ==
  /\ job[r].at = "put"
  /\ Put(r, "served")
  /\ job' = [job EXCEPT ![r] = At(r, "thumbnail")]
  /\ UNCHANGED <<row, form, posted, quarantine, scans, queue, dlq, lock, removal,
                 account, asked, halfway, torn>>

put_thumbnail(r) ==
  /\ job[r].at = "thumbnail"
  /\ Put(r, "thumbnail")
  /\ job' = [job EXCEPT ![r] = At(r, "sweep")]
  /\ UNCHANGED <<row, form, posted, quarantine, scans, queue, dlq, lock, removal,
                 account, asked, halfway, torn>>

_cleanup_quarantine_object(r) ==
  /\ job[r].at = "sweep"
  /\ quarantine' = [quarantine EXCEPT ![r.media] = NoObject]
  /\ job' = [job EXCEPT ![r] = At(r, "save")]
  /\ UNCHANGED <<row, form, posted, public, scans, queue, dlq, lock, removal, account,
                 asked, halfway, torn>>

\* FAULTY: the quarantine key is not cleared.
DecidedKeepingKey(outcome) ==
  [status |-> outcome, key |-> TRUE, variants |-> outcome = "processed"]

\* What the commit makes of the row: status, keys and cleared quarantine key.
Decided(outcome) ==
  [status |-> outcome, key |-> FALSE, variants |-> outcome = "processed"]

save(msg) ==
  LET r == msg.result IN
  /\ job[r].at = "save"
  /\ job[r].outcome \in allowed_next("scanning")
  /\ row' = [row EXCEPT ![r.media] = Decided(job[r].outcome)]
  /\ lock' = [lock EXCEPT ![r.media] = "nobody"]
  /\ job' = [job EXCEPT ![r] = NoJob]
  /\ Acknowledge(msg)
  /\ UNCHANGED <<form, posted, quarantine, public, scans, removal, account, asked,
                 halfway, torn>>

HasPut(j) == j.at = "thumbnail" \/ (j.outcome = "processed" /\ j.at \in {"sweep", "save"})

\* An exception, a timeout or a crash: the session is closed uncommitted, the
\* row lock goes with it, and the message returns.
Dies(msg) ==
  LET r == msg.result IN
  /\ job[r].at # "idle"
  /\ Return(msg)
  /\ lock' = [lock EXCEPT ![r.media] = "nobody"]
  /\ job' = [job EXCEPT ![r] = NoJob]
  /\ torn' = IF HasPut(job[r]) THEN torn \cup {r.media} ELSE torn
  /\ UNCHANGED <<row, form, posted, quarantine, public, scans, removal, account, asked,
                 halfway>>

\* get_object raises: the object is gone, or may not be read.
Refused(msg) ==
  /\ job[msg.result].at = "read" /\ ~Readable(msg.result.media)
  /\ Dies(msg)

-----------------------------------------------------------------------------
(* DELETE /users/me/data: objects first, then one commit, the identity last *)

Rows == {m \in Media : row[m] # NoRow}
Unlocked == [m \in Media |-> IF lock[m] = "removal" THEN "nobody" ELSE lock[m]]

\* The user row is locked, then every media row, in id order: it waits for an
\* invocation that holds one.  Without a profile there is only the identity.
delete_account_data ==
  /\ removal = "idle" /\ account.identity /\ asked < MaxRemovals
  /\ asked' = asked + 1
  /\ IF account.local
     THEN /\ \A m \in Rows : Free(m)
          /\ lock' = [m \in Media |-> IF m \in Rows THEN "removal" ELSE lock[m]]
          /\ removal' = "locked"
     ELSE UNCHANGED lock /\ removal' = "saved"
  /\ UNCHANGED <<row, form, posted, quarantine, public, scans, queue, dlq, job, account,
                 halfway, torn>>

Keyed == {m \in Media : row[m].key}
\* FAULTY: the thumbnails are forgotten.
TrackedServed == {p \in public : row[p.media].variants /\ p.variant = "served"}

Tracked == {p \in public : row[p.media].variants}

DropQuarantined(ms) == quarantine' = [m \in Media |-> IF m \in ms THEN NoObject ELSE quarantine[m]]

delete_quarantine_objects ==
  /\ removal = "locked"
  /\ DropQuarantined(Keyed)
  /\ removal' = "quarantine_gone"
  /\ UNCHANGED <<row, form, posted, public, scans, queue, dlq, lock, job, account, asked,
                 halfway, torn>>

delete_public_objects ==
  /\ removal = "quarantine_gone"
  /\ public' = public \ Tracked
  /\ removal' = "public_gone"
  /\ UNCHANGED <<row, form, posted, quarantine, scans, queue, dlq, lock, job, account,
                 asked, halfway, torn>>

\* remove_account_media .. remove_account_user, and the one commit.
commit_removal ==
  /\ removal = "public_gone"
  /\ row' = [m \in Media |-> NoRow]
  /\ lock' = Unlocked
  /\ account' = [local |-> FALSE, identity |-> account.identity]
  /\ halfway' = FALSE
  /\ removal' = "saved"
  /\ UNCHANGED <<form, posted, quarantine, public, scans, queue, dlq, job, asked, torn>>

\* S3 reports per-object errors, or the process dies: some of the step's objects
\* are gone, and the rollback brings none back.
RemovalFails ==
  /\ RemovalHoldsUser
  /\ \/ /\ removal = "locked"
        /\ \E ms \in SUBSET Keyed : DropQuarantined(ms)
        /\ UNCHANGED public
     \/ /\ removal = "quarantine_gone"
        /\ \E ps \in SUBSET Tracked : public' = public \ ps
        /\ UNCHANGED quarantine
     \/ removal = "public_gone" /\ UNCHANGED <<public, quarantine>>
  /\ lock' = Unlocked
  /\ halfway' = TRUE
  /\ removal' = "idle"
  /\ UNCHANGED <<row, form, posted, scans, queue, dlq, job, account, asked, torn>>

\* Deleted, or already gone: UserNotFoundException counts as done.
admin_delete_user ==
  /\ removal = "saved"
  /\ account' = [local |-> account.local, identity |-> FALSE]
  /\ removal' = "idle"
  /\ UNCHANGED <<row, form, posted, quarantine, public, scans, queue, dlq, lock, job,
                 asked, halfway, torn>>

IdentityStays ==
  /\ removal = "saved"
  /\ removal' = "idle"
  /\ UNCHANGED <<row, form, posted, quarantine, public, scans, queue, dlq, lock, job,
                 account, asked, halfway, torn>>

-----------------------------------------------------------------------------
Publishing(r) ==
  validate_type(r) \/ put_served(r) \/ put_thumbnail(r) \/ _cleanup_quarantine_object(r)

Handling(msg) ==
  NothingToDo(msg) \/ _process_record(msg) \/ Publishing(msg.result) \/ save(msg) \/ Refused(msg)

Removing ==
  \/ delete_quarantine_objects \/ delete_public_objects \/ commit_removal
  \/ admin_delete_user

Next ==
  \/ \E m \in Media : create_upload(m) \/ FormExpires(m) \/ ObjectExpires(m)
  \/ \E m \in Media, content \in Contents : PostForm(m, content)
  \/ \E s \in scans, verdict \in {"clean", "other"} : Scan(s, verdict)
  \/ \E msg \in queue : Handling(msg) \/ Dies(msg)
  \/ delete_account_data \/ Removing \/ RemovalFails \/ IdentityStays

\* GuardDuty reports every scan, forms and objects expire, SQS keeps invoking
\* the Lambda and an invocation or a removal does not stop without failing.
Fairness ==
  /\ \A r \in Results :
       /\ WF_vars(\E s \in scans, verdict \in {"clean", "other"} : s.result = r /\ Scan(s, verdict))
       /\ WF_vars(\E msg \in queue : msg.result = r /\ Handling(msg))
  /\ \A m \in Media : WF_vars(FormExpires(m)) /\ WF_vars(ObjectExpires(m))
  /\ WF_vars(Removing)

Spec == Init /\ [][Next]_vars /\ Fairness

-----------------------------------------------------------------------------
(* Properties *)

\* What is served was scanned clean and is a picture, though the object under
\* a key may be replaced between its scan, its result and its reading.
PublishedWasScannedClean == \A p \in public : p.content = "picture"

\* A decided row points at no quarantine object, and a published one at both
\* variants, which exist: the commit comes last.  (After a removal that failed
\* the objects may be gone: the owner is told to retry.)
DecidedIsTidy ==
  \A m \in Media : row[m].status \in Terminal =>
    /\ ~row[m].key
    /\ row[m].variants <=> row[m].status = "processed"
    /\ row[m].variants /\ ~halfway /\ removal = "idle" =>
         \A v \in Variants : \E p \in public : p.media = m /\ p.variant = v

\* An upload posted and not decided is somebody's to decide: GuardDuty's, the
\* Lambda's, or the operator's whom the dead-letter alarm calls.
SomeoneDecides ==
  \A m \in Media : row[m].status = "uploaded" /\ posted[m] > 0 =>
    \/ \E x \in scans \cup queue : x.result.media = m
    \/ \E r \in dlq : r.media = m

\* Whatever is redelivered, retried or lost between two of its steps, an upload
\* is either decided, with row and objects agreeing, or somebody's to decide.
UploadsAreAccountedFor == DecidedIsTidy /\ SomeoneDecides

\* A removed account has no row left and nothing in the public bucket, except
\* what a publication left there that died between its put and its commit and
\* was never finished: no row ever named those objects.
RemovalLeavesNothingServed ==
  ~account.local =>
    /\ \A m \in Media : row[m] = NoRow
    /\ \A p \in public : p.media \in torn

\* A decision is never reversed by another result for the same key, a
\* redelivery or a retry; only removing the account takes it away.
DecidedOnce ==
  [][\A m \in Media : row[m].status \in Terminal => row'[m] \in {row[m], NoRow}]_vars

\* Every posted upload is decided, or dead-lettered, or goes with its account.
EveryUploadIsDecided ==
  \A m \in Media :
    row[m].status = "uploaded" /\ posted[m] > 0
      ~> row[m].status # "uploaded" \/ \E r \in dlq : r.media = m

\* What a form still accepted puts into quarantine after the removal is gone in
\* the end, because the form and the object both expire.
RemovedIsForgotten ==
  ~account.local ~> \A m \in Media : quarantine[m] = NoObject /\ ~form[m]

\* No upload waits for ever, and nothing of a removed account stays.
UploadsEnd == EveryUploadIsDecided /\ RemovedIsForgotten

=============================================================================
