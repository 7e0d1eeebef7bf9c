------------------------- MODULE MediaPipelineProofs ------------------------
(***************************************************************************)
(* Proofs about MediaPipeline, for every set of uploads and every bound.   *)
(***************************************************************************)
EXTENDS MediaPipeline, TLAPS

\* The records the actions build are well typed.
LEMMA RecordsTyped ==
  /\ NoRow \in [status : Statuses, key : BOOLEAN, variants : BOOLEAN]
  /\ NewRow \in [status : Statuses, key : BOOLEAN, variants : BOOLEAN]
  /\ \A o \in Terminal : Decided(o) \in [status : Statuses, key : BOOLEAN, variants : BOOLEAN]
  /\ NoObject \in [content : Contents \cup {"none"}, upload : 0..MaxUploads,
                   tag : {"none", "clean", "other"}]
  /\ NoJob \in [at : JobPhases, outcome : {"none", "processed", "rejected"},
                content : Contents \cup {"none"}]
BY MediaAssumption
   DEF NoRow, NewRow, Decided, Terminal, Statuses, NoObject, Contents, NoJob, JobPhases

\* Settling a message keeps the queues well typed.
LEMMA SettlingTyped ==
  ASSUME TypeOK, NEW msg \in queue, Acknowledge(msg) \/ Return(msg)
  PROVE  queue' \subseteq Messages /\ dlq' \subseteq Results
<1>1. msg \in Messages /\ msg.result \in Results
  BY DEF TypeOK, Messages
<1>2. ASSUME msg.received + 1 < MaxReceive
      PROVE  Received(msg) \in Messages
  BY <1>1, <1>2, MediaAssumption DEF Messages, Received
<1>3. CASE Acknowledge(msg)
  BY <1>1, <1>2, <1>3 DEF Acknowledge, TypeOK
<1>4. CASE Return(msg)
  BY <1>1, <1>2, <1>4 DEF Return, TypeOK
<1>5. QED
  BY <1>3, <1>4

\* Every state the pipeline reaches is well formed: in particular no message
\* is received more often than the queue's policy allows.
THEOREM TypeCorrect == Spec => []TypeOK
<1>1. Init => TypeOK
  <2> SUFFICES ASSUME Init PROVE TypeOK
    OBVIOUS
  <2>1. /\ row \in [Media -> [status : Statuses, key : BOOLEAN, variants : BOOLEAN]]
        /\ quarantine \in [Media -> [content : Contents \cup {"none"}, upload : 0..MaxUploads,
                                     tag : {"none", "clean", "other"}]]
        /\ job \in [Results -> [at : JobPhases, outcome : {"none", "processed", "rejected"},
                                content : Contents \cup {"none"}]]
    BY RecordsTyped DEF Init
  <2>2. /\ form \in [Media -> BOOLEAN] /\ posted \in [Media -> 0..MaxUploads]
        /\ lock \in [Media -> Holders] /\ asked \in 0..MaxRemovals
    BY MediaAssumption DEF Init, Holders
  <2>3. QED
    BY <2>1, <2>2 DEF Init, TypeOK
<1>2. TypeOK /\ [Next]_vars => TypeOK'
  <2> SUFFICES ASSUME TypeOK, [Next]_vars PROVE TypeOK'
    OBVIOUS
  <2> USE RecordsTyped DEF Holders
  <2>1. ASSUME NEW m \in Media, create_upload(m) PROVE TypeOK'
    BY <2>1 DEF create_upload, TypeOK
  <2>2. ASSUME NEW m \in Media, FormExpires(m) PROVE TypeOK'
    BY <2>2 DEF FormExpires, TypeOK
  <2>3. ASSUME NEW m \in Media, ObjectExpires(m) PROVE TypeOK'
    BY <2>3 DEF ObjectExpires, TypeOK
  <2>4. ASSUME NEW m \in Media, NEW content \in Contents, PostForm(m, content) PROVE TypeOK'
    <3>1. posted[m] + 1 \in 1..MaxUploads
      BY <2>4, MediaAssumption DEF PostForm, TypeOK
    <3>2. posted' \in [Media -> 0..MaxUploads] /\ posted'[m] = posted[m] + 1
      BY <2>4, <3>1, MediaAssumption DEF PostForm, TypeOK
    <3>3. quarantine' \in [Media -> [content : Contents \cup {"none"}, upload : 0..MaxUploads,
                                     tag : {"none", "clean", "other"}]]
      BY <2>4, <3>1, <3>2, MediaAssumption DEF PostForm, TypeOK
    <3>4. scans' \subseteq [result : Results, content : Contents]
      BY <2>4, <3>1, <3>2 DEF PostForm, TypeOK, ResultOf, Results, Uploads
    <3>5. QED
      BY <2>4, <3>2, <3>3, <3>4 DEF PostForm, TypeOK
  <2>5. ASSUME NEW s \in scans, NEW verdict \in {"clean", "other"}, Scan(s, verdict) PROVE TypeOK'
    <3>1. s.result \in Results /\ s.result.media \in Media
      BY DEF TypeOK, Results
    <3>2. Tagged(quarantine[s.result.media], verdict) \in
            [content : Contents \cup {"none"}, upload : 0..MaxUploads, tag : {"none", "clean", "other"}]
      BY <3>1 DEF TypeOK, Tagged
    <3>3. [result |-> s.result, verdict |-> verdict, received |-> 0] \in Messages
      BY <3>1, MediaAssumption DEF Messages
    <3>4. QED
      BY <2>5, <3>1, <3>2, <3>3 DEF Scan, TypeOK
  <2>6. ASSUME NEW msg \in queue, NothingToDo(msg) PROVE TypeOK'
    BY <2>6, SettlingTyped DEF NothingToDo, TypeOK
  <2>7. ASSUME NEW msg \in queue, _process_record(msg) PROVE TypeOK'
    BY <2>7 DEF _process_record, TypeOK, Messages, Results, JobPhases
  <2>8. ASSUME NEW r \in Results, validate_type(r) PROVE TypeOK'
    <3>1. quarantine[r.media].content \in Contents \cup {"none"}
      BY DEF TypeOK, Results
    <3>2. QED
      BY <2>8, <3>1 DEF validate_type, TypeOK, JobPhases
  <2>9. ASSUME NEW r \in Results, put_served(r) \/ put_thumbnail(r) PROVE TypeOK'
    <3>1. r.media \in Media /\ job[r].content \in Contents \cup {"none"}
      BY DEF TypeOK, Results
    <3>2. At(r, "thumbnail") \in [at : JobPhases, outcome : {"none", "processed", "rejected"},
                                  content : Contents \cup {"none"}]
          /\ At(r, "sweep") \in [at : JobPhases, outcome : {"none", "processed", "rejected"},
                                 content : Contents \cup {"none"}]
      BY DEF TypeOK, At, JobPhases
    <3>3. public' \subseteq [media : Media, variant : Variants, content : Contents \cup {"none"}]
      BY <2>9, <3>1 DEF put_served, put_thumbnail, Put, TypeOK, Variants
    <3>4. QED
      BY <2>9, <3>2, <3>3 DEF put_served, put_thumbnail, TypeOK
  <2>10. ASSUME NEW r \in Results, _cleanup_quarantine_object(r) PROVE TypeOK'
    <3>1. At(r, "save") \in [at : JobPhases, outcome : {"none", "processed", "rejected"},
                             content : Contents \cup {"none"}]
      BY DEF TypeOK, At, JobPhases
    <3>2. QED
      BY <2>10, <3>1 DEF _cleanup_quarantine_object, TypeOK, Results
  <2>11. ASSUME NEW msg \in queue, save(msg) PROVE TypeOK'
    <3>1. Decided(job[msg.result].outcome) \in
            [status : Statuses, key : BOOLEAN, variants : BOOLEAN]
      BY <2>11 DEF save, allowed_next, Terminal
    <3>2. queue' \subseteq Messages /\ dlq' \subseteq Results
      BY <2>11, SettlingTyped DEF save
    <3>3. QED
      BY <2>11, <3>1, <3>2 DEF save, TypeOK
  <2>12. ASSUME NEW msg \in queue, Dies(msg) PROVE TypeOK'
    <3>1. msg.result.media \in Media
      BY DEF TypeOK, Messages, Results
    <3>2. queue' \subseteq Messages /\ dlq' \subseteq Results
      BY <2>12, SettlingTyped DEF Dies
    <3>3. QED
      BY <2>12, <3>1, <3>2 DEF Dies, TypeOK
  <2>13. CASE delete_account_data
    BY <2>13, MediaAssumption DEF delete_account_data, TypeOK
  <2>14. CASE Removing
    <3>1. CASE delete_quarantine_objects
      BY <3>1 DEF delete_quarantine_objects, DropQuarantined, TypeOK
    <3>2. CASE delete_public_objects
      BY <3>2 DEF delete_public_objects, TypeOK
    <3>3. CASE commit_removal
      BY <3>3 DEF commit_removal, Unlocked, TypeOK
    <3>4. CASE admin_delete_user
      BY <3>4 DEF admin_delete_user, TypeOK
    <3>5. QED
      BY <2>14, <3>1, <3>2, <3>3, <3>4 DEF Removing
  <2>15. CASE RemovalFails
    BY <2>15 DEF RemovalFails, DropQuarantined, Tracked, Unlocked, TypeOK
  <2>16. CASE IdentityStays
    BY <2>16 DEF IdentityStays, TypeOK
  <2>17. CASE UNCHANGED vars
    BY <2>17 DEF vars, TypeOK
  <2>18. \A msg \in queue : msg.result \in Results
    BY DEF TypeOK, Messages
  <2>19. QED
    BY <2>1, <2>2, <2>3, <2>4, <2>5, <2>6, <2>7, <2>8, <2>9, <2>10, <2>11, <2>12, <2>13,
       <2>14, <2>15, <2>16, <2>17, <2>18
       DEF Next, Handling, Publishing, Refused
<1>3. QED
  BY <1>1, <1>2, PTL DEF Spec

-----------------------------------------------------------------------------
(* The inductive invariant: who holds the locks *)

Busy(r) == job[r].at # "idle"

\* A row is new or decided: the status in between is never saved.
RowShapes == \A m \in Media : row[m] \in {NoRow, NewRow, Decided("processed"), Decided("rejected")}

\* Before the removal, an upload without a row was never posted, and cannot be.
NotYetPosted == \A m \in Media : row[m] = NoRow /\ account.local => posted[m] = 0 /\ ~form[m]

\* An invocation works on a locked, undecided row, one per row.
JobsHoldLocks ==
  /\ \A r \in Results : Busy(r) => lock[r.media] = "lambda" /\ row[r.media] = NewRow
  /\ \A r, s \in Results : Busy(r) /\ Busy(s) /\ r.media = s.media => r = s

\* From its locks to its commit a removal holds every row of the account.
RemovalHoldsRows ==
  /\ \A m \in Media : lock[m] = "removal" => RemovalHoldsUser
  /\ RemovalHoldsUser => account.local /\ \A m \in Media : row[m] # NoRow => lock[m] = "removal"
  /\ removal = "saved" => ~account.local
  /\ ~account.local => \A m \in Media : row[m] = NoRow

Locking == RowShapes /\ NotYetPosted /\ JobsHoldLocks /\ RemovalHoldsRows

(* What a job knows of the object it has read *)

JobShapes ==
  \A r \in Results :
    /\ job[r].at = "idle" => job[r] = NoJob
    /\ job[r].at = "read" => job[r].outcome = "none"
    /\ job[r].at \in {"put", "thumbnail"} => job[r].outcome = "processed"
    /\ job[r].outcome = "processed" => job[r].content = "picture"

\* A scan not yet reported is of the object its upload left, unless another
\* replaced it; a clean tag is on a scanned object that carries no malware.
ScansMatch ==
  /\ \A s \in scans :
       /\ s.result.upload <= posted[s.result.media]
       /\ quarantine[s.result.media].upload = s.result.upload
            => quarantine[s.result.media].content = s.content
  /\ \A m \in Media : quarantine[m].upload <= posted[m]
  /\ \A m \in Media : Readable(m) => quarantine[m].content \in {"picture", "junk"}

Knowing == JobShapes /\ ScansMatch /\ PublishedWasScannedClean

(* Where the public objects come from *)

Served(m, variant) == \E p \in public : p.media = m /\ p.variant = variant

\* An invocation past a put finds the object there at its commit.
PutsLast ==
  \A r \in Results :
    /\ HasPut(job[r]) => Served(r.media, "served")
    /\ HasPut(job[r]) /\ job[r].at # "thumbnail" => Served(r.media, "thumbnail")

\* So a published row's objects exist, until a removal deletes them.
VariantsExist ==
  \A m \in Media :
    row[m].variants /\ ~halfway /\ removal # "public_gone" =>
      Served(m, "served") /\ Served(m, "thumbnail")

\* A public object is tracked by its row, being published, or torn off.
PublicIsTracked ==
  /\ \A p \in public :
       \/ p.media \in torn
       \/ row[p.media].variants
       \/ \E r \in Results : r.media = p.media /\ HasPut(job[r])
  /\ removal = "public_gone" => \A p \in public : p.media \in torn

Serving == PutsLast /\ VariantsExist /\ PublicIsTracked

-----------------------------------------------------------------------------
(* The invariant holds *)

\* A row that still has its quarantine key is undecided.
LEMMA KeyedIsNew ==
  ASSUME RowShapes, NEW m \in Media, row[m].key
  PROVE  row[m] = NewRow
<1>1. ~NoRow.key /\ ~Decided("processed").key /\ ~Decided("rejected").key
  BY DEF NoRow, Decided
<1>2. QED
  BY <1>1 DEF RowShapes

\* The steps of one invocation that leave its locks, and the rows, alone.
LEMMA WorkingKeepsLocks ==
  ASSUME TypeOK, Locking, NEW r \in Results, Publishing(r)
  PROVE  Locking'
<1>1. UNCHANGED <<row, posted, form, lock, removal, account>>
  BY DEF Publishing, validate_type, put_served, put_thumbnail, _cleanup_quarantine_object
<1>2. Busy(r) /\ job'[r].at # "idle" /\ \A x \in Results : x # r => job'[x] = job[x]
  <2>1. CASE validate_type(r)
    BY <2>1 DEF validate_type, Busy, TypeOK
  <2>2. CASE put_served(r)
    BY <2>2 DEF put_served, At, Busy, TypeOK
  <2>3. CASE put_thumbnail(r)
    BY <2>3 DEF put_thumbnail, At, Busy, TypeOK
  <2>4. CASE _cleanup_quarantine_object(r)
    BY <2>4 DEF _cleanup_quarantine_object, At, Busy, TypeOK
  <2>5. QED
    BY <2>1, <2>2, <2>3, <2>4 DEF Publishing
<1>3. \A x \in Results : Busy(x)' <=> Busy(x)
  BY <1>2 DEF Busy
<1>4. QED
  BY <1>1, <1>3 DEF Locking, RowShapes, NotYetPosted, JobsHoldLocks, RemovalHoldsRows,
                    RemovalHoldsUser

\* An invocation that ends gives its lock back.
LEMMA EndingFreesLock ==
  ASSUME TypeOK, Locking, NEW msg \in queue, save(msg) \/ Dies(msg)
  PROVE  Locking'
<1> DEFINE r == msg.result
           m == r.media
<1>1. r \in Results /\ m \in Media /\ Busy(r)
  BY DEF TypeOK, Messages, Results, save, Dies, Busy
<1>2. lock[m] = "lambda" /\ row[m] = NewRow
  BY <1>1 DEF Locking, JobsHoldLocks
<1>3. ~Busy(r)' /\ \A x \in Results : x # r => (Busy(x)' <=> Busy(x)) /\ (Busy(x) => x.media # m)
  BY <1>1 DEF save, Dies, NoJob, Busy, TypeOK, Locking, JobsHoldLocks
<1>4. lock' = [lock EXCEPT ![m] = "nobody"] /\ UNCHANGED <<posted, form, removal, account>>
  BY DEF save, Dies
<1>5. /\ row'[m] \in {NewRow, Decided("processed"), Decided("rejected")}
      /\ \A n \in Media : n # m => row'[n] = row[n]
  BY <1>1, <1>2 DEF save, Dies, TypeOK, allowed_next, Terminal
<1>6. account.local
  BY <1>1, <1>2 DEF Locking, RemovalHoldsRows, NewRow, NoRow
<1>7. ~RemovalHoldsUser
  BY <1>1, <1>2 DEF Locking, RemovalHoldsRows, NewRow, NoRow
<1>8. RowShapes' /\ NotYetPosted'
  BY <1>1, <1>4, <1>5, <1>6 DEF Locking, RowShapes, NotYetPosted, NewRow, NoRow, Decided
<1>9. JobsHoldLocks'
  BY <1>1, <1>3, <1>4, <1>5 DEF Locking, JobsHoldLocks, TypeOK, Results
<1>10. RemovalHoldsRows'
  BY <1>1, <1>4, <1>5, <1>6, <1>7
     DEF Locking, RemovalHoldsRows, RemovalHoldsUser, TypeOK
<1>11. QED
  BY <1>8, <1>9, <1>10 DEF Locking

LEMMA LockingStep == TypeOK /\ Locking /\ [Next]_vars => Locking'
<1> SUFFICES ASSUME TypeOK, Locking, [Next]_vars PROVE Locking'
  OBVIOUS
<1> USE DEF RemovalHoldsUser
<1>1. ASSUME NEW m \in Media, create_upload(m) PROVE Locking'
  <2>1. RowShapes' /\ NotYetPosted'
    BY <1>1 DEF create_upload, Locking, RowShapes, NotYetPosted, TypeOK, NewRow, NoRow
  <2>2. JobsHoldLocks'
    BY <1>1 DEF create_upload, Locking, JobsHoldLocks, Busy, TypeOK, Results
  <2>3. RemovalHoldsRows'
    BY <1>1 DEF create_upload, Locking, RemovalHoldsRows, TypeOK, NewRow, NoRow
  <2>4. QED
    BY <2>1, <2>2, <2>3 DEF Locking
<1>2. ASSUME NEW m \in Media, FormExpires(m) \/ ObjectExpires(m) PROVE Locking'
  BY <1>2 DEF FormExpires, ObjectExpires, TypeOK, Locking, RowShapes, NotYetPosted, JobsHoldLocks,
              Busy, RemovalHoldsRows
<1>3. ASSUME NEW m \in Media, NEW content \in Contents, PostForm(m, content) PROVE Locking'
  <2>1. row[m] # NoRow \/ ~account.local
    BY <1>3 DEF PostForm, Locking, NotYetPosted
  <2>2. \A n \in Media : n # m => posted'[n] = posted[n]
    BY <1>3 DEF PostForm, TypeOK
  <2>3. QED
    BY <1>3, <2>1, <2>2 DEF PostForm, Locking, RowShapes, NotYetPosted, JobsHoldLocks, Busy,
                            RemovalHoldsRows
<1>4. ASSUME NEW s \in scans, NEW verdict \in {"clean", "other"}, Scan(s, verdict) PROVE Locking'
  BY <1>4 DEF Scan, Locking, RowShapes, NotYetPosted, JobsHoldLocks, Busy, RemovalHoldsRows
<1>5. ASSUME NEW msg \in queue, NothingToDo(msg) PROVE Locking'
  BY <1>5 DEF NothingToDo, Locking, RowShapes, NotYetPosted, JobsHoldLocks, Busy, RemovalHoldsRows
<1>6. ASSUME NEW msg \in queue, _process_record(msg) PROVE Locking'
  <2> DEFINE r == msg.result
  <2>1. r \in Results /\ r.media \in Media
    BY DEF TypeOK, Messages, Results
  <2>2. row[r.media] = NewRow /\ lock[r.media] = "nobody"
    <3>1. row[r.media].key /\ lock[r.media] = "nobody"
      BY <1>6 DEF _process_record, Free
    <3>2. QED
      BY <2>1, <3>1, KeyedIsNew DEF Locking
  <2>3. \A x \in Results : Busy(x) => x.media # r.media
    BY <2>1, <2>2 DEF Locking, JobsHoldLocks
  <2>4. JobsHoldLocks'
    BY <1>6, <2>1, <2>2, <2>3 DEF _process_record, Locking, JobsHoldLocks, Busy, TypeOK, Results
  <2>5. RemovalHoldsRows'
    BY <1>6, <2>1, <2>2 DEF _process_record, Locking, RemovalHoldsRows, TypeOK, NewRow, NoRow
  <2>6. QED
    BY <1>6, <2>4, <2>5 DEF _process_record, Locking, RowShapes, NotYetPosted
<1>7. CASE delete_account_data
  <2>1. RowShapes' /\ NotYetPosted'
    BY <1>7 DEF delete_account_data, Locking, RowShapes, NotYetPosted
  <2>2. JobsHoldLocks'
    BY <1>7 DEF delete_account_data, Free, Rows, Locking, JobsHoldLocks, Busy, Results, NewRow, NoRow
  <2>3. RemovalHoldsRows'
    BY <1>7 DEF delete_account_data, Rows, Locking, RemovalHoldsRows, TypeOK
  <2>4. QED
    BY <2>1, <2>2, <2>3 DEF Locking
<1>8. CASE delete_quarantine_objects \/ delete_public_objects
  BY <1>8 DEF delete_quarantine_objects, delete_public_objects, Locking, RowShapes, NotYetPosted,
              JobsHoldLocks, Busy, RemovalHoldsRows
<1>9. CASE commit_removal
  <2>1. \A r \in Results : ~Busy(r)
    BY <1>9 DEF commit_removal, Locking, JobsHoldLocks, RemovalHoldsRows, Results, NewRow, NoRow
  <2>2. QED
    BY <1>9, <2>1 DEF commit_removal, Unlocked, Locking, RowShapes, NotYetPosted, JobsHoldLocks,
                      Busy, RemovalHoldsRows
<1>10. CASE RemovalFails
  <2>1. lock' = Unlocked /\ removal' = "idle" /\ UNCHANGED <<row, posted, form, job, account>>
    BY <1>10 DEF RemovalFails
  <2>2. QED
    BY <1>10, <2>1 DEF RemovalFails, Unlocked, Locking, RowShapes, NotYetPosted, JobsHoldLocks, Busy,
                RemovalHoldsRows, Results
<1>11. CASE admin_delete_user \/ IdentityStays
  BY <1>11 DEF admin_delete_user, IdentityStays, Locking, RowShapes, NotYetPosted, JobsHoldLocks,
               Busy, RemovalHoldsRows
<1>12. CASE UNCHANGED vars
  BY <1>12 DEF vars, Locking, RowShapes, NotYetPosted, JobsHoldLocks, Busy, RemovalHoldsRows
<1>13. \A msg \in queue : msg.result \in Results
  BY DEF TypeOK, Messages
<1>14. QED
  BY <1>1, <1>2, <1>3, <1>4, <1>5, <1>6, <1>7, <1>8, <1>9, <1>10, <1>11, <1>12, <1>13,
     WorkingKeepsLocks, EndingFreesLock
     DEF Next, Handling, Refused, Removing

LEMMA JobShapesStep == TypeOK /\ Knowing /\ [Next]_vars => JobShapes'
<1> SUFFICES ASSUME TypeOK, Knowing, [Next]_vars PROVE JobShapes'
  OBVIOUS
<1>1. ASSUME UNCHANGED job PROVE JobShapes'
  BY <1>1 DEF Knowing, JobShapes
<1>2. ASSUME NEW r \in Results, job'[r] = NoJob, \A x \in Results : x # r => job'[x] = job[x]
      PROVE  JobShapes'
  BY <1>2 DEF Knowing, JobShapes, NoJob
<1>3. ASSUME NEW msg \in queue, _process_record(msg) PROVE JobShapes'
  BY <1>3 DEF _process_record, Knowing, JobShapes, TypeOK, Messages
<1>4. ASSUME NEW r \in Results, validate_type(r) PROVE JobShapes'
  <2>1. quarantine[r.media].content \in {"picture", "junk"}
    BY <1>4 DEF validate_type, Knowing, ScansMatch, Results
  <2>2. QED
    BY <1>4, <2>1 DEF validate_type, Knowing, JobShapes, TypeOK
<1>5. ASSUME NEW r \in Results,
             put_served(r) \/ put_thumbnail(r) \/ _cleanup_quarantine_object(r)
      PROVE  JobShapes'
  BY <1>5 DEF put_served, put_thumbnail, _cleanup_quarantine_object, At, Knowing, JobShapes, TypeOK
<1>6. ASSUME NEW msg \in queue, save(msg) \/ Dies(msg) PROVE JobShapes'
  <2>1. msg.result \in Results
    BY DEF TypeOK, Messages
  <2>2. job' = [job EXCEPT ![msg.result] = NoJob]
    BY <1>6 DEF save, Dies
  <2>3. QED
    BY <1>2, <2>1, <2>2 DEF TypeOK
<1>7. ASSUME Next,
             \A msg \in queue : ~_process_record(msg) /\ ~save(msg) /\ ~Dies(msg),
             \A r \in Results : ~Publishing(r)
      PROVE  UNCHANGED job
  BY <1>7 DEF Next, create_upload, FormExpires, ObjectExpires, PostForm, Scan, Handling, NothingToDo,
              Refused, delete_account_data, Removing, delete_quarantine_objects,
              delete_public_objects, commit_removal, admin_delete_user, RemovalFails,
              IdentityStays, TypeOK, Messages
<1>8. QED
  BY <1>1, <1>3, <1>4, <1>5, <1>6, <1>7 DEF Publishing, vars

LEMMA ScansMatchStep == TypeOK /\ Knowing /\ [Next]_vars => ScansMatch'
<1> SUFFICES ASSUME TypeOK, Knowing, [Next]_vars PROVE ScansMatch'
  OBVIOUS
<1> USE DEF Readable
<1>1. ASSUME NEW ms \in SUBSET Media, DropQuarantined(ms), UNCHANGED <<posted, scans>>
      PROVE  ScansMatch'
  <2>1. \A m \in Media : quarantine'[m] = IF m \in ms THEN NoObject ELSE quarantine[m]
    BY <1>1 DEF DropQuarantined
  <2>2. \A m \in Media : posted[m] \in Nat
    BY MediaAssumption DEF TypeOK
  <2>3. NoObject.upload = 0 /\ NoObject.tag = "none"
    BY DEF NoObject
  <2>4. \A s \in scans : s.result.media \in Media /\ s.result.upload >= 1
    BY MediaAssumption DEF TypeOK, Results, Uploads
  <2>5. QED
    BY <1>1, <2>1, <2>2, <2>3, <2>4 DEF Knowing, ScansMatch
<1>2. ASSUME NEW m \in Media, quarantine' = [quarantine EXCEPT ![m] = NoObject],
             UNCHANGED <<posted, scans>>
      PROVE  ScansMatch'
  <2>1. DropQuarantined({m})
    BY <1>2 DEF DropQuarantined, TypeOK
  <2>2. QED
    BY <1>1, <1>2, <2>1
<1>3. ASSUME NEW m \in Media, NEW content \in Contents, PostForm(m, content) PROVE ScansMatch'
  <2> DEFINE n == posted[m] + 1
  <2>1. posted[m] \in Nat /\ posted'[m] = n /\ \A x \in Media : x # m => posted'[x] = posted[x]
    BY <1>3, MediaAssumption DEF PostForm, TypeOK
  <2>2. /\ quarantine'[m] = [content |-> content, upload |-> n, tag |-> "none"]
        /\ \A x \in Media : x # m => quarantine'[x] = quarantine[x]
    BY <1>3, <2>1 DEF PostForm, TypeOK
  <2>3. scans' = scans \cup {[result |-> ResultOf(m, n), content |-> content]}
    BY <1>3, <2>1 DEF PostForm
  <2>4. ASSUME NEW s \in scans' 
        PROVE  /\ s.result.upload <= posted'[s.result.media]
               /\ quarantine'[s.result.media].upload = s.result.upload
                    => quarantine'[s.result.media].content = s.content
    <3>1. CASE s = [result |-> ResultOf(m, n), content |-> content]
      BY <2>1, <2>2, <3>1 DEF ResultOf
    <3>2. CASE s \in scans
      <4>1. s.result.media \in Media /\ s.result.upload \in Nat
        BY <3>2, MediaAssumption DEF TypeOK, Results, Uploads
      <4>2. s.result.upload <= posted[s.result.media]
        BY <3>2 DEF Knowing, ScansMatch
      <4>3. CASE s.result.media = m
        BY <2>1, <2>2, <4>1, <4>2, <4>3
      <4>4. CASE s.result.media # m
        BY <2>1, <2>2, <3>2, <4>1, <4>4 DEF Knowing, ScansMatch
      <4>5. QED
        BY <4>3, <4>4
    <3>3. QED
      BY <2>3, <2>4, <3>1, <3>2
  <2>5. ASSUME NEW x \in Media
        PROVE  /\ quarantine'[x].upload <= posted'[x]
               /\ Readable(x)' => quarantine'[x].content \in {"picture", "junk"}
    BY <2>1, <2>2 DEF Knowing, ScansMatch
  <2>6. QED
    BY <2>4, <2>5 DEF ScansMatch
<1>4. ASSUME NEW s \in scans, NEW verdict \in {"clean", "other"}, Scan(s, verdict)
      PROVE  ScansMatch'
  <2> DEFINE m == s.result.media
  <2>1. m \in Media /\ s.content \in Contents /\ (verdict = "clean" => s.content # "malware")
    BY <1>4 DEF TypeOK, Results, Scan
  <2>2. \A x \in Media : /\ quarantine'[x].upload = quarantine[x].upload
                         /\ quarantine'[x].content = quarantine[x].content
    BY <1>4, <2>1 DEF Scan, Tagged, TypeOK
  <2>3. \A x \in Media : Readable(x)' => Readable(x) \/ (x = m /\ verdict = "clean"
                                            /\ quarantine[m].upload = s.result.upload)
    BY <1>4, <2>1 DEF Scan, Tagged, TypeOK
  <2>4. \A x \in Media : Readable(x)' => quarantine[x].content \in {"picture", "junk"}
    BY <2>1, <2>3 DEF Knowing, ScansMatch, Contents
  <2>5. scans' \subseteq scans /\ UNCHANGED posted
    BY <1>4 DEF Scan
  <2>6. \A x \in scans : x.result.media \in Media
    BY DEF TypeOK, Results
  <2>7. QED
    BY <2>2, <2>4, <2>5, <2>6 DEF Knowing, ScansMatch
<1>5. ASSUME NEW m \in Media, ObjectExpires(m) PROVE ScansMatch'
  BY <1>2, <1>5 DEF ObjectExpires
<1>6. ASSUME NEW r \in Results, _cleanup_quarantine_object(r) PROVE ScansMatch'
  BY <1>2, <1>6 DEF _cleanup_quarantine_object, Results
<1>7. CASE delete_quarantine_objects
  BY <1>1, <1>7 DEF delete_quarantine_objects, Keyed
<1>8. CASE RemovalFails
  <2>1. UNCHANGED <<posted, scans>>
    BY <1>8 DEF RemovalFails
  <2>2. CASE UNCHANGED quarantine
    BY <2>1, <2>2 DEF Knowing, ScansMatch
  <2>3. CASE \E ms \in SUBSET Keyed : DropQuarantined(ms)
    BY <1>1, <2>1, <2>3 DEF Keyed
  <2>4. QED
    BY <1>8, <2>2, <2>3 DEF RemovalFails
<1>9. ASSUME UNCHANGED <<posted, scans, quarantine>> PROVE ScansMatch'
  BY <1>9 DEF Knowing, ScansMatch
<1>10. ASSUME Next,
              \A m \in Media : ~ObjectExpires(m) /\ \A content \in Contents : ~PostForm(m, content),
              \A s \in scans, verdict \in {"clean", "other"} : ~Scan(s, verdict),
              \A r \in Results : ~_cleanup_quarantine_object(r),
              ~delete_quarantine_objects, ~RemovalFails
       PROVE  UNCHANGED <<posted, scans, quarantine>>
  BY <1>10 DEF Next, create_upload, FormExpires, Handling, NothingToDo, _process_record, Publishing,
               validate_type, put_served, put_thumbnail, save, Dies, Refused, delete_account_data,
               Removing, delete_public_objects, commit_removal, admin_delete_user, IdentityStays,
               TypeOK, Messages
<1>11. QED
  BY <1>3, <1>4, <1>5, <1>6, <1>7, <1>8, <1>9, <1>10 DEF vars

\* How a step changes the public bucket.
LEMMA PublicChanges ==
  ASSUME TypeOK, [Next]_vars
  PROVE  \/ \E r \in Results : put_served(r) \/ put_thumbnail(r)
         \/ delete_public_objects
         \/ RemovalFails
         \/ UNCHANGED public
BY DEF Next, create_upload, FormExpires, ObjectExpires, PostForm, Scan, Handling, NothingToDo,
       _process_record, Publishing, validate_type, _cleanup_quarantine_object, save, Dies, Refused,
       delete_account_data, Removing, delete_quarantine_objects, commit_removal,
       admin_delete_user, IdentityStays, vars, TypeOK, Messages

LEMMA PublishedStep == TypeOK /\ Knowing /\ [Next]_vars => PublishedWasScannedClean'
<1> SUFFICES ASSUME TypeOK, Knowing, [Next]_vars PROVE PublishedWasScannedClean'
  OBVIOUS
<1>1. ASSUME NEW r \in Results, put_served(r) \/ put_thumbnail(r) PROVE PublishedWasScannedClean'
  <2>1. job[r].content = "picture"
    BY <1>1 DEF put_served, put_thumbnail, Knowing, JobShapes
  <2>2. QED
    BY <1>1, <2>1 DEF put_served, put_thumbnail, Put, Knowing, PublishedWasScannedClean
<1>2. ASSUME public' \subseteq public PROVE PublishedWasScannedClean'
  BY <1>2 DEF Knowing, PublishedWasScannedClean
<1>3. delete_public_objects \/ RemovalFails => public' \subseteq public
  BY DEF delete_public_objects, RemovalFails
<1>4. QED
  BY <1>1, <1>2, <1>3, PublicChanges

\* Nothing but a picture scanned clean is ever in the public bucket, however
\* often the object under a quarantine key is replaced, whichever of the scan
\* results for it arrives first, and wherever an invocation dies.
THEOREM PublishedCorrect == Spec => []PublishedWasScannedClean
<1>1. Init => Knowing
  <2> SUFFICES ASSUME Init PROVE Knowing
    OBVIOUS
  <2>1. JobShapes
    BY DEF Init, JobShapes, NoJob
  <2>2. ScansMatch
    BY DEF Init, ScansMatch, Readable, NoObject
  <2>3. QED
    BY <2>1, <2>2 DEF Init, Knowing, PublishedWasScannedClean
<1>2. TypeOK /\ Knowing /\ [Next]_vars => Knowing'
  BY JobShapesStep, ScansMatchStep, PublishedStep DEF Knowing
<1>3. Knowing => PublishedWasScannedClean
  BY DEF Knowing
<1>4. QED
  BY <1>1, <1>2, <1>3, TypeCorrect, PTL DEF Spec

-----------------------------------------------------------------------------
(* A decision is never reversed *)

LEMMA LockingHolds == Spec => []Locking
<1>1. Init => Locking
  BY DEF Init, Locking, RowShapes, NotYetPosted, JobsHoldLocks, Busy, NoJob, RemovalHoldsRows,
         RemovalHoldsUser
<1>2. QED
  BY <1>1, LockingStep, TypeCorrect, PTL DEF Spec

\* How a step changes the rows.
LEMMA RowChanges ==
  ASSUME TypeOK, [Next]_vars
  PROVE  \/ \E m \in Media : create_upload(m)
         \/ \E msg \in queue : save(msg)
         \/ commit_removal
         \/ UNCHANGED row
BY DEF Next, FormExpires, ObjectExpires, PostForm, Scan, Handling, NothingToDo, _process_record,
       Publishing, validate_type, put_served, put_thumbnail, _cleanup_quarantine_object, Dies,
       Refused, delete_account_data, Removing, delete_quarantine_objects, delete_public_objects,
       admin_delete_user, RemovalFails, IdentityStays, vars

\* A step leaves a decided row as it is, or removes it with its account.
LEMMA DecidedStays ==
  ASSUME TypeOK, Locking, [Next]_vars, NEW m \in Media, row[m].status \in Terminal
  PROVE  row'[m] \in {row[m], NoRow}
<1>1. row[m] # NoRow /\ row[m] # NewRow
  BY DEF NoRow, NewRow, Terminal
<1>2. ASSUME NEW n \in Media, create_upload(n) PROVE row'[m] = row[m]
  BY <1>1, <1>2 DEF create_upload, TypeOK
<1>3. ASSUME NEW msg \in queue, save(msg) PROVE row'[m] = row[m]
  <2>1. msg.result \in Results /\ Busy(msg.result)
    BY <1>3 DEF TypeOK, Messages, save, Busy
  <2>2. row[msg.result.media] = NewRow
    BY <2>1 DEF Locking, JobsHoldLocks
  <2>3. QED
    BY <1>1, <1>3, <2>2 DEF save, TypeOK
<1>4. CASE commit_removal
  BY <1>4 DEF commit_removal
<1>5. QED
  BY <1>2, <1>3, <1>4, RowChanges

\* A redelivered, late or second result for the same key never reverses a
\* decision, and neither does a retry: the lock and the cleared key see to it.
THEOREM DecisionFinal == Spec => DecidedOnce
<1>1. TypeOK /\ Locking /\ [Next]_vars =>
        [\A m \in Media : row[m].status \in Terminal => row'[m] \in {row[m], NoRow}]_vars
  BY DecidedStays
<1>2. QED
  BY <1>1, TypeCorrect, LockingHolds, PTL DEF Spec, DecidedOnce

-----------------------------------------------------------------------------
(* Objects and rows agree *)

\* How a step changes what Serving speaks of, when it does not touch objects:
\* no job gains a put it has not made, and no row its variants.
LEMMA QuietKeepsServing ==
  ASSUME TypeOK, Serving, UNCHANGED public, torn \subseteq torn',
         \A r \in Results : HasPut(job[r])' => /\ HasPut(job[r])
                                               /\ job'[r].at = "thumbnail" <=> job[r].at = "thumbnail",
         \A r \in Results : HasPut(job[r]) => HasPut(job[r])' \/ r.media \in torn',
         \A m \in Media : row'[m].variants <=> row[m].variants,
         halfway' = halfway, removal' = "public_gone" <=> removal = "public_gone"
  PROVE  Serving'
<1>1. PutsLast'
  BY DEF Serving, PutsLast, Served
<1>2. VariantsExist'
  BY DEF Serving, VariantsExist, Served
<1>3. PublicIsTracked'
  BY DEF Serving, PublicIsTracked, TypeOK
<1>4. QED
  BY <1>1, <1>2, <1>3 DEF Serving

\* No invocation is at work while a removal holds the account.
LEMMA RemovalWorksAlone ==
  ASSUME Locking, RemovalHoldsUser, NEW r \in Results
  PROVE  ~Busy(r) /\ ~HasPut(job[r])
<1>1. r.media \in Media /\ NewRow # NoRow
  BY DEF Results, NewRow, NoRow
<1>2. ~Busy(r)
  BY <1>1 DEF Locking, JobsHoldLocks, RemovalHoldsRows
<1>3. QED
  BY <1>2 DEF Busy, HasPut

LEMMA PutIsServed ==
  ASSUME NEW r \in Results, NEW variant, Put(r, variant)
  PROVE  Served(r.media, variant)'
<1> DEFINE p == [media |-> r.media, variant |-> variant, content |-> job[r].content]
<1>1. p \in public' /\ p.media = r.media /\ p.variant = variant
  BY DEF Put
<1>2. QED
  BY <1>1 DEF Served

LEMMA PuttingServes ==
  ASSUME TypeOK, Knowing, Serving, Locking, NEW r \in Results, put_served(r) \/ put_thumbnail(r)
  PROVE  Serving'
<1> DEFINE m == r.media
<1>1. m \in Media /\ UNCHANGED <<row, torn, halfway, removal>> /\ public \subseteq public'
  BY DEF put_served, put_thumbnail, Put, Results
<1>2. \A x \in Results : x # r => job'[x] = job[x]
  BY DEF put_served, put_thumbnail, TypeOK
<1>3. HasPut(job[r])'
  <2>1. CASE put_served(r)
    BY <2>1 DEF put_served, At, HasPut, TypeOK
  <2>2. CASE put_thumbnail(r)
    <3>1. job[r].outcome = "processed"
      BY <2>2 DEF put_thumbnail, Knowing, JobShapes
    <3>2. QED
      BY <2>2, <3>1 DEF put_thumbnail, At, HasPut, TypeOK
  <2>3. QED
    BY <2>1, <2>2
<1>4. \A p \in public' : p \in public \/ p.media = m
  BY DEF put_served, put_thumbnail, Put
<1>5. \A n \in Media, v \in Variants : Served(n, v) => Served(n, v)'
  BY <1>1 DEF Served
<1>6. PutsLast'
  <2>1. ASSUME NEW x \in Results, x # r
        PROVE  /\ HasPut(job[x])' => Served(x.media, "served")'
               /\ HasPut(job[x])' /\ job'[x].at # "thumbnail" => Served(x.media, "thumbnail")'
    BY <1>2, <1>5, <2>1 DEF Serving, PutsLast, Results, Variants
  <2>4. Served(m, "served")' /\ (job'[r].at # "thumbnail" => Served(m, "thumbnail")')
    <3>1. CASE put_served(r)
      <4>1. Served(m, "served")'
        BY <3>1, PutIsServed DEF put_served
      <4>2. job'[r].at = "thumbnail"
        BY <3>1 DEF put_served, At, TypeOK
      <4>3. QED
        BY <4>1, <4>2
    <3>2. CASE put_thumbnail(r)
      <4>1. Served(m, "served")
        BY <3>2 DEF put_thumbnail, HasPut, Serving, PutsLast
      <4>2. Served(m, "thumbnail")'
        BY <3>2, PutIsServed DEF put_thumbnail
      <4>3. QED
        BY <4>1, <4>2, <1>1, <1>5 DEF Variants
    <3>3. QED
      BY <3>1, <3>2
  <2>5. QED
    BY <2>1, <2>4 DEF PutsLast
<1>7. VariantsExist'
  BY <1>1, <1>5 DEF Serving, VariantsExist, Variants
<1>8. ~RemovalHoldsUser
  <2>1. Busy(r)
    BY DEF put_served, put_thumbnail, Busy
  <2>2. QED
    BY <2>1, RemovalWorksAlone
<1>9. PublicIsTracked'
  BY <1>1, <1>2, <1>3, <1>4, <1>8 DEF Serving, PublicIsTracked, TypeOK, RemovalHoldsUser
<1>10. QED
  BY <1>6, <1>7, <1>9 DEF Serving

LEMMA SavingServes ==
  ASSUME TypeOK, Serving, Locking, NEW msg \in queue, save(msg)
  PROVE  Serving'
<1> DEFINE r == msg.result
           m == r.media
<1>1. r \in Results /\ m \in Media /\ Busy(r) /\ job[r].at = "save"
  BY DEF TypeOK, Messages, Results, save, Busy
<1>2. UNCHANGED <<public, torn, halfway, removal>>
  BY DEF save
<1>3. ~HasPut(job[r])' /\ \A x \in Results : x # r => job'[x] = job[x] /\ (HasPut(job[x]) => x.media # m)
  BY <1>1 DEF save, NoJob, HasPut, Busy, TypeOK, Locking, JobsHoldLocks
<1>4. \A n \in Media : n # m => row'[n] = row[n]
  BY DEF save, TypeOK
<1>5. row'[m].variants <=> HasPut(job[r])
  <2>1. job[r].outcome \in Terminal
    BY DEF save, allowed_next, Terminal
  <2>2. row'[m] = Decided(job[r].outcome)
    BY <1>1 DEF save, TypeOK
  <2>3. Decided(job[r].outcome).variants <=> job[r].outcome = "processed"
    BY DEF Decided
  <2>4. HasPut(job[r]) <=> job[r].outcome = "processed"
    BY <1>1 DEF HasPut
  <2>5. QED
    BY <2>2, <2>3, <2>4
<1>6. PutsLast'
  BY <1>2, <1>3 DEF Serving, PutsLast, Served
<1>7. VariantsExist'
  BY <1>1, <1>2, <1>4, <1>5 DEF Serving, PutsLast, VariantsExist, Served
<1>8. ~RemovalHoldsUser
  BY <1>1, RemovalWorksAlone
<1>9. ~row[m].variants
  BY <1>1 DEF Locking, JobsHoldLocks, NewRow
<1>10. PublicIsTracked'
  <2>1. removal' # "public_gone"
    BY <1>2, <1>8 DEF RemovalHoldsUser
  <2>2. ASSUME NEW p \in public
        PROVE  \/ p.media \in torn
               \/ row'[p.media].variants
               \/ \E x \in Results : x.media = p.media /\ HasPut(job[x])'
    <3>1. CASE p.media \in torn
      BY <3>1
    <3>2. CASE row[p.media].variants
      BY <1>4, <1>9, <3>2 DEF TypeOK
    <3>3. ASSUME NEW x \in Results, x.media = p.media, HasPut(job[x])
          PROVE  \/ row'[p.media].variants
                 \/ \E y \in Results : y.media = p.media /\ HasPut(job[y])'
      BY <1>3, <1>5, <3>3
    <3>4. QED
      BY <3>1, <3>2, <3>3 DEF Serving, PublicIsTracked
  <2>3. QED
    BY <1>2, <2>1, <2>2 DEF PublicIsTracked
<1>11. QED
  BY <1>6, <1>7, <1>10 DEF Serving

LEMMA DyingServes ==
  ASSUME TypeOK, Serving, NEW msg \in queue, Dies(msg)
  PROVE  Serving'
<1> DEFINE r == msg.result
<1>1. r \in Results /\ r.media \in Media
  BY DEF TypeOK, Messages, Results
<1>2. ~HasPut(job[r])' /\ \A x \in Results : x # r => job'[x] = job[x]
  BY <1>1 DEF Dies, NoJob, HasPut, TypeOK
<1>3. torn \subseteq torn' /\ (HasPut(job[r]) => r.media \in torn')
  BY DEF Dies
<1>4. UNCHANGED <<public, row, halfway, removal>>
  BY DEF Dies
<1>5. QED
  BY <1>2, <1>3, <1>4, QuietKeepsServing DEF HasPut

LEMMA ServingStep == TypeOK /\ Locking /\ Knowing /\ Serving /\ [Next]_vars => Serving'
<1> SUFFICES ASSUME TypeOK, Locking, Knowing, Serving, [Next]_vars PROVE Serving'
  OBVIOUS
<1>1. ASSUME UNCHANGED <<public, torn, halfway, row, removal>>,
             NEW r \in Results, \A x \in Results : x # r => job'[x] = job[x],
             HasPut(job[r])' <=> HasPut(job[r]),
             HasPut(job[r]) => (job'[r].at = "thumbnail" <=> job[r].at = "thumbnail")
      PROVE  Serving'
  BY <1>1, QuietKeepsServing DEF HasPut
<1>2. ASSUME UNCHANGED <<public, torn, halfway, row, job>>,
             removal' = "public_gone" <=> removal = "public_gone"
      PROVE  Serving'
  BY <1>2, QuietKeepsServing DEF HasPut
<1>3. ASSUME NEW m \in Media, create_upload(m) PROVE Serving'
  <2>1. \A n \in Media : row'[n].variants <=> row[n].variants
    BY <1>3 DEF create_upload, TypeOK, NewRow, NoRow
  <2>2. QED
    BY <1>3, <2>1, QuietKeepsServing DEF create_upload, HasPut
<1>4. ASSUME NEW msg \in queue, _process_record(msg) PROVE Serving'
  <2>1. msg.result \in Results
    BY DEF TypeOK, Messages
  <2>2. ~HasPut(job[msg.result]) /\ ~HasPut(job[msg.result])'
    BY <1>4, <2>1 DEF _process_record, Idle, HasPut, TypeOK, Knowing, JobShapes, NoJob
  <2>3. QED
    BY <1>1, <1>4, <2>1, <2>2 DEF _process_record, TypeOK
<1>5. ASSUME NEW r \in Results, validate_type(r) PROVE Serving'
  <2>1. ~HasPut(job[r]) /\ ~HasPut(job[r])'
    BY <1>5 DEF validate_type, HasPut, TypeOK
  <2>2. QED
    BY <1>1, <1>5, <2>1 DEF validate_type, TypeOK
<1>6. ASSUME NEW r \in Results, _cleanup_quarantine_object(r) PROVE Serving'
  <2>1. /\ HasPut(job[r])' <=> HasPut(job[r])
        /\ job[r].at # "thumbnail" /\ job'[r].at # "thumbnail"
    BY <1>6 DEF _cleanup_quarantine_object, At, HasPut, TypeOK
  <2>2. QED
    BY <1>1, <1>6, <2>1 DEF _cleanup_quarantine_object, TypeOK
<1>7. CASE delete_public_objects
  <2>1. \A r \in Results : ~HasPut(job[r])
    BY <1>7, RemovalWorksAlone DEF delete_public_objects, RemovalHoldsUser
  <2>2. \A r \in Results : ~HasPut(job[r])'
    BY <1>7, <2>1 DEF delete_public_objects, HasPut
  <2>3. \A p \in public' : p.media \in torn'
    BY <1>7, <2>1 DEF delete_public_objects, Tracked, Serving, PublicIsTracked
  <2>4. QED
    BY <1>7, <2>2, <2>3
       DEF delete_public_objects, Serving, PutsLast, VariantsExist, PublicIsTracked
<1>8. CASE commit_removal
  <2>1. \A r \in Results : ~HasPut(job[r])
    BY <1>8, RemovalWorksAlone DEF commit_removal, RemovalHoldsUser
  <2>2. \A r \in Results : ~HasPut(job[r])'
    BY <1>8, <2>1 DEF commit_removal, HasPut
  <2>3. \A p \in public' : p.media \in torn'
    BY <1>8 DEF commit_removal, Serving, PublicIsTracked
  <2>4. \A m \in Media : ~row'[m].variants
    BY <1>8 DEF commit_removal, NoRow
  <2>5. QED
    BY <1>8, <2>2, <2>3, <2>4 DEF Serving, PutsLast, VariantsExist, PublicIsTracked
<1>9. CASE RemovalFails
  <2>1. \A r \in Results : ~HasPut(job[r])
    BY <1>9, RemovalWorksAlone DEF RemovalFails
  <2>2. \A r \in Results : ~HasPut(job[r])'
    BY <1>9, <2>1 DEF RemovalFails, HasPut
  <2>3. public' \subseteq public /\ UNCHANGED <<row, torn, job>> /\ halfway' /\ removal' = "idle"
    BY <1>9 DEF RemovalFails
  <2>4. QED
    BY <2>1, <2>2, <2>3 DEF Serving, PutsLast, VariantsExist, PublicIsTracked
<1>10. ASSUME NEW m \in Media, FormExpires(m) \/ ObjectExpires(m) \/ \E c \in Contents : PostForm(m, c)
       PROVE  Serving'
  BY <1>2, <1>10 DEF FormExpires, ObjectExpires, PostForm
<1>11. ASSUME NEW s \in scans, NEW verdict \in {"clean", "other"}, Scan(s, verdict) PROVE Serving'
  BY <1>2, <1>11 DEF Scan
<1>12. ASSUME NEW msg \in queue, NothingToDo(msg) PROVE Serving'
  BY <1>2, <1>12 DEF NothingToDo
<1>13. CASE delete_account_data
  BY <1>2, <1>13 DEF delete_account_data
<1>14. CASE delete_quarantine_objects
  BY <1>2, <1>14 DEF delete_quarantine_objects
<1>15. CASE admin_delete_user \/ IdentityStays
  BY <1>2, <1>15 DEF admin_delete_user, IdentityStays
<1>16. CASE UNCHANGED vars
  BY <1>2, <1>16 DEF vars
<1>17. \A msg \in queue : msg.result \in Results
  BY DEF TypeOK, Messages
<1>18. QED
  BY <1>3, <1>4, <1>5, <1>6, <1>7, <1>8, <1>9, <1>10, <1>11, <1>12, <1>13, <1>14, <1>15, <1>16,
     <1>17, PuttingServes, SavingServes, DyingServes
     DEF Next, Handling, Publishing, Refused, Removing

LEMMA ServingHolds == Spec => [](TypeOK /\ Locking /\ Knowing /\ Serving)
<1>1. Init => Knowing
  BY DEF Init, Knowing, JobShapes, NoJob, ScansMatch, Readable, NoObject, PublishedWasScannedClean
<1>2. Init => Serving
  BY DEF Init, Serving, PutsLast, VariantsExist, PublicIsTracked, HasPut, NoJob, NoRow
<1>3. TypeOK /\ Knowing /\ [Next]_vars => Knowing'
  BY JobShapesStep, ScansMatchStep, PublishedStep DEF Knowing
<1>4. QED
  BY <1>1, <1>2, <1>3, ServingStep, TypeCorrect, LockingHolds, PTL DEF Spec

\* A decided row points at no quarantine object, and the variants a published
\* row names exist, wherever invocations and removals stop: the commit is last.
THEOREM DecidedTidy == Spec => []DecidedIsTidy
<1>1. TypeOK /\ Locking /\ Serving => DecidedIsTidy
  <2> SUFFICES ASSUME TypeOK, Locking, Serving, NEW m \in Media, row[m].status \in Terminal
               PROVE  /\ ~row[m].key
                      /\ row[m].variants <=> row[m].status = "processed"
                      /\ row[m].variants /\ ~halfway /\ removal = "idle" =>
                           \A v \in Variants : Served(m, v)
    BY DEF DecidedIsTidy, Served
  <2>1. row[m] \in {Decided("processed"), Decided("rejected")}
    BY DEF Locking, RowShapes, NoRow, NewRow, Terminal
  <2>2. ~row[m].key /\ (row[m].variants <=> row[m].status = "processed")
    <3>1. /\ ~Decided("processed").key /\ ~Decided("rejected").key
          /\ Decided("processed").variants /\ ~Decided("rejected").variants
          /\ Decided("processed").status = "processed" /\ Decided("rejected").status = "rejected"
      BY DEF Decided
    <3>2. QED
      BY <2>1, <3>1
  <2>3. QED
    BY <2>2 DEF Serving, VariantsExist, Variants
<1>2. QED
  BY <1>1, ServingHolds, PTL

\* When the account is gone no row is left, and nothing of it is served except
\* what a publication left behind that died before any row named it.
THEOREM RemovalComplete == Spec => []RemovalLeavesNothingServed
<1>1. TypeOK /\ Locking /\ Serving => RemovalLeavesNothingServed
  <2> SUFFICES ASSUME TypeOK, Locking, Serving, ~account.local
               PROVE  /\ \A m \in Media : row[m] = NoRow
                      /\ \A p \in public : p.media \in torn
    BY DEF RemovalLeavesNothingServed
  <2>1. \A m \in Media : row[m] = NoRow
    BY DEF Locking, RemovalHoldsRows
  <2>2. \A r \in Results : ~HasPut(job[r])
    BY <2>1 DEF Locking, JobsHoldLocks, Busy, HasPut, Results, NoRow, NewRow
  <2>3. \A p \in public : p.media \in Media
    BY DEF TypeOK
  <2>4. ~NoRow.variants
    BY DEF NoRow
  <2>5. QED
    BY <2>1, <2>2, <2>3, <2>4 DEF Serving, PublicIsTracked
<1>2. QED
  BY <1>1, ServingHolds, PTL

-----------------------------------------------------------------------------
(* No posted upload is forgotten *)

InHand(m) == \/ \E x \in scans \cup queue : x.result.media = m
             \/ \E r \in dlq : r.media = m

\* Settling a message touches no other upload; returning it loses nothing.
LEMMA SettlingKeepsOthers ==
  ASSUME TypeOK, NEW msg \in queue, NEW m \in Media, InHand(m), UNCHANGED scans,
         \/ Return(msg)
         \/ Acknowledge(msg) /\ msg.result.media # m
  PROVE  InHand(m)'
<1>1. Received(msg).result = msg.result
  BY DEF Received
<1>2. CASE Return(msg)
  BY <1>1, <1>2 DEF Return, InHand
<1>3. CASE Acknowledge(msg) /\ msg.result.media # m
  BY <1>1, <1>3 DEF Acknowledge, InHand
<1>4. QED
  BY <1>2, <1>3

\* An upload that was posted and is not decided is being scanned, queued for
\* the Lambda, or in the dead-letter queue whose alarm calls a person.
THEOREM SomeoneAlwaysDecides == Spec => []SomeoneDecides
<1>1. Init => SomeoneDecides
  BY DEF Init, SomeoneDecides, NoRow
<1>2. TypeOK /\ Locking /\ SomeoneDecides /\ [Next]_vars => SomeoneDecides'
  <2> SUFFICES ASSUME TypeOK, Locking, SomeoneDecides, [Next]_vars, NEW m \in Media,
                      row'[m].status = "uploaded", posted'[m] > 0
               PROVE  InHand(m)'
    BY DEF SomeoneDecides, InHand
  <2>1. ASSUME row[m].status = "uploaded", posted[m] > 0 PROVE InHand(m)
    BY <2>1 DEF SomeoneDecides, InHand
  <2>2. NoRow.status # "uploaded" /\ \A o \in Terminal : Decided(o).status # "uploaded"
    BY DEF NoRow, Decided, Terminal
  <2>3. ASSUME NEW n \in Media, create_upload(n) PROVE InHand(m)'
    <3>1. m # n
      BY <2>3 DEF create_upload, Locking, NotYetPosted
    <3>2. row[m].status = "uploaded" /\ posted[m] > 0
      BY <2>3, <3>1 DEF create_upload, TypeOK
    <3>3. QED
      BY <2>1, <2>3, <3>2 DEF create_upload, InHand
  <2>4. ASSUME NEW n \in Media, NEW content \in Contents, PostForm(n, content) PROVE InHand(m)'
    <3>1. CASE m = n
      <4> DEFINE s == [result |-> ResultOf(n, posted'[n]), content |-> content]
      <4>1. s \in scans' /\ s.result.media = m
        BY <2>4, <3>1 DEF PostForm, ResultOf
      <4>2. QED
        BY <4>1 DEF InHand
    <3>2. CASE m # n
      <4>1. row[m].status = "uploaded" /\ posted[m] > 0
        BY <2>4, <3>2 DEF PostForm, TypeOK
      <4>2. QED
        BY <2>1, <2>4, <4>1 DEF PostForm, InHand
    <3>3. QED
      BY <3>1, <3>2
  <2>5. ASSUME NEW s \in scans, NEW verdict \in {"clean", "other"}, Scan(s, verdict) PROVE InHand(m)'
    <3> DEFINE q == [result |-> s.result, verdict |-> verdict, received |-> 0]
    <3>1. InHand(m)
      BY <2>1, <2>5 DEF Scan
    <3>2. q \in queue' /\ q.result = s.result
      BY <2>5 DEF Scan
    <3>3. scans' = scans \ {s} /\ queue \subseteq queue' /\ UNCHANGED dlq
      BY <2>5 DEF Scan
    <3>4. QED
      BY <3>1, <3>2, <3>3 DEF InHand
  <2>6. ASSUME NEW msg \in queue, NothingToDo(msg) PROVE InHand(m)'
    <3>1. row[m].status = "uploaded" /\ InHand(m) /\ UNCHANGED scans /\ Acknowledge(msg)
      BY <2>1, <2>6 DEF NothingToDo
    <3>2. row[m] = NewRow
      BY <2>2, <3>1 DEF Locking, RowShapes, Terminal
    <3>3. msg.result.media # m
      BY <2>6, <3>2 DEF NothingToDo, NewRow
    <3>4. QED
      BY <3>1, <3>3, SettlingKeepsOthers
  <2>7. ASSUME NEW msg \in queue, save(msg) PROVE InHand(m)'
    <3> DEFINE n == msg.result.media
    <3>1. n \in Media /\ job[msg.result].outcome \in Terminal
      BY <2>7 DEF save, allowed_next, Terminal, TypeOK, Messages, Results
    <3>2. row' = [row EXCEPT ![n] = Decided(job[msg.result].outcome)]
          /\ UNCHANGED <<scans, posted>> /\ Acknowledge(msg)
      BY <2>7 DEF save
    <3>3. m # n
      BY <2>2, <3>1, <3>2 DEF TypeOK
    <3>4. InHand(m)
      BY <2>1, <3>2, <3>3 DEF TypeOK
    <3>5. QED
      BY <3>2, <3>3, <3>4, SettlingKeepsOthers
  <2>8. ASSUME NEW msg \in queue, Dies(msg) PROVE InHand(m)'
    <3>1. UNCHANGED <<row, posted, scans>> /\ Return(msg)
      BY <2>8 DEF Dies
    <3>2. QED
      BY <2>1, <3>1, SettlingKeepsOthers
  <2>9. CASE commit_removal
    BY <2>2, <2>9 DEF commit_removal
  <2>10. ASSUME UNCHANGED <<row, posted, scans, queue, dlq>> PROVE InHand(m)'
    BY <2>1, <2>10 DEF InHand
  <2>11. ASSUME NEW r \in Results, Publishing(r) PROVE UNCHANGED <<row, posted, scans, queue, dlq>>
    BY <2>11 DEF Publishing, validate_type, put_served, put_thumbnail, _cleanup_quarantine_object
  <2>12. ASSUME \/ \E n \in Media : FormExpires(n) \/ ObjectExpires(n)
                \/ \E msg \in queue : _process_record(msg)
                \/ delete_account_data \/ delete_quarantine_objects \/ delete_public_objects
                \/ admin_delete_user \/ RemovalFails \/ IdentityStays \/ UNCHANGED vars
         PROVE  UNCHANGED <<row, posted, scans, queue, dlq>>
    BY <2>12 DEF FormExpires, ObjectExpires, _process_record, delete_account_data,
                 delete_quarantine_objects, delete_public_objects, admin_delete_user, RemovalFails,
                 IdentityStays, vars
  <2>13. \A msg \in queue : msg.result \in Results
    BY DEF TypeOK, Messages
  <2>14. QED
    BY <2>3, <2>4, <2>5, <2>6, <2>7, <2>8, <2>9, <2>10, <2>11, <2>12, <2>13
       DEF Next, Handling, Refused, Removing
<1>3. QED
  BY <1>1, <1>2, TypeCorrect, LockingHolds, PTL DEF Spec

\* Both together: an upload is decided and tidy, or in somebody's hands.
THEOREM UploadsAccountedFor == Spec => []UploadsAreAccountedFor
<1>1. DecidedIsTidy /\ SomeoneDecides => UploadsAreAccountedFor
  BY DEF UploadsAreAccountedFor
<1>2. QED
  BY <1>1, DecidedTidy, SomeoneAlwaysDecides, PTL
=============================================================================
