----------------------------- MODULE PostsProofs ----------------------------
(***************************************************************************)
(* Proofs about Posts, for every set of users, uploads and sessions and    *)
(* every bound.                                                            *)
(***************************************************************************)
EXTENDS Posts, TLAPS

(* What a step does, whichever operation takes it *)

\* Session s begins a request r.
Begins(s, r) ==
  /\ r \in Requests /\ r.op \in Ops /\ r.at = "checked" /\ r.ids = {}
  /\ r.user \in accounts /\ r.stamp = asked + 1
  /\ request' = [request EXCEPT ![s] = r]
  /\ asked < MaxRequests /\ asked' = asked + 1
  /\ UNCHANGED <<posts, inserted, attached, marks, accounts, removal>>

\* Session s inserts row with media, in the commit that ends its request.
Inserts(s, row, media) ==
  /\ row.author \in accounts /\ (row.ref = 0 \/ Exists(row.ref))
  /\ inserted < MaxPosts /\ inserted' = inserted + 1
  /\ posts' = [posts EXCEPT ![inserted + 1] = row]
  /\ attached' = [m \in Media |-> IF m \in media THEN inserted + 1 ELSE attached[m]]
  /\ End(s)
  /\ UNCHANGED <<marks, accounts, asked, removal>>

\* A post published, and the one-click repost.
Publishes(s) ==
  LET r == request[s] IN
  /\ Ready(s, "publish", "checked")
  /\ Inserts(s, NewRow(r.user, r.kind, r.post, r.text, FALSE), r.media)
Clicks(s) ==
  LET r == request[s] IN
  /\ Ready(s, "click", "locked")
  /\ Inserts(s, NewRow(r.user, "repost", r.post, FALSE, TRUE), {})

\* The rows of an undone repost go, with their marks.
Undoes(s) ==
  LET ids == request[s].ids IN
  /\ Ready(s, "undo", "locked")
  /\ posts' = [p \in Ids |-> IF p \in ids THEN NoRow ELSE posts[p]]
  /\ marks' = {k \in marks : k.post \notin ids}
  /\ End(s)
  /\ UNCHANGED <<inserted, attached, accounts, asked, removal>>

\* A like or a report is added, a like taken back, a post marked deleted.
Adds(s, k) ==
  /\ k.user \in accounts /\ Exists(k.post)
  /\ marks' = marks \cup {k} /\ k \in Marks
  /\ posts' = [posts EXCEPT ![k.post].reported = @ \/ k.what = "report"]
  /\ End(s)
  /\ UNCHANGED <<inserted, attached, accounts, asked, removal>>
Unlikes(s) ==
  /\ marks' \subseteq marks
  /\ End(s)
  /\ UNCHANGED <<posts, inserted, attached, accounts, asked, removal>>
Deletes(s) ==
  /\ Ready(s, "delete", "checked") /\ Exists(request[s].post)
  /\ posts' = [posts EXCEPT ![request[s].post].deleted = request[s].stamp]
  /\ End(s)
  /\ UNCHANGED <<inserted, attached, marks, accounts, asked, removal>>

\* A removal is asked for, locks the account, or is refused: nothing is changed.
Waits(u, at) ==
  /\ removal[u].at # "done"
  /\ Removal(u, RemovalAt(at))
  /\ asked' \in 0..MaxRequests
  /\ UNCHANGED <<posts, inserted, attached, marks, accounts, request>>

\* A removal commits.
Commits(u) ==
  LET dropped == Own(u) \ removal[u].needed
      left == marks \ removal[u].swept IN
  /\ removal[u].at = "swept"
  /\ \A k \in left : k.user # u
  /\ posts' = [p \in Ids |-> IF p \in dropped THEN NoRow
                             ELSE IF p \in Own(u) THEN Anonymised(posts[p]) ELSE posts[p]]
  /\ attached' = [m \in Media |-> IF attached[m] \in Own(u) THEN Deleted ELSE attached[m]]
  /\ marks' = left
  /\ accounts' = accounts \ {u}
  /\ Removal(u, RemovalAt("done"))
  /\ UNCHANGED <<inserted, request, asked>>

SessionStep(s) ==
  \/ \E r \in Requests : Begins(s, r)
  \/ Fail(s) \/ lock_repost(s) \/ lock_undo(s)
  \/ Publishes(s) \/ Clicks(s) \/ Undoes(s)
  \/ (\E k \in Marks : Adds(s, k)) \/ Unlikes(s) \/ Deletes(s)

RemovalStep(u) ==
  (\E at \in {"asked", "locked"} : Waits(u, at)) \/ sweep(u) \/ Commits(u)

-----------------------------------------------------------------------------
(* Every step is one of these *)

LEMMA BeginCases ==
  ASSUME TypeOK, NEW s \in Sessions, NEW op \in Ops, NEW u \in Users,
         NEW kind \in {"none", "post", "reply", "repost"}, NEW p \in 0..MaxPosts,
         NEW text \in BOOLEAN, NEW media \in SUBSET Media,
         Begin(s, op, u, kind, p, text, media)
  PROVE  SessionStep(s)
<1> DEFINE b == [op |-> op, user |-> u, post |-> p, kind |-> kind, text |-> text,
                 media |-> media, ids |-> {}, at |-> "checked", stamp |-> asked + 1]
<1>1. asked + 1 \in 0..MaxRequests
  BY PostsAssumption DEF Begin, TypeOK
<1>2. b \in Requests
  BY <1>1 DEF Requests
<1>3. Begins(s, b)
  BY <1>2 DEF Begins, Begin
<1>4. QED
  BY <1>2, <1>3 DEF SessionStep

LEMMA RequestCases ==
  ASSUME TypeOK, NEW s \in Sessions,
         \/ create_post(s) \/ repost_post(s) \/ unrepost_post(s)
         \/ like_post(s) \/ report_post(s) \/ unlike_post(s) \/ delete_post(s)
  PROVE  SessionStep(s)
<1> USE DEF Rowed, Ids
<1>1. CASE create_post(s)
  <2>1. PICK u \in Users, kind \in {"post", "reply", "repost"}, ref \in 0..MaxPosts,
             text \in BOOLEAN, media \in SUBSET Media :
          Begin(s, "publish", u, kind, ref, text, media)
    BY <1>1 DEF create_post
  <2>2. kind \in {"none", "post", "reply", "repost"} /\ "publish" \in Ops
    BY <2>1 DEF Begin
  <2>3. QED
    BY <2>1, <2>2, BeginCases
<1>2. ASSUME NEW op \in Ops, NEW u \in Users, NEW p \in Ids, BeginOn(s, op, u, p)
      PROVE  SessionStep(s)
  <2>1. p \in 0..MaxPosts /\ FALSE \in BOOLEAN /\ {} \in SUBSET Media
        /\ "none" \in {"none", "post", "reply", "repost"}
    BY PostsAssumption
  <2>2. Begin(s, op, u, "none", p, FALSE, {})
    BY <1>2 DEF BeginOn
  <2>3. QED
    BY <2>1, <2>2, BeginCases
<1>3. CASE repost_post(s)
  <2>1. PICK u \in Users, p \in Rowed : Undeleted(repost_target[p])
             /\ BeginOn(s, "click", u, repost_target[p])
    BY <1>3 DEF repost_post
  <2>2. repost_target[p] \in Ids /\ "click" \in Ops
    BY <2>1 DEF Undeleted, Exists, BeginOn, Begin
  <2>3. QED
    BY <1>2, <2>1, <2>2
<1>4. CASE unrepost_post(s)
  BY <1>2, <1>4 DEF unrepost_post, BeginOn, Begin
<1>5. ASSUME NEW op \in {"like", "report", "unlike"}, NEW what, mark_checked(s, op, what)
      PROVE  SessionStep(s)
  <2>1. PICK u \in Users, p \in Ids : op \in Ops /\ BeginOn(s, op, u, p)
    BY <1>5 DEF mark_checked, BeginOn, Begin
  <2>2. QED
    BY <1>2, <2>1
<1>6. CASE delete_post(s)
  BY <1>2, <1>6 DEF delete_post, Own, BeginOn, Begin
<1>7. QED
  BY <1>1, <1>3, <1>4, <1>5, <1>6 DEF like_post, report_post, unlike_post

LEMMA InsertCases ==
  ASSUME NEW s, NEW row, NEW media, Insert(s, row, media)
  PROVE  Inserts(s, row, media) \/ Fail(s)
BY DEF Insert, Inserts, UserKey

LEMMA AddCases ==
  ASSUME TypeOK, NEW s \in Sessions, NEW op, NEW what \in {"like", "report"}, Add(s, op, what)
  PROVE  SessionStep(s)
<1> DEFINE k == Mark(what, request[s].user, request[s].post)
<1>1. CASE Fail(s)
  BY <1>1 DEF SessionStep
<1>2. CASE ~Fail(s)
  <2>1. /\ request[s].user \in accounts /\ Exists(request[s].post)
        /\ marks' = marks \cup {k}
        /\ posts' = [posts EXCEPT ![request[s].post].reported = @ \/ what = "report"]
        /\ End(s)
        /\ UNCHANGED <<inserted, attached, accounts, asked, removal>>
    BY <1>2 DEF Add, UserKey
  <2>2. k.what = what /\ k.user = request[s].user /\ k.post = request[s].post
    BY DEF Mark
  <2>3. k \in Marks
    BY <2>1 DEF Marks, Mark, Exists, TypeOK
  <2> HIDE DEF k
  <2>4. Adds(s, k)
    BY <2>1, <2>2, <2>3 DEF Adds
  <2>5. QED
    BY <2>3, <2>4 DEF SessionStep
<1>3. QED
  BY <1>1, <1>2

LEMMA EndingCases ==
  ASSUME TypeOK, NEW s \in Sessions, Ending(s)
  PROVE  SessionStep(s)
<1> USE DEF SessionStep
<1>1. CASE publish(s)
  BY <1>1, InsertCases DEF publish, Publishes
<1>2. CASE publish_repost(s)
  BY <1>2, InsertCases DEF publish_repost, Clicks
<1>3. CASE delete_reposts(s)
  BY <1>3 DEF delete_reposts, Undoes
<1>4. CASE commit_like(s) \/ commit_report(s)
  BY <1>4, AddCases DEF commit_like, commit_report
<1>5. CASE commit_unlike(s)
  BY <1>5 DEF commit_unlike, Unlikes
<1>6. CASE commit_delete(s)
  BY <1>6 DEF commit_delete, Deletes
<1>7. CASE refused(s) \/ lock_repost(s) \/ lock_undo(s)
  BY <1>7 DEF refused
<1>8. QED
  BY <1>1, <1>2, <1>3, <1>4, <1>5, <1>6, <1>7 DEF Ending

LEMMA RemovalCases ==
  ASSUME TypeOK, NEW u \in Users, ask_removal(u) \/ Removing(u)
  PROVE  RemovalStep(u)
<1>1. asked \in 0..MaxRequests /\ (asked < MaxRequests => asked + 1 \in 0..MaxRequests)
  BY PostsAssumption DEF TypeOK
<1>2. CASE ask_removal(u)
  <2>1. Waits(u, "asked")
    BY <1>1, <1>2 DEF ask_removal, Waits
  <2>2. QED
    BY <2>1 DEF RemovalStep
<1>3. CASE lock_account(u)
  <2>1. Waits(u, "locked")
    BY <1>1, <1>3 DEF lock_account, Waits
  <2>2. QED
    BY <2>1 DEF RemovalStep
<1>4. CASE commit_removal(u)
  <2>1. CASE Removal(u, RemovalAt("asked")) /\ UNCHANGED <<posts, attached, marks, accounts>>
    <3>1. Waits(u, "asked")
      BY <1>1, <1>4, <2>1 DEF commit_removal, Waits
    <3>2. QED
      BY <3>1 DEF RemovalStep
  <2>2. CASE ~(Removal(u, RemovalAt("asked")) /\ UNCHANGED <<posts, attached, marks, accounts>>)
    BY <1>4, <2>2 DEF commit_removal, RemovalStep, Commits
  <2>3. QED
    BY <2>1, <2>2
<1>5. QED
  BY <1>2, <1>3, <1>4 DEF Removing, RemovalStep

LEMMA StepCases ==
  ASSUME TypeOK, [Next]_vars
  PROVE  \/ \E s \in Sessions : SessionStep(s)
         \/ \E u \in Users : RemovalStep(u)
         \/ UNCHANGED vars
BY RequestCases, EndingCases, RemovalCases DEF Next

-----------------------------------------------------------------------------
(* Type correctness *)

LEMMA EndTyped ==
  ASSUME request \in [Sessions -> Requests], NEW s \in Sessions, End(s)
  PROVE  request' \in [Sessions -> Requests]
<1>1. NoRequest \in Requests
  BY PostsAssumption DEF NoRequest, Requests
<1>2. QED
  BY <1>1 DEF End

LEMMA RowTyped ==
  ASSUME TypeOK, NEW u \in accounts, NEW kind \in {"none", "post", "reply", "repost"},
         NEW ref \in 0..MaxPosts, NEW text \in BOOLEAN, NEW clicked \in BOOLEAN
  PROVE  NewRow(u, kind, ref, text, clicked) \in Rows
BY PostsAssumption DEF NewRow, Rows, TypeOK

LEMMA InsertTyped ==
  ASSUME TypeOK, NEW s \in Sessions, NEW row \in Rows, NEW media, Inserts(s, row, media)
  PROVE  TypeOK'
<1>1. request' \in [Sessions -> Requests]
  BY EndTyped DEF Inserts, TypeOK
<1>2. inserted + 1 \in Ids /\ inserted' \in 0..MaxPosts /\ inserted + 1 \in 0..Deleted
  BY PostsAssumption DEF Inserts, TypeOK, Ids, Deleted
<1>3. posts' \in [Ids -> Rows]
  BY <1>2 DEF Inserts, TypeOK
<1>4. attached' \in [Media -> 0..Deleted]
  BY <1>2 DEF Inserts, TypeOK
<1>5. QED
  BY <1>1, <1>2, <1>3, <1>4 DEF Inserts, TypeOK

LEMMA SessionTyped ==
  ASSUME TypeOK, NEW s \in Sessions, SessionStep(s)
  PROVE  TypeOK'
<1> USE DEF TypeOK
<1>1. NoRow \in Rows
  BY PostsAssumption DEF NoRow, Rows
<1>2. request[s] \in Requests
  OBVIOUS
<1>3. ASSUME NEW r \in Requests, Begins(s, r) PROVE TypeOK'
  BY <1>3, PostsAssumption DEF Begins
<1>4. CASE Fail(s)
  BY <1>4, EndTyped DEF Fail
<1>5. ASSUME NEW ids \in SUBSET Ids, Lock(s, ids) PROVE TypeOK'
  <2>1. [op |-> request[s].op, user |-> request[s].user, post |-> request[s].post,
         kind |-> request[s].kind, text |-> request[s].text, media |-> request[s].media,
         ids |-> ids, at |-> "locked", stamp |-> request[s].stamp] \in Requests
    BY <1>2 DEF Requests
  <2>2. QED
    BY <1>5, <2>1 DEF Lock
<1>6. CASE lock_repost(s)
  BY <1>4, <1>5, <1>6 DEF lock_repost
<1>7. CASE lock_undo(s)
  <2>1. plain_reposts_by(request[s].user, request[s].post) \in SUBSET Ids
    BY DEF plain_reposts_by, Rowed
  <2>2. QED
    BY <1>4, <1>5, <1>7, <2>1 DEF lock_undo
<1>8. CASE Publishes(s)
  <2>1. NewRow(request[s].user, request[s].kind, request[s].post, request[s].text, FALSE) \in Rows
    BY <1>2, <1>8, RowTyped DEF Publishes, Inserts, NewRow, Requests
  <2>2. QED
    BY <1>8, <2>1, InsertTyped DEF Publishes
<1>9. CASE Clicks(s)
  <2>1. NewRow(request[s].user, "repost", request[s].post, FALSE, TRUE) \in Rows
    BY <1>2, <1>9, RowTyped DEF Clicks, Inserts, NewRow, Requests
  <2>2. QED
    BY <1>9, <2>1, InsertTyped DEF Clicks
<1>10. CASE Undoes(s)
  BY <1>1, <1>10, EndTyped DEF Undoes
<1>11. ASSUME NEW k \in Marks, Adds(s, k) PROVE TypeOK'
  <2>1. k.post \in Ids
    BY DEF Marks
  <2>2. posts[k.post] \in Rows /\ (posts[k.post].reported \/ k.what = "report") \in BOOLEAN
    BY <2>1 DEF Rows
  <2>3. [posts[k.post] EXCEPT !.reported = @ \/ k.what = "report"] \in Rows
    BY <2>2 DEF Rows
  <2>4. posts' \in [Ids -> Rows]
    BY <1>11, <2>1, <2>3 DEF Adds
  <2>5. QED
    BY <1>11, <2>4, EndTyped DEF Adds
<1>12. CASE Unlikes(s)
  BY <1>12, EndTyped DEF Unlikes
<1>13. CASE Deletes(s)
  <2>1. request[s].post \in Ids /\ request[s].stamp \in 0..(MaxRequests + 1)
    BY <1>2, <1>13, PostsAssumption DEF Deletes, Exists, Requests
  <2>2. [posts[request[s].post] EXCEPT !.deleted = request[s].stamp] \in Rows
    BY <2>1 DEF Rows
  <2>3. posts' \in [Ids -> Rows]
    BY <1>13, <2>1, <2>2 DEF Deletes
  <2>4. QED
    BY <1>13, <2>3, EndTyped DEF Deletes
<1>14. QED
  BY <1>3, <1>4, <1>6, <1>7, <1>8, <1>9, <1>10, <1>11, <1>12, <1>13 DEF SessionStep

LEMMA RemovalTyped ==
  ASSUME TypeOK, NEW u \in Users, RemovalStep(u)
  PROVE  TypeOK'
<1> USE DEF TypeOK
<1>1. ASSUME NEW at \in {"asked", "locked", "done"} PROVE RemovalAt(at) \in Removals
  BY PostsAssumption DEF RemovalAt, Removals
<1>2. ASSUME NEW at \in {"asked", "locked"}, Waits(u, at) PROVE TypeOK'
  BY <1>1, <1>2 DEF Waits, Removal
<1>3. CASE sweep(u)
  <2>1. retained(u) \subseteq Ids /\ Swept(u) \subseteq Marks
    BY DEF retained, Swept, Own, Rowed
  <2>2. [at |-> "swept", needed |-> retained(u), upto |-> inserted, swept |-> Swept(u)] \in Removals
    BY <2>1 DEF Removals
  <2>3. QED
    BY <1>3, <2>2 DEF sweep, Removal
<1>4. CASE Commits(u)
  <2>1. ASSUME NEW row \in Rows PROVE Anonymised(row) \in Rows
    BY PostsAssumption DEF Anonymised, Rows
  <2>2. NoRow \in Rows
    BY PostsAssumption DEF NoRow, Rows
  <2>3. posts' \in [Ids -> Rows]
    BY <1>4, <2>1, <2>2 DEF Commits
  <2>4. Deleted \in 0..Deleted
    BY PostsAssumption DEF Deleted
  <2>5. attached' \in [Media -> 0..Deleted]
    BY <1>4, <2>4 DEF Commits
  <2>6. QED
    BY <1>1, <1>4, <2>3, <2>5 DEF Commits, Removal
<1>5. QED
  BY <1>2, <1>3, <1>4 DEF RemovalStep

\* Every reachable state of the tables, the requests and the removals is well
\* formed: no id is given out twice, no request or row refers to what is no id.
THEOREM TypeCorrect == Spec => []TypeOK
<1>1. Init => TypeOK
  BY PostsAssumption DEF Init, TypeOK, NoRow, Rows, NoRequest, Requests, NoRemoval, RemovalAt,
                         Removals, Ids, Deleted
<1>2. TypeOK /\ [Next]_vars => TypeOK'
  <2>1. ASSUME TypeOK, UNCHANGED vars PROVE TypeOK'
    BY <2>1 DEF TypeOK, vars
  <2>2. QED
    BY <2>1, StepCases, SessionTyped, RemovalTyped
<1>3. QED
  BY <1>1, <1>2, PTL DEF Spec

-----------------------------------------------------------------------------
(* The tables *)

\* Ids are given out in order, rows and uploads refer to ids given out, and a
\* request knows its user and its moment.
Ordered ==
  /\ \A p \in Ids : /\ posts[p] # NoRow => p <= inserted
                    /\ posts[p].ref <= inserted
  /\ \A m \in Media : attached[m] = Deleted \/ attached[m] <= inserted
  /\ \A s \in Sessions : request[s].at # "none" =>
       request[s].user \in Users /\ request[s].stamp > 0
  /\ \A s \in Sessions : \A p \in request[s].ids : p <= inserted
  /\ \A u \in Users : u \in accounts <=> removal[u].at # "done"

\* No row is made, and none changes what it is; what it says, who wrote it and
\* what is attached to it are only ever taken away.
Stays ==
  /\ \A p \in Ids : posts'[p] # NoRow =>
       /\ posts[p] # NoRow
       /\ posts'[p].kind = posts[p].kind /\ posts'[p].ref = posts[p].ref
       /\ posts'[p].clicked = posts[p].clicked
       /\ posts'[p].text => posts[p].text
  /\ \A p \in Ids : posts'[p].author \in {posts[p].author, "nobody"}
  /\ \A m \in Media : attached'[m] \in {attached[m], Deleted}
  /\ inserted' = inserted

LEMMA SessionStays ==
  ASSUME TypeOK, NEW s \in Sessions, SessionStep(s), ~Publishes(s), ~Clicks(s)
  PROVE  Stays
<1> USE DEF TypeOK
<1>1. ASSUME UNCHANGED <<posts, attached, inserted>> PROVE Stays
  BY <1>1 DEF Stays
<1>2. CASE Undoes(s)
  <2>1. NoRow.author = "nobody"
    BY DEF NoRow
  <2>2. QED
    BY <1>2, <2>1 DEF Undoes, Stays
<1>3. ASSUME NEW k \in Marks, Adds(s, k) PROVE Stays
  <2>1. k.post \in Ids /\ posts[k.post] # NoRow /\ posts[k.post] \in Rows
    BY <1>3 DEF Adds, Exists
  <2>2. posts' = [posts EXCEPT ![k.post] = [posts[k.post] EXCEPT !.reported = @ \/ k.what = "report"]]
    BY <1>3 DEF Adds
  <2>3. QED
    BY <1>3, <2>1, <2>2 DEF Adds, Stays, Rows
<1>4. CASE Deletes(s)
  <2> DEFINE p == request[s].post
  <2>1. p \in Ids /\ posts[p] # NoRow /\ posts[p] \in Rows
    BY <1>4 DEF Deletes, Exists
  <2>2. posts' = [posts EXCEPT ![p] = [posts[p] EXCEPT !.deleted = request[s].stamp]]
    BY <1>4 DEF Deletes
  <2> HIDE DEF p
  <2>3. QED
    BY <1>4, <2>1, <2>2 DEF Deletes, Stays, Rows
<1>5. CASE \/ \E r \in Requests : Begins(s, r)
           \/ Fail(s) \/ lock_repost(s) \/ lock_undo(s) \/ Unlikes(s)
  BY <1>1, <1>5 DEF Begins, Fail, lock_repost, lock_undo, Lock, Unlikes
<1>6. QED
  BY <1>2, <1>3, <1>4, <1>5 DEF SessionStep

LEMMA RemovalStays ==
  ASSUME TypeOK, NEW u \in Users, RemovalStep(u)
  PROVE  Stays
<1> USE DEF TypeOK
<1>1. CASE UNCHANGED <<posts, attached, inserted>>
  BY <1>1 DEF Stays
<1>2. CASE Commits(u)
  <2>1. ASSUME NEW p \in Ids
        PROVE  \/ posts'[p] = NoRow
               \/ posts'[p] = posts[p]
               \/ posts[p] # NoRow /\ posts'[p] = Anonymised(posts[p])
    BY <1>2 DEF Commits, Own, Rowed
  <2>2. /\ NoRow.author = "nobody"
        /\ \A row \in Rows : /\ Anonymised(row).kind = row.kind /\ Anonymised(row).ref = row.ref
                             /\ Anonymised(row).clicked = row.clicked /\ Anonymised(row).text = FALSE
                             /\ Anonymised(row).author = "nobody"
    BY DEF NoRow, Anonymised
  <2>3. /\ \A m \in Media : attached'[m] \in {attached[m], Deleted}
        /\ inserted' = inserted
    BY <1>2 DEF Commits
  <2>4. QED
    BY <2>1, <2>2, <2>3 DEF Stays
<1>3. QED
  BY <1>1, <1>2 DEF RemovalStep, Waits, sweep

\* An insert makes the one row that was not there.
LEMMA InsertMakes ==
  ASSUME TypeOK, NEW s \in Sessions, NEW row, NEW media, Inserts(s, row, media)
  PROVE  /\ inserted + 1 \in Ids /\ inserted' = inserted + 1 /\ posts'[inserted + 1] = row
         /\ \A p \in Ids \ {inserted + 1} : posts'[p] = posts[p]
         /\ \A m \in Media : attached'[m] \in {inserted + 1, attached[m]}
         /\ \A m \in Media \ media : attached'[m] = attached[m]
BY PostsAssumption DEF Inserts, TypeOK, Ids

LEMMA OrderedTables ==
  ASSUME TypeOK, Ordered,
         Stays \/ \E s \in Sessions, row \in Rows, media \in SUBSET Media : Inserts(s, row, media)
  PROVE  /\ \A p \in Ids : posts'[p] # NoRow => p <= inserted'
         /\ \A p \in Ids : posts'[p].ref <= inserted'
         /\ \A m \in Media : attached'[m] = Deleted \/ attached'[m] <= inserted'
         /\ inserted' \in {inserted, inserted + 1}
<1> USE DEF TypeOK
<1>1. CASE Stays
  <2>1. NoRow.ref = 0
    BY DEF NoRow
  <2>2. QED
    BY <1>1, <2>1 DEF Stays, Ordered
<1>2. ASSUME NEW s \in Sessions, NEW row \in Rows, NEW media \in SUBSET Media, Inserts(s, row, media)
      PROVE  /\ \A p \in Ids : posts'[p] # NoRow => p <= inserted'
             /\ \A p \in Ids : posts'[p].ref <= inserted'
             /\ \A m \in Media : attached'[m] = Deleted \/ attached'[m] <= inserted'
             /\ inserted' \in {inserted, inserted + 1}
  <2>1. row.ref <= inserted
    <3>1. row.ref = 0 \/ (row.ref \in Ids /\ posts[row.ref] # NoRow)
      BY <1>2 DEF Inserts, Exists
    <3>2. QED
      BY <3>1 DEF Ordered
  <2>2. row.ref \in Nat
    BY DEF Rows
  <2>3. \A p \in Ids : p \in Nat /\ posts[p].ref \in Nat
    BY DEF Ids, Rows
  <2>4. \A m \in Media : attached[m] \in Nat
    BY PostsAssumption DEF Deleted
  <2>5. QED
    BY <1>2, <2>1, <2>2, <2>3, <2>4, InsertMakes DEF Ordered
<1>3. QED
  BY <1>1, <1>2

\* An insert's row is a row, and its uploads are uploads.
LEMMA InsertedTyped ==
  ASSUME TypeOK, NEW s \in Sessions, Publishes(s) \/ Clicks(s)
  PROVE  \E row \in Rows, media \in SUBSET Media : Inserts(s, row, media)
<1>1. request[s] \in Requests
  BY DEF TypeOK
<1>2. CASE Publishes(s)
  <2>1. NewRow(request[s].user, request[s].kind, request[s].post, request[s].text, FALSE) \in Rows
        /\ request[s].media \in SUBSET Media
    BY <1>1, <1>2, RowTyped DEF Publishes, Inserts, NewRow, Requests
  <2>2. QED
    BY <1>2, <2>1 DEF Publishes
<1>3. CASE Clicks(s)
  <2>1. NewRow(request[s].user, "repost", request[s].post, FALSE, TRUE) \in Rows
    BY <1>1, <1>3, RowTyped DEF Clicks, Inserts, NewRow, Requests
  <2>2. QED
    BY <1>3, <2>1 DEF Clicks
<1>4. QED
  BY <1>2, <1>3

LEMMA OrderedSession ==
  ASSUME TypeOK, Ordered, NEW s \in Sessions, SessionStep(s)
  PROVE  Ordered'
<1> USE DEF TypeOK
<1>1. Stays \/ \E row \in Rows, media \in SUBSET Media : Inserts(s, row, media)
  BY SessionStays, InsertedTyped
<1>2. UNCHANGED <<accounts, removal>>
  BY DEF SessionStep, Begins, Fail, lock_repost, lock_undo, Lock, Publishes, Clicks, Inserts,
         Undoes, Adds, Unlikes, Deletes
<1>3. \E r : /\ request' = [request EXCEPT ![s] = r]
             /\ r.at # "none" => r.user \in Users /\ r.stamp > 0
             /\ \A p \in r.ids : p <= inserted
  <2>1. CASE End(s)
    <3>1. request' = [request EXCEPT ![s] = NoRequest]
      BY <2>1 DEF End
    <3>2. NoRequest.at = "none" /\ NoRequest.ids = {}
      BY DEF NoRequest
    <3>3. QED
      BY <3>1, <3>2
  <2>2. ASSUME NEW r \in Requests, Begins(s, r)
        PROVE  /\ request' = [request EXCEPT ![s] = r]
               /\ r.at # "none" => r.user \in Users /\ r.stamp > 0
               /\ \A p \in r.ids : p <= inserted
    BY <2>2 DEF Begins
  <2>3. ASSUME NEW ids \in SUBSET Ids, Lock(s, ids), request[s].at = "checked",
               \A p \in ids : p <= inserted
        PROVE  \E r : /\ request' = [request EXCEPT ![s] = r]
                      /\ r.at # "none" => r.user \in Users /\ r.stamp > 0
                      /\ \A p \in r.ids : p <= inserted
    <3> DEFINE r == [op |-> request[s].op, user |-> request[s].user, post |-> request[s].post,
                     kind |-> request[s].kind, text |-> request[s].text,
                     media |-> request[s].media, ids |-> ids, at |-> "locked",
                     stamp |-> request[s].stamp]
    <3>1. request' = [request EXCEPT ![s] = r]
      BY <2>3 DEF Lock
    <3>2. r.user \in Users /\ r.stamp > 0 /\ r.ids = ids
      BY <2>3 DEF Ordered
    <3>3. QED
      BY <2>3, <3>1, <3>2
  <2>4. CASE lock_repost(s)
    BY <2>1, <2>3, <2>4 DEF lock_repost, Fail, Ready
  <2>5. CASE lock_undo(s)
    <3>1. \A p \in plain_reposts_by(request[s].user, request[s].post) : p \in Ids /\ p <= inserted
      BY DEF plain_reposts_by, Rowed, Ordered
    <3>2. QED
      BY <2>1, <2>3, <2>5, <3>1 DEF lock_undo, Fail, Ready
  <2>6. QED
    BY <2>1, <2>2, <2>4, <2>5
       DEF SessionStep, Fail, Publishes, Clicks, Inserts, Undoes, Adds, Unlikes, Deletes
<1>4. PICK r : /\ request' = [request EXCEPT ![s] = r]
               /\ r.at # "none" => r.user \in Users /\ r.stamp > 0
               /\ \A p \in r.ids : p <= inserted
  BY <1>3
<1>5. /\ \A p \in Ids : posts'[p] # NoRow => p <= inserted'
      /\ \A p \in Ids : posts'[p].ref <= inserted'
      /\ \A m \in Media : attached'[m] = Deleted \/ attached'[m] <= inserted'
      /\ inserted' \in {inserted, inserted + 1}
  BY <1>1, OrderedTables
<1>6. \A t \in Sessions : \A p \in request'[t].ids : p <= inserted'
  <2>1. \A t \in Sessions : \A p \in request[t].ids : p \in Nat
    BY DEF Requests, Ids
  <2>2. \A t \in Sessions : \A p \in request'[t].ids : p \in Nat
    BY SessionTyped DEF Requests, Ids
  <2>3. QED
    BY <1>4, <1>5, <2>1, <2>2 DEF Ordered
<1>7. \A t \in Sessions : request'[t].at # "none" => request'[t].user \in Users /\ request'[t].stamp > 0
  BY <1>4 DEF Ordered
<1>8. QED
  BY <1>2, <1>5, <1>6, <1>7 DEF Ordered

LEMMA OrderedRemoval ==
  ASSUME TypeOK, Ordered, NEW u \in Users, RemovalStep(u)
  PROVE  Ordered'
<1> USE DEF TypeOK
<1>1. /\ \A p \in Ids : posts'[p] # NoRow => p <= inserted'
      /\ \A p \in Ids : posts'[p].ref <= inserted'
      /\ \A m \in Media : attached'[m] = Deleted \/ attached'[m] <= inserted'
  BY RemovalStays, OrderedTables
<1>2. request' = request /\ inserted' = inserted
  BY DEF RemovalStep, Waits, sweep, Commits
<1>3. \A v \in Users : v \in accounts' <=> removal'[v].at # "done"
  <2>1. ASSUME NEW at \in {"asked", "locked"}, Waits(u, at)
        PROVE  \A v \in Users : v \in accounts' <=> removal'[v].at # "done"
    BY <2>1 DEF Waits, Removal, RemovalAt, Ordered
  <2>2. CASE sweep(u)
    BY <2>2 DEF sweep, Removal, Ordered
  <2>3. CASE Commits(u)
    BY <2>3 DEF Commits, Removal, RemovalAt, Ordered
  <2>4. QED
    BY <2>1, <2>2, <2>3 DEF RemovalStep
<1>4. QED
  BY <1>1, <1>2, <1>3 DEF Ordered

LEMMA OrderedHolds == Spec => []Ordered
<1>1. Init => Ordered
  BY PostsAssumption DEF Init, Ordered, NoRow, NoRequest, NoRemoval, RemovalAt, Ids
<1>2. TypeOK /\ Ordered /\ [Next]_vars => Ordered'
  <2>1. ASSUME Ordered, UNCHANGED vars PROVE Ordered'
    BY <2>1 DEF Ordered, vars
  <2>2. QED
    BY <2>1, StepCases, OrderedSession, OrderedRemoval
<1>3. QED
  BY <1>1, <1>2, TypeCorrect, PTL DEF Spec

-----------------------------------------------------------------------------
(* The one-click repost *)

\* A repost that was clicked carries nothing, so whoever looks for a plain
\* repost under the pair's lock finds it; and the lock has one owner.
Clicking ==
  /\ \A p \in Ids : posts[p].clicked =>
       posts[p].kind = "repost" /\ ~posts[p].text /\ \A m \in Media : attached[m] # p
  /\ \A s \in Sessions : request[s].op = "click" /\ request[s].at = "locked" =>
       \A p \in Ids : ~ /\ posts[p].clicked /\ posts[p].author = request[s].user
                        /\ posts[p].ref = request[s].post
  /\ \A s, t \in Sessions :
       /\ request[s].at = "locked" /\ request[t].at = "locked"
       /\ request[s].user = request[t].user /\ request[s].post = request[t].post
       => s = t
  /\ ClickedOnce

\* The rows once clicked are not made but by Clicks.
LEMMA ClickedStay ==
  ASSUME TypeOK, Ordered, Clicking, Stays
  PROVE  /\ \A p \in Ids : posts'[p].clicked =>
              /\ posts[p].clicked /\ posts'[p].ref = posts[p].ref
              /\ posts'[p].author \in {posts[p].author, "nobody"}
         /\ \A p \in Ids : posts'[p].clicked =>
              posts'[p].kind = "repost" /\ ~posts'[p].text /\ \A m \in Media : attached'[m] # p
         /\ ClickedOnce'
<1> USE DEF TypeOK
<1>1. ASSUME NEW p \in Ids, posts'[p].clicked
      PROVE  /\ posts[p].clicked /\ posts'[p].ref = posts[p].ref
             /\ posts'[p].author \in {posts[p].author, "nobody"}
             /\ posts[p] # NoRow
             /\ posts'[p].kind = "repost" /\ ~posts'[p].text /\ \A m \in Media : attached'[m] # p
  <2>1. posts'[p] # NoRow
    BY <1>1 DEF NoRow
  <2>2. p # Deleted
    BY PostsAssumption DEF Ids, Deleted
  <2>3. QED
    BY <1>1, <2>1, <2>2 DEF Stays, Clicking
<1>2. ClickedOnce'
  BY <1>1 DEF Clicking, ClickedOnce, Rowed
<1>3. QED
  BY <1>1, <1>2

\* As long as nobody gets the lock, nothing is left to show.
LEMMA ClickingStays ==
  ASSUME TypeOK, Ordered, Clicking, Stays,
         \A t \in Sessions : request'[t].at = "locked" => request'[t] = request[t]
  PROVE  Clicking'
<1>1. ASSUME NEW t \in Sessions, request'[t].op = "click", request'[t].at = "locked",
             NEW p \in Ids, posts'[p].clicked, posts'[p].author = request'[t].user
      PROVE  posts'[p].ref # request'[t].post
  <2>1. request'[t] = request[t] /\ request[t].user # "nobody"
    BY <1>1, PostsAssumption DEF Ordered
  <2>2. QED
    BY <1>1, <2>1, ClickedStay DEF Clicking
<1>2. ASSUME NEW t \in Sessions, NEW v \in Sessions,
             request'[t].at = "locked", request'[v].at = "locked",
             request'[t].user = request'[v].user, request'[t].post = request'[v].post
      PROVE  t = v
  <2>1. request'[t] = request[t] /\ request'[v] = request[v]
    BY <1>2
  <2>2. QED
    BY <1>2, <2>1 DEF Clicking
<1>3. QED
  BY <1>1, <1>2, ClickedStay DEF Clicking

\* Who gets it finds no repost of the pair, or goes on to take it away.
LEMMA ClickingLocks ==
  ASSUME TypeOK, Clicking, NEW s \in Sessions, NEW ids, Lock(s, ids), Free(s),
         request[s].op = "click" => plain_reposts_by(request[s].user, request[s].post) = {}
  PROVE  Clicking'
<1> USE DEF TypeOK
<1>1. /\ UNCHANGED <<posts, attached>>
      /\ \A t \in Sessions \ {s} : request'[t] = request[t]
      /\ request'[s].op = request[s].op /\ request'[s].user = request[s].user
      /\ request'[s].post = request[s].post
  BY DEF Lock
<1>2. ASSUME request[s].op = "click", NEW p \in Ids, posts[p].clicked,
             posts[p].author = request[s].user
      PROVE  posts[p].ref # request[s].post
  <2>1. posts[p] # NoRow
    BY <1>2 DEF NoRow
  <2>2. is_plain_repost(p)
    BY <1>2 DEF Clicking, is_plain_repost, HasMedia
  <2>3. QED
    BY <1>2, <2>1, <2>2 DEF plain_reposts_by, Rowed
<1>3. \A t \in Sessions : request'[t].op = "click" /\ request'[t].at = "locked" =>
        \A p \in Ids : ~ /\ posts'[p].clicked /\ posts'[p].author = request'[t].user
                         /\ posts'[p].ref = request'[t].post
  BY <1>1, <1>2 DEF Clicking
<1>4. ASSUME NEW t \in Sessions \ {s}, request[t].at = "locked"
      PROVE  <<request[t].user, request[t].post>> # <<request[s].user, request[s].post>>
  BY <1>4 DEF Free
<1>5. ASSUME NEW t \in Sessions, NEW v \in Sessions,
             request'[t].at = "locked", request'[v].at = "locked",
             request'[t].user = request'[v].user, request'[t].post = request'[v].post
      PROVE  t = v
  BY <1>1, <1>4, <1>5 DEF Clicking
<1>6. QED
  BY <1>1, <1>3, <1>5 DEF Clicking, ClickedOnce, Rowed

\* An insert that was no click changes no clicked row.
LEMMA ClickingPublishes ==
  ASSUME TypeOK, Ordered, Clicking, NEW s \in Sessions, Publishes(s)
  PROVE  Clicking'
<1> USE DEF TypeOK
<1> DEFINE row == NewRow(request[s].user, request[s].kind, request[s].post, request[s].text, FALSE)
<1>1. Inserts(s, row, request[s].media) /\ row.clicked = FALSE
  BY DEF Publishes, NewRow
<1> HIDE DEF row
<1>2. \A t \in Sessions : request'[t].at = "locked" => request'[t] = request[t]
  BY <1>1 DEF Inserts, End, NoRequest
<1>3. ASSUME NEW p \in Ids, posts'[p].clicked
      PROVE  posts'[p] = posts[p] /\ \A m \in Media : attached[m] # p => attached'[m] # p
  BY <1>1, <1>3, InsertMakes
<1>4. \A p \in Ids : posts[p].clicked => posts[p] # NoRow
  BY DEF NoRow
<1>5. ClickedOnce'
  BY <1>3, <1>4 DEF Clicking, ClickedOnce, Rowed
<1>6. QED
  BY <1>2, <1>3, <1>5 DEF Clicking

\* A click inserts the one row of the pair, and gives its lock back.
LEMMA ClickingClicks ==
  ASSUME TypeOK, Ordered, Clicking, NEW s \in Sessions, Clicks(s)
  PROVE  Clicking'
<1> USE DEF TypeOK
<1> DEFINE n == inserted + 1
           row == NewRow(request[s].user, "repost", request[s].post, FALSE, TRUE)
<1>1. /\ Inserts(s, row, {}) /\ row.kind = "repost" /\ ~row.text
      /\ row.author = request[s].user /\ row.ref = request[s].post
      /\ request[s].op = "click" /\ request[s].at = "locked"
  BY DEF Clicks, NewRow, Ready
<1> HIDE DEF row
<1>2. /\ n \in Ids /\ posts'[n] = row
      /\ \A p \in Ids \ {n} : posts'[p] = posts[p]
      /\ attached' = attached
  <2>1. \A m \in Media : attached'[m] = attached[m]
    BY <1>1, InsertMakes
  <2>2. attached' = [m \in Media |-> attached[m]]
    BY <1>1 DEF Inserts
  <2>3. QED
    BY <1>1, <2>2, InsertMakes
<1>3. \A m \in Media : attached[m] # n
  BY <1>1, PostsAssumption DEF Ordered, Inserts, Deleted
<1>4. request' = [request EXCEPT ![s] = NoRequest] /\ NoRequest.at = "none"
  BY <1>1 DEF Inserts, End, NoRequest
<1>5. ASSUME NEW t \in Sessions, request'[t].at = "locked"
      PROVE  t # s /\ request'[t] = request[t]
             /\ ~(request[t].user = request[s].user /\ request[t].post = request[s].post)
  BY <1>1, <1>4, <1>5 DEF Clicking
<1>6. \A t \in Sessions : request'[t].op = "click" /\ request'[t].at = "locked" =>
        \A p \in Ids : ~ /\ posts'[p].clicked /\ posts'[p].author = request'[t].user
                         /\ posts'[p].ref = request'[t].post
  BY <1>1, <1>2, <1>5 DEF Clicking
<1>7. ClickedOnce'
  <2>1. \A p \in Ids \ {n} : posts[p].clicked =>
          ~(posts[p].author = request[s].user /\ posts[p].ref = request[s].post)
    BY <1>1 DEF Clicking
  <2>2. \A p \in Ids : posts[p].clicked => posts[p] # NoRow
    BY DEF NoRow
  <2>3. QED
    BY <1>1, <1>2, <2>1, <2>2 DEF Clicking, ClickedOnce, Rowed
<1>8. \A t, v \in Sessions :
        /\ request'[t].at = "locked" /\ request'[v].at = "locked"
        /\ request'[t].user = request'[v].user /\ request'[t].post = request'[v].post
        => t = v
  BY <1>5 DEF Clicking
<1>9. \A p \in Ids : posts'[p].clicked =>
        posts'[p].kind = "repost" /\ ~posts'[p].text /\ \A m \in Media : attached'[m] # p
  BY <1>1, <1>2, <1>3 DEF Clicking
<1>10. QED
  BY <1>6, <1>7, <1>8, <1>9 DEF Clicking

LEMMA ClickingStep ==
  ASSUME TypeOK, Ordered, Clicking, [Next]_vars
  PROVE  Clicking'
<1>1. ASSUME NEW s \in Sessions, SessionStep(s) PROVE Clicking'
  <2>1. CASE Publishes(s)
    BY <2>1, ClickingPublishes
  <2>2. CASE Clicks(s)
    BY <2>2, ClickingClicks
  <2>3. CASE ~Publishes(s) /\ ~Clicks(s)
    <3>1. Stays
      BY <1>1, <2>3, SessionStays
    <3>2. ASSUME NEW r, request' = [request EXCEPT ![s] = r], r.at # "locked"
          PROVE  Clicking'
      <4>1. \A t \in Sessions : request'[t].at = "locked" => request'[t] = request[t]
        BY <3>2 DEF TypeOK
      <4>2. QED
        BY <3>1, <4>1, ClickingStays
    <3>3. CASE End(s)
      <4>1. NoRequest.at = "none"
        BY DEF NoRequest
      <4>2. QED
        BY <3>2, <3>3, <4>1 DEF End
    <3>4. CASE \E r \in Requests : Begins(s, r)
      BY <3>2, <3>4 DEF Begins
    <3>5. CASE lock_repost(s)
      BY <3>3, <3>5, ClickingLocks DEF lock_repost, Fail
    <3>6. CASE lock_undo(s)
      BY <3>3, <3>6, ClickingLocks DEF lock_undo, Fail, Ready
    <3>7. QED
      BY <1>1, <2>3, <3>3, <3>4, <3>5, <3>6 DEF SessionStep, Fail, Undoes, Adds, Unlikes, Deletes
  <2>4. QED
    BY <2>1, <2>2, <2>3
<1>2. ASSUME NEW u \in Users, RemovalStep(u) PROVE Clicking'
  <2>1. request' = request
    BY <1>2 DEF RemovalStep, Waits, sweep, Commits
  <2>2. QED
    BY <1>2, <2>1, RemovalStays, ClickingStays
<1>3. CASE UNCHANGED vars
  BY <1>3 DEF vars, Clicking, ClickedOnce, Rowed
<1>4. QED
  BY <1>1, <1>2, <1>3, StepCases

LEMMA ClickingHolds == Spec => []Clicking
<1>1. Init => Clicking
  BY DEF Init, Clicking, ClickedOnce, Rowed, NoRow, NoRequest
<1>2. QED
  BY <1>1, ClickingStep, TypeCorrect, OrderedHolds, PTL DEF Spec

\* The one-click repost is one, for any number of users, sessions and clicks:
\* the lock is on the pair of a user and an original, what is looked for under
\* it includes every row a click made, and removals only take authors away.
THEOREM ClickedOnceCorrect == Spec => []ClickedOnce
<1>1. Clicking => ClickedOnce
  BY DEF Clicking
<1>2. QED
  BY <1>1, ClickingHolds, PTL

-----------------------------------------------------------------------------
(* What leaves the table *)

\* Who holds the lock to undo holds plain reposts, and they stay plain: nothing
\* is ever attached to a row that is there.
Undoing ==
  \A s \in Sessions : request[s].op = "undo" /\ request[s].at = "locked" =>
    \A p \in request[s].ids : posts[p] # NoRow => is_plain_repost(p)

LEMMA UndoingKept ==
  ASSUME TypeOK, Ordered, Undoing,
         Stays \/ \E s \in Sessions, row \in Rows, media \in SUBSET Media : Inserts(s, row, media),
         \A t \in Sessions : request'[t].at = "locked" => request'[t] = request[t]
  PROVE  Undoing'
<1> USE DEF TypeOK
<1>1. ASSUME NEW t \in Sessions, request'[t].op = "undo", request'[t].at = "locked",
             NEW p \in request'[t].ids, posts'[p] # NoRow
      PROVE  posts'[p].kind = "repost" /\ ~posts'[p].text /\ \A m \in Media : attached'[m] # p
  <2>1. request'[t] = request[t] /\ p \in Ids /\ p <= inserted
    BY <1>1 DEF Requests, Ordered
  <2>2. CASE Stays
    <3>1. posts[p] # NoRow /\ is_plain_repost(p)
      BY <1>1, <2>1, <2>2 DEF Stays, Undoing
    <3>2. p # Deleted
      BY <2>1, PostsAssumption DEF Ids, Deleted
    <3>3. QED
      BY <1>1, <2>1, <2>2, <3>1, <3>2 DEF Stays, is_plain_repost, HasMedia
  <2>3. ASSUME NEW s \in Sessions, NEW row \in Rows, NEW media \in SUBSET Media,
               Inserts(s, row, media)
        PROVE  posts'[p].kind = "repost" /\ ~posts'[p].text /\ \A m \in Media : attached'[m] # p
    <3>1. p # inserted + 1
      BY <2>1 DEF Ids
    <3>2. posts'[p] = posts[p] /\ \A m \in Media : attached[m] # p => attached'[m] # p
      BY <2>1, <2>3, <3>1, InsertMakes
    <3>3. is_plain_repost(p)
      BY <1>1, <2>1, <3>2 DEF Undoing
    <3>4. QED
      BY <3>2, <3>3 DEF is_plain_repost, HasMedia
  <2>4. QED
    BY <2>2, <2>3
<1>2. QED
  BY <1>1 DEF Undoing, is_plain_repost, HasMedia

LEMMA UndoingStep ==
  ASSUME TypeOK, Ordered, Undoing, [Next]_vars
  PROVE  Undoing'
<1> USE DEF TypeOK
<1>1. ASSUME NEW s \in Sessions, SessionStep(s) PROVE Undoing'
  <2>1. Stays \/ \E row \in Rows, media \in SUBSET Media : Inserts(s, row, media)
    BY <1>1, SessionStays, InsertedTyped
  <2>2. ASSUME NEW r, request' = [request EXCEPT ![s] = r], r.at # "locked"
        PROVE  Undoing'
    <3>1. \A t \in Sessions : request'[t].at = "locked" => request'[t] = request[t]
      BY <2>2
    <3>2. QED
      BY <2>1, <3>1, UndoingKept
  <2>3. CASE End(s)
    <3>1. NoRequest.at = "none"
      BY DEF NoRequest
    <3>2. QED
      BY <2>2, <2>3, <3>1 DEF End
  <2>4. CASE \E r \in Requests : Begins(s, r)
    BY <2>2, <2>4 DEF Begins
  <2>5. ASSUME NEW ids, Lock(s, ids),
               request[s].op = "undo" => \A p \in ids : is_plain_repost(p)
        PROVE  Undoing'
    <3>1. /\ UNCHANGED <<posts, attached>>
          /\ \A t \in Sessions \ {s} : request'[t] = request[t]
          /\ request'[s].op = request[s].op /\ request'[s].ids = ids
      BY <2>5 DEF Lock
    <3>2. QED
      BY <2>5, <3>1 DEF Undoing, is_plain_repost, HasMedia
  <2>6. CASE lock_repost(s)
    BY <2>3, <2>5, <2>6 DEF lock_repost, Fail, Ready
  <2>7. CASE lock_undo(s)
    <3>1. \A p \in plain_reposts_by(request[s].user, request[s].post) : is_plain_repost(p)
      BY DEF plain_reposts_by
    <3>2. QED
      BY <2>3, <2>5, <2>7, <3>1 DEF lock_undo, Fail
  <2>8. QED
    BY <1>1, <2>3, <2>4, <2>6, <2>7
       DEF SessionStep, Fail, Publishes, Clicks, Inserts, Undoes, Adds, Unlikes, Deletes
<1>2. ASSUME NEW u \in Users, RemovalStep(u) PROVE Undoing'
  <2>1. request' = request
    BY <1>2 DEF RemovalStep, Waits, sweep, Commits
  <2>2. QED
    BY <1>2, <2>1, RemovalStays, UndoingKept
<1>3. CASE UNCHANGED vars
  BY <1>3 DEF vars, Undoing, is_plain_repost, HasMedia
<1>4. QED
  BY <1>1, <1>2, <1>3, StepCases

LEMMA UndoingHolds == Spec => []Undoing
<1>1. Init => Undoing
  BY DEF Init, Undoing, NoRequest
<1>2. QED
  BY <1>1, UndoingStep, TypeCorrect, OrderedHolds, PTL DEF Spec

LEMMA VanishStep ==
  ASSUME TypeOK, Ordered, Undoing, [Next]_vars, NEW p \in Rowed, posts'[p] = NoRow
  PROVE  is_plain_repost(p) \/ posts[p].author \in accounts \ accounts'
<1> USE DEF TypeOK
<1>1. p \in Ids /\ posts[p] # NoRow /\ posts[p] \in Rows /\ NoRow.deleted = 0
  BY DEF Rowed, NoRow
<1>2. ASSUME NEW s \in Sessions, SessionStep(s) PROVE is_plain_repost(p)
  <2>1. posts' # posts
    BY <1>1
  <2>2. ASSUME NEW row \in Rows, NEW media \in SUBSET Media, Inserts(s, row, media) PROVE FALSE
    <3>1. p # inserted + 1
      BY <1>1 DEF Ordered, Ids
    <3>2. QED
      BY <1>1, <2>2, <3>1, InsertMakes
  <2>3. CASE Undoes(s)
    BY <1>1, <2>3 DEF Undoes, Undoing, Ready
  <2>4. ASSUME NEW k \in Marks, Adds(s, k) PROVE FALSE
    <3>1. CASE p # k.post
      BY <1>1, <2>4, <3>1 DEF Adds
    <3>2. CASE p = k.post
      <4>1. posts'[p] = [posts[p] EXCEPT !.reported = @ \/ k.what = "report"]
        BY <1>1, <2>4, <3>2 DEF Adds
      <4>2. NoRow.reported = FALSE
        BY DEF NoRow
      <4>3. posts[p].reported = FALSE
        BY <1>1, <4>1, <4>2 DEF Rows
      <4>4. posts'[p] = posts[p]
        BY <1>1, <4>1, <4>2, <4>3 DEF Rows, NoRow
      <4>5. QED
        BY <1>1, <4>4
    <3>3. QED
      BY <3>1, <3>2
  <2>5. CASE Deletes(s)
    <3>1. request[s].stamp \in Nat /\ request[s].stamp > 0
      BY <2>5 DEF Deletes, Ready, Ordered, Requests
    <3>2. CASE p = request[s].post
      <4>1. posts'[p].deleted = request[s].stamp
        BY <1>1, <2>5, <3>2 DEF Deletes, Rows
      <4>2. QED
        BY <1>1, <3>1, <4>1
    <3>3. CASE p # request[s].post
      BY <1>1, <2>5, <3>3 DEF Deletes
    <3>4. QED
      BY <3>2, <3>3
  <2>6. QED
    BY <1>2, <2>1, <2>2, <2>3, <2>4, <2>5, InsertedTyped
       DEF SessionStep, Begins, Fail, lock_repost, lock_undo, Lock, Unlikes
<1>3. ASSUME NEW u \in Users, RemovalStep(u) PROVE posts[p].author \in accounts \ accounts'
  <2>1. Commits(u)
    BY <1>1, <1>3 DEF RemovalStep, Waits, sweep
  <2>2. Anonymised(posts[p]).deleted # 0
    BY <1>1, PostsAssumption DEF Anonymised, Rows
  <2>3. p \in Own(u)
    BY <1>1, <2>1 DEF Commits
  <2>4. u \in accounts /\ accounts' = accounts \ {u}
    BY <2>1 DEF Commits, Ordered
  <2>5. QED
    BY <2>3, <2>4 DEF Own
<1>4. QED
  BY <1>1, <1>2, <1>3, StepCases DEF vars

\* Un-reposting takes only what says nothing of its own: of everything an undo
\* locked, nothing can have gained a text or an upload when it comes to delete.
THEOREM VanishCorrect == Spec => OnlyPlainRepostsVanish
<1>1. TypeOK /\ Ordered /\ Undoing /\ [Next]_vars
      => [\A p \in Rowed : posts'[p] = NoRow =>
            is_plain_repost(p) \/ posts[p].author \in accounts \ accounts']_vars
  BY VanishStep
<1>2. QED
  BY <1>1, TypeCorrect, OrderedHolds, UndoingHolds, PTL DEF Spec, OnlyPlainRepostsVanish

-----------------------------------------------------------------------------
(* What a removal leaves *)

\* The removed account is the one that is not there any more, and the foreign
\* keys keep it so.
Gone ==
  /\ \A u \in Users \ accounts : Own(u) = {} /\ \A k \in marks : k.user # u
  /\ \A p \in Rowed : posts[p].author = "nobody" =>
       posts[p].deleted # 0 /\ ~posts[p].text /\ ~HasMedia(p)

LEMMA GoneInsert ==
  ASSUME TypeOK, Ordered, Gone, NEW s \in Sessions, NEW row \in Rows,
         NEW media \in SUBSET Media, Inserts(s, row, media)
  PROVE  Gone'
<1> USE DEF TypeOK
<1>1. /\ row.author \in accounts /\ accounts' = accounts /\ marks' = marks
      /\ row.author # "nobody"
  BY PostsAssumption DEF Inserts
<1>2. ASSUME NEW p \in Ids, posts'[p] # NoRow, posts'[p].author \notin accounts
      PROVE  /\ posts'[p] = posts[p] /\ p \in Rowed
             /\ \A m \in Media : attached[m] # p => attached'[m] # p
  <2>1. p # inserted + 1
    BY <1>1, <1>2, InsertMakes
  <2>2. posts'[p] = posts[p]
    BY <2>1, InsertMakes
  <2>3. \A m \in Media : attached[m] # p => attached'[m] # p
    BY <2>1, InsertMakes
  <2>4. QED
    BY <1>2, <2>2, <2>3 DEF Rowed
<1>3. \A u \in Users \ accounts' : Own(u)' = {} /\ \A k \in marks' : k.user # u
  BY <1>1, <1>2 DEF Gone, Own, Rowed
<1>4. ASSUME NEW p \in Rowed', posts'[p].author = "nobody"
      PROVE  posts'[p].deleted # 0 /\ ~posts'[p].text /\ ~HasMedia(p)'
  <2>1. p \in Ids /\ posts'[p] # NoRow /\ posts'[p].author \notin accounts
    BY <1>4, PostsAssumption DEF Rowed
  <2>2. posts[p].deleted # 0 /\ ~posts[p].text /\ ~HasMedia(p)
    BY <1>2, <1>4, <2>1 DEF Gone
  <2>3. QED
    BY <1>2, <2>1, <2>2 DEF HasMedia
<1>5. QED
  BY <1>3, <1>4 DEF Gone

\* What a row that stays keeps, if no removal commits: its author, and that it
\* is deleted.
LEMMA AuthorStays ==
  ASSUME TypeOK, Ordered, NEW s \in Sessions, SessionStep(s), ~Publishes(s), ~Clicks(s),
         NEW p \in Ids, posts'[p] # NoRow
  PROVE  posts'[p].author = posts[p].author /\ (posts[p].deleted # 0 => posts'[p].deleted # 0)
<1> USE DEF TypeOK
<1>1. CASE posts' = posts
  BY <1>1
<1>2. CASE Undoes(s)
  BY <1>2 DEF Undoes
<1>3. ASSUME NEW k \in Marks, Adds(s, k)
      PROVE  posts'[p].author = posts[p].author /\ posts'[p].deleted = posts[p].deleted
  <2>1. posts' = [posts EXCEPT ![k.post] = [posts[k.post] EXCEPT !.reported = @ \/ k.what = "report"]]
        /\ k.post \in Ids /\ posts[k.post] \in Rows
    BY <1>3 DEF Adds, Exists
  <2>2. QED
    BY <2>1 DEF Rows
<1>4. CASE Deletes(s)
  <2>1. request[s].stamp \in Nat /\ request[s].stamp > 0
    BY <1>4 DEF Deletes, Ready, Ordered, Requests
  <2>2. request[s].post \in Ids /\ posts[request[s].post] \in Rows
    BY <1>4 DEF Deletes, Exists
  <2> DEFINE q == request[s].post
             d == request[s].stamp
  <2>3. posts' = [posts EXCEPT ![q] = [posts[q] EXCEPT !.deleted = d]]
    BY <1>4 DEF Deletes
  <2>4. q \in Ids /\ posts[q] \in Rows /\ d # 0
    BY <2>1, <2>2
  <2> HIDE DEF q, d
  <2>5. QED
    BY <2>3, <2>4 DEF Rows
<1>5. QED
  BY <1>1, <1>2, <1>3, <1>4 DEF SessionStep, Begins, Fail, lock_repost, lock_undo, Lock, Unlikes

LEMMA GoneSession ==
  ASSUME TypeOK, Ordered, Gone, NEW s \in Sessions, SessionStep(s)
  PROVE  Gone'
<1> USE DEF TypeOK
<1>1. CASE Publishes(s) \/ Clicks(s)
  BY <1>1, InsertedTyped, GoneInsert
<1>2. CASE ~Publishes(s) /\ ~Clicks(s)
  <2>1. Stays
    BY <1>2, SessionStays
  <2>2. accounts' = accounts
    BY DEF SessionStep, Begins, Fail, lock_repost, lock_undo, Lock, Publishes, Clicks, Inserts,
           Undoes, Adds, Unlikes, Deletes
  <2>3. \A k \in marks' : k \in marks \/ k.user \in accounts
    BY DEF SessionStep, Begins, Fail, lock_repost, lock_undo, Lock, Publishes, Clicks, Inserts,
           Undoes, Adds, Unlikes, Deletes
  <2>4. ASSUME NEW p \in Ids, posts'[p] # NoRow
        PROVE  /\ p \in Rowed /\ posts'[p].author = posts[p].author
               /\ posts[p].deleted # 0 => posts'[p].deleted # 0
               /\ posts'[p].text => posts[p].text
               /\ \A m \in Media : attached[m] # p => attached'[m] # p
    <3>1. p # Deleted
      BY PostsAssumption DEF Ids, Deleted
    <3>2. QED
      BY <1>2, <2>1, <2>4, <3>1, AuthorStays DEF Stays, Rowed
  <2>5. \A u \in Users \ accounts' : Own(u)' = {} /\ \A k \in marks' : k.user # u
    BY <2>2, <2>3, <2>4 DEF Gone, Own, Rowed
  <2>6. \A p \in Rowed' : posts'[p].author = "nobody" =>
          posts'[p].deleted # 0 /\ ~posts'[p].text /\ ~HasMedia(p)'
    BY <2>4 DEF Gone, Rowed, HasMedia
  <2>7. QED
    BY <2>5, <2>6 DEF Gone
<1>3. QED
  BY <1>1, <1>2

LEMMA GoneRemoval ==
  ASSUME TypeOK, Ordered, Gone, NEW u \in Users, RemovalStep(u)
  PROVE  Gone'
<1> USE DEF TypeOK
<1>1. CASE UNCHANGED <<posts, attached, marks, accounts>>
  BY <1>1 DEF Gone, Own, Rowed, HasMedia
<1>2. CASE Commits(u)
  <2>1. ASSUME NEW p \in Ids, posts'[p] # NoRow
        PROVE  \/ p \notin Own(u) /\ posts'[p] = posts[p]
               \/ p \in Own(u) /\ posts'[p] = Anonymised(posts[p])
    BY <1>2, <2>1 DEF Commits
  <2>2. \A row \in Rows : /\ Anonymised(row).author = "nobody" /\ ~Anonymised(row).text
                          /\ Anonymised(row).deleted # 0
    BY PostsAssumption DEF Anonymised, Rows
  <2>3. /\ marks' \subseteq marks /\ \A k \in marks' : k.user # u
        /\ accounts' = accounts \ {u}
        /\ \A m \in Media : attached'[m] = IF attached[m] \in Own(u) THEN Deleted ELSE attached[m]
    BY <1>2 DEF Commits
  <2>4. \A p \in Ids : p # Deleted /\ (posts'[p] # NoRow /\ p \notin Own(u) => p \in Rowed /\ posts'[p] = posts[p])
    BY <2>1, PostsAssumption DEF Ids, Deleted, Rowed
  <2>5. ASSUME NEW v \in Users \ accounts' PROVE Own(v)' = {} /\ \A k \in marks' : k.user # v
    <3>1. v # "nobody"
      BY PostsAssumption
    <3>2. ASSUME NEW p \in Ids, posts'[p] # NoRow, posts'[p].author = v PROVE FALSE
      <4>1. p \notin Own(u) /\ posts'[p] = posts[p] /\ p \in Rowed
        BY <2>1, <2>2, <2>4, <3>1, <3>2
      <4>2. v # u
        BY <3>2, <4>1 DEF Own
      <4>3. v \in Users \ accounts
        BY <2>3, <4>2
      <4>4. QED
        BY <3>2, <4>1, <4>3 DEF Gone, Own
    <3>3. QED
      BY <2>3, <3>2 DEF Gone, Own, Rowed
  <2>6. ASSUME NEW p \in Ids, posts'[p] # NoRow, posts'[p].author = "nobody"
        PROVE  posts'[p].deleted # 0 /\ ~posts'[p].text /\ \A m \in Media : attached'[m] # p
    <3>1. CASE p \in Own(u)
      <4>1. posts'[p] = Anonymised(posts[p]) /\ posts[p] \in Rows
        BY <2>1, <2>6, <3>1
      <4>2. \A m \in Media : attached'[m] # p
        BY <2>3, <2>4, <3>1
      <4>3. QED
        BY <2>2, <4>1, <4>2
    <3>2. CASE p \notin Own(u)
      BY <2>3, <2>4, <2>6, <3>2 DEF Gone, HasMedia
    <3>3. QED
      BY <3>1, <3>2
  <2>7. QED
    BY <2>5, <2>6 DEF Gone, Rowed, HasMedia
<1>3. QED
  BY <1>1, <1>2 DEF RemovalStep, Waits, sweep

LEMMA GoneHolds == Spec => []Gone
<1>1. Init => Gone
  BY DEF Init, Gone, Own, Rowed, NoRow
<1>2. TypeOK /\ Ordered /\ Gone /\ [Next]_vars => Gone'
  <2>1. ASSUME Gone, UNCHANGED vars PROVE Gone'
    BY <2>1 DEF Gone, Own, Rowed, HasMedia, vars
  <2>2. QED
    BY <2>1, StepCases, GoneSession, GoneRemoval
<1>3. QED
  BY <1>1, <1>2, TypeCorrect, OrderedHolds, PTL DEF Spec

\* Nothing of a removed account comes back: a request of it that is still in
\* flight when the removal commits finds its user's row gone.
THEOREM RemovedCorrect == Spec => []RemovedLeavesNoTrace
<1>1. Ordered /\ Gone => RemovedLeavesNoTrace
  BY DEF Ordered, Gone, RemovedLeavesNoTrace
<1>2. QED
  BY <1>1, OrderedHolds, GoneHolds, PTL

-----------------------------------------------------------------------------
(* What a removal looked at *)

\* The retained posts hold everything another row needs, and what they need.
LEMMA RetainedCloses ==
  ASSUME NEW u, NEW q \in Rowed, posts[q].ref \in Own(u),
         q \notin Own(u) \/ q \in retained(u)
  PROVE  posts[q].ref \in retained(u)
<1> DEFINE base == {p \in Own(u) : \E r \in Rowed \ Own(u) : posts[r].ref = p}
           closed(S) == base \subseteq S /\ \A r \in S : Answers(r) \cap Own(u) \subseteq S
<1>1. retained(u) = {p \in Own(u) : \A S \in SUBSET Own(u) : closed(S) => p \in S}
  BY DEF retained
<1>2. ASSUME NEW S \in SUBSET Own(u), closed(S) PROVE posts[q].ref \in S
  <2>1. CASE q \notin Own(u)
    BY <1>2, <2>1
  <2>2. CASE q \in retained(u)
    <3>1. q \in S
      BY <1>1, <1>2, <2>2
    <3>2. posts[q].ref \in Answers(q) \cap Own(u)
      BY DEF Answers, Own, Rowed
    <3>3. QED
      BY <1>2, <3>1, <3>2
  <2>3. QED
    BY <2>1, <2>2
<1> HIDE DEF base, closed
<1>3. QED
  BY <1>1, <1>2

\* Of the rows a removal has seen, only those it drops answer those it drops.
SweptClosed(u) ==
  removal[u].at = "swept" =>
    /\ removal[u].upto <= inserted
    /\ \A q \in Rowed : q <= removal[u].upto /\ posts[q].ref \in Own(u) \ removal[u].needed
         => q \in Own(u) \ removal[u].needed

Sweeping == \A u \in Users : SweptClosed(u)

LEMMA SweptInsert ==
  ASSUME TypeOK, Ordered, NEW u \in Users, SweptClosed(u), NEW s \in Sessions,
         NEW row \in Rows, NEW media \in SUBSET Media, Inserts(s, row, media)
  PROVE  SweptClosed(u)'
<1> USE DEF TypeOK
<1> DEFINE n == inserted + 1
<1>1. /\ removal' = removal /\ inserted' = n /\ n \in Ids /\ posts'[n] = row
      /\ \A p \in Ids \ {n} : posts'[p] = posts[p]
  BY InsertMakes DEF Inserts
<1>2. row.ref # n /\ \A q \in Ids : posts[q].ref # n
  <2>1. row.ref = 0 \/ Exists(row.ref)
    BY DEF Inserts
  <2>2. row.ref \in Nat /\ \A q \in Ids : posts[q].ref \in Nat
    BY DEF Rows
  <2>3. QED
    BY <2>1, <2>2, PostsAssumption DEF Ordered, Exists
<1>3. removal[u].upto \in Nat
  BY DEF Removals
<1>4. ASSUME removal[u].at = "swept", NEW q \in Ids, posts'[q] # NoRow, q <= removal[u].upto,
             posts'[q].ref \in Own(u)' \ removal[u].needed
      PROVE  q \in Own(u)' \ removal[u].needed
  <2>1. q # n
    BY <1>3, <1>4 DEF SweptClosed, Ids
  <2>2. posts'[q] = posts[q] /\ q \in Rowed
    BY <1>1, <1>4, <2>1 DEF Rowed
  <2>3. posts[q].ref \in Own(u) \ removal[u].needed
    BY <1>1, <1>2, <1>4, <2>2 DEF Own, Rowed
  <2>4. q \in Own(u) \ removal[u].needed
    BY <1>4, <2>2, <2>3 DEF SweptClosed
  <2>5. QED
    BY <1>1, <2>1, <2>4 DEF Own, Rowed
<1>5. QED
  BY <1>1, <1>3, <1>4 DEF SweptClosed, Rowed

\* Rows go, but none of what stays changes hands or what it answers.
LEMMA SweptStays ==
  ASSUME TypeOK, NEW u \in Users, SweptClosed(u), Stays, removal'[u] = removal[u],
         \A p \in Ids : posts'[p] # NoRow /\ posts[p].author = u => posts'[p].author = u
  PROVE  SweptClosed(u)'
<1>1. ASSUME removal[u].at = "swept", NEW q \in Ids, posts'[q] # NoRow, q <= removal[u].upto,
             posts'[q].ref \in Own(u)' \ removal[u].needed
      PROVE  q \in Own(u)' \ removal[u].needed
  <2>1. u # "nobody"
    BY PostsAssumption
  <2>2. Own(u)' \subseteq Own(u)
    BY <2>1 DEF Own, Rowed, Stays
  <2>3. q \in Rowed /\ posts[q].ref \in Own(u) \ removal[u].needed
    BY <1>1, <2>2 DEF Stays, Rowed
  <2>4. q \in Own(u) \ removal[u].needed
    BY <1>1, <2>3 DEF SweptClosed
  <2>5. QED
    BY <1>1, <2>4 DEF Own, Rowed
<1>2. QED
  BY <1>1 DEF SweptClosed, Rowed, Stays

LEMMA SweptLooks ==
  ASSUME TypeOK, NEW u \in Users, sweep(u)
  PROVE  SweptClosed(u)'
<1> USE DEF TypeOK
<1>1. /\ removal'[u].needed = retained(u) /\ removal'[u].upto = inserted
      /\ UNCHANGED <<posts, inserted>>
  BY DEF sweep, Removal
<1>2. Own(u)' = Own(u) /\ Rowed' = Rowed
  BY <1>1 DEF Own, Rowed
<1>3. \A q \in Rowed : posts[q].ref \in Own(u) \ retained(u) => q \in Own(u) \ retained(u)
  BY RetainedCloses
<1>4. QED
  BY <1>1, <1>2, <1>3 DEF SweptClosed

LEMMA SweepingStep ==
  ASSUME TypeOK, Ordered, Sweeping, [Next]_vars, NEW u \in Users
  PROVE  SweptClosed(u)'
<1> USE DEF TypeOK
<1>1. SweptClosed(u)
  BY DEF Sweeping
<1>2. ASSUME NEW s \in Sessions, SessionStep(s) PROVE SweptClosed(u)'
  <2>1. CASE Publishes(s) \/ Clicks(s)
    BY <1>1, <2>1, InsertedTyped, SweptInsert
  <2>2. CASE ~Publishes(s) /\ ~Clicks(s)
    <3>1. removal' = removal
      BY <1>2 DEF SessionStep, Begins, Fail, lock_repost, lock_undo, Lock, Publishes, Clicks,
                  Inserts, Undoes, Adds, Unlikes, Deletes
    <3>2. QED
      BY <1>1, <1>2, <2>2, <3>1, SessionStays, AuthorStays, SweptStays
  <2>3. QED
    BY <2>1, <2>2
<1>3. ASSUME NEW v \in Users, RemovalStep(v) PROVE SweptClosed(u)'
  <2>1. CASE v # u
    <3>1. removal'[u] = removal[u]
      BY <1>3, <2>1 DEF RemovalStep, Waits, sweep, Commits, Removal
    <3>2. \A p \in Ids : posts'[p] # NoRow /\ posts[p].author = u => posts'[p].author = u
      BY <1>3, <2>1 DEF RemovalStep, Waits, sweep, Commits, Own
    <3>3. QED
      BY <1>1, <1>3, <3>1, <3>2, RemovalStays, SweptStays
  <2>2. CASE v = u /\ sweep(u)
    BY <2>2, SweptLooks
  <2>3. CASE v = u /\ ~sweep(u)
    <3>1. removal'[u].at # "swept"
      BY <1>3, <2>3 DEF RemovalStep, Waits, Commits, Removal, RemovalAt
    <3>2. QED
      BY <3>1 DEF SweptClosed
  <2>4. QED
    BY <1>3, <2>1, <2>2, <2>3
<1>4. CASE UNCHANGED vars
  BY <1>1, <1>4 DEF vars, SweptClosed, Own, Rowed
<1>5. QED
  BY <1>2, <1>3, <1>4, StepCases

LEMMA SweepingHolds == Spec => []Sweeping
<1>1. Init => Sweeping
  BY DEF Init, Sweeping, SweptClosed, NoRemoval, RemovalAt
<1>2. TypeOK /\ Ordered /\ Sweeping /\ [Next]_vars => Sweeping'
  BY SweepingStep DEF Sweeping
<1>3. QED
  BY <1>1, <1>2, TypeCorrect, OrderedHolds, PTL DEF Spec

\* The sweep's closure is complete, however long the chains of replies and
\* reposts are: whatever still answers a dropped post when the removal comes to
\* delete was inserted since, and that is what the foreign key is left to catch.
THEOREM SweepCorrect == Spec => []SweepFindsEveryDependant
<1>1. ASSUME TypeOK, Sweeping PROVE SweepFindsEveryDependant
  <2>1. \A u \in Users : removal[u].upto \in Nat /\ \A q \in Rowed : q \in Nat
    BY <1>1 DEF TypeOK, Removals, Rowed, Ids
  <2>2. QED
    BY <1>1, <2>1 DEF Sweeping, SweptClosed, SweepFindsEveryDependant
<1>2. QED
  BY <1>1, TypeCorrect, SweepingHolds, PTL
=============================================================================
