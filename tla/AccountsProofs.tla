---------------------------- MODULE AccountsProofs ---------------------------
(***************************************************************************)
(* Proofs about Accounts, for every set of identities and of requests in   *)
(* flight, and every bound.                                                *)
(***************************************************************************)
EXTENDS Accounts, TLAPS

Rows == [sub : Subs \cup {"nobody"}, deleted : BOOLEAN, picture : BOOLEAN, avatar : BOOLEAN,
         late : BOOLEAN]
Requests == [op : Ops \cup {"none"}, sub : Subs \cup {"nobody"}, me : 0..MaxUsers, who : 0..MaxUsers,
             saw : Rows, sets : Faces \cup {"none"},
             at : {"none", "checked", "asked", "locked", "swept", "identity"},
             swept : SUBSET (Ids \X Ids)]

TypeOK ==
  /\ pool \subseteq Subs /\ passed \subseteq Subs
  /\ users \in [Ids -> Rows] /\ created \in 0..MaxUsers
  /\ follows \subseteq Ids \X Ids
  /\ request \in [Sessions -> Requests]

\* The rows: given out in order, one per identity, and of no identity but those
\* whose removal got past the database without a profile made since.
Profiles ==
  /\ \A u \in Ids : users[u] # NoUser => users[u].sub \in Subs /\ u <= created
  /\ \A u, v \in Ids : users[u] # NoUser /\ users[u].sub = users[v].sub => u = v
  /\ Subs \ pool \subseteq passed
  /\ \A u \in Ids : users[u] # NoUser /\ users[u].sub \notin pool => users[u].late

\* A removal holds its account's row until it deletes it, alone; from its sweep
\* on no follow refers to the row; and once past the database, what profile the
\* identity has was made after.
Removals ==
  /\ \A s \in Sessions : request[s].op # "remove" =>
       /\ request[s].at \in {"none", "checked"}
       /\ request[s].op \notin {"none", "create"} => request[s].me \in Ids
  /\ \A s \in Sessions : request[s].op # "none" => request[s].sub \in Subs
  /\ \A s \in Sessions : request[s].at \in {"locked", "swept"} =>
       /\ request[s].me \in Ids /\ users[request[s].me] # NoUser
       /\ users[request[s].me].sub = request[s].sub
  /\ \A s, t \in Sessions :
       /\ request[s].at \in {"locked", "swept"} /\ request[t].at \in {"locked", "swept"}
       /\ request[s].me = request[t].me
       => s = t
  /\ \A s \in Sessions : request[s].at = "swept" =>
       \A f \in follows : request[s].me \in {f[1], f[2]} => f \in request[s].swept
  /\ \A s \in Sessions : request[s].at = "identity" =>
       /\ request[s].sub \in passed
       /\ \A u \in Ids : users[u] # NoUser /\ users[u].sub = request[s].sub => users[u].late

Inv == TypeOK /\ Profiles /\ Removals

-----------------------------------------------------------------------------
(* What a step does, whichever operation takes it *)

\* A request begins, waits or ends, and no table is written.
Waits(s) ==
  /\ \E r \in Requests :
       /\ request' = [request EXCEPT ![s] = r]
       /\ r.at \in {"none", "checked", "asked"}
       /\ r.op # "remove" => /\ r.at \in {"none", "checked"}
                             /\ r.op \notin {"none", "create"} => r.me \in Ids
       /\ r.op # "none" => r.sub \in Subs
  /\ UNCHANGED <<pool, users, created, follows, passed>>

\* A row is changed, and stays its identity's.
Updates(s) ==
  /\ \E row \in Rows :
       /\ row.sub = users[request[s].me].sub /\ row.late = users[request[s].me].late
       /\ users' = [users EXCEPT ![request[s].me] = row]
  /\ request[s].me \in Ids /\ users[request[s].me] # NoUser
  /\ ~Held(request[s].me)
  /\ End(s)
  /\ UNCHANGED <<pool, created, follows, passed>>

Creates(s) ==
  /\ request[s].op = "create" /\ Of(request[s].sub) = {} /\ created # MaxUsers
  /\ users' = [users EXCEPT ![created + 1] =
                 [sub |-> request[s].sub, deleted |-> FALSE, picture |-> FALSE, avatar |-> FALSE,
                  late |-> request[s].sub \in passed]]
  /\ created' = created + 1
  /\ End(s)
  /\ UNCHANGED <<pool, follows, passed>>

Follows(s) ==
  /\ request[s].me \in Ids /\ request[s].who \in Ids
  /\ ~Held(request[s].me) /\ ~Held(request[s].who)
  /\ follows' = follows \cup {<<request[s].me, request[s].who>>}
  /\ End(s)
  /\ UNCHANGED <<pool, users, created, passed>>

Unfollows(s) ==
  /\ follows' = follows \ {<<request[s].me, request[s].who>>}
  /\ End(s)
  /\ UNCHANGED <<pool, users, created, passed>>

Locks(s) ==
  LET u == Account(request[s].sub) IN
  /\ request[s].op = "remove" /\ request[s].at = "asked"
  /\ u \in Ids /\ users[u] # NoUser /\ users[u].sub = request[s].sub /\ ~Held(u)
  /\ Goes(s, u, "locked", {})
  /\ UNCHANGED <<pool, users, created, follows, passed>>

FindsNone(s) ==
  /\ request[s].op = "remove" /\ Of(request[s].sub) = {}
  /\ Goes(s, 0, "identity", {})
  /\ passed' = passed \cup {request[s].sub}
  /\ request[s].sub \in Subs
  /\ UNCHANGED <<pool, users, created, follows>>

Sweeps(s) ==
  /\ request[s].op = "remove" /\ request[s].at = "locked"
  /\ Goes(s, request[s].me, "swept", {f \in follows : request[s].me \in {f[1], f[2]}})
  /\ UNCHANGED <<pool, users, created, follows, passed>>

Removes(s) ==
  /\ request[s].op = "remove" /\ request[s].at = "swept"
  /\ users' = [users EXCEPT ![request[s].me] = NoUser]
  /\ follows' = follows \ request[s].swept
  /\ Goes(s, 0, "identity", {})
  /\ passed' = passed \cup {request[s].sub}
  /\ UNCHANGED <<pool, created>>

Leaves(s) ==
  /\ request[s].op = "remove" /\ request[s].at = "identity"
  /\ pool' = pool \ {request[s].sub}
  /\ End(s)
  /\ UNCHANGED <<users, created, follows, passed>>

SessionStep(s) ==
  \/ Waits(s) \/ Updates(s) \/ Creates(s) \/ Follows(s) \/ Unfollows(s)
  \/ Locks(s) \/ FindsNone(s) \/ Sweeps(s) \/ Removes(s) \/ Leaves(s)

Unseen == UNCHANGED <<pool, users, created, follows, request, passed>>

-----------------------------------------------------------------------------
(* Every step is one of these *)

LEMMA NoRequestTyped == NoRequest \in Requests /\ NoRequest.at = "none" /\ NoRequest.op = "none"
                        /\ NoUser \in Rows
BY AccountsAssumption DEF NoRequest, Requests, NoUser, Rows

LEMMA EndWaits ==
  ASSUME NEW s \in Sessions, End(s), UNCHANGED <<pool, users, created, follows, passed>>
  PROVE  Waits(s)
BY NoRequestTyped DEF End, Waits

LEMMA AccountIsOwn ==
  ASSUME NEW sub, own_account(sub)
  PROVE  Account(sub) \in Ids /\ users[Account(sub)] # NoUser /\ users[Account(sub)].sub = sub
<1>1. Account(sub) \in Of(sub)
  BY DEF own_account, Account
<1>2. QED
  BY <1>1 DEF Of, Rowed

LEMMA EnteredWaits ==
  ASSUME TypeOK, NEW s \in Sessions, NEW op \in Ops \ {"remove"}, NEW sub \in Subs,
         NEW who \in 0..MaxUsers, NEW sets \in Faces \cup {"none"},
         op # "create" => own_account(sub),
         Entered(s, op, sub, who, sets, "checked"),
         UNCHANGED <<pool, users, created, follows, passed>>
  PROVE  Waits(s)
<1> DEFINE me == IF op # "create" /\ own_account(sub) THEN Account(sub) ELSE 0
           saw == IF op = "patch" THEN users[me] ELSE NoUser
           r == [op |-> op, sub |-> sub, me |-> me, who |-> who, saw |-> saw, sets |-> sets,
                 at |-> "checked", swept |-> {}]
<1>1. me \in 0..MaxUsers
  BY AccountIsOwn, AccountsAssumption DEF Ids
<1>2. saw \in Rows
  BY AccountIsOwn, NoRequestTyped DEF TypeOK
<1>3. request' = [request EXCEPT ![s] = r]
  BY DEF Entered
<1> HIDE DEF me, saw
<1>4. r \in Requests
  BY <1>1, <1>2 DEF Requests
<1>5. r.at = "checked" /\ r.op = op /\ r.me = me /\ r.sub = sub /\ (op # "create" => me \in Ids)
  BY AccountIsOwn DEF me
<1> HIDE DEF r
<1>6. QED
  BY <1>3, <1>4, <1>5 DEF Waits

LEMMA StartCases ==
  ASSUME TypeOK, NEW s \in Sessions, Start(s)
  PROVE  Waits(s)
<1>1. ASSUME NEW op \in Ops \ {"remove"}, NEW sub \in Subs, NEW who \in 0..MaxUsers,
             NEW sets \in Faces \cup {"none"}, Begin(s, op, sub, who, sets)
      PROVE  Waits(s)
  <2>1. op # "create" => own_account(sub)
    BY <1>1 DEF Begin, LetIn, current_user, Ops
  <2>2. Entered(s, op, sub, who, sets, "checked") /\ UNCHANGED <<pool, users, created, follows, passed>>
    BY <1>1 DEF Begin
  <2>3. QED
    BY <2>1, <2>2, EnteredWaits
<1>2. /\ {"create", "deactivate", "recover", "patch", "follow", "unfollow"} \subseteq Ops \ {"remove"}
      /\ Ids \subseteq 0..MaxUsers /\ 0 \in 0..MaxUsers
  BY AccountsAssumption DEF Ops, Ids
<1>3. QED
  <2>1. ASSUME NEW sub \in Subs, NEW op \in {"create", "deactivate", "recover"},
               Begin(s, op, sub, 0, "none")
        PROVE  Waits(s)
    BY <1>1, <1>2, <2>1
  <2>2. ASSUME NEW sub \in Subs, NEW face \in Faces, Begin(s, "patch", sub, 0, face)
        PROVE  Waits(s)
    BY <1>1, <1>2, <2>2
  <2>3. ASSUME NEW sub \in Subs, NEW op \in {"follow", "unfollow"}, NEW who \in Ids,
               Begin(s, op, sub, who, "none")
        PROVE  Waits(s)
    BY <1>1, <1>2, <2>3
  <2>4. QED
    BY <2>1, <2>2, <2>3 DEF Start

LEMMA AskCases ==
  ASSUME NEW s \in Sessions, NEW sub \in Subs, ask_removal(s, sub)
  PROVE  Waits(s)
<1> DEFINE r == [op |-> "remove", sub |-> sub, me |-> 0, who |-> 0, saw |-> NoUser,
                 sets |-> "none", at |-> "asked", swept |-> {}]
<1>1. request' = [request EXCEPT ![s] = r]
  BY DEF ask_removal, NoRequest
<1>2. r \in Requests
  BY NoRequestTyped, AccountsAssumption DEF Requests, Ops
<1>3. QED
  BY <1>1, <1>2 DEF Waits, ask_removal

LEMMA ChangesCases ==
  ASSUME TypeOK, NEW s \in Sessions, NEW row, Changes(s, row),
         request[s].op \in {"deactivate", "recover", "patch"},
         request[s].me \in Ids /\ users[request[s].me] # NoUser =>
           row \in Rows /\ row.sub = users[request[s].me].sub /\ row.late = users[request[s].me].late
  PROVE  Updates(s) \/ request[s].me \notin Ids
BY DEF Changes, Updates, Refused, Blocked

LEMMA CommitCases ==
  ASSUME Inv, NEW s \in Sessions, Commit(s)
  PROVE  SessionStep(s)
<1> USE DEF Inv, TypeOK
<1>1. request[s] \in Requests
  OBVIOUS
<1>2. request[s].me \in Ids => users[request[s].me] \in Rows
  OBVIOUS
<1>3. CASE create_user(s)
  <2>2. Creates(s)
    BY <1>3 DEF create_user, Creates, Refused, NoUser
  <2>3. QED
    BY <2>2 DEF SessionStep
<1>4. CASE soft_delete_user(s)
  <2>1. request[s].me \in Ids
    BY <1>4 DEF soft_delete_user, Removals
  <2> DEFINE old == users[request[s].me]
             row == [old EXCEPT !.deleted = TRUE]
  <2>2. old \in Rows
    BY <1>2, <2>1
  <2>3. row \in Rows /\ row.sub = old.sub /\ row.late = old.late
    BY <2>2 DEF Rows
  <2>4. Changes(s, row) /\ request[s].op = "deactivate"
    BY <1>4 DEF soft_delete_user
  <2> HIDE DEF row
  <2>5. QED
    BY <2>1, <2>3, <2>4, ChangesCases DEF SessionStep
<1>5. CASE recover_user(s)
  <2>1. request[s].me \in Ids
    BY <1>5 DEF recover_user, Removals
  <2> DEFINE old == users[request[s].me]
             row == [old EXCEPT !.deleted = FALSE]
  <2>2. old \in Rows
    BY <1>2, <2>1
  <2>3. row \in Rows /\ row.sub = old.sub /\ row.late = old.late
    BY <2>2 DEF Rows
  <2>4. Changes(s, row) /\ request[s].op = "recover"
    BY <1>5 DEF recover_user
  <2> HIDE DEF row
  <2>5. QED
    BY <2>1, <2>3, <2>4, ChangesCases DEF SessionStep
<1>6. CASE update_profile(s)
  <2>1. request[s].me \in Ids
    BY <1>6 DEF update_profile, Removals
  <2> DEFINE old == users[request[s].me]
             saw == request[s].saw
             face == CASE request[s].sets = "picture" -> [picture |-> TRUE, avatar |-> FALSE]
                       [] request[s].sets = "no picture" -> [picture |-> FALSE, avatar |-> saw.avatar]
                       [] request[s].sets = "avatar" -> [picture |-> FALSE, avatar |-> TRUE]
                       [] OTHER -> [picture |-> FALSE, avatar |-> FALSE]
             picture == IF face.picture # saw.picture THEN face.picture ELSE old.picture
             avatar == IF face.avatar # saw.avatar THEN face.avatar ELSE old.avatar
             row == [old EXCEPT !.picture = picture, !.avatar = avatar]
  <2>2. old \in Rows /\ saw \in Rows
    BY <1>1, <1>2, <2>1 DEF Requests
  <2>3. face.picture \in BOOLEAN /\ face.avatar \in BOOLEAN
    <3>1. saw.avatar \in BOOLEAN
      BY <2>2 DEF Rows
    <3>2. CASE request[s].sets = "picture"
      BY <3>2
    <3>3. CASE request[s].sets = "no picture"
      BY <3>1, <3>3
    <3>4. CASE request[s].sets = "avatar"
      BY <3>4
    <3>5. CASE request[s].sets \notin {"picture", "no picture", "avatar"}
      BY <3>5
    <3>6. QED
      BY <3>2, <3>3, <3>4, <3>5
  <2>4. Changes(s, row) /\ request[s].op = "patch"
    BY <1>6 DEF update_profile
  <2> HIDE DEF face
  <2>5. picture \in BOOLEAN /\ avatar \in BOOLEAN
    BY <2>2, <2>3 DEF Rows
  <2> HIDE DEF picture, avatar
  <2>6. row \in Rows /\ row.sub = old.sub /\ row.late = old.late
    BY <2>2, <2>5 DEF Rows
  <2> HIDE DEF row
  <2>7. QED
    BY <2>1, <2>4, <2>6, ChangesCases DEF SessionStep
<1>7. CASE follow(s)
  BY <1>7 DEF follow, Follows, Removals, Refused, Blocked, Rowed, SessionStep
<1>8. CASE unfollow(s)
  BY <1>8 DEF unfollow, Unfollows, SessionStep
<1>9. QED
  BY <1>3, <1>4, <1>5, <1>6, <1>7, <1>8 DEF Commit

LEMMA RemovingCases ==
  ASSUME Inv, NEW s \in Sessions, Removing(s)
  PROVE  SessionStep(s)
<1> USE DEF SessionStep
<1>1. CASE lock_account(s) /\ own_account(request[s].sub)
  BY <1>1, AccountIsOwn DEF lock_account, Locks, Blocked
<1>2. CASE lock_account(s) /\ ~own_account(request[s].sub)
  <2>1. Of(request[s].sub) = {}
    BY <1>2 DEF own_account
  <2>2. request[s].sub \in Subs
    BY <1>2 DEF lock_account, Inv, Removals
  <2>3. QED
    BY <1>2, <2>1, <2>2 DEF lock_account, FindsNone
<1>3. CASE remove_follows(s)
  BY <1>3 DEF remove_follows, Sweeps
<1>4. CASE remove_account(s)
  BY <1>4 DEF remove_account, Removes
<1>5. CASE delete_identity(s)
  BY <1>5 DEF delete_identity, Leaves
<1>6. QED
  BY <1>1, <1>2, <1>3, <1>4, <1>5 DEF Removing

LEMMA StepCases ==
  ASSUME Inv, [Next]_vars
  PROVE  (\E s \in Sessions : SessionStep(s)) \/ Unseen
<1>1. ASSUME NEW s \in Sessions, Start(s) \/ \E sub \in Subs : ask_removal(s, sub)
      PROVE  SessionStep(s)
  BY <1>1, StartCases, AskCases DEF SessionStep, Inv
<1>2. ASSUME NEW s \in Sessions, Refuse(s) \/ Fail(s) PROVE SessionStep(s)
  BY <1>2, EndWaits DEF Refuse, Fail, SessionStep
<1>3. ASSUME NEW sub, SignIn(sub) \/ Age(sub) PROVE Unseen
  BY <1>3 DEF SignIn, Age, Unseen
<1>4. CASE UNCHANGED vars
  BY <1>4 DEF vars, Unseen
<1>5. QED
  BY <1>1, <1>2, <1>3, <1>4, CommitCases, RemovingCases DEF Next

-----------------------------------------------------------------------------
(* The invariant *)

LEMMA GoesTyped ==
  ASSUME TypeOK, NEW s \in Sessions, NEW me \in 0..MaxUsers,
         NEW at \in {"locked", "swept", "identity"}, NEW swept \in SUBSET (Ids \X Ids),
         Goes(s, me, at, swept)
  PROVE  /\ request' \in [Sessions -> Requests]
         /\ \A t \in Sessions \ {s} : request'[t] = request[t]
         /\ request'[s].op = request[s].op /\ request'[s].sub = request[s].sub
         /\ request'[s].me = me /\ request'[s].at = at /\ request'[s].swept = swept
<1> DEFINE r == [op |-> request[s].op, sub |-> request[s].sub, me |-> me, who |-> request[s].who,
                 saw |-> request[s].saw, sets |-> request[s].sets, at |-> at, swept |-> swept]
<1>1. request' = [request EXCEPT ![s] = r] /\ request[s] \in Requests
  BY DEF Goes, TypeOK
<1>2. r \in Requests
  BY <1>1 DEF Requests
<1>3. QED
  BY <1>1, <1>2 DEF TypeOK

LEMMA EndTyped ==
  ASSUME TypeOK, NEW s \in Sessions, End(s)
  PROVE  /\ request' \in [Sessions -> Requests]
         /\ \A t \in Sessions \ {s} : request'[t] = request[t]
         /\ request'[s].op = "none" /\ request'[s].at = "none"
BY NoRequestTyped DEF End, TypeOK

LEMMA TypeStep ==
  ASSUME Inv, NEW s \in Sessions, SessionStep(s)
  PROVE  TypeOK'
<1> USE DEF Inv, TypeOK
<1>1. request[s] \in Requests /\ 0 \in 0..MaxUsers /\ Ids \subseteq 0..MaxUsers
  BY AccountsAssumption DEF Ids
<1>2. CASE Waits(s)
  BY <1>2 DEF Waits
<1>3. CASE Updates(s)
  BY <1>3, EndTyped DEF Updates
<1>4. CASE Creates(s)
  <2>1. created + 1 \in Ids /\ created + 1 \in 0..MaxUsers
    BY <1>4, AccountsAssumption DEF Creates, Ids
  <2>2. [sub |-> request[s].sub, deleted |-> FALSE, picture |-> FALSE, avatar |-> FALSE,
         late |-> request[s].sub \in passed] \in Rows
    BY <1>1 DEF Rows, Requests
  <2>3. QED
    BY <1>4, <2>1, <2>2, EndTyped DEF Creates
<1>5. CASE Follows(s)
  BY <1>5, EndTyped DEF Follows
<1>6. CASE Unfollows(s)
  BY <1>6, EndTyped DEF Unfollows
<1>7. CASE Locks(s)
  <2>1. PICK u \in 0..MaxUsers : Goes(s, u, "locked", {}) /\ {} \in SUBSET (Ids \X Ids)
    BY <1>1, <1>7 DEF Locks
  <2>2. request' \in [Sessions -> Requests]
    BY <2>1, GoesTyped
  <2>3. QED
    BY <1>7, <2>2 DEF Locks
<1>8. CASE FindsNone(s)
  BY <1>1, <1>8, GoesTyped DEF FindsNone
<1>9. CASE Sweeps(s)
  <2>1. request[s].me \in 0..MaxUsers
    BY <1>1 DEF Requests
  <2>2. QED
    BY <1>9, <2>1, GoesTyped DEF Sweeps
<1>10. CASE Removes(s)
  <2>1. 0 \in 0..MaxUsers /\ {} \in SUBSET (Ids \X Ids)
    BY AccountsAssumption
  <2>2. request[s].sub \in Subs
    BY <1>10 DEF Removes, Removals
  <2>3. request' \in [Sessions -> Requests]
    BY <1>1, <1>10, <2>1, GoesTyped DEF Removes
  <2>4. users' \in [Ids -> Rows]
    BY <1>10, NoRequestTyped DEF Removes
  <2>5. QED
    BY <1>10, <2>2, <2>3, <2>4 DEF Removes
<1>11. CASE Leaves(s)
  BY <1>11, EndTyped DEF Leaves
<1>12. QED
  BY <1>2, <1>3, <1>4, <1>5, <1>6, <1>7, <1>8, <1>9, <1>10, <1>11 DEF SessionStep

LEMMA ProfilesStep ==
  ASSUME Inv, NEW s \in Sessions, SessionStep(s)
  PROVE  Profiles'
<1> USE DEF Inv, TypeOK
<1>1. CASE UNCHANGED <<pool, users, created, passed>>
  BY <1>1 DEF Profiles
<1>2. CASE Updates(s)
  <2> DEFINE u == request[s].me
  <2>1. PICK row \in Rows : /\ row.sub = users[u].sub /\ row.late = users[u].late
                            /\ users' = [users EXCEPT ![u] = row]
    BY <1>2 DEF Updates
  <2>2. u \in Ids /\ users[u] # NoUser /\ UNCHANGED <<pool, created, passed>>
    BY <1>2 DEF Updates
  <2> HIDE DEF u
  <2>3. \A v \in Ids : /\ users'[v] # NoUser => users[v] # NoUser
                       /\ users'[v].sub = users[v].sub /\ users'[v].late = users[v].late
    BY <2>1, <2>2
  <2>4. QED
    BY <2>2, <2>3 DEF Profiles
<1>3. CASE Creates(s)
  <2> DEFINE n == created + 1
             sub == request[s].sub
             row == [sub |-> sub, deleted |-> FALSE, picture |-> FALSE, avatar |-> FALSE,
                     late |-> sub \in passed]
  <2>1. /\ users' = [users EXCEPT ![n] = row] /\ created' = n
        /\ UNCHANGED <<pool, passed>>
    BY <1>3 DEF Creates
  <2>2. row.sub = sub /\ row.late = (sub \in passed)
    OBVIOUS
  <2>3. n \in Ids /\ created \in Nat
    BY <1>3, AccountsAssumption DEF Creates, Ids
  <2>4. sub \in Subs
    BY <1>3 DEF Creates, Removals
  <2>5. \A v \in Ids : users[v] # NoUser => users[v].sub # sub
    BY <1>3 DEF Creates, Of, Rowed
  <2> HIDE DEF n, row, sub
  <2>6. /\ users'[n] = row
        /\ \A v \in Ids \ {n} : users'[v] = users[v]
    BY <2>1, <2>3
  <2>7. NoUser.sub = "nobody" /\ "nobody" \notin Subs
    BY AccountsAssumption DEF NoUser
  <2>8. \A u \in Ids : users'[u] # NoUser => users'[u].sub \in Subs /\ u <= created'
    BY <2>1, <2>2, <2>3, <2>4, <2>6 DEF Profiles, Ids, n
  <2>9. \A u, v \in Ids : users'[u] # NoUser /\ users'[u].sub = users'[v].sub => u = v
    <3>1. \A v \in Ids : users[v].sub = sub => users[v] # NoUser
      BY <2>4, <2>7
    <3>2. QED
      BY <2>2, <2>5, <2>6, <3>1 DEF Profiles
  <2>10. \A u \in Ids : users'[u] # NoUser /\ users'[u].sub \notin pool => users'[u].late
    BY <2>2, <2>4, <2>6 DEF Profiles
  <2>11. QED
    BY <2>1, <2>8, <2>9, <2>10 DEF Profiles
<1>4. CASE Removes(s)
  <2> DEFINE m == request[s].me
  <2>1. users' = [users EXCEPT ![m] = NoUser] /\ UNCHANGED <<pool, created>> /\ passed \subseteq passed'
    BY <1>4 DEF Removes
  <2>2. m \in Ids /\ NoUser.sub = "nobody" /\ "nobody" \notin Subs
    BY <1>4, AccountsAssumption DEF Removes, Removals, NoUser
  <2> HIDE DEF m
  <2>3. \A v \in Ids : users'[v] = NoUser \/ users'[v] = users[v]
    BY <2>1, <2>2
  <2>4. QED
    BY <2>1, <2>2, <2>3 DEF Profiles
<1>5. CASE FindsNone(s)
  BY <1>5 DEF FindsNone, Profiles
<1>6. CASE Leaves(s)
  <2>1. /\ request[s].sub \in passed
        /\ \A u \in Ids : users[u] # NoUser /\ users[u].sub = request[s].sub => users[u].late
    BY <1>6 DEF Leaves, Removals
  <2>2. pool' = pool \ {request[s].sub} /\ UNCHANGED <<users, created, passed>>
    BY <1>6 DEF Leaves
  <2>3. QED
    BY <2>1, <2>2 DEF Profiles
<1>7. QED
  BY <1>1, <1>2, <1>3, <1>4, <1>5, <1>6
     DEF SessionStep, Waits, Follows, Unfollows, Locks, Sweeps

\* What the other requests do, as a removal sees it: the rows of accounts that
\* are held stay, a profile made of an identity that is past is late, and no
\* follow of an account that is held is added.
Bystands ==
  /\ \A u \in Ids : Held(u) => users'[u] # NoUser /\ users'[u].sub = users[u].sub
  /\ \A u \in Ids : users'[u] # NoUser =>
       \/ users[u] # NoUser /\ users'[u].sub = users[u].sub /\ users'[u].late = users[u].late
       \/ users'[u].sub \in passed => users'[u].late
  /\ \A f \in follows' : f \in follows \/ (~Held(f[1]) /\ ~Held(f[2]))
  /\ passed \subseteq passed'

LEMMA RemovalsKept ==
  ASSUME Inv, NEW s \in Sessions, Bystands,
         \A t \in Sessions \ {s} : request'[t] = request[t],
         request'[s].at \in {"none", "checked", "asked"},
         request'[s].op # "remove" => /\ request'[s].at \in {"none", "checked"}
                                      /\ request'[s].op \notin {"none", "create"} => request'[s].me \in Ids,
         request'[s].op # "none" => request'[s].sub \in Subs
  PROVE  Removals'
<1> USE DEF Inv
<1>1. \A t \in Sessions : request'[t].op # "remove" =>
        /\ request'[t].at \in {"none", "checked"}
        /\ request'[t].op \notin {"none", "create"} => request'[t].me \in Ids
  BY DEF Removals
<1>2. \A t \in Sessions : request'[t].op # "none" => request'[t].sub \in Subs
  BY DEF Removals
<1>3. \A t \in Sessions : request'[t].at \in {"locked", "swept", "identity"} =>
        t # s /\ request'[t] = request[t]
  OBVIOUS
<1>4. \A t \in Sessions : request[t].at \in {"locked", "swept"} =>
        request[t].me \in Ids /\ Held(request[t].me)
  BY DEF Removals, Held
<1>5. ASSUME NEW t \in Sessions, request'[t].at \in {"locked", "swept"}
      PROVE  /\ request'[t].me \in Ids /\ users'[request'[t].me] # NoUser
             /\ users'[request'[t].me].sub = request'[t].sub
  BY <1>3, <1>4, <1>5 DEF Removals, Bystands
<1>6. ASSUME NEW t \in Sessions, request'[t].at = "swept", NEW f \in follows',
             request'[t].me \in {f[1], f[2]}
      PROVE  f \in request'[t].swept
  BY <1>3, <1>4, <1>6 DEF Removals, Bystands
<1>7. ASSUME NEW t \in Sessions, request'[t].at = "identity"
      PROVE  /\ request'[t].sub \in passed'
             /\ \A u \in Ids : users'[u] # NoUser /\ users'[u].sub = request'[t].sub => users'[u].late
  BY <1>3, <1>7 DEF Removals, Bystands
<1>8. \A t, v \in Sessions :
        /\ request'[t].at \in {"locked", "swept"} /\ request'[v].at \in {"locked", "swept"}
        /\ request'[t].me = request'[v].me
        => t = v
  BY <1>3 DEF Removals
<1>9. QED
  BY <1>1, <1>2, <1>5, <1>6, <1>7, <1>8 DEF Removals

LEMMA RemovalsEnd ==
  ASSUME Inv, NEW s \in Sessions, Bystands, End(s)
  PROVE  Removals'
BY RemovalsKept, EndTyped DEF Inv

\* A removal that gets on leaves the others as they are.
LEMMA RemovalsStep ==
  ASSUME Inv, NEW s \in Sessions, SessionStep(s)
  PROVE  Removals'
<1> USE DEF Inv
<1>1. TypeOK /\ request[s] \in Requests
  BY DEF TypeOK
<1>2. ASSUME UNCHANGED <<users, follows>>, passed \subseteq passed' PROVE Bystands
  <2>1. \A u \in Ids : Held(u) => users[u] # NoUser
    BY DEF Held, Removals
  <2>2. QED
    BY <1>2, <2>1 DEF Bystands
<1>3. CASE Waits(s)
  <2>1. PICK r \in Requests :
          /\ request' = [request EXCEPT ![s] = r]
          /\ r.at \in {"none", "checked", "asked"}
          /\ r.op # "remove" => /\ r.at \in {"none", "checked"}
                                /\ r.op \notin {"none", "create"} => r.me \in Ids
          /\ r.op # "none" => r.sub \in Subs
    BY <1>3 DEF Waits
  <2>2. Bystands
    BY <1>2, <1>3 DEF Waits
  <2>3. request'[s] = r /\ \A t \in Sessions \ {s} : request'[t] = request[t]
    BY <1>1, <2>1 DEF TypeOK
  <2>4. QED
    BY <2>1, <2>2, <2>3, RemovalsKept
<1>4. CASE Updates(s)
  <2> DEFINE u == request[s].me
  <2>1. PICK row \in Rows : /\ row.sub = users[u].sub /\ row.late = users[u].late
                            /\ users' = [users EXCEPT ![u] = row]
    BY <1>4 DEF Updates
  <2>2. /\ u \in Ids /\ users[u] # NoUser /\ ~Held(u) /\ UNCHANGED <<follows, passed>>
        /\ End(s)
    BY <1>4 DEF Updates
  <2> HIDE DEF u
  <2>3. \A v \in Ids : /\ users[v] # NoUser \/ users'[v] = NoUser
                       /\ users'[v].sub = users[v].sub /\ users'[v].late = users[v].late
                       /\ v # u => users'[v] = users[v]
    BY <1>1, <2>1, <2>2 DEF TypeOK
  <2>4. \A v \in Ids : Held(v) => users[v] # NoUser
    BY DEF Held, Removals
  <2>5. Bystands
    BY <2>2, <2>3, <2>4 DEF Bystands
  <2>6. QED
    BY <2>2, <2>5, RemovalsEnd
<1>5. CASE Creates(s)
  <2> DEFINE n == created + 1
             row == [sub |-> request[s].sub, deleted |-> FALSE, picture |-> FALSE, avatar |-> FALSE,
                     late |-> request[s].sub \in passed]
  <2>1. /\ users' = [users EXCEPT ![n] = row] /\ UNCHANGED <<follows, passed>> /\ End(s)
    BY <1>5 DEF Creates
  <2>2. row.sub = request[s].sub /\ row.late = (request[s].sub \in passed)
    OBVIOUS
  <2>3. users[n] = NoUser /\ n \in Ids
    BY <1>1, <1>5, AccountsAssumption DEF Creates, TypeOK, Profiles, Ids
  <2> HIDE DEF n, row
  <2>4. users'[n] = row /\ \A v \in Ids \ {n} : users'[v] = users[v]
    BY <1>1, <2>1, <2>3 DEF TypeOK
  <2>5. \A v \in Ids : Held(v) => users[v] # NoUser
    BY DEF Held, Removals
  <2>6. Bystands
    BY <2>1, <2>2, <2>3, <2>4, <2>5 DEF Bystands
  <2>7. QED
    BY <2>1, <2>6, RemovalsEnd
<1>6. CASE Follows(s)
  <2>1. \A u \in Ids : Held(u) => users[u] # NoUser
    BY DEF Held, Removals
  <2>2. Bystands
    BY <1>6, <2>1 DEF Bystands, Follows
  <2>3. QED
    BY <1>6, <2>2, RemovalsEnd DEF Follows
<1>7. CASE Unfollows(s)
  <2>1. \A u \in Ids : Held(u) => users[u] # NoUser
    BY DEF Held, Removals
  <2>2. Bystands
    BY <1>7, <2>1 DEF Bystands, Unfollows
  <2>3. QED
    BY <1>7, <2>2, RemovalsEnd DEF Unfollows
<1>8. CASE Leaves(s)
  <2>1. Bystands
    BY <1>2, <1>8 DEF Leaves
  <2>2. QED
    BY <1>8, <2>1, RemovalsEnd DEF Leaves
<1>9. CASE Locks(s)
  <2> DEFINE u == Account(request[s].sub)
  <2>1. /\ u \in Ids /\ users[u] # NoUser /\ users[u].sub = request[s].sub /\ ~Held(u)
        /\ Goes(s, u, "locked", {}) /\ request[s].op = "remove"
        /\ UNCHANGED <<users, follows, passed>>
    BY <1>9 DEF Locks
  <2> HIDE DEF u
  <2>2. u \in 0..MaxUsers /\ {} \in SUBSET (Ids \X Ids)
    BY <2>1, AccountsAssumption DEF Ids
  <2>3. /\ \A t \in Sessions \ {s} : request'[t] = request[t]
        /\ request'[s].op = "remove" /\ request'[s].sub = request[s].sub
        /\ request'[s].me = u /\ request'[s].at = "locked"
    BY <1>1, <2>1, <2>2, GoesTyped
  <2>4. ASSUME NEW t \in Sessions \ {s}, request'[t].at \in {"locked", "swept"} PROVE request'[t].me # u
    <3>1. request[t].op = "remove" /\ request[t].at \in {"locked", "swept"}
      BY <2>3, <2>4 DEF Removals
    <3>2. QED
      BY <2>1, <2>3, <3>1 DEF Held
  <2>5. \A t, v \in Sessions :
          /\ request'[t].at \in {"locked", "swept"} /\ request'[v].at \in {"locked", "swept"}
          /\ request'[t].me = request'[v].me
          => t = v
    BY <2>3, <2>4 DEF Removals
  <2>6. QED
    BY <2>1, <2>3, <2>5 DEF Removals
<1>10. CASE FindsNone(s)
  <2>1. /\ Of(request[s].sub) = {} /\ Goes(s, 0, "identity", {}) /\ request[s].op = "remove"
        /\ passed' = passed \cup {request[s].sub} /\ UNCHANGED <<users, follows>>
        /\ request[s].sub \in Subs
    BY <1>10 DEF FindsNone
  <2>2. 0 \in 0..MaxUsers /\ {} \in SUBSET (Ids \X Ids)
    BY AccountsAssumption
  <2>3. /\ \A t \in Sessions \ {s} : request'[t] = request[t]
        /\ request'[s].op = "remove" /\ request'[s].sub = request[s].sub
        /\ request'[s].at = "identity"
    BY <1>1, <2>1, <2>2, GoesTyped
  <2>4. \A u \in Ids : users[u] # NoUser => users[u].sub # request[s].sub
    BY <2>1 DEF Of, Rowed
  <2>5. QED
    BY <2>1, <2>3, <2>4 DEF Removals
<1>11. CASE Sweeps(s)
  <2> DEFINE swept == {f \in follows : request[s].me \in {f[1], f[2]}}
  <2>1. /\ Goes(s, request[s].me, "swept", swept) /\ UNCHANGED <<users, follows, passed>>
        /\ request[s].op = "remove" /\ request[s].at = "locked"
    BY <1>11 DEF Sweeps
  <2>2. request[s].me \in 0..MaxUsers /\ swept \in SUBSET (Ids \X Ids)
    BY <1>1 DEF Requests, TypeOK
  <2>3. \A f \in follows : request[s].me \in {f[1], f[2]} => f \in swept
    OBVIOUS
  <2> HIDE DEF swept
  <2>4. /\ \A t \in Sessions \ {s} : request'[t] = request[t]
        /\ request'[s].op = "remove" /\ request'[s].sub = request[s].sub
        /\ request'[s].me = request[s].me /\ request'[s].at = "swept" /\ request'[s].swept = swept
    BY <1>1, <2>1, <2>2, GoesTyped
  <2>5. \A t, v \in Sessions :
          /\ request'[t].at \in {"locked", "swept"} /\ request'[v].at \in {"locked", "swept"}
          /\ request'[t].me = request'[v].me
          => t = v
    BY <2>1, <2>4 DEF Removals
  <2>6. QED
    BY <2>1, <2>3, <2>4, <2>5 DEF Removals
<1>12. CASE Removes(s)
  <2> DEFINE m == request[s].me
  <2>1. /\ users' = [users EXCEPT ![m] = NoUser] /\ follows' \subseteq follows
        /\ Goes(s, 0, "identity", {})
        /\ passed' = passed \cup {request[s].sub}
        /\ request[s].op = "remove" /\ request[s].at = "swept"
    BY <1>12 DEF Removes
  <2>2. 0 \in 0..MaxUsers /\ {} \in SUBSET (Ids \X Ids)
    BY AccountsAssumption
  <2>3. m \in Ids /\ users[m] # NoUser /\ users[m].sub = request[s].sub
    BY <2>1 DEF Removals
  <2>4. \A t \in Sessions \ {s} : request[t].at \in {"locked", "swept"} => request[t].me # m
    BY <2>1 DEF Removals
  <2> HIDE DEF m
  <2>5. /\ \A t \in Sessions \ {s} : request'[t] = request[t]
        /\ request'[s].op = "remove" /\ request'[s].sub = request[s].sub /\ request'[s].at = "identity"
    BY <1>1, <2>1, <2>2, GoesTyped
  <2>6. \A v \in Ids : /\ v # m => users'[v] = users[v]
                       /\ users'[m] = NoUser
    BY <1>1, <2>1, <2>3 DEF TypeOK
  <2>7. \A v \in Ids : users'[v] # NoUser => users[v] = users'[v] /\ users'[v].sub # request[s].sub
    BY <2>3, <2>6 DEF Profiles
  <2>8. request[s].sub \in Subs
    BY <2>1 DEF Removals
  <2>9. \A t \in Sessions : request'[t].at \in {"locked", "swept"} =>
          /\ request'[t].me \in Ids /\ users'[request'[t].me] # NoUser
          /\ users'[request'[t].me].sub = request'[t].sub
    BY <2>4, <2>5, <2>6 DEF Removals
  <2>10. \A t \in Sessions : request'[t].at = "swept" =>
           \A f \in follows' : request'[t].me \in {f[1], f[2]} => f \in request'[t].swept
    BY <2>1, <2>5 DEF Removals
  <2>11. \A t \in Sessions : request'[t].at = "identity" =>
           /\ request'[t].sub \in passed'
           /\ \A u \in Ids : users'[u] # NoUser /\ users'[u].sub = request'[t].sub => users'[u].late
    BY <2>1, <2>5, <2>7 DEF Removals
  <2>12. \A t, v \in Sessions :
           /\ request'[t].at \in {"locked", "swept"} /\ request'[v].at \in {"locked", "swept"}
           /\ request'[t].me = request'[v].me
           => t = v
    BY <2>5 DEF Removals
  <2>13. \A t \in Sessions : /\ request'[t].op # "remove" =>
                                  /\ request'[t].at \in {"none", "checked"}
                                  /\ request'[t].op \notin {"none", "create"} => request'[t].me \in Ids
                             /\ request'[t].op # "none" => request'[t].sub \in Subs
    BY <2>1, <2>5, <2>8 DEF Removals
  <2>14. QED
    BY <2>9, <2>10, <2>11, <2>12, <2>13 DEF Removals
<1>13. QED
  BY <1>3, <1>4, <1>5, <1>6, <1>7, <1>8, <1>9, <1>10, <1>11, <1>12 DEF SessionStep

LEMMA InvHolds == Spec => []Inv
<1>1. Init => Inv
  BY AccountsAssumption, NoRequestTyped DEF Init, Inv, TypeOK, Profiles, Removals
<1>2. Inv /\ [Next]_vars => Inv'
  <2>1. ASSUME Inv, Unseen PROVE Inv'
    BY <2>1 DEF Inv, TypeOK, Profiles, Removals, Unseen
  <2>2. QED
    BY <2>1, StepCases, TypeStep, ProfilesStep, RemovalsStep DEF Inv
<1>3. QED
  BY <1>1, <1>2, PTL DEF Spec

\* The rows, the requests and the follow graph stay well formed.
THEOREM TypeCorrect == Spec => []TypeOK
<1>1. Inv => TypeOK
  BY DEF Inv
<1>2. QED
  BY <1>1, InvHolds, PTL

\* The row lock of a removal's first statement keeps every follow out until the
\* account's row goes, for any number of requests.
THEOREM NoFollowCorrect == Spec => []RemovalFindsNoFollow
<1>1. Inv => RemovalFindsNoFollow
  BY DEF Inv, Removals, RemovalFindsNoFollow, Referring
<1>2. QED
  BY <1>1, InvHolds, PTL

\* Since the identity goes last, whoever has a profile from before can ask for
\* its removal again, wherever the last attempt stopped.
THEOREM StrandedCorrect == Spec => []NothingIsStranded
<1>1. Inv => NothingIsStranded
  BY DEF Inv, Profiles, NothingIsStranded, Rowed
<1>2. QED
  BY <1>1, InvHolds, PTL
=============================================================================
