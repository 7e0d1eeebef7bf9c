------------------------------ MODULE Accounts ------------------------------
(***************************************************************************)
(* Accounts, the follows between them, and their permanent removal         *)
(* (app.users, app.account_deletion): who a token lets in, and requests    *)
(* that read, decide and commit in a transaction each, at READ COMMITTED.  *)
(*                                                                         *)
(* An identity lives in Cognito and its profile here; a token is verified  *)
(* by its signature and expiry alone, so one that was issued before the    *)
(* identity went still lets its bearer in.                                 *)
(***************************************************************************)
EXTENDS Naturals, FiniteSets

CONSTANTS
  Subs,         \* Cognito identities
  Faces,        \* what a profile's update may send: picture, no picture, avatar, no avatar
  Sessions,     \* requests that can be in flight at once
  MaxUsers,     \* bound: profiles ever created
  MaxRequests,  \* bound: requests begun, other than permanent removals
  MaxFailures   \* bound: requests that fail for a reason of their own

ASSUME AccountsAssumption ==
  /\ "nobody" \notin Subs
  /\ MaxUsers \in Nat \ {0} /\ MaxRequests \in Nat /\ MaxFailures \in Nat

Ids == 1..MaxUsers

VARIABLES
  pool,      \* the identities Cognito has
  token,     \* what each identity's client holds: none, recent (by auth_time), old
  users,     \* the row under each id, or NoUser
  created,   \* ids given out
  follows,   \* <<follower, followed>>
  request,   \* what each session is doing
  begun, failures,
  wanted,    \* identities whose owner asked for permanent removal
  passed     \* identities of which a removal got past the database

vars == <<pool, token, users, created, follows, request, begun, failures, wanted, passed>>

NoUser == [sub |-> "nobody", deleted |-> FALSE, picture |-> FALSE, avatar |-> FALSE, late |-> FALSE]
NoRequest == [op |-> "none", sub |-> "nobody", me |-> 0, who |-> 0, saw |-> NoUser,
              sets |-> "none", at |-> "none", swept |-> {}]

Ops == {"create", "deactivate", "recover", "patch", "follow", "unfollow", "remove"}

-----------------------------------------------------------------------------
(* Who a request is for *)

Rowed == {u \in Ids : users[u] # NoUser}
Of(sub) == {u \in Rowed : users[u].sub = sub}
Account(sub) == CHOOSE u \in Of(sub) : TRUE

\* get_own_account and get_current_user.
own_account(sub) == Of(sub) # {}
current_user(sub) == own_account(sub) /\ ~users[Account(sub)].deleted

\* The row locks of a removal, from its first statement to its commit.
Held(u) == \E s \in Sessions : request[s].op = "remove" /\ request[s].me = u /\ request[s].at \in {"locked", "swept"}

\* Faulty: the account is looked up without FOR UPDATE.
NeverHeld(u) == FALSE

Blocked(u) == Held(u)

-----------------------------------------------------------------------------
(* Cognito *)

SignIn(sub) ==
  /\ sub \in pool /\ token[sub] # "recent"
  /\ token' = [token EXCEPT ![sub] = "recent"]
  /\ UNCHANGED <<pool, users, created, follows, request, begun, failures, wanted, passed>>

\* Five minutes after sign-in it is no longer recent; later it expires, and
\* only an identity that is still there gets another.
Age(sub) ==
  /\ token[sub] # "none"
  /\ token' = [token EXCEPT ![sub] = IF @ = "recent" THEN "old" ELSE "none"]
  /\ UNCHANGED <<pool, users, created, follows, request, begun, failures, wanted, passed>>

-----------------------------------------------------------------------------
(* Requests: each begins with its checks, and ends with its commit *)

\* get_current_identity and the operation's own path to its account.
LetIn(op, sub) ==
  /\ token[sub] # "none"
  /\ op \in {"deactivate", "remove"} => token[sub] = "recent"
  /\ op \in {"deactivate", "recover"} => own_account(sub)
  /\ op \in {"patch", "follow", "unfollow"} => current_user(sub)

Entered(s, op, sub, who, sets, at) ==
  LET me == IF op # "create" /\ own_account(sub) THEN Account(sub) ELSE 0
  IN request' = [request EXCEPT ![s] =
       [op |-> op, sub |-> sub, me |-> IF op = "remove" THEN 0 ELSE me, who |-> who,
        saw |-> IF op = "patch" THEN users[me] ELSE NoUser, sets |-> sets, at |-> at,
        swept |-> {}]]

\* The first reads: a follow's and an unfollow's look at the pair, and what
\* deactivate and recover find already done ends them here.
Begin(s, op, sub, who, sets) ==
  /\ request[s] = NoRequest /\ begun < MaxRequests
  /\ LetIn(op, sub)
  /\ CASE op = "deactivate" -> ~users[Account(sub)].deleted
       [] op = "recover" -> users[Account(sub)].deleted
       [] op = "follow" -> who # Account(sub) /\ <<Account(sub), who>> \notin follows
       [] op = "unfollow" -> <<Account(sub), who>> \in follows
       [] OTHER -> TRUE
  /\ Entered(s, op, sub, who, sets, "checked")
  /\ begun' = begun + 1
  /\ UNCHANGED <<pool, token, users, created, follows, failures, wanted, passed>>

End(s) == request' = [request EXCEPT ![s] = NoRequest]

\* Its row was removed meanwhile, its statement breaks a constraint, its
\* process dies: rolled back, and the client sees an error.
Fail(s) ==
  /\ request[s].op # "none" /\ failures < MaxFailures
  /\ End(s)
  /\ failures' = failures + 1
  /\ UNCHANGED <<pool, token, users, created, follows, begun, wanted, passed>>

\* The statements that cannot succeed any more.
Refused(s) ==
  LET r == request[s]
  IN \/ r.op = "create" /\ (Of(r.sub) # {} \/ created = MaxUsers)
     \/ r.op \in {"deactivate", "recover", "patch"} /\ users[r.me] = NoUser
     \/ r.op = "follow" /\ (r.who \notin Rowed \/ users[r.me] = NoUser \/ <<r.me, r.who>> \in follows)

Refuse(s) ==
  /\ request[s].at = "checked" /\ Refused(s)
  /\ End(s)
  /\ UNCHANGED <<pool, token, users, created, follows, begun, failures, wanted, passed>>

\* create_user: one profile per identity, by a unique key.
create_user(s) ==
  LET r == request[s]
  IN /\ r.op = "create" /\ ~Refused(s)
     /\ users' = [users EXCEPT ![created + 1] =
                    [sub |-> r.sub, deleted |-> FALSE, picture |-> FALSE, avatar |-> FALSE,
                     late |-> r.sub \in passed]]
     /\ created' = created + 1
     /\ End(s)
     /\ UNCHANGED <<pool, token, follows, begun, failures, wanted, passed>>

Changes(s, row) ==
  LET r == request[s]
  IN /\ ~Refused(s) /\ ~Blocked(r.me)
     /\ users' = [users EXCEPT ![r.me] = row]
     /\ End(s)
     /\ UNCHANGED <<pool, token, created, follows, begun, failures, wanted, passed>>

soft_delete_user(s) ==
  request[s].op = "deactivate" /\ Changes(s, [users[request[s].me] EXCEPT !.deleted = TRUE])

recover_user(s) ==
  request[s].op = "recover" /\ Changes(s, [users[request[s].me] EXCEPT !.deleted = FALSE])

\* update_profile: a picture clears the preset and a preset, or none, clears
\* the picture; the UPDATE sets the columns whose value is another one than
\* the request read.
update_profile(s) ==
  LET r == request[s]
      face == CASE r.sets = "picture" -> [picture |-> TRUE, avatar |-> FALSE]
                [] r.sets = "no picture" -> [picture |-> FALSE, avatar |-> r.saw.avatar]
                [] r.sets = "avatar" -> [picture |-> FALSE, avatar |-> TRUE]
                [] OTHER -> [picture |-> FALSE, avatar |-> FALSE]
  IN /\ r.op = "patch"
     /\ Changes(s, [users[r.me] EXCEPT
                      !.picture = IF face.picture # r.saw.picture THEN face.picture ELSE @,
                      !.avatar = IF face.avatar # r.saw.avatar THEN face.avatar ELSE @])

\* follow: the insert waits for the locks its foreign keys need.
follow(s) ==
  LET r == request[s]
  IN /\ r.op = "follow" /\ ~Refused(s) /\ ~Blocked(r.me) /\ ~Blocked(r.who)
     /\ follows' = follows \cup {<<r.me, r.who>>}
     /\ End(s)
     /\ UNCHANGED <<pool, token, users, created, begun, failures, wanted, passed>>

\* A row that went meanwhile is a warning, not an error.
unfollow(s) ==
  LET r == request[s]
  IN /\ r.op = "unfollow"
     /\ follows' = follows \ {<<r.me, r.who>>}
     /\ End(s)
     /\ UNCHANGED <<pool, token, users, created, begun, failures, wanted, passed>>

-----------------------------------------------------------------------------
(* delete_account_data *)

\* DELETE /users/me/data, identity-keyed; asked again after a failure,
\* by whoever still has an account or an identity to remove.
ask_removal(s, sub) ==
  /\ request[s] = NoRequest /\ LetIn("remove", sub)
  /\ sub \in pool \/ own_account(sub)
  /\ request' = [request EXCEPT ![s] =
                   [op |-> "remove", sub |-> sub, me |-> 0, who |-> 0, saw |-> NoUser,
                    sets |-> "none", at |-> "asked", swept |-> {}]]
  /\ wanted' = wanted \cup {sub}
  /\ UNCHANGED <<pool, token, users, created, follows, begun, failures, passed>>

\* A removal gets on.
Goes(s, me, at, swept) ==
  LET r == request[s]
  IN request' = [request EXCEPT ![s] =
       [op |-> r.op, sub |-> r.sub, me |-> me, who |-> r.who, saw |-> r.saw, sets |-> r.sets,
        at |-> at, swept |-> swept]]

\* Faulty: without a profile there is nothing to remove.
lock_account_or_stop(s) ==
  LET r == request[s]
  IN /\ r.op = "remove" /\ r.at = "asked"
     /\ own_account(r.sub) => ~Blocked(Account(r.sub))
     /\ IF own_account(r.sub) THEN Goes(s, Account(r.sub), "locked", {}) ELSE End(s)
     /\ UNCHANGED <<pool, token, users, created, follows, begun, failures, wanted, passed>>

\* deletion_account_id: SELECT ... FOR UPDATE; without a profile only the
\* identity is left.
lock_account(s) ==
  LET r == request[s]
  IN /\ r.op = "remove" /\ r.at = "asked"
     /\ own_account(r.sub) => ~Blocked(Account(r.sub))
     /\ IF own_account(r.sub) THEN Goes(s, Account(r.sub), "locked", {}) /\ UNCHANGED passed
                              ELSE Goes(s, 0, "identity", {}) /\ passed' = passed \cup {r.sub}
     /\ UNCHANGED <<pool, token, users, created, follows, begun, failures, wanted>>

\* The uploads' objects, then each module's rows; the follows are the last
\* ones but the account's own.
remove_follows(s) ==
  LET r == request[s]
  IN /\ r.op = "remove" /\ r.at = "locked"
     /\ Goes(s, r.me, "swept", {f \in follows : r.me \in {f[1], f[2]}})
     /\ UNCHANGED <<pool, token, users, created, follows, begun, failures, wanted, passed>>

\* What keeps the account's row from being deleted.
Referring(s) == {f \in follows \ request[s].swept : request[s].me \in {f[1], f[2]}}

remove_account(s) ==
  LET r == request[s]
  IN /\ r.op = "remove" /\ r.at = "swept" /\ Referring(s) = {}
     /\ users' = [users EXCEPT ![r.me] = NoUser]
     /\ follows' = follows \ r.swept
     /\ Goes(s, 0, "identity", {})
     /\ passed' = passed \cup {r.sub}
     /\ UNCHANGED <<pool, token, created, begun, failures, wanted>>

\* Faulty: the identity goes first.
delete_identity_first(s) ==
  LET r == request[s]
  IN /\ r.op = "remove" /\ r.at \in {"asked", "identity"}
     /\ pool' = pool \ {r.sub}
     /\ IF r.at = "identity" THEN End(s) ELSE UNCHANGED request
     /\ UNCHANGED <<token, users, created, follows, begun, failures, wanted, passed>>

\* AdminDeleteUser, which may find nothing.
delete_identity(s) ==
  LET r == request[s]
  IN /\ r.op = "remove" /\ r.at = "identity"
     /\ pool' = pool \ {r.sub}
     /\ End(s)
     /\ UNCHANGED <<token, users, created, follows, begun, failures, wanted, passed>>

-----------------------------------------------------------------------------

Init ==
  /\ pool = Subs
  /\ token = [sub \in Subs |-> "recent"]
  /\ users = [u \in Ids |-> NoUser] /\ created = 0
  /\ follows = {}
  /\ request = [s \in Sessions |-> NoRequest]
  /\ begun = 0 /\ failures = 0
  /\ wanted = {} /\ passed = {}

Commit(s) ==
  /\ request[s].at = "checked"
  /\ \/ create_user(s) \/ soft_delete_user(s) \/ recover_user(s) \/ update_profile(s)
     \/ follow(s) \/ unfollow(s)

Removing(s) == lock_account(s) \/ remove_follows(s) \/ remove_account(s) \/ delete_identity(s)

Start(s) ==
  \E sub \in Subs :
    \/ \E op \in {"create", "deactivate", "recover"} : Begin(s, op, sub, 0, "none")
    \/ \E face \in Faces : Begin(s, "patch", sub, 0, face)
    \/ \E op \in {"follow", "unfollow"}, who \in Ids : Begin(s, op, sub, who, "none")

Next ==
  \/ \E sub \in Subs : SignIn(sub) \/ Age(sub)
  \/ \E s \in Sessions : \/ Start(s) \/ Commit(s) \/ Refuse(s) \/ Fail(s) \/ Removing(s)
                         \/ \E sub \in Subs : ask_removal(s, sub)

\* Every request runs to an end, and an owner who asked for removal signs in
\* again and asks again until the identity is gone.
AsksAgain(sub) == sub \in wanted /\ \E s \in Sessions : ask_removal(s, sub)

Spec ==
  /\ Init /\ [][Next]_vars
  /\ \A s \in Sessions : WF_vars(Commit(s) \/ Refuse(s) \/ Removing(s))
  /\ \A sub \in Subs : WF_vars(sub \in wanted /\ SignIn(sub)) /\ SF_vars(AsksAgain(sub))

-----------------------------------------------------------------------------
(* Properties *)

\* A removal that is about to delete the account's row finds no follow left
\* that refers to it, however many requests follow it or are made by it
\* meanwhile: the row lock of its first statement is what stops them
\* (users/service.py deletion_account_id, remove_account_user).
RemovalFindsNoFollow ==
  \A s \in Sessions : request[s].op = "remove" /\ request[s].at = "swept" => Referring(s) = {}

\* The identity goes last: once it is gone nothing of the account is left that
\* was there before its removal got past the database, so the owner could
\* always ask again; only a token issued before can make a profile after it
\* (account_deletion.py "Retryable deletion").
NothingIsStranded == \A u \in Rowed : users[u].sub \notin pool => users[u].late

\* A removal that its owner asks for is carried out, also when attempts fail
\* before or after the database's commit.
WantedRemovalHappens == \A sub \in Subs : sub \in wanted ~> sub \notin pool
=============================================================================
