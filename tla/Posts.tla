------------------------------- MODULE Posts --------------------------------
(***************************************************************************)
(* Posts, replies and reposts, the likes and reports on them, and what the *)
(* permanent removal of their author does to them.                         *)
(*                                                                         *)
(* Every request reads, decides and commits in a transaction of its own at *)
(* READ COMMITTED: what it read may be stale by the time it commits.  Only *)
(* the foreign and unique keys, the advisory lock of a repost and the row  *)
(* locks of a removal stand between two requests.                          *)
(***************************************************************************)
EXTENDS Naturals, FiniteSets

CONSTANTS
  Users,
  Media,        \* processed uploads
  Sessions,     \* requests that can be in flight at once
  MaxPosts,     \* rows ever inserted
  MaxRequests,  \* requests ever begun
  Ops           \* the operations the requests are taken from

ASSUME PostsAssumption ==
  /\ IsFiniteSet(Users) /\ IsFiniteSet(Media) /\ IsFiniteSet(Sessions)
  /\ MaxPosts \in Nat \ {0} /\ MaxRequests \in Nat
  /\ "nobody" \notin Users
  /\ Ops \subseteq {"publish", "click", "undo", "like", "unlike", "report", "delete", "remove"}

VARIABLES
  posts,     \* the row under each id, or NoRow
  inserted,  \* how many ids were given out
  attached,  \* the post an upload is attached to, 0, or Deleted with its row
  marks,     \* likes and reports
  accounts,  \* users with a local row
  request,   \* what each session is doing
  asked,     \* how many requests were begun
  removal    \* the permanent removal of each account

vars == <<posts, inserted, attached, marks, accounts, request, asked, removal>>

Ids == 1..MaxPosts
Deleted == MaxPosts + 1

NoRow == [author |-> "nobody", kind |-> "none", ref |-> 0, text |-> FALSE,
          deleted |-> 0, reported |-> FALSE, clicked |-> FALSE]
Rows == [author : Users \cup {"nobody"}, kind : {"none", "post", "reply", "repost"},
         ref : 0..MaxPosts, text : BOOLEAN, deleted : 0..MaxRequests + 1,
         reported : BOOLEAN, clicked : BOOLEAN]

Marks == [what : {"like", "report"}, user : Users, post : Ids]
Mark(what, u, p) == [what |-> what, user |-> u, post |-> p]

NoRequest == [op |-> "none", user |-> "nobody", post |-> 0, kind |-> "none", text |-> FALSE,
              media |-> {}, ids |-> {}, at |-> "none", stamp |-> 0]
Requests == [op : Ops \cup {"none"}, user : Users \cup {"nobody"}, post : 0..MaxPosts,
             kind : {"none", "post", "reply", "repost"}, text : BOOLEAN, media : SUBSET Media,
             ids : SUBSET Ids, at : {"none", "checked", "locked"}, stamp : 0..MaxRequests]

\* Past the sweep a removal remembers what it saw; before, and after, nothing.
RemovalAt(at) == [at |-> at, needed |-> {}, swept |-> {}, upto |-> 0]
NoRemoval == RemovalAt("none")
Removals == [at : {"none", "asked", "locked", "swept", "done"}, needed : SUBSET Ids,
             swept : SUBSET Marks, upto : 0..MaxPosts]

TypeOK ==
  /\ posts \in [Ids -> Rows]
  /\ inserted \in 0..MaxPosts
  /\ attached \in [Media -> 0..Deleted]
  /\ marks \subseteq Marks
  /\ accounts \subseteq Users
  /\ request \in [Sessions -> Requests]
  /\ asked \in 0..MaxRequests
  /\ removal \in [Users -> Removals]

Init ==
  /\ posts = [p \in Ids |-> NoRow]
  /\ inserted = 0
  /\ attached = [m \in Media |-> 0]
  /\ marks = {}
  /\ accounts = Users
  /\ request = [s \in Sessions |-> NoRequest]
  /\ asked = 0
  /\ removal = [u \in Users |-> NoRemoval]

-----------------------------------------------------------------------------
(* What the queries answer *)

Exists(p) == p \in Ids /\ posts[p] # NoRow
Rowed == {p \in Ids : posts[p] # NoRow}

\* The owner has not deleted it: what a new interaction may name.
Undeleted(p) == Exists(p) /\ posts[p].deleted = 0

HasMedia(p) == \E m \in Media : attached[m] = p

is_plain_repost(p) == posts[p].kind = "repost" /\ ~posts[p].text /\ ~HasMedia(p)

\* What a repost of a post points at: a plain repost stands for what it
\* reposts.  An original has the smaller id, so the chain ends.
repost_target ==
  LET target[p \in Ids] == IF is_plain_repost(p) /\ posts[p].ref \in 1..(p - 1)
                           THEN target[posts[p].ref] ELSE p
  IN target

\* Faulty: a text-less repost is plain whatever it carries.
textless_reposts_by(u, p) ==
  {q \in Rowed : posts[q].author = u /\ posts[q].ref = p /\ posts[q].kind = "repost"
                 /\ ~posts[q].text}

plain_reposts_by(u, p) ==
  {q \in Rowed : posts[q].author = u /\ posts[q].ref = p /\ is_plain_repost(q)}

\* A reply or a repost of one of the posts.
in_use(ids) == \E q \in Rowed : posts[q].ref \in ids

Own(u) == {p \in Rowed : posts[p].author = u}

\* A removal holds the account's row from its first statement to its commit.
Held(u) == removal[u].at \in {"locked", "swept"}

\* Uploads whose rows a removal has locked.
HeldMedia == {m \in Media : \E u \in Users : Held(u) /\ attached[m] \in Own(u)}

-----------------------------------------------------------------------------
(* Requests: each begins with its checks, and ends with its commit *)

\* The route's get_current_user, then the operation's own first checks.
Begin(s, op, u, kind, p, text, media) ==
  /\ op \in Ops /\ request[s] = NoRequest /\ asked < MaxRequests
  /\ u \in accounts
  /\ request' = [request EXCEPT ![s] =
                   [op |-> op, user |-> u, post |-> p, kind |-> kind, text |-> text,
                    media |-> media, ids |-> {}, at |-> "checked", stamp |-> asked + 1]]
  /\ asked' = asked + 1
  /\ UNCHANGED <<posts, inserted, attached, marks, accounts, removal>>

BeginOn(s, op, u, p) == Begin(s, op, u, "none", p, FALSE, {})

End(s) == request' = [request EXCEPT ![s] = NoRequest]

\* The request is refused, or its statement fails and it is rolled back.
Fail(s) ==
  /\ End(s)
  /\ UNCHANGED <<posts, inserted, attached, marks, accounts, asked, removal>>

Ready(s, op, at) == request[s].op = op /\ request[s].at = at

\* A row that names the user waits while a removal holds the account, and
\* its foreign key fails once the removal has committed.
UserKey(u) == u \in accounts

create_post(s) ==
  \E u \in Users, kind \in {"post", "reply", "repost"}, ref \in 0..MaxPosts,
    text \in BOOLEAN, media \in SUBSET Media :
    /\ (kind = "post") = (ref = 0) /\ (kind # "repost" => text)
    /\ ref = 0 \/ Undeleted(ref)
    /\ \A m \in media : attached[m] # Deleted
    /\ Begin(s, "publish", u, kind, ref, text, media)

\* INSERT, attach the uploads, COMMIT.
Insert(s, row, media) ==
  /\ ~Held(row.author) /\ media \cap HeldMedia = {}
  /\ \/ /\ UserKey(row.author) /\ (row.ref = 0 \/ Exists(row.ref))
        /\ \A m \in media : attached[m] # Deleted
        /\ inserted < MaxPosts /\ inserted' = inserted + 1
        /\ posts' = [posts EXCEPT ![inserted + 1] = row]
        /\ attached' = [m \in Media |-> IF m \in media THEN inserted + 1 ELSE attached[m]]
        /\ End(s)
        /\ UNCHANGED <<marks, accounts, asked, removal>>
     \/ /\ \/ ~UserKey(row.author) \/ (row.ref # 0 /\ ~Exists(row.ref))
           \/ \E m \in media : attached[m] = Deleted
        /\ Fail(s)

NewRow(u, kind, ref, text, clicked) ==
  [author |-> u, kind |-> kind, ref |-> ref, text |-> text, deleted |-> 0,
   reported |-> FALSE, clicked |-> clicked]

publish(s) ==
  /\ Ready(s, "publish", "checked")
  /\ LET r == request[s] IN Insert(s, NewRow(r.user, r.kind, r.post, r.text, FALSE), r.media)

\* The one-click repost.  Its target is resolved, and seen undeleted, first.
repost_post(s) ==
  \E u \in Users, p \in Rowed :
    LET target == repost_target[p] IN
    /\ Undeleted(target)
    /\ BeginOn(s, "click", u, target)

unrepost_post(s) ==
  \E u \in Users, p \in Rowed, target \in Ids :
    target = repost_target[p] /\ BeginOn(s, "undo", u, target)

\* Faulty: no lock.
AlwaysFree(s) == TRUE

\* The advisory lock of the pair of a user and an original is free.
Free(s) ==
  \A t \in Sessions \ {s} :
    request[t].at = "locked" =>
      <<request[t].user, request[t].post>> # <<request[s].user, request[s].post>>

Lock(s, ids) ==
  /\ request' = [request EXCEPT ![s] =
                   [op |-> @.op, user |-> @.user, post |-> @.post, kind |-> @.kind, text |-> @.text,
                    media |-> @.media, ids |-> ids, at |-> "locked", stamp |-> @.stamp]]
  /\ UNCHANGED <<posts, inserted, attached, marks, accounts, asked, removal>>

\* Under the lock: the repost the caller already has, or a new one.
lock_repost(s) ==
  /\ Ready(s, "click", "checked") /\ Free(s)
  /\ IF plain_reposts_by(request[s].user, request[s].post) # {} THEN Fail(s) ELSE Lock(s, {})

\* The facade's own look at the original is the session's copy, already read.
publish_repost(s) ==
  /\ Ready(s, "click", "locked")
  /\ Insert(s, NewRow(request[s].user, "repost", request[s].post, FALSE, TRUE), {})

\* Moderation refuses the post.
refused(s) ==
  /\ Ready(s, "publish", "checked") \/ Ready(s, "click", "locked")
  /\ Fail(s)

lock_undo(s) ==
  /\ Ready(s, "undo", "checked") /\ Free(s)
  /\ LET ids == plain_reposts_by(request[s].user, request[s].post) IN
     IF ids = {} \/ in_use(ids) THEN Fail(s) ELSE Lock(s, ids)

\* The reposts go with their likes and reports, or a reply, a like or a
\* report that came since keeps them all.
delete_reposts(s) ==
  LET ids == request[s].ids IN
  /\ Ready(s, "undo", "locked")
  /\ \/ Fail(s)
     \/ /\ ~in_use(ids)
        /\ posts' = [p \in Ids |-> IF p \in ids THEN NoRow ELSE posts[p]]
        /\ marks' = {k \in marks : k.post \notin ids}
        /\ End(s)
        /\ UNCHANGED <<inserted, attached, accounts, asked, removal>>

\* The first half of like_post, unlike_post and report_post.
mark_checked(s, op, what) ==
  \E u \in Users, p \in Ids :
    /\ Undeleted(p)
    /\ (op = "unlike") = (Mark(what, u, p) \in marks)
    /\ BeginOn(s, op, u, p)

\* INSERT, COMMIT: the unique key and the foreign keys decide.  A report
\* also sets the post's flag.
Add(s, op, what) ==
  LET r == request[s]
      k == Mark(what, r.user, r.post) IN
  /\ Ready(s, op, "checked") /\ ~Held(r.user)
  /\ IF k \in marks \/ ~UserKey(r.user) \/ ~Exists(r.post) THEN Fail(s)
     ELSE /\ marks' = marks \cup {k}
          /\ posts' = [posts EXCEPT ![r.post].reported = @ \/ what = "report"]
          /\ End(s)
          /\ UNCHANGED <<inserted, attached, accounts, asked, removal>>

like_post(s) == mark_checked(s, "like", "like")
commit_like(s) == Add(s, "like", "like")
report_post(s) == mark_checked(s, "report", "report")
commit_report(s) == Add(s, "report", "report")
unlike_post(s) == mark_checked(s, "unlike", "like")

commit_unlike(s) ==
  /\ Ready(s, "unlike", "checked")
  /\ marks' = marks \ {Mark("like", request[s].user, request[s].post)}
  /\ End(s)
  /\ UNCHANGED <<posts, inserted, attached, accounts, asked, removal>>

delete_post(s) ==
  \E u \in Users : \E p \in Own(u) :
    /\ ~is_plain_repost(p) /\ posts[p].deleted = 0
    /\ BeginOn(s, "delete", u, p)

\* UPDATE posts SET deleted_at: whatever the row says by now.
commit_delete(s) ==
  /\ Ready(s, "delete", "checked")
  /\ IF ~Exists(request[s].post) THEN Fail(s)
     ELSE /\ posts' = [posts EXCEPT ![request[s].post].deleted = request[s].stamp]
          /\ End(s)
          /\ UNCHANGED <<inserted, attached, marks, accounts, asked, removal>>

-----------------------------------------------------------------------------
(* remove_account_posts, inside the account's removal *)

Answers(p) == {posts[p].ref} \cap Ids

\* Faulty: only what others answer directly.
retained_directly(u) == {p \in Own(u) : \E q \in Rowed \ Own(u) : posts[q].ref = p}

\* The owned posts others' rows need: the least set with what another
\* author's (or an anonymous) row answers and what its own members answer.
retained(u) ==
  LET base == {p \in Own(u) : \E q \in Rowed \ Own(u) : posts[q].ref = p}
      closed(S) == base \subseteq S /\ \A q \in S : Answers(q) \cap Own(u) \subseteq S
  IN {p \in Own(u) : \A S \in SUBSET Own(u) : closed(S) => p \in S}

Removal(u, r) == removal' = [removal EXCEPT ![u] = r]

ask_removal(u) ==
  /\ "remove" \in Ops /\ removal[u].at = "none" /\ asked < MaxRequests
  /\ asked' = asked + 1
  /\ Removal(u, RemovalAt("asked"))
  /\ UNCHANGED <<posts, inserted, attached, marks, accounts, request>>

lock_account(u) ==
  /\ removal[u].at = "asked"
  /\ Removal(u, RemovalAt("locked"))
  /\ UNCHANGED <<posts, inserted, attached, marks, accounts, request, asked>>

Swept(u) == {k \in marks : k.user = u \/ k.post \in Own(u)}

\* The likes and reports of the account and on its posts are deleted, and
\* the posts to retain are read; none of it is committed yet.
sweep(u) ==
  /\ removal[u].at = "locked"
  /\ Removal(u, [at |-> "swept", needed |-> retained(u), upto |-> inserted,
                 swept |-> Swept(u)])
  /\ UNCHANGED <<posts, inserted, attached, marks, accounts, request, asked>>

\* Faulty: the text stays.
Anonymised_author(row) ==
  [row EXCEPT !.author = "nobody", !.deleted = IF @ = 0 THEN MaxRequests + 1 ELSE @]

Anonymised(row) ==
  [author |-> "nobody", kind |-> row.kind, ref |-> row.ref, text |-> FALSE,
   deleted |-> IF row.deleted = 0 THEN MaxRequests + 1 ELSE row.deleted,
   reported |-> row.reported, clicked |-> row.clicked]

\* The rest of the deletes and the commit, or a foreign key's refusal: a
\* reply, a repost, a like or a report that came since the sweep.  The
\* client is told to retry.
commit_removal(u) ==
  LET needed == removal[u].needed
      left == marks \ removal[u].swept
      dropped == Own(u) \ needed IN
  /\ removal[u].at = "swept"
  /\ IF \/ \E q \in Rowed \ dropped : posts[q].ref \in dropped
        \/ \E k \in left : k.post \in dropped \/ k.user = u
     THEN /\ Removal(u, RemovalAt("asked"))
          /\ UNCHANGED <<posts, attached, marks, accounts>>
     ELSE /\ posts' = [p \in Ids |-> IF p \in dropped THEN NoRow
                                     ELSE IF p \in Own(u) THEN Anonymised(posts[p])
                                     ELSE posts[p]]
          /\ attached' = [m \in Media |-> IF attached[m] \in Own(u) THEN Deleted ELSE attached[m]]
          /\ marks' = left
          /\ accounts' = accounts \ {u}
          /\ Removal(u, RemovalAt("done"))
  /\ UNCHANGED <<inserted, request, asked>>

Removing(u) == lock_account(u) \/ sweep(u) \/ commit_removal(u)

Ending(s) ==
  \/ publish(s) \/ lock_repost(s) \/ publish_repost(s) \/ refused(s)
  \/ lock_undo(s) \/ delete_reposts(s)
  \/ commit_like(s) \/ commit_report(s) \/ commit_unlike(s) \/ commit_delete(s)

Next ==
  \/ \E s \in Sessions :
       \/ create_post(s) \/ repost_post(s) \/ unrepost_post(s)
       \/ like_post(s) \/ report_post(s) \/ unlike_post(s) \/ delete_post(s)
       \/ Ending(s)
  \/ \E u \in Users : ask_removal(u) \/ Removing(u)

Spec == Init /\ [][Next]_vars

-----------------------------------------------------------------------------
(* Properties *)

\* The one-click repost is idempotent and race-free: whatever requests
\* interleave, a user has one of it for an original.
ClickedOnce ==
  \A p, q \in Rowed :
    /\ posts[p].clicked /\ posts[q].clicked
    /\ posts[p].author = posts[q].author /\ posts[p].author # "nobody"
    /\ posts[p].ref = posts[q].ref
    => p = q

\* A row leaves the table only as a plain repost, or in the commit that
\* removes its author: un-reposting takes no quote and no image with it.
OnlyPlainRepostsVanish ==
  [][\A p \in Rowed : posts'[p] = NoRow =>
       is_plain_repost(p) \/ posts[p].author \in accounts \ accounts']_vars

\* The retained closure is complete: when a removal comes to delete, only a
\* row inserted after it looked can still need one of the posts it drops.
SweepFindsEveryDependant ==
  \A u \in Users : removal[u].at = "swept" =>
    \A q \in Rowed \ (Own(u) \ removal[u].needed) :
      posts[q].ref \in Own(u) \ removal[u].needed => q > removal[u].upto

\* A removed account is gone with its posts, likes and reports, whatever its
\* requests still in flight did; what others answer has lost its content.
RemovedLeavesNoTrace ==
  /\ \A u \in Users : removal[u].at = "done" =>
       Own(u) = {} /\ \A k \in marks : k.user # u
  /\ \A p \in Rowed : posts[p].author = "nobody" =>
       posts[p].deleted # 0 /\ ~posts[p].text /\ ~HasMedia(p)

=============================================================================
