-------------------------------- MODULE Feed --------------------------------
(***************************************************************************)
(* Reading posts back (app.feed): the feed, an account's own history and a *)
(* thread.  A list is walked a page a request, and a request is a sequence *)
(* of statements, each with a snapshot of its own at READ COMMITTED, while *)
(* the posts, the likes, the follows and the accounts change.              *)
(*                                                                         *)
(* Posts are never edited, so a row that a session has loaded can be stale *)
(* only in being there and undeleted.  A list is a set here: its order, by *)
(* id or by the time of the like, matters only to where a page ends.       *)
(***************************************************************************)
EXTENDS Naturals, FiniteSets

CONSTANTS
  Users, Viewer,
  TeamGames,  \* the games of the viewer's preferred team
  Links,      \* attachments whose target events/ accepts: [type, ref, scope]
  LineGame,   \* the game of each player's line
  Worlds,     \* what there is when the walk begins: [posts, likes, liking, live, follows, now]
  Drafts,     \* bound: what callers compose
  Limit,      \* page size
  MaxPosts,   \* bound: ids
  MaxWrites   \* bound: changes while a walk goes on

VARIABLES
  posts,    \* the row under each id, or NoPost
  likes,    \* [user, post, at]
  liking,   \* likes whose transaction has begun, with the stamp they will have
  live,     \* accounts that are not deactivated
  follows,  \* whom the viewer follows
  now,      \* the clock a like is stamped with
  writes,
  walk,     \* the list being read, how far, and what of it was shown
  request   \* the page being read

vars == <<posts, likes, liking, live, follows, now, writes, walk, request>>

Ids == 1..MaxPosts
Tabs == {"posts", "replies", "likes", "reposts"}

NoLink == [type |-> "none", ref |-> 0, scope |-> "none"]
NoColumns == [game |-> 0, line |-> 0, line_game |-> 0, player |-> 0, scope |-> "none"]

\* An undone repost has no row any more; its values stay for who loaded it.
\* made: there has been a row under the id.
NoPost == [author |-> "nobody", is_reply |-> FALSE, parent |-> 0, is_repost |-> FALSE, original |-> 0,
           text |-> FALSE, media |-> FALSE, mentions |-> {}, link |-> NoLink, columns |-> NoColumns,
           made |-> FALSE, is |-> "undone"]

\* What attaches to a post; an id is never 0, which stands for NULL.
SoundLinks ==
  {NoLink} \cup [type : {"game_final"}, ref : Nat \ {0}, scope : {"none"}]
           \cup [type : {"player_game"}, ref : DOMAIN LineGame, scope : {"none"}]
           \cup [type : {"player_career"}, ref : Nat \ {0}, scope : {"regular", "playoffs"}]

\* What may be asked of the facade: a reference with its flag or without it, and both at once.
Draft == [is_reply : BOOLEAN, parent : Ids \cup {0}, is_repost : BOOLEAN, original : Ids \cup {0},
          text : BOOLEAN, media : BOOLEAN, link : Links \cup {NoLink}]

ASSUME FeedAssumption ==
  /\ Viewer \in Users /\ "nobody" \notin Users
  /\ Limit \in Nat \ {0} /\ MaxPosts \in Nat /\ MaxWrites \in Nat
  /\ TeamGames \subseteq Nat \ {0} /\ Links \subseteq SoundLinks \ {NoLink}
  /\ DOMAIN LineGame \subseteq Nat \ {0}
  /\ LineGame \in [DOMAIN LineGame -> Nat \ {0}]
  /\ Drafts \subseteq Draft

Start == [id |-> 0, at |-> 0]
NoRequest == [at |-> "none", rows |-> {}, next |-> FALSE, fetched |-> {}, stand_ins |-> {}, deleted |-> {},
              root_deleted |-> FALSE, authors |-> {}, page |-> {}, seen |-> {}, hid |-> {}, quiet |-> TRUE]

-----------------------------------------------------------------------------
(* A post's one attachment, and the columns that store it *)

columns(link) ==
  CASE link.type = "game_final" -> [NoColumns EXCEPT !.game = link.ref]
    [] link.type = "player_game" -> [NoColumns EXCEPT !.line = link.ref, !.line_game = LineGame[link.ref]]
    [] link.type = "player_career" -> [NoColumns EXCEPT !.player = link.ref, !.scope = link.scope]
    [] OTHER -> NoColumns

from_columns(c) ==
  IF c.game # 0 THEN [type |-> "game_final", ref |-> c.game, scope |-> "none"]
  ELSE IF c.line # 0 THEN [type |-> "player_game", ref |-> c.line, scope |-> "none"]
  ELSE IF c.player # 0 THEN [type |-> "player_career", ref |-> c.player, scope |-> c.scope]
  ELSE NoLink

is_text_less_repost(post) == post.is_repost /\ ~post.text
is_plain(post) == is_text_less_repost(post) /\ ~post.media

-----------------------------------------------------------------------------
(* What the tables hold to *)

Post ==
  [author : Users \cup {"nobody"}, is_reply : BOOLEAN, parent : Ids \cup {0}, is_repost : BOOLEAN,
   original : Ids \cup {0}, text : BOOLEAN, media : BOOLEAN, mentions : SUBSET Nat, link : SoundLinks,
   columns : [game : Nat, line : Nat, line_game : Nat, player : Nat, scope : {"none", "regular", "playoffs"}],
   made : BOOLEAN, is : {"up", "deleted", "undone"}]

\* The CHECKs: a flag has its reference, and no reply has a link.
Checks(post) == /\ post.is_reply => post.parent # 0 /\ post.link = NoLink
                /\ post.is_repost => post.original # 0

RefsOf(post) == {post.parent, post.original} \ {0}

\* A row refers to earlier rows, and an undone repost was a plain one of a
\* post that is not: _repost_target stops nowhere else.
Refers(rows, p) ==
  /\ \A q \in RefsOf(rows[p]) : q < p /\ rows[q].made
  /\ rows[p].is # "undone" => \A q \in RefsOf(rows[p]) : rows[q].is # "undone"
  /\ rows[p].made /\ rows[p].is = "undone" =>
       is_plain(rows[p]) /\ rows[rows[p].original].is # "undone" /\ ~is_plain(rows[rows[p].original])

\* Only an account's removal takes a post's author, and only it deletes a plain repost.
Owned(post) == /\ post.is = "up" => post.author \in Users
               /\ post.is = "deleted" /\ is_plain(post) => post.author = "nobody"

Stored(rows, marks, starting, accounts, followed, clock) ==
  /\ rows \in [Ids -> Post]
  /\ \E n \in 0..MaxPosts : \A p \in Ids : rows[p].made <=> p <= n
  /\ \A p \in Ids : /\ ~rows[p].made => rows[p] = NoPost
                    /\ rows[p].columns = columns(rows[p].link)
                    /\ Checks(rows[p]) /\ Refers(rows, p) /\ Owned(rows[p])
  /\ clock \in Nat /\ IsFiniteSet(marks) /\ marks \subseteq [user : Users, post : Ids, at : 0..clock]
  /\ \A k \in marks, l \in marks : k.user = l.user /\ k.post = l.post => k = l
  /\ starting \subseteq [user : Users, post : Ids, at : 0..clock]
  /\ accounts \subseteq Users /\ followed \subseteq Users \ {Viewer}

ASSUME WorldAssumption == \A w \in Worlds : Stored(w.posts, w.likes, w.liking, w.live, w.follows, w.now)

-----------------------------------------------------------------------------
(* posts/' and users/' public reads, each a statement *)

Rowed == {p \in Ids : posts[p].is # "undone"}
live_author(p) == posts[p].author \in live
Visible == {p \in Rowed : posts[p].is = "up" /\ live_author(p)}
Hidden == {p \in Rowed : ~live_author(p)}

Liked(p) == \E l \in likes : l.post = p
Row(p, at) == [id |-> p, at |-> at]

\* Newest first by the like's time, then by id.
Above(q, r) == q.at > r.at \/ (q.at = r.at /\ q.id > r.id)
Newest(S, n) == {r \in S : Cardinality({q \in S : Above(q, r)}) < n}
Oldest(S) == CHOOSE r \in S : \A q \in S : q = r \/ Above(q, r)

\* Faulty: likes of one moment are not told apart.
PastTime(cursor, r) == IF cursor.at = 0 THEN cursor.id > r.id ELSE cursor.at > r.at

Past(cursor, r) == Above(cursor, r)
Below(S, cursor) == {r \in S : cursor = Start \/ Past(cursor, r)}

query_history_posts(tab, cursor) ==
  LET mine == {q \in Visible : posts[q].author = Viewer}
      rows(S) == {Row(p, 0) : p \in S}
  IN Below(CASE tab = "likes" -> {Row(l.post, l.at) : l \in {k \in likes : k.user = Viewer /\ k.post \in Visible}}
             [] tab = "posts" -> rows({q \in mine : ~posts[q].is_reply /\ ~posts[q].is_repost})
             [] tab = "replies" -> rows({q \in mine : posts[q].is_reply})
             [] OTHER -> rows({q \in mine : posts[q].is_repost}), cursor)

\* Top-level posts and the replies that are liked, by one of the authors or
\* about one of the games.
query_feed_posts(authors, games, cursor) ==
  LET about(p) == \/ posts[p].mentions \cap games # {}
                  \/ posts[p].columns.game \in games \/ posts[p].columns.line_game \in games
  IN Below({Row(p, 0) : p \in {q \in Visible : /\ posts[q].is_reply => Liked(q)
                                               /\ posts[q].author \in authors \/ about(q)}}, cursor)

\* Whatever has the parent, with the flag of a reply or without it.
replies_to(p) == {q \in Visible : posts[q].parent = p}
deleted_post_ids(S) == {p \in S \cap Rowed : posts[p].is = "deleted"}
posts_by_ids(S) == S \cap Visible

\* Faulty: a deactivated account still has its profile.
profiles_of_all(S) == S

get_public_profiles(S) == S \cap live

\* Faulty: whoever wrote it.
counts_of_all(p) == Cardinality({q \in Rowed : posts[q].is_reply /\ posts[q].parent = p})

reply_counts(p) == Cardinality({q \in Visible : posts[q].is_reply /\ posts[q].parent = p})
repost_counts(p) == Cardinality({q \in Visible : posts[q].is_repost /\ posts[q].original = p})

\* The strategy for the caller: a guest, a deactivated caller and one who
\* follows nobody get the newest posts of all.
select_posts(cursor) ==
  IF Viewer \notin live \/ follows = {} THEN query_feed_posts(Users, {}, cursor)
  ELSE query_feed_posts(follows \cup {Viewer}, TeamGames, cursor)

-----------------------------------------------------------------------------
(* assemble_post_views, over what the request has loaded *)

Page == {r.id : r \in request.rows}
original_ids == {posts[p].original : p \in {q \in Page : posts[q].is_repost}}
parent_ids == {posts[p].parent : p \in {q \in Page : posts[q].is_reply}}
every_post == Page \cup request.fetched \cup request.stand_ins
stand_in_ids ==
  {posts[p].original : p \in {q \in parent_ids \cap (Page \cup request.fetched) : is_text_less_repost(posts[q])}}

\* The views without their inner ones: the author has a public profile.
flat == {p \in every_post : posts[p].author \in request.authors}
Shown(p) == IF p \in flat THEN p ELSE 0

\* [post, deleted].
shown_as_original(p) ==
  [post |-> IF p \in request.deleted THEN 0 ELSE Shown(p), deleted |-> p \in request.deleted]

\* A plain repost stands for what it reposts.
stands_for(p) ==
  IF p \in every_post \ request.deleted /\ is_plain(posts[p]) THEN posts[p].original ELSE p

shown_as_parent(p) == shown_as_original(stands_for(p))

Nothing == [post |-> 0, deleted |-> FALSE]

View(p) ==
  [id |-> p,
   data_link |-> from_columns(posts[p].columns),
   reply_count |-> reply_counts(p), repost_count |-> repost_counts(p),
   reposted |-> IF posts[p].is_repost THEN shown_as_original(posts[p].original) ELSE Nothing,
   replied |-> IF posts[p].is_reply THEN shown_as_parent(posts[p].parent) ELSE Nothing]

-----------------------------------------------------------------------------
(* What the walk and the request are held to *)

\* The list by what its rows are, not by how they are looked up.
Listed(what) ==
  LET mine == {q \in Visible : posts[q].author = Viewer}
      replies == {q \in mine : posts[q].is_reply}
      reposts == {q \in mine : posts[q].is_repost}
      top == {p \in Visible : posts[p].is_reply => Liked(p)}
      team(p) == \/ posts[p].mentions \cap TeamGames # {}
                 \/ posts[p].link.type = "game_final" /\ posts[p].link.ref \in TeamGames
                 \/ posts[p].link.type = "player_game" /\ LineGame[posts[p].link.ref] \in TeamGames
      of(S) == {Row(p, 0) : p \in S}
  IN CASE what = "posts" -> of(mine \ (replies \cup reposts)) [] what = "replies" -> of(replies)
       [] what = "reposts" -> of(reposts)
       [] what = "likes" -> {Row(l.post, l.at) : l \in {k \in likes : k.user = Viewer /\ k.post \in Visible}}
       [] what = "feed" -> of({q \in top : \/ Viewer \notin live \/ follows = {}
                                          \/ posts[q].author \in follows \cup {Viewer}
                                          \/ team(q)})
       [] OTHER -> {}

\* Every write is seen by who reads: what has been visible, or hidden with its author, since
\* the request began, what has been in the list since the walk did, and what
\* the viewer has no longer liked since then.
Watch ==
  /\ \E what \in {walk.what} :
       walk' = [walk EXCEPT !.due = @ \cap Listed(what)',
                            !.unliked = @ \cup {l.post : l \in {k \in likes \ likes' : k.user = Viewer}}]
  /\ request' = [request EXCEPT !.seen = @ \cup Visible', !.hid = @ \cup Hidden', !.quiet = FALSE]

Loading(r) == [r EXCEPT !.seen = Visible, !.hid = Hidden, !.quiet = TRUE]

-----------------------------------------------------------------------------
(* Writers *)

Write ==
  /\ walk.ended = "no" /\ writes < MaxWrites
  /\ writes' = writes + 1

composed(u, d) ==
  [author |-> u, is_reply |-> d.is_reply, parent |-> d.parent, is_repost |-> d.is_repost, original |-> d.original,
   text |-> d.text, media |-> d.media, mentions |-> {}, link |-> d.link, columns |-> columns(d.link),
   made |-> TRUE, is |-> "up"]

\* publish: each reference has a row and is undeleted, the CHECKs hold, and
\* a link is refused on a repost without text as on a reply.
compose ==
  \E u \in live, d \in Drafts :
    LET new == Cardinality({q \in Ids : posts[q].made}) + 1
        row == composed(u, d)
    IN /\ Checks(row) /\ (d.link # NoLink => ~is_text_less_repost(row))
       /\ \A q \in RefsOf(row) : posts[q].is = "up"
       /\ new \in Ids
       /\ posts' = [posts EXCEPT ![new] = row]
       /\ UNCHANGED <<likes, liking, live, follows, now>>

delete_post ==
  \E p \in Ids :
    /\ live_author(p) /\ posts[p].is = "up" /\ ~is_plain(posts[p])
    /\ posts' = [posts EXCEPT ![p].is = "deleted"]
    /\ UNCHANGED <<likes, liking, live, follows, now>>

\* All of the caller's plain reposts of what is no plain repost itself, or
\* none if one of them is replied to or reposted.
unrepost_post ==
  \E u \in live, t \in Rowed :
    LET ids == {p \in Rowed : posts[p].author = u /\ posts[p].original = t /\ is_plain(posts[p])}
    IN /\ ~is_plain(posts[t]) /\ ids # {} /\ \A q \in Rowed : RefsOf(posts[q]) \cap ids = {}
       /\ posts' = [p \in Ids |-> IF p \in ids THEN [posts[p] EXCEPT !.is = "undone"] ELSE posts[p]]
       /\ likes' = {l \in likes : l.post \notin ids}
       /\ UNCHANGED <<liking, live, follows, now>>

\* get_current_user's statement begins the transaction, and created_at is its
\* now(): the like may commit after others of a later stamp.
like_begins ==
  \E u \in live, p \in Ids, at \in {now, now + 1} :
    /\ liking' = liking \cup {[user |-> u, post |-> p, at |-> at]} /\ now' = at
    /\ UNCHANGED <<posts, likes, live, follows>>

\* The rest of it, up to the commit: _undeleted_post, no like yet, and the row.
like_post ==
  \E s \in liking :
    /\ posts[s.post].is = "up" /\ \A l \in likes : ~(l.user = s.user /\ l.post = s.post)
    /\ likes' = likes \cup {s} /\ liking' = liking \ {s}
    /\ UNCHANGED <<posts, live, follows, now>>

unlike_post ==
  \E l \in likes :
    /\ l.user \in live /\ posts[l.post].is = "up"
    /\ likes' = likes \ {l}
    /\ UNCHANGED <<posts, liking, live, follows, now>>

\* soft_delete_user and recover_user.
set_account ==
  \E u \in Users :
    /\ live' = IF u \in live THEN live \ {u} ELSE live \cup {u}
    /\ UNCHANGED <<posts, likes, liking, follows, now>>

set_follow ==
  \E u \in Users \ {Viewer} :
    /\ Viewer \in live
    /\ follows' = IF u \in follows THEN follows \ {u} ELSE follows \cup {u}
    /\ UNCHANGED <<posts, likes, liking, live, now>>

-----------------------------------------------------------------------------
(* Readers *)

Other == <<posts, likes, liking, live, follows, now, writes>>

\* The caller's account is read with the list: get_current_user refuses a
\* deactivated one its history.
Refused == walk.what \in Tabs /\ Viewer \notin live

\* get_history asks for a row more than it shows; get_feed takes a full page
\* for a sign of more.  Either goes on after the last row queried.
Listing(rows, more) ==
  /\ request' = Loading([NoRequest EXCEPT !.at = "listed", !.rows = rows, !.next = more])
  /\ walk' = [walk EXCEPT !.cursor = IF rows = {} THEN @ ELSE Oldest(rows)]

get_history ==
  LET rows == Newest(query_history_posts(walk.what, walk.cursor), Limit + 1)
  IN walk.what \in Tabs /\ Listing(Newest(rows, Limit), Cardinality(rows) > Limit)

get_feed ==
  LET rows == Newest(select_posts(walk.cursor), Limit)
  IN walk.what = "feed" /\ Listing(rows, Cardinality(rows) = Limit)

Ask ==
  /\ walk.ended = "no" /\ request.at \in {"none", "answered"} /\ walk.what # "thread"
  /\ UNCHANGED Other
  /\ \/ /\ Refused
        /\ walk' = [walk EXCEPT !.ended = "refused"] /\ request' = NoRequest
     \/ ~Refused /\ (get_history \/ get_feed)

Loads(at, r) == /\ UNCHANGED <<posts, likes, liking, live, follows, now, writes, walk>>
                /\ request' = [r EXCEPT !.at = at]

\* get_thread: the root's row, whether it is deleted, and its replies.
thread_root ==
  /\ walk.what = "thread" /\ walk.ended = "no" /\ request.at = "none" /\ walk.root \in Rowed
  /\ Loads("rooted", Loading([NoRequest EXCEPT !.rows = {Row(walk.root, 0)}]))

thread_deleted ==
  /\ request.at = "rooted"
  /\ LET gone == walk.root \in deleted_post_ids({walk.root})
     IN Loads("root_checked", [request EXCEPT !.root_deleted = gone, !.rows = IF gone THEN {} ELSE @])

thread_replies ==
  /\ request.at = "root_checked"
  /\ Loads("listed", [request EXCEPT !.rows = @ \cup {Row(q, 0) : q \in replies_to(walk.root)}])

load_refs ==
  /\ request.at = "listed"
  /\ Loads("fetched", [request EXCEPT !.fetched = posts_by_ids(original_ids \cup parent_ids)])

load_stand_ins ==
  /\ request.at = "fetched"
  /\ Loads("loaded", [request EXCEPT !.stand_ins = posts_by_ids(stand_in_ids \ (Page \cup request.fetched))])

\* Faulty: not of the posts that a plain repost stands for.
load_deleted_refs ==
  /\ request.at = "loaded"
  /\ Loads("checked", [request EXCEPT !.deleted = deleted_post_ids(original_ids \cup parent_ids)])

load_deleted ==
  /\ request.at = "loaded"
  /\ Loads("checked", [request EXCEPT !.deleted = deleted_post_ids(original_ids \cup parent_ids \cup stand_in_ids)])

load_authors ==
  /\ request.at = "checked"
  /\ Loads("authored", [request EXCEPT !.authors = get_public_profiles({posts[p].author : p \in every_post})])

\* A thread's root that is neither deleted nor shown is not found.
NotFound == walk.what = "thread" /\ ~request.root_deleted /\ walk.root \notin Page \cap flat

\* The counts, and the answer: what has no view is left out of the page.
answer ==
  /\ request.at = "authored"
  /\ LET ids == IF NotFound THEN {} ELSE Page \cap flat
         shown == {r \in request.rows : r.id \in ids}
     IN /\ request' = [request EXCEPT !.at = "answered", !.page = {View(p) : p \in ids}]
        /\ walk' = [walk EXCEPT !.shown = @ \cup shown,
                                !.twice = @ \cup (ids \cap {r.id : r \in walk.shown}),
                                !.ended = IF request.next THEN "no" ELSE IF NotFound THEN "refused" ELSE "yes"]
  /\ UNCHANGED Other

-----------------------------------------------------------------------------

Walks == {<<what, 0>> : what \in Tabs \cup {"feed"}} \cup {<<"thread", p>> : p \in Ids}

Init ==
  \E w \in Worlds, k \in Walks :
    /\ posts = w.posts /\ likes = w.likes /\ liking = w.liking /\ live = w.live /\ follows = w.follows
    /\ now = w.now /\ writes = 0
    /\ walk = [what |-> k[1], root |-> k[2], cursor |-> Start, shown |-> {}, twice |-> {},
               unliked |-> {}, due |-> Listed(k[1]), ended |-> "no"]
    /\ request = NoRequest

Next ==
  \/ /\ Write
     /\ \/ compose \/ delete_post \/ unrepost_post \/ like_begins \/ like_post \/ unlike_post
        \/ set_account \/ set_follow
     /\ Watch
  \/ Ask \/ thread_root \/ thread_deleted \/ thread_replies
  \/ load_refs \/ load_stand_ins \/ load_deleted \/ load_authors \/ answer

Spec == Init /\ [][Next]_vars

-----------------------------------------------------------------------------
(* Properties *)

\* A walk that reaches the end of its list has shown each row that was in
\* the list all the time, whatever was written, liked, deleted or deactivated
\* around the cursor; and no post twice, but for one whose like the viewer took
\* back meanwhile, which an older request may have liked again below the cursor
\* (feed/routes.py get_history, get_feed).
PagesCoverTheList ==
  /\ walk.ended = "yes" => walk.due \subseteq walk.shown
  /\ walk.twice = {} \/ (walk.what = "likes" /\ walk.twice \subseteq walk.unliked)

\* No answer shows a post, a reposted one or a replied one that has been
\* deleted or hidden since before the request
\* (posts/service.py _visible "the one visibility rule every read applies").
HiddenIsNotShown ==
  \A v \in request.page : {v.id, v.reposted.post, v.replied.post} \ {0} \subseteq request.seen

\* What a view shows for the post p that it refers to, which stands for
\* another if it is a plain repost: "deleted" only when the owner deleted
\* one of them, nothing only when an author was hidden at some moment, or
\* when the repost that was replied to is undone, and then so is the reply.
Told(inner, v, p, stands) ==
  IF inner.deleted THEN inner.post = 0 /\ \E q \in {p, stands} : posts[q].is = "deleted"
  ELSE \/ inner.post = stands
       \/ /\ inner.post = 0
          /\ \/ {p, stands} \cap request.hid # {}
             \/ posts[p].is = "undone" /\ posts[v.id].is = "undone"

\* A repost tells what happened to its original, a reply what happened to its
\* parent, and a post that is both tells both (feed/views.py PostView).
PlaceholdersAreHonest ==
  \A v \in request.page :
    LET post == posts[v.id]
        stands == IF post.is_reply /\ is_plain(posts[post.parent]) THEN posts[post.parent].original ELSE post.parent
    IN /\ post.is_repost => Told(v.reposted, v, post.original, post.original)
       /\ post.is_reply => Told(v.replied, v, post.parent, stands)

\* The reply count of a thread's root is the number of the replies below it,
\* unless something was written meanwhile.  A thread also shows what has the
\* root as its parent without being a reply, which reply_counts leaves out,
\* although its comment says "so the count matches the thread replies_to
\* shows" (posts/service.py:382).
CountMatchesThread ==
  walk.what = "thread" /\ request.at = "answered" /\ request.quiet =>
    \A v \in request.page : v.id = walk.root =>
      v.reply_count = Cardinality({w \in request.page : w.id # walk.root /\ posts[w.id].is_reply})
=============================================================================
