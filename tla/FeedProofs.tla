----------------------------- MODULE FeedProofs -----------------------------
(***************************************************************************)
(* Proofs about Feed.  The inductive invariant IInv says what the tables   *)
(* hold to (Stored), what each statement of a request leaves to the next   *)
(* ones while other requests write, and where a walk stands: a row due to  *)
(* be shown has been, is on the page, or is still ahead of the cursor.     *)
(***************************************************************************)
EXTENDS Feed, FiniteSetTheorems, WellFoundedInduction, NaturalsInduction, TLAPS

Moments == {"none", "rooted", "root_checked", "listed", "fetched", "loaded", "checked", "authored", "answered"}

\* The statements of a request that are still to come, by what it has loaded.
Asked == Moments \ {"none"}
Going == Asked \ {"answered"}
Fetched == {"fetched", "loaded", "checked", "authored"}
Loaded == {"loaded", "checked", "authored"}
Checked == {"checked", "authored"}

Whats == Tabs \cup {"feed", "thread"}
Rows == [id : Ids, at : Nat]

\* What the page's rows refer to with a flag.
Refs == original_ids \cup parent_ids

Inner == [post : Ids \cup {0}, deleted : BOOLEAN]
Views == [id : Ids, data_link : SoundLinks, reply_count : Nat, repost_count : Nat, reposted : Inner, replied : Inner]

WalkType ==
  [what : Whats, root : Ids \cup {0}, cursor : [id : Ids \cup {0}, at : Nat], shown : SUBSET Rows,
   twice : SUBSET Ids, unliked : SUBSET Ids, due : SUBSET Rows, ended : {"no", "yes", "refused"}]

RequestType ==
  [at : Moments, rows : SUBSET Rows, next : BOOLEAN, fetched : SUBSET Ids, stand_ins : SUBSET Ids,
   deleted : SUBSET Ids, root_deleted : BOOLEAN, authors : SUBSET Users, page : SUBSET Views,
   seen : SUBSET Ids, hid : SUBSET Ids, quiet : BOOLEAN]

FeedType ==
  /\ Stored(posts, likes, liking, live, follows, now)
  /\ writes \in Nat /\ walk \in WalkType /\ request \in RequestType

-----------------------------------------------------------------------------
(* What the statements of a request leave to the next ones *)

\* What is loaded has been a post, and visible since the request began unless
\* it is the thread's root, which is looked up whatever it is.
LoadedInv ==
  /\ request.at = "none" => every_post = {}
  /\ request.at \in {"rooted", "root_checked"} =>
       walk.what = "thread" /\ Page \subseteq {walk.root} /\ request.fetched = {} /\ request.stand_ins = {}
  /\ \A p \in every_post : /\ posts[p].made
                           /\ \/ p \in request.seen \/ posts[p].is = "up"
                              \/ request.at = "rooted" /\ posts[p].is = "deleted"
  /\ request.at \in Asked => Visible \subseteq request.seen /\ Hidden \subseteq request.hid
  /\ request.at = "authored" => flat \subseteq request.seen

\* Why a post that is referred to is not among those loaded.  One that is
\* undone is the parent of another that is: what has a row refers to rows.
Undone(p) == posts[p].is = "undone"

MissingInv ==
  /\ request.at = "fetched" =>
       \A p \in Refs : p \in Page \cup request.fetched \/ posts[p].is = "deleted" \/ Undone(p) \/ p \in request.hid
  /\ request.at \in Loaded =>
       /\ \A p \in Refs :
            \/ p \in Page \cup request.fetched \/ p \in request.hid
            \/ (posts[p].is = "deleted" \/ Undone(p)) /\ p \notin request.stand_ins
       /\ \A p \in stand_in_ids : p \in every_post \/ posts[p].is = "deleted" \/ p \in request.hid
  /\ request.at \in Checked =>
       /\ \A p \in request.deleted : posts[p].is = "deleted"
       /\ \A p \in Refs \cup stand_in_ids :
            p \in every_post \cup request.deleted \/ Undone(p) \/ p \in request.hid
  /\ request.at = "authored" =>
       \A p \in every_post \cap Rowed : posts[p].author \in request.authors \/ p \in request.hid

StandsFor(p) == IF is_plain(posts[p]) THEN posts[p].original ELSE p

Honest(v) ==
  /\ posts[v.id].is_repost => Told(v.reposted, v, posts[v.id].original, posts[v.id].original)
  /\ posts[v.id].is_reply => Told(v.replied, v, posts[v.id].parent, StandsFor(posts[v.id].parent))

PageInv ==
  /\ request.at # "answered" => request.page = {}
  /\ \A v \in request.page : /\ posts[v.id].made /\ Honest(v)
                             /\ {v.id, v.reposted.post, v.replied.post} \ {0} \subseteq request.seen

\* A thread that nothing was written into lists the root's replies, all of
\* them by authors with a profile.
ThreadInv ==
  walk.what = "thread" /\ request.quiet =>
    /\ request.at \in Going \ {"rooted", "root_checked"} => Page \ {walk.root} = replies_to(walk.root)
    /\ request.at = "authored" => \A p \in Page : live_author(p) => p \in flat
    /\ CountMatchesThread

-----------------------------------------------------------------------------
(* Where a walk stands *)

Ahead(r) == walk.cursor = Start \/ Above(walk.cursor, r)

\* What stays in the list is not passed over.
DueInv ==
  /\ walk.due \subseteq Listed(walk.what)
  /\ walk.ended = "yes" => walk.due \subseteq walk.shown
  /\ request.at \notin Going /\ walk.ended = "no" => \A r \in walk.due : r \in walk.shown \/ Ahead(r)
  /\ request.at \in Going =>
       \A r \in walk.due : r \in walk.shown \cup request.rows \/ (request.next /\ Above(walk.cursor, r))
  /\ request.at = "authored" => \A r \in walk.due \cap request.rows : posts[r.id].author \in request.authors

Passed == walk.shown \cup (IF request.at \in Going THEN request.rows ELSE {})

\* What the walk has come to is behind the cursor, and a row of the likes is
\* still that like or was taken back: no page finds it again.
OnceInv ==
  /\ walk.twice = {} \/ (walk.what = "likes" /\ walk.twice \subseteq walk.unliked)
  /\ request.at \in Going =>
       /\ walk.ended = "no"
       /\ \A r \in request.rows, s \in walk.shown : r.id = s.id => walk.what = "likes" /\ r.id \in walk.unliked
  /\ walk.what = "thread" =>
       IF request.at = "answered" THEN walk.ended # "no" ELSE walk.shown = {} /\ ~request.next
  /\ walk.what # "thread" => \A r \in Passed : ~Ahead(r)
  /\ walk.what \notin {"likes", "thread"} => \A r \in Passed : r.at = 0
  /\ walk.what = "likes" =>
       \A r \in Passed : r.id \in walk.unliked \/ [user |-> Viewer, post |-> r.id, at |-> r.at] \in likes

IInv == FeedType /\ LoadedInv /\ MissingInv /\ PageInv /\ ThreadInv /\ DueInv /\ OnceInv

-----------------------------------------------------------------------------
(* Pages: the newest rows of a finite list *)

Points == [id : Nat, at : Nat]

\* Two rows are one or the other is above.
LEMMA AboveIsTotal ==
  ASSUME NEW q \in Points, NEW r \in Points
  PROVE  /\ q = r \/ Above(q, r) \/ Above(r, q)
         /\ ~(Above(q, r) /\ Above(r, q)) /\ ~Above(q, q)
<1>1. q.id \in Nat /\ q.at \in Nat /\ r.id \in Nat /\ r.at \in Nat
  BY DEF Points
<1>2. q.id = r.id /\ q.at = r.at => q = r
  BY DEF Points
<1> QED
  BY <1>1, <1>2 DEF Above

LEMMA AboveIsTransitive ==
  ASSUME NEW p \in Points, NEW q \in Points, NEW r \in Points, Above(p, q), Above(q, r)
  PROVE  Above(p, r)
  BY DEF Points, Above

\* A finite list has a last row,
LEMMA LastRow ==
  ASSUME NEW S \in SUBSET Points, IsFiniteSet(S), S # {}
  PROVE  \E r \in S : \A q \in S : q = r \/ Above(q, r)
<1> DEFINE Under(r) == {q \in S : Above(r, q)}
           T == {Under(r) : r \in S}
<1>1. T \subseteq FiniteSubsetsOf(S) /\ T # {}
  <2>1. ASSUME NEW r \in S
        PROVE  Under(r) \in FiniteSubsetsOf(S)
    BY FS_Subset DEF FiniteSubsetsOf
  <2> QED
    BY <2>1
<1>2. PICK U \in T : \A V \in T : ~(<<V, U>> \in StrictSubsetOrdering(S))
  BY <1>1, FS_StrictSubsetOrderingWellFounded, WFMin
<1>3. PICK r \in S : U = Under(r)
  OBVIOUS
<1>4. ASSUME NEW q \in S, q # r, ~Above(q, r)
      PROVE  FALSE
  <2>1. Above(r, q)
    BY <1>4, AboveIsTotal
  <2>2. Under(q) \subseteq Under(r)
    BY <2>1, AboveIsTransitive
  <2>3. q \in Under(r) /\ q \notin Under(q)
    BY <2>1, AboveIsTotal
  <2>4. <<Under(q), Under(r)>> \in StrictSubsetOrdering(S)
    BY <2>2, <2>3 DEF StrictSubsetOrdering
  <2> QED
    BY <1>2, <1>3, <2>4
<1> QED
  BY <1>4

\* and a first.
LEMMA FirstRow ==
  ASSUME NEW S \in SUBSET Points, IsFiniteSet(S), S # {}
  PROVE  \E r \in S : \A q \in S : q = r \/ Above(r, q)
<1> DEFINE Over(r) == {q \in S : Above(q, r)}
           T == {Over(r) : r \in S}
<1>1. T \subseteq FiniteSubsetsOf(S) /\ T # {}
  <2>1. ASSUME NEW r \in S
        PROVE  Over(r) \in FiniteSubsetsOf(S)
    BY FS_Subset DEF FiniteSubsetsOf
  <2> QED
    BY <2>1
<1>2. PICK U \in T : \A V \in T : ~(<<V, U>> \in StrictSubsetOrdering(S))
  BY <1>1, FS_StrictSubsetOrderingWellFounded, WFMin
<1>3. PICK r \in S : U = Over(r)
  OBVIOUS
<1>4. ASSUME NEW q \in S, q # r, ~Above(r, q)
      PROVE  FALSE
  <2>1. Above(q, r)
    BY <1>4, AboveIsTotal
  <2>2. Over(q) \subseteq Over(r)
    BY <2>1, AboveIsTransitive
  <2>3. q \in Over(r) /\ q \notin Over(q)
    BY <2>1, AboveIsTotal
  <2>4. <<Over(q), Over(r)>> \in StrictSubsetOrdering(S)
    BY <2>2, <2>3 DEF StrictSubsetOrdering
  <2> QED
    BY <1>2, <1>3, <2>4
<1> QED
  BY <1>4

\* The cursor of a page that is not empty is its last row.
LEMMA OldestIsLast ==
  ASSUME NEW S \in SUBSET Points, IsFiniteSet(S), S # {}
  PROVE  Oldest(S) \in S /\ \A q \in S : q = Oldest(S) \/ Above(q, Oldest(S))
  BY LastRow DEF Oldest

\* What is left out of a page is below every row of it,
LEMMA LeftOutIsBelow ==
  ASSUME NEW S \in SUBSET Points, IsFiniteSet(S), NEW n \in Nat,
         NEW r \in S \ Newest(S, n), NEW q \in Newest(S, n)
  PROVE  Above(q, r)
<1> DEFINE Over(x) == {y \in S : Above(y, x)}
<1>1. \A x \in S : IsFiniteSet(Over(x)) /\ Cardinality(Over(x)) \in Nat
  BY FS_Subset, FS_CardinalityType
<1>2. Cardinality(Over(q)) < n /\ ~(Cardinality(Over(r)) < n) /\ q \in S /\ q # r
  BY DEF Newest
<1>3. CASE Above(r, q)
  <2>1. Over(r) \subseteq Over(q)
    BY <1>2, <1>3, AboveIsTransitive
  <2>2. Cardinality(Over(r)) <= Cardinality(Over(q))
    BY <1>1, <1>2, <2>1, FS_Subset
  <2> HIDE DEF Over
  <2> QED
    BY <1>1, <1>2, <2>2
<1> QED
  BY <1>2, <1>3, AboveIsTotal

\* a page has no more rows than were asked for, that many unless nothing is
\* left out, and some unless the list is empty.
LEMMA PageSize ==
  ASSUME NEW S \in SUBSET Points, IsFiniteSet(S), NEW n \in Nat \ {0}
  PROVE  /\ Newest(S, n) \subseteq S /\ IsFiniteSet(Newest(S, n)) /\ Cardinality(Newest(S, n)) \in 0..n
         /\ S # Newest(S, n) => Cardinality(Newest(S, n)) = n
         /\ S # {} => Newest(S, n) # {}
<1> DEFINE Over(x) == {y \in S : Above(y, x)}
           N == Newest(S, n)
<1>1. \A x \in S : IsFiniteSet(Over(x)) /\ Cardinality(Over(x)) \in Nat
  BY FS_Subset, FS_CardinalityType
<1>2. N \subseteq S /\ \A x \in S : x \in N <=> Cardinality(Over(x)) < n
  BY DEF Newest
<1>3. IsFiniteSet(N) /\ Cardinality(N) \in Nat
  BY <1>2, FS_Subset, FS_CardinalityType
<1> HIDE DEF N
<1>4. Cardinality(N) <= n
  <2>1. CASE N = {}
    BY <2>1, FS_EmptySet
  <2>2. CASE N # {}
    <3>1. PICK m \in N : \A x \in N : x = m \/ Above(x, m)
      BY <1>2, <1>3, <2>2, LastRow
    <3>2. N \ {m} \subseteq Over(m)
      BY <1>2, <3>1
    <3>3. Cardinality(N \ {m}) = Cardinality(N) - 1
      BY <1>3, <3>1, FS_RemoveElement
    <3>4. Cardinality(N \ {m}) <= Cardinality(Over(m))
      BY <1>1, <1>2, <3>1, <3>2, FS_Subset
    <3> HIDE DEF Over
    <3> QED
      BY <1>1, <1>2, <1>3, <3>1, <3>3, <3>4
  <2> QED
    BY <2>1, <2>2
<1>5. S # N => Cardinality(N) >= n
  <2>1. SUFFICES ASSUME S # N
                 PROVE  Cardinality(N) >= n
    OBVIOUS
  <2>2. S \ N # {} /\ IsFiniteSet(S \ N)
    BY <1>2, <2>1, FS_Subset
  <2>3. PICK t \in S \ N : \A x \in S \ N : x = t \/ Above(t, x)
    BY <2>2, FirstRow
  <2>4. Over(t) \subseteq N
    BY <2>3, AboveIsTotal
  <2>5. Cardinality(Over(t)) <= Cardinality(N)
    BY <1>3, <2>4, FS_Subset
  <2> HIDE DEF Over
  <2> QED
    BY <1>1, <1>2, <1>3, <2>3, <2>5
<1>6. S # {} => N # {}
  BY <1>3, <1>5, FS_EmptySet
<1> QED
  BY <1>2, <1>3, <1>4, <1>5, <1>6 DEF N

\* rows are a page of the list B, and more is true if anything is left below it.
IsPage(B, rows, more) ==
  /\ rows \subseteq B /\ IsFiniteSet(rows)
  /\ \A r \in B \ rows : more /\ rows # {} /\ \A q \in rows : Above(q, r)

\* get_history's page: one row more is asked for than is shown.
LEMMA HistoryPage ==
  ASSUME NEW B \in SUBSET Points, IsFiniteSet(B)
  PROVE  LET rows == Newest(B, Limit + 1)
         IN  IsPage(B, Newest(rows, Limit), Cardinality(rows) > Limit)
<1> DEFINE rows == Newest(B, Limit + 1)
           page == Newest(rows, Limit)
<1>1. Limit \in Nat \ {0} /\ Limit + 1 \in Nat \ {0}
  BY FeedAssumption
<1>2. /\ rows \subseteq B /\ IsFiniteSet(rows) /\ Cardinality(rows) \in Nat
      /\ B # rows => Cardinality(rows) = Limit + 1
      /\ B # {} => rows # {}
  BY <1>1, PageSize
<1>3. /\ page \subseteq rows /\ IsFiniteSet(page) /\ Cardinality(page) \in Nat
      /\ rows # page => Cardinality(page) = Limit
      /\ rows # {} => page # {}
  BY <1>1, <1>2, PageSize
<1>4. ASSUME NEW r \in B \ page
      PROVE  Cardinality(rows) > Limit /\ \A q \in page : Above(q, r)
  <2>1. CASE r \notin rows
    <3>1. \A q \in rows : Above(q, r)
      BY <1>1, <2>1, LeftOutIsBelow
    <3> HIDE DEF page, rows
    <3> QED
      BY <1>1, <1>2, <1>3, <2>1, <3>1
  <2>2. CASE r \in rows
    <3>1. \A q \in page : Above(q, r)
      BY <1>1, <1>2, <2>2, LeftOutIsBelow
    <3>2. Cardinality(rows) # Cardinality(page) /\ Cardinality(page) <= Cardinality(rows)
      BY <1>2, <1>3, <2>2, FS_Subset
    <3> HIDE DEF page, rows
    <3> QED
      BY <1>1, <1>2, <1>3, <2>2, <3>1, <3>2
  <2> QED
    BY <2>1, <2>2
<1> HIDE DEF page, rows
<1>5. IsPage(B, page, Cardinality(rows) > Limit)
  BY <1>2, <1>3, <1>4 DEF IsPage
<1> QED
  BY <1>5 DEF page, rows

\* get_feed's page: a full one is a sign of more.
LEMMA FeedPage ==
  ASSUME NEW B \in SUBSET Points, IsFiniteSet(B)
  PROVE  LET rows == Newest(B, Limit)
         IN  IsPage(B, rows, Cardinality(rows) = Limit)
<1>1. Limit \in Nat \ {0}
  BY FeedAssumption
<1> DEFINE rows == Newest(B, Limit)
<1>2. /\ rows \subseteq B /\ IsFiniteSet(rows)
      /\ B # rows => Cardinality(rows) = Limit
      /\ B # {} => rows # {}
  BY <1>1, PageSize
<1>3. \A r \in B \ rows, q \in rows : Above(q, r)
  BY <1>1, LeftOutIsBelow
<1> HIDE DEF rows
<1>4. IsPage(B, rows, Cardinality(rows) = Limit)
  BY <1>2, <1>3 DEF IsPage
<1> QED
  BY <1>4 DEF rows

-----------------------------------------------------------------------------
(* Links and their columns *)

\* A link read back from its columns is the link that was stored: a foreign
\* key is never 0, and one kind of link never sets another's column.
THEOREM LinkIsReadBack ==
  ASSUME NEW link \in SoundLinks
  PROVE  from_columns(columns(link)) = link
<1>1. CASE link = NoLink
  BY <1>1 DEF NoLink, columns, from_columns, NoColumns
<1>2. CASE link \in [type : {"game_final"}, ref : Nat \ {0}, scope : {"none"}]
  BY <1>2 DEF columns, from_columns, NoColumns
<1>3. CASE link \in [type : {"player_game"}, ref : DOMAIN LineGame, scope : {"none"}]
  <2>1. link.ref \in Nat \ {0} /\ link.type = "player_game"
    BY <1>3, FeedAssumption
  <2>2. /\ columns(link).game = 0 /\ columns(link).line = link.ref
    BY <2>1 DEF columns, NoColumns
  <2>3. link = [type |-> "player_game", ref |-> link.ref, scope |-> "none"]
    BY <1>3
  <2> QED
    BY <2>1, <2>2, <2>3 DEF from_columns
<1>4. CASE link \in [type : {"player_career"}, ref : Nat \ {0}, scope : {"regular", "playoffs"}]
  <2>1. link.ref \in Nat \ {0} /\ link.type = "player_career"
    BY <1>4
  <2>2. /\ columns(link).game = 0 /\ columns(link).line = 0
        /\ columns(link).player = link.ref /\ columns(link).scope = link.scope
    BY <2>1 DEF columns, NoColumns
  <2>3. link = [type |-> "player_career", ref |-> link.ref, scope |-> link.scope]
    BY <1>4
  <2> QED
    BY <2>1, <2>2, <2>3 DEF from_columns
<1> QED
  BY <1>1, <1>2, <1>3, <1>4 DEF SoundLinks

\* The two columns query_feed_posts matches against a team's games say what
\* the link is about.
LEMMA ColumnsOfGames ==
  ASSUME NEW link \in SoundLinks, NEW games \in SUBSET (Nat \ {0})
  PROVE  /\ columns(link).game \in games <=> link.type = "game_final" /\ link.ref \in games
         /\ columns(link).line_game \in games <=> link.type = "player_game" /\ LineGame[link.ref] \in games
<1>1. CASE link.type = "game_final"
  BY <1>1 DEF columns, NoColumns
<1>2. CASE link.type = "player_game"
  BY <1>2 DEF columns, NoColumns
<1>3. CASE link.type = "player_career"
  BY <1>3 DEF columns, NoColumns
<1>4. CASE link.type = "none"
  BY <1>4 DEF columns, NoColumns
<1> QED
  BY <1>1, <1>2, <1>3, <1>4 DEF SoundLinks, NoLink

-----------------------------------------------------------------------------
(* The lists *)

LEMMA ImageIsFinite ==
  ASSUME NEW f, IsFiniteSet(DOMAIN f)
  PROVE  IsFiniteSet({f[x] : x \in DOMAIN f})
<1> DEFINE T == {f[x] : x \in DOMAIN f}
           g == [x \in DOMAIN f |-> f[x]]
<1>1. g \in Surjection(DOMAIN f, T)
  BY DEF Surjection
<1> HIDE DEF T, g
<1>2. IsFiniteSet(T)
  BY <1>1, FS_Surjection
<1> QED
  BY <1>2 DEF T

LEMMA RowsAreFinite ==
  ASSUME NEW S \in SUBSET Ids
  PROVE  IsFiniteSet({Row(p, 0) : p \in S})
<1> DEFINE f == [p \in S |-> Row(p, 0)]
<1>1. IsFiniteSet(Ids)
  <2>1. 1 \in Int /\ MaxPosts \in Int
    BY FeedAssumption
  <2> QED
    BY <2>1, FS_Interval DEF Ids
<1>2. IsFiniteSet(S)
  BY <1>1, FS_Subset
<1>3. IsFiniteSet({f[x] : x \in DOMAIN f})
  BY <1>2, ImageIsFinite
<1>4. {f[x] : x \in DOMAIN f} = {Row(p, 0) : p \in S}
  OBVIOUS
<1> QED
  BY <1>3, <1>4

LEMMA LikesAreFinite ==
  ASSUME IsFiniteSet(likes), NEW S \in SUBSET likes
  PROVE  IsFiniteSet({Row(l.post, l.at) : l \in S})
<1> DEFINE f == [l \in S |-> Row(l.post, l.at)]
<1>1. IsFiniteSet(S)
  BY FS_Subset
<1>2. IsFiniteSet({f[x] : x \in DOMAIN f})
  BY <1>1, ImageIsFinite
<1>3. {f[x] : x \in DOMAIN f} = {Row(l.post, l.at) : l \in S}
  OBVIOUS
<1> QED
  BY <1>2, <1>3

\* A list is finite, of visible posts, and only the liked ones have a time,
\* that of the one like the viewer gave.
LEMMA ListedRows ==
  ASSUME Stored(posts, likes, liking, live, follows, now), NEW what \in Whats
  PROVE  /\ Listed(what) \subseteq Rows /\ IsFiniteSet(Listed(what))
         /\ \A r \in Listed(what) : r.id \in Visible
         /\ what # "likes" => \A r \in Listed(what) : r.at = 0
         /\ what = "likes" => \A r \in Listed(what) : [user |-> Viewer, post |-> r.id, at |-> r.at] \in likes
<1>1. CASE what = "likes"
  <2> DEFINE mine == {k \in likes : k.user = Viewer /\ k.post \in Visible}
  <2>1. Listed(what) = {Row(l.post, l.at) : l \in mine}
    BY <1>1 DEF Listed
  <2>2. IsFiniteSet(Listed(what))
    BY <2>1, LikesAreFinite DEF Stored
  <2>3. ASSUME NEW r \in Listed(what)
        PROVE  r \in Rows /\ r.id \in Visible /\ [user |-> Viewer, post |-> r.id, at |-> r.at] \in likes
    <3>1. PICK k \in mine : r = Row(k.post, k.at)
      BY <2>1
    <3>2. k \in [user : Users, post : Ids, at : 0..now] /\ k \in likes /\ k.user = Viewer /\ k.post \in Visible
      BY DEF Stored
    <3>3. k = [user |-> Viewer, post |-> k.post, at |-> k.at] /\ k.at \in Nat
      BY <3>2 DEF Stored
    <3> QED
      BY <3>1, <3>2, <3>3 DEF Row, Rows
  <2> QED
    BY <1>1, <2>2, <2>3
<1>2. CASE what # "likes"
  <2>1. PICK S \in SUBSET Visible : Listed(what) = {Row(p, 0) : p \in S}
    BY <1>2 DEF Listed, Whats, Tabs
  <2>2. Visible \subseteq Ids
    BY DEF Visible, Rowed
  <2>3. IsFiniteSet(Listed(what))
    BY <2>1, <2>2, RowsAreFinite
  <2>4. Listed(what) \subseteq Rows /\ \A r \in Listed(what) : r.id \in Visible /\ r.at = 0
    BY <2>1, <2>2 DEF Row, Rows
  <2> QED
    BY <1>2, <2>3, <2>4
<1> QED
  BY <1>1, <1>2

\* The rows a page is taken from are those of the list below the cursor.
LEMMA HistoryIsQueried ==
  ASSUME NEW what \in Tabs, NEW cursor
  PROVE  query_history_posts(what, cursor) = Below(Listed(what), cursor)
<1>1. CASE what = "posts"
  BY <1>1 DEF query_history_posts, Listed
<1>2. CASE what = "replies"
  BY <1>2 DEF query_history_posts, Listed
<1>3. CASE what = "reposts"
  BY <1>3 DEF query_history_posts, Listed
<1>4. CASE what = "likes"
  BY <1>4 DEF query_history_posts, Listed
<1> QED
  BY <1>1, <1>2, <1>3, <1>4 DEF Tabs

LEMMA FeedIsQueried ==
  ASSUME FeedType, NEW cursor
  PROVE  select_posts(cursor) = Below(Listed("feed"), cursor)
<1> DEFINE top == {p \in Visible : posts[p].is_reply => Liked(p)}
           team(p) == \/ posts[p].mentions \cap TeamGames # {}
                      \/ posts[p].link.type = "game_final" /\ posts[p].link.ref \in TeamGames
                      \/ posts[p].link.type = "player_game" /\ LineGame[posts[p].link.ref] \in TeamGames
           wanted(q) == \/ Viewer \notin live \/ follows = {}
                        \/ posts[q].author \in follows \cup {Viewer}
                        \/ team(q)
           about(p) == \/ posts[p].mentions \cap TeamGames # {}
                       \/ posts[p].columns.game \in TeamGames \/ posts[p].columns.line_game \in TeamGames
<1>1. Listed("feed") = {Row(p, 0) : p \in {q \in top : wanted(q)}}
  BY DEF Listed
<1>2. ASSUME NEW p \in Visible
      PROVE  posts[p].author \in Users /\ (about(p) <=> team(p))
  <2>1. p \in Ids /\ posts[p].is = "up"
    BY DEF Visible, Rowed
  <2>2. posts[p] \in Post /\ Owned(posts[p]) /\ posts[p].columns = columns(posts[p].link)
    BY <2>1 DEF FeedType, Stored
  <2>3. posts[p].link \in SoundLinks /\ posts[p].author \in Users
    BY <2>1, <2>2 DEF Post, Owned
  <2> QED
    BY <2>2, <2>3, ColumnsOfGames, FeedAssumption
<1>3. CASE Viewer \notin live \/ follows = {}
  <2>1. {q \in Visible : /\ posts[q].is_reply => Liked(q)
                         /\ \/ posts[q].author \in Users
                            \/ \/ posts[q].mentions \cap {} # {}
                               \/ posts[q].columns.game \in {} \/ posts[q].columns.line_game \in {}}
        = {q \in top : wanted(q)}
    BY <1>2, <1>3
  <2> QED
    BY <1>1, <1>3, <2>1 DEF select_posts, query_feed_posts
<1>4. CASE ~(Viewer \notin live \/ follows = {})
  <2>1. {q \in Visible : /\ posts[q].is_reply => Liked(q)
                         /\ posts[q].author \in follows \cup {Viewer} \/ about(q)}
        = {q \in top : wanted(q)}
    BY <1>2, <1>4
  <2> QED
    BY <1>1, <1>4, <2>1 DEF select_posts, query_feed_posts
<1> QED
  BY <1>3, <1>4

-----------------------------------------------------------------------------
(* What a write leaves alone *)

\* A post is never edited, and only one that is visible goes.
Same(p) ==
  /\ posts'[p].author = posts[p].author
  /\ posts'[p].is_reply = posts[p].is_reply /\ posts'[p].parent = posts[p].parent
  /\ posts'[p].is_repost = posts[p].is_repost /\ posts'[p].original = posts[p].original
  /\ posts'[p].text = posts[p].text /\ posts'[p].media = posts[p].media /\ posts'[p].made = posts[p].made
  /\ posts'[p].is = posts[p].is \/ p \in Visible

Kept == \A p \in Ids : posts[p].made => Same(p)

Tables == Stored(posts, likes, liking, live, follows, now)

\* The next id is free and follows those that were given out.
LEMMA NextId ==
  ASSUME Tables, NEW new, new = Cardinality({q \in Ids : posts[q].made}) + 1, new \in Ids
  PROVE  /\ ~posts[new].made
         /\ \A p \in Ids : posts[p].made <=> p < new
<1>1. PICK n \in 0..MaxPosts : \A p \in Ids : posts[p].made <=> p <= n
  BY DEF Tables, Stored
<1>2. MaxPosts \in Nat
  BY FeedAssumption
<1>3. {q \in Ids : posts[q].made} = 1..n
  BY <1>1, <1>2 DEF Ids
<1>4. Cardinality(1..n) = n
  BY <1>1, <1>2, FS_Interval
<1>5. new = n + 1 /\ n \in Nat /\ \A p \in Ids : p \in Nat
  <2>1. new = n + 1
    BY <1>3, <1>4
  <2> QED
    BY <1>2, <2>1 DEF Ids
<1>6. \A p \in Ids : p <= n <=> p < new
  BY <1>5
<1> QED
  BY <1>1, <1>5, <1>6

LEMMA ColumnsType ==
  ASSUME NEW link \in SoundLinks
  PROVE  columns(link) \in [game : Nat, line : Nat, line_game : Nat, player : Nat,
                            scope : {"none", "regular", "playoffs"}]
<1>1. CASE link = NoLink
  BY <1>1 DEF NoLink, columns, NoColumns
<1>2. CASE link \in [type : {"game_final"}, ref : Nat \ {0}, scope : {"none"}]
  BY <1>2 DEF columns, NoColumns
<1>3. CASE link \in [type : {"player_game"}, ref : DOMAIN LineGame, scope : {"none"}]
  <2>1. link.ref \in Nat /\ LineGame[link.ref] \in Nat /\ link.type = "player_game"
    BY <1>3, FeedAssumption
  <2> QED
    BY <2>1 DEF columns, NoColumns
<1>4. CASE link \in [type : {"player_career"}, ref : Nat \ {0}, scope : {"regular", "playoffs"}]
  BY <1>4 DEF columns, NoColumns
<1> QED
  BY <1>1, <1>2, <1>3, <1>4 DEF SoundLinks

\* What a row of the table is held to.
Sound(rows, p) ==
  /\ ~rows[p].made => rows[p] = NoPost
  /\ rows[p].columns = columns(rows[p].link)
  /\ Checks(rows[p]) /\ Refers(rows, p) /\ Owned(rows[p])

LEMMA RowsAreSound ==
  ASSUME Tables, NEW p \in Ids
  PROVE  posts[p] \in Post /\ Sound(posts, p) /\ RefsOf(posts[p]) \subseteq Ids /\ (~posts[p].made => RefsOf(posts[p]) = {})
<1>1. posts[p] \in Post /\ Sound(posts, p)
  BY DEF Tables, Stored, Sound
<1>2. NoPost.parent = 0 /\ NoPost.original = 0
  BY DEF NoPost
<1> QED
  BY <1>1, <1>2 DEF RefsOf, Post, Sound

\* What has a row has been made.
LEMMA MadeRows ==
  ASSUME FeedType
  PROVE  /\ Visible \subseteq Rowed /\ Rowed \subseteq Ids
         /\ \A p \in Rowed : posts[p].made /\ posts[p].is \in {"up", "deleted"}
<1>1. Visible \subseteq Rowed /\ Rowed \subseteq Ids
  BY DEF Visible, Rowed
<1>2. ASSUME NEW p \in Rowed
      PROVE  posts[p].made /\ posts[p].is \in {"up", "deleted"}
  <2>1. p \in Ids /\ posts[p].is # "undone"
    BY DEF Rowed
  <2>2. posts[p] \in Post /\ (~posts[p].made => posts[p] = NoPost)
    BY <2>1, RowsAreSound DEF FeedType, Tables, Sound
  <2>3. posts[p].is \in {"up", "deleted", "undone"}
    BY <2>2 DEF Post
  <2>4. NoPost.is = "undone"
    BY DEF NoPost
  <2> QED
    BY <2>1, <2>2, <2>3, <2>4
<1> QED
  BY <1>1, <1>2

LEMMA ComposeKeeps ==
  ASSUME Tables, compose
  PROVE  Tables' /\ Kept
<1>1. PICK u \in live, d \in Drafts :
        LET new == Cardinality({q \in Ids : posts[q].made}) + 1
            row == composed(u, d)
        IN /\ Checks(row) /\ (d.link # NoLink => ~is_text_less_repost(row))
           /\ \A q \in RefsOf(row) : posts[q].is = "up"
           /\ new \in Ids
           /\ posts' = [posts EXCEPT ![new] = row]
           /\ UNCHANGED <<likes, liking, live, follows, now>>
  BY DEF compose
<1> DEFINE new == Cardinality({q \in Ids : posts[q].made}) + 1
           row == composed(u, d)
<1>2. /\ Checks(row) /\ new \in Ids /\ posts' = [posts EXCEPT ![new] = row]
      /\ \A q \in RefsOf(row) : posts[q].is = "up"
      /\ UNCHANGED <<likes, liking, live, follows, now>>
  BY <1>1
<1>3. ~posts[new].made /\ \A q \in Ids : posts[q].made <=> q < new
  BY <1>2, NextId
<1>4. /\ row \in Post /\ row.made /\ row.is = "up" /\ row.columns = columns(row.link)
      /\ row.author \in Users /\ RefsOf(row) \subseteq Ids
  <2>1. u \in Users /\ d \in Draft /\ d.link \in SoundLinks
    BY FeedAssumption DEF Tables, Stored, SoundLinks, Draft
  <2>2. columns(d.link) \in [game : Nat, line : Nat, line_game : Nat, player : Nat,
                             scope : {"none", "regular", "playoffs"}]
    BY <2>1, ColumnsType
  <2>3. row = [author |-> u, is_reply |-> d.is_reply, parent |-> d.parent, is_repost |-> d.is_repost,
               original |-> d.original, text |-> d.text, media |-> d.media, mentions |-> {}, link |-> d.link,
               columns |-> columns(d.link), made |-> TRUE, is |-> "up"]
    BY DEF composed
  <2>4. d = [is_reply |-> d.is_reply, parent |-> d.parent, is_repost |-> d.is_repost, original |-> d.original,
             text |-> d.text, media |-> d.media, link |-> d.link]
        /\ d.is_reply \in BOOLEAN /\ d.is_repost \in BOOLEAN /\ d.text \in BOOLEAN /\ d.media \in BOOLEAN
        /\ d.parent \in Ids \cup {0} /\ d.original \in Ids \cup {0}
    BY <2>1 DEF Draft
  <2> QED
    BY <2>1, <2>2, <2>3, <2>4 DEF Post, RefsOf
<1> HIDE DEF row, new
<1>5. new \in Nat
  BY <1>2, FeedAssumption DEF Ids
<1>6. posts \in [Ids -> Post] /\ posts' \in [Ids -> Post]
  BY <1>2, <1>4 DEF Tables, Stored
<1>7. posts'[new] = row /\ \A q \in Ids : q # new => posts'[q] = posts[q]
  BY <1>2, <1>6
<1>8. \A q \in RefsOf(row) : q < new /\ q # new /\ posts[q].made
  <2>1. SUFFICES ASSUME NEW q \in RefsOf(row)
                 PROVE  q < new /\ q # new /\ posts[q].made
    OBVIOUS
  <2>2. posts[q].is = "up" /\ q \in Ids
    BY <1>2, <1>4
  <2>3. posts[q].made
    BY <2>2, RowsAreSound DEF Sound, NoPost
  <2> QED
    BY <1>3, <2>2, <2>3
<1>9. \E n \in 0..MaxPosts : \A q \in Ids : posts'[q].made <=> q <= n
  <2>1. \A q \in Ids : posts'[q].made <=> q <= new
    BY <1>2, <1>3, <1>4, <1>5, <1>7 DEF Ids
  <2>2. new \in 0..MaxPosts
    BY <1>2, FeedAssumption DEF Ids
  <2> QED
    BY <2>1, <2>2
<1>10. ASSUME NEW q \in Ids
       PROVE  Sound(posts', q)
  <2>1. CASE q = new
    <3>1. Refers(posts', q)
      <4>1. \A x \in RefsOf(row) : posts'[x] = posts[x] /\ posts[x].is = "up"
        BY <1>2, <1>4, <1>7, <1>8
      <4> QED
        BY <1>4, <1>7, <1>8, <2>1, <4>1 DEF Refers
    <3> QED
      BY <1>2, <1>4, <1>7, <2>1, <3>1 DEF Owned, Sound
  <2>2. CASE q # new
    <3>1. posts'[q] = posts[q] /\ Sound(posts, q) /\ RefsOf(posts[q]) \subseteq Ids
      BY <1>7, <2>2, RowsAreSound
    <3>2. \A x \in RefsOf(posts[q]) : x # new /\ posts'[x] = posts[x]
      BY <1>3, <1>7, <3>1 DEF Sound, Refers
    <3>3. Refers(posts', q)
      <4>1. /\ \A x \in RefsOf(posts[q]) : x < q /\ posts'[x].made
            /\ posts[q].is # "undone" => \A x \in RefsOf(posts[q]) : posts'[x].is # "undone"
        BY <3>1, <3>2 DEF Sound, Refers
      <4>2. posts[q].made /\ posts[q].is = "undone" =>
              /\ is_plain(posts[q]) /\ posts'[posts[q].original].is # "undone"
              /\ ~is_plain(posts'[posts[q].original])
        <5>1. SUFFICES ASSUME posts[q].made, posts[q].is = "undone"
                       PROVE  /\ is_plain(posts[q]) /\ posts'[posts[q].original].is # "undone"
                              /\ ~is_plain(posts'[posts[q].original])
          OBVIOUS
        <5>2. /\ is_plain(posts[q]) /\ posts[posts[q].original].is # "undone"
              /\ ~is_plain(posts[posts[q].original])
          BY <3>1, <5>1 DEF Sound, Refers
        <5>3. posts[q].original \in RefsOf(posts[q])
          BY <3>1, <5>2 DEF Sound, Checks, RefsOf, is_plain, is_text_less_repost
        <5> QED
          BY <3>2, <5>2, <5>3
      <4> QED
        BY <3>1, <4>1, <4>2 DEF Refers
    <3> QED
      BY <3>1, <3>3 DEF Sound
  <2> QED
    BY <2>1, <2>2
<1>11. Tables'
  BY <1>2, <1>6, <1>9, <1>10 DEF Tables, Stored, Sound
<1>12. Kept
  <2>1. \A q \in Ids : posts[q].made => posts'[q] = posts[q]
    BY <1>3, <1>7
  <2> QED
    BY <2>1 DEF Kept, Same
<1> QED
  BY <1>11, <1>12

\* Visible posts that are deleted, or plain reposts of no further use that are
\* undone: the rows change in nothing else, and what refers to a row still can.
LEMMA StateChanges ==
  ASSUME Tables, NEW S \in SUBSET Visible, NEW is \in {"deleted", "undone"},
         posts' = [p \in Ids |-> IF p \in S THEN [posts[p] EXCEPT !.is = is] ELSE posts[p]],
         is = "deleted" => \A p \in S : ~is_plain(posts[p]),
         is = "undone" => \A p \in S : /\ is_plain(posts[p]) /\ ~is_plain(posts[posts[p].original])
                                       /\ \A q \in Ids : posts[q].is # "undone" => p \notin RefsOf(posts[q]),
         likes' \subseteq likes, UNCHANGED <<liking, live, follows, now>>
  PROVE  Tables' /\ Kept
<1>1. posts \in [Ids -> Post] /\ S \subseteq Ids /\ \A p \in Visible : p \in Ids /\ posts[p].is = "up"
  BY DEF Tables, Stored, Visible, Rowed
<1>2. \A p \in Ids : posts[p] \in Post
  BY <1>1
<1>3. ASSUME NEW p \in Ids
      PROVE  /\ posts'[p] \in Post /\ Same(p)
             /\ posts'[p].link = posts[p].link /\ posts'[p].columns = posts[p].columns
             /\ posts'[p].is = IF p \in S THEN is ELSE posts[p].is
             /\ p \notin S => posts'[p] = posts[p]
  <2>1. CASE p \in S
    <3>1. posts'[p] = [posts[p] EXCEPT !.is = is]
      BY <2>1
    <3>2. posts[p] \in Post /\ p \in Visible
      BY <1>2, <2>1
    <3> QED
      BY <2>1, <3>1, <3>2 DEF Post, Same
  <2>2. CASE p \notin S
    BY <1>2, <2>2 DEF Same
  <2> QED
    BY <2>1, <2>2
<1>4. posts' \in [Ids -> Post]
  BY <1>3
<1>5. \A p \in Ids : /\ is_plain(posts'[p]) = is_plain(posts[p]) /\ RefsOf(posts'[p]) = RefsOf(posts[p])
                     /\ Checks(posts'[p]) = Checks(posts[p]) /\ posts'[p].made = posts[p].made
                     /\ posts'[p].original = posts[p].original
  BY <1>3 DEF Same, is_plain, is_text_less_repost, RefsOf, Checks
<1>6. \E n \in 0..MaxPosts : \A p \in Ids : posts'[p].made <=> p <= n
  BY <1>5 DEF Tables, Stored
<1>7. ASSUME NEW p \in Ids
      PROVE  Sound(posts', p)
  <2>1. Sound(posts, p) /\ RefsOf(posts[p]) \subseteq Ids
    BY RowsAreSound
  <2>2. ~posts'[p].made => posts'[p] = NoPost
    <3>1. ~posts[p].made => posts[p].is = "undone" /\ posts[p] = NoPost
      BY <2>1 DEF Sound, NoPost
    <3> QED
      BY <1>1, <1>3, <1>5, <3>1
  <2>3. Owned(posts'[p])
    BY <1>1, <1>3, <1>5, <2>1 DEF Owned, Sound, Same
  <2>4. Refers(posts', p)
    <3>1. \A q \in RefsOf(posts[p]) : q \in Ids /\ q < p /\ posts'[q].made
      BY <1>5, <2>1 DEF Sound, Refers
    <3>2. posts'[p].is # "undone" => \A q \in RefsOf(posts[p]) : posts'[q].is # "undone"
      <4>1. SUFFICES ASSUME posts'[p].is # "undone", NEW q \in RefsOf(posts[p])
                     PROVE  posts'[q].is # "undone"
        OBVIOUS
      <4>2. posts[p].is # "undone"
        BY <1>1, <1>3, <4>1
      <4>3. posts[q].is # "undone" /\ q \in Ids
        BY <2>1, <4>2 DEF Sound, Refers
      <4>4. q \in S => is # "undone"
        BY <4>2
      <4> QED
        BY <1>3, <4>3, <4>4
    <3>3. posts[p].made /\ posts'[p].is = "undone" =>
            /\ is_plain(posts[p]) /\ posts'[posts[p].original].is # "undone"
            /\ ~is_plain(posts'[posts[p].original])
      <4> DEFINE o == posts[p].original
      <4>1. SUFFICES ASSUME posts[p].made, posts'[p].is = "undone"
                     PROVE  is_plain(posts[p]) /\ posts'[o].is # "undone" /\ ~is_plain(posts'[o])
        OBVIOUS
      <4>2. is_plain(posts[p]) /\ ~is_plain(posts[o])
        BY <1>3, <2>1, <4>1 DEF Sound, Refers
      <4>3. o \in RefsOf(posts[p]) /\ o \in Ids
        BY <2>1, <4>2 DEF Sound, Checks, RefsOf, is_plain, is_text_less_repost
      <4>4. posts[o].is # "undone"
        BY <2>1, <4>1, <4>3 DEF Sound, Refers
      <4>5. o \in S => is = "deleted"
        BY <4>2
      <4> HIDE DEF o
      <4> QED
        BY <1>3, <1>5, <4>2, <4>3, <4>4, <4>5
    <3> QED
      BY <1>5, <3>1, <3>2, <3>3 DEF Refers
  <2> QED
    BY <1>3, <1>5, <2>1, <2>2, <2>3, <2>4 DEF Sound
<1>8. /\ now' \in Nat /\ IsFiniteSet(likes') /\ likes' \subseteq [user : Users, post : Ids, at : 0..now']
      /\ \A k \in likes', l \in likes' : k.user = l.user /\ k.post = l.post => k = l
      /\ liking' \subseteq [user : Users, post : Ids, at : 0..now']
      /\ live' \subseteq Users /\ follows' \subseteq Users \ {Viewer}
  BY FS_Subset DEF Tables, Stored
<1>9. Tables'
  BY <1>4, <1>6, <1>7, <1>8 DEF Tables, Stored, Sound
<1>10. Kept
  BY <1>3 DEF Kept
<1> QED
  BY <1>9, <1>10

LEMMA DeleteKeeps ==
  ASSUME Tables, delete_post
  PROVE  Tables' /\ Kept
<1>1. PICK p \in Ids : /\ live_author(p) /\ posts[p].is = "up" /\ ~is_plain(posts[p])
                       /\ posts' = [posts EXCEPT ![p].is = "deleted"]
                       /\ UNCHANGED <<likes, liking, live, follows, now>>
  BY DEF delete_post
<1>2. posts' = [q \in Ids |-> IF q \in {p} THEN [posts[q] EXCEPT !.is = "deleted"] ELSE posts[q]]
  BY <1>1 DEF Tables, Stored
<1>3. {p} \in SUBSET Visible
  BY <1>1 DEF Visible, Rowed
<1> QED
  BY <1>1, <1>2, <1>3, StateChanges

LEMMA UnrepostKeeps ==
  ASSUME Tables, unrepost_post
  PROVE  Tables' /\ Kept
<1>1. PICK u \in live, t \in Rowed :
        LET ids == {p \in Rowed : posts[p].author = u /\ posts[p].original = t /\ is_plain(posts[p])}
        IN /\ ~is_plain(posts[t]) /\ ids # {} /\ \A q \in Rowed : RefsOf(posts[q]) \cap ids = {}
           /\ posts' = [p \in Ids |-> IF p \in ids THEN [posts[p] EXCEPT !.is = "undone"] ELSE posts[p]]
           /\ likes' = {l \in likes : l.post \notin ids}
           /\ UNCHANGED <<liking, live, follows, now>>
  BY DEF unrepost_post
<1> DEFINE ids == {p \in Rowed : posts[p].author = u /\ posts[p].original = t /\ is_plain(posts[p])}
<1>2. /\ ~is_plain(posts[t]) /\ \A q \in Rowed : RefsOf(posts[q]) \cap ids = {}
      /\ posts' = [p \in Ids |-> IF p \in ids THEN [posts[p] EXCEPT !.is = "undone"] ELSE posts[p]]
      /\ likes' \subseteq likes /\ UNCHANGED <<liking, live, follows, now>>
  BY <1>1
<1>3. ASSUME NEW p \in ids
      PROVE  /\ p \in Visible /\ is_plain(posts[p]) /\ ~is_plain(posts[posts[p].original])
             /\ \A q \in Ids : posts[q].is # "undone" => p \notin RefsOf(posts[q])
  <2>1. p \in Rowed /\ p \in Ids /\ posts[p].author = u /\ posts[p].original = t /\ is_plain(posts[p])
    BY DEF Rowed
  <2>2. u \in Users /\ u # "nobody"
    BY FeedAssumption DEF Tables, Stored
  <2>3. posts[p].is \in {"up", "deleted", "undone"} /\ Owned(posts[p])
    BY <2>1 DEF Tables, Stored, Post
  <2>4. p \in Visible
    BY <2>1, <2>2, <2>3 DEF Owned, Visible, Rowed, live_author
  <2>5. \A q \in Ids : posts[q].is # "undone" => p \notin RefsOf(posts[q])
    BY <1>2 DEF Rowed
  <2> QED
    BY <1>2, <2>1, <2>4, <2>5
<1> HIDE DEF ids
<1>4. ids \in SUBSET Visible
  BY <1>3
<1>5. "undone" = "deleted" => \A p \in ids : ~is_plain(posts[p])
  OBVIOUS
<1> QED
  BY <1>2, <1>3, <1>4, <1>5, StateChanges

\* What is neither the posts nor the clock's reading leaves each row sound.
LEMMA LikesChange ==
  ASSUME Tables, posts' = posts, now' \in Nat, now <= now', IsFiniteSet(likes'),
         likes' \subseteq [user : Users, post : Ids, at : 0..now'],
         \A k \in likes', l \in likes' : k.user = l.user /\ k.post = l.post => k = l,
         liking' \subseteq [user : Users, post : Ids, at : 0..now'],
         live' \subseteq Users, follows' \subseteq Users \ {Viewer}
  PROVE  Tables' /\ Kept
<1>1. \A p \in Ids : Sound(posts, p)
  BY RowsAreSound
<1>2. \A p \in Ids : Sound(posts', p)
  BY <1>1
<1>3. posts' \in [Ids -> Post] /\ \E n \in 0..MaxPosts : \A p \in Ids : posts'[p].made <=> p <= n
  BY DEF Tables, Stored
<1>4. Tables'
  BY <1>2, <1>3 DEF Tables, Stored, Sound
<1> QED
  BY <1>4 DEF Kept, Same

LEMMA StampsGrow ==
  ASSUME Tables, NEW at \in {now, now + 1}
  PROVE  /\ at \in Nat /\ now <= at
         /\ likes \subseteq [user : Users, post : Ids, at : 0..at]
         /\ liking \subseteq [user : Users, post : Ids, at : 0..at]
<1>1. now \in Nat /\ at \in Nat /\ now <= at
  BY DEF Tables, Stored
<1>2. \A l \in likes \cup liking : l \in [user : Users, post : Ids, at : 0..now]
  BY DEF Tables, Stored
<1>3. \A l \in likes \cup liking : l \in [user : Users, post : Ids, at : 0..at]
  BY <1>1, <1>2
<1> QED
  BY <1>1, <1>3

LEMMA LikeKeeps ==
  ASSUME Tables, like_begins \/ like_post \/ unlike_post
  PROVE  Tables' /\ Kept
<1>1. /\ now \in Nat /\ now <= now /\ IsFiniteSet(likes) /\ likes \subseteq [user : Users, post : Ids, at : 0..now]
      /\ \A k \in likes, l \in likes : k.user = l.user /\ k.post = l.post => k = l
      /\ liking \subseteq [user : Users, post : Ids, at : 0..now]
      /\ live \subseteq Users /\ follows \subseteq Users \ {Viewer}
  BY DEF Tables, Stored
<1>2. CASE like_begins
  <2>1. PICK u \in live, p \in Ids, at \in {now, now + 1} :
          /\ liking' = liking \cup {[user |-> u, post |-> p, at |-> at]} /\ now' = at
          /\ UNCHANGED <<posts, likes, live, follows>>
    BY <1>2 DEF like_begins
  <2>2. /\ at \in Nat /\ now <= at
        /\ likes \subseteq [user : Users, post : Ids, at : 0..at]
        /\ liking \subseteq [user : Users, post : Ids, at : 0..at]
    BY StampsGrow
  <2>3. [user |-> u, post |-> p, at |-> at] \in [user : Users, post : Ids, at : 0..at]
    BY <1>1, <2>2
  <2> QED
    BY <1>1, <2>1, <2>2, <2>3, LikesChange
<1>3. CASE like_post
  <2>1. PICK s \in liking :
          /\ \A l \in likes : ~(l.user = s.user /\ l.post = s.post)
          /\ likes' = likes \cup {s} /\ liking' = liking \ {s}
          /\ UNCHANGED <<posts, live, follows, now>>
    BY <1>3 DEF like_post
  <2>2. IsFiniteSet(likes')
    BY <1>1, <2>1, FS_AddElement
  <2> QED
    BY <1>1, <2>1, <2>2, LikesChange
<1>4. CASE unlike_post
  <2>1. likes' \subseteq likes /\ UNCHANGED <<posts, liking, live, follows, now>>
    BY <1>4 DEF unlike_post
  <2>2. IsFiniteSet(likes')
    BY <1>1, <2>1, FS_Subset
  <2> QED
    BY <1>1, <2>1, <2>2, LikesChange
<1> QED
  BY <1>2, <1>3, <1>4

LEMMA AccountKeeps ==
  ASSUME Tables, set_account \/ set_follow
  PROVE  Tables' /\ Kept
<1>1. /\ UNCHANGED <<posts, likes, liking, now>>
      /\ live' \subseteq Users /\ follows' \subseteq Users \ {Viewer}
  BY DEF set_account, set_follow, Tables, Stored
<1>2. /\ now \in Nat /\ now <= now /\ IsFiniteSet(likes) /\ likes \subseteq [user : Users, post : Ids, at : 0..now]
      /\ \A k \in likes, l \in likes : k.user = l.user /\ k.post = l.post => k = l
      /\ liking \subseteq [user : Users, post : Ids, at : 0..now]
  BY DEF Tables, Stored
<1> QED
  BY <1>1, <1>2, LikesChange

Writing == /\ \/ compose \/ delete_post \/ unrepost_post \/ like_begins \/ like_post \/ unlike_post
              \/ set_account \/ set_follow
           /\ Write /\ Watch

LEMMA WritingKeeps ==
  ASSUME Tables, Writing
  PROVE  Tables' /\ Kept
  BY ComposeKeeps, DeleteKeeps, UnrepostKeeps, LikeKeeps, AccountKeeps DEF Writing

-----------------------------------------------------------------------------
(* Writes and the request *)

\* The request's fields that no write changes, and those that only grow.
LEMMA RequestIsWatched ==
  ASSUME FeedType, Writing
  PROVE  /\ FeedType' /\ Kept
         /\ request'.at = request.at /\ request'.rows = request.rows /\ request'.next = request.next
         /\ request'.fetched = request.fetched /\ request'.stand_ins = request.stand_ins
         /\ request'.deleted = request.deleted /\ request'.authors = request.authors
         /\ request'.page = request.page /\ request'.quiet = FALSE
         /\ request'.seen = request.seen \cup Visible' /\ request'.hid = request.hid \cup Hidden'
         /\ walk'.what = walk.what /\ walk'.root = walk.root /\ walk'.cursor = walk.cursor
         /\ walk'.shown = walk.shown /\ walk'.twice = walk.twice /\ walk'.ended = walk.ended
         /\ walk'.due = walk.due \cap Listed(walk.what)'
         /\ walk'.unliked = walk.unliked \cup {l.post : l \in {k \in likes \ likes' : k.user = Viewer}}
         /\ walk.ended = "no"
<1>1. Tables' /\ Kept
  BY WritingKeeps DEF FeedType, Tables
<1> DEFINE lost == {l.post : l \in {k \in likes \ likes' : k.user = Viewer}}
<1>2. PICK what \in {walk.what} :
        walk' = [walk EXCEPT !.due = @ \cap Listed(what)', !.unliked = @ \cup lost]
  BY DEF Writing, Watch
<1> HIDE DEF lost
<1>3. walk' = [walk EXCEPT !.due = walk.due \cap Listed(what)', !.unliked = walk.unliked \cup lost]
  BY <1>2
<1>4. walk \in WalkType /\ request \in RequestType /\ writes \in Nat
  BY DEF FeedType
<1>5. /\ request' = [request EXCEPT !.seen = request.seen \cup Visible', !.hid = request.hid \cup Hidden',
                                    !.quiet = FALSE]
      /\ writes' = writes + 1 /\ walk.ended = "no"
  BY DEF Writing, Watch, Write
<1>6. Visible' \subseteq Ids /\ Hidden' \subseteq Ids
  BY DEF Visible, Hidden, Rowed
<1>7. /\ walk' \in WalkType
      /\ walk'.what = walk.what /\ walk'.root = walk.root /\ walk'.cursor = walk.cursor
      /\ walk'.shown = walk.shown /\ walk'.twice = walk.twice /\ walk'.ended = walk.ended
      /\ walk'.due = walk.due \cap Listed(what)' /\ walk'.unliked = walk.unliked \cup lost
  <2>1. lost \subseteq Ids
    <3>1. \A l \in likes : l.post \in Ids
      BY DEF FeedType, Stored
    <3> QED
      BY <3>1 DEF lost
  <2> QED
    BY <1>3, <1>4, <2>1 DEF WalkType
<1>8. /\ request' \in RequestType
      /\ request'.at = request.at /\ request'.rows = request.rows /\ request'.next = request.next
      /\ request'.fetched = request.fetched /\ request'.stand_ins = request.stand_ins
      /\ request'.deleted = request.deleted /\ request'.authors = request.authors
      /\ request'.page = request.page /\ request'.quiet = FALSE
      /\ request'.seen = request.seen \cup Visible' /\ request'.hid = request.hid \cup Hidden'
  BY <1>4, <1>5, <1>6 DEF RequestType
<1>9. writes' \in Nat
  BY <1>4, <1>5
<1>10. walk'.due = walk.due \cap Listed(walk.what)'
  BY <1>2, <1>7
<1> QED
  BY <1>1, <1>5, <1>7, <1>8, <1>9, <1>10 DEF FeedType, Tables, lost

LEMMA EveryPostType ==
  ASSUME FeedType
  PROVE  /\ Page \subseteq Ids /\ every_post \subseteq Ids /\ Page \subseteq every_post
         /\ request.fetched \subseteq every_post /\ request.stand_ins \subseteq every_post
<1>1. /\ request.rows \subseteq Rows /\ request.fetched \subseteq Ids /\ request.stand_ins \subseteq Ids
  BY DEF FeedType, RequestType
<1>2. Page \subseteq Ids
  BY <1>1 DEF Page, Rows
<1> QED
  BY <1>1, <1>2 DEF every_post

\* What is loaded keeps what it was loaded for.
LEMMA LoadedKept ==
  ASSUME FeedType, LoadedInv, Writing
  PROVE  /\ Page' = Page /\ every_post' = every_post /\ flat' = flat
         /\ Refs' = Refs /\ stand_in_ids' = stand_in_ids
<1>1. /\ request'.rows = request.rows /\ request'.fetched = request.fetched
      /\ request'.stand_ins = request.stand_ins /\ request'.authors = request.authors /\ Kept
  BY RequestIsWatched
<1>2. Page' = Page /\ every_post' = every_post
  BY <1>1 DEF Page, every_post
<1>3. \A p \in every_post : Same(p)
  BY <1>1, EveryPostType DEF Kept, LoadedInv
<1>4. flat' = flat
  BY <1>1, <1>2, <1>3 DEF flat, Same
<1>5. \A p \in Page : Same(p)
  BY <1>3, EveryPostType
<1>6. original_ids' = original_ids /\ parent_ids' = parent_ids
  BY <1>2, <1>5 DEF original_ids, parent_ids, Same
<1>7. \A p \in Page \cup request.fetched : Same(p)
  BY <1>3, EveryPostType
<1>8. stand_in_ids' = stand_in_ids
  BY <1>1, <1>2, <1>6, <1>7 DEF stand_in_ids, Same, is_text_less_repost
<1> QED
  BY <1>2, <1>4, <1>6, <1>8 DEF Refs

\* A deleted post stays deleted, one without a row stays without.
LEMMA StatesKept ==
  ASSUME FeedType, Writing, NEW p \in Ids, posts[p].made
  PROVE  /\ posts[p].is = "deleted" => posts'[p].is = "deleted"
         /\ Undone(p) => Undone(p)'
         /\ p \in Rowed' => p \in Rowed
         /\ posts'[p].is_reply = posts[p].is_reply /\ posts'[p].parent = posts[p].parent
         /\ posts'[p].is_repost = posts[p].is_repost /\ posts'[p].original = posts[p].original
         /\ posts'[p].author = posts[p].author /\ posts'[p].made
         /\ is_plain(posts'[p]) = is_plain(posts[p])
<1>1. Same(p)
  BY RequestIsWatched DEF Kept
<1>2. p \in Visible => posts[p].is = "up"
  BY DEF Visible
<1> QED
  BY <1>1, <1>2 DEF Same, Rowed, Undone, is_plain, is_text_less_repost

LEMMA WritingLoaded ==
  ASSUME FeedType, LoadedInv, Writing
  PROVE  LoadedInv'
<1>1. /\ request'.at = request.at /\ request'.seen = request.seen \cup Visible'
      /\ request'.hid = request.hid \cup Hidden' /\ Kept
  BY RequestIsWatched
<1>2. every_post' = every_post /\ flat' = flat /\ every_post \subseteq Ids
  BY LoadedKept, EveryPostType
<1>3. ASSUME NEW p \in every_post
      PROVE  /\ posts'[p].made
             /\ \/ p \in request'.seen \/ posts'[p].is = "up"
                \/ request'.at = "rooted" /\ posts'[p].is = "deleted"
  <2>1. p \in Ids /\ posts[p].made /\ request.at # "none"
    BY <1>2 DEF LoadedInv
  <2>2. Same(p)
    BY <1>1, <2>1 DEF Kept
  <2>3. request.at \in Asked
    BY <2>1 DEF FeedType, RequestType, Asked
  <2>4. p \in Visible => p \in request.seen
    BY <2>3 DEF LoadedInv
  <2>5. \/ p \in request.seen \/ posts[p].is = "up"
        \/ request.at = "rooted" /\ posts[p].is = "deleted"
    BY DEF LoadedInv
  <2> QED
    BY <1>1, <2>1, <2>2, <2>4, <2>5 DEF Same
<1>4. /\ request'.at = "none" => every_post' = {}
      /\ request'.at \in {"rooted", "root_checked"} =>
           walk'.what = "thread" /\ Page' \subseteq {walk'.root} /\ request'.fetched = {} /\ request'.stand_ins = {}
  BY <1>1, <1>2, LoadedKept, RequestIsWatched DEF LoadedInv
<1>5. Visible' \subseteq request'.seen /\ Hidden' \subseteq request'.hid
  BY <1>1
<1>6. request'.at = "authored" => flat' \subseteq request'.seen
  BY <1>1, <1>2 DEF LoadedInv
<1>7. \A p \in every_post' : /\ posts'[p].made
                             /\ \/ p \in request'.seen \/ posts'[p].is = "up"
                                \/ request'.at = "rooted" /\ posts'[p].is = "deleted"
  BY <1>2, <1>3
<1> QED
  BY <1>4, <1>5, <1>6, <1>7 DEF LoadedInv

\* What a loaded row refers to has been a post, and has a row unless it is
\* the parent of a repost that is undone itself.
LEMMA ReferredTo ==
  ASSUME FeedType, NEW p \in Ids
  PROVE  /\ posts[p].is_repost => LET o == posts[p].original IN
              o \in Ids /\ o \in Rowed /\ posts[o].made /\ posts[o].is \in {"up", "deleted"}
         /\ posts[p].is_reply => LET q == posts[p].parent IN
              q \in Ids /\ posts[q].made /\ (Undone(q) => Undone(p))
<1>1. Sound(posts, p) /\ RefsOf(posts[p]) \subseteq Ids /\ (~posts[p].made => RefsOf(posts[p]) = {})
  BY RowsAreSound DEF FeedType, Tables
<1>2. \A q \in Ids : posts[q].is \in {"up", "deleted", "undone"}
  BY DEF FeedType, Stored, Post
<1>3. \A q \in RefsOf(posts[p]) : q \in Ids /\ posts[q].made
  BY <1>1 DEF Sound, Refers
<1>4. ASSUME posts[p].is_repost
      PROVE  LET o == posts[p].original IN
               o \in Ids /\ o \in Rowed /\ posts[o].made /\ posts[o].is \in {"up", "deleted"}
  <2>1. posts[p].original \in RefsOf(posts[p])
    BY <1>1, <1>4 DEF Sound, Checks, RefsOf
  <2>2. posts[p].made
    BY <1>1, <2>1
  <2>3. posts[posts[p].original].is # "undone"
    BY <1>1, <2>1, <2>2 DEF Sound, Refers
  <2> QED
    BY <1>2, <1>3, <2>1, <2>3 DEF Rowed
<1>5. ASSUME posts[p].is_reply
      PROVE  LET q == posts[p].parent IN q \in Ids /\ posts[q].made /\ (Undone(q) => Undone(p))
  <2>1. posts[p].parent \in RefsOf(posts[p])
    BY <1>1, <1>5 DEF Sound, Checks, RefsOf
  <2>2. Undone(posts[p].parent) => Undone(p)
    BY <1>1, <2>1 DEF Sound, Refers, Undone
  <2> QED
    BY <1>3, <2>1, <2>2
<1> QED
  BY <1>4, <1>5

LEMMA RefsAreRows ==
  ASSUME FeedType, LoadedInv
  PROVE  /\ \A p \in original_ids \cup stand_in_ids :
              p \in Ids /\ p \in Rowed /\ posts[p].made /\ posts[p].is \in {"up", "deleted"}
         /\ \A p \in Refs : p \in Ids /\ posts[p].made /\ (p \in Rowed \/ Undone(p))
         /\ \A p \in Page : posts[p].is_reply => posts[p].parent \in parent_ids
         /\ \A p \in Page : posts[p].is_repost => posts[p].original \in original_ids
<1>1. \A p \in Page : p \in Ids
  BY EveryPostType
<1>2. \A p \in original_ids : p \in Ids /\ p \in Rowed /\ posts[p].made /\ posts[p].is \in {"up", "deleted"}
  BY <1>1, ReferredTo DEF original_ids
<1>3. \A p \in parent_ids : p \in Ids /\ posts[p].made
  BY <1>1, ReferredTo DEF parent_ids
<1>4. \A p \in stand_in_ids : p \in Ids /\ p \in Rowed /\ posts[p].made /\ posts[p].is \in {"up", "deleted"}
  BY <1>3, ReferredTo DEF stand_in_ids, is_text_less_repost
<1> QED
  BY <1>2, <1>3, <1>4 DEF Refs, original_ids, parent_ids, Rowed, Undone

LEMMA WritingMissing ==
  ASSUME FeedType, LoadedInv, MissingInv, Writing
  PROVE  MissingInv'
<1>1. /\ request'.at = request.at /\ request.hid \subseteq request'.hid
      /\ request'.deleted = request.deleted /\ request'.fetched = request.fetched
      /\ request'.stand_ins = request.stand_ins /\ request'.authors = request.authors
  BY RequestIsWatched
<1>2. every_post' = every_post /\ Page' = Page /\ Refs' = Refs /\ stand_in_ids' = stand_in_ids
  BY LoadedKept
<1>3. \A p \in Refs \cup stand_in_ids :
        (posts[p].is = "deleted" => posts'[p].is = "deleted") /\ (Undone(p) => Undone(p)')
  BY RefsAreRows, StatesKept
<1>4. request'.at = "fetched" =>
        \A p \in Refs' :
          p \in Page' \cup request'.fetched \/ posts'[p].is = "deleted" \/ Undone(p)' \/ p \in request'.hid
  BY <1>1, <1>2, <1>3 DEF MissingInv
<1>5. request'.at \in Loaded =>
       /\ \A p \in Refs' :
            \/ p \in Page' \cup request'.fetched \/ p \in request'.hid
            \/ (posts'[p].is = "deleted" \/ Undone(p)') /\ p \notin request'.stand_ins
       /\ \A p \in stand_in_ids' : p \in every_post' \/ posts'[p].is = "deleted" \/ p \in request'.hid
  BY <1>1, <1>2, <1>3 DEF MissingInv
<1>6. request'.at \in Checked =>
       /\ \A p \in request'.deleted : posts'[p].is = "deleted"
       /\ \A p \in Refs' \cup stand_in_ids' :
            p \in every_post' \cup request'.deleted \/ Undone(p)' \/ p \in request'.hid
  <2>1. SUFFICES ASSUME request.at \in Checked
                 PROVE  /\ \A p \in request.deleted : posts'[p].is = "deleted"
                        /\ \A p \in Refs \cup stand_in_ids :
                             p \in every_post \cup request.deleted \/ Undone(p)' \/ p \in request'.hid
    BY <1>1, <1>2
  <2>2. \A p \in request.deleted : p \in Ids /\ posts[p].is = "deleted"
    BY <2>1 DEF MissingInv, FeedType, RequestType
  <2>3. \A p \in request.deleted : posts[p].made
    BY <2>2, RowsAreSound DEF FeedType, Tables, Sound, NoPost
  <2>4. \A p \in request.deleted : posts'[p].is = "deleted"
    BY <2>2, <2>3, StatesKept
  <2> QED
    BY <1>1, <1>3, <2>1, <2>4 DEF MissingInv
<1>7. request'.at = "authored" =>
        \A p \in every_post' \cap Rowed' : posts'[p].author \in request'.authors \/ p \in request'.hid
  <2>1. \A p \in every_post : p \in Ids /\ posts[p].made
    BY EveryPostType DEF LoadedInv
  <2>2. \A p \in every_post : posts'[p].author = posts[p].author /\ (p \in Rowed' => p \in Rowed)
    BY <2>1, StatesKept
  <2> QED
    BY <1>1, <1>2, <2>2 DEF MissingInv
<1> QED
  BY <1>4, <1>5, <1>6, <1>7 DEF MissingInv

LEMMA ToldKept ==
  ASSUME FeedType, Writing, NEW inner, NEW v, v.id \in Ids, posts[v.id].made,
         NEW p \in Ids, posts[p].made, NEW s \in Ids, posts[s].made, Told(inner, v, p, s)
  PROVE  Told(inner, v, p, s)'
<1>1. /\ \A q \in {p, s, v.id} : posts[q].is = "deleted" => posts'[q].is = "deleted"
      /\ \A q \in {p, s, v.id} : posts[q].is = "undone" => posts'[q].is = "undone"
  BY StatesKept DEF Undone
<1>2. request.hid \subseteq request'.hid
  BY RequestIsWatched
<1> QED
  BY <1>1, <1>2 DEF Told

LEMMA HonestKept ==
  ASSUME FeedType, Writing, NEW v, v.id \in Ids, posts[v.id].made, Honest(v)
  PROVE  Honest(v)'
<1> DEFINE o == posts[v.id].original
           p == posts[v.id].parent
<1>1. /\ posts'[v.id].is_reply = posts[v.id].is_reply /\ posts'[v.id].parent = p
      /\ posts'[v.id].is_repost = posts[v.id].is_repost /\ posts'[v.id].original = o
  BY StatesKept
<1>2. posts[v.id].is_repost => Told(v.reposted, v, o, o)'
  <2>1. SUFFICES ASSUME posts[v.id].is_repost PROVE Told(v.reposted, v, o, o)'
    OBVIOUS
  <2>2. o \in Ids /\ posts[o].made /\ Told(v.reposted, v, o, o)
    BY <2>1, ReferredTo DEF Honest
  <2> QED
    BY <1>1, <2>2, ToldKept
<1>3. posts[v.id].is_reply => Told(v.replied, v, p, StandsFor(p))'
  <2>1. SUFFICES ASSUME posts[v.id].is_reply PROVE Told(v.replied, v, p, StandsFor(p))'
    OBVIOUS
  <2>2. p \in Ids /\ posts[p].made /\ Told(v.replied, v, p, StandsFor(p))
    BY <2>1, ReferredTo DEF Honest
  <2>3. StandsFor(p) \in Ids /\ posts[StandsFor(p)].made
    BY <2>2, ReferredTo DEF StandsFor, is_plain, is_text_less_repost
  <2>4. posts'[p].original = posts[p].original /\ is_plain(posts'[p]) = is_plain(posts[p])
    BY <2>2, StatesKept
  <2>5. StandsFor(p)' = StandsFor(p)
    BY <1>1, <2>4 DEF StandsFor
  <2> QED
    BY <1>1, <2>2, <2>3, <2>5, ToldKept
<1> QED
  BY <1>1, <1>2, <1>3 DEF Honest

LEMMA WritingPage ==
  ASSUME FeedType, PageInv, Writing
  PROVE  PageInv'
<1>1. request'.at = request.at /\ request'.page = request.page /\ request.seen \subseteq request'.seen
  BY RequestIsWatched
<1>2. request'.at # "answered" => request'.page = {}
  BY <1>1 DEF PageInv
<1>3. ASSUME NEW v \in request.page
      PROVE  /\ posts'[v.id].made /\ Honest(v)'
             /\ {v.id, v.reposted.post, v.replied.post} \ {0} \subseteq request'.seen
  <2>1. v.id \in Ids
    BY DEF FeedType, RequestType, Views
  <2>2. /\ posts[v.id].made /\ Honest(v)
        /\ {v.id, v.reposted.post, v.replied.post} \ {0} \subseteq request.seen
    BY DEF PageInv
  <2> QED
    BY <1>1, <2>1, <2>2, HonestKept, StatesKept
<1> QED
  BY <1>1, <1>2, <1>3 DEF PageInv

LEMMA WritingWalk ==
  ASSUME FeedType, LoadedInv, ThreadInv, DueInv, OnceInv, Writing
  PROVE  ThreadInv' /\ DueInv' /\ OnceInv'
<1>1. /\ request'.at = request.at /\ request'.rows = request.rows /\ request'.next = request.next
      /\ request'.authors = request.authors /\ request'.quiet = FALSE
      /\ walk'.what = walk.what /\ walk'.cursor = walk.cursor
      /\ walk'.shown = walk.shown /\ walk'.twice = walk.twice /\ walk'.ended = walk.ended
      /\ walk'.due = walk.due \cap Listed(walk.what)'
      /\ walk'.unliked = walk.unliked \cup {l.post : l \in {k \in likes \ likes' : k.user = Viewer}}
      /\ walk.ended = "no" /\ Kept
  BY RequestIsWatched
<1>2. ThreadInv'
  BY <1>1 DEF ThreadInv
<1>3. DueInv'
  <2>1. walk'.due \subseteq walk.due /\ walk'.due \subseteq Listed(walk.what)'
    BY <1>1
  <2>2. \A r : Ahead(r)' <=> Ahead(r)
    BY <1>1 DEF Ahead
  <2>3. ASSUME request.at = "authored", NEW r \in walk.due \cap request.rows
        PROVE  posts'[r.id].author \in request.authors
    <3>1. r.id \in Page
      BY DEF Page
    <3>2. r.id \in Ids /\ posts[r.id].made
      BY <3>1, EveryPostType DEF LoadedInv
    <3> QED
      BY <2>3, <3>2, StatesKept DEF DueInv
  <2> QED
    BY <1>1, <2>1, <2>2, <2>3 DEF DueInv
<1>4. OnceInv'
  <2>1. Passed' = Passed /\ Passed \subseteq Rows
    BY <1>1 DEF Passed, FeedType, RequestType, WalkType
  <2>2. \A r : Ahead(r)' <=> Ahead(r)
    BY <1>1 DEF Ahead
  <2>3. ASSUME walk.what = "likes", NEW r \in Passed
        PROVE  r.id \in walk'.unliked \/ [user |-> Viewer, post |-> r.id, at |-> r.at] \in likes'
    <3> DEFINE l == [user |-> Viewer, post |-> r.id, at |-> r.at]
    <3>1. CASE r.id \in walk.unliked
      BY <1>1, <3>1
    <3>2. CASE l \in likes /\ l \notin likes'
      BY <1>1, <3>2
    <3> QED
      BY <2>3, <3>1, <3>2 DEF OnceInv
  <2>4. walk.unliked \subseteq walk'.unliked
    BY <1>1
  <2> QED
    BY <1>1, <2>1, <2>2, <2>3, <2>4 DEF OnceInv
<1> QED
  BY <1>2, <1>3, <1>4

\* Another request's write leaves everything as it must be.
LEMMA WritingInv ==
  ASSUME IInv, Writing
  PROVE  IInv'
  BY RequestIsWatched, WritingLoaded, WritingMissing, WritingPage, WritingWalk DEF IInv

-----------------------------------------------------------------------------
(* Reads: the tables stay as they are *)

LEMMA ReadingKeeps ==
  ASSUME UNCHANGED Other
  PROVE  /\ posts' = posts /\ likes' = likes /\ liking' = liking /\ live' = live /\ follows' = follows /\ now' = now /\ writes' = writes
         /\ Visible' = Visible /\ Hidden' = Hidden /\ Rowed' = Rowed
         /\ \A what : Listed(what)' = Listed(what)
         /\ \A p : replies_to(p)' = replies_to(p)
         /\ \A p : live_author(p)' = live_author(p)
<1>1. posts' = posts /\ likes' = likes /\ liking' = liking /\ live' = live /\ follows' = follows /\ now' = now /\ writes' = writes
  BY DEF Other
<1>2. \A p : live_author(p)' = live_author(p)
  BY <1>1 DEF live_author
<1>3. Rowed' = Rowed
  BY <1>1 DEF Rowed
<1>4. Visible' = Visible /\ Hidden' = Hidden
  BY <1>1, <1>2, <1>3 DEF Visible, Hidden
<1>5. \A p : replies_to(p)' = replies_to(p)
  BY <1>1, <1>4 DEF replies_to
<1>6. \A what : Listed(what)' = Listed(what)
  BY <1>1, <1>4 DEF Listed, Liked
<1> QED
  BY <1>1, <1>2, <1>3, <1>4, <1>5, <1>6

LEMMA ReadingType ==
  ASSUME FeedType, UNCHANGED Other, walk' \in WalkType, request' \in RequestType
  PROVE  FeedType'
<1>1. posts' = posts /\ likes' = likes /\ liking' = liking /\ live' = live /\ follows' = follows /\ now' = now /\ writes' = writes
  BY DEF Other
<1> QED
  BY <1>1 DEF FeedType, Stored, Refers, Owned

\* A statement that loads no row of the page leaves the walk where it stands.
LEMMA LoadingWalk ==
  ASSUME PageInv, DueInv, OnceInv, UNCHANGED Other, walk' = walk,
         request.at \in Going, request'.at \in Going,
         request'.rows = request.rows, request'.next = request.next, request'.page = request.page,
         request'.at = "authored" => \A r \in walk.due \cap request.rows : posts[r.id].author \in request'.authors
  PROVE  PageInv' /\ DueInv' /\ OnceInv'
<1>1. /\ posts' = posts /\ likes' = likes /\ now' = now
      /\ \A what : Listed(what)' = Listed(what)
  BY ReadingKeeps
<1>2. request.page = {} /\ request'.at # "answered" /\ request.at # "answered" /\ request'.at # "none"
  BY DEF PageInv, Going, Asked, Moments
<1>3. PageInv'
  BY <1>2 DEF PageInv
<1>4. DueInv'
  <2>1. Listed(walk.what)' = Listed(walk.what)
    BY <1>1
  <2> QED
    BY <1>1, <2>1 DEF DueInv, Ahead
<1>5. OnceInv'
  <2>1. Passed' = Passed /\ \A r : Ahead(r)' <=> Ahead(r)
    BY DEF Passed, Ahead
  <2> QED
    BY <1>1, <1>2, <2>1 DEF OnceInv
<1> QED
  BY <1>3, <1>4, <1>5

\* The request's record as Loads leaves it.
LEMMA LoadsIs ==
  ASSUME NEW at \in Moments, NEW r \in RequestType, Loads(at, r)
  PROVE  /\ UNCHANGED Other /\ walk' = walk
         /\ request' = [r EXCEPT !.at = at] /\ request' \in RequestType
  BY DEF Loads, Other, RequestType

LEMMA NoRequestType ==
  /\ NoRequest \in RequestType
  /\ NoRequest.at = "none" /\ NoRequest.rows = {} /\ NoRequest.fetched = {} /\ NoRequest.stand_ins = {}
  /\ NoRequest.page = {} /\ NoRequest.quiet = TRUE /\ NoRequest.next = FALSE
  BY DEF NoRequest, RequestType, Moments

\* get_thread's first statement: the root, whatever has become of it.
LEMMA RootInv ==
  ASSUME IInv, thread_root
  PROVE  IInv'
<1> DEFINE r == Loading([NoRequest EXCEPT !.rows = {Row(walk.root, 0)}])
<1>1. /\ walk.what = "thread" /\ walk.ended = "no" /\ request.at = "none" /\ walk.root \in Rowed
      /\ Loads("rooted", r)
  BY DEF thread_root
<1>2. walk.root \in Ids /\ walk \in WalkType /\ FeedType
  BY <1>1 DEF Rowed, IInv, FeedType
<1>3. Row(walk.root, 0) \in Rows /\ Visible \subseteq Ids /\ Hidden \subseteq Ids
  BY <1>2 DEF Row, Rows, Visible, Hidden, Rowed
<1>4. /\ r \in RequestType /\ r.rows = {Row(walk.root, 0)} /\ r.next = FALSE /\ r.fetched = {} /\ r.stand_ins = {}
      /\ r.page = {} /\ r.seen = Visible /\ r.hid = Hidden /\ r.quiet = TRUE
  BY <1>3 DEF Loading, NoRequest, RequestType, Moments
<1> HIDE DEF r
<1>5. UNCHANGED Other /\ walk' = walk /\ request' = [r EXCEPT !.at = "rooted"] /\ request' \in RequestType
  BY <1>1, <1>4, LoadsIs DEF Moments
<1>6. /\ request'.rows = {Row(walk.root, 0)} /\ request'.next = FALSE /\ request'.fetched = {}
      /\ request'.stand_ins = {} /\ request'.page = {} /\ request'.seen = Visible /\ request'.hid = Hidden
      /\ request'.quiet = TRUE /\ request'.at = "rooted"
  BY <1>4, <1>5 DEF RequestType
<1>7. /\ posts' = posts /\ likes' = likes /\ now' = now /\ Visible' = Visible /\ Hidden' = Hidden
      /\ \A what : Listed(what)' = Listed(what)
  BY <1>5, ReadingKeeps
<1>8. FeedType'
  BY <1>2, <1>5, ReadingType
<1>9. Page' = {walk.root} /\ every_post' = {walk.root}
  BY <1>6 DEF Page, every_post, Row
<1>10. posts[walk.root].made /\ posts[walk.root].is \in {"up", "deleted"}
  BY <1>1, <1>2, MadeRows
<1>11. LoadedInv'
  BY <1>1, <1>5, <1>6, <1>7, <1>9, <1>10 DEF LoadedInv
<1>12. MissingInv'
  BY <1>6 DEF MissingInv, Loaded, Checked
<1>13. PageInv'
  BY <1>6 DEF PageInv
<1>14. ThreadInv'
  BY <1>5, <1>6, <1>9 DEF ThreadInv, CountMatchesThread
<1>15. walk.due = {}
  BY <1>1 DEF IInv, DueInv, Listed
<1>16. DueInv'
  BY <1>1, <1>5, <1>6, <1>15 DEF DueInv
<1>17. OnceInv'
  BY <1>1, <1>5, <1>6 DEF IInv, OnceInv
<1> QED
  BY <1>8, <1>11, <1>12, <1>13, <1>14, <1>16, <1>17 DEF IInv

\* A page of a thread can only change where nothing is due.
LEMMA ThreadWalk ==
  ASSUME PageInv, DueInv, OnceInv, UNCHANGED Other, walk' = walk, walk.what = "thread",
         request.at \in Going, request'.at \in Going \ {"authored"}, request'.page = request.page,
         request'.next = request.next
  PROVE  PageInv' /\ DueInv' /\ OnceInv'
<1>1. request.page = {} /\ request'.at # "answered" /\ request.at # "answered" /\ request'.at # "none"
  BY DEF PageInv, Going, Asked, Moments
<1>2. walk.due = {} /\ walk.shown = {} /\ walk.ended = "no" /\ ~request.next
  BY <1>1 DEF DueInv, OnceInv, Listed
<1> QED
  BY <1>1, <1>2 DEF PageInv, DueInv, OnceInv

LEMMA RootDeletedInv ==
  ASSUME IInv, thread_deleted
  PROVE  IInv'
<1> DEFINE gone == walk.root \in deleted_post_ids({walk.root})
           r == [request EXCEPT !.root_deleted = gone, !.rows = IF gone THEN {} ELSE @]
<1>1. request.at = "rooted" /\ Loads("root_checked", r)
  BY DEF thread_deleted
<1>2. walk \in WalkType /\ request \in RequestType /\ FeedType
  BY DEF IInv, FeedType
<1>3. gone \in BOOLEAN /\ (gone <=> walk.root \in Rowed /\ posts[walk.root].is = "deleted")
  BY DEF deleted_post_ids
<1> HIDE DEF gone
<1>4. /\ r \in RequestType /\ r.rows = (IF gone THEN {} ELSE request.rows) /\ r.fetched = request.fetched
      /\ r.stand_ins = request.stand_ins /\ r.page = request.page /\ r.seen = request.seen
      /\ r.hid = request.hid /\ r.quiet = request.quiet /\ r.next = request.next
  BY <1>2, <1>3 DEF RequestType
<1> HIDE DEF r
<1>5. UNCHANGED Other /\ walk' = walk /\ request' = [r EXCEPT !.at = "root_checked"] /\ request' \in RequestType
  BY <1>1, <1>4, LoadsIs DEF Moments
<1>6. /\ request'.rows = (IF gone THEN {} ELSE request.rows) /\ request'.fetched = request.fetched
      /\ request'.stand_ins = request.stand_ins /\ request'.page = request.page /\ request'.seen = request.seen
      /\ request'.hid = request.hid /\ request'.quiet = request.quiet /\ request'.next = request.next
      /\ request'.at = "root_checked"
  BY <1>4, <1>5 DEF RequestType
<1>7. posts' = posts /\ Visible' = Visible /\ Hidden' = Hidden
  BY <1>5, ReadingKeeps
<1>8. FeedType'
  BY <1>2, <1>5, ReadingType
<1>9. /\ walk.what = "thread" /\ Page \subseteq {walk.root} /\ request.fetched = {} /\ request.stand_ins = {}
      /\ every_post = Page
  BY <1>1 DEF IInv, LoadedInv, every_post
<1>10. Page' = (IF gone THEN {} ELSE Page) /\ every_post' = Page'
  BY <1>6, <1>9 DEF Page, every_post
<1>11. LoadedInv'
  <2>1. \A p \in Page' : posts[p].made /\ (p \in request.seen \/ posts[p].is = "up")
    BY <1>1, <1>3, <1>9, <1>10, EveryPostType DEF IInv, LoadedInv, Rowed
  <2>2. Visible \subseteq request.seen /\ Hidden \subseteq request.hid
    BY <1>1 DEF IInv, LoadedInv, Asked, Moments
  <2> QED
    BY <1>5, <1>6, <1>7, <1>9, <1>10, <2>1, <2>2 DEF LoadedInv
<1>12. MissingInv'
  BY <1>6 DEF MissingInv, Loaded, Checked
<1>13. ThreadInv'
  BY <1>5, <1>6, <1>10 DEF ThreadInv, CountMatchesThread
<1>14. PageInv' /\ DueInv' /\ OnceInv'
  BY <1>1, <1>5, <1>6, <1>9, ThreadWalk DEF IInv, Going, Asked, Moments
<1> QED
  BY <1>8, <1>11, <1>12, <1>13, <1>14 DEF IInv

LEMMA RowsOfIds ==
  ASSUME NEW S \in SUBSET Ids
  PROVE  {Row(q, 0) : q \in S} \subseteq Rows /\ {n.id : n \in {Row(q, 0) : q \in S}} = S
<1>1. \A q \in S : Row(q, 0) \in Rows /\ Row(q, 0).id = q
  BY DEF Row, Rows
<1> QED
  BY <1>1

LEMMA RepliesInv ==
  ASSUME IInv, thread_replies
  PROVE  IInv'
<1> DEFINE new == {Row(q, 0) : q \in replies_to(walk.root)}
           r == [request EXCEPT !.rows = @ \cup new]
<1>1. request.at = "root_checked" /\ Loads("listed", r)
  BY DEF thread_replies
<1>2. walk \in WalkType /\ request \in RequestType /\ FeedType
  BY DEF IInv, FeedType
<1>3. replies_to(walk.root) \subseteq Visible /\ Visible \subseteq Ids
  BY DEF replies_to, Visible, Rowed
<1>4. new \subseteq Rows /\ {n.id : n \in new} = replies_to(walk.root)
  BY <1>3, RowsOfIds
<1> HIDE DEF new
<1>5. /\ r \in RequestType /\ r.rows = request.rows \cup new /\ r.fetched = request.fetched
      /\ r.stand_ins = request.stand_ins /\ r.page = request.page /\ r.seen = request.seen
      /\ r.hid = request.hid /\ r.quiet = request.quiet /\ r.next = request.next
  BY <1>2, <1>4 DEF RequestType
<1> HIDE DEF r
<1>6. UNCHANGED Other /\ walk' = walk /\ request' = [r EXCEPT !.at = "listed"] /\ request' \in RequestType
  BY <1>1, <1>5, LoadsIs DEF Moments
<1>7. /\ request'.rows = request.rows \cup new /\ request'.fetched = request.fetched
      /\ request'.stand_ins = request.stand_ins /\ request'.page = request.page /\ request'.seen = request.seen
      /\ request'.hid = request.hid /\ request'.quiet = request.quiet /\ request'.next = request.next
      /\ request'.at = "listed"
  BY <1>5, <1>6 DEF RequestType
<1>8. /\ posts' = posts /\ Visible' = Visible /\ Hidden' = Hidden
      /\ \A p : replies_to(p)' = replies_to(p)
  BY <1>6, ReadingKeeps
<1>9. FeedType'
  BY <1>2, <1>6, ReadingType
<1>10. /\ walk.what = "thread" /\ Page \subseteq {walk.root} /\ request.fetched = {} /\ request.stand_ins = {}
       /\ every_post = Page
  BY <1>1 DEF IInv, LoadedInv, every_post
<1>11. Page' = Page \cup replies_to(walk.root) /\ every_post' = Page'
  <2>1. Page' = {n.id : n \in request.rows \cup new}
    BY <1>7 DEF Page
  <2>2. Page' = Page \cup replies_to(walk.root)
    BY <1>4, <2>1 DEF Page
  <2> QED
    BY <1>7, <1>10, <2>2 DEF every_post
<1>12. LoadedInv'
  <2>1. \A p \in Page : posts[p].made /\ (p \in request.seen \/ posts[p].is = "up")
    BY <1>1, <1>10 DEF IInv, LoadedInv
  <2>2. \A p \in replies_to(walk.root) : posts[p].made /\ posts[p].is = "up"
    BY <1>2, <1>3, MadeRows DEF Visible
  <2>3. Visible \subseteq request.seen /\ Hidden \subseteq request.hid
    BY <1>1 DEF IInv, LoadedInv, Asked, Moments
  <2> QED
    BY <1>7, <1>8, <1>11, <2>1, <2>2, <2>3 DEF LoadedInv
<1>13. MissingInv'
  BY <1>7 DEF MissingInv, Loaded, Checked
<1>14. ThreadInv'
  <2>1. walk.root \notin replies_to(walk.root)
    <3>1. SUFFICES ASSUME walk.root \in replies_to(walk.root) PROVE FALSE
      OBVIOUS
    <3>2. walk.root \in Ids /\ posts[walk.root].parent = walk.root
      BY <1>3, <3>1 DEF replies_to
    <3>3. walk.root \in RefsOf(posts[walk.root]) /\ walk.root \in Nat
      BY <3>2, FeedAssumption DEF RefsOf, Ids
    <3>4. walk.root < walk.root
      BY <1>2, <3>2, <3>3, RowsAreSound DEF FeedType, Tables, Sound, Refers
    <3> QED
      BY <3>3, <3>4
  <2>2. Page' \ {walk.root} = replies_to(walk.root)
    BY <1>10, <1>11, <2>1
  <2>3. walk'.root = walk.root /\ replies_to(walk.root)' = replies_to(walk.root)
    BY <1>6, <1>8
  <2> QED
    BY <1>6, <1>7, <2>2, <2>3 DEF ThreadInv, CountMatchesThread
<1>15. PageInv' /\ DueInv' /\ OnceInv'
  BY <1>1, <1>6, <1>7, <1>10, ThreadWalk DEF IInv, Going, Asked, Moments
<1> QED
  BY <1>9, <1>12, <1>13, <1>14, <1>15 DEF IInv

\* A statement that looks up more leaves the page, and what is known of the
\* thread, as they are.
LEMMA LoadingSame ==
  ASSUME IInv, NEW at \in Going, NEW r \in RequestType, Loads(at, r), request.at \in Going \ {"rooted", "root_checked"},
         at \notin {"rooted", "root_checked"},
         r.rows = request.rows, r.next = request.next, r.page = request.page, r.seen = request.seen,
         r.hid = request.hid, r.quiet = request.quiet
  PROVE  /\ UNCHANGED Other /\ walk' = walk /\ FeedType' /\ request'.at = at
         /\ request'.fetched = r.fetched /\ request'.stand_ins = r.stand_ins /\ request'.deleted = r.deleted
         /\ request'.authors = r.authors /\ request'.seen = request.seen /\ request'.hid = request.hid
         /\ request'.rows = request.rows /\ request'.next = request.next /\ request'.page = request.page
         /\ request'.quiet = request.quiet
         /\ posts' = posts /\ Visible' = Visible /\ Hidden' = Hidden /\ Rowed' = Rowed
         /\ Page' = Page /\ Refs' = Refs /\ parent_ids' = parent_ids
         /\ Visible \subseteq request.seen /\ Hidden \subseteq request.hid
         /\ at # "authored" => ThreadInv' /\ PageInv' /\ DueInv' /\ OnceInv'
<1>1. at \in Moments /\ FeedType /\ walk \in WalkType
  BY DEF IInv, Going, Asked, FeedType
<1>2. UNCHANGED Other /\ walk' = walk /\ request' = [r EXCEPT !.at = at] /\ request' \in RequestType
  BY <1>1, LoadsIs
<1>3. /\ request'.at = at /\ request'.rows = request.rows /\ request'.next = request.next
      /\ request'.fetched = r.fetched /\ request'.stand_ins = r.stand_ins /\ request'.deleted = r.deleted
      /\ request'.authors = r.authors /\ request'.page = request.page /\ request'.seen = request.seen
      /\ request'.hid = request.hid /\ request'.quiet = request.quiet
  BY <1>2 DEF RequestType
<1>4. /\ posts' = posts /\ Visible' = Visible /\ Hidden' = Hidden /\ Rowed' = Rowed
      /\ \A p : replies_to(p)' = replies_to(p)
  BY <1>2, ReadingKeeps
<1>5. FeedType'
  BY <1>1, <1>2, ReadingType
<1>6. Page' = Page
  BY <1>3 DEF Page
<1>7. Refs' = Refs /\ parent_ids' = parent_ids
  BY <1>4, <1>6 DEF Refs, original_ids, parent_ids
<1>8. Visible \subseteq request.seen /\ Hidden \subseteq request.hid
  BY DEF IInv, LoadedInv, Going
<1>9. ASSUME at # "authored"
      PROVE  ThreadInv' /\ PageInv' /\ DueInv' /\ OnceInv'
  <2>1. PageInv' /\ DueInv' /\ OnceInv'
    BY <1>2, <1>3, <1>9, LoadingWalk DEF IInv
  <2>2. replies_to(walk.root)' = replies_to(walk.root)
    BY <1>2, <1>4
  <2>3. at # "answered"
    BY DEF Going
  <2>4. ThreadInv'
    BY <1>2, <1>3, <1>6, <1>9, <2>2, <2>3 DEF IInv, ThreadInv, CountMatchesThread
  <2> QED
    BY <2>1, <2>4
<1> QED
  BY <1>2, <1>3, <1>4, <1>5, <1>6, <1>7, <1>8, <1>9

LEMMA RefsInv ==
  ASSUME IInv, load_refs
  PROVE  IInv'
<1> DEFINE found == posts_by_ids(original_ids \cup parent_ids)
           r == [request EXCEPT !.fetched = found]
<1>1. request.at = "listed" /\ Loads("fetched", r) /\ request \in RequestType /\ FeedType
  BY DEF load_refs, IInv, FeedType
<1>2. found = Refs \cap Visible /\ Visible \subseteq Ids
  BY DEF posts_by_ids, Visible, Rowed, Refs
<1> HIDE DEF found
<1>3. /\ r \in RequestType /\ r.fetched = found /\ r.stand_ins = request.stand_ins /\ r.rows = request.rows
      /\ r.next = request.next /\ r.page = request.page /\ r.seen = request.seen
      /\ r.hid = request.hid /\ r.quiet = request.quiet
  BY <1>1, <1>2 DEF RequestType
<1> HIDE DEF r
<1>4. /\ UNCHANGED Other /\ walk' = walk /\ FeedType' /\ request'.at = "fetched"
      /\ request'.fetched = found /\ request'.stand_ins = request.stand_ins
      /\ request'.seen = request.seen /\ request'.hid = request.hid
      /\ posts' = posts /\ Visible' = Visible /\ Hidden' = Hidden /\ Rowed' = Rowed
      /\ Page' = Page /\ Refs' = Refs /\ parent_ids' = parent_ids
      /\ Visible \subseteq request.seen /\ Hidden \subseteq request.hid
      /\ ThreadInv' /\ PageInv' /\ DueInv' /\ OnceInv'
  BY <1>1, <1>3, LoadingSame DEF Going, Asked, Moments
<1>5. LoadedInv'
  <2>1. every_post' \subseteq every_post \cup found
    BY <1>4 DEF every_post
  <2>2. \A p \in found : posts[p].is = "up" /\ posts[p].made
    BY <1>1, <1>2, MadeRows DEF Visible
  <2> QED
    BY <1>1, <1>4, <2>1, <2>2 DEF IInv, LoadedInv
<1>6. MissingInv'
  <2>1. ASSUME NEW p \in Refs
        PROVE  p \in found \/ posts[p].is = "deleted" \/ Undone(p) \/ p \in request.hid
    <3>1. p \in Ids /\ (p \in Rowed \/ Undone(p)) /\ posts[p].is \in {"up", "deleted", "undone"}
      BY <1>1, RefsAreRows DEF IInv, FeedType, Stored, Post
    <3> QED
      BY <1>2, <1>4, <3>1 DEF Visible, Hidden, Rowed, Undone
  <2>2. \A p : Undone(p)' <=> Undone(p)
    BY <1>4 DEF Undone
  <2> QED
    BY <1>4, <2>1, <2>2 DEF MissingInv, Loaded, Checked
<1> QED
  BY <1>4, <1>5, <1>6 DEF IInv

LEMMA StandInsInv ==
  ASSUME IInv, load_stand_ins
  PROVE  IInv'
<1> DEFINE found == posts_by_ids(stand_in_ids \ (Page \cup request.fetched))
           r == [request EXCEPT !.stand_ins = found]
<1>1. request.at = "fetched" /\ Loads("loaded", r) /\ request \in RequestType /\ FeedType
  BY DEF load_stand_ins, IInv, FeedType
<1>2. found = (stand_in_ids \ (Page \cup request.fetched)) \cap Visible /\ Visible \subseteq Ids
  BY DEF posts_by_ids, Visible, Rowed
<1> HIDE DEF found
<1>3. /\ r \in RequestType /\ r.stand_ins = found /\ r.fetched = request.fetched /\ r.rows = request.rows
      /\ r.next = request.next /\ r.page = request.page /\ r.seen = request.seen
      /\ r.hid = request.hid /\ r.quiet = request.quiet
  BY <1>1, <1>2 DEF RequestType
<1> HIDE DEF r
<1>4. /\ UNCHANGED Other /\ walk' = walk /\ FeedType' /\ request'.at = "loaded"
      /\ request'.fetched = request.fetched /\ request'.stand_ins = found
      /\ request'.seen = request.seen /\ request'.hid = request.hid
      /\ posts' = posts /\ Visible' = Visible /\ Hidden' = Hidden /\ Rowed' = Rowed
      /\ Page' = Page /\ Refs' = Refs /\ parent_ids' = parent_ids
      /\ Visible \subseteq request.seen /\ Hidden \subseteq request.hid
      /\ ThreadInv' /\ PageInv' /\ DueInv' /\ OnceInv'
  BY <1>1, <1>3, LoadingSame DEF Going, Asked, Moments
<1>5. every_post' = Page \cup request.fetched \cup found /\ stand_in_ids' = stand_in_ids
  BY <1>4 DEF every_post, stand_in_ids
<1>6. \A p \in found : posts[p].is = "up" /\ posts[p].made
  BY <1>1, <1>2, MadeRows DEF Visible
<1>7. LoadedInv'
  <2>1. Page \cup request.fetched \subseteq every_post
    BY DEF every_post
  <2> QED
    BY <1>1, <1>4, <1>5, <1>6, <2>1 DEF IInv, LoadedInv
<1>8. MissingInv'
  <2>1. ASSUME NEW p \in stand_in_ids
        PROVE  p \in Page \cup request.fetched \cup found \/ posts[p].is = "deleted" \/ p \in request.hid
    <3>1. p \in Ids /\ p \in Rowed /\ posts[p].is \in {"up", "deleted"}
      BY RefsAreRows DEF IInv
    <3> QED
      BY <1>2, <1>4, <3>1 DEF Visible, Hidden
  <2>2. \A p \in Refs :
          \/ p \in Page \cup request.fetched \/ p \in request.hid
          \/ (posts[p].is = "deleted" \/ Undone(p)) /\ p \notin found
    BY <1>1, <1>6 DEF IInv, MissingInv, Undone
  <2>3. \A p : Undone(p)' <=> Undone(p)
    BY <1>4 DEF Undone
  <2> QED
    BY <1>4, <1>5, <2>1, <2>2, <2>3 DEF MissingInv, Checked
<1> QED
  BY <1>4, <1>7, <1>8 DEF IInv

LEMMA DeletedInv ==
  ASSUME IInv, load_deleted
  PROVE  IInv'
<1> DEFINE found == deleted_post_ids(original_ids \cup parent_ids \cup stand_in_ids)
           r == [request EXCEPT !.deleted = found]
<1>1. request.at = "loaded" /\ Loads("checked", r) /\ request \in RequestType /\ FeedType
  BY DEF load_deleted, IInv, FeedType
<1>2. /\ found = {p \in (Refs \cup stand_in_ids) \cap Rowed : posts[p].is = "deleted"}
      /\ Rowed \subseteq Ids
  BY DEF deleted_post_ids, Rowed, Refs
<1> HIDE DEF found
<1>3. /\ r \in RequestType /\ r.deleted = found /\ r.stand_ins = request.stand_ins
      /\ r.fetched = request.fetched /\ r.rows = request.rows
      /\ r.next = request.next /\ r.page = request.page /\ r.seen = request.seen
      /\ r.hid = request.hid /\ r.quiet = request.quiet
  BY <1>1, <1>2 DEF RequestType
<1> HIDE DEF r
<1>4. /\ UNCHANGED Other /\ walk' = walk /\ FeedType' /\ request'.at = "checked"
      /\ request'.fetched = request.fetched /\ request'.stand_ins = request.stand_ins
      /\ request'.deleted = found
      /\ request'.seen = request.seen /\ request'.hid = request.hid
      /\ posts' = posts /\ Visible' = Visible /\ Hidden' = Hidden /\ Rowed' = Rowed
      /\ Page' = Page /\ Refs' = Refs /\ parent_ids' = parent_ids
      /\ Visible \subseteq request.seen /\ Hidden \subseteq request.hid
      /\ ThreadInv' /\ PageInv' /\ DueInv' /\ OnceInv'
  BY <1>1, <1>3, LoadingSame DEF Going, Asked, Moments
<1>5. every_post' = every_post /\ stand_in_ids' = stand_in_ids
  BY <1>4 DEF every_post, stand_in_ids
<1>6. LoadedInv'
  BY <1>1, <1>4, <1>5 DEF IInv, LoadedInv
<1>7. MissingInv'
  <2>1. \A p \in Refs \cup stand_in_ids : p \in Rowed \/ Undone(p)
    BY RefsAreRows DEF IInv
  <2>2. \A p \in Refs :
          \/ p \in Page \cup request.fetched \/ p \in request.hid
          \/ (posts[p].is = "deleted" \/ Undone(p)) /\ p \notin request.stand_ins
    BY <1>1 DEF IInv, MissingInv, Loaded
  <2>3. \A p \in stand_in_ids : p \in every_post \/ posts[p].is = "deleted" \/ p \in request.hid
    BY <1>1 DEF IInv, MissingInv, Loaded
  <2>4. Page \cup request.fetched \subseteq every_post
    BY DEF every_post
  <2>5. \A p \in Refs \cup stand_in_ids :
          p \in every_post \cup found \/ Undone(p) \/ p \in request.hid
    BY <1>2, <2>1, <2>2, <2>3, <2>4
  <2>6. \A p \in found : posts[p].is = "deleted"
    BY <1>2
  <2>7. \A p : Undone(p)' <=> Undone(p)
    BY <1>4 DEF Undone
  <2> QED
    BY <1>4, <1>5, <2>2, <2>3, <2>5, <2>6, <2>7 DEF MissingInv
<1> QED
  BY <1>4, <1>6, <1>7 DEF IInv

LEMMA AuthorsInv ==
  ASSUME IInv, load_authors
  PROVE  IInv'
<1> DEFINE wrote == {posts[p].author : p \in every_post}
           found == get_public_profiles(wrote)
           r == [request EXCEPT !.authors = found]
<1>1. request.at = "checked" /\ Loads("authored", r) /\ request \in RequestType /\ FeedType
  BY DEF load_authors, IInv, FeedType
<1>2. /\ found \subseteq Users
      /\ \A p \in every_post : posts[p].author \in found <=> live_author(p)
      /\ \A a \in found : a \in live
  BY <1>1 DEF get_public_profiles, live_author, FeedType, Stored
<1> HIDE DEF found, wrote
<1>3. /\ r \in RequestType /\ r.authors = found /\ r.deleted = request.deleted
      /\ r.stand_ins = request.stand_ins /\ r.fetched = request.fetched /\ r.rows = request.rows
      /\ r.next = request.next /\ r.page = request.page /\ r.seen = request.seen
      /\ r.hid = request.hid /\ r.quiet = request.quiet
  BY <1>1, <1>2 DEF RequestType
<1> HIDE DEF r
<1>4. /\ UNCHANGED Other /\ walk' = walk /\ FeedType' /\ request'.at = "authored"
      /\ request'.fetched = request.fetched /\ request'.stand_ins = request.stand_ins
      /\ request'.deleted = request.deleted /\ request'.authors = found
      /\ request'.seen = request.seen /\ request'.hid = request.hid
      /\ request'.rows = request.rows /\ request'.next = request.next /\ request'.page = request.page
      /\ request'.quiet = request.quiet
      /\ posts' = posts /\ Visible' = Visible /\ Hidden' = Hidden /\ Rowed' = Rowed
      /\ Page' = Page /\ Refs' = Refs /\ parent_ids' = parent_ids
      /\ Visible \subseteq request.seen /\ Hidden \subseteq request.hid
  BY <1>1, <1>3, LoadingSame DEF Going, Asked, Moments
<1>5. every_post' = every_post /\ stand_in_ids' = stand_in_ids /\ every_post \subseteq Ids /\ Page \subseteq every_post
  BY <1>1, <1>4, EveryPostType DEF every_post, stand_in_ids
<1>6. flat' = {p \in every_post : live_author(p)}
  BY <1>2, <1>4, <1>5 DEF flat
<1>7. LoadedInv'
  <2>1. \A p \in every_post : posts[p].made /\ (p \in request.seen \/ posts[p].is = "up")
    BY <1>1 DEF IInv, LoadedInv
  <2>2. flat' \subseteq request.seen
    BY <1>4, <1>5, <1>6, <2>1 DEF Visible, Rowed
  <2> QED
    BY <1>4, <1>5, <2>1, <2>2 DEF LoadedInv
<1>8. MissingInv'
  <2>1. \A p \in every_post \cap Rowed : posts[p].author \in found \/ p \in request.hid
    BY <1>2, <1>4 DEF Hidden
  <2>2. \A p : Undone(p)' <=> Undone(p)
    BY <1>4 DEF Undone
  <2> QED
    BY <1>1, <1>4, <1>5, <2>1, <2>2 DEF IInv, MissingInv, Loaded, Checked
<1>9. ThreadInv'
  <2>1. \A p \in Page : live_author(p)' = live_author(p)
    BY <1>4, ReadingKeeps
  <2>2. \A p \in Page : live_author(p) => p \in flat'
    BY <1>5, <1>6
  <2>3. replies_to(walk.root)' = replies_to(walk.root)
    BY <1>4, ReadingKeeps
  <2>4. walk.what = "thread" /\ request.quiet => Page \ {walk.root} = replies_to(walk.root)
    BY <1>1 DEF IInv, ThreadInv, Going, Asked, Moments
  <2>5. \A p \in Page' : live_author(p)' => p \in flat'
    BY <1>4, <2>1, <2>2
  <2>6. walk.what = "thread" /\ request.quiet => Page' \ {walk.root} = replies_to(walk.root)'
    BY <1>4, <2>3, <2>4
  <2> QED
    BY <1>4, <2>5, <2>6 DEF ThreadInv, CountMatchesThread
<1>10. \A x \in walk.due \cap request.rows : posts[x.id].author \in request'.authors
  <2>1. SUFFICES ASSUME NEW x \in walk.due \cap request.rows
                 PROVE  posts[x.id].author \in found
    BY <1>4
  <2>2. x \in Listed(walk.what) /\ walk.what \in Whats
    BY DEF IInv, DueInv, FeedType, WalkType
  <2>3. x.id \in Visible
    BY <1>1, <2>2, ListedRows DEF FeedType
  <2>4. x.id \in every_post
    BY <1>5 DEF Page
  <2> QED
    BY <1>2, <2>3, <2>4 DEF Visible
<1>11. PageInv' /\ DueInv' /\ OnceInv'
  BY <1>1, <1>4, <1>10, LoadingWalk DEF IInv, Going, Asked, Moments
<1> QED
  BY <1>4, <1>7, <1>8, <1>9, <1>11 DEF IInv

-----------------------------------------------------------------------------
(* The answer *)

LEMMA ShownType ==
  ASSUME FeedType, NEW q \in Ids
  PROVE  /\ shown_as_original(q) \in Inner /\ shown_as_original(q).post \in {0} \cup flat
         /\ q \in request.deleted => shown_as_original(q).deleted /\ shown_as_original(q).post = 0
         /\ q \notin request.deleted => /\ ~shown_as_original(q).deleted
                                        /\ shown_as_original(q).post = IF q \in flat THEN q ELSE 0
<1>1. Shown(q) = (IF q \in flat THEN q ELSE 0) /\ Shown(q) \in {0} \cup flat /\ Shown(q) \in Ids \cup {0}
  BY DEF Shown
<1>2. CASE q \in request.deleted
  <2>1. (q \in request.deleted) = TRUE
    BY <1>2
  <2>2. shown_as_original(q) = [post |-> 0, deleted |-> TRUE]
    BY <2>1 DEF shown_as_original
  <2> QED
    BY <1>2, <2>2 DEF Inner
<1>3. CASE q \notin request.deleted
  <2>1. (q \in request.deleted) = FALSE
    BY <1>3
  <2>2. shown_as_original(q) = [post |-> Shown(q), deleted |-> FALSE]
    BY <2>1 DEF shown_as_original
  <2> QED
    BY <1>1, <1>3, <2>2 DEF Inner
<1> QED
  BY <1>2, <1>3

LEMMA ViewType ==
  ASSUME FeedType, NEW p \in Ids
  PROVE  /\ View(p) \in Views /\ View(p).id = p
         /\ {View(p).reposted.post, View(p).replied.post} \subseteq {0} \cup flat
<1>1. from_columns(posts[p].columns) \in SoundLinks
  <2>1. posts[p].columns = columns(posts[p].link) /\ posts[p].link \in SoundLinks
    BY DEF FeedType, Stored, Post
  <2> QED
    BY <2>1, LinkIsReadBack
<1>2. reply_counts(p) \in Nat /\ repost_counts(p) \in Nat
  <2>1. 1 \in Int /\ MaxPosts \in Int
    BY FeedAssumption
  <2>2. IsFiniteSet(Ids)
    BY <2>1, FS_Interval DEF Ids
  <2>3. \A S \in SUBSET Ids : Cardinality(S) \in Nat
    BY <2>2, FS_Subset, FS_CardinalityType
  <2>4. Visible \subseteq Ids
    BY DEF Visible, Rowed
  <2> QED
    BY <2>3, <2>4 DEF reply_counts, repost_counts
<1>3. Nothing \in Inner /\ Nothing.post = 0
  BY DEF Nothing, Inner
<1>4. posts[p].is_repost => posts[p].original \in Ids
  BY ReferredTo
<1>5. posts[p].is_reply => stands_for(posts[p].parent) \in Ids
  <2>1. SUFFICES ASSUME posts[p].is_reply PROVE stands_for(posts[p].parent) \in Ids
    OBVIOUS
  <2>2. posts[p].parent \in Ids
    BY <2>1, ReferredTo
  <2> QED
    BY <2>2, ReferredTo DEF stands_for, is_plain, is_text_less_repost
<1>6. View(p).reposted \in Inner /\ View(p).reposted.post \in {0} \cup flat
  BY <1>3, <1>4, ShownType DEF View
<1>7. View(p).replied \in Inner /\ View(p).replied.post \in {0} \cup flat
  BY <1>3, <1>5, ShownType DEF View, shown_as_parent
<1>8. View(p) = [id |-> p, data_link |-> from_columns(posts[p].columns), reply_count |-> reply_counts(p),
                 repost_count |-> repost_counts(p), reposted |-> View(p).reposted, replied |-> View(p).replied]
  BY DEF View
<1>9. View(p) \in Views
  BY <1>1, <1>2, <1>6, <1>7, <1>8 DEF Views
<1> QED
  BY <1>6, <1>7, <1>8, <1>9

\* What a repost or a reply shows for the other post is the truth.
LEMMA ViewHonest ==
  ASSUME IInv, request.at = "authored", NEW p \in Page
  PROVE  Honest(View(p))
<1> DEFINE o == posts[p].original
           q == posts[p].parent
           v == View(p)
<1>1. FeedType /\ p \in Ids
  BY EveryPostType DEF IInv
<1>2. /\ \A x \in request.deleted : posts[x].is = "deleted"
      /\ \A x \in Refs \cup stand_in_ids :
           x \in every_post \cup request.deleted \/ Undone(x) \/ x \in request.hid
      /\ \A x \in every_post \cap Rowed : posts[x].author \in request.authors \/ x \in request.hid
      /\ \A x \in Refs :
           x \in Page \cup request.fetched \/ x \in request.hid \/ x \notin request.stand_ins
  BY DEF IInv, MissingInv, Loaded, Checked
<1>3. \A x : x \in flat <=> x \in every_post /\ posts[x].author \in request.authors
  BY DEF flat
<1>4. v.id = p
  BY DEF View
<1>5. ASSUME NEW x \in Ids, NEW y \in Ids, x \in {y, StandsFor(y)}, NEW inner, inner = shown_as_original(x),
             x = StandsFor(y) \/ x \in request.deleted \/ x \notin flat,
             x \in flat \/ x \in request.deleted \/ {y, StandsFor(y)} \cap request.hid # {} \/ (Undone(y) /\ Undone(p))
      PROVE  Told(inner, v, y, StandsFor(y))
  BY <1>1, <1>2, <1>4, <1>5, ShownType DEF Told, Undone
<1>6. posts[p].is_repost => Told(v.reposted, v, o, o)
  <2>1. SUFFICES ASSUME posts[p].is_repost PROVE Told(v.reposted, v, o, o)
    OBVIOUS
  <2>2. o \in Ids /\ o \in Rowed /\ o \in original_ids /\ ~Undone(o)
    BY <1>1, <2>1, ReferredTo, RefsAreRows DEF IInv, Rowed, Undone
  <2>3. v.reposted = shown_as_original(o)
    BY <2>1 DEF View
  <2>4. o \in flat \/ o \in request.deleted \/ o \in request.hid
    BY <1>2, <1>3, <2>2 DEF Refs
  <2> HIDE DEF v, o
  <2> QED
    BY <1>1, <1>2, <2>2, <2>3, <2>4, ShownType DEF Told
<1>7. posts[p].is_reply => Told(v.replied, v, q, StandsFor(q))
  <2>1. SUFFICES ASSUME posts[p].is_reply PROVE Told(v.replied, v, q, StandsFor(q))
    OBVIOUS
  <2>2. /\ q \in Ids /\ q \in parent_ids /\ q \in Refs /\ posts[q].made /\ (q \in Rowed \/ Undone(q))
        /\ (Undone(q) => Undone(p))
    BY <1>1, <2>1, ReferredTo, RefsAreRows DEF IInv, Refs
  <2>3. v.replied = shown_as_original(stands_for(q))
    BY <2>1 DEF View, shown_as_parent
  <2>4. CASE q \in every_post \ request.deleted /\ is_plain(posts[q])
    <3> DEFINE s == posts[q].original
    <3>1. stands_for(q) = s /\ StandsFor(q) = s /\ is_text_less_repost(posts[q])
      BY <2>4 DEF stands_for, StandsFor, is_plain
    <3>2. s \in Ids /\ s \in Rowed /\ ~Undone(s)
      BY <1>1, <2>2, <3>1, ReferredTo DEF is_text_less_repost, Undone, Rowed
    <3>3. s \in flat \/ s \in request.deleted \/ s \in request.hid \/ q \in request.hid
      <4>1. CASE s \in every_post
        BY <1>2, <1>3, <3>2, <4>1
      <4>2. CASE s \notin every_post /\ q \in Page \cup request.fetched
        <5>1. s \in stand_in_ids
          BY <2>2, <3>1, <4>2 DEF stand_in_ids
        <5> QED
          BY <1>2, <3>2, <4>2, <5>1
      <4>3. CASE q \notin Page \cup request.fetched
        BY <1>2, <2>2, <2>4, <4>3 DEF every_post
      <4> QED
        BY <4>1, <4>2, <4>3
    <3> HIDE DEF s, q, v
    <3> QED
      BY <1>5, <2>2, <2>3, <3>1, <3>2, <3>3
  <2>5. CASE ~(q \in every_post \ request.deleted /\ is_plain(posts[q]))
    <3>1. stands_for(q) = q
      BY <2>5 DEF stands_for
    <3>2. q \in flat => q \in every_post
      BY <1>3
    <3>3. q = StandsFor(q) \/ q \in request.deleted \/ q \notin flat
      BY <2>5, <3>2 DEF StandsFor
    <3>4. q \in flat \/ q \in request.deleted \/ q \in request.hid \/ (Undone(q) /\ Undone(p))
      BY <1>2, <1>3, <2>2
    <3> HIDE DEF q, v
    <3> QED
      BY <1>5, <2>2, <2>3, <3>1, <3>3, <3>4
  <2> QED
    BY <2>4, <2>5
<1> HIDE DEF v
<1>8. v = View(p)
  BY DEF v
<1> QED
  BY <1>4, <1>6, <1>7, <1>8 DEF Honest

\* As many views as posts.
LEMMA ViewsCount ==
  ASSUME NEW S \in SUBSET Ids
  PROVE  Cardinality({View(p) : p \in S}) = Cardinality(S)
<1> DEFINE T == {View(p) : p \in S}
           f == [p \in S |-> View(p)]
<1>1. IsFiniteSet(S)
  <2>1. 1 \in Int /\ MaxPosts \in Int
    BY FeedAssumption
  <2> QED
    BY <2>1, FS_Interval, FS_Subset DEF Ids
<1>2. \A p \in S : View(p).id = p
  BY DEF View
<1>3. f \in Injection(S, T)
  BY <1>2 DEF Injection, IsInjective
<1>4. f \in Surjection(S, T)
  BY DEF Surjection
<1>5. ExistsBijection(S, T)
  BY <1>3, <1>4 DEF ExistsBijection, Bijection
<1> HIDE DEF T
<1>6. Cardinality(T) = Cardinality(S)
  BY <1>1, <1>5, FS_Bijection
<1> QED
  BY <1>6 DEF T

\* The root's reply count and its thread.
LEMMA ThreadCount ==
  ASSUME IInv, request.at = "authored", walk.what = "thread", request.quiet, walk.root \in Page \cap flat
  PROVE  View(walk.root).reply_count =
           Cardinality({w \in {View(p) : p \in Page \cap flat} : w.id # walk.root /\ posts[w.id].is_reply})
<1> DEFINE replies == {q \in replies_to(walk.root) : posts[q].is_reply}
<1>1. FeedType /\ walk.root \in Ids /\ Page \subseteq Ids
  BY EveryPostType DEF IInv
<1>2. Page \ {walk.root} = replies_to(walk.root) /\ \A p \in Page : live_author(p) => p \in flat
  BY DEF IInv, ThreadInv, Going, Asked, Moments
<1>3. replies_to(walk.root) \subseteq Visible /\ replies \in SUBSET Ids
  BY DEF replies_to, Visible, Rowed
<1>4. Page \cap flat = replies_to(walk.root) \cup {walk.root} /\ walk.root \notin replies_to(walk.root)
  BY <1>2, <1>3 DEF Visible
<1>5. \A p : View(p).id = p
  BY DEF View
<1>6. {w \in {View(p) : p \in Page \cap flat} : w.id # walk.root /\ posts[w.id].is_reply} = {View(p) : p \in replies}
  BY <1>4, <1>5
<1>7. View(walk.root).reply_count = Cardinality(replies)
  <2>1. replies = {q \in Visible : posts[q].is_reply /\ posts[q].parent = walk.root}
    BY DEF replies_to
  <2> HIDE DEF replies
  <2> QED
    BY <2>1 DEF View, reply_counts
<1> HIDE DEF replies
<1> QED
  BY <1>3, <1>6, <1>7, ViewsCount

LEMMA AnswerInv ==
  ASSUME IInv, answer
  PROVE  IInv'
<1> DEFINE ids == IF NotFound THEN {} ELSE Page \cap flat
           page == {View(p) : p \in ids}
           shown == {r \in request.rows : r.id \in ids}
           again == ids \cap {r.id : r \in walk.shown}
           end == IF request.next THEN "no" ELSE IF NotFound THEN "refused" ELSE "yes"
<1>1. request.at = "authored" /\ FeedType /\ walk \in WalkType /\ request \in RequestType /\ UNCHANGED Other
  BY DEF answer, IInv, FeedType, Other
<1>2. \A p \in Page : View(p).id = p
  BY DEF View
<1>3. ids \subseteq Page \cap flat
  OBVIOUS
<1>4. /\ request' = [request EXCEPT !.at = "answered", !.page = page]
      /\ walk' = [walk EXCEPT !.shown = @ \cup shown, !.twice = @ \cup again, !.ended = end]
  BY DEF answer
<1>5. Page \subseteq Ids /\ every_post \subseteq Ids /\ Page \subseteq every_post
  BY <1>1, EveryPostType
<1>6. page \subseteq Views
  BY <1>1, <1>3, <1>5, ViewType
<1>7. /\ request' \in RequestType
      /\ request'.at = "answered" /\ request'.page = page /\ request'.rows = request.rows
      /\ request'.next = request.next /\ request'.fetched = request.fetched
      /\ request'.stand_ins = request.stand_ins /\ request'.deleted = request.deleted
      /\ request'.authors = request.authors /\ request'.seen = request.seen /\ request'.hid = request.hid
      /\ request'.quiet = request.quiet
  <2> HIDE DEF page
  <2> QED
    BY <1>1, <1>4, <1>6 DEF RequestType, Moments
<1>8. /\ walk.ended = "no" /\ walk.twice \subseteq Ids
      /\ walk.twice \cup again = {} \/ (walk.what = "likes" /\ walk.twice \cup again \subseteq walk.unliked)
  <2>1. \A n \in request.rows, r \in walk.shown : n.id = r.id => walk.what = "likes" /\ n.id \in walk.unliked
    BY <1>1 DEF IInv, OnceInv, Going, Asked, Moments
  <2>2. \A p \in ids : \E n \in request.rows : n.id = p
    BY <1>3 DEF Page
  <2>3. walk.ended = "no" /\ walk.twice \subseteq Ids
    BY <1>1 DEF IInv, OnceInv, Going, Asked, Moments, WalkType
  <2>4. \A p \in again : walk.what = "likes" /\ p \in walk.unliked
    BY <2>1, <2>2
  <2>5. walk.twice = {} \/ (walk.what = "likes" /\ walk.twice \subseteq walk.unliked)
    BY DEF IInv, OnceInv
  <2> HIDE DEF again
  <2> QED
    BY <2>3, <2>4, <2>5
<1>9. /\ walk' \in WalkType
      /\ walk'.shown = walk.shown \cup shown /\ walk'.twice = walk.twice \cup again /\ walk'.ended = end
      /\ walk'.what = walk.what /\ walk'.root = walk.root /\ walk'.cursor = walk.cursor /\ walk'.due = walk.due
      /\ walk'.unliked = walk.unliked
  <2>1. shown \subseteq Rows /\ end \in {"no", "yes", "refused"} /\ again \subseteq Ids
    BY <1>1, <1>3, <1>5 DEF RequestType
  <2> HIDE DEF shown, end, again
  <2> QED
    BY <1>1, <1>4, <1>8, <2>1 DEF WalkType
<1>10. /\ posts' = posts /\ likes' = likes /\ now' = now /\ Visible' = Visible /\ Hidden' = Hidden
       /\ \A what : Listed(what)' = Listed(what)
  BY <1>1, ReadingKeeps
<1>11. FeedType'
  BY <1>1, <1>7, <1>9, ReadingType
<1>12. every_post' = every_post
  BY <1>7 DEF every_post, Page
<1>13. LoadedInv'
  BY <1>1, <1>7, <1>10, <1>12 DEF IInv, LoadedInv, Asked, Moments
<1>14. MissingInv'
  BY <1>7 DEF MissingInv, Loaded, Checked
<1>15. PageInv'
  <2>1. ASSUME NEW p \in ids
        PROVE  /\ posts[View(p).id].made /\ Honest(View(p))
               /\ {View(p).id, View(p).reposted.post, View(p).replied.post} \ {0} \subseteq request.seen
    <3>1. flat \subseteq request.seen /\ posts[p].made /\ p \in Page \cap flat
      BY <1>1, <1>3, <1>5 DEF IInv, LoadedInv
    <3>2. Honest(View(p))
      BY <1>1, <3>1, ViewHonest
    <3>3. View(p).id = p /\ {View(p).reposted.post, View(p).replied.post} \subseteq {0} \cup flat
      BY <1>1, <1>5, <3>1, ViewType
    <3> QED
      BY <3>1, <3>2, <3>3
  <2>2. \A v : Honest(v)' <=> Honest(v)
    BY <1>7, <1>10 DEF Honest, Told, StandsFor
  <2> QED
    BY <1>7, <1>10, <2>1, <2>2 DEF PageInv
<1>16. ThreadInv'
  <2>1. SUFFICES ASSUME walk.what = "thread", request.quiet, NEW v \in page, v.id = walk.root
                 PROVE  v.reply_count = Cardinality({w \in page : w.id # walk.root /\ posts[w.id].is_reply})
    BY <1>7, <1>9, <1>10 DEF ThreadInv, CountMatchesThread, Going
  <2>2. PICK p \in ids : v = View(p)
    OBVIOUS
  <2>3. p = walk.root /\ ids = Page \cap flat
    BY <1>2, <1>3, <2>1, <2>2
  <2> QED
    BY <1>1, <2>1, <2>2, <2>3, ThreadCount
<1>17. \A r \in walk.due \cap request.rows : r \in shown
  <2>1. SUFFICES ASSUME NEW r \in walk.due \cap request.rows
                 PROVE  r.id \in ids
    OBVIOUS
  <2>3. ~NotFound
    BY DEF IInv, DueInv, Listed, NotFound
  <2>2. r.id \in Page /\ posts[r.id].author \in request.authors
    BY <1>1 DEF Page, IInv, DueInv
  <2> QED
    BY <1>5, <2>2, <2>3 DEF flat
<1>18. DueInv'
  <2>1. walk'.due \subseteq Listed(walk.what)'
    <3>1. walk.due \subseteq Listed(walk.what)
      BY DEF IInv, DueInv
    <3>2. Listed(walk.what)' = Listed(walk.what)
      BY <1>9, <1>10
    <3> QED
      BY <1>9, <3>1, <3>2
  <2>2. \A r \in walk.due : r \in walk.shown \cup request.rows \/ (request.next /\ Above(walk.cursor, r))
    BY <1>1 DEF IInv, DueInv, Going, Asked, Moments
  <2>3. \A r \in walk.due : r \in walk'.shown \/ (request.next /\ Above(walk.cursor, r))
    BY <1>9, <1>17, <2>2
  <2> HIDE DEF shown
  <2>4. walk'.ended = "yes" => walk'.due \subseteq walk'.shown
    BY <1>9, <2>3
  <2>5. \A r : Ahead(r)' <=> walk.cursor = Start \/ Above(walk.cursor, r)
    BY <1>9 DEF Ahead
  <2> QED
    BY <1>7, <1>9, <2>1, <2>3, <2>4, <2>5 DEF DueInv, Going
<1>19. OnceInv'
  <2>1. Passed' \subseteq Passed
    BY <1>1, <1>7, <1>9 DEF Passed, Going, Asked, Moments
  <2>2. \A r : Ahead(r)' <=> Ahead(r)
    BY <1>9 DEF Ahead
  <2>3. walk.what = "thread" => walk'.ended # "no"
    BY <1>1, <1>9 DEF IInv, OnceInv
  <2>4. walk'.twice = {} \/ (walk'.what = "likes" /\ walk'.twice \subseteq walk'.unliked)
    BY <1>8, <1>9
  <2>5. /\ walk'.what # "thread" => \A r \in Passed' : ~Ahead(r)'
        /\ walk'.what \notin {"likes", "thread"} => \A r \in Passed' : r.at = 0
        /\ walk'.what = "likes" =>
             \A r \in Passed' : r.id \in walk'.unliked \/ [user |-> Viewer, post |-> r.id, at |-> r.at] \in likes'
    BY <1>9, <1>10, <2>1, <2>2 DEF IInv, OnceInv
  <2> HIDE DEF again, end, shown
  <2> QED
    BY <1>7, <1>9, <2>3, <2>4, <2>5 DEF OnceInv, Going
<1> QED
  BY <1>11, <1>13, <1>14, <1>15, <1>16, <1>18, <1>19 DEF IInv

-----------------------------------------------------------------------------
(* The page *)

\* Either page of a list is of rows below the cursor, and the cursor goes to
\* its last row: nothing that is left below is passed over.
LEMMA PageRows ==
  ASSUME IInv, walk.what \in Tabs \cup {"feed"}, get_history \/ get_feed
  PROVE  \E rows \in SUBSET Rows, more \in BOOLEAN :
           /\ IsPage({r \in Listed(walk.what) : Ahead(r)}, rows, more)
           /\ Listing(rows, more)
<1> DEFINE B == {r \in Listed(walk.what) : Ahead(r)}
<1>1. FeedType /\ walk.what \in Whats
  BY DEF IInv, FeedType, WalkType
<1>2. /\ B \subseteq Rows /\ B \in SUBSET Points /\ IsFiniteSet(B)
  <2>1. Listed(walk.what) \subseteq Rows /\ IsFiniteSet(Listed(walk.what))
    BY <1>1, ListedRows DEF FeedType
  <2>2. Rows \subseteq Points
    BY DEF Rows, Points, Ids
  <2>3. B \subseteq Listed(walk.what)
    OBVIOUS
  <2> HIDE DEF B
  <2> QED
    BY <2>1, <2>2, <2>3, FS_Subset
<1>3. B = Below(Listed(walk.what), walk.cursor)
  BY DEF Below, Past, Ahead
<1>4. CASE get_history
  <2> DEFINE all == Newest(query_history_posts(walk.what, walk.cursor), Limit + 1)
             rows == Newest(all, Limit)
             more == Cardinality(all) > Limit
  <2>1. walk.what \in Tabs /\ Listing(rows, more)
    BY <1>4 DEF get_history
  <2>2. all = Newest(B, Limit + 1)
    BY <1>3, <2>1, HistoryIsQueried
  <2>3. IsPage(B, rows, more)
    BY <1>2, <2>2, HistoryPage
  <2>4. rows \in SUBSET Rows /\ more \in BOOLEAN
    BY <1>2, <2>3 DEF IsPage
  <2> HIDE DEF rows, more, B
  <2>5. \E x \in SUBSET Rows, y \in BOOLEAN : IsPage(B, x, y) /\ Listing(x, y)
    BY <2>1, <2>3, <2>4
  <2> QED
    BY <2>5 DEF B
<1>5. CASE get_feed
  <2> DEFINE rows == Newest(select_posts(walk.cursor), Limit)
             more == Cardinality(rows) = Limit
  <2>1. walk.what = "feed" /\ Listing(rows, more)
    BY <1>5 DEF get_feed
  <2>2. rows = Newest(B, Limit)
    BY <1>1, <1>3, <2>1, FeedIsQueried
  <2>3. IsPage(B, rows, more)
    BY <1>2, <2>2, FeedPage
  <2>4. rows \in SUBSET Rows /\ more \in BOOLEAN
    BY <1>2, <2>3 DEF IsPage
  <2> HIDE DEF rows, more, B
  <2>5. \E x \in SUBSET Rows, y \in BOOLEAN : IsPage(B, x, y) /\ Listing(x, y)
    BY <2>1, <2>3, <2>4
  <2> QED
    BY <2>5 DEF B
<1> QED
  BY <1>4, <1>5

LEMMA ListingInv ==
  ASSUME IInv, walk.what \in Tabs \cup {"feed"}, walk.ended = "no", request.at \in {"none", "answered"},
         UNCHANGED Other, NEW rows \in SUBSET Rows, NEW more \in BOOLEAN,
         IsPage({r \in Listed(walk.what) : Ahead(r)}, rows, more), Listing(rows, more)
  PROVE  IInv'
<1> DEFINE cursor == IF rows = {} THEN walk.cursor ELSE Oldest(rows)
           r0 == [NoRequest EXCEPT !.at = "listed", !.rows = rows, !.next = more]
<1>1. FeedType /\ walk \in WalkType /\ walk.what \in Whats /\ walk.what # "thread" /\ request.at \notin Going
  BY DEF IInv, FeedType, Whats, Tabs, Going, Asked
<1>2. /\ rows \subseteq Listed(walk.what) /\ IsFiniteSet(rows) /\ \A r \in rows : Ahead(r)
      /\ \A r \in Listed(walk.what) \ rows : Ahead(r) => more /\ rows # {} /\ \A q \in rows : Above(q, r)
  BY DEF IsPage
<1>3. /\ \A r \in rows : r \in Rows /\ r.id \in Visible
      /\ walk.what # "likes" => \A r \in rows : r.at = 0
      /\ walk.what = "likes" => \A r \in rows : [user |-> Viewer, post |-> r.id, at |-> r.at] \in likes
  BY <1>1, <1>2, ListedRows DEF FeedType
<1>4. \A r \in Rows : r \in Points /\ r.id \in Ids /\ r.at \in Nat /\ r # Start
  BY DEF Rows, Points, Ids, Start
<1>5. rows # {} => Oldest(rows) \in rows /\ \A q \in rows : q = Oldest(rows) \/ Above(q, Oldest(rows))
  BY <1>2, <1>3, <1>4, OldestIsLast
<1>6. /\ request' = Loading(r0) /\ walk' = [walk EXCEPT !.cursor = cursor]
  BY DEF Listing
<1>7. Visible \subseteq Ids /\ Hidden \subseteq Ids
  BY DEF Visible, Hidden, Rowed
<1>8. /\ request' \in RequestType /\ request'.at = "listed" /\ request'.rows = rows /\ request'.next = more
      /\ request'.fetched = {} /\ request'.stand_ins = {} /\ request'.page = {} /\ request'.seen = Visible
      /\ request'.hid = Hidden /\ request'.quiet = TRUE
  BY <1>6, <1>7 DEF Loading, NoRequest, RequestType, Moments
<1>9. cursor \in [id : Ids \cup {0}, at : Nat]
  BY <1>1, <1>3, <1>5 DEF Rows, WalkType
<1> HIDE DEF cursor, r0
<1>10. /\ walk' \in WalkType /\ walk'.what = walk.what /\ walk'.cursor = cursor /\ walk'.shown = walk.shown
       /\ walk'.twice = walk.twice /\ walk'.due = walk.due /\ walk'.ended = walk.ended
       /\ walk'.unliked = walk.unliked
  BY <1>1, <1>6, <1>9 DEF WalkType
<1>11. /\ posts' = posts /\ likes' = likes /\ now' = now /\ Visible' = Visible /\ Hidden' = Hidden
       /\ \A what : Listed(what)' = Listed(what)
  BY ReadingKeeps
<1>12. FeedType'
  BY <1>1, <1>8, <1>10, ReadingType
<1>13. LoadedInv'
  <2>1. every_post' \subseteq Visible
    BY <1>3, <1>8 DEF every_post, Page
  <2>2. \A p \in Visible : posts[p].made
    BY <1>1, MadeRows
  <2> QED
    BY <1>8, <1>11, <2>1, <2>2 DEF LoadedInv
<1>14. MissingInv'
  BY <1>8 DEF MissingInv, Loaded, Checked
<1>15. PageInv'
  BY <1>8 DEF PageInv
<1>16. ThreadInv'
  BY <1>1, <1>10 DEF ThreadInv
<1>17. DueInv'
  <2>1. walk.due \subseteq Listed(walk.what) /\ \A r \in walk.due : r \in walk.shown \/ Ahead(r)
    BY <1>1 DEF IInv, DueInv
  <2>2. ASSUME NEW r \in walk.due
        PROVE  r \in walk.shown \cup rows \/ (more /\ Above(cursor, r))
    <3>1. CASE r \in walk.shown \cup rows
      BY <3>1
    <3>2. CASE r \notin walk.shown \cup rows
      <4>1. more /\ rows # {} /\ \A q \in rows : Above(q, r)
        BY <1>2, <2>1, <3>2
      <4> QED
        BY <1>5, <4>1 DEF cursor
    <3> QED
      BY <3>1, <3>2
  <2>3. Listed(walk.what)' = Listed(walk.what)
    BY <1>10, <1>11
  <2>4. "listed" \in Going
    BY DEF Going, Asked, Moments
  <2> QED
    BY <1>8, <1>10, <2>1, <2>2, <2>3, <2>4 DEF DueInv
<1>18. Passed = walk.shown /\ Passed' = walk.shown \cup rows
  BY <1>1, <1>8, <1>10 DEF Passed, Going, Asked, Moments
<1>19. /\ \A s \in walk.shown : s \in Rows /\ ~Ahead(s)
       /\ walk.what # "likes" => \A s \in walk.shown : s.at = 0
       /\ walk.what = "likes" => \A s \in walk.shown :
            s.id \in walk.unliked \/ [user |-> Viewer, post |-> s.id, at |-> s.at] \in likes
  BY <1>1, <1>18 DEF IInv, OnceInv, WalkType
<1>20. ASSUME NEW r \in rows, NEW s \in walk.shown
       PROVE  /\ r.id = s.id => walk.what = "likes" /\ r.id \in walk.unliked
              /\ rows # {} => ~Above(Oldest(rows), s)
  <2>1. Ahead(r) /\ ~Ahead(s)
    BY <1>2, <1>19
  <2>2. Above(walk.cursor, r) /\ ~Above(walk.cursor, s) /\ walk.cursor \in Points
    BY <1>1, <2>1 DEF Ahead, WalkType, Points, Ids
  <2>3. r \in Points /\ s \in Points
    BY <1>3, <1>4, <1>19
  <2>4. r.id = s.id => walk.what = "likes" /\ r.id \in walk.unliked
    <3>1. CASE walk.what # "likes"
      <4>1. r.at = 0 /\ s.at = 0
        BY <1>3, <1>19, <3>1
      <4> QED
        BY <2>2, <4>1 DEF Above
    <3>2. CASE walk.what = "likes"
      <4>1. SUFFICES ASSUME r.id = s.id, s.id \notin walk.unliked PROVE FALSE
        BY <3>2
      <4> DEFINE k == [user |-> Viewer, post |-> r.id, at |-> r.at]
                 l == [user |-> Viewer, post |-> s.id, at |-> s.at]
      <4>2. k \in likes /\ l \in likes
        BY <1>3, <1>19, <3>2, <4>1
      <4>3. k = l
        BY <1>1, <4>1, <4>2 DEF FeedType, Stored
      <4>4. r.at = s.at
        BY <4>3
      <4> QED
        BY <2>2, <4>1, <4>4 DEF Above
    <3> QED
      BY <3>1, <3>2
  <2>5. rows # {} => ~Above(Oldest(rows), s)
    <3>1. SUFFICES ASSUME rows # {}, Above(Oldest(rows), s) PROVE FALSE
      OBVIOUS
    <3>2. Oldest(rows) \in rows /\ Oldest(rows) \in Points
      BY <1>3, <1>4, <1>5, <3>1
    <3>3. Above(walk.cursor, Oldest(rows))
      BY <1>2, <2>1, <3>2 DEF Ahead
    <3>4. Above(walk.cursor, s)
      BY <2>2, <2>3, <3>1, <3>2, <3>3, AboveIsTransitive
    <3> QED
      BY <2>2, <3>4
  <2> QED
    BY <2>4, <2>5
<1>21. \A r \in Passed' : ~(cursor = Start \/ Above(cursor, r))
  <2>1. CASE rows = {}
    BY <1>18, <1>19, <2>1 DEF cursor, Ahead
  <2>2. CASE rows # {}
    <3>1. cursor = Oldest(rows) /\ cursor \in rows /\ cursor # Start /\ cursor \in Points
      BY <1>3, <1>4, <1>5, <2>2 DEF cursor
    <3>2. \A r \in rows : ~Above(cursor, r)
      BY <1>3, <1>4, <1>5, <2>2, <3>1, AboveIsTotal
    <3>3. \A r \in walk.shown : ~Above(cursor, r)
      BY <1>20, <2>2, <3>1
    <3> QED
      BY <1>18, <3>1, <3>2, <3>3
  <2> QED
    BY <2>1, <2>2
<1>22. OnceInv'
  <2>1. \A r : Ahead(r)' <=> cursor = Start \/ Above(cursor, r)
    BY <1>10 DEF Ahead
  <2>2. walk.twice = {} \/ (walk.what = "likes" /\ walk.twice \subseteq walk.unliked)
    BY DEF IInv, OnceInv
  <2>3. \A r \in rows, s \in walk.shown : r.id = s.id => walk.what = "likes" /\ r.id \in walk.unliked
    BY <1>20
  <2> QED
    BY <1>1, <1>3, <1>8, <1>10, <1>11, <1>18, <1>19, <1>21, <2>1, <2>2, <2>3 DEF OnceInv
<1> QED
  BY <1>12, <1>13, <1>14, <1>15, <1>16, <1>17, <1>22 DEF IInv

LEMMA AskInv ==
  ASSUME IInv, Ask
  PROVE  IInv'
<1>1. /\ FeedType /\ walk \in WalkType /\ walk.ended = "no" /\ request.at \in {"none", "answered"}
      /\ walk.what # "thread" /\ UNCHANGED Other
  BY DEF IInv, FeedType, Ask
<1>2. walk.what \in Tabs \cup {"feed"}
  BY <1>1 DEF WalkType, Whats
<1>3. CASE Refused /\ walk' = [walk EXCEPT !.ended = "refused"] /\ request' = NoRequest
  <2>1. /\ walk' \in WalkType /\ walk'.what = walk.what /\ walk'.cursor = walk.cursor /\ walk'.shown = walk.shown
        /\ walk'.twice = walk.twice /\ walk'.due = walk.due /\ walk'.ended = "refused"
        /\ walk'.unliked = walk.unliked
    BY <1>1, <1>3 DEF WalkType
  <2>2. /\ request' \in RequestType
        /\ request'.at = "none" /\ request'.rows = {} /\ request'.fetched = {} /\ request'.stand_ins = {}
        /\ request'.page = {}
    BY <1>3, NoRequestType
  <2>3. "none" \notin Asked /\ "none" \notin Going /\ request.at \notin Going
    BY <1>1 DEF Asked, Going
  <2>4. likes' = likes /\ now' = now /\ \A what : Listed(what)' = Listed(what)
    BY <1>1, ReadingKeeps
  <2>5. FeedType'
    BY <1>1, <2>1, <2>2, ReadingType
  <2>6. LoadedInv'
    BY <2>2, <2>3 DEF LoadedInv, every_post, Page
  <2>7. MissingInv'
    BY <2>2 DEF MissingInv, Loaded, Checked
  <2>8. PageInv'
    BY <2>2 DEF PageInv
  <2>9. ThreadInv'
    BY <1>1, <2>1 DEF ThreadInv
  <2>10. DueInv'
    <3>1. Listed(walk.what)' = Listed(walk.what)
      BY <2>1, <2>4
    <3>2. walk.due \subseteq Listed(walk.what)
      BY DEF IInv, DueInv
    <3> QED
      BY <2>1, <2>2, <2>3, <3>1, <3>2 DEF DueInv
  <2>11. OnceInv'
    <3>1. Passed' = Passed /\ \A r : Ahead(r)' <=> Ahead(r)
      BY <2>1, <2>2, <2>3 DEF Passed, Ahead
    <3> QED
      BY <1>1, <2>1, <2>2, <2>3, <2>4, <3>1 DEF IInv, OnceInv
  <2> QED
    BY <2>5, <2>6, <2>7, <2>8, <2>9, <2>10, <2>11 DEF IInv
<1>4. CASE get_history \/ get_feed
  <2>1. PICK rows \in SUBSET Rows, more \in BOOLEAN :
          IsPage({r \in Listed(walk.what) : Ahead(r)}, rows, more) /\ Listing(rows, more)
    BY <1>2, <1>4, PageRows
  <2> QED
    BY <1>1, <1>2, <2>1, ListingInv
<1> QED
  BY <1>3, <1>4 DEF Ask

-----------------------------------------------------------------------------
(* The invariant *)

LEMMA InitInv ==
  ASSUME Init
  PROVE  IInv
<1>1. PICK w \in Worlds, k \in Walks :
        /\ posts = w.posts /\ likes = w.likes /\ liking = w.liking /\ live = w.live /\ follows = w.follows
        /\ now = w.now /\ writes = 0
        /\ walk = [what |-> k[1], root |-> k[2], cursor |-> Start, shown |-> {}, twice |-> {},
                   unliked |-> {}, due |-> Listed(k[1]), ended |-> "no"]
        /\ request = NoRequest
  BY DEF Init
<1>2. Stored(posts, likes, liking, live, follows, now)
  BY <1>1, WorldAssumption
<1>3. k[1] \in Whats /\ k[2] \in Ids \cup {0}
  BY DEF Walks, Whats, Tabs
<1>4. request \in RequestType /\ writes \in Nat /\ request.at = "none" /\ request.rows = {} /\ request.fetched = {}
      /\ request.stand_ins = {} /\ request.page = {} /\ ~request.next
  BY <1>1, NoRequestType
<1>5. walk.what = k[1] /\ walk.cursor = Start /\ walk.shown = {} /\ walk.twice = {} /\ walk.due = Listed(walk.what)
      /\ walk.ended = "no"
  BY <1>1
<1>6. Listed(walk.what) \subseteq Rows
  BY <1>2, <1>3, <1>5, ListedRows
<1>7. walk \in WalkType
  BY <1>1, <1>3, <1>5, <1>6 DEF WalkType, Start
<1>8. "none" \notin Asked /\ "none" \notin Going /\ "none" \notin Loaded /\ "none" \notin Checked
  BY DEF Asked, Going, Loaded, Checked
<1>9. FeedType
  BY <1>2, <1>4, <1>7 DEF FeedType
<1>10. LoadedInv
  BY <1>4, <1>8 DEF LoadedInv, every_post, Page
<1>11. MissingInv
  BY <1>4, <1>8 DEF MissingInv
<1>12. PageInv
  BY <1>4 DEF PageInv
<1>13. ThreadInv
  BY <1>4, <1>8 DEF ThreadInv, CountMatchesThread
<1>14. DueInv
  BY <1>4, <1>5, <1>8 DEF DueInv, Ahead
<1>15. OnceInv
  BY <1>4, <1>5, <1>8 DEF OnceInv, Passed
<1> QED
  BY <1>9, <1>10, <1>11, <1>12, <1>13, <1>14, <1>15 DEF IInv

\* Nothing changes: what the invariant speaks of is as it was.
LEMMA StutterInv ==
  ASSUME IInv, UNCHANGED vars
  PROVE  IInv'
<1>1. /\ posts' = posts /\ likes' = likes /\ liking' = liking /\ live' = live /\ follows' = follows /\ now' = now
      /\ writes' = writes /\ walk' = walk /\ request' = request
  BY DEF vars
<1>2. FeedType'
  BY <1>1 DEF IInv, FeedType
<1>3. LoadedInv'
  BY <1>1 DEF IInv, LoadedInv, every_post, Page, Visible, Hidden, Rowed, live_author, flat
<1>4. MissingInv'
  BY <1>1 DEF IInv, MissingInv, Refs, original_ids, parent_ids, stand_in_ids, every_post, Page, Rowed, Undone
<1>5. PageInv'
  BY <1>1 DEF IInv, PageInv, Honest, Told, StandsFor
<1>6. ThreadInv'
  BY <1>1 DEF IInv, ThreadInv, CountMatchesThread, replies_to, Visible, Rowed, live_author, flat, every_post, Page
<1>7. DueInv'
  BY <1>1 DEF IInv, DueInv, Ahead, Listed, Visible, Rowed, live_author, Liked
<1>8. OnceInv'
  BY <1>1 DEF IInv, OnceInv, Passed, Ahead
<1> QED
  BY <1>2, <1>3, <1>4, <1>5, <1>6, <1>7, <1>8 DEF IInv

LEMMA NextInv ==
  ASSUME IInv, [Next]_vars
  PROVE  IInv'
<1>1. CASE Write /\ (compose \/ delete_post \/ unrepost_post \/ like_begins \/ like_post \/ unlike_post \/ set_account \/ set_follow)
           /\ Watch
  BY <1>1, WritingInv DEF Writing
<1>2. CASE Ask
  BY <1>2, AskInv
<1>3. CASE thread_root
  BY <1>3, RootInv
<1>4. CASE thread_deleted
  BY <1>4, RootDeletedInv
<1>5. CASE thread_replies
  BY <1>5, RepliesInv
<1>6. CASE load_refs
  BY <1>6, RefsInv
<1>7. CASE load_stand_ins
  BY <1>7, StandInsInv
<1>8. CASE load_deleted
  BY <1>8, DeletedInv
<1>9. CASE load_authors
  BY <1>9, AuthorsInv
<1>10. CASE answer
  BY <1>10, AnswerInv
<1>11. CASE UNCHANGED vars
  BY <1>11, StutterInv
<1> QED
  BY <1>1, <1>2, <1>3, <1>4, <1>5, <1>6, <1>7, <1>8, <1>9, <1>10, <1>11 DEF Next

-----------------------------------------------------------------------------
(* What holds of every walk *)

\* The invariant holds whatever the writers commit between two statements of a
\* request and between two pages (the snapshot per statement of feed/routes.py's
\* and feed/views.py's reads).
THEOREM InvariantHolds == Spec => []IInv
<1>1. Init => IInv
  BY InitInv
<1>2. IInv /\ [Next]_vars => IInv'
  BY NextInv
<1> QED
  BY <1>1, <1>2, PTL DEF Spec

\* The tables keep to their constraints (posts/models.py Post, _repost_target),
\* and the walk and the request hold rows that the tables had.
THEOREM TypeCorrect == Spec => []FeedType
<1>1. IInv => FeedType
  BY DEF IInv
<1> QED
  BY <1>1, InvariantHolds, PTL

\* A reader who pages to the end of the feed, or of a history, has been shown
\* each row that stayed in the list, and none twice but what was taken out of
\* the likes and liked again, whatever was posted, liked, followed, deleted or
\* deactivated meanwhile (feed/routes.py get_history, get_feed).
THEOREM PagesCover == Spec => []PagesCoverTheList
<1>1. IInv => PagesCoverTheList
  BY DEF IInv, DueInv, OnceInv, PagesCoverTheList
<1> QED
  BY <1>1, InvariantHolds, PTL

\* No answer shows a post that was already deleted or hidden when the request
\* began, itself or inside another (posts/service.py _visible).
THEOREM HiddenStayHidden == Spec => []HiddenIsNotShown
<1>1. IInv => HiddenIsNotShown
  BY DEF IInv, PageInv, HiddenIsNotShown
<1> QED
  BY <1>1, InvariantHolds, PTL

\* What stands in for a post that is not shown says why: "deleted" only of what
\* its author deleted, nothing only of what was hidden or undone (feed/views.py PostView).
THEOREM PlaceholdersTellTheTruth == Spec => []PlaceholdersAreHonest
<1>1. IInv => PlaceholdersAreHonest
  BY DEF IInv, PageInv, Honest, StandsFor, PlaceholdersAreHonest
<1> QED
  BY <1>1, InvariantHolds, PTL

\* A thread read while nothing is written shows as many replies as its root
\* counts, beside what has the root as a parent without being a reply
\* (posts/service.py reply_counts, replies_to).
THEOREM ThreadIsCounted == Spec => []CountMatchesThread
<1>1. IInv => CountMatchesThread
  BY DEF IInv, ThreadInv, CountMatchesThread
<1> QED
  BY <1>1, InvariantHolds, PTL
=============================================================================
