------------------------------- MODULE MCFeed -------------------------------
(* A small population for Feed: every kind of post, with the flags that a   *)
(* request may leave out or combine, a plain repost with a reply, ties      *)
(* between likes, likes that are on their way and a post about the team.    *)
EXTENDS Feed

Line == [type |-> "player_game", ref |-> 7, scope |-> "none"]
MCLinks == {Line, [type |-> "player_career", ref |-> 3, scope |-> "regular"]}
MCLineGame == [l \in {7} |-> 9]

D(text, link) ==
  [is_reply |-> FALSE, parent |-> 0, is_repost |-> FALSE, original |-> 0, text |-> text, media |-> FALSE, link |-> link]
To(d, p) == [d EXCEPT !.is_reply = TRUE, !.parent = p]
Of(d, p) == [d EXCEPT !.is_repost = TRUE, !.original = p]
Word == D(TRUE, NoLink)
Mute == D(FALSE, NoLink)

\* What is composed, some of it refused: the link of a reply and of a plain
\* repost, a flag without its reference.
MCDrafts ==
  {Word, Mute, To(Word, 0), To(D(TRUE, Line), 1), Of(D(FALSE, Line), 2),
   [Word EXCEPT !.parent = 2], [Mute EXCEPT !.original = 1], Of(To(Mute, 3), 2), Of([Word EXCEPT !.media = TRUE], 4)}
  \cup {D(text, link) : text \in BOOLEAN, link \in MCLinks}
  \cup {To(Word, p) : p \in {1, 2, 3, 5}} \cup {Of(Mute, p) : p \in {1, 2, 3, 5}} \cup {Of(D(TRUE, l), 2) : l \in MCLinks}

MCPosts ==
  [p \in 1..MaxPosts |->
     CASE p = 1 -> composed("cid", D(TRUE, Line))
       [] p = 2 -> composed("ann", Word)
       [] p = 3 -> composed("bob", Of(Mute, 1))
       [] p = 4 -> composed("ann", To(Word, 3))
       [] p = 5 -> composed("bob", Of(To(Word, 2), 2))
       [] p = 6 -> composed("ann", [Word EXCEPT !.parent = 2])
       [] OTHER -> NoPost]

\* What an account's removal left, a picture reposted without a word, a plain
\* repost that replies to another, and an account that is deactivated.
MCTombstones ==
  [p \in 1..MaxPosts |->
     CASE p = 1 -> [composed("nobody", Mute) EXCEPT !.is = "deleted"]
       [] p = 2 -> composed("ann", Of(Word, 1))
       [] p = 3 -> [composed("cid", Of([Mute EXCEPT !.media = TRUE], 2)) EXCEPT !.mentions = {9}]
       [] p = 4 -> composed("ann", To(Word, 3))
       [] p = 5 -> composed("ann", Of(Mute, 2))
       [] p = 6 -> composed("cid", Of(To(Mute, 5), 3))
       [] OTHER -> NoPost]

Like(u, p, at) == [user |-> u, post |-> p, at |-> at]

MCWorlds ==
  {[posts |-> MCTombstones, live |-> {"ann", "cid"}, follows |-> {}, now |-> 1, likes |-> {Like("ann", 3, 1)}, liking |-> {}],
   [posts |-> MCPosts, live |-> {"ann", "bob", "cid"}, follows |-> {"bob"}, now |-> 2,
    likes |-> {Like("ann", 1, 1), Like("ann", 2, 1), Like("ann", 5, 2), Like("bob", 4, 2)},
    liking |-> {Like("ann", 5, 0), Like("ann", 4, 1), Like("cid", 5, 2)}]}
=============================================================================
