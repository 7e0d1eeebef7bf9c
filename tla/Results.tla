------------------------------- MODULE Results ------------------------------
(***************************************************************************)
(* What loads promise the readers of the stored results: they add games    *)
(* and box scores and never change or take back a result, and, as long as  *)
(* they run alone, the tables of totals are those of the stored games in   *)
(* the same step (app.events.nba_history, "One transaction per run";       *)
(* app.events.record_totals).                                              *)
(***************************************************************************)
EXTENDS Integers, FiniteSets

CONSTANTS Games,    \* every state a stored game may be in: [id, season, result, details, box]
          Tables    \* the tables of totals

VARIABLES stored,   \* the stored games
          totals,   \* per table, its rows [season, of]
          alone     \* whether no two loads have run at the same time

\* The totals of some games: a row of each season that has one.
Derived(games) == {[season |-> s, of |-> {g \in games : g.season = s}] : s \in {g.season : g \in games}}

\* A game keeps its result, and its box score once it has one.
Keeps(before, after) ==
  /\ after.id = before.id /\ after.season = before.season /\ after.result = before.result
  /\ before.box # 0 => after.box = before.box

Init == stored = {} /\ totals = [t \in Tables |-> {}] /\ alone = TRUE

Load ==
  /\ \A g \in stored : \E h \in stored' : Keeps(g, h)
  /\ stored' \subseteq Games
  /\ alone' => totals' = [t \in Tables |-> Derived(stored')]
  /\ alone' = alone

Overlap == alone' = FALSE /\ UNCHANGED <<stored, totals>>

Next == Load \/ Overlap

Spec == Init /\ [][Next]_<<stored, totals, alone>>
=============================================================================
