----------------------------- MODULE MCIngestion ----------------------------
(* Two games of two seasons; the dataset grows by a box score, a detail and   *)
(* the second game, is unreadable, then contradicts the first game.           *)
EXTENDS Ingestion

G(id, result, details, box) == [id |-> id, season |-> 2020 + id, result |-> result, details |-> details, box |-> box]

MCSeasonOf == [i \in 1..2 |-> 2020 + i]
MCBad == {}
First == {G(1, 1, 1, 0)}
Second == {G(1, 1, 2, 1), G(2, 1, 1, 1)}
Contradicting == {G(1, 2, 1, 1), G(2, 1, 1, 1)}
MCDatasets == <<First, Second, MCBad, Contradicting>>
=============================================================================
