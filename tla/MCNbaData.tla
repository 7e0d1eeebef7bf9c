------------------------------ MODULE MCNbaData -----------------------------
(* Two teams and a stranger; a game with and without a score, the same game   *)
(* twice with another score, a preseason and an old one; a team with one and  *)
(* with three overtimes; rows in either reading of minutes.                    *)
EXTENDS NbaData

Id(type, n) == [type |-> type, year |-> 24, number |-> n, digits |-> 8]
Final == Id("2", 1)

Row(id, score) ==
  [id |-> id, home |-> 1, away |-> 2, home_score |-> score[1], away_score |-> score[2], text |-> 1, bad |-> FALSE]

MCGameRows ==
  {Row(Final, <<9, 8>>), [Row(Final, <<9, 8>>) EXCEPT !.text = 2], Row(Final, <<8, 9>>),
   Row(Id("4", 2), <<0, 0>>), Row(Id("1", 3), <<5, 6>>), [Row(Id("6", 4), <<5, 6>>) EXCEPT !.id.year = 99],
   [Row(Id("2", 5), <<5, 6>>) EXCEPT !.away = 3]}

Line(team, quarters, overtimes, minutes) ==
  [game |-> Final, team |-> team, quarters |-> quarters, ot1 |-> overtimes[1], ot2 |-> overtimes[2],
   ot_all |-> overtimes[3], minutes |-> minutes]

MCTeamRows ==
  {Line(1, <<3, 2, 2, 2>>, <<Blank, Blank, Blank>>, 9500), Line(1, <<1, 1, 1, 1>>, <<1, 2, 5>>, 5583),
   Line(2, <<2, 2, 2, 2>>, <<2, 1, 2>>, Blank), Line(0, <<Blank, 2, 2, 2>>, <<Blank, Blank, Blank>>, Blank)}

Box(person, team, home, minutes) ==
  [game |-> Final, person |-> person, team |-> team, home |-> home, minutes |-> minutes, comment |-> 1,
   position |-> TRUE, points |-> 9, bad |-> FALSE]

\* 47.5 and 8.0 are 47:50 and 8:00 when the team has 55.83 minutes.
MCBoxRows ==
  {Box(1, 1, "1", <<<<47, <<5>>>>>>), Box(2, Blank, "1", <<<<46, <<5, 5>>>>>>), Box(2, 1, "1", <<<<8, <<0>>>>>>),
   Box(3, 2, "0", <<>>), Box(3, 1, "0", <<<<1, <<5>>>>>>)}

MCPlayerRows == {[person |-> p, bad |-> FALSE] : p \in 1..2} \cup {[person |-> 3, bad |-> TRUE]}

MCMaxRows == [games |-> 2, team_stats |-> 1, box |-> 2, players |-> 2]
=============================================================================
