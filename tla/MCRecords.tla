------------------------------ MODULE MCRecords -----------------------------
(* Two seasons, three teams and three players.  The first season has a       *)
(* run of results, a traded player, a row without minutes, a play-in game     *)
(* and two Finals games; the second goes on with the first one's results and  *)
(* has a game without a box score.                                            *)
EXTENDS Records

Minimums(n) == [fg |-> n, threes |-> n, ft |-> n]
MCGame == Minimums(2)
MCSeason == Minimums(3)
MCCareer == Minimums(4)

MCTeams ==
  {[id |-> 1, name |-> 3, conference |-> "East", division |-> "Atlantic"],
   [id |-> 2, name |-> 1, conference |-> "East", division |-> "Central"],
   [id |-> 3, name |-> 2, conference |-> "West", division |-> "Pacific"]}

MCPlayers == {[id |-> p, last_name |-> 1, first_name |-> 4 - p] : p \in 1..3}

G(id, day, in, type, label, home, away, score) ==
  [id |-> id, date |-> day * HoursADay, season |-> in, game_type |-> type, label |-> label,
   home_team_id |-> home, away_team_id |-> away, home_score |-> score[1], away_score |-> score[2]]

\* A line: seconds or Null, threes made and attempted, points, rebounds, assists.
Row(game, player, team, seconds, threes, points, rebounds, assists) ==
  Beside(
    [id |-> 10 * game + player, game_id |-> game, player_id |-> player, team_id |-> team,
     starter |-> player = 1, starting_position |-> "G", seconds_played |-> seconds, plus_minus |-> threes[1] - 1,
     three_pointers_made |-> threes[1], three_pointers_attempted |-> threes[2],
     field_goals_made |-> threes[1], field_goals_attempted |-> threes[2],
     points |-> points, rebounds |-> rebounds, defensive_rebounds |-> rebounds, assists |-> assists],
    [c \in COUNTING_STATS |-> 0])

MCDataset ==
  {[game |-> G(1, 1, 2022, "regular", "", 1, 2, <<9, 5>>),
    lines |-> {Row(1, 1, 1, 1500, <<1, 2>>, 9, 1, 1), Row(1, 2, 2, 900, <<1, 1>>, 5, 1, 1),
               Row(1, 3, 2, Null, <<0, 0>>, 0, 0, 0)}],
   [game |-> G(2, 2, 2022, "regular", "", 2, 1, <<4, 8>>),
    lines |-> {Row(2, 1, 1, 1230, <<2, 2>>, 3, 2, 2), Row(2, 2, 2, 1200, <<0, 1>>, 3, 0, 0)}],
   [game |-> G(3, 3, 2022, "regular", "", 1, 3, <<6, 7>>),
    lines |-> {Row(3, 2, 1, 1200, <<1, 3>>, 3, 4, 0), Row(3, 3, 3, 600, <<0, 0>>, 7, 2, 3)}],
   [game |-> G(4, 4, 2022, "play-in", "", 3, 2, <<3, 2>>), lines |-> {Row(4, 3, 3, 60, <<1, 1>>, 3, 2, 2)}],
   [game |-> G(5, 5, 2022, "playoffs", FINALS_LABEL, 1, 3, <<5, 4>>),
    lines |-> {Row(5, 1, 1, Null, <<0, 0>>, 0, 0, 0), Row(5, 2, 1, 60, <<1, 2>>, 3, 0, 0)}],
   [game |-> G(6, 6, 2022, "playoffs", FINALS_LABEL, 3, 1, <<4, 5>>), lines |-> {Row(6, 3, 3, 61, <<0, 1>>, 1, 1, 1)}],
   [game |-> G(7, 30, 2023, "regular", "", 1, 3, <<9, 7>>),
    lines |-> {Row(7, 1, 1, 1200, <<1, 2>>, 3, 2, 2), Row(7, 3, 3, 1200, <<1, 2>>, 3, 3, 3)}],
   [game |-> G(8, 33, 2023, "playoffs", FINALS_LABEL, 2, 3, <<8, 5>>), lines |-> {}]}
=============================================================================
