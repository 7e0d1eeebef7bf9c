------------------------------- MODULE Stats --------------------------------
(***************************************************************************)
(* The stored games and box scores, the two tables of totals derived from  *)
(* them (app.events.models, app.events.record_totals), and what the read   *)
(* models of app.events.service make of them.                              *)
(*                                                                         *)
(* A database db is a record of sets of rows: db.teams, db.players,        *)
(* db.games, db.lines (player_game_stats), db.seasons                      *)
(* (player_season_totals) and db.sides (team_game_totals).  Names are      *)
(* numbers in their alphabetical order, seasons their first year, a date   *)
(* a number of hours, and a fraction a pair <<numerator, denominator>>.    *)
(***************************************************************************)
EXTENDS Integers, Sequences, FiniteSets, FiniteSetsExt, Functions

CONSTANTS
  FINALS_WINS,          \* Finals games that make a champion (4 in the code)
  GAMES_RULE_FROM,      \* the season the fixed minimum of games starts with (2023)
  GAMES_RULE_MINIMUM,   \* that minimum (65)
  TEAM_GAMES_PERCENT,   \* before it, the share of the most games a team played (70)
  Tens,                 \* what counts towards a double-double (10)
  HoursADay             \* hours of a calendar day (24)

Null == -1

\* _COUNTING_STATS and plus_minus: what a line has beside its minutes.
Made == {"field_goals_made", "three_pointers_made", "free_throws_made"}
Attempted(made) ==
  CASE made = "field_goals_made" -> "field_goals_attempted"
    [] made = "three_pointers_made" -> "three_pointers_attempted"
    [] made = "free_throws_made" -> "free_throws_attempted"
Shots == Made \cup {Attempted(m) : m \in Made}
COUNTING_STATS ==
  Shots \cup {"offensive_rebounds", "defensive_rebounds", "rebounds", "assists", "steals", "blocks",
              "turnovers", "personal_fouls", "points"}

-----------------------------------------------------------------------------
(* Helpers: the rows of a set in an order, and fractions *)

\* The rows in an order that tells every two apart.
Ranked(S, Before(_, _)) ==
  LET place == [x \in S |-> 1 + Cardinality({y \in S : Before(y, x)})]
  IN [i \in 1..Cardinality(S) |-> CHOOSE x \in S : place[x] = i]

\* LIMIT and OFFSET.
Paged(s, limit, offset) ==
  IF offset >= Len(s) THEN <<>>
  ELSE SubSeq(s, offset + 1, IF offset + limit < Len(s) THEN offset + limit ELSE Len(s))

More(x, y) == x[1] * y[2] > y[1] * x[2]
Same(x, y) == x[1] * y[2] = y[1] * x[2]

\* The first key that tells two rows apart decides; each key is "x before y"
\* and "x level with y".
Decides(keys) ==
  \E i \in DOMAIN keys : keys[i][1] /\ \A j \in 1..(i - 1) : keys[j][2]

SumOf(rows, column(_)) == SumFunction([r \in rows |-> column(r)])

\* A record with the fields of a second one beside its own.
Beside(r, more) == [f \in DOMAIN r \cup DOMAIN more |-> IF f \in DOMAIN r THEN r[f] ELSE more[f]]

\* round(n / d, places) for scale = 10^places: to the nearest, a tie to even.
Rounded(n, d, scale) ==
  LET q == (n * scale) \div d
      r == 2 * ((n * scale) % d)
  IN IF r > d \/ (r = d /\ q % 2 = 1) THEN q + 1 ELSE q

\* Thousandths, or null when nothing was attempted.
pct(made, attempted) == IF attempted = 0 THEN Null ELSE Rounded(made, attempted, 1000)
\* Tenths, or null for no game.
per_game(total, games) == IF games = 0 THEN Null ELSE Rounded(total, games, 10)

-----------------------------------------------------------------------------
(* Games and lines *)

completed(g) == g.home_score + g.away_score > 0
played(line) == line.seconds_played # Null

Game(db, line) == CHOOSE g \in db.games : g.id = line.game_id
PlayedIn(g, team) == team \in {g.home_team_id, g.away_team_id}
Opponent(g, team) == IF g.home_team_id = team THEN g.away_team_id ELSE g.home_team_id
Score(g, team) == IF g.home_team_id = team THEN g.home_score ELSE g.away_score
team_won(g, team) == Score(g, team) > Score(g, Opponent(g, team))

Later(g, h) == g.date > h.date \/ (g.date = h.date /\ g.id > h.id)
Earlier(g, h) == Later(h, g)

\* models.TRIPLE_DOUBLE_STATS at ten or more.
InTens(line) ==
  Cardinality({c \in {"points", "rebounds", "assists", "steals", "blocks"} : line[c] >= Tens})

\* Faulty: a triple-double counted at ten or more in four of the five.
TRIPLE_DOUBLE_in_four(line) == InTens(line) >= 4

\* models.TRIPLE_DOUBLE, the record and the partial index that serves it.
TRIPLE_DOUBLE(line) == InTens(line) >= 3

(* record_totals: the two derived tables *)

LINE_GAME_TYPES == {"regular", "playoffs"}

\* One row of it: the lines of a player, season and type, k, summed.
PlayerSeasonTotal(db, k, lines) ==
  LET last == CHOOSE l \in lines : \A m \in lines \ {l} : Later(Game(db, l), Game(db, m))
  IN Beside([player_id |-> k[1], season |-> k[2], game_type |-> k[3],
             team_id |-> last.team_id, games |-> Cardinality(lines),
             double_doubles |-> Cardinality({l \in lines : InTens(l) >= 2}),
             triple_doubles |-> Cardinality({l \in lines : InTens(l) >= 3})],
            [c \in (COUNTING_STATS \ {"personal_fouls"}) \cup {"seconds_played"} |->
               SumOf(lines, LAMBDA l : l[c])])

\* PLAYER_SEASON_TOTALS_SQL: the played lines of a player, season and type.
PlayerSeasonTotals(db) ==
  LET counted == {l \in db.lines : played(l) /\ Game(db, l).game_type \in LINE_GAME_TYPES}
      key(l) == <<l.player_id, Game(db, l).season, Game(db, l).game_type>>
  IN {PlayerSeasonTotal(db, k, {l \in counted : key(l) = k}) : k \in {key(l) : l \in counted}}

\* How many games in a row, this one included, the team has had this result:
\* the two row_number() windows number the same games and differ by a constant
\* along a run.
Streak(db, g, team) ==
  LET won == team_won(g, team)
      games == {h \in db.games : PlayedIn(h, team) /\ completed(h)
                                   /\ h.game_type = g.game_type /\ h.season = g.season}
      number(h, of) == Cardinality({x \in of : ~Later(x, h)})
      run(h) == number(h, games) - number(h, {x \in games : team_won(x, team) = team_won(h, team)})
      alike == {h \in games : team_won(h, team) = won /\ run(h) = run(g)}
  IN number(g, alike)

\* A team's side of a game, with its box score summed; Null without one.
TeamGameTotal(db, g, t) ==
  LET box == {l \in db.lines : l.game_id = g.id /\ l.team_id = t}
  IN Beside([game_id |-> g.id, team_id |-> t, opponent_id |-> Opponent(g, t), season |-> g.season,
             date |-> g.date, game_type |-> g.game_type, score |-> Score(g, t),
             opponent_score |-> Score(g, Opponent(g, t)), won |-> team_won(g, t),
             streak |-> Streak(db, g, t)],
            [c \in Shots \cup {"rebounds", "assists", "steals", "blocks", "turnovers"} |->
               IF box = {} THEN Null ELSE SumOf(box, LAMBDA l : l[c])])

\* TEAM_GAME_TOTALS_SQL: a completed game, once per team.
TeamGameTotals(db) ==
  LET counted == {g \in db.games : g.game_type \in LINE_GAME_TYPES /\ completed(g)}
  IN UNION {{TeamGameTotal(db, g, g.home_team_id), TeamGameTotal(db, g, g.away_team_id)} : g \in counted}

-----------------------------------------------------------------------------
(* service: games *)

game_ids_for_team(db, team) == {g.id : g \in {h \in db.games : PlayedIn(h, team)}}

\* A filter that is Null filters nothing.
Passes(filter, value) == filter = Null \/ filter = value

\* Faulty: the games of a last date end at its midnight.
list_games_to_midnight(db, season, team, game_type, from, to, limit, offset) ==
  LET found == {g \in db.games : /\ Passes(season, g.season)
                                 /\ team = Null \/ PlayedIn(g, team)
                                 /\ game_type = "any" \/ game_type = g.game_type
                                 /\ from = Null \/ g.date >= from * HoursADay
                                 /\ to = Null \/ g.date < to * HoursADay}
  IN Paged(Ranked(found, Later), limit, offset)

\* Dates are compared by whole days: up to the start of the day after the last.
list_games(db, season, team, game_type, from, to, limit, offset) ==
  LET found == {g \in db.games : /\ Passes(season, g.season)
                                 /\ team = Null \/ PlayedIn(g, team)
                                 /\ game_type = "any" \/ game_type = g.game_type
                                 /\ from = Null \/ g.date >= from * HoursADay
                                 /\ to = Null \/ g.date < (to + 1) * HoursADay}
  IN Paged(Ranked(found, Later), limit, offset)

\* search/'s filter has no tie-break: any order of the games of one date.
filter_games(db, season, team, position) ==
  {g \in db.games : /\ Passes(season, g.season)
                    /\ team = Null \/ PlayedIn(g, team)
                    /\ position = "any" \/ \E l \in db.lines : l.game_id = g.id /\ l.starting_position = position}

distinct_seasons(db) == Ranked({g.season : g \in db.games}, LAMBDA s, t : s > t)

(* service: lines *)

\* The counting stats of some lines summed, with their percentages.
shooting(lines) ==
  LET total == [c \in COUNTING_STATS |-> SumOf(lines, LAMBDA l : l[c])]
  IN Beside(total,
        [seconds_played |-> SumOf({l \in lines : played(l)}, LAMBDA l : l.seconds_played),
         field_goal_pct |-> pct(total.field_goals_made, total.field_goals_attempted),
         three_point_pct |-> pct(total.three_pointers_made, total.three_pointers_attempted),
         free_throw_pct |-> pct(total.free_throws_made, total.free_throws_attempted)])

\* Played rows starters first, then by seconds, then by player; the rest apart.
team_box_score(lines) ==
  LET on == {l \in lines : played(l)}
      before(l, m) ==
        Decides(<<<<l.starter /\ ~m.starter, l.starter = m.starter>>,
                  <<l.seconds_played > m.seconds_played, l.seconds_played = m.seconds_played>>,
                  <<l.player_id < m.player_id, FALSE>>>>)
  IN [players |-> Ranked(on, before),
      did_not_play |-> Ranked(lines \ on, LAMBDA l, m : l.player_id < m.player_id),
      totals |-> shooting(on)]

\* by_team has the game's two teams only, and a line of a third is a KeyError.
game_detail(db, g) ==
  LET lines(t) == {l \in db.lines : l.game_id = g.id /\ l.team_id = t}
  IN [home |-> team_box_score(lines(g.home_team_id)),
      away |-> team_box_score(lines(g.away_team_id)),
      raises |-> \E l \in db.lines : l.game_id = g.id /\ ~PlayedIn(g, l.team_id)]

\* A career or season line over its played rows.
stat_line_of(sums, games, games_started) ==
  Beside(sums,
    [games_played |-> games, games_started |-> games_started,
     minutes_per_game |-> per_game(sums.seconds_played, 60 * games),
     points_per_game |-> per_game(sums.points, games),
     rebounds_per_game |-> per_game(sums.rebounds, games),
     assists_per_game |-> per_game(sums.assists, games),
     steals_per_game |-> per_game(sums.steals, games),
     blocks_per_game |-> per_game(sums.blocks, games),
     turnovers_per_game |-> per_game(sums.turnovers, games),
     three_pointers_made_per_game |-> per_game(sums.three_pointers_made, games)])

stat_line(lines) == stat_line_of(shooting(lines), Cardinality(lines), Cardinality({l \in lines : l.starter}))

CountedLines(db, player) ==
  {l \in db.lines : l.player_id = player /\ played(l) /\ Game(db, l).game_type \in LINE_GAME_TYPES}

SeasonKeys(db, player) == {<<Game(db, l).season, Game(db, l).game_type>> : l \in CountedLines(db, player)}

\* The teams of each season line, in the order first played for.
season_teams(db, player, key) ==
  LET lines == {l \in CountedLines(db, player) : <<Game(db, l).season, Game(db, l).game_type>> = key}
      first(t) == CHOOSE l \in lines : l.team_id = t /\ \A m \in lines :
                    m.team_id = t /\ m # l => Earlier(Game(db, l), Game(db, m))
  IN Ranked({l.team_id : l \in lines}, LAMBDA t, u : Earlier(Game(db, first(t)), Game(db, first(u))))

\* Newest season first, and within one "regular" before "playoffs".
player_detail(db, player) ==
  LET lines(key) == {l \in CountedLines(db, player) : <<Game(db, l).season, Game(db, l).game_type>> = key}
      before(k, m) == k[1] > m[1] \/ (k[1] = m[1] /\ k[2] = "regular" /\ m[2] # "regular")
      career(type) == stat_line({l \in CountedLines(db, player) : Game(db, l).game_type = type})
      keys == Ranked(SeasonKeys(db, player), before)
  IN [career_regular |-> career("regular"), career_playoffs |-> career("playoffs"),
      seasons |-> [i \in DOMAIN keys |-> [season |-> keys[i][1], game_type |-> keys[i][2],
                                          teams |-> season_teams(db, player, keys[i]),
                                          line |-> stat_line(lines(keys[i]))]]]

player_games(db, player, season, game_type, limit, offset) ==
  LET lines == {l \in db.lines : /\ l.player_id = player
                                 /\ Passes(season, Game(db, l).season)
                                 /\ game_type = "any" \/ game_type = Game(db, l).game_type}
  IN Paged(Ranked(lines, LAMBDA l, m : Later(Game(db, l), Game(db, m))), limit, offset)

\* By last name, first name and id; with each one's newest row's team.
list_players(db, season, limit, offset) ==
  LET found == {p \in db.players : season = Null \/ \E l \in db.lines :
                  l.player_id = p.id /\ played(l) /\ Game(db, l).season = season}
      before(p, q) == Decides(<<<<p.last_name < q.last_name, p.last_name = q.last_name>>,
                                <<p.first_name < q.first_name, p.first_name = q.first_name>>,
                                <<p.id < q.id, FALSE>>>>)
  IN Paged(Ranked(found, before), limit, offset)

latest_team(db, player) ==
  LET lines == {l \in db.lines : l.player_id = player}
  IN IF lines = {} THEN Null
     ELSE (CHOOSE l \in lines : \A m \in lines \ {l} : Later(Game(db, l), Game(db, m))).team_id
=============================================================================
