------------------------------- MODULE Records ------------------------------
(***************************************************************************)
(* The records library (app.events.records): what qualifies for each       *)
(* record, in which order, and what its holder and its pages show, over a  *)
(* database that grows by whole games, the two tables of totals rebuilt by *)
(* every load (app.events.record_totals.rebuild_record_totals).            *)
(*                                                                         *)
(* A candidate row's value is an exact fraction; what is shown of it is    *)
(* rounded.  Titles, units, rules and search words are left out.           *)
(***************************************************************************)
EXTENDS Seasons, SequencesExt

CONSTANTS
  LIST_CAP,              \* entries of a list (100)
  HOLDERS_CAP,           \* records asked for at once (24)
  GAME_MINIMUMS,         \* attempts of a percentage in a game, [fg, threes, ft]
  SEASON_MINIMUMS,       \* and in a season
  CAREER_MINIMUMS,       \* and in a career
  SEASON_AVERAGE_GAMES,  \* games of an average over a season (58)
  CAREER_AVERAGE_GAMES,  \* and over a career (400)
  Teams, Players,        \* the teams and players of the dataset
  Dataset                \* its games, each with its lines

ASSUME CapsAssumption ==
  /\ LIST_CAP \in Nat \ {0} /\ HOLDERS_CAP \in Nat \ {0}
  /\ FINALS_WINS \in Nat /\ HoursADay \in Nat \ {0}

\* No share of no attempts, and no average over no games.
ASSUME MinimumsAssumption ==
  /\ \A minimums \in {GAME_MINIMUMS, SEASON_MINIMUMS, CAREER_MINIMUMS} :
       minimums.fg \in Nat \ {0} /\ minimums.threes \in Nat \ {0} /\ minimums.ft \in Nat \ {0}
  /\ SEASON_AVERAGE_GAMES \in Nat \ {0} /\ CAREER_AVERAGE_GAMES \in Nat \ {0}

\* models.Game and models.PlayerGameStat: the columns that are numbers.
GameColumns == {"id", "date", "season", "home_team_id", "away_team_id", "home_score", "away_score"}
LineColumns == COUNTING_STATS \cup {"id", "game_id", "player_id", "team_id", "seconds_played", "plus_minus"}

\* Ids count up from one (models.Team), and Null is none of them; the league's
\* thirty teams have names of their own (nba_history.py:94).
ASSUME TeamsAssumption ==
  /\ IsFiniteSet(Teams)
  /\ \A t \in Teams : t.id \in Nat /\ t.name \in Int
  /\ \A t \in Teams, u \in Teams : t.id = u.id \/ t.name = u.name => t = u

ASSUME PlayersAssumption ==
  /\ IsFiniteSet(Players)
  /\ \A p \in Players : p.id \in Int /\ p.last_name \in Int /\ p.first_name \in Int
  /\ \A p \in Players, q \in Players : p.id = q.id => p = q

\* A game is between stored teams (models.py:68), its lines are its own, one for
\* a player (models.py:167) and of one of its teams (nba_history.py:737), an id
\* is one row's, and a team is in one game at a time (the lists of team games are
\* ordered by date and team alone).  No date or season is before the first.
ASSUME DatasetAssumption ==
  /\ \A d \in Dataset :
       /\ \A c \in GameColumns : d.game[c] \in Int
       /\ d.game.date \in Nat /\ d.game.season \in Nat
       /\ {d.game.home_team_id, d.game.away_team_id} \subseteq {t.id : t \in Teams}
       /\ IsFiniteSet(d.lines)
       /\ \A l \in d.lines : /\ l.game_id = d.game.id /\ PlayedIn(d.game, l.team_id)
                              /\ \A c \in LineColumns : l[c] \in Int
       /\ \A l \in d.lines, m \in d.lines : l.player_id = m.player_id => l = m
  /\ \A d \in Dataset, e \in Dataset :
       /\ d.game.id = e.game.id => d = e
       /\ \A l \in d.lines, m \in e.lines : l.id = m.id => l = m
       /\ \A t \in {d.game.home_team_id, d.game.away_team_id} :
            d.game.date = e.game.date /\ PlayedIn(e.game, t) => d = e

SINGLE_GAME_TYPES == {REGULAR, "playoffs"}
PLAYOFF_TYPES == {"playoffs"}

-----------------------------------------------------------------------------
(* Candidates: the rows that qualify, and the keys they are listed by *)

\* What every row names, Null where a record has no such thing.
Columns(row) ==
  Beside(row, [team_id |-> Null, player_id |-> Null, season |-> Null, game_id |-> Null, opponent_id |-> Null])

Desc(column) == <<column, TRUE>>
Asc(column) == <<column, FALSE>>

Whole(n) == <<n, 1>>

Champions(db) == {k[1] : k \in season_champions(db)}

\* Faulty: the season record counts the playoffs too.
SeasonSidesOfEveryType(db) ==
  LET counted == {g \in db.games : completed(g) /\ g.season \in Champions(db)}
      keys == UNION {{<<g.season, g.home_team_id>>, <<g.season, g.away_team_id>>} : g \in counted}
      games(k) == {g \in counted : g.season = k[1] /\ PlayedIn(g, k[2])}
  IN {[season |-> k[1], team_id |-> k[2], games |-> Cardinality(games(k)),
       wins |-> Cardinality({g \in games(k) : team_won(g, k[2])})] : k \in keys}

\* A team season of regular, completed games, in a season with a champion.
SeasonSides(db) ==
  LET counted == {g \in db.games : g.game_type = REGULAR /\ completed(g) /\ g.season \in Champions(db)}
      keys == UNION {{<<g.season, g.home_team_id>>, <<g.season, g.away_team_id>>} : g \in counted}
      games(k) == {g \in counted : g.season = k[1] /\ PlayedIn(g, k[2])}
  IN {[season |-> k[1], team_id |-> k[2], games |-> Cardinality(games(k)),
       wins |-> Cardinality({g \in games(k) : team_won(g, k[2])})] : k \in keys}

season_record(db, spec) ==
  [rows |-> {Columns([value |-> <<s.wins, s.games>>, team_id |-> s.team_id, season |-> s.season,
                      wins |-> s.wins, losses |-> s.games - s.wins, games |-> s.games]) : s \in SeasonSides(db)},
   order |-> <<<<"value", spec.best>>, <<"wins", spec.best>>, Asc("season"), Asc("team_id")>>]

team_championships(db) ==
  LET titles(t) == {k \in season_champions(db) : k[2] = t}
  IN [rows |-> {Columns([value |-> Whole(Cardinality(titles(t))), team_id |-> t]) :
                  t \in {k[2] : k \in season_champions(db)}},
      order |-> <<Desc("value"), Asc("team_id")>>]

\* Each completed game, once per team.
TeamSides(db, types) ==
  LET side(g, t) == [game_id |-> g.id, season |-> g.season, date |-> g.date, team_id |-> t,
                     opponent_id |-> Opponent(g, t), score |-> Score(g, t)]
  IN UNION {{side(g, g.home_team_id), side(g, g.away_team_id)} :
              g \in {h \in db.games : h.game_type \in types /\ completed(h)}}

team_most_points_game(db) ==
  [rows |-> {Columns([value |-> Whole(s.score), team_id |-> s.team_id, season |-> s.season,
                      game_id |-> s.game_id, opponent_id |-> s.opponent_id, date |-> s.date]) :
               s \in TeamSides(db, SINGLE_GAME_TYPES)},
   order |-> <<Desc("value"), Asc("date"), Asc("team_id")>>]

team_largest_win(db) ==
  LET home(g) == g.home_score > g.away_score
      row(g) == [value |-> Whole(IF home(g) THEN g.home_score - g.away_score ELSE g.away_score - g.home_score),
                 team_id |-> IF home(g) THEN g.home_team_id ELSE g.away_team_id,
                 opponent_id |-> IF home(g) THEN g.away_team_id ELSE g.home_team_id,
                 season |-> g.season, game_id |-> g.id, date |-> g.date]
  IN [rows |-> {Columns(row(g)) : g \in {h \in db.games : h.game_type \in SINGLE_GAME_TYPES /\ completed(h)}},
      order |-> <<Desc("value"), Asc("date"), Asc("team_id")>>]

\* The seasons whose Finals the player was on the court in for the champion.
player_championships(db) ==
  LET titles(p) == {k \in season_champions(db) :
                      \E l \in db.lines : /\ l.player_id = p /\ played(l) /\ l.team_id = k[2]
                                          /\ Game(db, l) \in finals(db, k[1])}
  IN [rows |-> {Columns([value |-> Whole(Cardinality(titles(p))), player_id |-> p]) :
                  p \in {q \in {l.player_id : l \in db.lines} : titles(q) # {}}},
      order |-> <<Desc("value"), Asc("player_id")>>]

finals_appearances(db) ==
  LET seasons(t) == {g.season : g \in {h \in db.games : h.game_type = "playoffs" /\ h.label = FINALS_LABEL
                                                          /\ PlayedIn(h, t)}}
  IN [rows |-> {Columns([value |-> Whole(Cardinality(seasons(t))), team_id |-> t]) :
                  t \in {u \in {v.id : v \in db.teams} : seasons(u) # {}}},
      order |-> <<Desc("value"), Asc("team_id")>>]

\* A stat, its minutes whole, with the attempts of a made stat beside it.
Figure(row, column) == IF column = "minutes" THEN row.seconds_played \div 60 ELSE row[column]
MadeOf(row, column) == IF column \in Made THEN row[column] ELSE Null
AttemptedOf(row, column) == IF column \in Made THEN row[Attempted(column)] ELSE Null

\* One played line of a game of the types; a percentage needs its attempts.
player_game(db, spec) ==
  LET listed(l) == /\ played(l) /\ Game(db, l).game_type \in spec.types
                   /\ spec.percentage => l[Attempted(spec.column)] >= spec.minimum
      row(l) == [value |-> IF spec.percentage THEN <<l[spec.column], l[Attempted(spec.column)]>>
                           ELSE Whole(Figure(l, spec.column)),
                 team_id |-> l.team_id, player_id |-> l.player_id, season |-> Game(db, l).season,
                 game_id |-> l.game_id, opponent_id |-> Opponent(Game(db, l), l.team_id),
                 date |-> Game(db, l).date, line_id |-> l.id,
                 made |-> MadeOf(l, spec.column), attempted |-> AttemptedOf(l, spec.column)]
  IN [rows |-> {Columns(row(l)) : l \in {m \in db.lines : listed(m)}},
      order |-> <<Desc("value"), Asc("date"), Asc("player_id"), Asc("line_id")>>]

career_triple_doubles(db) ==
  LET games(p) == {l.game_id : l \in {m \in db.lines : /\ m.player_id = p /\ played(m) /\ TRIPLE_DOUBLE(m)
                                                       /\ Game(db, m).game_type = REGULAR}}
  IN [rows |-> {Columns([value |-> Whole(Cardinality(games(p))), player_id |-> p]) :
                  p \in {q \in {l.player_id : l \in db.lines} : games(q) # {}}},
      order |-> <<Desc("value"), Asc("player_id")>>]

(* From player_season_totals and team_game_totals *)

\* _season: a row of the table, in a season with a champion.
season(db, spec) ==
  LET listed(r) == /\ r.game_type = REGULAR /\ r.season \in Champions(db)
                   /\ CASE spec.measure = "total" -> Figure(r, spec.column) > 0
                        [] spec.measure = "pct" -> r[Attempted(spec.column)] >= spec.minimum
                        [] spec.measure = "average" -> r.games >= SEASON_AVERAGE_GAMES
      value(r) == CASE spec.measure = "total" -> Whole(Figure(r, spec.column))
                    [] spec.measure = "pct" -> <<r[spec.column], r[Attempted(spec.column)]>>
                    [] spec.measure = "average" /\ spec.column = "minutes" -> <<r.seconds_played, 60 * r.games>>
                    [] OTHER -> <<r[spec.column], r.games>>
      row(r) == [value |-> value(r), team_id |-> r.team_id, player_id |-> r.player_id, season |-> r.season,
                 made |-> MadeOf(r, spec.column), attempted |-> AttemptedOf(r, spec.column)]
  IN [rows |-> {Columns(row(r)) : r \in {t \in db.seasons : listed(t)}},
      order |-> <<Desc("value")>> \o (IF spec.measure = "pct" THEN <<Desc("made")>> ELSE <<>>)
                \o <<Asc("season"), Asc("player_id")>>]

\* _careers: a player's rows of a type summed.
careers(db, spec) ==
  LET of(p) == {r \in db.seasons : r.player_id = p /\ r.game_type = spec.type}
      total(p, c) == SumOf(of(p), LAMBDA r : r[c])
      figure(p) == IF spec.column = "minutes" THEN total(p, "seconds_played") \div 60 ELSE total(p, spec.column)
      attempted(p) == total(p, Attempted(spec.column))
      listed(p) == /\ of(p) # {}
                   /\ CASE spec.measure = "total" -> figure(p) > 0
                        [] spec.measure = "pct" -> attempted(p) >= spec.minimum
                        [] spec.measure = "average" -> total(p, "games") >= CAREER_AVERAGE_GAMES
      value(p) == CASE spec.measure = "total" -> Whole(figure(p))
                    [] spec.measure = "pct" -> <<total(p, spec.column), attempted(p)>>
                    [] OTHER -> <<total(p, spec.column), total(p, "games")>>
      row(p) == [value |-> value(p), player_id |-> p,
                 made |-> IF spec.column \in Made THEN total(p, spec.column) ELSE Null,
                 attempted |-> IF spec.column \in Made THEN attempted(p) ELSE Null]
  IN [rows |-> {Columns(row(p)) : p \in {q \in {r.player_id : r \in db.seasons} : listed(q)}},
      order |-> <<Desc("value")>> \o (IF spec.measure = "pct" THEN <<Desc("made")>> ELSE <<>>)
                \o <<Asc("player_id")>>]

\* A column of a team's game; a game without the team's box has none.
SideFigure(s, column) ==
  CASE column = "margin" -> s.score - s.opponent_score
    [] column = "combined" -> s.score + s.opponent_score
    [] OTHER -> s[column]
SideHas(s, column) == column \in {"margin", "combined", "score", "opponent_score"} \/ s[column] # Null

\* _team_seasons: a team's regular season, in a season with a champion.
team_seasons(db, spec) ==
  LET of(k) == {s \in db.sides : s.game_type = REGULAR /\ <<s.season, s.team_id>> = k}
      keys == {<<s.season, s.team_id>> : s \in {t \in db.sides : t.game_type = REGULAR
                                                                   /\ t.season \in Champions(db)}}
      boxed(k) == {s \in of(k) : SideHas(s, spec.column)}
      total(k, c) == SumOf({s \in of(k) : SideHas(s, c)}, LAMBDA s : SideFigure(s, c))
      attempted(k) == total(k, Attempted(spec.column))
      won(k) == {s \in of(k) : s.won = spec.won}
      listed(k) == CASE spec.measure = "made" -> total(k, spec.column) > 0
                     [] spec.measure = "pct" -> attempted(k) > 0
                     [] spec.measure = "average" -> boxed(k) # {}
                     [] spec.measure = "streak" -> won(k) # {}
                     [] spec.measure = "count" -> TRUE
      value(k) == CASE spec.measure = "made" -> Whole(total(k, spec.column))
                    [] spec.measure = "pct" -> <<total(k, spec.column), attempted(k)>>
                    [] spec.measure = "average" -> <<total(k, spec.column), Cardinality(boxed(k))>>
                    [] spec.measure = "streak" -> Whole(Max({s.streak : s \in won(k)}))
                    [] spec.measure = "count" -> Whole(Cardinality(won(k)))
      row(k) == [value |-> value(k), season |-> k[1], team_id |-> k[2],
                 made |-> IF spec.column \in Made THEN total(k, spec.column) ELSE Null,
                 attempted |-> IF spec.column \in Made THEN attempted(k) ELSE Null]
  IN [rows |-> {Columns(row(k)) : k \in {j \in keys : listed(j)}},
      order |-> <<<<"value", spec.best>>>> \o (IF spec.measure = "pct" THEN <<Desc("made")>> ELSE <<>>)
                \o <<Asc("season"), Asc("team_id")>>]

\* _team_games: a team's game of the types; a combined total once, the winner's.
team_games(db, spec) ==
  LET listed(s) == /\ s.game_type \in spec.types
                   /\ SideHas(s, spec.column)
                   /\ spec.column \in {"margin", "combined"} => s.won
      row(s) == [value |-> Whole(SideFigure(s, spec.column)), team_id |-> s.team_id, season |-> s.season,
                 game_id |-> s.game_id, opponent_id |-> s.opponent_id, date |-> s.date,
                 made |-> MadeOf(s, spec.column), attempted |-> AttemptedOf(s, spec.column)]
  IN [rows |-> {Columns(row(s)) : s \in {t \in db.sides : listed(t)}},
      order |-> <<<<"value", spec.best>>, Asc("date"), Asc("team_id")>>]

\* _team_franchise: every stored season's games of a type.
team_franchise(db, spec) ==
  LET of(t) == {s \in db.sides : s.team_id = t /\ s.game_type = spec.type}
      value(t) == IF spec.measure = "seasons" THEN Cardinality({s.season : s \in of(t)})
                  ELSE Cardinality({s \in of(t) : s.won})
  IN [rows |-> {Columns([value |-> Whole(value(t)), team_id |-> t]) :
                  t \in {s.team_id : s \in {r \in db.sides : r.game_type = spec.type}}},
      order |-> <<Desc("value"), Asc("team_id")>>]

best_win_pct_all_time(db) ==
  LET of(t) == {s \in db.sides : s.team_id = t /\ s.game_type = REGULAR}
      wins(t) == Cardinality({s \in of(t) : s.won})
      row(t) == [value |-> <<wins(t), Cardinality(of(t))>>, team_id |-> t, wins |-> wins(t),
                 losses |-> Cardinality(of(t)) - wins(t), games |-> Cardinality(of(t))]
  IN [rows |-> {Columns(row(t)) : t \in {s.team_id : s \in {r \in db.sides : r.game_type = REGULAR}}},
      order |-> <<Desc("value"), Desc("wins"), Asc("team_id")>>]

-----------------------------------------------------------------------------
(* The registry *)

Spec0 == [family |-> "", column |-> "", measure |-> "", types |-> {}, type |-> REGULAR, minimum |-> 0,
          percentage |-> FALSE, best |-> TRUE, won |-> TRUE]

PlayerGame(column, types) == [Spec0 EXCEPT !.family = "player_game", !.column = column, !.types = types]
PlayerGamePct(made, minimum) ==
  [PlayerGame(made, SINGLE_GAME_TYPES) EXCEPT !.percentage = TRUE, !.minimum = minimum]

Season(column, measure) == [Spec0 EXCEPT !.family = "season", !.column = column, !.measure = measure]
SeasonTotal(column) == Season(column, "total")
SeasonPct(made, minimum) == [Season(made, "pct") EXCEPT !.minimum = minimum]
SeasonAverage(column) == Season(column, "average")

Career(column, measure) == [Spec0 EXCEPT !.family = "careers", !.column = column, !.measure = measure]
CareerTotal(column, type) == [Career(column, "total") EXCEPT !.type = type]
CareerPct(made, minimum) == [Career(made, "pct") EXCEPT !.minimum = minimum]
CareerAverage(column) == Career(column, "average")

TeamSeason(column, measure) == [Spec0 EXCEPT !.family = "team_seasons", !.column = column, !.measure = measure]
TeamSeasonAverage(column, best) == [TeamSeason(column, "average") EXCEPT !.best = best]
TeamSeasonMade(made) == TeamSeason(made, "made")
TeamSeasonPct(made) == TeamSeason(made, "pct")
TeamSeasonCount(of) == [TeamSeason("", "count") EXCEPT !.won = (of = "wins")]
Streaks(won) == [TeamSeason("", "streak") EXCEPT !.won = won]

TeamGames(column, types, best) ==
  [Spec0 EXCEPT !.family = "team_games", !.column = column, !.types = types, !.best = best]
TeamGameStat(column) == TeamGames(column, SINGLE_GAME_TYPES, TRUE)
TeamFranchise(of, type) == [Spec0 EXCEPT !.family = "team_franchise", !.measure = of, !.type = type]
SeasonRecord(best) == [Spec0 EXCEPT !.family = "season_record", !.best = best]
Named(family) == [Spec0 EXCEPT !.family = family]

candidates(db, spec) ==
  CASE spec.family = "player_game" -> player_game(db, spec)
    [] spec.family = "season" -> season(db, spec)
    [] spec.family = "careers" -> careers(db, spec)
    [] spec.family = "team_seasons" -> team_seasons(db, spec)
    [] spec.family = "team_games" -> team_games(db, spec)
    [] spec.family = "team_franchise" -> team_franchise(db, spec)
    [] spec.family = "season_record" -> season_record(db, spec)
    [] spec.family = "best_win_pct_all_time" -> best_win_pct_all_time(db)
    [] spec.family = "finals_appearances" -> finals_appearances(db)
    [] spec.family = "team_championships" -> team_championships(db)
    [] spec.family = "player_championships" -> player_championships(db)
    [] spec.family = "team_most_points_game" -> team_most_points_game(db)
    [] spec.family = "team_largest_win" -> team_largest_win(db)
    [] spec.family = "career_triple_doubles" -> career_triple_doubles(db)

\* One definition: its id, what qualifies, and the kind of its value.
Record(id, spec, kind) == [id |-> id, spec |-> spec, value_kind |-> kind]

TEAM_FRANCHISE ==
  <<Record("team-championships", Named("team_championships"), "count"),
    Record("team-finals-appearances", Named("finals_appearances"), "count"),
    Record("team-playoff-appearances", TeamFranchise("seasons", "playoffs"), "count"),
    Record("team-most-wins-all-time", TeamFranchise("wins", REGULAR), "count"),
    Record("team-best-win-pct-all-time", Named("best_win_pct_all_time"), "win_loss")>>

TEAM_SEASON_RESULTS ==
  <<Record("team-best-season", SeasonRecord(TRUE), "win_loss"),
    Record("team-worst-season", SeasonRecord(FALSE), "win_loss"),
    Record("team-most-wins-season", TeamSeasonCount("wins"), "count"),
    Record("team-most-losses-season", TeamSeasonCount("losses"), "count"),
    Record("team-longest-win-streak", Streaks(TRUE), "count"),
    Record("team-longest-losing-streak", Streaks(FALSE), "count"),
    Record("team-highest-ppg-season", TeamSeasonAverage("score", TRUE), "average"),
    Record("team-lowest-opp-ppg-season", TeamSeasonAverage("opponent_score", FALSE), "average"),
    Record("team-best-point-diff-season", TeamSeasonAverage("margin", TRUE), "average")>>

TEAM_SEASON_SHOOTING ==
  <<Record("team-most-threes-season", TeamSeasonMade("three_pointers_made"), "made_total"),
    Record("team-three-pct-season", TeamSeasonPct("three_pointers_made"), "shot_pct"),
    Record("team-field-goal-pct-season", TeamSeasonPct("field_goals_made"), "shot_pct"),
    Record("team-free-throw-pct-season", TeamSeasonPct("free_throws_made"), "shot_pct"),
    Record("team-apg-season", TeamSeasonAverage("assists", TRUE), "average"),
    Record("team-rpg-season", TeamSeasonAverage("rebounds", TRUE), "average"),
    Record("team-spg-season", TeamSeasonAverage("steals", TRUE), "average"),
    Record("team-bpg-season", TeamSeasonAverage("blocks", TRUE), "average"),
    Record("team-fewest-turnovers-season", TeamSeasonAverage("turnovers", FALSE), "average")>>

TEAM_GAME ==
  <<Record("team-most-points-game", Named("team_most_points_game"), "count"),
    Record("team-fewest-points-game", TeamGames("score", SINGLE_GAME_TYPES, FALSE), "count"),
    Record("team-largest-win", Named("team_largest_win"), "count"),
    Record("team-most-threes-game", TeamGameStat("three_pointers_made"), "made_total"),
    Record("team-most-assists-game", TeamGameStat("assists"), "count"),
    Record("team-most-rebounds-game", TeamGameStat("rebounds"), "count"),
    Record("team-most-steals-game", TeamGameStat("steals"), "count"),
    Record("team-most-blocks-game", TeamGameStat("blocks"), "count"),
    Record("team-highest-combined-points-game", TeamGames("combined", SINGLE_GAME_TYPES, TRUE), "count"),
    Record("team-playoff-most-points-game", TeamGames("score", {"playoffs"}, TRUE), "count"),
    Record("team-playoff-largest-win", TeamGames("margin", {"playoffs"}, TRUE), "count")>>

PLAYER_GAME_COUNTS ==
  <<Record("player-points-game", PlayerGame("points", SINGLE_GAME_TYPES), "count"),
    Record("player-rebounds-game", PlayerGame("rebounds", SINGLE_GAME_TYPES), "count"),
    Record("player-offensive-rebounds-game", PlayerGame("offensive_rebounds", SINGLE_GAME_TYPES), "count"),
    Record("player-defensive-rebounds-game", PlayerGame("defensive_rebounds", SINGLE_GAME_TYPES), "count"),
    Record("player-assists-game", PlayerGame("assists", SINGLE_GAME_TYPES), "count"),
    Record("player-steals-game", PlayerGame("steals", SINGLE_GAME_TYPES), "count"),
    Record("player-blocks-game", PlayerGame("blocks", SINGLE_GAME_TYPES), "count")>>

PLAYER_GAME_SHOOTING ==
  <<Record("player-threes-game", PlayerGame("three_pointers_made", SINGLE_GAME_TYPES), "made_total"),
    Record("player-three-pct-game", PlayerGamePct("three_pointers_made", GAME_MINIMUMS.threes), "shot_pct"),
    Record("player-field-goals-game", PlayerGame("field_goals_made", SINGLE_GAME_TYPES), "made_total"),
    Record("player-field-goal-pct-game", PlayerGamePct("field_goals_made", GAME_MINIMUMS.fg), "shot_pct"),
    Record("player-free-throws-game", PlayerGame("free_throws_made", SINGLE_GAME_TYPES), "made_total"),
    Record("player-free-throw-pct-game", PlayerGamePct("free_throws_made", GAME_MINIMUMS.ft), "shot_pct"),
    Record("player-minutes-game", PlayerGame("minutes", SINGLE_GAME_TYPES), "count"),
    Record("player-plus-minus-game", PlayerGame("plus_minus", SINGLE_GAME_TYPES), "count")>>

PLAYER_SEASON_COUNTS ==
  <<Record("player-points-season", SeasonTotal("points"), "count"),
    Record("player-rebounds-season", SeasonTotal("rebounds"), "count"),
    Record("player-offensive-rebounds-season", SeasonTotal("offensive_rebounds"), "count"),
    Record("player-assists-season", SeasonTotal("assists"), "count"),
    Record("player-steals-season", SeasonTotal("steals"), "count"),
    Record("player-blocks-season", SeasonTotal("blocks"), "count"),
    Record("player-minutes-season", SeasonTotal("minutes"), "count"),
    Record("player-triple-doubles-season", SeasonTotal("triple_doubles"), "count"),
    Record("player-double-doubles-season", SeasonTotal("double_doubles"), "count")>>

PLAYER_SEASON_RATES ==
  <<Record("player-threes-season", SeasonTotal("three_pointers_made"), "made_total"),
    Record("player-three-pct-season", SeasonPct("three_pointers_made", SEASON_MINIMUMS.threes), "shot_pct"),
    Record("player-field-goals-season", SeasonTotal("field_goals_made"), "made_total"),
    Record("player-field-goal-pct-season", SeasonPct("field_goals_made", SEASON_MINIMUMS.fg), "shot_pct"),
    Record("player-free-throws-season", SeasonTotal("free_throws_made"), "made_total"),
    Record("player-free-throw-pct-season", SeasonPct("free_throws_made", SEASON_MINIMUMS.ft), "shot_pct"),
    Record("player-ppg-season", SeasonAverage("points"), "average"),
    Record("player-rpg-season", SeasonAverage("rebounds"), "average"),
    Record("player-apg-season", SeasonAverage("assists"), "average"),
    Record("player-spg-season", SeasonAverage("steals"), "average"),
    Record("player-bpg-season", SeasonAverage("blocks"), "average"),
    Record("player-mpg-season", SeasonAverage("minutes"), "average")>>

PLAYER_CAREER_COUNTS ==
  <<Record("player-career-points", CareerTotal("points", REGULAR), "count"),
    Record("player-career-rebounds", CareerTotal("rebounds", REGULAR), "count"),
    Record("player-career-assists", CareerTotal("assists", REGULAR), "count"),
    Record("player-career-steals", CareerTotal("steals", REGULAR), "count"),
    Record("player-career-blocks", CareerTotal("blocks", REGULAR), "count"),
    Record("player-career-minutes", CareerTotal("minutes", REGULAR), "count"),
    Record("player-career-games", CareerTotal("games", REGULAR), "count"),
    Record("player-career-triple-doubles", Named("career_triple_doubles"), "count"),
    Record("player-career-double-doubles", CareerTotal("double_doubles", REGULAR), "count")>>

PLAYER_CAREER_RATES ==
  <<Record("player-career-threes", CareerTotal("three_pointers_made", REGULAR), "made_total"),
    Record("player-career-three-pct", CareerPct("three_pointers_made", CAREER_MINIMUMS.threes), "shot_pct"),
    Record("player-career-field-goals", CareerTotal("field_goals_made", REGULAR), "made_total"),
    Record("player-career-field-goal-pct", CareerPct("field_goals_made", CAREER_MINIMUMS.fg), "shot_pct"),
    Record("player-career-free-throws", CareerTotal("free_throws_made", REGULAR), "made_total"),
    Record("player-career-free-throw-pct", CareerPct("free_throws_made", CAREER_MINIMUMS.ft), "shot_pct"),
    Record("player-career-ppg", CareerAverage("points"), "average"),
    Record("player-career-rpg", CareerAverage("rebounds"), "average"),
    Record("player-career-apg", CareerAverage("assists"), "average"),
    Record("player-career-spg", CareerAverage("steals"), "average"),
    Record("player-career-bpg", CareerAverage("blocks"), "average")>>

PLAYER_PLAYOFFS_GAME ==
  <<Record("player-championships", Named("player_championships"), "count"),
    Record("player-playoff-points-game", PlayerGame("points", PLAYOFF_TYPES), "count"),
    Record("player-playoff-rebounds-game", PlayerGame("rebounds", PLAYOFF_TYPES), "count"),
    Record("player-playoff-assists-game", PlayerGame("assists", PLAYOFF_TYPES), "count"),
    Record("player-playoff-threes-game", PlayerGame("three_pointers_made", PLAYOFF_TYPES), "made_total"),
    Record("player-playoff-steals-game", PlayerGame("steals", PLAYOFF_TYPES), "count"),
    Record("player-playoff-blocks-game", PlayerGame("blocks", PLAYOFF_TYPES), "count")>>

PLAYER_PLAYOFFS_CAREER ==
  <<Record("player-playoff-career-points", CareerTotal("points", "playoffs"), "count"),
    Record("player-playoff-career-rebounds", CareerTotal("rebounds", "playoffs"), "count"),
    Record("player-playoff-career-assists", CareerTotal("assists", "playoffs"), "count"),
    Record("player-playoff-career-threes", CareerTotal("three_pointers_made", "playoffs"), "made_total"),
    Record("player-playoff-career-steals", CareerTotal("steals", "playoffs"), "count"),
    Record("player-playoff-career-blocks", CareerTotal("blocks", "playoffs"), "count"),
    Record("player-playoff-career-games", CareerTotal("games", "playoffs"), "count")>>

RECORDS ==
  TEAM_FRANCHISE \o TEAM_SEASON_RESULTS \o TEAM_SEASON_SHOOTING \o TEAM_GAME
    \o PLAYER_GAME_COUNTS \o PLAYER_GAME_SHOOTING \o PLAYER_SEASON_COUNTS \o PLAYER_SEASON_RATES
    \o PLAYER_CAREER_COUNTS \o PLAYER_CAREER_RATES \o PLAYER_PLAYOFFS_GAME \o PLAYER_PLAYOFFS_CAREER

RecordIds == {RECORDS[i].id : i \in DOMAIN RECORDS}
RECORDS_BY_ID == [id \in RecordIds |-> CHOOSE r \in ToSet(RECORDS) : r.id = id]

\* The featured sixteen; a record's rank is its place.
FEATURED ==
  <<"team-best-season", "player-points-game", "team-championships", "player-career-points",
    "player-threes-season", "player-three-pct-season", "player-ppg-season", "team-worst-season",
    "player-rebounds-game", "player-assists-game", "player-threes-game", "team-longest-win-streak",
    "player-career-triple-doubles", "player-championships", "team-most-points-game", "team-largest-win">>

featured_rank(id) == IF id \in ToSet(FEATURED) THEN CHOOSE i \in DOMAIN FEATURED : FEATURED[i] = id ELSE Null

CATALOG == [i \in DOMAIN RECORDS |-> [id |-> RECORDS[i].id, value_kind |-> RECORDS[i].value_kind,
                                      featured_rank |-> featured_rank(RECORDS[i].id)]]

-----------------------------------------------------------------------------
(* The read side *)

Key(row, column) == IF column = "value" THEN row.value ELSE Whole(row[column])

\* x before y on one (column, descending) key.
Ahead(row, other, key) ==
  IF key[2] THEN More(Key(row, key[1]), Key(other, key[1])) ELSE More(Key(other, key[1]), Key(row, key[1]))

\* _ordered: the list's full order.
Precedes(order, row, other) ==
  Decides([i \in DOMAIN order |->
             <<Ahead(row, other, order[i]), Same(Key(row, order[i][1]), Key(other, order[i][1]))>>])

\* _by_value: the rank column alone.
Better(c, row, other) == Ahead(row, other, c.order[1])

\* Faulty: the first rows of the full order, whatever ties with the last.
WithoutTies(c, n) == ToSet(Paged(Ranked(c.rows, LAMBDA r, s : Precedes(c.order, r, s)), n, 0))

\* FETCH FIRST n ROWS WITH TIES on the rank column.
WithTies(c, n) == {r \in c.rows : Cardinality({s \in c.rows : Better(c, s, r)}) < n}

\* _figures: the value and the figures behind it, by the record's kind.
figures(row, kind) ==
  LET none == [value |-> Whole(Null), wins |-> Null, losses |-> Null, made |-> Null, attempted |-> Null, pct |-> Null]
      share == pct(row.value[1], row.value[2])
  IN CASE kind = "win_loss" ->
            [none EXCEPT !.value = <<pct(row.wins, row.games), 1000>>, !.wins = row.wins, !.losses = row.losses,
                         !.pct = pct(row.wins, row.games)]
       [] kind = "made_total" ->
            [none EXCEPT !.value = row.value, !.made = row.made, !.attempted = row.attempted,
                         !.pct = pct(row.made, row.attempted)]
       [] kind = "shot_pct" ->
            [none EXCEPT !.value = <<share, 1000>>, !.made = row.made, !.attempted = row.attempted, !.pct = share]
       [] kind = "average" -> [none EXCEPT !.value = <<Rounded(row.value[1], row.value[2], 10), 10>>]
       [] OTHER -> [none EXCEPT !.value = row.value]

\* _entry_fields: an entry with its rank and its references.
entry(row, rank, kind) ==
  Beside(figures(row, kind),
         [rank |-> rank, team |-> row.team_id, player |-> row.player_id,
          season |-> row.season, game |-> row.game_id, opponent |-> row.opponent_id])

\* _window: the earliest and the latest stored seasons.
window(db) ==
  LET seasons == {g.season : g \in db.games}
  IN IF seasons = {} THEN <<Null, Null>> ELSE <<Min(seasons), Max(seasons)>>

records_catalog(db) == [window |-> window(db), records |-> CATALOG]

\* The first of some rows in a full order.
FirstOf(order, rows) == CHOOSE r \in rows : \A s \in rows \ {r} : Precedes(order, r, s)

\* _holder_statement: the first of the tied, in the list's order; none is <<>>.
holder_among(c, kind, tied) ==
  IF tied = {} THEN <<>>
  ELSE <<Beside(entry(FirstOf(c.order, tied), 1, kind), [tied_count |-> Cardinality(tied)])>>

first_of(c, kind) == holder_among(c, kind, WithTies(c, 1))

record_holder(db, record) == first_of(candidates(db, record.spec), record.value_kind)

\* The ids asked for, split at the commas.
holder_ids(ids) ==
  IF Len(ids) \notin 1..HOLDERS_CAP \/ Cardinality(ToSet(ids)) # Len(ids) \/ ToSet(ids) \ RecordIds # {}
  THEN "ValueError" ELSE "ok"

record_holders(db, ids) == [id \in ToSet(ids) |-> record_holder(db, RECORDS_BY_ID[id])]

\* An entry of a list, ranked by the number of better values.
ranked_entry(c, kind, top, row) == entry(row, 1 + Cardinality({s \in top : Better(c, s, row)}), kind)

\* _list_statement: one page of the top LIST_CAP.
top_page(c, kind, top, limit, offset) ==
  LET page == Paged(Paged(Ranked(top, LAMBDA r, s : Precedes(c.order, r, s)), LIST_CAP, 0), limit, offset)
  IN [total |-> Min({Cardinality(top), LIST_CAP}),
      entries |-> [i \in DOMAIN page |-> ranked_entry(c, kind, top, page[i])]]

page_of(c, kind, limit, offset) == top_page(c, kind, WithTies(c, LIST_CAP), limit, offset)

record_list(db, record, limit, offset) ==
  Beside([window |-> window(db)], page_of(candidates(db, record.spec), record.value_kind, limit, offset))

-----------------------------------------------------------------------------
(* The database grows by loads *)

VARIABLE db

\* record_totals: both tables replaced from the games and lines.
rebuild_record_totals(stored) ==
  [stored EXCEPT !.seasons = PlayerSeasonTotals(stored), !.sides = TeamGameTotals(stored)]

RecordsInit == db = [teams |-> Teams, players |-> Players, games |-> {}, lines |-> {}, seasons |-> {}, sides |-> {}]

\* A load commits a game with its box score and the totals rebuilt.
LoadGame(d) ==
  /\ d.game \notin db.games
  /\ db' = rebuild_record_totals([db EXCEPT !.games = @ \cup {d.game}, !.lines = @ \cup d.lines])

RecordsNext == \E d \in Dataset : LoadGame(d)

RecordsSpec == RecordsInit /\ [][RecordsNext]_db

-----------------------------------------------------------------------------
(* Properties *)

\* A record's list is all of its rows, cut at the cap, each with its value and rank.
Lists(kind, c, all, list) ==
  /\ list.total = Min({Len(all), LIST_CAP}) /\ Len(list.entries) = list.total
  /\ \A k \in 1..list.total :
       /\ list.entries[k].rank = 1 + Cardinality({r \in c.rows : Better(c, r, all[k])})
       /\ list.entries[k].value = figures(all[k], kind).value

\* Its pages of one entry are the entries of the list.
IsPaged(record, list) ==
  \A k \in 0..(LIST_CAP + 1) :
    record_list(db, record, 1, k).entries = IF k < list.total THEN <<list.entries[k + 1]>> ELSE <<>>

\* Its holder is the list's first entry, with how many rows tie with it.
Heads(holder, c, all, list) ==
  /\ holder = <<>> <=> all = <<>>
  /\ holder # <<>> =>
       /\ \A f \in DOMAIN list.entries[1] : holder[1][f] = list.entries[1][f]
       /\ holder[1].tied_count = Cardinality({r \in c.rows : Same(r.value, all[1].value)})

Agree(record, c, all, list) ==
  /\ Lists(record.value_kind, c, all, list)
  /\ IsPaged(record, list)
  /\ Heads(record_holders(db, <<record.id>>)[record.id], c, all, list)

HeadsItsList(record, c) ==
  Agree(record, c, Ranked(c.rows, LAMBDA r, s : Precedes(c.order, r, s)), record_list(db, record, LIST_CAP, 0))

\* Every record's holder heads its list and counts everyone tied with it; the
\* pages of the list, read one entry at a time, are its total, best first, each
\* entry ranked by how many candidates of the whole database are better
\* (records.py _holder_statement and _list_statement are two statements over
\* rows cut in different places).
HolderHeadsTheList ==
  \A i \in DOMAIN RECORDS : HeadsItsList(RECORDS[i], candidates(db, RECORDS[i].spec))

SeasonRows(player) == {r \in db.seasons : r.player_id = player}
ValuesOf(rows, player) == {r.value[1] : r \in {s \in rows : s.player_id = player}}

\* The rows a season line of a player's page was totalled in: one, saying the same.
IsTotalled(rows, shown) ==
  /\ Cardinality(rows) = 1
  /\ \A r \in rows : /\ r.games = shown.line.games_played
                     /\ \A c \in {"points", "seconds_played", "defensive_rebounds"} : r[c] = shown.line[c]
                     /\ r.team_id \in ToSet(shown.teams)
                     /\ r.triple_doubles <= r.double_doubles

SeasonsAgree(rows, seasons) ==
  /\ Cardinality(rows) = Len(seasons)
  /\ \A i \in DOMAIN seasons :
       IsTotalled({r \in rows : r.season = seasons[i].season /\ r.game_type = seasons[i].game_type}, seasons[i])

\* What the library reads from player_season_totals is what a player's own
\* page reads from the box scores: games, points and minutes of every season
\* line, the newest team among the season's teams, and the career record of
\* triple-doubles, which alone reads the lines (records.py _career).
TotalsAgree ==
  \A p \in {q.id : q \in db.players} :
    /\ SeasonsAgree(SeasonRows(p), player_detail(db, p).seasons)
    /\ ValuesOf(career_triple_doubles(db).rows, p)
         = ValuesOf(careers(db, CareerTotal("triple_doubles", REGULAR)).rows, p)
    /\ ValuesOf(careers(db, CareerTotal("games", "playoffs")).rows, p)
         = {player_detail(db, p).career_playoffs.games_played} \ {0}

\* A team's season reads the same from the games (records, standings, the best
\* season) and from team_game_totals (most wins, most losses), and its titles
\* are the seasons GET /events/seasons/{season}/champion names it in.
RecordsAgree ==
  LET found(s) == records(db, s)
      counts(won) == team_seasons(db, [TeamSeason("", "count") EXCEPT !.won = won]).rows
      best == season_record(db, SeasonRecord(TRUE)).rows
      titles(t) == {s \in {g.season : g \in db.games} : champion(db, s).champion = t}
  IN /\ \A r \in best :
          /\ r.team_id \in DOMAIN found(r.season)
          /\ r.wins = found(r.season)[r.team_id].wins /\ r.losses = found(r.season)[r.team_id].losses
          /\ \E w \in counts(TRUE) : w.season = r.season /\ w.team_id = r.team_id /\ w.value = Whole(r.wins)
          /\ \E w \in counts(FALSE) : w.season = r.season /\ w.team_id = r.team_id /\ w.value = Whole(r.losses)
     /\ Cardinality(best) = Cardinality(counts(TRUE))
     /\ \A s \in {g.season : g \in db.games} :
          MapThenSumSet(LAMBDA t : found(s)[t].wins, DOMAIN found(s))
            = Cardinality({g \in db.games : g.season = s /\ g.game_type = REGULAR})
     /\ {<<r.team_id, r.value[1]>> : r \in team_championships(db).rows}
          = {<<t, Cardinality(titles(t))>> : t \in {u \in {v.id : v \in db.teams} : titles(u) # {}}}

\* A stored streak is how many of the team's games of that season and type, up
\* to and including it, have its result in a row (record_totals.py's two
\* numberings of the same games).
StreakIsARun ==
  \A s \in db.sides :
    LET upto == Ranked({r \in db.sides : /\ r.team_id = s.team_id /\ r.season = s.season
                                         /\ r.game_type = s.game_type
                                         /\ r.date < s.date \/ (r.date = s.date /\ r.game_id <= s.game_id)},
                       LAMBDA r, q : r.date > q.date \/ (r.date = q.date /\ r.game_id > q.game_id))
    IN /\ s.streak \in 1..Len(upto)
       /\ \A i \in 1..s.streak : upto[i].won = s.won
       /\ s.streak < Len(upto) => upto[s.streak + 1].won # s.won

LeaderStats == {"points", "rebounds", "assists", "steals", "blocks", "three_pointers_made"}

\* A leader's figures are those of the season line on the player's page, the
\* leader has the games the rule asks for, and nobody who has them and a higher
\* average is missing.
LeadersQualify ==
  \A s \in {g.season : g \in db.games}, type \in LINE_GAME_TYPES, stat \in {"points", "rebounds"} :
    LET top == leaders(db, s, stat, type, 2)
        lines(p) == {l \in CountedLines(db, p) : Game(db, l).season = s /\ Game(db, l).game_type = type}
        mean(p) == <<SumOf(lines(p), LAMBDA l : l[stat]), Cardinality(lines(p))>>
        shown(p) == per_game(mean(p)[1], mean(p)[2])
        qualifies(p) == lines(p) # {} /\ Cardinality(lines(p)) >= qualifier(db, s, type)
    IN /\ \A i \in DOMAIN top :
            /\ qualifies(top[i].player) /\ top[i].average = shown(top[i].player)
            /\ top[i].games_played = stat_line(lines(top[i].player)).games_played
            /\ top[i].teams = ToSet(season_teams(db, top[i].player, <<s, type>>))
       /\ \A p \in {q.id : q \in db.players} \ {top[i].player : i \in DOMAIN top} :
            qualifies(p) => Len(top) = 2 /\ ~More(mean(p), mean(top[2].player))

ShowsTheScore(shown, score) ==
  /\ shown.seconds_played # Null
  /\ {shown.team_score, shown.opponent_score} = {score.home_score, score.away_score}
  /\ shown.team_score = IF shown.is_home THEN score.home_score ELSE score.away_score

ShowsTheCareer(shown, detail, scope) ==
  /\ shown.games_played > 0
  /\ shown = IF scope = "regular" THEN detail.career_regular ELSE detail.career_playoffs

ArePreviews(scores, lines, totals) ==
  /\ \A g \in {h.id : h \in db.games} : validate_game_final(db, g) = "ok" =>
       g \in DOMAIN scores /\ scores[g].home_score + scores[g].away_score > 0
  /\ \A l \in {m.id : m \in db.lines} : validate_player_game(db, l) = "ok" =>
       ShowsTheScore(lines[l], scores[lines[l].game])
  /\ \A p \in {q.id : q \in db.players}, scope \in LINE_GAME_TYPES : validate_player_career(db, p, scope) = "ok" =>
       ShowsTheCareer(totals[<<p, scope>>], player_detail(db, p), scope)

\* Whatever a post may link has something to show: a final its score, a line
\* its player's seconds and the score from the player's side, a career at least
\* one game, with the figures of the player's own page.
LinksHaveAPreview ==
  ArePreviews(game_final_previews(db, {g.id : g \in db.games}), player_game_previews(db, {l.id : l \in db.lines}),
              player_career_previews(db, {p.id : p \in db.players} \X LINE_GAME_TYPES))

\* A limit no list reaches.
AllRows == 1 + Cardinality(db.games) + Cardinality(db.lines) + Cardinality(db.players)
Listed(s) == [i \in DOMAIN s |-> s[i].id]
StoredSeasons == {g.season : g \in db.games}

\* A team's season and the games listed for it.
ListsTheSeason(shown, listed, filtered, known) ==
  /\ [i \in DOMAIN shown.games |-> shown.games[i].game_id] = Listed(listed)
  /\ ToSet(Listed(listed)) = {g.id : g \in filtered}
  /\ ToSet(Listed(listed)) \subseteq known
  /\ shown.record.wins <= Cardinality({i \in DOMAIN shown.games : shown.games[i].won})

\* A box score's totals and the team's row of totals.
TotalsAreTheBoxs(side, g, detail) ==
  /\ ~detail.raises
  /\ side.rebounds # Null =>
       \A c \in Shots \cup {"rebounds", "assists"} :
         side[c] = (IF g.home_team_id = side.team_id THEN detail.home ELSE detail.away).totals[c]

\* The order of a season's standings and the league ranks of its teams.
RanksLead(table, rank) ==
  \A c \in DOMAIN table : \A d \in DOMAIN table[c] : \A i \in DOMAIN table[c][d] :
    rank[table[c][d][i].team] = Min({rank[table[c][e][1].team] : e \in DOMAIN table[c]})
      => table[c][d][i].games_behind = 0

BestFirst(recent) ==
  \A i \in 1..(Len(recent) - 1) :
    recent[i].home_rank + recent[i].away_rank <= recent[i + 1].home_rank + recent[i + 1].away_rank

\* A player's game log, the team shown, and the players listed for each season.
LogIsThePlayers(player, log) ==
  /\ log # <<>> => log[1].team_id = latest_team(db, player)
  /\ \A s \in StoredSeasons :
       player \in ToSet(Listed(list_players(db, s, AllRows, 0)))
         <=> \E i \in DOMAIN log : played(log[i]) /\ Game(db, log[i]).season = s

\* The catalog's window and the seasons.
WindowIsTheSeasons(catalog, seasons) ==
  /\ seasons # <<>> => catalog.window = <<seasons[Len(seasons)], seasons[1]>>
  /\ \A s \in ToSet(seasons) : season_has_games(db, s)
  /\ {catalog.records[i].featured_rank : i \in DOMAIN catalog.records} = {Null} \cup 1..16

\* Two pages that show the same thing agree, and so do the games of one date
\* and those listed for it.
ReadsAgree ==
  /\ \A t \in {u.id : u \in db.teams}, s \in StoredSeasons :
       ListsTheSeason(team_season(db, t, s), list_games(db, s, t, "any", Null, Null, AllRows, 0),
                      filter_games(db, s, t, "any"), game_ids_for_team(db, t))
  /\ \A d \in {Day(g) : g \in db.games} :
       ToSet(list_games(db, Null, Null, "any", d, d, AllRows, 0)) = {g \in db.games : Day(g) = d}
  /\ \A side \in db.sides : \A g \in {h \in db.games : h.id = side.game_id} :
       TotalsAreTheBoxs(side, g, game_detail(db, g))
  /\ \A s \in StoredSeasons : RanksLead(standings(db, s), ranks(db, s))
  /\ BestFirst(recent_games(db, AllRows))
  /\ \A p \in {q.id : q \in db.players} : LogIsThePlayers(p, player_games(db, p, Null, "any", AllRows, 0))
  /\ WindowIsTheSeasons(records_catalog(db), distinct_seasons(db))

\* What is computed twice comes out once: a team's season, a streak and the
\* leaders of a season, whichever tables and windows they are read from.
FiguresAgree == RecordsAgree /\ StreakIsARun /\ LeadersQualify

\* What one page shows another page shows too, and what may be linked can be
\* shown (service.py's reads are some thirty statements over the same rows).
PagesAgree == LinksHaveAPreview /\ ReadsAgree
=============================================================================
