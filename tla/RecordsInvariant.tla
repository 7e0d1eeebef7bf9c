-------------------------- MODULE RecordsInvariant -------------------------
(***************************************************************************)
(* What is proved of Records is said with these definitions: the order of  *)
(* a list and the place of a row in it, what makes rows listable, what a   *)
(* stored data set is (Stored, SeasonsAre, SidesAre), what its two tables  *)
(* of totals say of its games and lines (SeasonsAddUp, SidesTell,          *)
(* SidesBoxed), the inductive invariant they make up (RecordsInv), and the *)
(* rows each page is a list of.                                            *)
(***************************************************************************)
EXTENDS Records

-----------------------------------------------------------------------------
(* Sums: what the fold of Total takes out first, and the sums it makes *)

Pick(T) == CHOOSE x \in T : TRUE
IsSum(h, f, S) == h = [T \in SUBSET S |-> IF T = {} THEN 0 ELSE f[Pick(T)] + h[T \ {Pick(T)}]]

-----------------------------------------------------------------------------
(* Records: the rows of a set one after the other *)

\* A relation that puts the elements of a set one after the other.
Orders(rel, S) ==
  /\ \A x \in S : <<x, x>> \notin rel
  /\ \A x \in S, y \in S : x = y \/ <<x, y>> \in rel \/ <<y, x>> \in rel
  /\ \A x \in S, y \in S, z \in S : <<x, y>> \in rel /\ <<y, z>> \in rel => <<x, z>> \in rel

Preceding(rel, S, x) == {y \in S : <<y, x>> \in rel}
Place(rel, S, x) == 1 + Cardinality(Preceding(rel, S, x))
InOrder(rel, S) == Ranked(S, LAMBDA x, y : <<x, y>> \in rel)

-----------------------------------------------------------------------------
(* Records: fractions and the keys rows are ordered by *)

IsFraction(x) == x[1] \in Int /\ x[2] \in Nat \ {0}

\* Keys that are fractions in every row, and tell every two rows apart.
IsKey(rows, key) == key[2] \in BOOLEAN /\ \A r \in rows : IsFraction(Key(r, key[1]))
Tells(order, r, s) == \E i \in DOMAIN order : ~Same(Key(r, order[i][1]), Key(s, order[i][1]))
Keys(order, rows) ==
  /\ \E n \in Nat : DOMAIN order = 1..n
  /\ \A i \in DOMAIN order : IsKey(rows, order[i])
  /\ \A r \in rows, s \in rows : r = s \/ Tells(order, r, s)

OrderOf(order, rows) == {p \in rows \X rows : Precedes(order, p[1], p[2])}

-----------------------------------------------------------------------------
(* Records: a list, its pages and its holder *)

\* Candidates that can be listed: so many rows, ordered by their value first.
Listable(c) ==
  /\ IsFiniteSet(c.rows) /\ Keys(c.order, c.rows)
  /\ 1 \in DOMAIN c.order /\ c.order[1][1] = "value"

Order(c) == OrderOf(c.order, c.rows)
All(c) == InOrder(Order(c), c.rows)
Betters(c, r) == {s \in c.rows : Better(c, s, r)}

\* An entry of a row, ranked among all of them.
EntryOf(c, kind, r) == entry(r, 1 + Cardinality(Betters(c, r)), kind)

ListLength(c) == Min({Cardinality(c.rows), LIST_CAP})

-----------------------------------------------------------------------------
(* Records: what makes candidates listable *)

\* An order by the value first, and then by whole numbers.
OrderedBy(order, columns) ==
  /\ \E n \in Nat \ {0} : DOMAIN order = 1..n
  /\ order[1][1] = "value"
  /\ \A i \in DOMAIN order : order[i][2] \in BOOLEAN /\ order[i][1] \in {"value"} \cup columns
  /\ \A c \in columns : \E i \in DOMAIN order : order[i][1] = c

\* Rows that have the columns, and are told apart by them.
ToldApart(row, S, columns) ==
  /\ \A x \in S : "value" \in DOMAIN row[x] /\ IsFraction(row[x].value)
  /\ \A x \in S, c \in columns : c \in DOMAIN row[x] /\ row[x][c] \in Int
  /\ \A x \in S, y \in S : (\A c \in columns : row[x][c] = row[y][c]) => row[x] = row[y]

\* The rows of candidates.
RowsOf(row, S) == {Columns(row[x]) : x \in S}

-----------------------------------------------------------------------------
(* Records: the registry *)

\* The columns each table of totals has.
TotalColumns == (COUNTING_STATS \ {"personal_fouls"}) \cup {"games", "double_doubles", "triple_doubles"}
BoxColumns == Shots \cup {"rebounds", "assists", "steals", "blocks", "turnovers"}
SideColumns == {"score", "opponent_score", "margin", "combined"} \cup BoxColumns

\* What a definition asks for is there, and a share is of attempts.
PlayerGameFits(spec) ==
  /\ spec.percentage \in BOOLEAN
  /\ spec.percentage => spec.column \in Made /\ spec.minimum \in Nat \ {0}
  /\ ~spec.percentage => spec.column \in COUNTING_STATS \cup {"plus_minus", "minutes"}
TotalsFit(spec) ==
  \/ spec.measure = "total" /\ spec.column \in TotalColumns \cup {"minutes"}
  \/ spec.measure = "pct" /\ spec.column \in Made /\ spec.minimum \in Nat \ {0}
SeasonFits(spec) == TotalsFit(spec) \/ (spec.measure = "average" /\ spec.column \in TotalColumns \cup {"minutes"})
CareersFit(spec) == TotalsFit(spec) \/ (spec.measure = "average" /\ spec.column \in TotalColumns)
TeamSeasonsFit(spec) ==
  /\ spec.best \in BOOLEAN
  /\ \/ spec.measure \in {"made", "pct"} /\ spec.column \in Made
     \/ spec.measure = "average" /\ spec.column \in SideColumns
     \/ spec.measure \in {"streak", "count"}
TeamGamesFit(spec) == spec.best \in BOOLEAN /\ spec.column \in SideColumns

OfOneKind ==
  {"team_franchise", "best_win_pct_all_time", "finals_appearances", "team_championships", "player_championships",
   "team_most_points_game", "team_largest_win", "career_triple_doubles"}

SpecFits(spec) ==
  \/ spec.family = "player_game" /\ PlayerGameFits(spec)
  \/ spec.family = "season" /\ SeasonFits(spec)
  \/ spec.family = "careers" /\ CareersFit(spec)
  \/ spec.family = "team_seasons" /\ TeamSeasonsFit(spec)
  \/ spec.family = "team_games" /\ TeamGamesFit(spec)
  \/ spec.family = "season_record" /\ spec.best \in BOOLEAN
  \/ spec.family \in OfOneKind

-----------------------------------------------------------------------------
(* Records: the groups of the registry *)

\* Definitions with the ids, each id one definition's.
Fit(S, ids) ==
  /\ \A r \in S : r.id \in ids /\ SpecFits(r.spec)
  /\ \A id \in ids : \E r \in S : r.id = id
  /\ \A r \in S, s \in S : r.id = s.id => r = s

IsList(s) == s \in Seq(ToSet(s))

TeamFranchiseIds ==
  {"team-championships", "team-finals-appearances", "team-playoff-appearances", "team-most-wins-all-time",
   "team-best-win-pct-all-time"}

TeamSeasonResultsIds ==
  {"team-best-season", "team-worst-season", "team-most-wins-season", "team-most-losses-season",
   "team-longest-win-streak", "team-longest-losing-streak", "team-highest-ppg-season",
   "team-lowest-opp-ppg-season", "team-best-point-diff-season"}

TeamSeasonShootingIds ==
  {"team-most-threes-season", "team-three-pct-season", "team-field-goal-pct-season",
   "team-free-throw-pct-season", "team-apg-season", "team-rpg-season", "team-spg-season", "team-bpg-season",
   "team-fewest-turnovers-season"}

TeamGameIds ==
  {"team-most-points-game", "team-fewest-points-game", "team-largest-win", "team-most-threes-game",
   "team-most-assists-game", "team-most-rebounds-game", "team-most-steals-game", "team-most-blocks-game",
   "team-highest-combined-points-game", "team-playoff-most-points-game", "team-playoff-largest-win"}

PlayerGameCountsIds ==
  {"player-points-game", "player-rebounds-game", "player-offensive-rebounds-game",
   "player-defensive-rebounds-game", "player-assists-game", "player-steals-game", "player-blocks-game"}

PlayerGameShootingIds ==
  {"player-threes-game", "player-three-pct-game", "player-field-goals-game", "player-field-goal-pct-game",
   "player-free-throws-game", "player-free-throw-pct-game", "player-minutes-game", "player-plus-minus-game"}

PlayerSeasonCountsIds ==
  {"player-points-season", "player-rebounds-season", "player-offensive-rebounds-season",
   "player-assists-season", "player-steals-season", "player-blocks-season", "player-minutes-season",
   "player-triple-doubles-season", "player-double-doubles-season"}

PlayerSeasonRatesIds ==
  {"player-threes-season", "player-three-pct-season", "player-field-goals-season",
   "player-field-goal-pct-season", "player-free-throws-season", "player-free-throw-pct-season",
   "player-ppg-season", "player-rpg-season", "player-apg-season", "player-spg-season", "player-bpg-season",
   "player-mpg-season"}

PlayerCareerCountsIds ==
  {"player-career-points", "player-career-rebounds", "player-career-assists", "player-career-steals",
   "player-career-blocks", "player-career-minutes", "player-career-games", "player-career-triple-doubles",
   "player-career-double-doubles"}

PlayerCareerRatesIds ==
  {"player-career-threes", "player-career-three-pct", "player-career-field-goals",
   "player-career-field-goal-pct", "player-career-free-throws", "player-career-free-throw-pct",
   "player-career-ppg", "player-career-rpg", "player-career-apg", "player-career-spg", "player-career-bpg"}

PlayerPlayoffsGameIds ==
  {"player-championships", "player-playoff-points-game", "player-playoff-rebounds-game",
   "player-playoff-assists-game", "player-playoff-threes-game", "player-playoff-steals-game",
   "player-playoff-blocks-game"}

PlayerPlayoffsCareerIds ==
  {"player-playoff-career-points", "player-playoff-career-rebounds", "player-playoff-career-assists",
   "player-playoff-career-threes", "player-playoff-career-steals", "player-playoff-career-blocks",
   "player-playoff-career-games"}

-----------------------------------------------------------------------------
(* Records: what is stored *)

\* Games and lines of whole numbers, an id one row's, a team in one game at a
\* time and a player once in a game.
Stored(d) ==
  /\ IsFiniteSet(d.games) /\ IsFiniteSet(d.lines)
  /\ IsFiniteSet(d.teams) /\ \A t \in d.teams : t.id \in Int
  /\ \A g \in d.games : \A c \in GameColumns : g[c] \in Int
  /\ \A g \in d.games, h \in d.games : g.id = h.id => g = h
  /\ \A g \in d.games, h \in d.games : \A t \in {g.home_team_id, g.away_team_id} :
       g.date = h.date /\ PlayedIn(h, t) => g = h
  /\ \A l \in d.lines : \A c \in LineColumns : l[c] \in Int
  /\ \A l \in d.lines : \E g \in d.games : g.id = l.game_id
  /\ \A l \in d.lines, m \in d.lines : l.id = m.id => l = m
  /\ \A l \in d.lines, m \in d.lines : l.game_id = m.game_id /\ l.player_id = m.player_id => l = m

\* A line of player_season_totals for each player, season and type.
SeasonsAre(rows) ==
  /\ IsFiniteSet(rows)
  /\ \A r \in rows : /\ r.player_id \in Int /\ r.season \in Int /\ r.seconds_played \in Int
                     /\ \A c \in TotalColumns : r[c] \in Int
  /\ \A r \in rows, s \in rows :
       r.player_id = s.player_id /\ r.season = s.season /\ r.game_type = s.game_type => r = s

\* A line of team_game_totals for each team and game, with or without its box.
SidesAre(rows) ==
  /\ IsFiniteSet(rows)
  /\ \A s \in rows : /\ s.team_id \in Int /\ s.season \in Int /\ s.date \in Int /\ s.streak \in Int
                     /\ s.score \in Int /\ s.opponent_score \in Int
                     /\ \A c \in BoxColumns : s[c] \in Int
  /\ \A r \in rows, s \in rows : r.team_id = s.team_id /\ r.date = s.date => r = s

-----------------------------------------------------------------------------
(* Records: a row of player_season_totals is the sum of its lines *)

\* The played lines of a player, season and type.
LinesOf(d, p, s, t) ==
  {l \in d.lines : l.player_id = p /\ played(l) /\ Game(d, l).season = s /\ Game(d, l).game_type = t}

SummedColumns == (COUNTING_STATS \ {"personal_fouls"}) \cup {"seconds_played"}
ColumnTotal(lines, c) == SumFunction([l \in lines |-> l[c]])
AtLeast(lines, n) == {l \in lines : InTens(l) >= n}

IsTotal(r, lines) ==
  /\ lines # {} /\ r.games = Cardinality(lines)
  /\ \E l \in lines : r.team_id = l.team_id
  /\ r.double_doubles = Cardinality(AtLeast(lines, 2)) /\ r.triple_doubles = Cardinality(AtLeast(lines, 3))
  /\ \A c \in SummedColumns : r[c] = ColumnTotal(lines, c)

\* Each row is the total of its lines, and each played line is in a row.
SeasonsAddUp(d, rows) ==
  /\ \A r \in rows : r.game_type \in LINE_GAME_TYPES /\ IsTotal(r, LinesOf(d, r.player_id, r.season, r.game_type))
  /\ \A l \in d.lines : played(l) /\ Game(d, l).game_type \in LINE_GAME_TYPES
       => \E r \in rows : /\ r.player_id = l.player_id /\ r.season = Game(d, l).season
                          /\ r.game_type = Game(d, l).game_type

-----------------------------------------------------------------------------
(* Records: what is counted in parts *)

AllOf(part, R) == UNION {part[r] : r \in R}
SumOver(count, R) == SumFunction([r \in R |-> count[r]])

-----------------------------------------------------------------------------
(* Records: a player's career *)

\* A player's rows and played lines of a type.
RowsOfType(d, p, t) == {r \in d.seasons : r.player_id = p /\ r.game_type = t}
LinesOfType(d, p, t) == {l \in d.lines : l.player_id = p /\ played(l) /\ Game(d, l).game_type = t}

-----------------------------------------------------------------------------
(* Records: a streak is a run of results *)

\* The team's completed games of the season and type, and those of them up to g
\* since which the result has been g's.
GamesOfTeam(games, g, t) ==
  {h \in games : PlayedIn(h, t) /\ completed(h) /\ h.game_type = g.game_type /\ h.season = g.season}
RunOf(games, g, t) ==
  {x \in GamesOfTeam(games, g, t) :
     /\ ~Later(x, g)
     /\ \A y \in GamesOfTeam(games, g, t) : ~Later(y, g) /\ ~Later(x, y) => team_won(y, t) = team_won(g, t)}

\* The games up to x that went otherwise than x.
Others(G, x, t) == {y \in G : ~Later(y, x) /\ team_won(y, t) # team_won(x, t)}

\* Each row is a team's side of a stored game, its streak a run of results, and
\* each side of a completed game has a row.
SidesTell(games, rows) ==
  /\ \A s \in rows : \E g \in games :
       /\ g.game_type \in LINE_GAME_TYPES /\ completed(g) /\ PlayedIn(g, s.team_id)
       /\ s.game_id = g.id /\ s.season = g.season /\ s.date = g.date /\ s.game_type = g.game_type
       /\ s.won = team_won(g, s.team_id) /\ s.streak = Cardinality(RunOf(games, g, s.team_id))
  /\ \A g \in games : g.game_type \in LINE_GAME_TYPES /\ completed(g) =>
       \A t \in {g.home_team_id, g.away_team_id} : \E s \in rows : s.team_id = t /\ s.game_id = g.id

\* The team's rows of a season and type up to one, and those of them later than another.
UpTo(rows, s) ==
  {r \in rows : /\ r.team_id = s.team_id /\ r.season = s.season /\ r.game_type = s.game_type
                /\ r.date < s.date \/ (r.date = s.date /\ r.game_id <= s.game_id)}
LaterRow(r, q) == r.date > q.date \/ (r.date = q.date /\ r.game_id > q.game_id)

\* The game of each row, and what makes the rows up to the one of g stand for
\* the team's games up to g.
GameOf(games, rows) == [r \in rows |-> CHOOSE h \in games : h.id = r.game_id]
StandFor(U, game, G, g, t) ==
  /\ \A r \in U : /\ game[r] \in G /\ ~Later(game[r], g)
                  /\ r.won = team_won(game[r], t)
  /\ \A h \in G : ~Later(h, g) => \E r \in U : game[r] = h
  /\ \A r \in U, q \in U :
       /\ LaterRow(r, q) <=> Later(game[r], game[q])
       /\ game[r] = game[q] => r = q

-----------------------------------------------------------------------------
(* Records: the leaders of a season *)

\* The played lines of a player's season and type, and their mean.
SeasonLines(d, p, s, type) == {l \in CountedLines(d, p) : Game(d, l).season = s /\ Game(d, l).game_type = type}
MeanOf(d, p, s, type, stat) ==
  <<SumOf(SeasonLines(d, p, s, type), LAMBDA l : l[stat]), Cardinality(SeasonLines(d, p, s, type))>>
Qualify(d, s, type) ==
  {p \in {q.id : q \in d.players} : /\ SeasonLines(d, p, s, type) # {}
                                    /\ Cardinality(SeasonLines(d, p, s, type)) >= qualifier(d, s, type)}

\* Who is ahead among those who qualify.
Leading(d, s, type, stat) ==
  {x \in Qualify(d, s, type) \X Qualify(d, s, type) :
     \/ More(MeanOf(d, x[1], s, type, stat), MeanOf(d, x[2], s, type, stat))
     \/ Same(MeanOf(d, x[1], s, type, stat), MeanOf(d, x[2], s, type, stat)) /\ x[1] < x[2]}

\* The leaders are the first of those who qualify.
LeaderOf(d, s, type, stat, p) ==
  [player |-> p, teams |-> {l.team_id : l \in SeasonLines(d, p, s, type)},
   games_played |-> Cardinality(SeasonLines(d, p, s, type)),
   average |-> per_game(MeanOf(d, p, s, type, stat)[1], MeanOf(d, p, s, type, stat)[2])]

-----------------------------------------------------------------------------
(* Records: a team's season *)

\* A game is between two of the teams, and a regular one has been decided.
Decisive(d) ==
  \A g \in d.games :
    /\ g.home_team_id # g.away_team_id
    /\ {g.home_team_id, g.away_team_id} \subseteq {t.id : t \in d.teams}
    /\ g.game_type = REGULAR => completed(g) /\ g.home_score # g.away_score

Won(G, t) == {g \in G : team_won(g, t)}
Lost(G, t) == {g \in G : ~team_won(g, t)}

\* The rows of team_game_totals of a team's regular season.
SeasonSide(rows, s, t) == {r \in rows : r.game_type = REGULAR /\ r.season = s /\ r.team_id = t}

-----------------------------------------------------------------------------
(* Records: the team seasons, the titles and the box scores of a side *)

\* The team seasons of a season with a champion.
ChampionSeasonGames(d) == {g \in d.games : g.game_type = REGULAR /\ completed(g) /\ g.season \in Champions(d)}
TeamSeasonKeys(d) == UNION {{<<g.season, g.home_team_id>>, <<g.season, g.away_team_id>>} : g \in ChampionSeasonGames(d)}

\* The rows of the season record, of the games, and of the counts, of the table.
BestRow(d) ==
  [k \in TeamSeasonKeys(d) |->
     LET games == RegularGames(d, k[1], k[2])
         wins == Cardinality(Won(games, k[2]))
     IN [value |-> <<wins, Cardinality(games)>>, team_id |-> k[2], season |-> k[1],
         wins |-> wins, losses |-> Cardinality(games) - wins, games |-> Cardinality(games)]]

CountRow(d, won) ==
  [k \in TeamSeasonKeys(d) |->
     [value |-> Whole(Cardinality({r \in SeasonSide(d.sides, k[1], k[2]) : r.won = won})),
      season |-> k[1], team_id |-> k[2], made |-> Null, attempted |-> Null]]

CountSpec(won) == [TeamSeason("", "count") EXCEPT !.won = won]

Titles(d, t) == {s \in {g.season : g \in d.games} : champion(d, s).champion = t}

\* The box score a row of team_game_totals sums.
SideBox(lines, s) == {l \in lines : l.game_id = s.game_id /\ l.team_id = s.team_id}

SidesBoxed(lines, rows) ==
  \A s \in rows : \A c \in BoxColumns :
    s[c] = IF SideBox(lines, s) = {} THEN Null ELSE ColumnTotal(SideBox(lines, s), c)

\* A player who did not play has zeros (models.py:134).
UnplayedAreEmpty ==
  \A e \in Dataset : \A l \in e.lines : ~played(l) => \A c \in Shots \cup {"rebounds", "assists"} : l[c] = 0

-----------------------------------------------------------------------------
(* Records: the inductive invariant *)

\* What is stored is what was loaded, the totals can be read, a player's add up
\* and a team's tell its games and sum its box scores.
RecordsInv ==
  /\ DOMAIN db = {"teams", "players", "games", "lines", "seasons", "sides"}
  /\ db.teams = Teams /\ db.players = Players
  /\ IsFiniteSet(db.games) /\ IsFiniteSet(db.lines)
  /\ \A g \in db.games : \E e \in Dataset : g = e.game
  /\ \A l \in db.lines : \E e \in Dataset : l \in e.lines /\ e.game \in db.games
  /\ SeasonsAre(db.seasons) /\ SeasonsAddUp(db, db.seasons)
  /\ SidesAre(db.sides) /\ SidesTell(db.games, db.sides) /\ SidesBoxed(db.lines, db.sides)

-----------------------------------------------------------------------------
(* Records: what the proofs take of the data set, beside its assumptions *)

\* No team plays itself: true of every game, and nothing in the code says so.
TwoTeams == \A e \in Dataset : e.game.home_team_id # e.game.away_team_id

\* What the tables let a game be and no game is: a regular season game that has
\* not been played, or that nobody won.
Decided ==
  \A e \in Dataset : e.game.game_type = REGULAR => completed(e.game) /\ e.game.home_score # e.game.away_score

-----------------------------------------------------------------------------
(* Records: what two pages show of the same rows *)

LaterIn(S) == {p \in S \X S : Later(p[1], p[2])}

\* A team's games of a season, and the games of a day.
TeamSeasonGames(d, t, s) == {g \in d.games : g.season = s /\ PlayedIn(g, t)}
DayGames(d, day) == {g \in d.games : Day(g) = day}

-----------------------------------------------------------------------------
(* Records: the standings and the ranks *)

\* Teams of whole ids, each with a name of its own.
NamedTeams(d) ==
  /\ \A t \in d.teams : t.id \in Int /\ t.name \in Int
  /\ \A t \in d.teams, u \in d.teams : t.id = u.id \/ t.name = u.name => t = u

TeamIds(d) == {t.id : t \in d.teams}

StandingIn(d, found, S) == {p \in S \X S : standing_before(d, found, p[1], p[2])}

\* The teams of a conference with a record, and of a division.
ConferenceTeams(d, found, c) == {t \in DOMAIN found : Team(d, t).conference = c}
DivisionTeams(d, found, c, v) == {t \in ConferenceTeams(d, found, c) : Team(d, t).division = v}

\* The games a team is behind the first of its conference, in halves.
Behind(d, found, c, t) ==
  LET leader == found[standing_order(d, found, ConferenceTeams(d, found, c))[1]]
  IN (leader.wins - found[t].wins) + (found[t].losses - leader.losses)

DivisionOrder(d, found, c, v) == standing_order(d, found, DivisionTeams(d, found, c, v))

DivisionsOf(d, found, c) == {Team(d, t).division : t \in ConferenceTeams(d, found, c)}

-----------------------------------------------------------------------------
(* Records: the games of the last dates *)

LastDays(d) ==
  LET days == {Day(g) : g \in {h \in d.games : completed(h)}}
  IN {e \in days : Cardinality({f \in days : f > e}) < 3}
LatestGames(d) == {g \in d.games : completed(g) /\ Day(g) \in LastDays(d)}

\* The ranks of a game's teams in its season, and the lower first.
Matched(d, g) == ranks(d, g.season)[g.home_team_id] + ranks(d, g.season)[g.away_team_id]
MatchedFirst(d, S) ==
  {p \in S \X S : \/ Matched(d, p[1]) < Matched(d, p[2])
                  \/ Matched(d, p[1]) = Matched(d, p[2]) /\ Later(p[1], p[2])}

\* Every team of a stored game is stored.
TeamsAreStored(d) == \A g \in d.games : g.home_team_id \in TeamIds(d) /\ g.away_team_id \in TeamIds(d)

-----------------------------------------------------------------------------
(* Records: a player's games and the players of a season *)

PlayerLines(d, p) == {l \in d.lines : l.player_id = p}
LaterOf(d, L) == {x \in L \X L : Later(Game(d, x[1]), Game(d, x[2]))}

\* Players of whole ids and names, an id each one's own.
NamedPlayers(d) ==
  /\ IsFiniteSet(d.players)
  /\ \A p \in d.players : p.id \in Int /\ p.last_name \in Int /\ p.first_name \in Int
  /\ \A p \in d.players, q \in d.players : p.id = q.id => p = q

PlayedFor(d, p, s) == \E l \in d.lines : l.player_id = p /\ played(l) /\ Game(d, l).season = s
SeasonPlayers(d, s) == {p \in d.players : PlayedFor(d, p.id, s)}

ByName(p, q) ==
  \/ p.last_name < q.last_name
  \/ p.last_name = q.last_name /\ p.first_name < q.first_name
  \/ p.last_name = q.last_name /\ p.first_name = q.first_name /\ p.id < q.id
ByNameIn(S) == {x \in S \X S : ByName(x[1], x[2])}

-----------------------------------------------------------------------------
(* Records: the seasons and the catalog *)

SeasonsOf(d) == {g.season : g \in d.games}

=============================================================================
