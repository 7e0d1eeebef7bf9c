------------------------------- MODULE NbaData ------------------------------
(***************************************************************************)
(* What a load reads from the dataset's four files and writes              *)
(* (app.events.nba_history): the rows it keeps, skips or refuses, the      *)
(* reading of minutes, the line scores, and the games, players and box     *)
(* scores it adds to the stored ones.                                      *)
(*                                                                         *)
(* A file is a sequence of rows; a blank is Blank; a value the code cannot  *)
(* read makes its row `bad`.  A game's id is its digits: the type, the     *)
(* year and a number.  Minutes are text, <<whole, digits after the point>>.*)
(* Every refusal rolls the whole run back, so they are one outcome.        *)
(***************************************************************************)
EXTENDS Integers, Sequences, FiniteSets, FiniteSetsExt, SequencesExt

CONSTANTS
  FIRST_SEASON_START,    \* the first season loaded (2003)
  TEAMS,                 \* the league's teams
  MINUTES_TOLERANCE,     \* how far a team's minutes may miss their total, in seconds (60)
  GameRows, TeamRows, BoxRows, PlayerRows,  \* the rows the files may have
  MaxRows                \* bound: rows of each file

Blank == -1
Figures == Nat \cup {Blank}

\* Points are counts or blank, and minutes that are written are digits.
ASSUME RowsAssumption ==
  /\ \A row \in TeamRows : /\ row.quarters \in Seq(Figures)
                           /\ {row.ot1, row.ot2, row.ot_all} \subseteq Figures
  /\ \A row \in BoxRows : row.minutes # <<>> => row.minutes[1] \in Nat \X Seq(0..9)

Refused == [error |-> TRUE]

-----------------------------------------------------------------------------
(* Values *)

\* round(n / d), a tie to even.
RoundedDiv(n, d) ==
  LET q == n \div d
      r == 2 * (n % d)
  IN IF r > d \/ (r = d /\ q % 2 = 1) THEN q + 1 ELSE q

Total(s) == MapThenSumSet(LAMBDA i : s[i], DOMAIN s)

\* The season a game id names, by the year's two digits.
season_of(id) == IF id.year >= 46 THEN 1900 + id.year ELSE 2000 + id.year

InScope(wanted, id) ==
  season_of(id) >= FIRST_SEASON_START /\ (wanted = {} \/ season_of(id) \in wanted)

-----------------------------------------------------------------------------
(* Games.csv *)

STORED_GAME_TYPES == [d \in {"2", "4", "5", "6"} |->
  CASE d = "2" -> "regular" [] d = "4" -> "playoffs" [] d = "5" -> "play-in" [] d = "6" -> "cup-final"]

\* A blank score, or 0-0: no final score.
NoScore(g) == \/ g.home_score = Blank \/ g.away_score = Blank
              \/ g.home_score = 0 /\ g.away_score = 0

Skips(g) ==
  CASE g.id.type = "1" -> "skipped_preseason"
    [] g.id.type = "3" -> "skipped_all_star"
    [] g.id.type \in DOMAIN STORED_GAME_TYPES /\ NoScore(g) -> "skipped_no_score"
    [] OTHER -> "none"

\* The rows in scope; two of one game that differ are a contradiction.
ScopedRows(file, wanted) == {file[i] : i \in {j \in DOMAIN file : InScope(wanted, file[j].id)}}

\* Faulty: the first row of a game wins, whatever a later one says.
read_games_first_row(file, wanted) ==
  LET first(i) == \A j \in 1..(i - 1) : file[j].id # file[i].id
      rows == {file[i] : i \in {j \in DOMAIN file : InScope(wanted, file[j].id) /\ first(j)}}
      kept == {g \in rows : Skips(g) = "none"}
      refuses == \/ \E i \in DOMAIN file : file[i].id.digits # 8
                 \/ \E g \in rows : g.bad
                 \/ \E g \in kept : \/ g.id.type \notin DOMAIN STORED_GAME_TYPES
                                    \/ {g.home, g.away} \ TEAMS # {}
  IN IF refuses THEN Refused ELSE [error |-> FALSE, games |-> kept]

\* _read_games: the stored games, keyed by id, or a refusal.
read_games(file, wanted) ==
  LET rows == ScopedRows(file, wanted)
      kept == {g \in rows : Skips(g) = "none"}
      refuses == \/ \E i \in DOMAIN file : file[i].id.digits # 8
                 \/ \E g \in rows : g.bad
                 \/ \E g, h \in rows : g.id = h.id /\ g # h
                 \/ \E g \in kept : \/ g.id.type \notin DOMAIN STORED_GAME_TYPES
                                    \/ {g.home, g.away} \ TEAMS # {}
  IN IF refuses THEN Refused ELSE [error |-> FALSE, games |-> kept]

Known(games, id) == \E g \in games : g.id = id
ById(games, id) == CHOOSE g \in games : g.id = id

-----------------------------------------------------------------------------
(* TeamStatistics.csv *)

OrZero(n) == IF n = Blank THEN 0 ELSE n

\* The third overtime and any later, as one figure.
Further(row) == row.ot_all - OrZero(row.ot1) - OrZero(row.ot2)

\* Quarters, the first two overtimes, then the rest of them when there is any.
line_score(row) ==
  LET present(n) == IF n = Blank THEN <<>> ELSE <<n>>
      rest == IF row.ot_all = Blank \/ Further(row) = 0 THEN <<>> ELSE <<Further(row)>>
  IN IF Blank \in ToSet(row.quarters) THEN <<>>
     ELSE row.quarters \o present(row.ot1) \o present(row.ot2) \o rest

\* What the file says of one team of a game: its last row.
TeamLine(file, id, team) ==
  LET its == {i \in DOMAIN file : file[i].game = id /\ file[i].team = team}
  IN IF its = {} THEN [line_score |-> <<>>, minutes |-> Blank]
     ELSE [line_score |-> line_score(file[Max(its)]), minutes |-> file[Max(its)].minutes]

\* _read_team_stats refuses a line of a team that did not play the game.
TeamStatsRefused(file, games) ==
  \E i \in DOMAIN file :
    /\ Known(games, file[i].game) /\ file[i].team # 0
    /\ LET g == ById(games, file[i].game)
       IN \/ file[i].team \notin {g.home, g.away}
          \/ Blank \notin ToSet(file[i].quarters) /\ file[i].ot_all # Blank /\ Further(file[i]) < 0

-----------------------------------------------------------------------------
(* PlayerStatistics.csv *)

\* The rows of stored games, the first of each (game, player).
FirstRows(file, games) ==
  {i \in DOMAIN file : /\ Known(games, file[i].game)
                       /\ \A j \in 1..(i - 1) : <<file[j].game, file[j].person>> # <<file[i].game, file[i].person>>}

SideTeam(g, row) == IF row.home = "1" THEN g.home ELSE g.away
\* A blank team is the one its home flag says.
RowTeam(g, row) == IF row.team = Blank THEN SideTeam(g, row) ELSE row.team

\* _parse_box_row
BoxRowRefused(g, row) ==
  \/ row.bad \/ row.home \notin {"0", "1"}
  \/ row.team # Blank /\ (row.team \notin TEAMS \/ row.team # SideTeam(g, row))

(* Minutes *)

\* A power of ten for the digits after the point.
Scale(text) == 10 ^ Len(text[2])
Fraction(text) == Total([i \in DOMAIN text[2] |-> text[2][i] * 10 ^ (Len(text[2]) - i)])
IsWhole(text) == Fraction(text) = 0
\* round(float(value) * 60)
AsDecimal(text) == RoundedDiv(60 * (text[1] * Scale(text) + Fraction(text)), Scale(text))

\* Faulty: "47.5" is 47:05.
ExtraUnpadded(text) == Fraction(text)

Digit(text, n) == IF n \in DOMAIN text[2] THEN text[2][n] ELSE 0

\* "27.04" is 27:04 and "47.5" is 47:50, the trailing zero dropped.
Extra(text) == 10 * Digit(text, 1) + Digit(text, 2)
ReadsAsMinutesSeconds(text) == Len(text[2]) <= 2 /\ Extra(text) <= 60
AsMinutesSeconds(text) == 60 * text[1] + Extra(text)

Apart(n, m) == IF n > m THEN n - m ELSE m - n

\* A team's minutes are hundredths of a minute.
Fits(seconds, team_minutes) == Apart(100 * seconds, 60 * team_minutes) <= 100 * MINUTES_TOLERANCE

Decimals(texts) == [i \in DOMAIN texts |-> AsDecimal(texts[i])]
MinutesSeconds(texts) == [i \in DOMAIN texts |-> AsMinutesSeconds(texts[i])]

\* _team_seconds: how a team's rows of a game are read.
team_reading(texts, team_minutes) ==
  CASE \A i \in DOMAIN texts : IsWhole(texts[i]) -> "decimal"
    [] team_minutes # Blank /\ Fits(Total(Decimals(texts)), team_minutes) -> "decimal"
    [] team_minutes # Blank /\ (\A i \in DOMAIN texts : ReadsAsMinutesSeconds(texts[i]))
         /\ Fits(Total(MinutesSeconds(texts)), team_minutes) -> "minutes.seconds"
    [] OTHER -> "unclear"

Seconds(reading, text) == IF reading = "minutes.seconds" THEN AsMinutesSeconds(text) ELSE AsDecimal(text)

\* _resolve_minutes and _box_values: a game's lines, a blank one did not play.
box_of(files, games, g) ==
  LET at == {i \in FirstRows(files.box, games) : files.box[i].game = g.id}
      row(i) == files.box[i]
      timed(t) == {i \in at : RowTeam(g, row(i)) = t /\ row(i).minutes # <<>>}
      texts(t) == [i \in timed(t) |-> row(i).minutes[1]]
      reading(t) == team_reading(texts(t), TeamLine(files.team_stats, g.id, t).minutes)
      line(i) ==
        LET t == RowTeam(g, row(i))
        IN [person |-> row(i).person, team |-> t, points |-> row(i).points,
            starter |-> row(i).position, reading |-> reading(t),
            seconds_played |-> IF row(i).minutes = <<>> THEN Blank ELSE Seconds(reading(t), row(i).minutes[1]),
            dnp_reason |-> IF row(i).minutes = <<>> THEN row(i).comment ELSE Blank]
  IN {line(i) : i \in at}

-----------------------------------------------------------------------------
(* Players.csv, and the whole of the files *)

\* A player named by a kept row and missing from the file stops the run, and
\* only the first row of a player is read.
PlayersRefused(file, persons) ==
  \E p \in persons :
    LET its == {i \in DOMAIN file : file[i].person = p}
    IN its = {} \/ file[Min(its)].bad

FieldsOf(files, g) ==
  [text |-> g.text, type |-> STORED_GAME_TYPES[g.id.type],
   home_line |-> TeamLine(files.team_stats, g.id, g.home).line_score,
   away_line |-> TeamLine(files.team_stats, g.id, g.away).line_score]

ReadGame(files, games, g) ==
  [id |-> g.id, season |-> season_of(g.id),
   result |-> [home |-> g.home, away |-> g.away, home_score |-> g.home_score, away_score |-> g.away_score],
   fields |-> FieldsOf(files, g), box |-> box_of(files, games, g)]

\* Every file is read and checked before the first write.
read_dataset(files, wanted) ==
  LET read == read_games(files.games, wanted)
      kept == {files.box[i] : i \in FirstRows(files.box, read.games)}
      refuses == \/ TeamStatsRefused(files.team_stats, read.games)
                 \/ \E r \in kept : BoxRowRefused(ById(read.games, r.game), r)
                 \/ PlayersRefused(files.players, {r.person : r \in kept})
  IN IF read.error THEN Refused
     ELSE IF refuses THEN Refused
     ELSE [error |-> FALSE, games |-> {ReadGame(files, read.games, g) : g \in read.games},
           persons |-> {r.person : r \in kept}]

-----------------------------------------------------------------------------
(* Writing *)

\* Faulty: a stored game takes whatever the dataset says.
check_nothing(current, game) == TRUE

\* A stored result is never changed silently.
check_agrees(current, game) == current.result = game.result

\* The stored game after a load that reads `game` for it.
Merged(current, game) ==
  [current EXCEPT !.fields = game.fields, !.result = game.result, !.box = IF @ = {} THEN game.box ELSE @]

\* _write_games: new games, changed fields, and a box score where there is
\* none; a game that is not read stays as it is.
write_games(stored, games) ==
  LET refuses == \E g \in games : Known(stored, g.id) /\ ~check_agrees(ById(stored, g.id), g)
  IN IF refuses THEN Refused
     ELSE [error |-> FALSE,
           games |-> {s \in stored : ~Known(games, s.id)}
                       \cup {IF Known(stored, g.id) THEN Merged(ById(stored, g.id), g) ELSE g : g \in games}]

\* Faulty: every game that is stored counts as updated.
DidWithoutComparing(stored, g) == IF ~Known(stored, g.id) THEN "loaded" ELSE "updated"

\* What the run did with each game it read.
Did(stored, g) ==
  IF ~Known(stored, g.id) THEN "loaded"
  ELSE IF Merged(ById(stored, g.id), g) = ById(stored, g.id) THEN "already_present" ELSE "updated"

\* Games whose box scores a run writes, and what it finds wrong with them.
BoxesWritten(stored, read) ==
  {g \in read : ~Known(stored, g.id) \/ (ById(stored, g.id).box = {} /\ Did(stored, g) = "updated")}

PointsMismatches(g) ==
  {m \in {[game |-> g.id, team |-> side[1], team_score |-> side[2],
           players_points |-> MapThenSumSet(LAMBDA l : l.points, {l \in g.box : l.team = side[1]})] :
            side \in {<<g.result.home, g.result.home_score>>, <<g.result.away, g.result.away_score>>}} :
     m.team_score # m.players_points}

UnclearMinutes(g) == {<<g.id, l.team>> : l \in {m \in g.box : m.reading = "unclear"}}

\* What is said of the box scores written, of the games read, and of the rows
\* of Games.csv at some places.
boxes_report(written) ==
  [box_score_rows_loaded |-> MapThenSumSet(LAMBDA g : Cardinality(g.box), written),
   missing_box_scores |-> {g.id : g \in {h \in written : h.box = {}}},
   points_mismatches |-> UNION {PointsMismatches(g) : g \in {h \in written : h.box # {}}},
   unclear_minutes |-> UNION {UnclearMinutes(g) : g \in written}]

games_report(stored, read) ==
  LET did(what) == Cardinality({g.id : g \in {h \in read : Did(stored, h) = what}})
  IN [games_loaded |-> did("loaded"), games_updated |-> did("updated"),
      games_already_present |-> did("already_present")]

rows_report(file, at) ==
  LET rows == {file[i] : i \in at}
      of(what) == {g \in rows : Skips(g) = what}
  IN [skipped_preseason |-> Cardinality(of("skipped_preseason")),
      skipped_all_star |-> Cardinality(of("skipped_all_star")),
      skipped_no_score |-> {g.id : g \in of("skipped_no_score")},
      duplicate_game_rows |-> Cardinality(at) - Cardinality({g.id : g \in rows})]

report_of(file, at, stored, read) ==
  [rows |-> rows_report(file, at), games |-> games_report(stored, read),
   boxes |-> boxes_report(BoxesWritten(stored, read))]

\* SeasonReport: what one run did with one season.
season_report(files, wanted, stored, season) ==
  report_of(files.games,
            {i \in DOMAIN files.games :
               InScope(wanted, files.games[i].id) /\ season_of(files.games[i].id) = season},
            stored, {g \in read_dataset(files, wanted).games : g.season = season})

-----------------------------------------------------------------------------
(* The dataset grows by rows and is loaded again and again *)

VARIABLES files, stored

vars == <<files, stored>>

Init ==
  /\ files = [games |-> <<>>, team_stats |-> <<>>, box |-> <<>>, players |-> <<>>]
  /\ stored = {}

AddTo(file, rows) ==
  \E row \in rows :
    /\ Len(files[file]) < MaxRows[file]
    /\ files' = [files EXCEPT ![file] = Append(@, row)]
    /\ UNCHANGED stored

\* A new version of the dataset, one row of it changed.
Publish == \/ AddTo("games", GameRows) \/ AddTo("team_stats", TeamRows)
           \/ AddTo("box", BoxRows) \/ AddTo("players", PlayerRows)

\* A new version that takes its last row of a file back.
Retract(file) ==
  /\ files[file] # <<>>
  /\ files' = [files EXCEPT ![file] = Front(@)]
  /\ UNCHANGED stored

\* load_nba_history, whole: a refusal leaves everything as it was.
Load ==
  LET read == read_dataset(files, {})
      written == write_games(stored, read.games)
  IN /\ ~read.error
     /\ ~written.error
     /\ stored' = written.games
     /\ UNCHANGED files

Next == Publish \/ Retract("games") \/ Load

Spec == Init /\ [][Next]_vars

-----------------------------------------------------------------------------
(* Properties *)

Kept == read_games(files.games, {})

\* The minutes.seconds form of a number of seconds, its trailing zero dropped.
Written(seconds) ==
  LET s == seconds % 60
  IN <<seconds \div 60, IF s = 0 THEN <<0>> ELSE IF s % 10 = 0 THEN <<s \div 10>> ELSE <<s \div 10, s % 10>>>>

WrittenAs(text) == {s \in (60 * text[1])..(60 * text[1] + 59) : Written(s) = text}

\* Rows of a team that were written as minutes.seconds of numbers of seconds
\* that add up to its minutes, and whose decimals do not, are stored as those
\* seconds (nba_history.py "Minutes are stored as seconds"): one wrong row, or
\* a reading taken row by row, moves the whole team's minutes.
MinutesAreRecovered ==
  read_dataset(files, {}).error \/ \A g \in Kept.games : \A t \in {g.home, g.away} :
    LET at == {i \in FirstRows(files.box, Kept.games) :
                 /\ files.box[i].game = g.id /\ files.box[i].minutes # <<>>
                 /\ RowTeam(g, files.box[i]) = t}
        text(i) == files.box[i].minutes[1]
        true == [i \in at |-> CHOOSE s \in WrittenAs(text(i)) : TRUE]
        minutes == TeamLine(files.team_stats, g.id, t).minutes
    IN (/\ at # {} /\ minutes # Blank
        /\ \A i \in at : WrittenAs(text(i)) # {}
        /\ Fits(Total(true), minutes)
        /\ ~Fits(Total(Decimals([i \in at |-> text(i)])), minutes)
        /\ \E i \in at : ~IsWhole(text(i)))
       => \A i \in at : \E l \in box_of(files, Kept.games, g) :
            l.person = files.box[i].person /\ l.seconds_played = true[i]

\* A line score adds up to the quarters and all the overtimes, however many of
\* them the source tells apart, and has no period of a negative score.
LineScoreAddsUp ==
  (Kept.error \/ TeamStatsRefused(files.team_stats, Kept.games)) \/
  \A i \in {j \in DOMAIN files.team_stats : /\ files.team_stats[j].team # 0
                                             /\ Known(Kept.games, files.team_stats[j].game)} :
    LET row == files.team_stats[i]
        score == line_score(row)
        overtime == IF row.ot_all # Blank THEN row.ot_all ELSE OrZero(row.ot1) + OrZero(row.ot2)
    IN score # <<>> => /\ Total(score) = Total(row.quarters) + overtime
                       /\ \A k \in DOMAIN score : score[k] >= 0

\* What the columns of the dataset only imply is recovered: the seconds played,
\* and the points of every period of the game.
ColumnsAreRecovered == MinutesAreRecovered /\ LineScoreAddsUp

\* The order of the rows of Games.csv decides nothing: not what is stored, and
\* not whether the file is refused.
GamesInAnyOrder == read_games(Reverse(files.games), {}) = Kept

\* Every row of the file is in one figure of its season's report, and a second
\* run over the same files finds every game already there.
ReportAccountsForEveryRow ==
  LET read == read_dataset(files, {})
      written == write_games(stored, read.games)
      seasons == {season_of(g.id) : g \in ScopedRows(files.games, {})}
  IN read.error \/ written.error \/
     /\ \A s \in seasons :
          LET r == season_report(files, {}, stored, s)
              its == {i \in DOMAIN files.games : season_of(files.games[i].id) = s}
          IN r.games.games_loaded + r.games.games_updated + r.games.games_already_present
               + r.rows.skipped_preseason + r.rows.skipped_all_star + Cardinality(r.rows.skipped_no_score)
               + r.rows.duplicate_game_rows = Cardinality(its)
     /\ \A g \in read.games : Did(written.games, g) = "already_present"

\* Whatever the next dataset says, a load never takes a stored game away,
\* changes its teams or score, or replaces a box score it has.
StoredResultsStay ==
  [][\A s \in stored : \E n \in stored' :
       n.id = s.id /\ n.result = s.result /\ (s.box # {} => n.box = s.box)]_vars
=============================================================================
