------------------------------ MODULE Seasons -------------------------------
(***************************************************************************)
(* What app.events.service answers about a season: records and standings,  *)
(* the champion, the leaders, a team's games, and the previews and checks  *)
(* of the sports data a post links.                                        *)
(***************************************************************************)
EXTENDS Stats

REGULAR == "regular"
FINALS_LABEL == "NBA Finals"

season_has_games(db, season) == \E g \in db.games : g.season = season

(* Records and standings *)

RegularGames(db, season, team) ==
  {g \in db.games : g.season = season /\ g.game_type = REGULAR /\ PlayedIn(g, team)}

\* _records: the record of every team with a regular game, with its splits.
\* A game that is not won is lost, whatever the score.
records(db, season) ==
  LET row(t) ==
        LET games == RegularGames(db, season, t)
            count(home, won) ==
              Cardinality({g \in games : (g.home_team_id = t) \in home /\ team_won(g, t) = won})
        IN [wins |-> count(BOOLEAN, TRUE), losses |-> count(BOOLEAN, FALSE),
            home_wins |-> count({TRUE}, TRUE), home_losses |-> count({TRUE}, FALSE),
            away_wins |-> count({FALSE}, TRUE), away_losses |-> count({FALSE}, FALSE)]
  IN [t \in {u \in {v.id : v \in db.teams} : RegularGames(db, season, u) # {}} |-> row(t)]

NO_RECORD == [wins |-> 0, losses |-> 0, home_wins |-> 0, home_losses |-> 0, away_wins |-> 0, away_losses |-> 0]

Team(db, id) == CHOOSE t \in db.teams : t.id = id

\* By the exact share of games won, then wins, then name.
standing_before(db, found, t, u) ==
  LET share(v) == <<found[v].wins, found[v].wins + found[v].losses>>
  IN Decides(<<<<More(share(t), share(u)), Same(share(t), share(u))>>,
               <<found[t].wins > found[u].wins, found[t].wins = found[u].wins>>,
               <<Team(db, t).name < Team(db, u).name, FALSE>>>>)

standing_order(db, found, teams) == Ranked(teams, LAMBDA t, u : standing_before(db, found, t, u))

\* By conference and then division, with the games behind the conference's
\* first team, in halves.
standings(db, season) ==
  LET found == records(db, season)
      entries(c) == {t \in DOMAIN found : Team(db, t).conference = c}
      behind(c, t) ==
        LET leader == found[standing_order(db, found, entries(c))[1]]
        IN (leader.wins - found[t].wins) + (found[t].losses - leader.losses)
  IN [c \in {Team(db, t).conference : t \in DOMAIN found} |->
        [d \in {Team(db, t).division : t \in entries(c)} |->
           LET its == standing_order(db, found, {t \in entries(c) : Team(db, t).division = d})
           IN [i \in DOMAIN its |->
                 [team |-> its[i], games_behind |-> behind(c, its[i]),
                  win_pct |-> pct(found[its[i]].wins, found[its[i]].wins + found[its[i]].losses)]]]]

(* The games of the last three dates, the best matched first *)

Day(g) == g.date \div HoursADay

\* A team without a regular game ranks after those with one, by name.
ranks(db, season) ==
  LET found == records(db, season)
      rest == {t.id : t \in db.teams} \ DOMAIN found
      order == standing_order(db, found, DOMAIN found) \o Ranked(rest, LAMBDA t, u : Team(db, t).name < Team(db, u).name)
  IN [t \in {u.id : u \in db.teams} |-> CHOOSE i \in DOMAIN order : order[i] = t]

recent_games(db, limit) ==
  LET days == {Day(g) : g \in {h \in db.games : completed(h)}}
      last == {d \in days : Cardinality({e \in days : e > d}) < 3}
      candidates == {g \in db.games : completed(g) /\ Day(g) \in last}
      rank == [s \in {g.season : g \in candidates} |-> ranks(db, s)]
      matched(g) == rank[g.season][g.home_team_id] + rank[g.season][g.away_team_id]
      before(g, h) == Decides(<<<<matched(g) < matched(h), matched(g) = matched(h)>>, <<Later(g, h), FALSE>>>>)
      record(g, t) == IF t \in DOMAIN records(db, g.season) THEN records(db, g.season)[t] ELSE NO_RECORD
      shown(g) == [id |-> g.id, home_rank |-> rank[g.season][g.home_team_id],
                   away_rank |-> rank[g.season][g.away_team_id],
                   home_record |-> record(g, g.home_team_id), away_record |-> record(g, g.away_team_id)]
      all == Ranked(candidates, before)
  IN [i \in DOMAIN Paged(all, limit, 0) |-> shown(all[i])]

(* The champion *)

finals(db, season) ==
  {g \in db.games : g.season = season /\ g.game_type = "playoffs" /\ g.label = FINALS_LABEL}

finals_wins(db, season, t) == Cardinality({g \in finals(db, season) : team_won(g, t)})

\* The season's Finals teams by their Finals wins, then by id.
finals_order(db, season) ==
  LET teams == UNION {{g.home_team_id, g.away_team_id} : g \in finals(db, season)}
      wins(t) == finals_wins(db, season, t)
  IN Ranked(teams, LAMBDA t, u : wins(t) > wins(u) \/ (wins(t) = wins(u) /\ t < u))

\* <<season, team>> for each season with a champion: one statement for all.
season_champions(db) ==
  {k \in {g.season : g \in db.games} \X {t.id : t \in db.teams} :
     LET first == finals_order(db, k[1])
     IN first # <<>> /\ first[1] = k[2] /\ finals_wins(db, k[1], k[2]) >= FINALS_WINS}

champion(db, season) ==
  LET order == finals_order(db, season)
      wins(t) == finals_wins(db, season, t)
  IN IF order = <<>> \/ wins(order[1]) < FINALS_WINS
     THEN [champion |-> Null, runner_up |-> Null, won |-> 0, lost |-> 0]
     ELSE [champion |-> order[1], runner_up |-> IF Len(order) > 1 THEN order[2] ELSE Null,
           won |-> wins(order[1]), lost |-> IF Len(order) > 1 THEN wins(order[2]) ELSE 0]

(* The leaders *)

\* The games a leader must have played: none in the playoffs, then a fixed
\* number from a season on, and before it a share of the most any team played.
qualifier(db, season, game_type) ==
  IF game_type # REGULAR THEN 0
  ELSE IF season >= GAMES_RULE_FROM THEN GAMES_RULE_MINIMUM
  ELSE LET most == Max({0} \cup {Cardinality(RegularGames(db, season, t.id)) : t \in db.teams})
       IN (most * TEAM_GAMES_PERCENT + 99) \div 100

\* By the exact average of a stat over played lines, then by player.
leaders(db, season, stat, game_type, limit) ==
  LET lines(p) == {l \in db.lines : /\ l.player_id = p /\ played(l)
                                    /\ Game(db, l).season = season /\ Game(db, l).game_type = game_type}
      games(p) == Cardinality(lines(p))
      total(p) == SumOf(lines(p), LAMBDA l : l[stat])
      found == {p \in {q.id : q \in db.players} : lines(p) # {} /\ games(p) >= qualifier(db, season, game_type)}
      before(p, q) == Decides(<<<<More(<<total(p), games(p)>>, <<total(q), games(q)>>),
                                  Same(<<total(p), games(p)>>, <<total(q), games(q)>>)>>, <<p < q, FALSE>>>>)
      top == Paged(Ranked(found, before), limit, 0)
  IN [i \in DOMAIN top |-> [player |-> top[i], teams |-> {l.team_id : l \in lines(top[i])},
                            games_played |-> games(top[i]),
                            average |-> per_game(total(top[i]), games(top[i]))]]

\* A team's record and its games of every type, newest first.
team_season(db, team, season) ==
  LET games == Ranked({g \in db.games : g.season = season /\ PlayedIn(g, team)}, Later)
      found == records(db, season)
  IN [record |-> IF team \in DOMAIN found THEN found[team] ELSE NO_RECORD,
      games |-> [i \in DOMAIN games |->
                   [game_id |-> games[i].id, opponent |-> Opponent(games[i], team),
                    is_home |-> games[i].home_team_id = team, team_score |-> Score(games[i], team),
                    opponent_score |-> Score(games[i], Opponent(games[i], team)),
                    won |-> team_won(games[i], team)]]]

-----------------------------------------------------------------------------
(* What a post may link, and what it is shown as *)

validate_game_final(db, id) ==
  LET found == {g \in db.games : g.id = id}
  IN IF found = {} THEN "LinkTargetNotFoundError"
     ELSE IF \A g \in found : completed(g) THEN "ok" ELSE "GameNotCompletedError"

validate_player_game(db, id) ==
  LET found == {l \in db.lines : l.id = id}
  IN IF found = {} THEN "LinkTargetNotFoundError"
     ELSE IF \A l \in found : played(l) THEN "ok" ELSE "PlayerDidNotPlayError"

validate_player_career(db, player, scope) ==
  IF scope \notin LINE_GAME_TYPES THEN "ValueError"
  ELSE IF player \notin {p.id : p \in db.players} THEN "LinkTargetNotFoundError"
  ELSE IF \E l \in db.lines : l.player_id = player /\ played(l) /\ Game(db, l).game_type = scope
       THEN "ok" ELSE "NoGamesInScopeError"

\* Each asked id that has a row; the rest are left out.
game_final_previews(db, ids) ==
  [i \in ids \cap {g.id : g \in db.games} |->
     LET g == CHOOSE h \in db.games : h.id = i
     IN [home |-> g.home_team_id, away |-> g.away_team_id,
         home_score |-> g.home_score, away_score |-> g.away_score]]

\* One line from the player's side, a line that was not played as stored.
player_game_previews(db, ids) ==
  [i \in ids \cap {l.id : l \in db.lines} |->
     LET l == CHOOSE m \in db.lines : m.id = i
         g == Game(db, l)
     IN [game |-> g.id, team |-> l.team_id, opponent |-> Opponent(g, l.team_id),
         is_home |-> g.home_team_id = l.team_id, team_score |-> Score(g, l.team_id),
         opponent_score |-> Score(g, Opponent(g, l.team_id)), seconds_played |-> l.seconds_played,
         points |-> l.points]]

\* The career line of each asked <<player, scope>>, all in one GROUP BY.
player_career_previews(db, keys) ==
  LET wanted == {k \in keys : k[2] \in LINE_GAME_TYPES /\ k[1] \in {p.id : p \in db.players}}
      lines(k) == {l \in db.lines : l.player_id = k[1] /\ played(l) /\ Game(db, l).game_type = k[2]}
  IN [k \in wanted |-> stat_line(lines(k))]
=============================================================================
