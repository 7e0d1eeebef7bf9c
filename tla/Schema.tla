------------------------------- MODULE Schema --------------------------------
(***************************************************************************)
(* The database schema as the migrations make it and as the models declare *)
(* it, and the runs of alembic that take one to the other: the Migration   *)
(* Lambda, which holds an advisory lock, and anybody's shell, which does   *)
(* not.                                                                    *)
(*                                                                         *)
(* A schema is a set of paths.  <<"posts">> is the table with the columns  *)
(* it always had; a column, key, check or index that comes or goes by      *)
(* itself has a path below what it falls with; <<t, c, "fk", u>> is a      *)
(* foreign key of t to u.                                                  *)
(***************************************************************************)
EXTENDS Naturals, FiniteSets, SequencesExt

CONSTANTS
  Lambdas, Shells,  \* who runs alembic, with the lock and without
  NoOne,            \* nobody, as the lock's holder
  MaxKinds          \* bound: kinds of row at once

(* Statements *)

Error == {<<"error">>}

Add(paths) == [add |-> paths, drop |-> {}]
DropAll(paths) == [add |-> {}, drop |-> paths]
Drop(path) == DropAll({path})

\* What falls with a path.
Below(schema, path) == {p \in schema : IsPrefix(path, p)}

Refers(p, table) == Len(p) = 4 /\ p[4] = table /\ p[1] # table

\* PostgreSQL refuses to create what exists, to hang a thing on a table that
\* does not, and to drop a thing that is not there or a table others refer to.
Execute(schema, statement) ==
  LET dropped == UNION {Below(schema, p) : p \in statement.drop}
      left == (schema \ dropped) \cup statement.add
  IN IF \/ schema = Error
        \/ statement.add \cap schema # {}
        \/ ~(statement.drop \subseteq schema)
        \/ \E p \in statement.add : <<p[1]>> \notin left \/ (Len(p) = 4 /\ <<p[4]>> \notin left)
        \/ \E p \in statement.drop : Len(p) = 1 /\ \E q \in schema \ dropped : Refers(q, p[1])
     THEN Error ELSE left

Execution(schema, statements) == FoldLeft(Execute, schema, statements)

-----------------------------------------------------------------------------
(* The revisions, first to last: upgrade() and downgrade() *)

\* A source's id: a unique column that may not be null.
SourceId(t, c) == {<<t, c>>, <<t, c, "unique">>, <<t, c, "not null">>}

add_teams_and_games_tables ==
  <<Add(SourceId("teams", "api_sports_team_id") \cup {<<"teams">>}),
    Add(SourceId("games", "api_sports_game_id") \cup {<<"games">>, <<"games", "player_stats">>,
         <<"games", "away_team_id", "fk", "teams">>, <<"games", "home_team_id", "fk", "teams">>})>>
drop_teams_and_games_tables == <<Drop(<<"games">>), Drop(<<"teams">>)>>

add_users_and_follows_tables ==
  <<Add({<<"users">>, <<"users", "preferred_team_id", "fk", "teams">>}),
    Add({<<"follows">>, <<"follows", "followed_user_id", "fk", "users">>,
         <<"follows", "follower_user_id", "fk", "users">>})>>
drop_users_and_follows_tables == <<Drop(<<"follows">>), Drop(<<"users">>)>>

\* The enumeration of a column is a type of its own and outlives its table.
add_media_table ==
  <<Add({<<"media_status">>}), Add({<<"media">>, <<"media", "uploader_id", "fk", "users">>})>>
\* Faulty: what autogenerate emits.
drop_media_table_only == <<Drop(<<"media">>)>>
drop_media_table == <<Drop(<<"media">>), Drop(<<"media_status">>)>>

add_posts_tables ==
  <<Add({<<"posts">>, <<"posts", "author_id", "not null">>, <<"posts", "author_id", "fk", "users">>,
         <<"posts", "original_post_id", "fk", "posts">>, <<"posts", "parent_post_id", "fk", "posts">>}),
    Add({<<"posts", "ix_posts_original_post_id">>}), Add({<<"posts", "ix_posts_parent_post_id">>}),
    Add({<<"event_mentions">>, <<"event_mentions", "game_id", "fk", "games">>,
         <<"event_mentions", "post_id", "fk", "posts">>}),
    Add({<<"post_likes">>, <<"post_likes", "post_id", "fk", "posts">>,
         <<"post_likes", "user_id", "fk", "users">>}),
    Add({<<"reports">>, <<"reports", "post_id", "fk", "posts">>,
         <<"reports", "reporter_id", "fk", "users">>})>>
drop_posts_tables ==
  <<Drop(<<"reports">>), Drop(<<"post_likes">>), Drop(<<"event_mentions">>),
    Drop(<<"posts", "ix_posts_parent_post_id">>), Drop(<<"posts", "ix_posts_original_post_id">>),
    Drop(<<"posts">>)>>

add_deferred_fk_constraints ==
  <<Add({<<"media", "post_id", "fk", "posts">>}),
    Add({<<"users", "profile_picture_media_id", "fk", "media">>})>>
drop_deferred_fk_constraints ==
  <<Drop(<<"users", "profile_picture_media_id", "fk", "media">>),
    Drop(<<"media", "post_id", "fk", "posts">>)>>

add_notifications_tables ==
  <<Add({<<"notification_type">>}),
    Add({<<"notifications">>, <<"notifications", "actor_user_id", "fk", "users">>,
         <<"notifications", "recipient_user_id", "fk", "users">>}),
    Add({<<"notifications", "ix_notifications_recipient_user_id">>}),
    Add({<<"notification_preferences">>, <<"notification_preferences", "user_id", "fk", "users">>})>>
drop_notifications_tables ==
  <<Drop(<<"notification_preferences">>),
    Drop(<<"notifications", "ix_notifications_recipient_user_id">>), Drop(<<"notifications">>),
    Drop(<<"notification_type">>)>>

add_search_vector_columns ==
  <<Add({<<"users", "search_vector">>}), Add({<<"users", "search_vector", "gin">>}),
    Add({<<"posts", "search_vector">>}), Add({<<"posts", "search_vector", "gin">>}),
    Add({<<"games", "player_stats", "gin">>})>>
drop_search_vector_columns ==
  <<Drop(<<"games", "player_stats", "gin">>),
    Drop(<<"posts", "search_vector", "gin">>), Drop(<<"posts", "search_vector">>),
    Drop(<<"users", "search_vector", "gin">>), Drop(<<"users", "search_vector">>)>>

add_nba_ids_and_game_type ==
  <<Add({<<"teams", "nba_team_id">>}), Add({<<"teams", "nba_team_id", "unique">>}),
    Drop(<<"teams", "api_sports_team_id", "not null">>), Add({<<"teams", "ck_teams_has_source_id">>}),
    Add({<<"games", "nba_game_id">>}), Add({<<"games", "nba_game_id", "unique">>}),
    Drop(<<"games", "api_sports_game_id", "not null">>), Add({<<"games", "ck_games_has_source_id">>}),
    Add({<<"games", "game_type">>})>>
drop_nba_ids_and_game_type ==
  <<Drop(<<"games", "game_type">>), Drop(<<"games", "ck_games_has_source_id">>),
    Add({<<"games", "api_sports_game_id", "not null">>}),
    Drop(<<"games", "nba_game_id", "unique">>), Drop(<<"games", "nba_game_id">>),
    Drop(<<"teams", "ck_teams_has_source_id">>),
    Add({<<"teams", "api_sports_team_id", "not null">>}),
    Drop(<<"teams", "nba_team_id", "unique">>), Drop(<<"teams", "nba_team_id">>)>>

drop_api_sports_ids ==
  <<Add({<<"teams", "nba_team_id", "not null">>}), Drop(<<"teams", "ck_teams_has_source_id">>),
    Drop(<<"teams", "api_sports_team_id">>),
    Add({<<"games", "nba_game_id", "not null">>}), Drop(<<"games", "ck_games_has_source_id">>),
    Drop(<<"games", "api_sports_game_id">>)>>
restore_api_sports_ids ==
  <<Add({<<"games", "api_sports_game_id">>, <<"games", "api_sports_game_id", "unique">>}),
    Add({<<"games", "ck_games_has_source_id">>}),
    Drop(<<"games", "nba_game_id", "not null">>),
    Add({<<"teams", "api_sports_team_id">>, <<"teams", "api_sports_team_id", "unique">>}),
    Add({<<"teams", "ck_teams_has_source_id">>}), Drop(<<"teams", "nba_team_id", "not null">>)>>

add_players_and_box_scores ==
  <<Add({<<"players">>}),
    Add({<<"player_game_stats">>, <<"player_game_stats", "game_id", "fk", "games">>,
         <<"player_game_stats", "player_id", "fk", "players">>,
         <<"player_game_stats", "team_id", "fk", "teams">>}),
    Add({<<"player_game_stats", "ix_player_game_stats_player_id">>}),
    Add({<<"games", "label">>}), Add({<<"games", "sub_label">>}),
    Add({<<"games", "series_game_number">>}),
    Add({<<"games", "home_line_score">>}), Add({<<"games", "away_line_score">>}),
    Drop(<<"games", "player_stats", "gin">>), Drop(<<"games", "player_stats">>)>>
drop_players_and_box_scores ==
  <<Add({<<"games", "player_stats">>}), Add({<<"games", "player_stats", "gin">>}),
    Drop(<<"games", "away_line_score">>), Drop(<<"games", "home_line_score">>),
    Drop(<<"games", "series_game_number">>), Drop(<<"games", "sub_label">>),
    Drop(<<"games", "label">>),
    Drop(<<"player_game_stats", "ix_player_game_stats_player_id">>),
    Drop(<<"player_game_stats">>), Drop(<<"players">>)>>

add_unaccent_extension == <<Add({<<"unaccent">>})>>
drop_unaccent_extension == <<Drop(<<"unaccent">>)>>

add_posts_author_created_at_index == <<Add({<<"posts", "ix_posts_author_id_created_at">>})>>
drop_posts_author_created_at_index == <<Drop(<<"posts", "ix_posts_author_id_created_at">>)>>

add_posts_deleted_at == <<Add({<<"posts", "deleted_at">>})>>
drop_posts_deleted_at == <<Drop(<<"posts", "deleted_at">>)>>

DataLinkChecks ==
  {<<"posts", "ck_posts_one_data_link">>, <<"posts", "ck_posts_no_data_link_on_reply">>,
   <<"posts", "ck_posts_player_scope_pairing">>, <<"posts", "ck_posts_player_scope_values">>}

add_posts_data_link_columns ==
  <<Add({<<"posts", "linked_game_id">>, <<"posts", "linked_game_id", "fk", "games">>}),
    Add({<<"posts", "linked_player_game_stats_id">>,
         <<"posts", "linked_player_game_stats_id", "fk", "player_game_stats">>}),
    Add({<<"posts", "linked_player_id">>, <<"posts", "linked_player_id", "fk", "players">>}),
    Add({<<"posts", "linked_player_scope">>}), Add(DataLinkChecks)>>
drop_posts_data_link_columns ==
  <<DropAll(DataLinkChecks)>>
    \o <<Drop(<<"posts", "linked_player_scope">>), Drop(<<"posts", "linked_player_id">>),
         Drop(<<"posts", "linked_player_game_stats_id">>), Drop(<<"posts", "linked_game_id">>)>>

add_posts_linked_line_game_id ==
  <<Add({<<"posts", "linked_line_game_id">>, <<"posts", "linked_line_game_id", "fk", "games">>}),
    Add({<<"posts", "ck_posts_line_game_pairing">>}),
    Add({<<"posts", "linked_game_id", "ix">>, <<"posts", "linked_line_game_id", "ix">>})>>
drop_posts_linked_line_game_id ==
  <<Drop(<<"posts", "linked_game_id", "ix">>), Drop(<<"posts", "linked_line_game_id", "ix">>),
    Drop(<<"posts", "ck_posts_line_game_pairing">>), Drop(<<"posts", "linked_line_game_id">>)>>

\* The single-game lists' partial indexes, by statistic.
PlayedIndexes(stats) == {<<"player_game_stats", "played", s>> : s \in stats}

add_records_indexes ==
  <<Add(PlayedIndexes({"points", "rebounds", "assists", "three_pointers_made"})),
    Add({<<"player_game_stats", "ix_player_game_stats_triple_doubles">>}),
    Add({<<"games", "ix_games_margin">>}), Add({<<"games", "ix_games_nba_finals">>}),
    Add({<<"games", "ix_games_season">>})>>
drop_records_indexes ==
  <<Drop(<<"games", "ix_games_season">>), Drop(<<"games", "ix_games_nba_finals">>),
    Drop(<<"games", "ix_games_margin">>),
    Drop(<<"player_game_stats", "ix_player_game_stats_triple_doubles">>)>>
    \o <<DropAll(PlayedIndexes({"points", "rebounds", "assists", "three_pointers_made"}))>>

add_profile_avatar_key == <<Add({<<"users", "profile_avatar_key">>})>>
drop_profile_avatar_key == <<Drop(<<"users", "profile_avatar_key">>)>>

add_history_indexes ==
  <<Add({<<"posts", "ix_posts_author_id_id">>}), Add({<<"post_likes", "ix_post_likes_user_created_post">>})>>
drop_history_indexes ==
  <<Drop(<<"post_likes", "ix_post_likes_user_created_post">>), Drop(<<"posts", "ix_posts_author_id_id">>)>>

MeasuredSlow ==
  {"plus_minus", "free_throws_made", "blocks", "defensive_rebounds", "steals",
   "offensive_rebounds", "field_goals_made", "minutes"}

add_record_totals ==
  <<Add({<<"player_season_totals">>}), Add({<<"team_game_totals">>}), Add(PlayedIndexes(MeasuredSlow))>>
drop_record_totals ==
  <<DropAll(PlayedIndexes(MeasuredSlow))>>
    \o <<Drop(<<"team_game_totals">>), Drop(<<"player_season_totals">>)>>

add_post_likes_post_id_index == <<Add({<<"post_likes", "ix_post_likes_post_id">>})>>
drop_post_likes_post_id_index == <<Drop(<<"post_likes", "ix_post_likes_post_id">>)>>

recent_completed_dates == <<Add({<<"games", "ix_games_completed_date">>})>>
drop_recent_completed_dates == <<Drop(<<"games", "ix_games_completed_date">>)>>

anonymous_account_tombstones ==
  <<Drop(<<"posts", "author_id", "not null">>), Add({<<"posts", "ck_posts_anonymous_requires_deleted">>})>>
drop_anonymous_account_tombstones ==
  <<Drop(<<"posts", "ck_posts_anonymous_requires_deleted">>), Add({<<"posts", "author_id", "not null">>})>>

Upgrades ==
  <<add_teams_and_games_tables, add_users_and_follows_tables, add_media_table, add_posts_tables,
    add_deferred_fk_constraints, add_notifications_tables, add_search_vector_columns,
    add_nba_ids_and_game_type, drop_api_sports_ids, add_players_and_box_scores,
    add_unaccent_extension, add_posts_author_created_at_index, add_posts_deleted_at,
    add_posts_data_link_columns, add_posts_linked_line_game_id, add_records_indexes,
    add_profile_avatar_key, add_history_indexes, add_record_totals,
    add_post_likes_post_id_index, recent_completed_dates, anonymous_account_tombstones>>

Downgrades ==
  <<drop_teams_and_games_tables, drop_users_and_follows_tables, drop_media_table,
    drop_posts_tables, drop_deferred_fk_constraints, drop_notifications_tables,
    drop_search_vector_columns, drop_nba_ids_and_game_type, restore_api_sports_ids,
    drop_players_and_box_scores, drop_unaccent_extension, drop_posts_author_created_at_index,
    drop_posts_deleted_at, drop_posts_data_link_columns, drop_posts_linked_line_game_id,
    drop_records_indexes, drop_profile_avatar_key, drop_history_indexes, drop_record_totals,
    drop_post_likes_post_id_index, drop_recent_completed_dates, drop_anonymous_account_tombstones>>

Newest == Len(Upgrades)

\* The revision that drops the old source's ids.
SourceIdsDropped == 9

\* What the upgrades make of an empty database, one after the other.
Schemas == FoldLeft(LAMBDA made, upgrade : Append(made, Execution(Last(made), upgrade)), <<{}>>, Upgrades)
SchemaAt(r) == Schemas[r + 1]

-----------------------------------------------------------------------------
(* What the models declare *)

Team == SourceId("teams", "nba_team_id") \cup {<<"teams">>}

Game ==
  SourceId("games", "nba_game_id") \cup
  {<<"games">>, <<"games", "home_team_id", "fk", "teams">>, <<"games", "away_team_id", "fk", "teams">>,
   <<"games", "game_type">>, <<"games", "label">>, <<"games", "sub_label">>,
   <<"games", "series_game_number">>, <<"games", "home_line_score">>, <<"games", "away_line_score">>}

Player == {<<"players">>}

PlayerGameStats ==
  {<<"player_game_stats">>, <<"player_game_stats", "game_id", "fk", "games">>,
   <<"player_game_stats", "player_id", "fk", "players">>,
   <<"player_game_stats", "team_id", "fk", "teams">>,
   <<"player_game_stats", "ix_player_game_stats_player_id">>}

EventIndexes ==
  PlayedIndexes({"points", "rebounds", "assists", "three_pointers_made"}) \cup
  PlayedIndexes({"plus_minus", "free_throws_made", "blocks", "defensive_rebounds", "steals",
                 "offensive_rebounds", "field_goals_made"}) \cup PlayedIndexes({"minutes"}) \cup
  {<<"player_game_stats", "ix_player_game_stats_triple_doubles">>, <<"games", "ix_games_margin">>,
   <<"games", "ix_games_nba_finals">>, <<"games", "ix_games_season">>,
   <<"games", "ix_games_completed_date">>}

PlayerSeasonTotals == {<<"player_season_totals">>}
TeamGameTotals == {<<"team_game_totals">>}

User ==
  {<<"users">>, <<"users", "preferred_team_id", "fk", "teams">>,
   <<"users", "profile_picture_media_id", "fk", "media">>, <<"users", "profile_avatar_key">>,
   <<"users", "search_vector">>, <<"users", "search_vector", "gin">>}

Follow ==
  {<<"follows">>, <<"follows", "follower_user_id", "fk", "users">>,
   <<"follows", "followed_user_id", "fk", "users">>}

Post ==
  {<<"posts">>, <<"posts", "author_id", "fk", "users">>, <<"posts", "parent_post_id", "fk", "posts">>,
   <<"posts", "original_post_id", "fk", "posts">>, <<"posts", "deleted_at">>,
   <<"posts", "linked_game_id">>, <<"posts", "linked_game_id", "fk", "games">>,
   <<"posts", "linked_player_game_stats_id">>,
   <<"posts", "linked_player_game_stats_id", "fk", "player_game_stats">>,
   <<"posts", "linked_player_id">>, <<"posts", "linked_player_id", "fk", "players">>,
   <<"posts", "linked_player_scope">>, <<"posts", "linked_line_game_id">>,
   <<"posts", "linked_line_game_id", "fk", "games">>, <<"posts", "search_vector">>} \cup
  {<<"posts", "ck_posts_anonymous_requires_deleted">>, <<"posts", "ck_posts_line_game_pairing">>} \cup
  DataLinkChecks \cup
  {<<"posts", "ix_posts_parent_post_id">>, <<"posts", "ix_posts_original_post_id">>,
   <<"posts", "search_vector", "gin">>, <<"posts", "ix_posts_author_id_created_at">>,
   <<"posts", "ix_posts_author_id_id">>, <<"posts", "linked_game_id", "ix">>,
   <<"posts", "linked_line_game_id", "ix">>}

PostLike ==
  {<<"post_likes">>, <<"post_likes", "user_id", "fk", "users">>, <<"post_likes", "post_id", "fk", "posts">>,
   <<"post_likes", "ix_post_likes_user_created_post">>, <<"post_likes", "ix_post_likes_post_id">>}

EventMention ==
  {<<"event_mentions">>, <<"event_mentions", "post_id", "fk", "posts">>,
   <<"event_mentions", "game_id", "fk", "games">>}

Report ==
  {<<"reports">>, <<"reports", "post_id", "fk", "posts">>, <<"reports", "reporter_id", "fk", "users">>}

Media ==
  {<<"media">>, <<"media_status">>, <<"media", "uploader_id", "fk", "users">>,
   <<"media", "post_id", "fk", "posts">>}

Notification ==
  {<<"notifications">>, <<"notification_type">>, <<"notifications", "recipient_user_id", "fk", "users">>,
   <<"notifications", "ix_notifications_recipient_user_id">>,
   <<"notifications", "actor_user_id", "fk", "users">>}

NotificationPreference ==
  {<<"notification_preferences">>, <<"notification_preferences", "user_id", "fk", "users">>}

\* The extension is declared by no model.
Metadata ==
  UNION {Team, Game, Player, PlayerGameStats, EventIndexes, PlayerSeasonTotals, TeamGameTotals,
         User, Follow, Post, PostLike, EventMention, Report, Media, Notification,
         NotificationPreference, {<<"unaccent">>}}

-----------------------------------------------------------------------------
(* The rows that decide whether a revision can be left *)

\* Teams and games by whose id they have; posts by what a revision minds: one
\* that is deleted, has no author, or links a box-score line without or with
\* the line's game.
Rows == {"api", "nba", "both", "post", "deleted", "anonymous", "line", "paired"}

\* Whether a row of the kind can be in the schema.
Admits(s, row) ==
  LET api == <<"teams", "api_sports_team_id">>  nba == <<"teams", "nba_team_id">>
      game == <<"posts", "linked_line_game_id">>
  IN CASE row = "api" -> api \in s /\ nba \o <<"not null">> \notin s
       [] row = "nba" -> nba \in s /\ api \o <<"not null">> \notin s
       [] row = "both" -> {api, nba} \subseteq s
       [] row = "post" -> <<"posts">> \in s
       [] row = "deleted" -> <<"posts", "deleted_at">> \in s
       [] row = "anonymous" -> <<"posts">> \in s /\ <<"posts", "author_id", "not null">> \notin s
       [] row = "line" -> <<"posts", "linked_player_game_stats_id">> \in s /\ game \notin s
       [] row = "paired" -> game \in s

\* What becomes of a row when the column that set it apart goes: as the other
\* kind it still is.
Survives(s, row) ==
  CASE row = "both" /\ <<"teams", "api_sports_team_id">> \notin s -> "nba"
    [] row = "both" /\ <<"teams", "nba_team_id">> \notin s -> "api"
    [] row = "deleted" /\ <<"posts", "deleted_at">> \notin s -> "post"
    [] row = "paired" /\ <<"posts", "linked_line_game_id">> \notin s -> "line"
    [] row = "line" /\ <<"posts", "linked_player_game_stats_id">> \notin s -> "post"
    [] OTHER -> row

\* Faulty: the column is added and the lines written before it are not filled.
NotBackfilled(s, row) == row

\* add_posts_linked_line_game_id fills the game of each line there is.
Backfilled(s, row) == IF row = "line" /\ <<"posts", "linked_line_game_id">> \in s THEN "paired" ELSE row

\* A database is a revision and its rows.  A step whose schema a row breaks
\* leaves none; a table goes with its rows.
Nothing == [revision |-> 0, rows |-> {"error"}]

TeamRows == {"api", "nba", "both"}

Step(db, to) ==
  LET s == SchemaAt(to)
      rows == {Backfilled(s, Survives(s, r)) : r \in db.rows}
      left == {r \in rows : (IF r \in TeamRows THEN <<"teams">> ELSE <<"posts">>) \in s}
  IN IF db = Nothing \/ \E r \in left : ~Admits(s, r) THEN Nothing
     ELSE [revision |-> to, rows |-> left]

\* What alembic makes of a database on its way to a revision: one transaction.
alembic(db, to) ==
  LET way == IF to >= db.revision THEN [i \in 1..(to - db.revision) |-> db.revision + i]
             ELSE [i \in 1..(db.revision - to) |-> db.revision - i]
  IN FoldLeft(Step, db, way)

-----------------------------------------------------------------------------
(* The runs *)

VARIABLES
  database,  \* its revision and the kinds of row there are
  holder,    \* the Lambda whose connection has the advisory lock
  run        \* caller -> where its run of alembic is and what it is to reach,
             \* and whether the revision it read is no longer the database's
vars == <<database, holder, run>>

Callers == Lambdas \cup Shells
Idle == [at |-> "idle", to |-> 0, stale |-> FALSE]

Init ==
  /\ database = [revision |-> 0, rows |-> {}]
  /\ holder = NoOne
  /\ run = [c \in Callers |-> Idle]

\* _advisory_lock, going in: the lock is tried, never waited for; without it
\* the invocation raises and has done nothing.
TakeLock(l) ==
  /\ run[l].at = "idle" /\ holder = NoOne
  /\ holder' = l
  /\ run' = [run EXCEPT ![l].at = "locked"]
  /\ UNCHANGED database

\* command.upgrade or downgrade: the revision is read and the steps chosen.
\* A Lambda goes to the newest, a shell also one step up or down, or all the way.
Begin(c, to) ==
  /\ IF c \in Lambdas THEN run[c].at = "locked" /\ to = Newest
     ELSE run[c].at = "idle" /\ to \in {0, database.revision - 1, database.revision + 1, Newest} \cap 0..Newest
  /\ run' = [run EXCEPT ![c] = [at |-> "running", to |-> to, stale |-> FALSE]]
  /\ UNCHANGED <<database, holder>>

\* The end of the one transaction: a step that fails, and a revision another
\* run moved from under this one, undo all of it.
EndRun(c) ==
  LET made == IF run[c].stale THEN Nothing ELSE alembic(database, run[c].to)
      reached == IF made = Nothing THEN database ELSE made
  IN /\ run[c].at = "running"
     /\ database' = reached
     /\ run' = [d \in Callers |->
                  IF d # c
                  THEN [run[d] EXCEPT !.stale =
                          @ \/ (run[d].at = "running" /\ reached.revision # database.revision)]
                  ELSE IF c \in Shells THEN Idle
                  ELSE [Idle EXCEPT !.at = IF made = Nothing THEN "failed" ELSE "committed"]]
     /\ UNCHANGED holder

\* The connection that holds the lock dies, and the run goes on without it.
LoseLock ==
  /\ holder # NoOne
  /\ holder' = NoOne
  /\ UNCHANGED <<database, run>>

\* _advisory_lock, coming out, and the handler's answer.  It is the revision
\* only for a run that was committed and whose connection still takes the
\* unlock; the rest raise MigrationFailed.
Answer(l) ==
  /\ run[l].at \in {"committed", "failed"}
  /\ holder' = IF holder = l THEN NoOne ELSE holder
  /\ run' = [run EXCEPT ![l] = Idle]
  /\ UNCHANGED database

\* The invocation is killed: its transaction is undone and its lock freed.
Crash(c) ==
  /\ run[c].at # "idle"
  /\ run' = [run EXCEPT ![c] = Idle]
  /\ holder' = IF holder = c THEN NoOne ELSE holder
  /\ UNCHANGED database

\* The program writes a row its schema takes, or the last of a kind goes.
Insert(r) ==
  /\ Admits(SchemaAt(database.revision), r) /\ r \notin database.rows
  /\ Cardinality(database.rows) < MaxKinds
  /\ database' = [database EXCEPT !.rows = @ \cup {r}]
  /\ UNCHANGED <<holder, run>>

Delete(r) ==
  /\ r \in database.rows
  /\ database' = [database EXCEPT !.rows = @ \ {r}]
  /\ UNCHANGED <<holder, run>>

Next ==
  \/ \E l \in Lambdas : TakeLock(l) \/ Answer(l)
  \/ \E c \in Callers : EndRun(c) \/ Crash(c) \/ \E to \in 0..Newest : Begin(c, to)
  \/ LoseLock
  \/ \E r \in Rows : Insert(r) \/ Delete(r)

Spec == Init /\ [][Next]_vars

-----------------------------------------------------------------------------
(* Properties *)

\* Each downgrade leaves exactly what the upgrade before its own left, so that
\* a database taken up and down in any way has the schema of its revision; and
\* what the newest upgrade leaves is what the models declare.
SchemaMatchesRevision ==
  /\ SchemaAt(database.revision) # Error
  /\ database.revision > 0 =>
       Execution(SchemaAt(database.revision), Downgrades[database.revision])
         = SchemaAt(database.revision - 1)
  /\ database.revision = Newest => SchemaAt(Newest) = Metadata

\* From any database the program and the runs can leave, with runs that raced,
\* failed or died, every row is one its schema takes; the upgrade to the newest
\* goes through, only a team or game that has none but the old source's id can
\* stop it, and no post is lost on the way.
UpgradeGoesThrough ==
  LET made == alembic(database, Newest)
  IN /\ \A r \in database.rows : Admits(SchemaAt(database.revision), r)
     /\ (made = Nothing) <=> (database.revision < SourceIdsDropped /\ "api" \in database.rows)
     /\ made # Nothing => {Backfilled(Metadata, r) : r \in database.rows \ TeamRows} \subseteq made.rows

=============================================================================
