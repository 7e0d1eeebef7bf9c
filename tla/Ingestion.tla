------------------------------ MODULE Ingestion -----------------------------
(***************************************************************************)
(* Loads of the dataset next to each other (app.events.load_handler,       *)
(* app.events.nba_history, app.events.record_totals): the load Lambda,     *)
(* which takes an advisory lock on a connection of its own, and the        *)
(* command line (scripts/load_nba_history.py), which takes none.  Each     *)
(* load is one READ COMMITTED transaction: a statement sees what is        *)
(* committed when it starts and the transaction's own writes; a row that   *)
(* another open transaction wrote is waited for.                           *)
(*                                                                         *)
(* What a dataset says of a game is a game record with its result, its     *)
(* other details and its box score (0 is none); the rows of a table of     *)
(* totals are one per season, holding the games they were computed from.   *)
(***************************************************************************)
EXTENDS Integers, FiniteSets, Sequences

CONSTANTS
  Lambdas,        \* invocations of the load Lambda
  Clis,           \* runs of the command-line loader
  Ids,            \* nba.com game ids
  Seasons,        \* the seasons, and
  SeasonOf,       \* the season of each game id
  Results,        \* the teams and score of a game
  Details,        \* its other fields
  Boxes,          \* its box score, 0 for none
  Datasets,       \* the versions of the dataset, in order: each a set of game records, or Bad
  Bad,            \* a version the loader refuses
  LocksDie,       \* whether the lock's connection may be lost under a load
  NoOne, MaxLoads \* bound: loads begun

Loaders == Lambdas \cup Clis

\* player_season_totals and team_game_totals, in the order they are rebuilt.
Tables == 1..2

Games == [id : Ids, season : Seasons, result : Results, details : Details, box : Boxes]

ASSUME LoadersAssumption == NoOne \notin Loaders /\ Lambdas \cap Clis = {}
ASSUME DatasetsAssumption ==
  /\ DOMAIN Datasets = 1..Len(Datasets) /\ Len(Datasets) \in Nat \ {0}
  /\ \A v \in DOMAIN Datasets : Datasets[v] # Bad =>
       /\ Datasets[v] \subseteq Games
       /\ \A g, h \in Datasets[v] : g.id = h.id => g = h
       /\ \A g \in Datasets[v] : g.season = SeasonOf[g.id]
ASSUME BoundAssumption == MaxLoads \in Nat

Phases == {"idle", "locking", "reading", "looking", "writing", "rebuilding", "deleting", "inserting", "committing"}

VARIABLES
  version,    \* the version of the dataset in the bucket
  stored,     \* the committed games
  totals,     \* per table, the committed rows [season, of, by]
  holder,     \* who holds LOAD_LOCK_KEY
  load,       \* per loader, its run
  begun,      \* loads begun, which also numbers them
  alone,      \* whether no two transactions have been open at the same time
  locked      \* whether every load has taken the lock, and no lock was lost under its load

vars == <<version, stored, totals, holder, load, begun, alone, locked>>

NoRun == [phase |-> "idle", number |-> 0, wanted |-> {}, read |-> {}, seen |-> {}, new |-> {},
          table |-> 1, found |-> {}, deleted |-> [t \in Tables |-> {}], inserted |-> [t \in Tables |-> {}],
          answer |-> "none"]

Open(l) == load[l].phase \in {"writing", "rebuilding", "deleting", "inserting", "committing"}
Others(l) == {m \in Loaders \ {l} : Open(m)}

-----------------------------------------------------------------------------
(* Rows a statement sees *)

IdsOf(games) == {g.id : g \in games}
Named(games, id) == CHOOSE g \in games : g.id = id

\* The committed games with those written over them.
Over(committed, new) == {g \in committed : g.id \notin IdsOf(new)} \cup new

VisibleGames(l) == Over(stored, load[l].new)
VisibleRows(l, t) == (totals[t] \ load[l].deleted[t]) \cup load[l].inserted[t]

\* The totals of some games, numbered by the load that computed them.
Derived(games, number) ==
  {[season |-> s, of |-> {g \in games : g.season = s}, by |-> number] : s \in {g.season : g \in games}}

-----------------------------------------------------------------------------
(* One load *)

\* Faulty: what is stored takes whatever the dataset says.
AgreesWithAnything(current, game) == TRUE

\* _check_agrees
Agrees(current, game) == current.result = game.result

\* The stored game after the run: new fields, and a box score if it had none.
Merged(current, game) ==
  [game EXCEPT !.box = IF current.box = 0 THEN game.box ELSE current.box]

\* What a run that saw some games writes for those it read.
Writes(seen, read) ==
  {g \in read : g.id \notin IdsOf(seen)}
    \cup {m \in {Merged(Named(seen, g.id), g) : g \in {h \in read : h.id \in IdsOf(seen)}} : m \notin seen}

Refuses(seen, read) == \E g \in read : g.id \in IdsOf(seen) /\ ~Agrees(Named(seen, g.id), g)

\* The lock is dropped when its load ends; a loader that lost it has none.
Unlocked(l) == IF holder = l THEN NoOne ELSE holder

Ended(answer) == [NoRun EXCEPT !.answer = answer]

\* An invocation with its seasons, or a run of the command line.
Begin(l, wanted) ==
  /\ load[l].phase = "idle" /\ begun < MaxLoads
  /\ begun' = begun + 1
  /\ load' = [load EXCEPT ![l] = [NoRun EXCEPT !.phase = IF l \in Lambdas THEN "locking" ELSE "reading",
                                               !.number = begun + 1, !.wanted = wanted]]
  /\ locked' = (locked /\ l \in Lambdas)
  /\ UNCHANGED <<version, stored, totals, holder, alone>>

\* Faulty: the lock that another holds is no reason to stop.
TakeAnyway(l) ==
  /\ load[l].phase = "locking"
  /\ holder' = IF holder = NoOne THEN l ELSE holder
  /\ load' = [load EXCEPT ![l].phase = "reading"]
  /\ UNCHANGED <<version, stored, totals, begun, alone, locked>>

\* pg_try_advisory_lock: held by another, the load does not run.
TryLock(l) ==
  /\ load[l].phase = "locking"
  /\ \/ /\ holder = NoOne
        /\ holder' = l
        /\ load' = [load EXCEPT ![l].phase = "reading"]
     \/ /\ holder # NoOne
        /\ load' = [load EXCEPT ![l] = Ended("locked")]
        /\ UNCHANGED holder
  /\ UNCHANGED <<version, stored, totals, begun, alone, locked>>

\* Every file is read and checked before the first write.
Read(l) ==
  /\ load[l].phase = "reading" /\ Datasets[version] # Bad
  /\ load' = [load EXCEPT ![l].phase = "looking",
                          ![l].read = {g \in Datasets[version] : g.season \in load[l].wanted}]
  /\ UNCHANGED <<version, stored, totals, holder, begun, alone, locked>>

\* _existing_games: the transaction's first statements, and what is stored of what was read.
Look(l) ==
  /\ load[l].phase = "looking"
  /\ load' = [load EXCEPT ![l].phase = "writing",
                          ![l].seen = {g \in stored : g.id \in IdsOf(load[l].read)}]
  /\ alone' = (alone /\ Others(l) = {})
  /\ UNCHANGED <<version, stored, totals, holder, begun, locked>>

\* A game inserted meanwhile, or a box score added meanwhile, is a unique violation.
Collides(l, new) ==
  \E g \in new : /\ g.id \in IdsOf(stored)
                 /\ g.id \in IdsOf(load[l].seen) =>
                      /\ Named(load[l].seen, g.id).box = 0 /\ g.box # 0
                      /\ Named(stored, g.id).box # 0

WritesOf(l) == Writes(load[l].seen, load[l].read)

\* An update sets the fields that differ from what was seen, onto what is stored by then.
Set(current, seen, game) ==
  [current EXCEPT !.result = IF game.result # seen.result THEN game.result ELSE @,
                  !.details = IF game.details # seen.details THEN game.details ELSE @,
                  !.box = IF @ = 0 THEN game.box ELSE @]
Onto(l, new) ==
  {IF g.id \in IdsOf(stored) THEN Set(Named(stored, g.id), Named(load[l].seen, g.id), g) ELSE g : g \in new}

\* The writes go in once no other open transaction has written the same games.
Write(l) ==
  /\ load[l].phase = "writing"
  /\ ~Refuses(load[l].seen, load[l].read) /\ ~Collides(l, WritesOf(l))
  /\ \A m \in Others(l) : IdsOf(WritesOf(l)) \cap IdsOf(load[m].new) = {}
  /\ load' = [load EXCEPT ![l].phase = "rebuilding", ![l].new = Onto(l, WritesOf(l))]
  /\ UNCHANGED <<version, stored, totals, holder, begun, alone, locked>>

\* DELETE FROM a table: it goes for the rows of its snapshot,
Delete(l) ==
  /\ load[l].phase = "rebuilding"
  /\ load' = [load EXCEPT ![l].phase = "deleting", ![l].found = totals[load[l].table]]
  /\ UNCHANGED <<version, stored, totals, holder, begun, alone, locked>>

\* waits for whoever deleted one of them before it, and takes those left.
Deleted(l) ==
  LET t == load[l].table
  IN /\ load[l].phase = "deleting"
     /\ \A m \in Others(l) : load[l].found \cap load[m].deleted[t] = {}
     /\ load' = [load EXCEPT ![l].phase = "inserting",
                             ![l].deleted[t] = load[l].found \cap totals[t]]
     /\ UNCHANGED <<version, stored, totals, holder, begun, alone, locked>>

\* INSERT INTO it ... SELECT from the games a new snapshot has.
Insert(l) ==
  LET t == load[l].table
  IN /\ load[l].phase = "inserting"
     /\ load' = [load EXCEPT ![l].phase = IF t = 2 THEN "committing" ELSE "rebuilding",
                             ![l].table = t + 1,
                             ![l].inserted[t] = Derived(VisibleGames(l), load[l].number)]
     /\ UNCHANGED <<version, stored, totals, holder, begun, alone, locked>>

\* The commit, then the unlock: on a dead connection that raises, and the
\* handler reports a failure.
Commit(l) ==
  /\ load[l].phase = "committing"
  /\ stored' = VisibleGames(l)
  /\ totals' = [t \in Tables |-> VisibleRows(l, t)]
  /\ holder' = Unlocked(l)
  /\ load' = [load EXCEPT ![l] = Ended(IF l \in Lambdas /\ holder # l THEN "failed" ELSE "report")]
  /\ UNCHANGED <<version, begun, alone, locked>>

\* Faulty: files that are refused are waited for instead.
RefuseTheWritesOnly(l) ==
  /\ load[l].phase = "writing" /\ (Refuses(load[l].seen, load[l].read) \/ Collides(l, WritesOf(l)))
  /\ holder' = Unlocked(l)
  /\ load' = [load EXCEPT ![l] = Ended("failed")]
  /\ UNCHANGED <<version, stored, totals, begun, alone, locked>>

\* What the files or the stored games do not allow: rolled back and raised.
Refuse(l) ==
  /\ \/ load[l].phase = "reading" /\ Datasets[version] = Bad
     \/ /\ load[l].phase = "writing"
        /\ Refuses(load[l].seen, load[l].read) \/ Collides(l, WritesOf(l))
  /\ holder' = Unlocked(l)
  /\ load' = [load EXCEPT ![l] = Ended("failed")]
  /\ UNCHANGED <<version, stored, totals, begun, alone, locked>>

\* A connection, a download or the process is lost: the transaction is rolled
\* back and the lock's connection closed.
Die(l) ==
  /\ load[l].phase # "idle"
  /\ holder' = Unlocked(l)
  /\ load' = [load EXCEPT ![l] = Ended("failed")]
  /\ UNCHANGED <<version, stored, totals, begun, alone, locked>>

\* The lock's own connection is lost and the load goes on without it.
LoseLock ==
  /\ LocksDie /\ holder # NoOne
  /\ holder' = NoOne
  /\ locked' = FALSE
  /\ UNCHANGED <<version, stored, totals, load, begun, alone>>

\* The next version is uploaded.
Upload ==
  /\ version < Len(Datasets)
  /\ version' = version + 1
  /\ UNCHANGED <<stored, totals, holder, load, begun, alone, locked>>

-----------------------------------------------------------------------------

Init ==
  /\ version = 1
  /\ stored = {} /\ totals = [t \in Tables |-> {}]
  /\ holder = NoOne
  /\ load = [l \in Loaders |-> NoRun]
  /\ begun = 0
  /\ alone = TRUE /\ locked = TRUE

Run(l) == TryLock(l) \/ Read(l) \/ Look(l) \/ Write(l) \/ Delete(l) \/ Deleted(l) \/ Insert(l)
            \/ Commit(l) \/ Refuse(l)

Next ==
  \/ \E l \in Loaders : (\E wanted \in SUBSET Seasons \ {{}} : Begin(l, wanted)) \/ Run(l) \/ Die(l)
  \/ LoseLock
  \/ Upload

Spec == Init /\ [][Next]_vars /\ \A l \in Loaders : WF_vars(Run(l))

-----------------------------------------------------------------------------
(* Properties *)

Shown(t) == {[season |-> r.season, of |-> r.of] : r \in totals[t]}

\* Both tables hold one row of each season, computed from exactly the games that
\* are stored, unless two loads have run at the same time and one of them had
\* not taken the lock, or had lost it (load_handler.py:21, "for the whole load").
TotalsAreCurrent ==
  alone \/ locked => \A t \in Tables :
    /\ \A r, q \in totals[t] : r.season = q.season => r = q
    /\ Shown(t) = {[season |-> s, of |-> {g \in stored : g.season = s}] : s \in {g.season : g \in stored}}

\* The loads implement what readers are promised.
Promised == INSTANCE Results WITH totals <- [t \in Tables |-> Shown(t)]
KeepsThePromise == Promised!Spec

\* Every load that begins ends, with a report or a failure, also when it has to
\* wait for another one's rows.
EveryLoadEnds == \A l \in Loaders : load[l].phase # "idle" ~> load[l].phase = "idle"
=============================================================================
