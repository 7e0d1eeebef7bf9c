--------------------------- MODULE IngestionProofs --------------------------
(***************************************************************************)
(* Proofs about the loads of the dataset: whatever runs next to each       *)
(* other, results are only ever added; as long as no two loads overlap,    *)
(* the totals are those of the stored games; and the lock keeps loads from *)
(* overlapping if everyone takes it and its connection lasts.              *)
(***************************************************************************)
EXTENDS Ingestion, TLAPS

Rows == [season : Seasons, of : SUBSET Games, by : Nat]
Runs == [phase : Phases, number : Nat, wanted : SUBSET Seasons, read : SUBSET Games, seen : SUBSET Games,
         new : SUBSET Games, table : 1..3, found : SUBSET Rows, deleted : [Tables -> SUBSET Rows],
         inserted : [Tables -> SUBSET Rows], answer : {"none", "locked", "failed", "report"}]

TypeOK ==
  /\ version \in DOMAIN Datasets
  /\ stored \in SUBSET Games
  /\ totals \in [Tables -> SUBSET Rows]
  /\ holder \in Loaders \cup {NoOne}
  /\ load \in [Loaders -> Runs]
  /\ begun \in Nat
  /\ alone \in BOOLEAN /\ locked \in BOOLEAN

\* Games of which no two have the same id, each in the season of its id.
Sound(games) ==
  /\ games \subseteq Games
  /\ \A g, h \in games : g.id = h.id => g = h
  /\ \A g \in games : g.season = SeasonOf[g.id]

Written(l) == load[l].phase \in {"rebuilding", "deleting", "inserting", "committing"}

\* What a load is about to commit keeps what is stored of the same games.
Ready(l) ==
  /\ Sound(load[l].read) /\ Sound(load[l].seen) /\ Sound(load[l].new)
  /\ \A g \in load[l].new : \A h \in stored : h.id = g.id => Promised!Keeps(h, g)
  /\ ~Written(l) => load[l].new = {}

\* No two loads have written the same game.
Apart == \A l, m \in Loaders : l # m => IdsOf(load[l].new) \cap IdsOf(load[m].new) = {}

Kept == Sound(stored) /\ (\A l \in Loaders : Ready(l)) /\ Apart

\* How far a load that runs alone has rebuilt the tables.
Rebuilt(l) ==
  /\ \A t \in Tables : Written(l) /\ t < load[l].table =>
       load[l].deleted[t] = totals[t] /\ load[l].inserted[t] = Derived(VisibleGames(l), load[l].number)
  /\ load[l].phase = "deleting" => load[l].found = totals[load[l].table]
  /\ load[l].phase = "inserting" => load[l].deleted[load[l].table] = totals[load[l].table]

\* Which table a load is at.
AtTable(l) ==
  /\ ~Written(l) => load[l].table = 1
  /\ load[l].phase \in {"rebuilding", "deleting", "inserting"} => load[l].table \in Tables
  /\ load[l].phase = "committing" => load[l].table = 3

Lone ==
  alone =>
    /\ \A l, m \in Loaders : Open(l) /\ Open(m) => l = m
    /\ \A t \in Tables : \E n \in 0..begun : totals[t] = Derived(stored, n)
    /\ \A l \in Loaders : Rebuilt(l)

Numbered == \A l \in Loaders : load[l].number \in 0..begun /\ AtTable(l)

IInv == TypeOK /\ Kept /\ Numbered /\ Lone

-----------------------------------------------------------------------------
(* The operators *)

\* Named finds a game with the id, if there is one.
LEMMA NamedFinds ==
  ASSUME NEW games \in SUBSET Games, NEW id \in IdsOf(games)
  PROVE Named(games, id) \in games /\ Named(games, id).id = id
  BY DEF Named, IdsOf

\* A merged game keeps its box score and the result if both agree on it.
LEMMA MergedKeeps ==
  ASSUME NEW current \in Games, NEW game \in Games
  PROVE /\ Merged(current, game) \in Games
        /\ Merged(current, game).id = game.id /\ Merged(current, game).season = game.season
        /\ Merged(current, game).result = game.result
  <1>1. (IF current.box = 0 THEN game.box ELSE current.box) \in Boxes
    BY DEF Games
  <1> QED BY <1>1 DEF Merged, Games

\* An update with the result that was seen keeps the stored game.
LEMMA SetKeeps ==
  ASSUME NEW current \in Games, NEW seen \in Games, NEW game \in Games, game.result = seen.result
  PROVE /\ Set(current, seen, game) \in Games
        /\ Promised!Keeps(current, Set(current, seen, game))
  <1> DEFINE details == IF game.details # seen.details THEN game.details ELSE current.details
             box == IF current.box = 0 THEN game.box ELSE current.box
  <1>1. details \in Details /\ box \in Boxes
    BY DEF Games
  <1>2. Set(current, seen, game) = [current EXCEPT !.result = current.result, !.details = details, !.box = box]
    BY DEF Set, Games
  <1> HIDE DEF details
  <1>3. Set(current, seen, game) = [id |-> current.id, season |-> current.season, result |-> current.result,
                                    details |-> details, box |-> box]
    BY <1>2 DEF Games
  <1> QED BY <1>1, <1>3 DEF Games, Promised!Keeps

\* What a run writes: games it read, each with the result it saw of it.
LEMMA WritesAreRead ==
  ASSUME NEW seen, NEW read, Sound(seen), Sound(read), ~Refuses(seen, read), NEW g \in Writes(seen, read)
  PROVE /\ g \in Games /\ g.season = SeasonOf[g.id]
        /\ \E r \in read : /\ r.id = g.id
                           /\ g = IF r.id \in IdsOf(seen) THEN Merged(Named(seen, r.id), r) ELSE r
        /\ g.id \in IdsOf(seen) => g.result = Named(seen, g.id).result
  <1>1. CASE g \in {r \in read : r.id \notin IdsOf(seen)}
    BY <1>1 DEF Sound
  <1>2. CASE g \notin {r \in read : r.id \notin IdsOf(seen)}
    <2>1. PICK r \in read : r.id \in IdsOf(seen) /\ g = Merged(Named(seen, r.id), r)
      BY <1>2 DEF Writes
    <2>2. Named(seen, r.id) \in Games /\ r \in Games
      BY <2>1, NamedFinds DEF Sound
    <2>3. g \in Games /\ g.id = r.id /\ g.season = r.season /\ g.result = r.result
      BY <2>1, <2>2, MergedKeeps
    <2>4. Agrees(Named(seen, r.id), r)
      BY <2>1 DEF Refuses
    <2> QED BY <2>1, <2>3, <2>4 DEF Agrees, Sound
  <1> QED BY <1>1, <1>2

\* No two of the games a run writes have the same id.
LEMMA WritesAreSound ==
  ASSUME NEW seen, NEW read, Sound(seen), Sound(read), ~Refuses(seen, read)
  PROVE Sound(Writes(seen, read))
  <1>1. ASSUME NEW g \in Writes(seen, read), NEW h \in Writes(seen, read), g.id = h.id
        PROVE g = h
    <2>1. PICK r \in read : r.id = g.id /\ g = IF r.id \in IdsOf(seen) THEN Merged(Named(seen, r.id), r) ELSE r
      BY WritesAreRead
    <2>2. PICK q \in read : q.id = h.id /\ h = IF q.id \in IdsOf(seen) THEN Merged(Named(seen, q.id), q) ELSE q
      BY WritesAreRead
    <2>3. r = q
      BY <1>1, <2>1, <2>2 DEF Sound
    <2> QED BY <2>1, <2>2, <2>3
  <1>2. \A g \in Writes(seen, read) : g \in Games /\ g.season = SeasonOf[g.id]
    BY WritesAreRead
  <1> QED BY <1>1, <1>2 DEF Sound

\* What a run writes goes onto the stored games without taking anything back.
LEMMA OntoIsReady ==
  ASSUME NEW l \in Loaders, Sound(stored), Sound(load[l].seen), Sound(load[l].read),
         ~Refuses(load[l].seen, load[l].read), ~Collides(l, WritesOf(l))
  PROVE /\ Sound(Onto(l, WritesOf(l)))
        /\ \A g \in Onto(l, WritesOf(l)) : \A h \in stored : h.id = g.id => Promised!Keeps(h, g)
        /\ IdsOf(Onto(l, WritesOf(l))) \subseteq IdsOf(WritesOf(l))
  <1> DEFINE writes == WritesOf(l)
             onto(g) == IF g.id \in IdsOf(stored)
                          THEN Set(Named(stored, g.id), Named(load[l].seen, g.id), g) ELSE g
  <1>1. Sound(writes)
    BY WritesAreSound DEF WritesOf
  <1>2. ASSUME NEW g \in writes
        PROVE /\ onto(g) \in Games /\ onto(g).id = g.id /\ onto(g).season = SeasonOf[g.id]
              /\ \A h \in stored : h.id = g.id => Promised!Keeps(h, onto(g))
    <2>1. CASE g.id \notin IdsOf(stored)
      BY <1>1, <1>2, <2>1 DEF Sound, IdsOf
    <2>2. CASE g.id \in IdsOf(stored)
      <3>1. g.id \in IdsOf(load[l].seen)
        BY <1>2, <2>2 DEF Collides
      <3>2. Named(stored, g.id) \in stored /\ Named(stored, g.id).id = g.id
        BY <2>2, NamedFinds DEF Sound
      <3>3. Named(load[l].seen, g.id) \in Games
        BY <3>1, NamedFinds DEF Sound
      <3>4. g \in Games /\ g.result = Named(load[l].seen, g.id).result
        BY <1>2, <3>1, WritesAreRead DEF WritesOf
      <3>5. onto(g) = Set(Named(stored, g.id), Named(load[l].seen, g.id), g)
        BY <2>2
      <3>6. onto(g) \in Games /\ Promised!Keeps(Named(stored, g.id), onto(g))
        BY <3>2, <3>3, <3>4, <3>5, SetKeeps DEF Sound
      <3> QED BY <3>2, <3>6 DEF Sound, Promised!Keeps
    <2> QED BY <2>1, <2>2
  <1>3. \A g \in Onto(l, writes) : \E w \in writes : g = onto(w)
    BY DEF Onto
  <1> HIDE DEF onto
  <1>4. ASSUME NEW g \in Onto(l, writes), NEW h \in Onto(l, writes), g.id = h.id
        PROVE g = h
    BY <1>1, <1>2, <1>3, <1>4 DEF Sound
  <1>5. \A g \in Onto(l, writes) : g \in Games /\ g.season = SeasonOf[g.id]
    BY <1>2, <1>3
  <1>6. \A g \in Onto(l, writes) : \A h \in stored : h.id = g.id => Promised!Keeps(h, g)
    BY <1>2, <1>3
  <1>7. IdsOf(Onto(l, writes)) \subseteq IdsOf(writes)
    BY <1>2, <1>3 DEF IdsOf
  <1> QED BY <1>4, <1>5, <1>6, <1>7 DEF Sound

\* Sound games written over sound games are sound.
LEMMA OverIsSound ==
  ASSUME NEW committed, NEW new, Sound(committed), Sound(new)
  PROVE Sound(Over(committed, new))
  BY DEF Sound, Over, IdsOf

\* Totals are rows of the seasons there are.
LEMMA DerivedRows ==
  ASSUME NEW games \in SUBSET Games, NEW number \in Nat
  PROVE Derived(games, number) \in SUBSET Rows
  BY DEF Derived, Rows, Games

-----------------------------------------------------------------------------
(* What each action does to its load, and to no other *)

OthersStay(l) == \A m \in Loaders \ {l} : load'[m] = load[m]

\* A run that has ended, or never began.
IsNoRun(r) ==
  /\ r.phase = "idle" /\ r.number = 0 /\ r.read = {} /\ r.seen = {} /\ r.new = {} /\ r.table = 1

LEMMA NoRunFacts ==
  ASSUME NEW answer \in {"none", "locked", "failed", "report"}
  PROVE /\ NoRun \in Runs /\ IsNoRun(NoRun)
        /\ Ended(answer) \in Runs /\ IsNoRun(Ended(answer))
  <1>1. NoRun \in Runs
    BY DEF NoRun, Runs, Phases, Tables
  <1>2. Ended(answer) \in Runs
    BY <1>1 DEF Ended, Runs
  <1>3. IsNoRun(NoRun)
    BY DEF NoRun, IsNoRun
  <1>4. IsNoRun(Ended(answer))
    BY DEF NoRun, IsNoRun, Ended
  <1> QED BY <1>1, <1>2, <1>3, <1>4

\* It moves on before it has written anything: what it read and saw is sound.
Prepares(l) ==
  /\ load' \in [Loaders -> Runs] /\ OthersStay(l)
  /\ ~Written(l) /\ load'[l].phase \in {"idle", "locking", "reading", "looking", "writing"}
  /\ load'[l].number \in 0..begun' /\ begun \in 0..begun' /\ begun' \in Nat
  /\ Sound(load'[l].read) /\ Sound(load'[l].seen)
  /\ load'[l].new = {} /\ load'[l].table = 1
  /\ UNCHANGED <<stored, totals>>
  /\ alone' \in BOOLEAN
  /\ alone' = alone \/ alone' = FALSE
  /\ load'[l].phase = "writing" /\ alone' => alone /\ Others(l) = {}

\* It is rolled back.
RollsBack(l) ==
  /\ load' \in [Loaders -> Runs] /\ OthersStay(l) /\ IsNoRun(load'[l])
  /\ UNCHANGED <<stored, totals, alone, begun>>

\* It keeps what it read, saw and wrote, and goes on with a table.
Rebuilds(l) ==
  /\ load' \in [Loaders -> Runs] /\ OthersStay(l)
  /\ load'[l].number = load[l].number /\ load'[l].read = load[l].read /\ load'[l].seen = load[l].seen
  /\ load'[l].new = load[l].new
  /\ Written(l) /\ load'[l].phase \in {"rebuilding", "deleting", "inserting", "committing"}
  /\ UNCHANGED <<stored, totals, alone, begun>>

\* Of a load that has not written.
LEMMA BeforeWriting ==
  ASSUME IInv, NEW l \in Loaders, load[l].phase \in {"idle", "locking", "reading", "looking", "writing"}
  PROVE /\ ~Written(l) /\ load[l].new = {} /\ load[l].table = 1
        /\ Sound(load[l].read) /\ Sound(load[l].seen)
        /\ load[l].number \in 0..begun /\ begun \in 0..begun /\ begun \in Nat /\ alone \in BOOLEAN
  BY DEF Written, IInv, TypeOK, Kept, Ready, Numbered, AtTable

LEMMA BeginMoves ==
  ASSUME IInv, NEW l \in Loaders, NEW wanted \in SUBSET Seasons \ {{}}, Begin(l, wanted)
  PROVE Prepares(l)
  <1>1. load'[l] = [NoRun EXCEPT !.phase = IF l \in Lambdas THEN "locking" ELSE "reading",
                                 !.number = begun + 1, !.wanted = wanted]
    BY DEF Begin, IInv, TypeOK
  <1>2. NoRun \in Runs /\ IsNoRun(NoRun)
    BY NoRunFacts
  <1>3. load'[l] \in Runs
    <2> DEFINE phase == IF l \in Lambdas THEN "locking" ELSE "reading"
               begins == [NoRun EXCEPT !.phase = phase]
               numbered == [begins EXCEPT !.number = begun + 1]
    <2>1. begins \in Runs
      BY <1>2 DEF Runs, Phases
    <2>2. load'[l] = [numbered EXCEPT !.wanted = wanted]
      BY <1>1
    <2> HIDE DEF begins
    <2>3. numbered \in Runs
      <3>1. begun + 1 \in Nat
        BY DEF IInv, TypeOK
      <3> QED BY <2>1, <3>1 DEF Runs
    <2> HIDE DEF numbered
    <2> QED BY <2>2, <2>3 DEF Runs
  <1>4. /\ load'[l].phase \in {"locking", "reading"} /\ load'[l].number = begun + 1
        /\ load'[l].read = {} /\ load'[l].seen = {} /\ load'[l].new = {} /\ load'[l].table = 1
    BY <1>1, <1>2 DEF Runs, IsNoRun
  <1>5. OthersStay(l) /\ load' \in [Loaders -> Runs]
    BY <1>3 DEF Begin, OthersStay, IInv, TypeOK
  <1>6. Sound({})
    BY DEF Sound
  <1>7. begun' = begun + 1 /\ begun \in Nat /\ alone \in BOOLEAN
    BY DEF Begin, IInv, TypeOK
  <1>8. load'[l].number \in 0..begun' /\ begun \in 0..begun'
    BY <1>4, <1>7
  <1>9. UNCHANGED <<stored, totals, alone>> /\ ~Written(l)
    BY DEF Begin, Written
  <1> QED BY <1>4, <1>5, <1>6, <1>7, <1>8, <1>9 DEF Prepares

LEMMA TryLockMoves ==
  ASSUME IInv, NEW l \in Loaders, TryLock(l)
  PROVE Prepares(l)
  <1>1. CASE load' = [load EXCEPT ![l].phase = "reading"]
    <2> DEFINE reads == [load[l] EXCEPT !.phase = "reading"]
    <2>1. load \in [Loaders -> Runs] /\ load[l] \in Runs
      BY DEF IInv, TypeOK
    <2>2. load' = [load EXCEPT ![l] = reads]
      BY <1>1
    <2>3. /\ reads \in Runs /\ reads.phase = "reading" /\ reads.number = load[l].number
          /\ reads.read = load[l].read /\ reads.seen = load[l].seen
          /\ reads.new = load[l].new /\ reads.table = load[l].table
      BY <2>1 DEF Runs, Phases
    <2> HIDE DEF reads
    <2>4. load'[l] = reads
      BY ONLY <2>1, <2>2
    <2>5. OthersStay(l) /\ load' \in [Loaders -> Runs]
      BY ONLY <2>1, <2>2, <2>3 DEF OthersStay
    <2>6. /\ load'[l] \in Runs /\ load'[l].phase = "reading" /\ load'[l].number = load[l].number
          /\ load'[l].read = load[l].read /\ load'[l].seen = load[l].seen
          /\ load'[l].new = load[l].new /\ load'[l].table = load[l].table
      BY ONLY <2>3, <2>4
    <2> QED BY <2>5, <2>6 DEF TryLock, Prepares, Written, IInv, TypeOK, Kept, Ready, Numbered, AtTable
  <1>2. CASE load' = [load EXCEPT ![l] = Ended("locked")]
    <2>1. load'[l] \in Runs /\ IsNoRun(load'[l])
      BY <1>2, NoRunFacts DEF IInv, TypeOK
    <2>2. OthersStay(l) /\ load' \in [Loaders -> Runs]
      BY <1>2, <2>1 DEF OthersStay, IInv, TypeOK
    <2>3. Sound({})
      BY DEF Sound
    <2> QED BY <2>1, <2>2, <2>3 DEF TryLock, Prepares, Written, IInv, TypeOK, IsNoRun
  <1> QED BY <1>1, <1>2 DEF TryLock

LEMMA ReadMoves ==
  ASSUME IInv, NEW l \in Loaders, Read(l)
  PROVE Prepares(l)
  <1> DEFINE read == {g \in Datasets[version] : g.season \in load[l].wanted}
  <1>1. Sound(Datasets[version])
    BY DatasetsAssumption DEF Read, Sound, IInv, TypeOK
  <1>2. Sound(read)
    BY <1>1 DEF Sound
  <1>3. load' = [load EXCEPT ![l].phase = "looking", ![l].read = read]
    BY DEF Read
  <1>4. read \in SUBSET Games
    BY <1>2 DEF Sound
  <1> HIDE DEF read
  <1>7. load'[l] = [load[l] EXCEPT !.phase = "looking", !.read = read]
    BY <1>3 DEF IInv, TypeOK
  <1>8. load'[l] \in Runs
    <2> DEFINE moved == [load[l] EXCEPT !.phase = "looking"]
    <2>1. moved \in Runs
      <3>1. load[l] \in Runs
        BY DEF IInv, TypeOK
      <3> QED BY <3>1 DEF Runs, Phases
    <2>2. load'[l] = [moved EXCEPT !.read = read]
      BY <1>7
    <2> HIDE DEF moved
    <2> QED BY <1>4, <2>1, <2>2 DEF Runs
  <1>5. /\ load'[l].phase = "looking" /\ load'[l].number = load[l].number
        /\ load'[l].read = read /\ load'[l].seen = load[l].seen
        /\ load'[l].new = load[l].new /\ load'[l].table = load[l].table
    BY <1>3 DEF Runs, IInv, TypeOK
  <1>6. OthersStay(l) /\ load' \in [Loaders -> Runs]
    BY <1>3, <1>8 DEF OthersStay, IInv, TypeOK
  <1> QED BY <1>2, <1>5, <1>6, BeforeWriting DEF Read, Prepares

LEMMA LookMoves ==
  ASSUME IInv, NEW l \in Loaders, Look(l)
  PROVE Prepares(l)
  <1> DEFINE seen == {g \in stored : g.id \in IdsOf(load[l].read)}
  <1>1. Sound(seen) /\ seen \in SUBSET Games
    BY DEF IInv, Kept, Sound
  <1>2. load' = [load EXCEPT ![l].phase = "writing", ![l].seen = seen]
    BY DEF Look
  <1> HIDE DEF seen
  <1>7. load'[l] = [load[l] EXCEPT !.phase = "writing", !.seen = seen]
    BY <1>2 DEF IInv, TypeOK
  <1>8. load'[l] \in Runs
    <2> DEFINE moved == [load[l] EXCEPT !.phase = "writing"]
    <2>1. moved \in Runs
      <3>1. load[l] \in Runs
        BY DEF IInv, TypeOK
      <3> QED BY <3>1 DEF Runs, Phases
    <2>2. load'[l] = [moved EXCEPT !.seen = seen]
      BY <1>7
    <2> HIDE DEF moved
    <2> QED BY <1>1, <2>1, <2>2 DEF Runs
  <1>3. /\ load'[l].phase = "writing" /\ load'[l].number = load[l].number
        /\ load'[l].read = load[l].read /\ load'[l].seen = seen
        /\ load'[l].new = load[l].new /\ load'[l].table = load[l].table
    BY <1>2 DEF Runs, IInv, TypeOK
  <1>4. OthersStay(l) /\ load' \in [Loaders -> Runs]
    BY <1>2, <1>8 DEF OthersStay, IInv, TypeOK
  <1>9. alone' \in BOOLEAN /\ (alone' = alone \/ alone' = FALSE) /\ (alone' => alone /\ Others(l) = {})
    <2>1. alone' = (alone /\ Others(l) = {}) /\ alone \in BOOLEAN
      BY DEF Look, IInv, TypeOK
    <2> QED BY <2>1, Zenon
  <1> QED BY <1>1, <1>3, <1>4, <1>9, BeforeWriting DEF Look, Prepares

LEMMA EndMoves ==
  ASSUME IInv, NEW l \in Loaders, Refuse(l) \/ Die(l)
  PROVE RollsBack(l)
  <1>1. load' = [load EXCEPT ![l] = Ended("failed")]
    BY DEF Refuse, Die
  <1>2. load'[l] \in Runs /\ IsNoRun(load'[l])
    BY <1>1, NoRunFacts DEF IInv, TypeOK
  <1>3. OthersStay(l) /\ load' \in [Loaders -> Runs]
    BY <1>1, <1>2 DEF OthersStay, IInv, TypeOK
  <1> QED BY <1>2, <1>3 DEF RollsBack, Refuse, Die

LEMMA DeleteMoves ==
  ASSUME IInv, NEW l \in Loaders, Delete(l)
  PROVE /\ Rebuilds(l)
        /\ load'[l].phase = "deleting" /\ load'[l].table = load[l].table /\ load[l].table \in Tables
        /\ load'[l].found = totals[load[l].table]
        /\ load'[l].deleted = load[l].deleted /\ load'[l].inserted = load[l].inserted
  <1>1. load[l].table \in Tables /\ totals[load[l].table] \in SUBSET Rows
    BY DEF Delete, IInv, TypeOK, Numbered, AtTable, Written
  <1>5. load'[l] = [load[l] EXCEPT !.phase = "deleting", !.found = totals[load[l].table]]
    BY DEF Delete, IInv, TypeOK
  <1>2. load'[l] \in Runs
    <2> DEFINE moved == [load[l] EXCEPT !.phase = "deleting"]
    <2>1. moved \in Runs
      <3>1. load[l] \in Runs
        BY DEF IInv, TypeOK
      <3> QED BY <3>1 DEF Runs, Phases
    <2>2. load'[l] = [moved EXCEPT !.found = totals[load[l].table]]
      BY <1>5
    <2> HIDE DEF moved
    <2> QED BY <1>1, <2>1, <2>2 DEF Runs
  <1>3. /\ load'[l].phase = "deleting" /\ load'[l].table = load[l].table
        /\ load'[l].found = totals[load[l].table]
        /\ load'[l].deleted = load[l].deleted /\ load'[l].inserted = load[l].inserted
        /\ load'[l].number = load[l].number /\ load'[l].read = load[l].read
        /\ load'[l].seen = load[l].seen /\ load'[l].new = load[l].new
    BY DEF Delete, Runs, IInv, TypeOK
  <1>4. OthersStay(l) /\ load' \in [Loaders -> Runs]
    BY <1>2 DEF Delete, OthersStay, IInv, TypeOK
  <1> QED BY <1>1, <1>3, <1>4 DEF Rebuilds, Written, Delete

LEMMA DeletedMoves ==
  ASSUME IInv, NEW l \in Loaders, Deleted(l)
  PROVE /\ Rebuilds(l)
        /\ load'[l].phase = "inserting" /\ load'[l].table = load[l].table /\ load[l].table \in Tables
        /\ load'[l].deleted = [load[l].deleted EXCEPT ![load[l].table] = load[l].found \cap totals[load[l].table]]
        /\ load'[l].inserted = load[l].inserted
  <1>1. load[l].table \in Tables
    BY DEF Deleted, IInv, TypeOK, Numbered, AtTable, Written
  <1>2. load[l].found \cap totals[load[l].table] \in SUBSET Rows
    BY <1>1 DEF Runs, IInv, TypeOK
  <1>3. [load[l].deleted EXCEPT ![load[l].table] = load[l].found \cap totals[load[l].table]] \in [Tables -> SUBSET Rows]
    BY <1>1, <1>2 DEF Runs, IInv, TypeOK
  <1>4. /\ load'[l].phase = "inserting" /\ load'[l].table = load[l].table
        /\ load'[l].deleted = [load[l].deleted EXCEPT ![load[l].table] = load[l].found \cap totals[load[l].table]]
        /\ load'[l].inserted = load[l].inserted
        /\ load'[l].number = load[l].number /\ load'[l].read = load[l].read
        /\ load'[l].seen = load[l].seen /\ load'[l].new = load[l].new
    BY DEF Deleted, Runs, IInv, TypeOK
  <1>5. load'[l] \in Runs
    <2> DEFINE deleted == [load[l].deleted EXCEPT ![load[l].table] = load[l].found \cap totals[load[l].table]]
    <2>1. load'[l] = [load[l] EXCEPT !.phase = "inserting", !.deleted = deleted]
      BY DEF Deleted, IInv, TypeOK
    <2> DEFINE moved == [load[l] EXCEPT !.phase = "inserting"]
    <2>2. moved \in Runs
      <3>1. load[l] \in Runs
        BY DEF IInv, TypeOK
      <3> QED BY <3>1 DEF Runs, Phases
    <2>3. load'[l] = [moved EXCEPT !.deleted = deleted]
      BY <2>1
    <2> HIDE DEF moved, deleted
    <2>4. deleted \in [Tables -> SUBSET Rows]
      BY <1>3 DEF deleted
    <2> QED BY <2>2, <2>3, <2>4 DEF Runs
  <1>6. OthersStay(l) /\ load' \in [Loaders -> Runs]
    BY <1>5 DEF Deleted, OthersStay, IInv, TypeOK
  <1> QED BY <1>1, <1>4, <1>6 DEF Rebuilds, Written, Deleted

LEMMA InsertMoves ==
  ASSUME IInv, NEW l \in Loaders, Insert(l)
  PROVE /\ Rebuilds(l)
        /\ load'[l].phase = (IF load[l].table = 2 THEN "committing" ELSE "rebuilding")
        /\ load'[l].table = load[l].table + 1 /\ load[l].table \in Tables
        /\ load'[l].deleted = load[l].deleted
        /\ load'[l].inserted = [load[l].inserted EXCEPT ![load[l].table] = Derived(VisibleGames(l), load[l].number)]
  <1>1. load[l].table \in Tables
    BY DEF Insert, IInv, TypeOK, Numbered, AtTable, Written
  <1>2. VisibleGames(l) \in SUBSET Games /\ load[l].number \in Nat
    BY DEF VisibleGames, Over, Runs, IInv, TypeOK
  <1>3. Derived(VisibleGames(l), load[l].number) \in SUBSET Rows
    BY <1>2, DerivedRows
  <1>4. /\ load'[l].phase = (IF load[l].table = 2 THEN "committing" ELSE "rebuilding")
        /\ load'[l].table = load[l].table + 1
        /\ load'[l].deleted = load[l].deleted
        /\ load'[l].inserted = [load[l].inserted EXCEPT ![load[l].table] = Derived(VisibleGames(l), load[l].number)]
        /\ load'[l].number = load[l].number /\ load'[l].read = load[l].read
        /\ load'[l].seen = load[l].seen /\ load'[l].new = load[l].new
    BY DEF Insert, Runs, IInv, TypeOK
  <1>5. load'[l] \in Runs
    BY <1>1, <1>3 DEF Insert, Runs, Phases, Tables, IInv, TypeOK
  <1>6. OthersStay(l) /\ load' \in [Loaders -> Runs]
    BY <1>5 DEF Insert, OthersStay, IInv, TypeOK
  <1> QED BY <1>1, <1>4, <1>6 DEF Rebuilds, Written, Insert

LEMMA WriteMoves ==
  ASSUME IInv, NEW l \in Loaders, Write(l)
  PROVE /\ load' \in [Loaders -> Runs] /\ OthersStay(l)
        /\ load'[l].phase = "rebuilding" /\ load'[l].table = 1
        /\ load'[l].number = load[l].number /\ load'[l].read = load[l].read /\ load'[l].seen = load[l].seen
        /\ load'[l].new = Onto(l, WritesOf(l)) /\ Sound(load'[l].new)
        /\ \A g \in load'[l].new : \A h \in stored : h.id = g.id => Promised!Keeps(h, g)
        /\ \A m \in Loaders \ {l} : IdsOf(load'[l].new) \cap IdsOf(load[m].new) = {}
  <1>1. /\ Sound(Onto(l, WritesOf(l)))
        /\ \A g \in Onto(l, WritesOf(l)) : \A h \in stored : h.id = g.id => Promised!Keeps(h, g)
        /\ IdsOf(Onto(l, WritesOf(l))) \subseteq IdsOf(WritesOf(l))
    BY OntoIsReady DEF Write, IInv, Kept, Ready
  <1>2. Onto(l, WritesOf(l)) \in SUBSET Games
    BY <1>1 DEF Sound
  <1>7. load'[l] = [load[l] EXCEPT !.phase = "rebuilding", !.new = Onto(l, WritesOf(l))]
    BY DEF Write, IInv, TypeOK
  <1>8. load'[l] \in Runs
    <2> DEFINE moved == [load[l] EXCEPT !.phase = "rebuilding"]
    <2>1. moved \in Runs
      <3>1. load[l] \in Runs
        BY DEF IInv, TypeOK
      <3> QED BY <3>1 DEF Runs, Phases
    <2>2. load'[l] = [moved EXCEPT !.new = Onto(l, WritesOf(l))]
      BY <1>7
    <2> HIDE DEF moved
    <2> QED BY <1>2, <2>1, <2>2 DEF Runs
  <1>3. /\ load'[l].phase = "rebuilding" /\ load'[l].table = load[l].table
        /\ load'[l].number = load[l].number /\ load'[l].read = load[l].read /\ load'[l].seen = load[l].seen
        /\ load'[l].new = Onto(l, WritesOf(l))
    BY DEF Write, Runs, IInv, TypeOK
  <1>4. load[l].table = 1
    BY DEF Write, IInv, Numbered, AtTable, Written
  <1>5. OthersStay(l) /\ load' \in [Loaders -> Runs]
    BY <1>8 DEF Write, OthersStay, IInv, TypeOK
  <1>6. ASSUME NEW m \in Loaders \ {l}
        PROVE IdsOf(load'[l].new) \cap IdsOf(load[m].new) = {}
    <2>1. CASE Open(m)
      BY <1>1, <1>3, <2>1 DEF Write, Others
    <2>2. CASE ~Open(m)
      <3>1. load[m].new = {}
        BY <2>2 DEF IInv, Kept, Ready, Written, Open
      <3> QED BY <3>1 DEF IdsOf
    <2> QED BY <2>1, <2>2
  <1> QED BY <1>1, <1>3, <1>4, <1>5, <1>6

LEMMA CommitMoves ==
  ASSUME IInv, NEW l \in Loaders, Commit(l)
  PROVE load' \in [Loaders -> Runs] /\ OthersStay(l) /\ IsNoRun(load'[l])
  <1>1. PICK answer \in {"failed", "report"} : load' = [load EXCEPT ![l] = Ended(answer)]
    BY DEF Commit
  <1>2. load'[l] \in Runs /\ IsNoRun(load'[l])
    BY <1>1, NoRunFacts DEF IInv, TypeOK
  <1>3. OthersStay(l) /\ load' \in [Loaders -> Runs]
    BY <1>1, <1>2 DEF OthersStay, IInv, TypeOK
  <1> QED BY <1>2, <1>3

-----------------------------------------------------------------------------
(* The invariant *)

\* Nothing of the loads or of what is stored changes.
Rests == UNCHANGED <<stored, totals, load, begun, alone>>

LEMMA StepCases ==
  ASSUME IInv, [Next]_vars
  PROVE \/ Rests
        \/ \E l \in Loaders : \/ Prepares(l) \/ RollsBack(l) \/ Write(l)
                              \/ Delete(l) \/ Deleted(l) \/ Insert(l) \/ Commit(l)
  <1>1. CASE UNCHANGED vars
    BY <1>1 DEF vars, Rests
  <1>2. CASE LoseLock \/ Upload
    BY <1>2 DEF LoseLock, Upload, Rests
  <1>3. ASSUME NEW l \in Loaders, (\E wanted \in SUBSET Seasons \ {{}} : Begin(l, wanted)) \/ Run(l) \/ Die(l)
        PROVE \/ Prepares(l) \/ RollsBack(l) \/ Write(l)
              \/ Delete(l) \/ Deleted(l) \/ Insert(l) \/ Commit(l)
    BY <1>3, BeginMoves, TryLockMoves, ReadMoves, LookMoves, EndMoves DEF Run
  <1> QED BY <1>1, <1>2, <1>3 DEF Next

\* What a load that rebuilds does leaves everything but its own progress.
LEMMA RebuildCases ==
  ASSUME IInv, NEW l \in Loaders, Delete(l) \/ Deleted(l) \/ Insert(l)
  PROVE Rebuilds(l)
  BY DeleteMoves, DeletedMoves, InsertMoves

LEMMA TypeStep ==
  ASSUME IInv, [Next]_vars
  PROVE TypeOK'
  <1>1. version' \in DOMAIN Datasets
    <2>1. version \in DOMAIN Datasets /\ (version' = version \/ (version < Len(Datasets) /\ version' = version + 1))
      BY DEF Next, vars, LoseLock, Upload, Run, Begin, TryLock, Read, Look, Write, Delete, Deleted, Insert,
             Commit, Refuse, Die, IInv, TypeOK
    <2> QED BY <2>1, DatasetsAssumption
  <1>2. holder' \in Loaders \cup {NoOne}
    BY DEF Next, vars, LoseLock, Upload, Run, Begin, TryLock, Read, Look, Write, Delete, Deleted, Insert,
           Commit, Refuse, Die, Unlocked, IInv, TypeOK
  <1>9. locked' \in BOOLEAN
    <2>1. locked \in BOOLEAN
      BY DEF IInv, TypeOK
    <2>2. \/ locked' = locked \/ locked' = FALSE \/ \E l \in Loaders : locked' = (locked /\ l \in Lambdas)
      BY DEF Next, vars, LoseLock, Upload, Run, Begin, TryLock, Read, Look, Write, Delete, Deleted, Insert,
             Commit, Refuse, Die
    <2> QED BY <2>1, <2>2
  <1>3. CASE Rests
    BY <1>1, <1>2, <1>3, <1>9 DEF Rests, IInv, TypeOK
  <1>4. ASSUME NEW l \in Loaders, Prepares(l)
        PROVE TypeOK'
    BY <1>1, <1>2, <1>4, <1>9 DEF Prepares, IInv, TypeOK
  <1>5. ASSUME NEW l \in Loaders, RollsBack(l)
        PROVE TypeOK'
    BY <1>1, <1>2, <1>5, <1>9 DEF RollsBack, IInv, TypeOK
  <1>6. ASSUME NEW l \in Loaders, Write(l)
        PROVE TypeOK'
    BY <1>1, <1>2, <1>6, <1>9, WriteMoves DEF Write, IInv, TypeOK
  <1>7. ASSUME NEW l \in Loaders, Rebuilds(l)
        PROVE TypeOK'
    BY <1>1, <1>2, <1>7, <1>9 DEF Rebuilds, IInv, TypeOK
  <1>8. ASSUME NEW l \in Loaders, Commit(l)
        PROVE TypeOK'
    <2>1. VisibleGames(l) \in SUBSET Games
      BY DEF VisibleGames, Over, Runs, IInv, TypeOK
    <2>2. \A t \in Tables : VisibleRows(l, t) \in SUBSET Rows
      BY DEF VisibleRows, Runs, IInv, TypeOK
    <2> QED BY <1>1, <1>2, <1>8, <1>9, <2>1, <2>2, CommitMoves DEF Commit, IInv, TypeOK
  <1> QED BY <1>3, <1>4, <1>5, <1>6, <1>7, <1>8, StepCases, RebuildCases

LEMMA KeptStep ==
  ASSUME IInv, [Next]_vars
  PROVE Kept'
  <1>0. Sound({}) /\ IdsOf({}) = {}
    BY DEF Sound, IdsOf
  <1>1. CASE Rests
    BY <1>1 DEF Rests, IInv, Kept, Ready, Apart, Written
  <1>2. ASSUME NEW l \in Loaders, Prepares(l) \/ RollsBack(l)
        PROVE Kept'
    <2>1. /\ OthersStay(l) /\ load'[l].new = {} /\ UNCHANGED stored
          /\ Sound(load'[l].read) /\ Sound(load'[l].seen) /\ Sound(load'[l].new)
      BY <1>0, <1>2 DEF Prepares, RollsBack, IsNoRun
    <2>2. \A m \in Loaders : Ready(m)'
      BY <2>1 DEF OthersStay, IInv, Kept, Ready, Written
    <2>3. Apart'
      BY <1>0, <2>1 DEF OthersStay, IInv, Kept, Apart
    <2> QED BY <2>1, <2>2, <2>3 DEF IInv, Kept
  <1>3. ASSUME NEW l \in Loaders, Write(l)
        PROVE Kept'
    <2>1. UNCHANGED stored /\ OthersStay(l)
      BY <1>3, WriteMoves DEF Write
    <2>2. Ready(l)'
      BY <1>3, <2>1, WriteMoves DEF IInv, Kept, Ready, Written
    <2>3. \A m \in Loaders : Ready(m)'
      BY <2>1, <2>2 DEF OthersStay, IInv, Kept, Ready, Written
    <2>4. \A m \in Loaders \ {l} : IdsOf(load'[l].new) \cap IdsOf(load'[m].new) = {}
      BY <1>3, <2>1, WriteMoves DEF OthersStay
    <2>5. Apart'
      BY <2>1, <2>4 DEF OthersStay, IInv, Kept, Apart
    <2> QED BY <2>1, <2>3, <2>5 DEF IInv, Kept
  <1>4. ASSUME NEW l \in Loaders, Rebuilds(l)
        PROVE Kept'
    <2>1. \A m \in Loaders : /\ load'[m].new = load[m].new /\ load'[m].read = load[m].read
                             /\ load'[m].seen = load[m].seen /\ (Written(m)' <=> Written(m))
      BY <1>4 DEF Rebuilds, OthersStay, Written
    <2>2. UNCHANGED stored
      BY <1>4 DEF Rebuilds
    <2> QED BY <2>1, <2>2 DEF IInv, Kept, Ready, Apart
  <1>5. ASSUME NEW l \in Loaders, Commit(l)
        PROVE Kept'
    <2>1. stored' = Over(stored, load[l].new) /\ OthersStay(l) /\ IsNoRun(load'[l])
      BY <1>5, CommitMoves DEF Commit, VisibleGames
    <2>2. Sound(stored')
      BY <2>1, OverIsSound DEF IInv, Kept, Ready
    <2>3. ASSUME NEW m \in Loaders \ {l}
          PROVE Ready(m)'
      <3>1. load'[m] = load[m] /\ IdsOf(load[m].new) \cap IdsOf(load[l].new) = {}
        BY <2>1 DEF OthersStay, IInv, Kept, Apart
      <3>2. ASSUME NEW g \in load[m].new, NEW h \in stored', h.id = g.id
            PROVE h \in stored
        BY <2>1, <3>1, <3>2 DEF Over, IdsOf
      <3> QED BY <3>1, <3>2 DEF IInv, Kept, Ready, Written
    <2>4. Ready(l)'
      BY <1>0, <2>1 DEF IsNoRun, Ready
    <2>5. Apart'
      BY <1>0, <2>1 DEF OthersStay, IsNoRun, IInv, Kept, Apart
    <2> QED BY <2>2, <2>3, <2>4, <2>5 DEF Kept
  <1> QED BY <1>1, <1>2, <1>3, <1>4, <1>5, StepCases, RebuildCases

LEMMA NumberedStep ==
  ASSUME IInv, [Next]_vars
  PROVE Numbered'
  <1>0. begun \in Nat /\ \A m \in Loaders : load[m].number \in 0..begun /\ AtTable(m)
    BY DEF IInv, TypeOK, Numbered
  <1>1. CASE Rests
    BY <1>1 DEF Rests, IInv, Numbered, AtTable, Written
  <1>2. ASSUME NEW l \in Loaders, Prepares(l)
        PROVE Numbered'
    <2>1. \A n \in 0..begun : n \in 0..begun'
      BY <1>0, <1>2 DEF Prepares
    <2>2. AtTable(l)' /\ load'[l].number \in 0..begun'
      BY <1>2 DEF Prepares, AtTable, Written
    <2>3. \A m \in Loaders \ {l} : load'[m].number \in 0..begun' /\ AtTable(m)'
      BY <1>0, <1>2, <2>1 DEF Prepares, OthersStay, AtTable, Written
    <2> QED BY <2>2, <2>3 DEF Numbered
  <1>3. ASSUME NEW l \in Loaders, RollsBack(l) \/ (Commit(l) /\ IsNoRun(load'[l]) /\ OthersStay(l))
        PROVE Numbered'
    <2>1. OthersStay(l) /\ IsNoRun(load'[l]) /\ UNCHANGED begun
      BY <1>3 DEF RollsBack, Commit
    <2>2. AtTable(l)' /\ load'[l].number \in 0..begun'
      BY <1>0, <2>1 DEF IsNoRun, AtTable, Written
    <2> QED BY <1>0, <2>1, <2>2 DEF OthersStay, Numbered, AtTable, Written
  <1>4. ASSUME NEW l \in Loaders, Write(l)
        PROVE Numbered'
    <2>1. UNCHANGED begun /\ OthersStay(l)
      BY <1>4, WriteMoves DEF Write
    <2>2. AtTable(l)' /\ load'[l].number \in 0..begun'
      BY <1>0, <1>4, <2>1, WriteMoves DEF AtTable, Written, Tables
    <2> QED BY <1>0, <2>1, <2>2 DEF OthersStay, Numbered, AtTable, Written
  <1>5. ASSUME NEW l \in Loaders, Delete(l) \/ Deleted(l) \/ Insert(l)
        PROVE Numbered'
    <2>1. Rebuilds(l)
      BY <1>5, RebuildCases
    <2>2. AtTable(l)'
      <3>1. CASE Delete(l) \/ Deleted(l)
        BY <3>1, DeleteMoves, DeletedMoves DEF AtTable, Written
      <3>2. CASE Insert(l)
        <4>1. /\ load'[l].phase = (IF load[l].table = 2 THEN "committing" ELSE "rebuilding")
              /\ load'[l].table = load[l].table + 1 /\ load[l].table \in Tables
          BY <3>2, InsertMoves
        <4>2. load[l].table = 1 \/ load[l].table = 2
          BY <4>1 DEF Tables
        <4> QED BY <4>1, <4>2 DEF AtTable, Written, Tables
      <3> QED BY <1>5, <3>1, <3>2
    <2> QED BY <1>0, <2>1, <2>2 DEF Rebuilds, OthersStay, Numbered, AtTable, Written
  <1> QED BY <1>1, <1>2, <1>3, <1>4, <1>5, StepCases, CommitMoves

\* A load nobody else touches stays where it is with its tables.
LEMMA RebuiltStays ==
  ASSUME NEW m \in Loaders, load'[m] = load[m], UNCHANGED <<stored, totals>>, Rebuilt(m)
  PROVE Rebuilt(m)'
  BY DEF Rebuilt, Written, VisibleGames

\* A load that has written nothing has rebuilt nothing.
LEMMA RebuiltNothing ==
  ASSUME NEW m \in Loaders,
         load'[m].phase \notin {"rebuilding", "deleting", "inserting", "committing"}
  PROVE Rebuilt(m)'
  BY DEF Rebuilt, Written

LEMMA RebuiltByDelete ==
  ASSUME IInv, NEW l \in Loaders, Delete(l), Rebuilt(l)
  PROVE Rebuilt(l)'
  <1>1. /\ Rebuilds(l)
        /\ load'[l].phase = "deleting" /\ load'[l].table = load[l].table /\ load[l].table \in Tables
        /\ load'[l].found = totals[load[l].table]
        /\ load'[l].deleted = load[l].deleted /\ load'[l].inserted = load[l].inserted
    BY DeleteMoves
  <1>2. VisibleGames(l)' = VisibleGames(l) /\ load'[l].number = load[l].number /\ UNCHANGED totals /\ Written(l)
    BY <1>1 DEF Rebuilds, VisibleGames
  <1> QED BY <1>1, <1>2 DEF Rebuilt

LEMMA RebuiltByDeleted ==
  ASSUME IInv, NEW l \in Loaders, Deleted(l), Rebuilt(l)
  PROVE Rebuilt(l)'
  <1> DEFINE table == load[l].table
  <1>1. /\ Rebuilds(l)
        /\ load'[l].phase = "inserting" /\ load'[l].table = table /\ table \in Tables
        /\ load'[l].deleted = [load[l].deleted EXCEPT ![table] = load[l].found \cap totals[table]]
        /\ load'[l].inserted = load[l].inserted
    BY DeletedMoves
  <1>2. VisibleGames(l)' = VisibleGames(l) /\ load'[l].number = load[l].number /\ UNCHANGED totals /\ Written(l)
    BY <1>1 DEF Rebuilds, VisibleGames
  <1>3. load[l].found = totals[table] /\ load[l].deleted \in [Tables -> SUBSET Rows]
    BY DEF Deleted, Rebuilt, IInv, TypeOK, Runs
  <1> HIDE DEF table
  <1>4. load'[l].deleted[table] = totals[table]
        /\ \A t \in Tables : t < table => load'[l].deleted[t] = load[l].deleted[t]
    <2>1. load'[l].deleted[table] = load[l].found \cap totals[table]
      BY <1>1, <1>3
    <2>2. \A t \in Tables : t # table => load'[l].deleted[t] = load[l].deleted[t]
      BY <1>1, <1>3
    <2>3. \A t \in Tables : t < table => t # table
      BY <1>1 DEF Tables
    <2> QED BY <1>3, <2>1, <2>2, <2>3
  <1>5. \A t \in Tables : t < table =>
          load[l].deleted[t] = totals[t] /\ load[l].inserted[t] = Derived(VisibleGames(l), load[l].number)
    BY <1>2 DEF Rebuilt, table
  <1> QED BY <1>1, <1>2, <1>4, <1>5 DEF Rebuilt

LEMMA RebuiltByInsert ==
  ASSUME IInv, NEW l \in Loaders, Insert(l), Rebuilt(l)
  PROVE Rebuilt(l)'
  <1> DEFINE table == load[l].table
             derived == Derived(VisibleGames(l), load[l].number)
  <1>1. /\ Rebuilds(l)
        /\ load'[l].phase = (IF table = 2 THEN "committing" ELSE "rebuilding")
        /\ load'[l].table = table + 1 /\ table \in Tables
        /\ load'[l].deleted = load[l].deleted
        /\ load'[l].inserted = [load[l].inserted EXCEPT ![table] = derived]
    BY InsertMoves
  <1>2. VisibleGames(l)' = VisibleGames(l) /\ load'[l].number = load[l].number /\ UNCHANGED totals /\ Written(l)
    BY <1>1 DEF Rebuilds, VisibleGames
  <1>3. load[l].deleted[table] = totals[table] /\ load[l].inserted \in [Tables -> SUBSET Rows]
    BY DEF Insert, Rebuilt, IInv, TypeOK, Runs
  <1>4. \A t \in Tables : t < table => load[l].deleted[t] = totals[t] /\ load[l].inserted[t] = derived
    BY <1>2 DEF Rebuilt
  <1>5. Derived(VisibleGames(l), load[l].number)' = derived
    BY <1>2 DEF Derived
  <1> HIDE DEF table, derived
  <1>6. \A t \in Tables : t < table + 1 => t < table \/ t = table
    BY <1>1 DEF Tables
  <1>7. \A t \in Tables : t < load'[l].table =>
          load'[l].deleted[t] = totals[t] /\ load'[l].inserted[t] = derived
    BY <1>1, <1>3, <1>4, <1>6 DEF Tables
  <1>8. load'[l].phase # "deleting" /\ load'[l].phase # "inserting"
    BY <1>1
  <1> QED BY <1>2, <1>5, <1>7, <1>8 DEF Rebuilt

LEMMA LoneStep ==
  ASSUME IInv, [Next]_vars
  PROVE Lone'
  <1>0. begun \in Nat /\ alone \in BOOLEAN
    BY DEF IInv, TypeOK
  <1>1. CASE Rests
    <2>1. \A m \in Loaders : load'[m] = load[m]
      BY <1>1 DEF Rests
    <2>2. alone => \A m \in Loaders : Rebuilt(m)'
      BY <1>1, <2>1, RebuiltStays DEF Rests, IInv, Lone
    <2>3. alone => \A l, m \in Loaders : Open(l)' /\ Open(m)' => l = m
      BY <2>1 DEF IInv, Lone, Open
    <2>4. alone => \A t \in Tables : \E n \in 0..begun' : totals'[t] = Derived(stored', n)
      BY <1>1 DEF Rests, IInv, Lone
    <2> QED BY <1>1, <2>2, <2>3, <2>4 DEF Rests, Lone, Derived
  <1>2. ASSUME NEW l \in Loaders, Prepares(l) \/ RollsBack(l)
        PROVE Lone'
    <2> SUFFICES ASSUME alone' PROVE Lone'
      BY DEF Lone
    <2>1. /\ alone /\ OthersStay(l) /\ UNCHANGED <<stored, totals>>
          /\ load'[l].phase \in {"idle", "locking", "reading", "looking", "writing"}
          /\ load'[l].phase = "writing" => Others(l) = {}
          /\ begun \in 0..begun' /\ begun' \in Nat
      <3>1. CASE Prepares(l)
        BY <3>1, Zenon DEF Prepares
      <3>2. CASE RollsBack(l)
        <4>1. begun \in 0..begun' /\ begun' \in Nat
          BY <1>0, <3>2 DEF RollsBack
        <4>2. load'[l].phase = "idle" /\ alone
          BY <3>2 DEF RollsBack, IsNoRun
        <4> QED BY <3>2, <4>1, <4>2 DEF RollsBack
      <3> QED BY <1>2, <3>1, <3>2
    <2>2. \A m \in Loaders : Rebuilt(m)'
      <3>1. Rebuilt(l)'
        BY <2>1, RebuiltNothing
      <3>2. \A m \in Loaders \ {l} : Rebuilt(m)'
        BY <2>1, RebuiltStays DEF OthersStay, IInv, Lone
      <3> QED BY <3>1, <3>2
    <2>3. \A k, m \in Loaders : Open(k)' /\ Open(m)' => k = m
      <3>1. \A m \in Loaders \ {l} : Open(m)' => Open(m)
        BY <2>1 DEF OthersStay, Open
      <3>2. Open(l)' => \A m \in Loaders \ {l} : ~Open(m)'
        BY <2>1, <3>1 DEF Open, Others
      <3> QED BY <2>1, <3>1, <3>2 DEF IInv, Lone
    <2>4. \A t \in Tables : \E n \in 0..begun' : totals'[t] = Derived(stored', n)
      <3>1. \A n \in 0..begun : n \in 0..begun'
        BY <1>0, <2>1
      <3> QED BY <2>1, <3>1 DEF IInv, Lone
    <2> QED BY <2>2, <2>3, <2>4 DEF Lone, Derived
  <1>3. ASSUME NEW l \in Loaders, Write(l) \/ Rebuilds(l), alone => Rebuilt(l)'
        PROVE Lone'
    <2>1. OthersStay(l) /\ UNCHANGED <<stored, totals, begun, alone>> /\ Open(l)
      BY <1>3, WriteMoves DEF Write, Rebuilds, Open, Written
    <2>2. alone => \A m \in Loaders : Rebuilt(m)'
      BY <1>3, <2>1, RebuiltStays DEF OthersStay, IInv, Lone
    <2>3. alone => \A k, m \in Loaders : Open(k)' /\ Open(m)' => k = m
      BY <2>1 DEF OthersStay, IInv, Lone, Open
    <2>4. alone => \A t \in Tables : \E n \in 0..begun' : totals'[t] = Derived(stored', n)
      BY <2>1 DEF IInv, Lone
    <2> QED BY <2>1, <2>2, <2>3, <2>4 DEF Lone, Derived
  <1>4. ASSUME NEW l \in Loaders, Write(l)
        PROVE Lone'
    <2>1. Rebuilt(l)'
      BY <1>4, WriteMoves DEF Rebuilt, Tables
    <2> QED BY <1>3, <1>4, <2>1
  <1>5. ASSUME NEW l \in Loaders, Delete(l) \/ Deleted(l) \/ Insert(l)
        PROVE Lone'
    <2>1. alone => Rebuilt(l)'
      BY <1>5, RebuiltByDelete, RebuiltByDeleted, RebuiltByInsert DEF IInv, Lone
    <2> QED BY <1>3, <1>5, <2>1, RebuildCases
  <1>6. ASSUME NEW l \in Loaders, Commit(l)
        PROVE Lone'
    <2> SUFFICES ASSUME alone' PROVE Lone'
      BY DEF Lone
    <2>1. /\ alone /\ OthersStay(l) /\ IsNoRun(load'[l]) /\ UNCHANGED begun
          /\ load[l].phase = "committing" /\ load[l].table = 3 /\ Written(l) /\ Open(l)
      BY <1>6, CommitMoves DEF Commit, IInv, Numbered, AtTable, Written, Open
    <2>2. \A m \in Loaders \ {l} : ~Open(m) /\ load'[m] = load[m]
      BY <2>1 DEF OthersStay, IInv, Lone
    <2>3. \A m \in Loaders : ~Open(m)'
      BY <2>1, <2>2 DEF Open, IsNoRun
    <2>4. \A m \in Loaders : Rebuilt(m)'
      BY <2>3, RebuiltNothing DEF Open
    <2>5. ASSUME NEW t \in Tables
          PROVE totals'[t] = Derived(stored', load[l].number)
      <3>1. load[l].deleted[t] = totals[t] /\ load[l].inserted[t] = Derived(VisibleGames(l), load[l].number)
        BY <2>1 DEF IInv, Lone, Rebuilt, Tables
      <3>2. totals'[t] = VisibleRows(l, t) /\ stored' = VisibleGames(l)
        BY <1>6 DEF Commit
      <3> QED BY <3>1, <3>2 DEF VisibleRows
    <2>6. load[l].number \in 0..begun'
      BY <2>1 DEF IInv, Numbered
    <2> QED BY <2>3, <2>4, <2>5, <2>6 DEF Lone
  <1> QED BY <1>1, <1>2, <1>4, <1>5, <1>6, StepCases

LEMMA Initially == Init => IInv
  <1> SUFFICES ASSUME Init PROVE IInv
    OBVIOUS
  <1>0. NoRun \in Runs /\ IsNoRun(NoRun)
    BY NoRunFacts
  <1>1. \A l \in Loaders : load[l] = NoRun
    BY DEF Init
  <1>2. TypeOK
    BY <1>0, DatasetsAssumption DEF Init, TypeOK
  <1>3. Sound({}) /\ IdsOf({}) = {}
    BY DEF Sound, IdsOf
  <1>4. Kept
    BY <1>0, <1>1, <1>3 DEF Init, Kept, Ready, Apart, IsNoRun
  <1>5. Numbered
    BY <1>0, <1>1 DEF Init, Numbered, AtTable, Written, IsNoRun
  <1>6. \A l \in Loaders : ~Open(l) /\ Rebuilt(l)
    BY <1>0, <1>1 DEF Open, Rebuilt, Written, IsNoRun
  <1>7. \A t \in Tables : totals[t] = Derived(stored, 0)
    BY DEF Init, Derived
  <1>8. Lone
    BY <1>6, <1>7 DEF Init, Lone
  <1> QED BY <1>2, <1>4, <1>5, <1>8 DEF IInv

LEMMA Stepwise == IInv /\ [Next]_vars => IInv'
  BY TypeStep, KeptStep, NumberedStep, LoneStep DEF IInv

\* Everything the loads rely on: the types, that open loads keep what is stored
\* and write different games, and how far a load that is alone has come.
THEOREM InvariantCorrect == Spec => []IInv
  BY Initially, Stepwise, PTL DEF Spec

-----------------------------------------------------------------------------
(* The lock *)

\* Past the lock, a load holds it.
Holds ==
  \A l \in Loaders : load[l].phase \notin {"idle", "locking"} => holder = l

LEMMA HoldsStep ==
  ASSUME locked', IInv, Holds, [Next]_vars
  PROVE Holds'
  <1>1. CASE UNCHANGED vars
    BY <1>1 DEF vars, Holds
  <1>2. CASE LoseLock \/ Upload
    BY <1>2 DEF LoseLock, Upload, Holds
  <1>3. ASSUME NEW l \in Loaders, NEW wanted \in SUBSET Seasons \ {{}}, Begin(l, wanted)
        PROVE Holds'
    <2>1. load'[l].phase = "locking" /\ OthersStay(l) /\ UNCHANGED holder
      <3>1. l \in Lambdas
        BY <1>3 DEF Begin
      <3>2. load' = [load EXCEPT ![l] = [NoRun EXCEPT !.phase = "locking", !.number = begun + 1, !.wanted = wanted]]
        BY <1>3, <3>1 DEF Begin
      <3> QED BY <1>3, <3>2 DEF Begin, OthersStay, NoRun, IInv, TypeOK
    <2> QED BY <2>1 DEF Holds, OthersStay
  <1>4. ASSUME NEW l \in Loaders, TryLock(l)
        PROVE Holds'
    <2>1. CASE holder = NoOne /\ holder' = l
      <3>1. \A m \in Loaders : load[m].phase \in {"idle", "locking"}
        BY <2>1, LoadersAssumption DEF Holds
      <3>2. OthersStay(l)
        BY <1>4, TryLockMoves DEF Prepares
      <3> QED BY <2>1, <3>1, <3>2 DEF OthersStay, Holds
    <2>2. CASE load' = [load EXCEPT ![l] = Ended("locked")] /\ UNCHANGED holder
      <3>1. load'[l].phase = "idle"
        BY <2>2, NoRunFacts DEF IsNoRun, IInv, TypeOK
      <3> QED BY <2>2, <3>1 DEF Holds, IInv, TypeOK
    <2> QED BY <1>4, <2>1, <2>2 DEF TryLock
  <1>5. ASSUME NEW l \in Loaders, Read(l) \/ Look(l) \/ Write(l) \/ Delete(l) \/ Deleted(l) \/ Insert(l)
        PROVE Holds'
    <2>1. load[l].phase \notin {"idle", "locking"} /\ UNCHANGED holder
      BY <1>5 DEF Read, Look, Write, Delete, Deleted, Insert
    <2>2. OthersStay(l)
      BY <1>5, ReadMoves, LookMoves, WriteMoves, RebuildCases DEF Prepares, Rebuilds
    <2> QED BY <2>1, <2>2 DEF Holds, OthersStay
  <1>6. ASSUME NEW l \in Loaders, Commit(l) \/ Refuse(l) \/ Die(l)
        PROVE Holds'
    <2>1. load'[l].phase = "idle" /\ OthersStay(l)
      BY <1>6, CommitMoves, EndMoves DEF RollsBack, IsNoRun
    <2>2. holder' = holder \/ (holder' = NoOne /\ holder = l)
      BY <1>6 DEF Commit, Refuse, Die, Unlocked
    <2>3. \A m \in Loaders \ {l} : load'[m].phase \notin {"idle", "locking"} => holder = m
      BY <2>1 DEF OthersStay, Holds
    <2> QED BY <2>1, <2>2, <2>3 DEF Holds
  <1> QED BY <1>1, <1>2, <1>3, <1>4, <1>5, <1>6 DEF Next, Run

LEMMA AloneStep ==
  ASSUME IInv, Holds, alone, [Next]_vars
  PROVE alone'
  <1>1. ASSUME NEW l \in Loaders, Look(l)
        PROVE alone'
    <2>1. holder = l
      BY <1>1 DEF Look, Holds
    <2>2. Others(l) = {}
      BY <2>1 DEF Others, Open, Holds
    <2> QED BY <1>1, <2>2 DEF Look
  <1> QED BY <1>1 DEF Next, vars, LoseLock, Upload, Run, Begin, TryLock, Read, Write, Delete, Deleted, Insert,
                      Commit, Refuse, Die

\* What has been locked so far was locked before.
LEMMA LockedBefore ==
  ASSUME IInv, [Next]_vars, locked'
  PROVE locked
  BY DEF Next, vars, LoseLock, Upload, Run, Begin, TryLock, Read, Look, Write, Delete, Deleted, Insert,
         Commit, Refuse, Die

\* While every load takes the lock and keeps it, no two loads run at the same
\* time: the command line and a lost connection are the only ways around it
\* (load_handler.py LOAD_LOCK_KEY).
THEOREM LockKeepsLoadsApart == Spec => [](locked => alone)
  <1> DEFINE LInv == locked => Holds /\ alone
  <1>1. Init => LInv
    BY NoRunFacts DEF Init, Holds, IsNoRun
  <1>2. IInv /\ LInv /\ [Next]_vars => LInv'
    BY HoldsStep, AloneStep, LockedBefore
  <1>3. LInv => (locked => alone)
    OBVIOUS
  <1> QED BY <1>1, <1>2, <1>3, InvariantCorrect, PTL DEF Spec

-----------------------------------------------------------------------------
(* What readers are promised *)

\* Of derived totals, a season has one row, and what is shown of them is what
\* is promised.
LEMMA DerivedAsPromised ==
  ASSUME NEW games, NEW n
  PROVE /\ \A r, q \in Derived(games, n) : r.season = q.season => r = q
        /\ {[season |-> r.season, of |-> r.of] : r \in Derived(games, n)} = Promised!Derived(games)
  <1> DEFINE seasons == {g.season : g \in games}
             of(s) == {g \in games : g.season = s}
             row(s) == [season |-> s, of |-> of(s), by |-> n]
             shown == {[season |-> r.season, of |-> r.of] : r \in Derived(games, n)}
  <1>1. Derived(games, n) = {row(s) : s \in seasons}
    BY DEF Derived
  <1>2. Promised!Derived(games) = {[season |-> s, of |-> of(s)] : s \in seasons}
    BY DEF Promised!Derived
  <1> HIDE DEF seasons, of
  <1>3. \A s \in seasons : row(s).season = s /\ row(s).of = of(s)
    OBVIOUS
  <1>4. \A r \in Derived(games, n) : \E s \in seasons : r = row(s)
    BY <1>1
  <1> HIDE DEF row
  <1>5. ASSUME NEW r \in Derived(games, n), NEW q \in Derived(games, n), r.season = q.season
        PROVE r = q
    BY <1>3, <1>4, <1>5
  <1>6. shown \subseteq {[season |-> s, of |-> of(s)] : s \in seasons}
    BY <1>3, <1>4
  <1>7. ASSUME NEW s \in seasons
        PROVE [season |-> s, of |-> of(s)] \in shown
    <2>1. row(s) \in Derived(games, n)
      BY <1>1
    <2> QED BY <1>3, <2>1
  <1> QED BY <1>2, <1>5, <1>6, <1>7

\* The totals are those of the games that are stored (record_totals.py rebuilds
\* both tables in the load's own transaction), unless a load without the lock, or
\* one that lost it, has run next to another.
THEOREM TotalsCorrect == Spec => []TotalsAreCurrent
  <1>1. ASSUME IInv, locked => alone PROVE TotalsAreCurrent
    <2> SUFFICES ASSUME alone, NEW t \in Tables
                 PROVE /\ \A r, q \in totals[t] : r.season = q.season => r = q
                       /\ Shown(t) = {[season |-> s, of |-> {g \in stored : g.season = s}] : s \in {g.season : g \in stored}}
      BY <1>1 DEF TotalsAreCurrent
    <2>1. PICK n \in 0..begun : totals[t] = Derived(stored, n)
      BY <1>1 DEF IInv, Lone
    <2>2. \A r, q \in totals[t] : r.season = q.season => r = q
      BY <2>1, DerivedAsPromised
    <2>3. Shown(t) = Promised!Derived(stored)
      BY <2>1, DerivedAsPromised DEF Shown
    <2> QED BY <2>2, <2>3 DEF Promised!Derived
  <1> QED BY <1>1, InvariantCorrect, LockKeepsLoadsApart, PTL

\* A commit keeps the result of every stored game, and its box score.
LEMMA CommitKeeps ==
  ASSUME IInv, NEW l \in Loaders, Commit(l)
  PROVE \A g \in stored : \E h \in stored' : Promised!Keeps(g, h)
  <1>1. stored' = Over(stored, load[l].new)
    BY DEF Commit, VisibleGames
  <1>2. ASSUME NEW g \in stored
        PROVE \E h \in stored' : Promised!Keeps(g, h)
    <2>1. CASE g.id \in IdsOf(load[l].new)
      <3>1. PICK h \in load[l].new : h.id = g.id
        BY <2>1 DEF IdsOf
      <3>2. Promised!Keeps(g, h)
        BY <3>1 DEF IInv, Kept, Ready
      <3> QED BY <1>1, <3>2 DEF Over
    <2>2. CASE g.id \notin IdsOf(load[l].new)
      <3>1. g \in stored'
        BY <1>1, <2>2 DEF Over
      <3> QED BY <3>1 DEF Promised!Keeps
    <2> QED BY <2>1, <2>2
  <1> QED BY <1>2

\* Loads next to each other implement what readers are promised: results are
\* only added, and the totals change with the games (nba_history.py "One
\* transaction per run"; _check_agrees).
THEOREM PromiseKept == Spec => KeepsThePromise
  <1>1. Init => Promised!Init
    BY DEF Init, Promised!Init, Shown
  <1>2. ASSUME IInv, IInv', [Next]_vars
        PROVE [Promised!Next]_<<stored, [t \in Tables |-> Shown(t)], alone>>
    <2> DEFINE shown == [t \in Tables |-> Shown(t)]
    <2>1. UNCHANGED totals => UNCHANGED shown
      BY DEF Shown
    <2>2. CASE Rests
      BY <2>1, <2>2 DEF Rests
    <2>3. ASSUME NEW l \in Loaders, Prepares(l) \/ RollsBack(l) \/ Write(l) \/ Rebuilds(l)
          PROVE (alone' = alone \/ alone' = FALSE) /\ UNCHANGED <<stored, totals>>
      <3>1. CASE Prepares(l)
        BY <3>1, Zenon DEF Prepares
      <3>2. CASE RollsBack(l) \/ Write(l) \/ Rebuilds(l)
        BY <3>2 DEF RollsBack, Write, Rebuilds
      <3> QED BY <2>3, <3>1, <3>2
    <2>4. ASSUME (alone' = alone \/ alone' = FALSE) /\ UNCHANGED <<stored, totals>>
          PROVE [Promised!Next]_<<stored, shown, alone>>
      BY <2>1, <2>4 DEF Promised!Next, Promised!Overlap
    <2>5. ASSUME NEW l \in Loaders, Commit(l)
          PROVE Promised!Load
      <3>1. \A g \in stored : \E h \in stored' : Promised!Keeps(g, h)
        BY <1>2, <2>5, CommitKeeps
      <3>2. stored' \subseteq Games
        BY <1>2 DEF IInv, Kept, Sound
      <3>3. alone' => \A t \in Tables : Shown(t)' = Promised!Derived(stored')
        <4> SUFFICES ASSUME alone', NEW t \in Tables PROVE Shown(t)' = Promised!Derived(stored')
          OBVIOUS
        <4>1. PICK n \in 0..begun' : totals'[t] = Derived(stored', n)
          BY <1>2 DEF IInv, Lone, Derived
        <4> QED BY <4>1, DerivedAsPromised DEF Shown
      <3>4. alone' => shown' = [t \in Tables |-> Promised!Derived(stored')]
        BY <3>3
      <3>5. alone' = alone
        BY <2>5 DEF Commit
      <3> QED BY <3>1, <3>2, <3>4, <3>5 DEF Promised!Load
    <2> QED BY <1>2, <2>2, <2>3, <2>4, <2>5, StepCases, RebuildCases DEF Promised!Next
  <1> QED BY <1>1, <1>2, InvariantCorrect, PTL DEF Spec, KeepsThePromise, Promised!Spec

=============================================================================
