----------------------------- MODULE EventProofs ----------------------------
(***************************************************************************)
(* Proofs about the events' two modules over data of any size.             *)
(*                                                                         *)
(* NbaData: everything rests on one fact: no two games of one id are read, *)
(* none are written, and so none are stored (Keyed).                       *)
(*                                                                         *)
(* Records: the holder of a record heads its list.  The rows of any kind   *)
(* of record can be listed (Listable: finitely many, their keys are        *)
(* numbers, and no two are level on all of them), and any rows that can be *)
(* listed are headed by their holder.  What is stored is what was loaded   *)
(* (RecordsInv), and so two reads of the same rows agree: totals and       *)
(* lines, records and games, and the pages that show the same thing.       *)
(***************************************************************************)
EXTENDS NbaData, RecordsInvariant, FiniteSetTheorems, WellFoundedInduction, TLAPS

\* A game with its fields, and games told apart by their ids.
IsGame(s) == s = [id |-> s.id, season |-> s.season, result |-> s.result, fields |-> s.fields, box |-> s.box]
Keyed(games) == /\ \A s \in games : IsGame(s)
                /\ \A s \in games, t \in games : s.id = t.id => s = t

DatasetType ==
  /\ files \in [games : Seq(GameRows), team_stats : Seq(TeamRows), box : Seq(BoxRows), players : Seq(PlayerRows)]
  /\ \A s \in stored : IsGame(s)

IInv == DatasetType /\ Keyed(stored)

-----------------------------------------------------------------------------
(* Reading *)

\* What is not refused has one row of each game, and the games kept are those
\* no rule skips.
LEMMA RowsAreKeyed ==
  ASSUME NEW file, ~read_games(file, {}).error
  PROVE  /\ \A g \in ScopedRows(file, {}), h \in ScopedRows(file, {}) : g.id = h.id => g = h
         /\ read_games(file, {}).games = {g \in ScopedRows(file, {}) : Skips(g) = "none"}
<1> DEFINE rows == ScopedRows(file, {})
           kept == {g \in rows : Skips(g) = "none"}
           refuses == \/ \E i \in DOMAIN file : file[i].id.digits # 8
                      \/ \E g \in rows : g.bad
                      \/ \E g, h \in rows : g.id = h.id /\ g # h
                      \/ \E g \in kept : \/ g.id.type \notin DOMAIN STORED_GAME_TYPES
                                         \/ {g.home, g.away} \ TEAMS # {}
<1>1. read_games(file, {}) = IF refuses THEN Refused ELSE [error |-> FALSE, games |-> kept]
  BY DEF read_games
<1> HIDE DEF kept, rows
<1>2. ~refuses
  BY <1>1 DEF Refused
<1>3. read_games(file, {}).games = kept
  BY <1>1, <1>2
<1> QED
  BY <1>2, <1>3 DEF rows, kept

LEMMA ReadIsKeyed ==
  ASSUME NEW fs, ~read_dataset(fs, {}).error
  PROVE  /\ ~read_games(fs.games, {}).error
         /\ read_dataset(fs, {}).games
              = {ReadGame(fs, read_games(fs.games, {}).games, g) : g \in read_games(fs.games, {}).games}
         /\ Keyed(read_dataset(fs, {}).games)
<1> DEFINE read == read_games(fs.games, {})
           games == {ReadGame(fs, read.games, g) : g \in read.games}
<1>1. ~read.error /\ read_dataset(fs, {}).games = games
  BY DEF read_dataset, Refused
<1>2. \A g \in read.games, h \in read.games : g.id = h.id => g = h
  BY <1>1, RowsAreKeyed
<1> HIDE DEF read
<1>3. \A g : ReadGame(fs, read.games, g).id = g.id /\ IsGame(ReadGame(fs, read.games, g))
  BY DEF ReadGame, IsGame
<1>4. Keyed(games)
  BY <1>2, <1>3 DEF Keyed
<1> QED
  BY <1>1, <1>4 DEF read

LEMMA IdFinds ==
  ASSUME NEW games, Keyed(games), NEW s \in games
  PROVE  Known(games, s.id) /\ ById(games, s.id) = s
BY DEF Keyed, Known, ById

-----------------------------------------------------------------------------
(* Writing *)

LEMMA SameGame ==
  ASSUME NEW s, IsGame(s), NEW t, IsGame(t),
         s.id = t.id, s.season = t.season, s.result = t.result, s.fields = t.fields, s.box = t.box
  PROVE  s = t
<1> DEFINE r == [id |-> s.id, season |-> s.season, result |-> s.result, fields |-> s.fields, box |-> s.box]
<1>1. s = r
  BY DEF IsGame
<1>2. t = r
  BY DEF IsGame
<1> QED
  BY <1>1, <1>2

LEMMA MergedGame ==
  ASSUME NEW s, IsGame(s), NEW g
  PROVE  /\ IsGame(Merged(s, g)) /\ Merged(s, g).id = s.id /\ Merged(s, g).season = s.season
         /\ Merged(s, g).result = g.result /\ Merged(s, g).fields = g.fields
         /\ Merged(s, g).box = IF s.box = {} THEN g.box ELSE s.box
<1>1. Merged(s, g) = [id |-> s.id, season |-> s.season, result |-> g.result, fields |-> g.fields,
                      box |-> IF s.box = {} THEN g.box ELSE s.box]
  <2>1. s \in [id : {s.id}, season : {s.season}, result : {s.result}, fields : {s.fields}, box : {s.box}]
    BY DEF IsGame
  <2>2. Merged(s, g) \in [id : {s.id}, season : {s.season}, result : {g.result}, fields : {g.fields},
                          box : {IF s.box = {} THEN g.box ELSE s.box}]
    BY <2>1 DEF Merged
  <2> QED
    BY <2>2
<1> QED
  BY <1>1 DEF IsGame

\* A load keeps the ids apart and every stored result and box score, and what it
\* read is what a second load finds.
LEMMA WrittenGames ==
  ASSUME NEW S, Keyed(S), NEW R, Keyed(R), ~write_games(S, R).error
  PROVE  /\ Keyed(write_games(S, R).games)
         /\ \A s \in S : \E n \in write_games(S, R).games :
              n.id = s.id /\ n.result = s.result /\ (s.box # {} => n.box = s.box)
         /\ \A g \in R : Did(write_games(S, R).games, g) = "already_present"
<1> DEFINE made(g) == IF Known(S, g.id) THEN Merged(ById(S, g.id), g) ELSE g
           left == {s \in S : ~Known(R, s.id)}
           W == left \cup {made(g) : g \in R}
<1>1. write_games(S, R).games = W /\ \A g \in R : Known(S, g.id) => ById(S, g.id).result = g.result
  BY DEF write_games, Refused, check_agrees
<1>2. ASSUME NEW g \in R
      PROVE  /\ IsGame(made(g)) /\ made(g).id = g.id /\ made(g).result = g.result /\ made(g).fields = g.fields
             /\ made(g).box = {} => g.box = {}
             /\ \A s \in S : s.id = g.id => s.result = g.result /\ (s.box # {} => made(g).box = s.box)
  <2>1. CASE ~Known(S, g.id)
    BY <2>1 DEF Known, Keyed
  <2>2. CASE Known(S, g.id)
    <3>1. PICK s \in S : s.id = g.id
      BY <2>2 DEF Known
    <3>2. ById(S, g.id) = s /\ IsGame(s) /\ \A t \in S : t.id = g.id => t = s
      BY <3>1, IdFinds DEF Keyed
    <3>3. made(g) = Merged(s, g) /\ s.result = g.result
      BY <1>1, <2>2, <3>2
    <3> QED
      BY <3>1, <3>2, <3>3, MergedGame
  <2> QED
    BY <2>1, <2>2
<1>3. \A g \in R, h \in R : g.id = h.id => g = h
  BY DEF Keyed
<1>4. \A s \in left : s \in S /\ IsGame(s) /\ \A g \in R : g.id # s.id
  BY DEF Keyed, Known
<1>5. \A s \in S, t \in S : s.id = t.id => s = t
  BY DEF Keyed
<1> HIDE DEF made, left
<1>6. Keyed(W)
  BY <1>2, <1>3, <1>4, <1>5 DEF Keyed
<1>7. ASSUME NEW s \in S
      PROVE  \E n \in W : n.id = s.id /\ n.result = s.result /\ (s.box # {} => n.box = s.box)
  <2>1. CASE s \in left
    BY <2>1
  <2>2. CASE s \notin left
    <3>1. PICK g \in R : g.id = s.id
      BY <2>2 DEF left, Known
    <3> QED
      BY <1>2, <3>1
  <2> QED
    BY <2>1, <2>2
<1>8. ASSUME NEW g \in R
      PROVE  Did(W, g) = "already_present"
  <2>1. made(g) \in W
    OBVIOUS
  <2>2. Known(W, g.id) /\ ById(W, g.id) = made(g)
    BY <1>2, <1>6, <2>1, IdFinds
  <2>3. Merged(made(g), g) = made(g)
    <3>1. /\ IsGame(made(g)) /\ made(g).result = g.result /\ made(g).fields = g.fields
          /\ made(g).box = {} => g.box = {}
      BY <1>2
    <3> DEFINE n == made(g)
               m == Merged(n, g)
    <3> HIDE DEF n
    <3>2. /\ IsGame(n) /\ n.result = g.result /\ n.fields = g.fields /\ (n.box = {} => g.box = {})
      BY <3>1 DEF n
    <3>3. /\ IsGame(m) /\ m.id = n.id /\ m.season = n.season /\ m.result = g.result /\ m.fields = g.fields
          /\ m.box = IF n.box = {} THEN g.box ELSE n.box
      BY <3>2, MergedGame
    <3> HIDE DEF m
    <3>4. m = n
      BY <3>2, <3>3, SameGame
    <3> QED
      BY <3>4 DEF n, m
  <2> QED
    BY <2>2, <2>3 DEF Did
<1> QED
  BY <1>1, <1>6, <1>7, <1>8

-----------------------------------------------------------------------------
(* The invariant *)

LEMMA LoadedGames ==
  ASSUME IInv, Load
  PROVE  /\ Keyed(stored')
         /\ \A s \in stored : \E n \in stored' : n.id = s.id /\ n.result = s.result /\ (s.box # {} => n.box = s.box)
         /\ files' = files
<1> DEFINE R == read_dataset(files, {}).games
<1>1. ~read_dataset(files, {}).error /\ ~write_games(stored, R).error
      /\ stored' = write_games(stored, R).games /\ files' = files
  BY DEF Load
<1>2. Keyed(R)
  BY <1>1, ReadIsKeyed
<1> HIDE DEF R
<1> QED
  BY <1>1, <1>2, WrittenGames DEF IInv

\* What is stored has one game of each id, whatever versions of the dataset are
\* loaded one after the other (nba_history.py _write_games, the key on nba_game_id).
THEOREM InvariantHolds == Spec => []IInv
<1>1. Init => IInv
  BY DEF Init, IInv, DatasetType, Keyed
<1>2. IInv /\ [Next]_vars => IInv'
  <2> SUFFICES ASSUME IInv, [Next]_vars PROVE IInv'
    OBVIOUS
  <2> USE DEF IInv, DatasetType
  <2>1. ASSUME NEW file, NEW rows, AddTo(file, rows), files[file] \in Seq(rows)
        PROVE  \E new \in Seq(rows) : files' = [files EXCEPT ![file] = new] /\ stored' = stored
    <3>1. PICK row \in rows : files' = [files EXCEPT ![file] = Append(@, row)] /\ stored' = stored
      BY <2>1 DEF AddTo
    <3>2. Append(files[file], row) \in Seq(rows)
      BY <2>1
    <3> QED
      BY <3>1, <3>2
  <2>2. CASE Publish
    <3>1. CASE AddTo("games", GameRows)
      <4>1. PICK new \in Seq(GameRows) : files' = [files EXCEPT !.games = new] /\ stored' = stored
        BY <2>1, <3>1
      <4> QED
        BY <4>1 DEF Keyed
    <3>2. CASE AddTo("team_stats", TeamRows)
      <4>1. PICK new \in Seq(TeamRows) : files' = [files EXCEPT !.team_stats = new] /\ stored' = stored
        BY <2>1, <3>2
      <4> QED
        BY <4>1 DEF Keyed
    <3>3. CASE AddTo("box", BoxRows)
      <4>1. PICK new \in Seq(BoxRows) : files' = [files EXCEPT !.box = new] /\ stored' = stored
        BY <2>1, <3>3
      <4> QED
        BY <4>1 DEF Keyed
    <3>4. CASE AddTo("players", PlayerRows)
      <4>1. PICK new \in Seq(PlayerRows) : files' = [files EXCEPT !.players = new] /\ stored' = stored
        BY <2>1, <3>4
      <4> QED
        BY <4>1 DEF Keyed
    <3> QED
      BY <2>2, <3>1, <3>2, <3>3, <3>4 DEF Publish
  <2>3. CASE Retract("games")
    <3>1. Front(files.games) \in Seq(GameRows)
      BY <2>3 DEF Retract, Front
    <3> QED
      BY <2>3, <3>1 DEF Retract, Keyed
  <2>4. CASE Load
    BY <2>4, LoadedGames DEF Keyed
  <2>5. CASE UNCHANGED vars
    BY <2>5 DEF vars, Keyed
  <2> QED
    BY <2>2, <2>3, <2>4, <2>5 DEF Next
<1> QED
  BY <1>1, <1>2, PTL DEF Spec

\* A load never takes a stored game away, changes its teams or score, or replaces
\* a box score it has (nba_history.py check_agrees, `if box is empty`).
THEOREM ResultsStay == Spec => StoredResultsStay
<1>1. IInv /\ [Next]_vars =>
        [\A s \in stored : \E n \in stored' : n.id = s.id /\ n.result = s.result /\ (s.box # {} => n.box = s.box)]_vars
  <2> SUFFICES ASSUME IInv, Next
               PROVE  \A s \in stored : \E n \in stored' :
                        n.id = s.id /\ n.result = s.result /\ (s.box # {} => n.box = s.box)
    OBVIOUS
  <2>1. CASE Publish \/ Retract("games")
    <3>1. stored' = stored
      BY <2>1 DEF Publish, AddTo, Retract
    <3> QED
      BY <3>1
  <2>2. CASE Load
    BY <2>2, LoadedGames
  <2> QED
    BY <2>1, <2>2 DEF Next
<1> QED
  BY <1>1, InvariantHolds, PTL DEF Spec, StoredResultsStay

-----------------------------------------------------------------------------
(* The order of the rows *)

LEMMA ReversedRows ==
  ASSUME NEW S, NEW s \in Seq(S)
  PROVE  /\ \A i \in DOMAIN s : \E j \in DOMAIN Reverse(s) : Reverse(s)[j] = s[i]
         /\ \A j \in DOMAIN Reverse(s) : \E i \in DOMAIN s : Reverse(s)[j] = s[i]
<1>1. Len(s) \in Nat /\ DOMAIN s = 1..Len(s) /\ DOMAIN Reverse(s) = 1..Len(s)
  BY DEF Reverse
<1>2. \A j \in 1..Len(s) : Reverse(s)[j] = s[(Len(s) - j) + 1]
  BY DEF Reverse
<1>3. \A j \in 1..Len(s) : (Len(s) - j) + 1 \in 1..Len(s) /\ (Len(s) - ((Len(s) - j) + 1)) + 1 = j
  BY <1>1
<1> QED
  BY <1>1, <1>2, <1>3

\* Games.csv in any order, of two rows that differ as of two that agree, is read
\* as the same games or refused (nba_history.py _read_games, where a later row of
\* a game is compared with the first).
THEOREM OrderDecidesNothing == Spec => []GamesInAnyOrder
<1>1. IInv => GamesInAnyOrder
  <2> SUFFICES ASSUME IInv PROVE GamesInAnyOrder
    OBVIOUS
  <2> DEFINE s == files.games
             r == Reverse(s)
  <2>1. s \in Seq(GameRows)
    BY DEF IInv, DatasetType
  <2> HIDE DEF s
  <2>2. /\ \A i \in DOMAIN s : \E j \in DOMAIN r : r[j] = s[i]
        /\ \A j \in DOMAIN r : \E i \in DOMAIN s : r[j] = s[i]
    BY <2>1, ReversedRows
  <2> HIDE DEF r
  <2>3. ScopedRows(r, {}) = ScopedRows(s, {})
    BY <2>2 DEF ScopedRows
  <2>4. (\E j \in DOMAIN r : r[j].id.digits # 8) <=> (\E i \in DOMAIN s : s[i].id.digits # 8)
    BY <2>2
  <2>5. read_games(r, {}) = read_games(s, {})
    BY <2>3, <2>4 DEF read_games
  <2> QED
    BY <2>5 DEF GamesInAnyOrder, Kept, s, r
<1> QED
  BY <1>1, InvariantHolds, PTL

-----------------------------------------------------------------------------
(* The report *)

LEMMA CountedByImage ==
  ASSUME NEW f, IsFiniteSet(DOMAIN f)
  PROVE  /\ IsFiniteSet({f[x] : x \in DOMAIN f})
         /\ (\A x \in DOMAIN f, y \in DOMAIN f : f[x] = f[y] => x = y)
              => Cardinality({f[x] : x \in DOMAIN f}) = Cardinality(DOMAIN f)
<1> DEFINE T == {f[x] : x \in DOMAIN f}
           g == [x \in DOMAIN f |-> f[x]]
<1>1. g \in Surjection(DOMAIN f, T)
  BY DEF Surjection
<1>2. (\A x \in DOMAIN f, y \in DOMAIN f : f[x] = f[y] => x = y) => g \in Injection(DOMAIN f, T)
  BY DEF Injection, IsInjective
<1> HIDE DEF T, g
<1>3. IsFiniteSet(T) /\ (Cardinality(T) = Cardinality(DOMAIN f) <=> g \in Injection(DOMAIN f, T))
  BY <1>1, FS_Surjection
<1> QED
  BY <1>2, <1>3 DEF T

\* Games with ids of their own are as many as their ids.
LEMMA CountedById ==
  ASSUME NEW X, IsFiniteSet(X), \A g \in X, h \in X : g.id = h.id => g = h
  PROVE  IsFiniteSet({g.id : g \in X}) /\ Cardinality({g.id : g \in X}) = Cardinality(X)
<1> DEFINE f == [g \in X |-> g.id]
<1>1. IsFiniteSet({f[g] : g \in DOMAIN f}) /\ Cardinality({f[g] : g \in DOMAIN f}) = Cardinality(X)
  BY CountedByImage
<1>2. {f[g] : g \in DOMAIN f} = {g.id : g \in X}
  OBVIOUS
<1> QED
  BY <1>1, <1>2

LEMMA DisjointSum ==
  ASSUME NEW A, IsFiniteSet(A), NEW B, IsFiniteSet(B), A \cap B = {}
  PROVE  /\ IsFiniteSet(A \cup B) /\ Cardinality(A \cup B) = Cardinality(A) + Cardinality(B)
         /\ Cardinality(A) \in Nat /\ Cardinality(B) \in Nat
<1>1. IsFiniteSet(A \cup B) /\ Cardinality(A \cup B) = Cardinality(A) + Cardinality(B) - Cardinality(A \cap B)
  BY FS_Union
<1>2. Cardinality(A \cap B) = 0 /\ Cardinality(A) \in Nat /\ Cardinality(B) \in Nat
  BY FS_EmptySet, FS_CardinalityType
<1> QED
  BY <1>1, <1>2

\* A finite set in four parts: each element is in one.
LEMMA FourParts ==
  ASSUME NEW X, IsFiniteSet(X), NEW A \in SUBSET X, NEW B \in SUBSET X, NEW C \in SUBSET X, NEW D \in SUBSET X,
         X = A \cup B \cup C \cup D,
         A \cap B = {}, A \cap C = {}, A \cap D = {}, B \cap C = {}, B \cap D = {}, C \cap D = {}
  PROVE  /\ Cardinality(X) = Cardinality(A) + Cardinality(B) + Cardinality(C) + Cardinality(D)
         /\ Cardinality(A) \in Nat /\ Cardinality(B) \in Nat /\ Cardinality(C) \in Nat /\ Cardinality(D) \in Nat
<1>1. IsFiniteSet(A) /\ IsFiniteSet(B) /\ IsFiniteSet(C) /\ IsFiniteSet(D)
  BY FS_Subset
<1>2. IsFiniteSet(A \cup B) /\ Cardinality(A \cup B) = Cardinality(A) + Cardinality(B)
      /\ Cardinality(A) \in Nat /\ Cardinality(B) \in Nat
  BY <1>1, DisjointSum
<1>3. IsFiniteSet(C \cup D) /\ Cardinality(C \cup D) = Cardinality(C) + Cardinality(D)
      /\ Cardinality(C) \in Nat /\ Cardinality(D) \in Nat
  BY <1>1, DisjointSum
<1>4. (A \cup B) \cap (C \cup D) = {} /\ X = (A \cup B) \cup (C \cup D)
  OBVIOUS
<1>5. Cardinality(X) = Cardinality(A \cup B) + Cardinality(C \cup D)
  BY <1>2, <1>3, <1>4, DisjointSum
<1> QED
  BY <1>2, <1>3, <1>5

LEMMA RowsAreFinite ==
  ASSUME NEW file \in Seq(GameRows)
  PROVE  IsFiniteSet(DOMAIN file) /\ IsFiniteSet(ScopedRows(file, {}))
<1> DEFINE at == {j \in DOMAIN file : InScope({}, file[j].id)}
           f == [i \in at |-> file[i]]
<1>1. IsFiniteSet(DOMAIN file)
  <2>1. DOMAIN file = 1..Len(file) /\ 1 \in Int /\ Len(file) \in Int
    OBVIOUS
  <2> QED
    BY <2>1, FS_Interval
<1>2. IsFiniteSet(at)
  BY <1>1, FS_Subset
<1>3. IsFiniteSet({f[i] : i \in DOMAIN f})
  BY <1>2, CountedByImage
<1>4. {f[i] : i \in DOMAIN f} = ScopedRows(file, {})
  BY DEF ScopedRows
<1> QED
  BY <1>1, <1>3, <1>4

\* What is kept or skipped of some rows is all of them.
LEMMA SkippedOrKept ==
  ASSUME NEW X, IsFiniteSet(X)
  PROVE  LET of(what) == {g \in X : Skips(g) = what}
         IN /\ Cardinality(X) = Cardinality(of("skipped_preseason")) + Cardinality(of("skipped_all_star"))
                                  + Cardinality(of("skipped_no_score")) + Cardinality(of("none"))
            /\ \A what \in {"skipped_preseason", "skipped_all_star", "skipped_no_score", "none"} :
                 IsFiniteSet(of(what)) /\ Cardinality(of(what)) \in Nat
<1> DEFINE of(what) == {g \in X : Skips(g) = what}
           A == of("skipped_preseason")
           B == of("skipped_all_star")
           C == of("skipped_no_score")
           D == of("none")
<1>1. \A g : Skips(g) \in {"skipped_preseason", "skipped_all_star", "skipped_no_score", "none"}
  BY DEF Skips
<1>2. /\ A \in SUBSET X /\ B \in SUBSET X /\ C \in SUBSET X /\ D \in SUBSET X /\ X = A \cup B \cup C \cup D
      /\ A \cap B = {} /\ A \cap C = {} /\ A \cap D = {} /\ B \cap C = {} /\ B \cap D = {} /\ C \cap D = {}
  BY <1>1
<1>3. \A what : IsFiniteSet(of(what))
  BY FS_Subset
<1> HIDE DEF A, B, C, D
<1>4. Cardinality(X) = Cardinality(A) + Cardinality(B) + Cardinality(C) + Cardinality(D)
  BY <1>2, FourParts
<1>5. \A what : Cardinality(of(what)) \in Nat
  BY <1>3, FS_CardinalityType
<1> HIDE DEF of
<1>6. /\ Cardinality(X) = Cardinality(of("skipped_preseason")) + Cardinality(of("skipped_all_star"))
                            + Cardinality(of("skipped_no_score")) + Cardinality(of("none"))
      /\ \A what \in {"skipped_preseason", "skipped_all_star", "skipped_no_score", "none"} :
           IsFiniteSet(of(what)) /\ Cardinality(of(what)) \in Nat
  BY <1>3, <1>4, <1>5 DEF A, B, C, D
<1> QED
  BY <1>6 DEF of

\* A run loads, updates or finds each game that it reads.
LEMMA DoneWithEach ==
  ASSUME NEW S, NEW R, IsFiniteSet(R), \A g \in R, h \in R : g.id = h.id => g = h
  PROVE  LET r == games_report(S, R)
         IN /\ r.games_loaded + r.games_updated + r.games_already_present = Cardinality(R)
            /\ r.games_loaded \in Nat /\ r.games_updated \in Nat /\ r.games_already_present \in Nat
<1> DEFINE of(what) == {h \in R : Did(S, h) = what}
           A == of("loaded")
           B == of("updated")
           C == of("already_present")
           r == games_report(S, R)
<1>1. \A h : Did(S, h) \in {"loaded", "updated", "already_present"}
  BY DEF Did
<1>2. /\ A \in SUBSET R /\ B \in SUBSET R /\ C \in SUBSET R /\ {} \in SUBSET R /\ R = A \cup B \cup C \cup {}
      /\ A \cap B = {} /\ A \cap C = {} /\ A \cap {} = {} /\ B \cap C = {} /\ B \cap {} = {} /\ C \cap {} = {}
  BY <1>1
<1>3. /\ r.games_loaded = Cardinality({g.id : g \in A}) /\ r.games_updated = Cardinality({g.id : g \in B})
      /\ r.games_already_present = Cardinality({g.id : g \in C})
  BY DEF games_report
<1>4. ASSUME NEW X \in SUBSET R
      PROVE  Cardinality({g.id : g \in X}) = Cardinality(X) /\ Cardinality(X) \in Nat
  <2>1. IsFiniteSet(X) /\ \A g \in X, h \in X : g.id = h.id => g = h
    BY FS_Subset
  <2> QED
    BY <2>1, CountedById, FS_CardinalityType
<1> HIDE DEF A, B, C, r, of
<1>5. Cardinality(R) = Cardinality(A) + Cardinality(B) + Cardinality(C) + Cardinality({})
  BY <1>2, FourParts
<1>6. Cardinality({}) = 0
  BY FS_EmptySet
<1>7. /\ r.games_loaded = Cardinality(A) /\ r.games_updated = Cardinality(B)
      /\ r.games_already_present = Cardinality(C)
      /\ Cardinality(A) \in Nat /\ Cardinality(B) \in Nat /\ Cardinality(C) \in Nat
  BY <1>2, <1>3, <1>4
<1>8. /\ r.games_loaded + r.games_updated + r.games_already_present = Cardinality(R)
      /\ r.games_loaded \in Nat /\ r.games_updated \in Nat /\ r.games_already_present \in Nat
  BY <1>5, <1>6, <1>7
<1> QED
  BY <1>8 DEF r

\* The figures of a season add up to its rows of Games.csv.
LEMMA SeasonAddsUp ==
  ASSUME IInv, ~read_dataset(files, {}).error, NEW row \in ScopedRows(files.games, {})
  PROVE  LET s == season_of(row.id)
             r == season_report(files, {}, stored, s)
         IN r.games.games_loaded + r.games.games_updated + r.games.games_already_present
              + r.rows.skipped_preseason + r.rows.skipped_all_star + Cardinality(r.rows.skipped_no_score)
              + r.rows.duplicate_game_rows = Cardinality({i \in DOMAIN files.games : season_of(files.games[i].id) = s})
<1> DEFINE s == season_of(row.id)
           file == files.games
           its == {i \in DOMAIN file : season_of(file[i].id) = s}
           at == {i \in DOMAIN file : InScope({}, file[i].id) /\ season_of(file[i].id) = s}
           rows == {file[i] : i \in at}
           of(what) == {g \in rows : Skips(g) = what}
           read == {g \in read_dataset(files, {}).games : g.season = s}
           r == season_report(files, {}, stored, s)
<1>1. file \in Seq(GameRows)
  BY DEF IInv, DatasetType
<1>2. at = its
  BY DEF ScopedRows, InScope
<1>3. rows \subseteq ScopedRows(file, {}) /\ \A g \in ScopedRows(file, {}) : season_of(g.id) = s => g \in rows
  BY DEF ScopedRows
<1>4. \A g \in rows, h \in rows : g.id = h.id => g = h
  BY <1>3, ReadIsKeyed, RowsAreKeyed
<1>5. IsFiniteSet(its) /\ IsFiniteSet(rows) /\ Cardinality(its) \in Nat /\ Cardinality(rows) \in Nat
  BY <1>1, <1>3, RowsAreFinite, FS_Subset, FS_CardinalityType
<1>6. /\ r.rows = rows_report(file, at) /\ r.games = games_report(stored, read)
  BY DEF season_report, report_of
<1>7. /\ r.rows.skipped_preseason = Cardinality(of("skipped_preseason"))
      /\ r.rows.skipped_all_star = Cardinality(of("skipped_all_star"))
      /\ r.rows.skipped_no_score = {g.id : g \in of("skipped_no_score")}
      /\ r.rows.duplicate_game_rows = Cardinality(at) - Cardinality({g.id : g \in rows})
  <2>1. rows_report(file, at) =
          [skipped_preseason |-> Cardinality(of("skipped_preseason")),
           skipped_all_star |-> Cardinality(of("skipped_all_star")),
           skipped_no_score |-> {g.id : g \in of("skipped_no_score")},
           duplicate_game_rows |-> Cardinality(at) - Cardinality({g.id : g \in rows})]
    BY DEF rows_report
  <2> HIDE DEF of, at, rows, r, file
  <2> QED
    BY <1>6, <2>1
<1>8. /\ Cardinality(rows) = Cardinality(of("skipped_preseason")) + Cardinality(of("skipped_all_star"))
                               + Cardinality(of("skipped_no_score")) + Cardinality(of("none"))
      /\ \A what \in {"skipped_preseason", "skipped_all_star", "skipped_no_score", "none"} :
           IsFiniteSet(of(what)) /\ Cardinality(of(what)) \in Nat
  <2> HIDE DEF rows
  <2> QED
    BY <1>5, SkippedOrKept
<1>9. Cardinality({g.id : g \in of("skipped_no_score")}) = Cardinality(of("skipped_no_score"))
  BY <1>4, <1>8, CountedById
<1>10. Cardinality({g.id : g \in rows}) = Cardinality(rows)
  BY <1>4, <1>5, CountedById
<1>11. /\ \A g \in read, h \in read : g.id = h.id => g = h
       /\ {g.id : g \in read} = {g.id : g \in of("none")}
  <2> DEFINE games == read_games(file, {}).games
  <2>1. /\ read_dataset(files, {}).games = {ReadGame(files, games, g) : g \in games}
        /\ Keyed(read_dataset(files, {}).games) /\ games = {g \in ScopedRows(file, {}) : Skips(g) = "none"}
    BY ReadIsKeyed, RowsAreKeyed
  <2>2. \A g : ReadGame(files, games, g).id = g.id /\ ReadGame(files, games, g).season = season_of(g.id)
    BY DEF ReadGame
  <2> HIDE DEF games, s, rows
  <2>3. \A g \in of("none") : ReadGame(files, games, g) \in read
    BY <1>3, <2>1, <2>2 DEF rows
  <2>4. ASSUME NEW g \in read
        PROVE  \E h \in of("none") : h.id = g.id
    <3>1. PICK h \in games : g = ReadGame(files, games, h)
      BY <2>1
    <3>2. h \in of("none") /\ h.id = g.id
      BY <1>3, <2>1, <2>2, <3>1
    <3> QED
      BY <3>2
  <2>5. {g.id : g \in read} = {g.id : g \in of("none")}
    BY <2>2, <2>3, <2>4
  <2> QED
    BY <2>1, <2>5 DEF Keyed
<1>12. IsFiniteSet(of("none")) /\ Cardinality({g.id : g \in of("none")}) = Cardinality(of("none"))
  BY <1>4, <1>8, CountedById
<1> HIDE DEF read, rows, at, its, of, r, s
<1>13. IsFiniteSet(read) /\ Cardinality(read) = Cardinality(of("none"))
  <2> DEFINE f == [g \in read |-> g.id]
             ids == {g.id : g \in read}
  <2>1. f \in Injection(read, ids)
    BY <1>11 DEF Injection, IsInjective
  <2>2. IsFiniteSet(ids)
    BY <1>11, <1>12, CountedById, <1>4, <1>5 DEF of
  <2>3. IsFiniteSet(read)
    BY <2>1, <2>2, FS_Injection
  <2>4. Cardinality(ids) = Cardinality(read)
    BY <1>11, <2>3, CountedById
  <2> QED
    BY <1>11, <1>12, <2>3, <2>4
<1>14. /\ r.games.games_loaded + r.games.games_updated + r.games.games_already_present = Cardinality(of("none"))
       /\ r.games.games_loaded \in Nat /\ r.games.games_updated \in Nat /\ r.games.games_already_present \in Nat
  BY <1>6, <1>11, <1>13, DoneWithEach
<1>15. r.games.games_loaded + r.games.games_updated + r.games.games_already_present
         + r.rows.skipped_preseason + r.rows.skipped_all_star + Cardinality(r.rows.skipped_no_score)
         + r.rows.duplicate_game_rows = Cardinality(its)
  BY <1>2, <1>5, <1>7, <1>8, <1>9, <1>10, <1>14
<1> QED
  BY <1>15 DEF r, s, its

\* The report loses no row of Games.csv and counts none twice, and a second run
\* over the same files says of every game that it is already there
\* (nba_history.py SeasonReport).
THEOREM ReportAddsUp == Spec => []ReportAccountsForEveryRow
<1>1. IInv => ReportAccountsForEveryRow
  <2> DEFINE read == read_dataset(files, {})
             written == write_games(stored, read.games)
  <2> SUFFICES ASSUME IInv, ~read.error, ~written.error PROVE ReportAccountsForEveryRow
    BY DEF ReportAccountsForEveryRow
  <2>1. \A g \in read.games : Did(written.games, g) = "already_present"
    BY ReadIsKeyed, WrittenGames DEF IInv
  <2>2. \A row \in ScopedRows(files.games, {}) :
          LET s == season_of(row.id)
              r == season_report(files, {}, stored, s)
          IN r.games.games_loaded + r.games.games_updated + r.games.games_already_present
               + r.rows.skipped_preseason + r.rows.skipped_all_star + Cardinality(r.rows.skipped_no_score)
               + r.rows.duplicate_game_rows
             = Cardinality({i \in DOMAIN files.games : season_of(files.games[i].id) = s})
    BY SeasonAddsUp
  <2> QED
    BY <2>1, <2>2 DEF ReportAccountsForEveryRow
<1> QED
  BY <1>1, InvariantHolds, PTL

-----------------------------------------------------------------------------
(* Sums: the fold of Total, whatever order it takes its places in *)

LEMMA TotalIsFolded ==
  ASSUME NEW f
  PROVE  Total(f) = (CHOOSE h : IsSum(h, f, DOMAIN f))[DOMAIN f]
BY DEF Total, MapThenSumSet, MapThenFoldSet, IsSum, Pick

LEMMA SumStep ==
  ASSUME NEW f, NEW S, NEW h, IsSum(h, f, S), NEW T \in SUBSET S
  PROVE  /\ T = {} => h[T] = 0
         /\ T # {} => Pick(T) \in T /\ h[T] = f[Pick(T)] + h[T \ {Pick(T)}]
<1>1. h[T] = IF T = {} THEN 0 ELSE f[Pick(T)] + h[T \ {Pick(T)}]
  BY DEF IsSum
<1>2. T # {} => Pick(T) \in T
  BY DEF Pick
<1> QED
  BY <1>1, <1>2

\* A smallest among the subsets of a finite set that some condition singles out.
LEMMA Smallest ==
  ASSUME NEW S, IsFiniteSet(S), NEW B, B \subseteq SUBSET S, B # {}
  PROVE  \E X \in B : \A Y \in B : Y \subseteq X => Y = X
<1>1. B \subseteq FiniteSubsetsOf(S)
  BY FS_Subset DEF FiniteSubsetsOf
<1>2. PICK X \in B : \A Y \in B : ~(<<Y, X>> \in StrictSubsetOrdering(S))
  BY <1>1, FS_StrictSubsetOrderingWellFounded, WFMin
<1>3. \A Y \in B : Y \subseteq X => Y = X
  BY <1>2 DEF StrictSubsetOrdering
<1> QED
  BY <1>3

LEMMA SumUnique ==
  ASSUME NEW f, NEW S, NEW h, IsSum(h, f, S),
         NEW g, NEW R, NEW k, IsSum(k, g, R),
         NEW T, IsFiniteSet(T), T \subseteq S, T \subseteq R, \A x \in T : f[x] = g[x]
  PROVE  h[T] = k[T]
<1> DEFINE B == {X \in SUBSET T : h[X] # k[X]}
<1> SUFFICES ASSUME B # {} PROVE FALSE
  OBVIOUS
<1>0. B \subseteq SUBSET T
  OBVIOUS
<1> HIDE DEF B
<1>1. PICK X \in B : \A Y \in B : Y \subseteq X => Y = X
  BY <1>0, Smallest
<1>2. X \in SUBSET S /\ X \in SUBSET R /\ X \in SUBSET T /\ h[X] # k[X]
  BY DEF B
<1>3. CASE X = {}
  <2>1. h[X] = 0
    BY <1>2, <1>3, SumStep
  <2>2. k[X] = 0
    BY <1>2, <1>3, SumStep
  <2> QED
    BY <1>2, <2>1, <2>2
<1>4. CASE X # {}
  <2> DEFINE Y == X \ {Pick(X)}
  <2>1. /\ Pick(X) \in X
        /\ h[X] = f[Pick(X)] + h[Y]
        /\ k[X] = g[Pick(X)] + k[Y]
    BY <1>2, <1>4, SumStep
  <2>2. Y \in SUBSET T /\ Y \subseteq X /\ Y # X
    BY <1>2, <2>1
  <2>3. h[Y] = k[Y]
    BY <1>1, <2>2 DEF B
  <2> QED
    BY <1>2, <2>1, <2>3
<1> QED
  BY <1>3, <1>4

LEMMA SumExists ==
  ASSUME NEW f, NEW S, IsFiniteSet(S)
  PROVE  \E h : IsSum(h, f, S)
<1> DEFINE B == {X \in SUBSET S : ~(\E h : IsSum(h, f, X))}
<1> SUFFICES ASSUME B # {} PROVE FALSE
  OBVIOUS
<1>0. B \subseteq SUBSET S
  OBVIOUS
<1> HIDE DEF B
<1>1. PICK T \in B : \A Y \in B : Y \subseteq T => Y = T
  BY <1>0, Smallest
<1> DEFINE sum(X) == CHOOSE h : IsSum(h, f, X)
           k == [X \in SUBSET T |-> IF X = {} THEN 0
                                    ELSE f[Pick(X)] + sum(X \ {Pick(X)})[X \ {Pick(X)}]]
<1>2. ASSUME NEW X \in SUBSET T, X # T
      PROVE  IsSum(sum(X), f, X)
  <2>1. \E h : IsSum(h, f, X)
    BY <1>0, <1>1, <1>2 DEF B
  <2> QED
    BY <2>1
<1>3. ASSUME NEW X \in SUBSET T, X # {}
      PROVE  sum(X \ {Pick(X)})[X \ {Pick(X)}] = k[X \ {Pick(X)}]
  <2> DEFINE Y == X \ {Pick(X)}
             Z == Y \ {Pick(Y)}
  <2>1. Y \in SUBSET T /\ Y # T /\ Z \in SUBSET T /\ Z # T
    BY <1>3 DEF Pick
  <2>2. IsSum(sum(Y), f, Y) /\ IsSum(sum(Z), f, Z)
    BY <1>2, <2>1
  <2> HIDE DEF sum, Y
  <2>3. CASE Y = {}
    <3>1. sum(Y)[Y] = 0
      BY <2>2, <2>3, SumStep
    <3>2. k[Y] = 0
      BY <2>1, <2>3
    <3> QED
      BY <3>1, <3>2 DEF Y
  <2>4. CASE Y # {}
    <3>1. sum(Y)[Y] = f[Pick(Y)] + sum(Y)[Z]
      BY <2>2, <2>4, SumStep
    <3>2. IsFiniteSet(Z)
      <4>1. Z \subseteq S
        BY <1>0, <2>1
      <4> QED
        BY <4>1, FS_Subset
    <3>3. sum(Y)[Z] = sum(Z)[Z]
      BY <2>2, <3>2, SumUnique
    <3>4. k[Y] = f[Pick(Y)] + sum(Z)[Z]
      BY <2>1, <2>4
    <3> QED
      BY <3>1, <3>3, <3>4 DEF Y
  <2> QED
    BY <2>3, <2>4 DEF Y
<1>4. k = [X \in SUBSET T |-> IF X = {} THEN 0 ELSE f[Pick(X)] + k[X \ {Pick(X)}]]
  <2> HIDE DEF sum
  <2> QED
    BY <1>3
<1>5. IsSum(k, f, T)
  <2> HIDE DEF k
  <2> QED
    BY <1>4 DEF IsSum
<1>6. ~(\E h : IsSum(h, f, T))
  BY <1>1 DEF B
<1> QED
  BY <1>5, <1>6

LEMMA SumIsInt ==
  ASSUME NEW f, NEW S, NEW h, IsSum(h, f, S),
         NEW T, IsFiniteSet(T), T \subseteq S, \A x \in T : f[x] \in Int
  PROVE  h[T] \in Int
<1> DEFINE B == {X \in SUBSET T : h[X] \notin Int}
<1> SUFFICES ASSUME B # {} PROVE FALSE
  OBVIOUS
<1>0. B \subseteq SUBSET T
  OBVIOUS
<1> HIDE DEF B
<1>1. PICK X \in B : \A Y \in B : Y \subseteq X => Y = X
  BY <1>0, Smallest
<1>2. X \in SUBSET S /\ X \in SUBSET T /\ h[X] \notin Int
  BY DEF B
<1>3. X # {}
  <2>1. X = {} => h[X] = 0
    BY <1>2, SumStep
  <2> QED
    BY <1>2, <2>1
<1>4. Pick(X) \in X /\ h[X] = f[Pick(X)] + h[X \ {Pick(X)}]
  BY <1>2, <1>3, SumStep
<1>5. h[X \ {Pick(X)}] \in Int
  BY <1>1, <1>2, <1>4 DEF B
<1> QED
  BY <1>2, <1>4, <1>5

\* Any place may be taken first.
LEMMA SumOfAny ==
  ASSUME NEW f, NEW S, NEW h, IsSum(h, f, S),
         NEW T, IsFiniteSet(T), T \subseteq S, \A x \in T : f[x] \in Int, NEW y \in T
  PROVE  h[T] = f[y] + h[T \ {y}]
<1> DEFINE B == {X \in SUBSET T : \E z \in X : h[X] # f[z] + h[X \ {z}]}
<1> SUFFICES ASSUME B # {} PROVE FALSE
  OBVIOUS
<1>0. B \subseteq SUBSET T
  OBVIOUS
<1> HIDE DEF B
<1>1. PICK X \in B : \A Y \in B : Y \subseteq X => Y = X
  BY <1>0, Smallest
<1>2. PICK z \in X : h[X] # f[z] + h[X \ {z}]
  BY DEF B
<1> DEFINE x == Pick(X)
<1>3. X \in SUBSET S /\ X \in SUBSET T
  BY <1>0
<1>4. x \in X /\ h[X] = f[x] + h[X \ {x}]
  BY <1>2, <1>3, SumStep
<1>5. x # z
  BY <1>2, <1>4
<1>6. h[X \ {x}] = f[z] + h[(X \ {x}) \ {z}]
  <2>1. X \ {x} \in SUBSET T /\ X \ {x} \subseteq X /\ X \ {x} # X /\ z \in X \ {x}
    BY <1>3, <1>4, <1>5
  <2> QED
    BY <1>1, <2>1 DEF B
<1>7. h[X \ {z}] = f[x] + h[(X \ {z}) \ {x}]
  <2>1. X \ {z} \in SUBSET T /\ X \ {z} \subseteq X /\ X \ {z} # X /\ x \in X \ {z}
    BY <1>3, <1>4, <1>5
  <2> QED
    BY <1>1, <2>1 DEF B
<1>8. (X \ {z}) \ {x} = (X \ {x}) \ {z}
  OBVIOUS
<1>9. h[(X \ {x}) \ {z}] \in Int /\ f[x] \in Int /\ f[z] \in Int
  <2>1. IsFiniteSet((X \ {x}) \ {z}) /\ (X \ {x}) \ {z} \subseteq S /\ (X \ {x}) \ {z} \subseteq T
    BY <1>3, FS_Subset
  <2> QED
    BY <1>3, <1>4, <2>1, SumIsInt
<1> DEFINE c == h[(X \ {x}) \ {z}]
           a == f[x]
           b == f[z]
<1>10. h[X] = a + (b + c) /\ h[X \ {z}] = a + c /\ c \in Int /\ a \in Int /\ b \in Int
  BY <1>4, <1>6, <1>7, <1>8, <1>9
<1>11. h[X] # b + h[X \ {z}]
  BY <1>2
<1> HIDE DEF a, b, c
<1> QED
  BY <1>10, <1>11

LEMMA TotalIs ==
  ASSUME NEW f, NEW S, NEW h, IsSum(h, f, S),
         NEW s, IsFiniteSet(DOMAIN s), DOMAIN s \subseteq S, \A x \in DOMAIN s : s[x] = f[x]
  PROVE  Total(s) = h[DOMAIN s]
<1> DEFINE k == CHOOSE k : IsSum(k, s, DOMAIN s)
<1>1. IsSum(k, s, DOMAIN s)
  BY SumExists
<1>2. Total(s) = k[DOMAIN s]
  BY TotalIsFolded
<1> HIDE DEF k
<1> QED
  BY <1>1, <1>2, SumUnique

LEMMA TotalOfNone ==
  ASSUME NEW s, DOMAIN s = {}
  PROVE  Total(s) = 0
<1>1. PICK h : IsSum(h, s, DOMAIN s)
  BY SumExists, FS_EmptySet
<1>2. IsFiniteSet(DOMAIN s)
  BY FS_EmptySet
<1>3. Total(s) = h[DOMAIN s]
  BY <1>1, <1>2, TotalIs
<1> QED
  BY <1>1, <1>3, SumStep

LEMMA TotalIsInt ==
  ASSUME NEW s, IsFiniteSet(DOMAIN s), \A x \in DOMAIN s : s[x] \in Int
  PROVE  Total(s) \in Int
<1>1. PICK h : IsSum(h, s, DOMAIN s)
  BY SumExists
<1> QED
  BY <1>1, TotalIs, SumIsInt

\* A sum is one place and the sum of the rest.
LEMMA TotalWith ==
  ASSUME NEW s, IsFiniteSet(DOMAIN s), \A x \in DOMAIN s : s[x] \in Int,
         NEW y \in DOMAIN s, NEW r, DOMAIN r = DOMAIN s \ {y}, \A x \in DOMAIN r : r[x] = s[x]
  PROVE  Total(s) = s[y] + Total(r)
<1>1. PICK h : IsSum(h, s, DOMAIN s)
  BY SumExists
<1>2. Total(s) = h[DOMAIN s]
  BY <1>1, TotalIs
<1>3. IsFiniteSet(DOMAIN r)
  BY FS_Subset
<1>4. Total(r) = h[DOMAIN r]
  BY <1>1, <1>3, TotalIs
<1> QED
  BY <1>1, <1>2, <1>4, SumOfAny

LEMMA TotalOfAppended ==
  ASSUME NEW s \in Seq(Int), NEW n \in Int
  PROVE  Total(Append(s, n)) = Total(s) + n
<1> DEFINE t == Append(s, n)
<1>1. /\ DOMAIN t = 1..(Len(s) + 1) /\ DOMAIN s = 1..Len(s) /\ Len(s) \in Nat
      /\ \A i \in DOMAIN s : t[i] = s[i] /\ s[i] \in Int
      /\ t[Len(s) + 1] = n
  OBVIOUS
<1> HIDE DEF t
<1>2. IsFiniteSet(DOMAIN t) /\ IsFiniteSet(DOMAIN s)
  BY <1>1, FS_Interval
<1>3. DOMAIN s = DOMAIN t \ {Len(s) + 1} /\ Len(s) + 1 \in DOMAIN t /\ \A i \in DOMAIN t : t[i] \in Int
  BY <1>1
<1>4. Total(t) = n + Total(s)
  BY <1>1, <1>2, <1>3, TotalWith
<1>5. Total(s) \in Int
  BY <1>1, <1>2, TotalIsInt
<1> QED
  BY <1>4, <1>5 DEF t

-----------------------------------------------------------------------------
(* What the columns imply *)

\* Minutes that were written as minutes.seconds are read back as the seconds.
LEMMA SecondsAreReadBack ==
  ASSUME NEW text \in Nat \X Seq(0..9), NEW s \in WrittenAs(text)
  PROVE  ReadsAsMinutesSeconds(text) /\ AsMinutesSeconds(text) = s
<1>1. s \in Int /\ s >= 0 /\ Written(s) = text
  BY DEF WrittenAs
<1>2. /\ text[1] = s \div 60
      /\ text[2] = IF s % 60 = 0 THEN <<0>>
                   ELSE IF (s % 60) % 10 = 0 THEN <<(s % 60) \div 10>>
                   ELSE <<(s % 60) \div 10, (s % 60) % 10>>
  BY <1>1 DEF Written
<1> DEFINE m == s % 60
<1>3. m \in 0..59 /\ s = 60 * (s \div 60) + m
  BY <1>1
<1>4. text[2] = IF m = 0 THEN <<0>> ELSE IF m % 10 = 0 THEN <<m \div 10>> ELSE <<m \div 10, m % 10>>
  BY <1>2
<1> HIDE DEF m
<1>5. m \div 10 \in 0..5 /\ m % 10 \in 0..9 /\ m = 10 * (m \div 10) + (m % 10)
  BY <1>3
<1>6. Len(text[2]) <= 2 /\ Extra(text) = m
  <2>1. CASE m = 0
    BY <1>4, <2>1 DEF Extra, Digit
  <2>2. CASE m # 0 /\ m % 10 = 0
    <3>1. text[2] = <<m \div 10>>
      BY <1>4, <2>2
    <3>2. Len(text[2]) <= 2 /\ Digit(text, 1) = m \div 10 /\ Digit(text, 2) = 0
      BY <3>1 DEF Digit
    <3> QED
      BY <1>5, <2>2, <3>2 DEF Extra
  <2>3. CASE m # 0 /\ m % 10 # 0
    <3>1. text[2] = <<m \div 10, m % 10>>
      BY <1>4, <2>3
    <3>2. Len(text[2]) <= 2 /\ Digit(text, 1) = m \div 10 /\ Digit(text, 2) = m % 10
      BY <3>1 DEF Digit
    <3> QED
      BY <1>5, <3>2 DEF Extra
  <2> QED
    BY <2>1, <2>2, <2>3
<1> QED
  BY <1>2, <1>3, <1>6 DEF ReadsAsMinutesSeconds, AsMinutesSeconds

\* A period more, or none.
LEMMA OnePeriodMore ==
  ASSUME NEW s \in Seq(Nat), NEW n \in Figures, NEW t, t = s \o (IF n = Blank THEN <<>> ELSE <<n>>)
  PROVE  t \in Seq(Nat) /\ Total(t) = Total(s) + OrZero(n) /\ Total(s) \in Int
<1>1. Total(s) \in Int
  <2>1. IsFiniteSet(DOMAIN s) /\ \A i \in DOMAIN s : s[i] \in Int
    BY FS_Interval
  <2> QED
    BY <2>1, TotalIsInt
<1>2. CASE n = Blank
  BY <1>1, <1>2 DEF OrZero
<1>3. CASE n # Blank
  <2>1. n \in Nat /\ n \in Int /\ t = Append(s, n) /\ s \in Seq(Int)
    BY <1>3 DEF Figures, Blank
  <2>2. Total(t) = Total(s) + n
    BY <2>1, TotalOfAppended
  <2> QED
    BY <1>1, <1>3, <2>1, <2>2 DEF OrZero
<1> QED
  BY <1>2, <1>3

LEMMA LineAddsUp ==
  ASSUME NEW row, row.quarters \in Seq(Figures), {row.ot1, row.ot2, row.ot_all} \subseteq Figures,
         line_score(row) # <<>>, row.ot_all # Blank => Further(row) >= 0
  PROVE  /\ Total(line_score(row))
              = Total(row.quarters) + IF row.ot_all # Blank THEN row.ot_all ELSE OrZero(row.ot1) + OrZero(row.ot2)
         /\ \A k \in DOMAIN line_score(row) : line_score(row)[k] >= 0
<1> DEFINE present(n) == IF n = Blank THEN <<>> ELSE <<n>>
           rest == IF row.ot_all = Blank \/ Further(row) = 0 THEN Blank ELSE Further(row)
           one == row.quarters \o present(row.ot1)
           two == one \o present(row.ot2)
           all == two \o present(rest)
<1>1. row.ot1 \in Figures /\ row.ot2 \in Figures /\ row.ot_all \in Figures
  OBVIOUS
<1>2. OrZero(row.ot1) \in Nat /\ OrZero(row.ot2) \in Nat
  BY <1>1 DEF OrZero, Figures
<1>3. Further(row) = row.ot_all - OrZero(row.ot1) - OrZero(row.ot2)
  BY DEF Further
<1>4. rest \in Figures
  BY <1>1, <1>2, <1>3 DEF Figures, Blank
<1>5. Blank \notin ToSet(row.quarters)
  BY DEF line_score
<1>6. line_score(row) = all
  <2>1. rest = Blank <=> row.ot_all = Blank \/ Further(row) = 0
    BY <1>1, <1>2, <1>3 DEF Figures, Blank
  <2> QED
    BY <1>5, <2>1 DEF line_score
<1>7. row.quarters \in Seq(Nat)
  <2>1. \A k \in 1..Len(row.quarters) : row.quarters[k] \in Nat
    BY <1>5 DEF ToSet, Figures
  <2> QED
    BY <2>1
<1> HIDE DEF rest
<1>8. one \in Seq(Nat) /\ Total(one) = Total(row.quarters) + OrZero(row.ot1) /\ Total(row.quarters) \in Int
  BY <1>1, <1>7, OnePeriodMore
<1> HIDE DEF one
<1>9. two \in Seq(Nat) /\ Total(two) = Total(one) + OrZero(row.ot2)
  BY <1>1, <1>8, OnePeriodMore
<1> HIDE DEF two
<1>10. all \in Seq(Nat) /\ Total(all) = Total(two) + OrZero(rest)
  BY <1>4, <1>9, OnePeriodMore
<1> HIDE DEF all
<1>11. OrZero(rest) = IF row.ot_all = Blank THEN 0 ELSE Further(row)
  BY <1>1, <1>2, <1>3 DEF rest, OrZero, Blank
<1>12. \A k \in DOMAIN all : all[k] >= 0
  BY <1>10
<1>13. Total(all) = Total(row.quarters) + IF row.ot_all # Blank THEN row.ot_all ELSE OrZero(row.ot1) + OrZero(row.ot2)
  <2>1. CASE row.ot_all = Blank
    BY <1>2, <1>8, <1>9, <1>10, <1>11, <2>1
  <2>2. CASE row.ot_all # Blank
    <3>1. row.ot_all \in Int
      BY <1>1 DEF Figures, Blank
    <3> QED
      BY <1>2, <1>3, <1>8, <1>9, <1>10, <1>11, <2>2, <3>1
  <2> QED
    BY <2>1, <2>2
<1> QED
  BY <1>6, <1>12, <1>13

LEMMA LinesAddUp ==
  ASSUME DatasetType
  PROVE  LineScoreAddsUp
<1> SUFFICES ASSUME ~Kept.error, ~TeamStatsRefused(files.team_stats, Kept.games),
                    NEW i \in DOMAIN files.team_stats,
                    files.team_stats[i].team # 0, Known(Kept.games, files.team_stats[i].game),
                    line_score(files.team_stats[i]) # <<>>
             PROVE  LET row == files.team_stats[i]
                        score == line_score(row)
                        overtime == IF row.ot_all # Blank THEN row.ot_all ELSE OrZero(row.ot1) + OrZero(row.ot2)
                    IN /\ Total(score) = Total(row.quarters) + overtime
                       /\ \A k \in DOMAIN score : score[k] >= 0
  BY DEF LineScoreAddsUp
<1> DEFINE row == files.team_stats[i]
<1>1. row \in TeamRows
  BY DEF DatasetType
<1>2. row.quarters \in Seq(Figures) /\ {row.ot1, row.ot2, row.ot_all} \subseteq Figures
  BY <1>1, RowsAssumption
<1>3. Blank \notin ToSet(row.quarters)
  BY DEF line_score
<1>4. row.ot_all # Blank => ~(Further(row) < 0)
  BY <1>3 DEF TeamStatsRefused
<1>5. row.ot_all # Blank => Further(row) >= 0
  <2>1. OrZero(row.ot1) \in Nat /\ OrZero(row.ot2) \in Nat /\ row.ot_all \in Int
    BY <1>2 DEF OrZero, Figures, Blank
  <2> QED
    BY <1>4, <2>1 DEF Further
<1> HIDE DEF row
<1>6. LET score == line_score(row)
          overtime == IF row.ot_all # Blank THEN row.ot_all ELSE OrZero(row.ot1) + OrZero(row.ot2)
      IN /\ Total(score) = Total(row.quarters) + overtime
         /\ \A k \in DOMAIN score : score[k] >= 0
  <2>1. line_score(row) # <<>>
    BY DEF row
  <2> QED
    BY <1>2, <1>5, <2>1, LineAddsUp
<1> QED
  BY <1>6 DEF row

LEMMA MinutesAreRead ==
  ASSUME DatasetType
  PROVE  MinutesAreRecovered
<1> SUFFICES ASSUME ~read_dataset(files, {}).error, NEW g \in Kept.games, NEW t \in {g.home, g.away}
             PROVE
    LET at == {i \in FirstRows(files.box, Kept.games) :
                 /\ files.box[i].game = g.id /\ files.box[i].minutes # <<>>
                 /\ RowTeam(g, files.box[i]) = t}
        text(i) == files.box[i].minutes[1]
        true == [i \in at |-> CHOOSE s \in WrittenAs(text(i)) : TRUE]
        minutes == TeamLine(files.team_stats, g.id, t).minutes
    IN (/\ at # {} /\ minutes # Blank
        /\ \A i \in at : WrittenAs(text(i)) # {}
        /\ Fits(Total(true), minutes)
        /\ ~Fits(Total(Decimals([i \in at |-> text(i)])), minutes)
        /\ \E i \in at : ~IsWhole(text(i)))
       => \A i \in at : \E l \in box_of(files, Kept.games, g) :
            l.person = files.box[i].person /\ l.seconds_played = true[i]
  BY DEF MinutesAreRecovered
<1> DEFINE at == {i \in FirstRows(files.box, Kept.games) :
                    /\ files.box[i].game = g.id /\ files.box[i].minutes # <<>>
                    /\ RowTeam(g, files.box[i]) = t}
           text(i) == files.box[i].minutes[1]
           texts == [i \in at |-> text(i)]
           true == [i \in at |-> CHOOSE s \in WrittenAs(text(i)) : TRUE]
           minutes == TeamLine(files.team_stats, g.id, t).minutes
<1> SUFFICES ASSUME at # {}, minutes # Blank, \A i \in at : WrittenAs(text(i)) # {},
                    Fits(Total(true), minutes), ~Fits(Total(Decimals(texts)), minutes),
                    \E i \in at : ~IsWhole(text(i)), NEW i \in at
             PROVE  \E l \in box_of(files, Kept.games, g) :
                      l.person = files.box[i].person /\ l.seconds_played = true[i]
  OBVIOUS
<1>1. ASSUME NEW j \in at
      PROVE  ReadsAsMinutesSeconds(text(j)) /\ AsMinutesSeconds(text(j)) = true[j]
  <2>1. files.box[j] \in BoxRows /\ files.box[j].minutes # <<>>
    BY DEF DatasetType, FirstRows
  <2>2. text(j) \in Nat \X Seq(0..9)
    BY <2>1, RowsAssumption
  <2>3. true[j] \in WrittenAs(text(j))
    OBVIOUS
  <2> QED
    BY <2>2, <2>3, SecondsAreReadBack
<1>2. MinutesSeconds(texts) = true
  BY <1>1 DEF MinutesSeconds
<1>3. team_reading(texts, minutes) = "minutes.seconds"
  <2>1. ~(\A j \in DOMAIN texts : IsWhole(texts[j]))
    OBVIOUS
  <2>2. \A j \in DOMAIN texts : ReadsAsMinutesSeconds(texts[j])
    BY <1>1
  <2>3. Fits(Total(MinutesSeconds(texts)), minutes)
    BY <1>2
  <2> HIDE DEF texts, minutes
  <2> QED
    BY <2>1, <2>2, <2>3 DEF team_reading
<1> DEFINE all == {j \in FirstRows(files.box, Kept.games) : files.box[j].game = g.id}
           timed(u) == {j \in all : RowTeam(g, files.box[j]) = u /\ files.box[j].minutes # <<>>}
           reading(u) == team_reading([j \in timed(u) |-> files.box[j].minutes[1]],
                                      TeamLine(files.team_stats, g.id, u).minutes)
           line(j) ==
             LET u == RowTeam(g, files.box[j])
             IN [person |-> files.box[j].person, team |-> u, points |-> files.box[j].points,
                 starter |-> files.box[j].position, reading |-> reading(u),
                 seconds_played |-> IF files.box[j].minutes = <<>> THEN Blank
                                    ELSE Seconds(reading(u), files.box[j].minutes[1]),
                 dnp_reason |-> IF files.box[j].minutes = <<>> THEN files.box[j].comment ELSE Blank]
<1>4. box_of(files, Kept.games, g) = {line(j) : j \in all}
  BY DEF box_of
<1>5. timed(t) = at
  OBVIOUS
<1>6. reading(t) = "minutes.seconds"
  BY <1>3, <1>5
<1>7. i \in all /\ RowTeam(g, files.box[i]) = t /\ files.box[i].minutes # <<>>
  OBVIOUS
<1> HIDE DEF reading, all
<1>8. line(i).person = files.box[i].person
      /\ line(i).seconds_played = Seconds("minutes.seconds", files.box[i].minutes[1])
  BY <1>6, <1>7
<1>9. Seconds("minutes.seconds", text(i)) = true[i]
  BY <1>1 DEF Seconds
<1> HIDE DEF line, true
<1> QED
  BY <1>4, <1>7, <1>8, <1>9

\* Seconds that were written as minutes.seconds are stored as those seconds, and a
\* line score adds up to the quarters and the overtimes, whatever order a sum is
\* taken in (nba_history.py _team_seconds, _minutes_seconds, _line_score).
THEOREM ColumnsRecovered == Spec => []ColumnsAreRecovered
<1>1. IInv => ColumnsAreRecovered
  BY LinesAddUp, MinutesAreRead DEF IInv, ColumnsAreRecovered
<1> QED
  BY <1>1, InvariantHolds, PTL
-----------------------------------------------------------------------------
(* Records: the rows of a set one after the other *)

LEMMA StrictlyMore ==
  ASSUME NEW B, IsFiniteSet(B), NEW A \in SUBSET B, A # B
  PROVE  Cardinality(A) \in Nat /\ Cardinality(B) \in Nat /\ Cardinality(A) < Cardinality(B)
BY FS_Subset, FS_CardinalityType

\* Each element has a place of its own, and each place is an element's.
LEMMA Places ==
  ASSUME NEW S, IsFiniteSet(S), NEW rel, Orders(rel, S)
  PROVE  /\ \A x \in S : Place(rel, S, x) \in 1..Cardinality(S)
         /\ \A x \in S, y \in S : <<x, y>> \in rel <=> Place(rel, S, x) < Place(rel, S, y)
         /\ \A x \in S, y \in S : Place(rel, S, x) = Place(rel, S, y) => x = y
         /\ \A i \in 1..Cardinality(S) : \E x \in S : Place(rel, S, x) = i
<1> DEFINE place(x) == Place(rel, S, x)
           n == Cardinality(S)
           f == [x \in S |-> place(x)]
<1>1. n \in Nat
  BY FS_CardinalityType
<1>2. ASSUME NEW x \in S
      PROVE  place(x) \in 1..n
  <2>1. Preceding(rel, S, x) \in SUBSET S /\ x \notin Preceding(rel, S, x)
    BY DEF Preceding, Orders
  <2>2. Cardinality(Preceding(rel, S, x)) \in Nat /\ Cardinality(Preceding(rel, S, x)) < n
    BY <2>1, StrictlyMore
  <2> QED
    BY <1>1, <2>2 DEF Place
<1>3. ASSUME NEW x \in S, NEW y \in S, <<x, y>> \in rel
      PROVE  place(x) < place(y)
  <2>1. /\ Preceding(rel, S, x) \in SUBSET Preceding(rel, S, y)
        /\ x \in Preceding(rel, S, y) /\ x \notin Preceding(rel, S, x)
    BY <1>3 DEF Preceding, Orders
  <2>2. IsFiniteSet(Preceding(rel, S, y))
    BY FS_Subset DEF Preceding
  <2>3. /\ Cardinality(Preceding(rel, S, x)) \in Nat /\ Cardinality(Preceding(rel, S, y)) \in Nat
        /\ Cardinality(Preceding(rel, S, x)) < Cardinality(Preceding(rel, S, y))
    BY <2>1, <2>2, StrictlyMore
  <2> QED
    BY <2>3 DEF Place
<1> HIDE DEF place, n
<1>4. ASSUME NEW x \in S, NEW y \in S
      PROVE  /\ place(x) < place(y) => <<x, y>> \in rel
             /\ place(x) = place(y) => x = y
  <2>1. x = y \/ <<x, y>> \in rel \/ <<y, x>> \in rel
    BY DEF Orders
  <2>2. place(x) \in Int /\ place(y) \in Int
    BY <1>1, <1>2
  <2> QED
    BY <1>3, <2>1, <2>2
<1>5. f \in Injection(S, 1..n)
  BY <1>2, <1>4 DEF Injection, IsInjective
<1>6. IsFiniteSet(1..n) /\ Cardinality(1..n) = n
  BY <1>1, FS_Interval
<1>7. f \in Surjection(S, 1..n)
  BY <1>5, <1>6, FS_Injection DEF n
<1>8. \A i \in 1..n : \E x \in S : place(x) = i
  BY <1>7 DEF Surjection
<1> QED
  BY <1>2, <1>3, <1>4, <1>8 DEF place, n

LEMMA Listing ==
  ASSUME NEW S, IsFiniteSet(S), NEW rel, Orders(rel, S)
  PROVE  LET s == InOrder(rel, S)
         IN /\ s \in Seq(S) /\ Len(s) = Cardinality(S) /\ DOMAIN s = 1..Cardinality(S)
            /\ \A i \in 1..Cardinality(S) : s[i] \in S /\ Place(rel, S, s[i]) = i
            /\ \A x \in S : s[Place(rel, S, x)] = x
<1> DEFINE n == Cardinality(S)
           place == [x \in S |-> 1 + Cardinality({y \in S : <<y, x>> \in rel})]
           s == [i \in 1..n |-> CHOOSE x \in S : place[x] = i]
<1>1. InOrder(rel, S) = s
  BY DEF InOrder, Ranked
<1>2. n \in Nat
  BY FS_CardinalityType
<1>3. \A x \in S : place[x] = Place(rel, S, x)
  BY DEF Place, Preceding
<1> HIDE DEF n, place
<1>4. ASSUME NEW i \in 1..n
      PROVE  s[i] \in S /\ Place(rel, S, s[i]) = i
  <2>1. \E x \in S : place[x] = i
    BY <1>3, Places DEF n
  <2> QED
    BY <1>3, <2>1
<1>5. DOMAIN s = 1..n
  OBVIOUS
<1> HIDE DEF s
<1>6. ASSUME NEW x \in S
      PROVE  s[Place(rel, S, x)] = x
  BY <1>4, Places DEF n
<1>7. s \in Seq(S) /\ Len(s) = n
  <2>1. s = [i \in 1..n |-> s[i]]
    BY DEF s
  <2> QED
    BY <1>2, <1>4, <2>1
<1> QED
  BY <1>1, <1>4, <1>5, <1>6, <1>7 DEF n

\* A set that has whatever comes before what it has is listed by the first
\* places of the whole.
LEMMA FirstPlaces ==
  ASSUME NEW S, IsFiniteSet(S), NEW rel, Orders(rel, S),
         NEW T \in SUBSET S, \A y \in T, x \in S : <<x, y>> \in rel => x \in T
  PROVE  /\ IsFiniteSet(T) /\ Orders(rel, T) /\ Cardinality(T) <= Cardinality(S)
         /\ \A i \in 1..Cardinality(T) : InOrder(rel, T)[i] = InOrder(rel, S)[i]
<1>1. IsFiniteSet(T) /\ Orders(rel, T) /\ Cardinality(T) <= Cardinality(S)
  BY FS_Subset DEF Orders
<1>2. \A x \in T : Place(rel, T, x) = Place(rel, S, x)
  <2>1. \A x \in T : Preceding(rel, T, x) = Preceding(rel, S, x)
    BY DEF Preceding
  <2> QED
    BY <2>1 DEF Place
<1>3. ASSUME NEW i \in 1..Cardinality(T)
      PROVE  InOrder(rel, T)[i] = InOrder(rel, S)[i]
  <2>1. InOrder(rel, T)[i] \in T /\ Place(rel, T, InOrder(rel, T)[i]) = i
    BY <1>1, Listing
  <2> QED
    BY <1>2, <2>1, Listing
<1> QED
  BY <1>1, <1>3

\* What a page shows of a sequence.
LEMMA PageIs ==
  ASSUME NEW X, NEW s \in Seq(X), NEW limit \in Nat \ {0}, NEW offset \in Nat
  PROVE  LET p == Paged(s, limit, offset)
         IN /\ p \in Seq(X)
            /\ Len(p) = IF offset >= Len(s) THEN 0 ELSE IF offset + limit < Len(s) THEN limit ELSE Len(s) - offset
            /\ \A i \in 1..Len(p) : p[i] = s[offset + i]
<1>1. CASE offset >= Len(s)
  BY <1>1 DEF Paged
<1>2. CASE offset < Len(s)
  <2> DEFINE end == IF offset + limit < Len(s) THEN offset + limit ELSE Len(s)
  <2>1. Paged(s, limit, offset) = SubSeq(s, offset + 1, end)
    BY <1>2 DEF Paged
  <2>2. Len(s) \in Nat /\ end \in Nat /\ offset + 1 <= end /\ end <= Len(s)
    BY <1>2
  <2> HIDE DEF end
  <2>3. SubSeq(s, offset + 1, end) = [i \in 1..(end - offset) |-> s[offset + i]]
    BY <2>2
  <2>4. \A i \in 1..(end - offset) : s[offset + i] \in X
    BY <2>2
  <2>5. /\ Paged(s, limit, offset) \in Seq(X) /\ Len(Paged(s, limit, offset)) = end - offset
        /\ \A i \in 1..(end - offset) : Paged(s, limit, offset)[i] = s[offset + i]
    BY <2>1, <2>2, <2>3, <2>4
  <2> QED
    BY <1>2, <2>2, <2>5 DEF end
<1> QED
  BY <1>1, <1>2

-----------------------------------------------------------------------------
(* Records: fractions and the keys rows are ordered by *)

LEMMA Scaled ==
  ASSUME NEW p \in Int, NEW q \in Int, NEW d \in Nat \ {0}
  PROVE  /\ p > q <=> p * d > q * d
         /\ p = q <=> p * d = q * d
<1>1. p > q => p * d > q * d
  <2>1. p > q => (p - q) * d > 0
    OBVIOUS
  <2>2. (p - q) * d = p * d - q * d
    OBVIOUS
  <2> QED
    BY <2>1, <2>2
<1>2. q > p => q * d > p * d
  <2>1. q > p => (q - p) * d > 0
    OBVIOUS
  <2>2. (q - p) * d = q * d - p * d
    OBVIOUS
  <2> QED
    BY <2>1, <2>2
<1>3. p * d \in Int /\ q * d \in Int
  OBVIOUS
<1> QED
  BY <1>1, <1>2, <1>3

\* More and Same compare fractions as numbers are compared.
LEMMA Compared ==
  ASSUME NEW x, NEW y, NEW z, IsFraction(x), IsFraction(y), IsFraction(z)
  PROVE  /\ More(x, y) \/ Same(x, y) \/ More(y, x)
         /\ ~(More(x, y) /\ Same(x, y)) /\ ~(More(x, y) /\ More(y, x))
         /\ Same(x, x) /\ (Same(x, y) => Same(y, x))
         /\ More(x, y) /\ (More(y, z) \/ Same(y, z)) => More(x, z)
         /\ Same(x, y) /\ More(y, z) => More(x, z)
         /\ Same(x, y) /\ Same(y, z) => Same(x, z)
<1> DEFINE a == x[1]
           b == x[2]
           c == y[1]
           d == y[2]
           e == z[1]
           f == z[2]
<1>1. a \in Int /\ c \in Int /\ e \in Int /\ b \in Nat \ {0} /\ d \in Nat \ {0} /\ f \in Nat \ {0}
  BY DEF IsFraction
<1>2. /\ More(x, y) <=> a * d > c * b
      /\ More(y, x) <=> c * b > a * d
      /\ More(y, z) <=> c * f > e * d
      /\ More(x, z) <=> a * f > e * b
      /\ Same(x, y) <=> a * d = c * b
      /\ Same(y, x) <=> c * b = a * d
      /\ Same(y, z) <=> c * f = e * d
      /\ Same(x, z) <=> a * f = e * b
      /\ Same(x, x)
  BY DEF More, Same
<1> HIDE DEF a, b, c, d, e, f
<1>3. /\ a * d \in Int /\ c * b \in Int /\ c * f \in Int /\ e * d \in Int /\ a * f \in Int /\ e * b \in Int
  BY <1>1
<1>4. /\ a * d > c * b <=> (a * d) * f > (c * b) * f
      /\ a * d = c * b <=> (a * d) * f = (c * b) * f
  BY <1>1, <1>3, Scaled
<1>5. /\ c * f > e * d <=> (c * f) * b > (e * d) * b
      /\ c * f = e * d <=> (c * f) * b = (e * d) * b
  BY <1>1, <1>3, Scaled
<1>6. /\ a * f > e * b <=> (a * f) * d > (e * b) * d
      /\ a * f = e * b <=> (a * f) * d = (e * b) * d
  BY <1>1, <1>3, Scaled
<1>7. (a * d) * f = (a * f) * d /\ (c * b) * f = (c * f) * b /\ (e * d) * b = (e * b) * d
  BY <1>1
<1>8. (a * f) * d \in Int /\ (c * f) * b \in Int /\ (e * b) * d \in Int
  BY <1>1
<1> QED
  BY <1>2, <1>3, <1>4, <1>5, <1>6, <1>7, <1>8

LEMMA WholeIs ==
  ASSUME NEW m \in Int, NEW n \in Int
  PROVE  IsFraction(Whole(m)) /\ (Same(Whole(m), Whole(n)) <=> m = n)
BY DEF IsFraction, Whole, Same

LEMMA LeastOf ==
  ASSUME NEW n \in Nat, NEW D \in SUBSET (1..n), D # {}
  PROVE  \E i \in D : \A j \in 1..(i - 1) : j \notin D
<1> DEFINE B == {X \in SUBSET (1..n) : \E i \in D : X = 1..i}
<1>1. B \subseteq SUBSET (1..n)
  OBVIOUS
<1>2. \A i \in D : (1..i) \in B
  OBVIOUS
<1>3. \A X \in B : \E i \in D : X = 1..i
  OBVIOUS
<1>4. IsFiniteSet(1..n)
  BY FS_Interval
<1> DEFINE S == 1..n
<1> HIDE DEF B, S
<1>5. PICK X \in B : \A Y \in B : Y \subseteq X => Y = X
  <2>1. IsFiniteSet(S) /\ B \subseteq SUBSET S /\ B # {}
    BY <1>1, <1>2, <1>4 DEF S
  <2> QED
    BY <2>1, Smallest
<1>6. PICK i \in D : X = 1..i
  BY <1>3
<1>7. ASSUME NEW j \in 1..(i - 1), j \in D
      PROVE  FALSE
  <2>1. (1..j) \subseteq (1..i) /\ i \in 1..i /\ i \notin 1..j
    OBVIOUS
  <2> QED
    BY <1>2, <1>5, <1>6, <1>7, <2>1
<1> QED
  BY <1>7

LEMMA PrecedesIs ==
  ASSUME NEW order, NEW n \in Nat, DOMAIN order = 1..n, NEW r, NEW s
  PROVE  Precedes(order, r, s)
           <=> \E i \in 1..n : /\ Ahead(r, s, order[i])
                               /\ \A j \in 1..(i - 1) : Same(Key(r, order[j][1]), Key(s, order[j][1]))
<1> DEFINE ahead(i) == Ahead(r, s, order[i])
           same(i) == Same(Key(r, order[i][1]), Key(s, order[i][1]))
           keys == [i \in DOMAIN order |-> <<ahead(i), same(i)>>]
<1>1. Precedes(order, r, s) <=> \E i \in DOMAIN keys : keys[i][1] /\ \A j \in 1..(i - 1) : keys[j][2]
  BY DEF Precedes, Decides
<1>2. \A i \in 1..n : (keys[i][1] <=> ahead(i)) /\ (keys[i][2] <=> same(i))
  BY DEF Ahead, More, Same
<1>3. DOMAIN keys = 1..n /\ \A i \in 1..n : \A j \in 1..(i - 1) : j \in 1..n
  OBVIOUS
<1> HIDE DEF keys, ahead, same
<1>4. Precedes(order, r, s) <=> \E i \in 1..n : ahead(i) /\ \A j \in 1..(i - 1) : same(j)
  BY <1>1, <1>2, <1>3
<1> QED
  BY <1>4 DEF ahead, same

\* One key, taken either way up.
LEMMA OneKey ==
  ASSUME NEW rows, NEW key, IsKey(rows, key), NEW r \in rows, NEW s \in rows, NEW t \in rows
  PROVE  LET same(x, y) == Same(Key(x, key[1]), Key(y, key[1]))
         IN /\ Ahead(r, s, key) \/ same(r, s) \/ Ahead(s, r, key)
            /\ ~(Ahead(r, s, key) /\ same(r, s)) /\ ~(Ahead(r, s, key) /\ Ahead(s, r, key))
            /\ same(r, r) /\ (same(r, s) => same(s, r))
            /\ Ahead(r, s, key) /\ (Ahead(s, t, key) \/ same(s, t)) => Ahead(r, t, key)
            /\ same(r, s) /\ Ahead(s, t, key) => Ahead(r, t, key)
            /\ same(r, s) /\ same(s, t) => same(r, t)
<1> DEFINE x == Key(r, key[1])
           y == Key(s, key[1])
           z == Key(t, key[1])
<1>1. IsFraction(x) /\ IsFraction(y) /\ IsFraction(z) /\ key[2] \in BOOLEAN
  BY DEF IsKey
<1>2. /\ Ahead(r, s, key) <=> IF key[2] THEN More(x, y) ELSE More(y, x)
      /\ Ahead(s, r, key) <=> IF key[2] THEN More(y, x) ELSE More(x, y)
      /\ Ahead(s, t, key) <=> IF key[2] THEN More(y, z) ELSE More(z, y)
      /\ Ahead(r, t, key) <=> IF key[2] THEN More(x, z) ELSE More(z, x)
  BY DEF Ahead
<1> HIDE DEF x, y, z
<1>3. /\ More(x, y) \/ Same(x, y) \/ More(y, x)
      /\ ~(More(x, y) /\ Same(x, y)) /\ ~(More(x, y) /\ More(y, x))
      /\ Same(x, x) /\ (Same(x, y) => Same(y, x))
      /\ More(x, y) /\ (More(y, z) \/ Same(y, z)) => More(x, z)
      /\ Same(x, y) /\ More(y, z) => More(x, z)
      /\ Same(x, y) /\ Same(y, z) => Same(x, z)
  BY <1>1, Compared
<1>4. /\ Same(y, x) => Same(x, y)
      /\ ~(More(y, x) /\ Same(y, x))
      /\ Same(y, z) => Same(z, y)
      /\ More(z, y) /\ (More(y, x) \/ Same(y, x)) => More(z, x)
      /\ Same(z, y) /\ More(y, x) => More(z, x)
  BY <1>1, Compared
<1> QED
  BY <1>2, <1>3, <1>4 DEF x, y, z

LEMMA KeysOrder ==
  ASSUME NEW rows, NEW order, Keys(order, rows)
  PROVE  Orders(OrderOf(order, rows), rows)
<1>1. PICK n \in Nat : DOMAIN order = 1..n
  BY DEF Keys
<1> DEFINE same(i, x, y) == Same(Key(x, order[i][1]), Key(y, order[i][1]))
           ahead(i, x, y) == Ahead(x, y, order[i])
           before(x, y) == \E i \in 1..n : ahead(i, x, y) /\ \A j \in 1..(i - 1) : same(j, x, y)
<1>2. ASSUME NEW i \in 1..n, NEW r \in rows, NEW s \in rows, NEW t \in rows
      PROVE  /\ ahead(i, r, s) \/ same(i, r, s) \/ ahead(i, s, r)
             /\ ~(ahead(i, r, s) /\ same(i, r, s)) /\ same(i, r, r) /\ (same(i, r, s) => same(i, s, r))
             /\ ahead(i, r, s) /\ (ahead(i, s, t) \/ same(i, s, t)) => ahead(i, r, t)
             /\ same(i, r, s) /\ ahead(i, s, t) => ahead(i, r, t)
             /\ same(i, r, s) /\ same(i, s, t) => same(i, r, t)
  <2>1. IsKey(rows, order[i])
    BY <1>1 DEF Keys
  <2> QED
    BY <2>1, OneKey
<1>3. \A x \in rows, y \in rows : <<x, y>> \in OrderOf(order, rows) <=> before(x, y)
  <2>1. \A x \in rows, y \in rows : Precedes(order, x, y) <=> before(x, y)
    BY <1>1, PrecedesIs
  <2> QED
    BY <2>1 DEF OrderOf
<1>4. \A x \in rows, y \in rows : x = y \/ \E i \in 1..n : ~same(i, x, y)
  BY <1>1 DEF Keys, Tells
<1> HIDE DEF same, ahead
<1>5. ASSUME NEW x \in rows
      PROVE  ~before(x, x)
  BY <1>2
<1>6. ASSUME NEW x \in rows, NEW y \in rows, x # y
      PROVE  before(x, y) \/ before(y, x)
  <2> DEFINE D == {i \in 1..n : ~same(i, x, y)}
  <2>1. D \in SUBSET (1..n) /\ D # {}
    BY <1>4, <1>6
  <2>2. PICK i \in D : \A j \in 1..(i - 1) : j \notin D
    BY <2>1, LeastOf
  <2>3. i \in 1..n /\ \A j \in 1..(i - 1) : j \in 1..n
    BY <1>1
  <2>4. \A j \in 1..(i - 1) : same(j, x, y) /\ same(j, y, x)
    BY <1>2, <2>2, <2>3
  <2>5. ahead(i, x, y) \/ ahead(i, y, x)
    BY <1>2, <2>2
  <2> QED
    BY <2>3, <2>4, <2>5
<1>7. ASSUME NEW x \in rows, NEW y \in rows, NEW z \in rows, before(x, y), before(y, z)
      PROVE  before(x, z)
  <2>1. PICK i \in 1..n : ahead(i, x, y) /\ \A j \in 1..(i - 1) : same(j, x, y)
    BY <1>7
  <2>2. PICK k \in 1..n : ahead(k, y, z) /\ \A j \in 1..(k - 1) : same(j, y, z)
    BY <1>7
  <2> DEFINE m == IF i < k THEN i ELSE k
  <2>3. m \in 1..n /\ \A j \in 1..(m - 1) : j \in 1..n /\ j \in 1..(i - 1) /\ j \in 1..(k - 1)
    OBVIOUS
  <2>4. \A j \in 1..(m - 1) : same(j, x, z)
    BY <1>2, <2>1, <2>2, <2>3
  <2>5. ahead(m, x, z)
    <3>1. CASE i < k
      <4>1. i \in 1..(k - 1)
        BY <3>1
      <4> QED
        BY <1>2, <2>1, <2>2, <3>1, <4>1
    <3>2. CASE k < i
      <4>1. k \in 1..(i - 1)
        BY <3>2
      <4> QED
        BY <1>2, <2>1, <2>2, <3>2, <4>1
    <3>3. CASE i = k
      BY <1>2, <2>1, <2>2, <3>3
    <3> QED
      BY <3>1, <3>2, <3>3
  <2> HIDE DEF m
  <2> QED
    BY <2>3, <2>4, <2>5
<1> HIDE DEF before
<1> QED
  BY <1>3, <1>5, <1>6, <1>7 DEF Orders

-----------------------------------------------------------------------------
(* Records: a list, its pages and its holder *)

LEMMA BesideHas ==
  ASSUME NEW r, NEW more, NEW f
  PROVE  /\ DOMAIN Beside(r, more) = DOMAIN r \cup DOMAIN more
         /\ f \in DOMAIN r => Beside(r, more)[f] = r[f]
         /\ f \in DOMAIN more \ DOMAIN r => Beside(r, more)[f] = more[f]
BY DEF Beside

LEMMA MinOfTwo ==
  ASSUME NEW m \in Int, NEW n \in Int
  PROVE  Min({m, n}) = IF m < n THEN m ELSE n
BY DEF Min

LEMMA LengthIs ==
  ASSUME NEW n \in Nat, NEW f, f = [i \in 1..n |-> f[i]]
  PROVE  Len(f) = n /\ DOMAIN f = 1..n
<1> DEFINE S == {f[i] : i \in 1..n}
<1>1. f \in [1..n -> S]
  OBVIOUS
<1> HIDE DEF S
<1> QED
  BY <1>1

LEMMA RankedRows ==
  ASSUME NEW order, NEW rows, NEW T \in SUBSET rows
  PROVE  Ranked(T, LAMBDA r, s : Precedes(order, r, s)) = InOrder(OrderOf(order, rows), T)
<1> DEFINE rel == OrderOf(order, rows)
           p == [x \in T |-> 1 + Cardinality({y \in T : Precedes(order, y, x)})]
           q == [x \in T |-> 1 + Cardinality({y \in T : <<y, x>> \in rel})]
<1>1. \A x \in T : {y \in T : Precedes(order, y, x)} = {y \in T : <<y, x>> \in rel}
  BY DEF OrderOf
<1> HIDE DEF rel
<1>2. p = q
  BY <1>1
<1> HIDE DEF p, q
<1>3. InOrder(rel, T) = [i \in 1..Cardinality(T) |-> CHOOSE x \in T : q[x] = i]
  BY DEF Ranked, InOrder, q
<1>4. InOrder(rel, T) = [i \in 1..Cardinality(T) |-> CHOOSE x \in T : p[x] = i]
  BY <1>2, <1>3
<1> QED
  BY <1>4 DEF Ranked, p, rel

LEMMA BetterIs ==
  ASSUME NEW c, Listable(c)
  PROVE  /\ \A r \in c.rows, s \in c.rows : Better(c, r, s) => <<r, s>> \in Order(c)
         /\ \A r \in c.rows, s \in c.rows, t \in c.rows :
              Better(c, r, s) /\ <<s, t>> \in Order(c) => Better(c, r, t)
         /\ \A r \in c.rows, s \in c.rows :
              Same(r.value, s.value) <=> ~Better(c, r, s) /\ ~Better(c, s, r)
         /\ Orders(Order(c), c.rows)
<1> DEFINE key == c.order[1]
<1>1. PICK n \in Nat : DOMAIN c.order = 1..n
  BY DEF Listable, Keys
<1>2. 1 \in 1..n /\ IsKey(c.rows, key) /\ key[1] = "value"
  BY <1>1 DEF Listable, Keys
<1>3. Orders(Order(c), c.rows)
  BY KeysOrder DEF Order, Listable
<1> HIDE DEF key
<1>4. \A r, s : Better(c, r, s) <=> Ahead(r, s, key)
  BY DEF Better, key
<1>5. ASSUME NEW r \in c.rows, NEW s \in c.rows, Better(c, r, s)
      PROVE  <<r, s>> \in Order(c)
  <2>1. Ahead(r, s, c.order[1]) /\ \A j \in 1..(1 - 1) : Same(Key(r, c.order[j][1]), Key(s, c.order[j][1]))
    BY <1>4, <1>5 DEF key
  <2>2. Precedes(c.order, r, s)
    BY <1>1, <1>2, <2>1, PrecedesIs
  <2> QED
    BY <2>2 DEF Order, OrderOf
<1>6. ASSUME NEW r \in c.rows, NEW s \in c.rows, NEW t \in c.rows, Better(c, r, s), <<s, t>> \in Order(c)
      PROVE  Better(c, r, t)
  <2>1. ~Better(c, t, s)
    BY <1>3, <1>5, <1>6 DEF Orders
  <2>2. Ahead(s, t, key) \/ Same(Key(s, key[1]), Key(t, key[1]))
    BY <1>2, <1>4, <2>1, OneKey
  <2>3. Ahead(r, s, key)
    BY <1>4, <1>6
  <2>4. Ahead(r, t, key)
    BY <1>2, <2>2, <2>3, OneKey
  <2> QED
    BY <1>4, <2>4
<1>7. ASSUME NEW r \in c.rows, NEW s \in c.rows
      PROVE  Same(r.value, s.value) <=> ~Better(c, r, s) /\ ~Better(c, s, r)
  <2>1. Key(r, key[1]) = r.value /\ Key(s, key[1]) = s.value
    BY <1>2 DEF Key
  <2>2. /\ Ahead(r, s, key) \/ Same(r.value, s.value) \/ Ahead(s, r, key)
        /\ ~(Ahead(r, s, key) /\ Same(r.value, s.value))
        /\ ~(Ahead(s, r, key) /\ Same(s.value, r.value))
        /\ Same(r.value, s.value) => Same(s.value, r.value)
    BY <1>2, <2>1, OneKey
  <2> QED
    BY <1>4, <2>2
<1> QED
  BY <1>3, <1>5, <1>6, <1>7

\* The rows with fewer than k better ones are the first of the list, at least
\* its first k, and have each row that is better than one of them.
LEMMA TopIs ==
  ASSUME NEW c, Listable(c), NEW k \in Nat \ {0}
  PROVE  LET top == WithTies(c, k)
             n == Cardinality(c.rows)
         IN /\ top \in SUBSET c.rows /\ IsFiniteSet(top) /\ Orders(Order(c), top)
            /\ n \in Nat /\ Cardinality(top) \in Nat /\ Cardinality(top) <= n
            /\ Cardinality(top) >= n \/ Cardinality(top) >= k
            /\ \A i \in 1..Cardinality(top) : InOrder(Order(c), top)[i] = All(c)[i]
            /\ \A r \in top : Betters(c, r) \subseteq top
<1> DEFINE top == WithTies(c, k)
           n == Cardinality(c.rows)
           rel == Order(c)
<1>1. IsFiniteSet(c.rows) /\ Orders(rel, c.rows)
  BY BetterIs DEF Listable
<1>2. \A r : r \in top <=> r \in c.rows /\ Cardinality(Betters(c, r)) < k
  BY DEF WithTies, Betters
<1>3. \A r : IsFiniteSet(Betters(c, r)) /\ Cardinality(Betters(c, r)) \in Nat
  BY <1>1, FS_Subset, FS_CardinalityType DEF Betters
<1>4. /\ \A r \in c.rows, s \in c.rows : Better(c, r, s) => <<r, s>> \in rel
      /\ \A r \in c.rows, s \in c.rows, t \in c.rows : Better(c, r, s) /\ <<s, t>> \in rel => Better(c, r, t)
  BY BetterIs
<1> HIDE DEF top, rel, n
<1>5. ASSUME NEW y \in top, NEW x \in c.rows, <<x, y>> \in rel
      PROVE  x \in top
  <2>1. Betters(c, x) \in SUBSET Betters(c, y)
    BY <1>2, <1>4, <1>5 DEF Betters
  <2>2. Cardinality(Betters(c, x)) <= Cardinality(Betters(c, y))
    BY <1>3, <2>1, FS_Subset
  <2> QED
    BY <1>2, <1>3, <2>2
<1>6. top \in SUBSET c.rows
  BY <1>2
<1>7. /\ IsFiniteSet(top) /\ Orders(rel, top) /\ Cardinality(top) <= n
      /\ \A i \in 1..Cardinality(top) : InOrder(rel, top)[i] = InOrder(rel, c.rows)[i]
  BY <1>1, <1>5, <1>6, FirstPlaces DEF n
<1>8. n \in Nat /\ Cardinality(top) \in Nat
  BY <1>1, <1>7, FS_CardinalityType DEF n
<1>9. ASSUME Cardinality(top) < n, Cardinality(top) < k
      PROVE  FALSE
  <2> DEFINE i == Cardinality(top) + 1
             x == InOrder(rel, c.rows)[i]
  <2>1. i \in 1..n /\ i <= k
    BY <1>8, <1>9
  <2>2. x \in c.rows /\ Place(rel, c.rows, x) = i
    BY <1>1, <2>1, Listing DEF n
  <2>3. Betters(c, x) \in SUBSET Preceding(rel, c.rows, x)
    BY <1>4, <2>2 DEF Betters, Preceding
  <2>4. IsFiniteSet(Preceding(rel, c.rows, x)) /\ Cardinality(Preceding(rel, c.rows, x)) \in Nat
    BY <1>1, FS_Subset, FS_CardinalityType DEF Preceding
  <2>5. Cardinality(Betters(c, x)) <= Cardinality(Preceding(rel, c.rows, x))
    BY <2>3, <2>4, FS_Subset
  <2>6. Cardinality(Preceding(rel, c.rows, x)) = i - 1
    BY <2>2, <2>4 DEF Place
  <2> HIDE DEF x
  <2>7. x \in top
    BY <1>2, <1>3, <2>1, <2>2, <2>5, <2>6
  <2>8. Preceding(rel, top, x) = Preceding(rel, c.rows, x)
    BY <1>5, <1>6, <2>7 DEF Preceding
  <2>9. Place(rel, top, x) \in 1..Cardinality(top)
    BY <1>7, <2>7, Places
  <2> QED
    BY <1>8, <2>2, <2>8, <2>9 DEF Place
<1>10. \A r \in top : Betters(c, r) \subseteq top
  BY <1>4, <1>5, <1>6 DEF Betters
<1> QED
  BY <1>6, <1>7, <1>8, <1>9, <1>10 DEF top, rel, n, All

LEMMA PageOfIs ==
  ASSUME NEW c, Listable(c), NEW kind, NEW limit \in Nat \ {0}, NEW offset \in Nat
  PROVE  LET p == page_of(c, kind, limit, offset)
             m == ListLength(c)
             len == IF offset >= m THEN 0 ELSE IF offset + limit < m THEN limit ELSE m - offset
         IN /\ m \in Nat /\ m <= Cardinality(c.rows) /\ m <= LIST_CAP /\ DOMAIN p = {"total", "entries"}
            /\ p.total = m
            /\ p.entries = [i \in 1..len |-> EntryOf(c, kind, All(c)[offset + i])]
<1> DEFINE top == WithTies(c, LIST_CAP)
           n == Cardinality(c.rows)
           m == ListLength(c)
           rel == Order(c)
           first == Paged(InOrder(rel, top), LIST_CAP, 0)
           page == Paged(first, limit, offset)
           len == IF offset >= m THEN 0 ELSE IF offset + limit < m THEN limit ELSE m - offset
<1>1. LIST_CAP \in Nat \ {0}
  BY CapsAssumption
<1>2. /\ top \in SUBSET c.rows /\ IsFiniteSet(top) /\ Orders(rel, top)
      /\ n \in Nat /\ Cardinality(top) \in Nat /\ Cardinality(top) <= n
      /\ Cardinality(top) >= n \/ Cardinality(top) >= LIST_CAP
      /\ \A i \in 1..Cardinality(top) : InOrder(rel, top)[i] = All(c)[i]
      /\ \A r \in top : Betters(c, r) \subseteq top
  BY <1>1, TopIs
<1>3. /\ m = (IF n < LIST_CAP THEN n ELSE LIST_CAP) /\ m \in Nat
      /\ Min({Cardinality(top), LIST_CAP}) = m
  BY <1>1, <1>2, MinOfTwo DEF ListLength
<1>4. /\ page_of(c, kind, limit, offset)
           = [total |-> Min({Cardinality(top), LIST_CAP}),
              entries |-> [i \in DOMAIN page |-> ranked_entry(c, kind, top, page[i])]]
  <2>1. Ranked(top, LAMBDA r, s : Precedes(c.order, r, s)) = InOrder(rel, top)
    BY <1>2, RankedRows DEF Order
  <2> HIDE DEF top, rel
  <2> QED
    BY <2>1 DEF page_of, top_page, top
<1> HIDE DEF top, n, m, rel, page, first
<1>5. /\ InOrder(rel, top) \in Seq(top) /\ Len(InOrder(rel, top)) = Cardinality(top)
      /\ \A i \in 1..Cardinality(top) : InOrder(rel, top)[i] \in top
  BY <1>2, Listing
<1>6. /\ first \in Seq(top) /\ Len(first) = m
      /\ \A i \in 1..m : first[i] = All(c)[i] /\ All(c)[i] \in top
  <2>1. /\ first \in Seq(top)
        /\ Len(first) = IF 0 >= Cardinality(top) THEN 0
                        ELSE IF 0 + LIST_CAP < Cardinality(top) THEN LIST_CAP ELSE Cardinality(top) - 0
        /\ \A i \in 1..Len(first) : first[i] = InOrder(rel, top)[0 + i]
    <3> DEFINE s == InOrder(rel, top)
    <3> HIDE DEF s
    <3>1. s \in Seq(top) /\ Len(s) = Cardinality(top) /\ 0 \in Nat
      BY <1>5 DEF s
    <3>2. /\ Paged(s, LIST_CAP, 0) \in Seq(top)
          /\ Len(Paged(s, LIST_CAP, 0)) = IF 0 >= Len(s) THEN 0
                                          ELSE IF 0 + LIST_CAP < Len(s) THEN LIST_CAP ELSE Len(s) - 0
          /\ \A i \in 1..Len(Paged(s, LIST_CAP, 0)) : Paged(s, LIST_CAP, 0)[i] = s[0 + i]
      BY <1>1, <3>1, PageIs
    <3> QED
      BY <3>1, <3>2 DEF first, s
  <2>2. Len(first) = m /\ m <= Cardinality(top)
    BY <1>1, <1>2, <1>3, <2>1
  <2> QED
    BY <1>2, <1>3, <1>5, <2>1, <2>2
<1>7. /\ page \in Seq(top) /\ Len(page) = len
      /\ \A i \in 1..len : page[i] = All(c)[offset + i]
  <2>1. /\ page \in Seq(top)
        /\ Len(page) = len
        /\ \A i \in 1..Len(page) : page[i] = first[offset + i]
    BY <1>6, PageIs DEF page
  <2>0. m \in Nat
    BY <1>3
  <2>2. len \in Nat /\ (len = 0 \/ offset + len <= m)
    <3>1. CASE offset >= m
      BY <3>1
    <3>2. CASE offset < m
      BY <2>0, <3>2
    <3> QED
      BY <2>0, <3>1, <3>2
  <2>3. \A i \in 1..len : offset + i \in 1..m
    <3> HIDE DEF len
    <3> QED
      BY <2>0, <2>2
  <2> QED
    BY <1>6, <2>1, <2>3
<1>8. DOMAIN page = 1..len /\ \A i \in 1..len : page[i] \in top
  BY <1>7
<1>9. ASSUME NEW r \in top
      PROVE  ranked_entry(c, kind, top, r) = EntryOf(c, kind, r)
  <2>1. {s \in top : Better(c, s, r)} = Betters(c, r)
    BY <1>2, <1>9 DEF Betters
  <2> QED
    BY <2>1 DEF ranked_entry, EntryOf
<1> HIDE DEF len
<1>10. [i \in DOMAIN page |-> ranked_entry(c, kind, top, page[i])]
         = [i \in 1..len |-> EntryOf(c, kind, All(c)[offset + i])]
  BY <1>7, <1>8, <1>9
<1>11. m <= n /\ m <= LIST_CAP
  BY <1>1, <1>2, <1>3
<1> QED
  BY <1>3, <1>4, <1>10, <1>11 DEF m, n, len

LEMMA FiguresHave ==
  ASSUME NEW r, NEW kind
  PROVE  DOMAIN figures(r, kind) = {"value", "wins", "losses", "made", "attempted", "pct"}
BY DEF figures

LEMMA EntryHas ==
  ASSUME NEW r, NEW rank, NEW kind
  PROVE  /\ entry(r, rank, kind).rank = rank
         /\ entry(r, rank, kind).value = figures(r, kind).value
         /\ "tied_count" \notin DOMAIN entry(r, rank, kind)
<1> DEFINE refs == [rank |-> rank, team |-> r.team_id, player |-> r.player_id,
                    season |-> r.season, game |-> r.game_id, opponent |-> r.opponent_id]
           figs == figures(r, kind)
<1>1. entry(r, rank, kind) = Beside(figs, refs)
  BY DEF entry
<1>2. DOMAIN refs = {"rank", "team", "player", "season", "game", "opponent"} /\ refs["rank"] = rank
  OBVIOUS
<1>3. DOMAIN figs = {"value", "wins", "losses", "made", "attempted", "pct"}
  BY FiguresHave
<1> HIDE DEF refs, figs
<1>4. Beside(figs, refs)["rank"] = rank
  BY <1>2, <1>3 DEF Beside
<1>5. Beside(figs, refs)["value"] = figs["value"]
  BY <1>3 DEF Beside
<1>6. "tied_count" \notin DOMAIN Beside(figs, refs)
  BY <1>2, <1>3 DEF Beside
<1> QED
  BY <1>1, <1>4, <1>5, <1>6 DEF figs

\* The holder is the first of the list, and who ties with it has its value.
LEMMA HolderIs ==
  ASSUME NEW c, Listable(c), NEW kind
  PROVE  /\ c.rows = {} => first_of(c, kind) = <<>>
         /\ c.rows # {} =>
              /\ All(c)[1] \in c.rows /\ Betters(c, All(c)[1]) = {}
              /\ first_of(c, kind) =
                   <<Beside(entry(All(c)[1], 1, kind),
                            [tied_count |-> Cardinality({r \in c.rows : Same(r.value, All(c)[1].value)})])>>
<1> DEFINE tied == WithTies(c, 1)
           rel == Order(c)
           h == All(c)[1]
<1>1. IsFiniteSet(c.rows) /\ Orders(rel, c.rows)
  BY BetterIs DEF Listable
<1>2. tied = {r \in c.rows : Betters(c, r) = {}}
  <2>1. \A r : IsFiniteSet(Betters(c, r))
    BY <1>1, FS_Subset DEF Betters
  <2>2. \A r : Cardinality(Betters(c, r)) < 1 <=> Betters(c, r) = {}
    BY <2>1, FS_EmptySet, FS_CardinalityType
  <2>3. tied = {r \in c.rows : Cardinality(Betters(c, r)) < 1}
    BY DEF WithTies, Betters
  <2> QED
    BY <2>2, <2>3
<1>3. first_of(c, kind) = IF tied = {} THEN <<>>
                          ELSE <<Beside(entry(FirstOf(c.order, tied), 1, kind), [tied_count |-> Cardinality(tied)])>>
  BY DEF first_of, holder_among
<1> HIDE DEF tied, rel, h
<1>4. ASSUME c.rows # {}
      PROVE  /\ h \in c.rows /\ Betters(c, h) = {} /\ tied # {} /\ FirstOf(c.order, tied) = h
             /\ tied = {r \in c.rows : Same(r.value, h.value)}
  <2>1. 1 \in 1..Cardinality(c.rows)
    BY <1>1, <1>4, FS_EmptySet, FS_CardinalityType
  <2>2. h \in c.rows /\ Place(rel, c.rows, h) = 1
    BY <1>1, <2>1, Listing DEF All, rel, h
  <2>3. Preceding(rel, c.rows, h) = {}
    <3>1. IsFiniteSet(Preceding(rel, c.rows, h))
      BY <1>1, FS_Subset DEF Preceding
    <3> QED
      BY <2>2, <3>1, FS_EmptySet, FS_CardinalityType DEF Place
  <2>4. Betters(c, h) = {}
    BY <2>2, <2>3, BetterIs DEF Betters, Preceding, rel
  <2>5. h \in tied
    BY <1>2, <2>2, <2>4
  <2>6. tied = {r \in c.rows : Same(r.value, h.value)}
    <3>1. ASSUME NEW r \in c.rows
          PROVE  Betters(c, r) = {} <=> Same(r.value, h.value)
      <4>1. Same(r.value, h.value) <=> ~Better(c, r, h) /\ ~Better(c, h, r)
        BY <2>2, BetterIs
      <4>2. ~Better(c, r, h)
        BY <2>4 DEF Betters
      <4>3. Betters(c, r) = {} => ~Better(c, h, r)
        BY <2>2 DEF Betters
      <4>4. ASSUME NEW s \in c.rows, Better(c, s, r)
            PROVE  Better(c, h, r)
        <5>1. h = r \/ <<h, r>> \in rel
          BY <1>1, <2>2, <2>3 DEF Orders, Preceding
        <5>2. ~Better(c, s, h)
          BY <2>4 DEF Betters
        <5>3. h # r
          BY <4>4, <5>2
        <5>4. s = h \/ <<h, s>> \in rel
          BY <1>1, <2>2, <2>3 DEF Orders, Preceding
        <5>5. CASE s = h
          BY <4>4, <5>5
        <5>6. CASE s # h
          <6>1. ~Better(c, r, h) /\ (Same(r.value, h.value) <=> ~Better(c, r, h) /\ ~Better(c, h, r))
            BY <4>1, <4>2
          <6>2. Same(h.value, s.value) <=> ~Better(c, h, s) /\ ~Better(c, s, h)
            BY <2>2, BetterIs
          <6>3. CASE Better(c, h, s)
            <7>1. <<s, r>> \in rel
              BY <4>4, BetterIs DEF rel
            <7> QED
              BY <2>2, <6>3, <7>1, BetterIs DEF rel
          <6>4. CASE ~Better(c, h, s)
            <7>1. Same(h.value, s.value)
              BY <5>2, <6>2, <6>4
            <7>2. PICK n \in Nat : DOMAIN c.order = 1..n
              BY DEF Listable, Keys
            <7>3. 1 \in 1..n /\ IsKey(c.rows, c.order[1]) /\ c.order[1][1] = "value"
              BY <7>2 DEF Listable, Keys
            <7>4. Same(Key(h, c.order[1][1]), Key(s, c.order[1][1])) /\ Ahead(s, r, c.order[1])
              BY <4>4, <7>1, <7>3 DEF Key, Better
            <7>5. Ahead(h, r, c.order[1])
              BY <2>2, <7>3, <7>4, OneKey
            <7> QED
              BY <7>5 DEF Better
          <6> QED
            BY <6>3, <6>4
        <5> QED
          BY <5>5, <5>6
      <4>5. ~Better(c, h, r) => Betters(c, r) = {}
        BY <4>4 DEF Betters
      <4> QED
        BY <4>1, <4>2, <4>3, <4>5
    <3> QED
      BY <1>2, <3>1
  <2>7. FirstOf(c.order, tied) = h
    <3>1. \A x \in c.rows, y \in c.rows : Precedes(c.order, x, y) <=> <<x, y>> \in rel
      BY DEF rel, Order, OrderOf
    <3>2. \A s \in tied \ {h} : Precedes(c.order, h, s)
      BY <1>1, <1>2, <2>2, <2>3, <3>1 DEF Orders, Preceding
    <3>3. ASSUME NEW r \in tied, \A s \in tied \ {r} : Precedes(c.order, r, s)
          PROVE  r = h
      BY <1>2, <2>3, <2>5, <3>1, <3>3 DEF Preceding
    <3> QED
      BY <2>5, <3>2, <3>3 DEF FirstOf
  <2> QED
    BY <2>2, <2>4, <2>5, <2>6, <2>7
<1>5. c.rows = {} => tied = {}
  BY <1>2
<1> QED
  BY <1>3, <1>4, <1>5 DEF h

\* A list and its pages, from any set of candidates that can be listed.
LEMMA ListIs ==
  ASSUME NEW c, Listable(c), NEW record, c = candidates(db, record.spec),
         NEW limit \in Nat \ {0}, NEW offset \in Nat
  PROVE  LET list == record_list(db, record, limit, offset)
             m == ListLength(c)
             len == IF offset >= m THEN 0 ELSE IF offset + limit < m THEN limit ELSE m - offset
         IN /\ list.total = m
            /\ list.entries = [i \in 1..len |-> EntryOf(c, record.value_kind, All(c)[offset + i])]
<1> DEFINE p == page_of(c, record.value_kind, limit, offset)
           w == [window |-> window(db)]
           m == ListLength(c)
           len == IF offset >= m THEN 0 ELSE IF offset + limit < m THEN limit ELSE m - offset
<1>1. record_list(db, record, limit, offset) = Beside(w, p)
  BY DEF record_list
<1>2. DOMAIN p = {"total", "entries"} /\ p.total = m
      /\ p.entries = [i \in 1..len |-> EntryOf(c, record.value_kind, All(c)[offset + i])]
  BY PageOfIs
<1>3. DOMAIN w = {"window"}
  OBVIOUS
<1> HIDE DEF w, p, m, len
<1>4. Beside(w, p)["total"] = p["total"] /\ Beside(w, p)["entries"] = p["entries"]
  BY <1>2, <1>3 DEF Beside
<1> QED
  BY <1>1, <1>2, <1>4 DEF m, len

LEMMA HeadsList ==
  ASSUME NEW c, Listable(c), NEW record, c = candidates(db, record.spec),
         record_holders(db, <<record.id>>)[record.id] = first_of(c, record.value_kind)
  PROVE  HeadsItsList(record, c)
<1> DEFINE all == All(c)
           kind == record.value_kind
           list == record_list(db, record, LIST_CAP, 0)
           n == Cardinality(c.rows)
           m == ListLength(c)
           holder == first_of(c, kind)
<1>1. Ranked(c.rows, LAMBDA r, s : Precedes(c.order, r, s)) = all
  <2> DEFINE order == c.order
             rows == c.rows
  <2> HIDE DEF order, rows
  <2>1. rows \in SUBSET rows
    OBVIOUS
  <2>2. Ranked(rows, LAMBDA r, s : Precedes(order, r, s)) = InOrder(OrderOf(order, rows), rows)
    BY <2>1, RankedRows
  <2> QED
    BY <2>2 DEF All, Order, order, rows
<1>2. /\ IsFiniteSet(c.rows) /\ Orders(Order(c), c.rows)
      /\ n \in Nat /\ m \in Nat /\ LIST_CAP \in Nat \ {0}
      /\ m = IF n < LIST_CAP THEN n ELSE LIST_CAP
  <2>1. IsFiniteSet(c.rows) /\ Orders(Order(c), c.rows)
    BY BetterIs DEF Listable
  <2>2. n \in Nat
    BY <2>1, FS_CardinalityType
  <2> QED
    BY <2>1, <2>2, MinOfTwo, CapsAssumption DEF ListLength
<1>3. Len(all) = n /\ (\A i \in 1..n : all[i] \in c.rows)
  BY <1>2, Listing DEF All
<1>4. list.total = m /\ list.entries = [i \in 1..m |-> EntryOf(c, kind, all[i])]
  <2> DEFINE len == IF 0 >= m THEN 0 ELSE IF 0 + LIST_CAP < m THEN LIST_CAP ELSE m - 0
  <2>1. list.total = m /\ list.entries = [i \in 1..len |-> EntryOf(c, kind, All(c)[0 + i])]
    BY <1>2, ListIs
  <2>2. len = m
    BY <1>2
  <2> HIDE DEF list, len, m, all
  <2>3. [i \in 1..len |-> EntryOf(c, kind, All(c)[0 + i])] = [i \in 1..m |-> EntryOf(c, kind, all[i])]
    BY <1>2, <2>2 DEF all
  <2> QED
    BY <2>1, <2>3
<1> HIDE DEF all, list, n, m, kind, holder
<1>5. Len(list.entries) = m /\ DOMAIN list.entries = 1..m
  BY <1>2, <1>4, LengthIs
<1>6. Lists(kind, c, all, list)
  <2>1. list.total = Min({Len(all), LIST_CAP})
    BY <1>3, <1>4 DEF m, n, ListLength
  <2>2. ASSUME NEW k \in 1..m
        PROVE  /\ list.entries[k].rank = 1 + Cardinality({r \in c.rows : Better(c, r, all[k])})
               /\ list.entries[k].value = figures(all[k], kind).value
    <3>1. list.entries[k] = entry(all[k], 1 + Cardinality(Betters(c, all[k])), kind)
      BY <1>4 DEF EntryOf
    <3> QED
      BY <3>1, EntryHas DEF Betters
  <2> QED
    BY <1>4, <1>5, <2>1, <2>2 DEF Lists
<1>7. IsPaged(record, list)
  <2>1. ASSUME NEW k \in 0..(LIST_CAP + 1)
        PROVE  record_list(db, record, 1, k).entries = IF k < list.total THEN <<list.entries[k + 1]>> ELSE <<>>
    <3> DEFINE len == IF k >= m THEN 0 ELSE IF k + 1 < m THEN 1 ELSE m - k
               one == record_list(db, record, 1, k).entries
    <3>1. one = [i \in 1..len |-> EntryOf(c, kind, all[k + i])]
      <4>1. k \in Nat /\ 1 \in Nat \ {0}
        BY <1>2
      <4> QED
        BY <4>1, ListIs DEF m, kind, all
    <3>2. len = IF k < m THEN 1 ELSE 0
      BY <1>2
    <3> HIDE DEF one, len
    <3>3. CASE k < m
      <4>1. one = [i \in 1..1 |-> EntryOf(c, kind, all[k + i])]
        BY <3>1, <3>2, <3>3
      <4>2. k + 1 \in 1..m
        BY <1>2, <3>3
      <4>3. list.entries[k + 1] = EntryOf(c, kind, all[k + 1])
        BY <1>4, <4>2
      <4>4. one = <<EntryOf(c, kind, all[k + 1])>>
        BY <4>1
      <4> QED
        BY <1>4, <3>3, <4>3, <4>4 DEF one
    <3>4. CASE ~(k < m)
      <4>1. one = [i \in 1..0 |-> EntryOf(c, kind, all[k + i])]
        BY <3>1, <3>2, <3>4
      <4>2. one = <<>>
        BY <4>1
      <4> QED
        BY <1>4, <3>4, <4>2 DEF one
    <3> QED
      BY <3>3, <3>4
  <2> QED
    BY <2>1 DEF IsPaged
<1>8. Heads(holder, c, all, list)
  <2>1. all = <<>> <=> c.rows = {}
    <3>1. n = 0 <=> c.rows = {}
      BY <1>2, FS_EmptySet DEF n
    <3>2. DOMAIN all = 1..n /\ all \in Seq(c.rows)
      BY <1>2, Listing DEF all, All, n
    <3>3. all = <<>> <=> Len(all) = 0
      BY <3>2
    <3> QED
      BY <1>3, <3>1, <3>3
  <2>2. CASE c.rows = {}
    <3>1. holder = <<>>
      BY <2>2, HolderIs DEF holder
    <3> QED
      BY <2>1, <2>2, <3>1 DEF Heads
  <2>3. CASE c.rows # {}
    <3> DEFINE first == entry(all[1], 1, kind)
               tie == [tied_count |-> Cardinality({r \in c.rows : Same(r.value, all[1].value)})]
    <3>1. all[1] \in c.rows /\ Betters(c, all[1]) = {} /\ holder = <<Beside(first, tie)>>
      BY <2>3, HolderIs DEF holder, all
    <3>2. 1 \in 1..m
      BY <1>2, <2>3, FS_EmptySet DEF n
    <3>3. list.entries[1] = first
      <4>1. Cardinality(Betters(c, all[1])) = 0
        BY <3>1, FS_EmptySet
      <4>2. list.entries[1] = EntryOf(c, kind, all[1])
        BY <1>4, <3>2
      <4> QED
        BY <4>1, <4>2 DEF EntryOf
    <3>4. "tied_count" \notin DOMAIN first /\ DOMAIN tie = {"tied_count"}
          /\ tie["tied_count"] = Cardinality({r \in c.rows : Same(r.value, all[1].value)})
      BY EntryHas
    <3> HIDE DEF first, tie
    <3>5. (\A f \in DOMAIN first : Beside(first, tie)[f] = first[f])
          /\ Beside(first, tie)["tied_count"] = tie["tied_count"]
      BY <3>4 DEF Beside
    <3>6. holder # <<>> /\ holder[1] = Beside(first, tie)
      BY <3>1
    <3> QED
      BY <2>1, <2>3, <3>3, <3>4, <3>5, <3>6 DEF Heads
  <2> QED
    BY <2>2, <2>3
<1> QED
  BY <1>1, <1>6, <1>7, <1>8 DEF HeadsItsList, Agree, all, list, kind, holder

-----------------------------------------------------------------------------
(* Records: what makes candidates listable *)

LEMMA ImageIsFinite ==
  ASSUME NEW S, IsFiniteSet(S), NEW f
  PROVE  IsFiniteSet({f[x] : x \in S})
<1> DEFINE g == [x \in S |-> f[x]]
<1>1. DOMAIN g = S /\ \A x \in S : g[x] = f[x]
  OBVIOUS
<1> HIDE DEF g
<1>2. {g[x] : x \in DOMAIN g} = {f[x] : x \in S}
  BY <1>1
<1> QED
  BY <1>1, <1>2, CountedByImage

LEMMA ColumnsHas ==
  ASSUME NEW row, NEW c \in DOMAIN row
  PROVE  Columns(row)[c] = row[c]
BY DEF Columns, Beside

LEMMA ListableFrom ==
  ASSUME NEW S, IsFiniteSet(S), NEW row, NEW columns, "value" \notin columns, ToldApart(row, S, columns),
         NEW order, OrderedBy(order, columns),
         NEW c, c.rows = RowsOf(row, S), c.order = order
  PROVE  Listable(c)
<1>0. c.rows = {Columns(row[x]) : x \in S}
  BY DEF RowsOf
<1>1. IsFiniteSet(c.rows)
  <2> DEFINE f == [x \in S |-> Columns(row[x])]
  <2>1. c.rows = {f[x] : x \in S}
    BY <1>0
  <2> HIDE DEF f
  <2>2. IsFiniteSet({f[x] : x \in S})
    BY ImageIsFinite
  <2> QED
    BY <2>1, <2>2
<1>2. \A x \in S : Columns(row[x]).value = row[x].value
                   /\ \A k \in columns : Columns(row[x])[k] = row[x][k]
  BY ColumnsHas DEF ToldApart
<1>3. ASSUME NEW i \in DOMAIN order
      PROVE  IsKey(c.rows, order[i])
  <2>1. ASSUME NEW x \in S
        PROVE  IsFraction(Key(Columns(row[x]), order[i][1]))
    <3>1. CASE order[i][1] = "value"
      BY <1>2, <3>1 DEF ToldApart, Key
    <3>2. CASE order[i][1] \in columns
      <4>1. row[x][order[i][1]] \in Int
        BY <3>2 DEF ToldApart
      <4> QED
        BY <1>2, <3>2, <4>1, WholeIs DEF Key
    <3> QED
      BY <3>1, <3>2 DEF OrderedBy
  <2>2. order[i][2] \in BOOLEAN
    BY DEF OrderedBy
  <2> QED
    BY <1>0, <2>1, <2>2 DEF IsKey
<1>4. ASSUME NEW x \in S, NEW y \in S, Columns(row[x]) # Columns(row[y])
      PROVE  Tells(order, Columns(row[x]), Columns(row[y]))
  <2>1. PICK k \in columns : row[x][k] # row[y][k]
    BY <1>4 DEF ToldApart
  <2>2. PICK i \in DOMAIN order : order[i][1] = k
    BY DEF OrderedBy
  <2>3. row[x][k] \in Int /\ row[y][k] \in Int
    BY DEF ToldApart
  <2>4. Key(Columns(row[x]), k) = Whole(row[x][k]) /\ Key(Columns(row[y]), k) = Whole(row[y][k])
    BY <1>2 DEF Key
  <2> QED
    BY <2>1, <2>2, <2>3, <2>4, WholeIs DEF Tells
<1>5. Keys(order, c.rows)
  <2>1. \A r \in c.rows, s \in c.rows : r = s \/ Tells(order, r, s)
    BY <1>0, <1>4
  <2>2. \E n \in Nat : DOMAIN order = 1..n
    BY DEF OrderedBy
  <2> QED
    BY <1>3, <2>1, <2>2 DEF Keys
<1>6. 1 \in DOMAIN order /\ order[1][1] = "value"
  BY DEF OrderedBy
<1> QED
  BY <1>1, <1>5, <1>6 DEF Listable

LEMMA ListableRows ==
  ASSUME NEW S, IsFiniteSet(S), NEW row, NEW columns, "value" \notin columns, ToldApart(row, S, columns),
         NEW order, OrderedBy(order, columns),
         NEW c, c.rows = {Columns(row[x]) : x \in S}, c.order = order
  PROVE  Listable(c)
<1>1. c.rows = RowsOf(row, S)
  BY DEF RowsOf
<1> QED
  BY <1>1, ListableFrom

LEMMA Orders2 ==
  ASSUME NEW best \in BOOLEAN, NEW k, NEW b \in BOOLEAN
  PROVE  OrderedBy(<<<<"value", best>>, <<k, b>>>>, {k})
<1> DEFINE order == <<<<"value", best>>, <<k, b>>>>
           columns == {k}
<1>1. DOMAIN order = 1..2
  OBVIOUS
<1>2. /\ order[1][1] = "value" /\ order[1][2] = best
      /\ order[2][1] = k /\ order[2][2] = b
  BY DEF Asc
<1>3. \A i \in 1..2 : i = 1 \/ i = 2
  OBVIOUS
<1> HIDE DEF order
<1>4. \A i \in 1..2 : order[i][2] \in BOOLEAN /\ order[i][1] \in {"value"} \cup columns
  BY <1>2, <1>3
<1>5. \A c \in columns : \E i \in 1..2 : order[i][1] = c
  BY <1>2
<1> HIDE DEF columns
<1>6. OrderedBy(order, columns)
  BY <1>1, <1>2, <1>4, <1>5 DEF OrderedBy
<1> QED
  BY <1>6 DEF order, columns

LEMMA Orders3 ==
  ASSUME NEW best \in BOOLEAN, NEW k, NEW b \in BOOLEAN, NEW l
  PROVE  OrderedBy(<<<<"value", best>>, <<k, b>>, Asc(l)>>, {k, l})
<1> DEFINE order == <<<<"value", best>>, <<k, b>>, Asc(l)>>
           columns == {k, l}
<1>1. DOMAIN order = 1..3
  OBVIOUS
<1>2. /\ order[1][1] = "value" /\ order[1][2] = best
      /\ order[2][1] = k /\ order[2][2] = b
      /\ order[3][1] = l /\ order[3][2] = FALSE
  BY DEF Asc
<1>3. \A i \in 1..3 : i = 1 \/ i = 2 \/ i = 3
  OBVIOUS
<1> HIDE DEF order
<1>4. \A i \in 1..3 : order[i][2] \in BOOLEAN /\ order[i][1] \in {"value"} \cup columns
  BY <1>2, <1>3
<1>5. \A c \in columns : \E i \in 1..3 : order[i][1] = c
  BY <1>2
<1> HIDE DEF columns
<1>6. OrderedBy(order, columns)
  BY <1>1, <1>2, <1>4, <1>5 DEF OrderedBy
<1> QED
  BY <1>6 DEF order, columns

LEMMA Orders4 ==
  ASSUME NEW best \in BOOLEAN, NEW k, NEW b \in BOOLEAN, NEW l, NEW m
  PROVE  OrderedBy(<<<<"value", best>>, <<k, b>>, Asc(l), Asc(m)>>, {k, l, m})
<1> DEFINE order == <<<<"value", best>>, <<k, b>>, Asc(l), Asc(m)>>
           columns == {k, l, m}
<1>1. DOMAIN order = 1..4
  OBVIOUS
<1>2. /\ order[1][1] = "value" /\ order[1][2] = best
      /\ order[2][1] = k /\ order[2][2] = b
      /\ order[3][1] = l /\ order[3][2] = FALSE
      /\ order[4][1] = m /\ order[4][2] = FALSE
  BY DEF Asc
<1>3. \A i \in 1..4 : i = 1 \/ i = 2 \/ i = 3 \/ i = 4
  OBVIOUS
<1> HIDE DEF order
<1>4. \A i \in 1..4 : order[i][2] \in BOOLEAN /\ order[i][1] \in {"value"} \cup columns
  BY <1>2, <1>3
<1>5. \A c \in columns : \E i \in 1..4 : order[i][1] = c
  BY <1>2
<1> HIDE DEF columns
<1>6. OrderedBy(order, columns)
  BY <1>1, <1>2, <1>4, <1>5 DEF OrderedBy
<1> QED
  BY <1>6 DEF order, columns

-----------------------------------------------------------------------------
(* Records: the registry *)

LEMMA StatsAre ==
  /\ Made = {"field_goals_made", "three_pointers_made", "free_throws_made"}
  /\ Attempted("field_goals_made") = "field_goals_attempted"
  /\ Attempted("three_pointers_made") = "three_pointers_attempted"
  /\ Attempted("free_throws_made") = "free_throws_attempted"
  /\ Shots = Made \cup {"field_goals_attempted", "three_pointers_attempted", "free_throws_attempted"}
  /\ Made \subseteq COUNTING_STATS /\ Shots \subseteq COUNTING_STATS
<1>1. /\ Made = {"field_goals_made", "three_pointers_made", "free_throws_made"}
      /\ Attempted("field_goals_made") = "field_goals_attempted"
      /\ Attempted("three_pointers_made") = "three_pointers_attempted"
      /\ Attempted("free_throws_made") = "free_throws_attempted"
  BY DEF Made, Attempted
<1>2. {Attempted(m) : m \in Made} = {"field_goals_attempted", "three_pointers_attempted", "free_throws_attempted"}
  BY <1>1
<1> QED
  BY <1>1, <1>2 DEF Shots, COUNTING_STATS

LEMMA PlayerGamesFit ==
  ASSUME NEW types
  PROVE  /\ \A column \in COUNTING_STATS \cup {"plus_minus", "minutes"} : SpecFits(PlayerGame(column, types))
         /\ \A column \in Made, minimum \in Nat \ {0} : SpecFits(PlayerGamePct(column, minimum))
<1>1. \A column : /\ PlayerGame(column, types).family = "player_game" /\ PlayerGame(column, types).column = column
                  /\ PlayerGame(column, types).percentage = FALSE
  BY DEF PlayerGame, Spec0
<1>2. \A column, minimum : /\ PlayerGamePct(column, minimum).family = "player_game"
                           /\ PlayerGamePct(column, minimum).column = column
                           /\ PlayerGamePct(column, minimum).percentage = TRUE
                           /\ PlayerGamePct(column, minimum).minimum = minimum
  BY DEF PlayerGamePct, PlayerGame, Spec0
<1> QED
  BY <1>1, <1>2 DEF SpecFits, PlayerGameFits

LEMMA PlayerSeasonsFit ==
  /\ \A column \in TotalColumns \cup {"minutes"} : SpecFits(SeasonTotal(column)) /\ SpecFits(SeasonAverage(column))
  /\ \A column \in Made, minimum \in Nat \ {0} : SpecFits(SeasonPct(column, minimum))
<1>1. \A column, measure : /\ Season(column, measure).family = "season" /\ Season(column, measure).column = column
                           /\ Season(column, measure).measure = measure
  BY DEF Season, Spec0
<1>2. \A column, minimum : /\ SeasonPct(column, minimum).family = "season"
                           /\ SeasonPct(column, minimum).column = column
                           /\ SeasonPct(column, minimum).measure = "pct"
                           /\ SeasonPct(column, minimum).minimum = minimum
  BY DEF SeasonPct, Season, Spec0
<1> QED
  BY <1>1, <1>2 DEF SpecFits, SeasonFits, TotalsFit, SeasonTotal, SeasonAverage

LEMMA PlayerCareersFit ==
  /\ \A column \in TotalColumns \cup {"minutes"} : \A type : SpecFits(CareerTotal(column, type))
  /\ \A column \in TotalColumns : SpecFits(CareerAverage(column))
  /\ \A column \in Made, minimum \in Nat \ {0} : SpecFits(CareerPct(column, minimum))
<1>1. \A column, measure : /\ Career(column, measure).family = "careers" /\ Career(column, measure).column = column
                           /\ Career(column, measure).measure = measure
  BY DEF Career, Spec0
<1>2. \A column, type : /\ CareerTotal(column, type).family = "careers"
                        /\ CareerTotal(column, type).column = column
                        /\ CareerTotal(column, type).measure = "total"
  BY DEF CareerTotal, Career, Spec0
<1>3. \A column, minimum : /\ CareerPct(column, minimum).family = "careers"
                           /\ CareerPct(column, minimum).column = column
                           /\ CareerPct(column, minimum).measure = "pct"
                           /\ CareerPct(column, minimum).minimum = minimum
  BY DEF CareerPct, Career, Spec0
<1> QED
  BY <1>1, <1>2, <1>3 DEF SpecFits, CareersFit, TotalsFit, CareerAverage

LEMMA TeamsFit ==
  /\ \A column \in SideColumns, best \in BOOLEAN : SpecFits(TeamSeasonAverage(column, best))
  /\ \A column \in Made : SpecFits(TeamSeasonMade(column)) /\ SpecFits(TeamSeasonPct(column))
  /\ \A of : SpecFits(TeamSeasonCount(of))
  /\ \A won : SpecFits(Streaks(won))
  /\ \A column \in SideColumns, best \in BOOLEAN : \A types : SpecFits(TeamGames(column, types, best))
  /\ \A column \in SideColumns : SpecFits(TeamGameStat(column))
  /\ \A of, type : SpecFits(TeamFranchise(of, type))
  /\ \A best \in BOOLEAN : SpecFits(SeasonRecord(best))
  /\ \A family \in OfOneKind : SpecFits(Named(family))
<1>1. \A column, measure : /\ TeamSeason(column, measure).family = "team_seasons"
                           /\ TeamSeason(column, measure).column = column
                           /\ TeamSeason(column, measure).measure = measure
                           /\ TeamSeason(column, measure).best = TRUE
  BY DEF TeamSeason, Spec0
<1>2. \A column, best : /\ TeamSeasonAverage(column, best).family = "team_seasons"
                        /\ TeamSeasonAverage(column, best).column = column
                        /\ TeamSeasonAverage(column, best).measure = "average"
                        /\ TeamSeasonAverage(column, best).best = best
  BY DEF TeamSeasonAverage, TeamSeason, Spec0
<1>3. \A of : /\ TeamSeasonCount(of).family = "team_seasons" /\ TeamSeasonCount(of).measure = "count"
              /\ TeamSeasonCount(of).best = TRUE
  BY DEF TeamSeasonCount, TeamSeason, Spec0
<1>4. \A won : /\ Streaks(won).family = "team_seasons" /\ Streaks(won).measure = "streak"
               /\ Streaks(won).best = TRUE
  BY DEF Streaks, TeamSeason, Spec0
<1>5. \A column, types, best : /\ TeamGames(column, types, best).family = "team_games"
                               /\ TeamGames(column, types, best).column = column
                               /\ TeamGames(column, types, best).best = best
  BY DEF TeamGames, Spec0
<1>6. \A of, type : TeamFranchise(of, type).family = "team_franchise"
  BY DEF TeamFranchise, Spec0
<1>7. \A best : SeasonRecord(best).family = "season_record" /\ SeasonRecord(best).best = best
  BY DEF SeasonRecord, Spec0
<1>8. \A family : Named(family).family = family
  BY DEF Named, Spec0
<1>9. ASSUME NEW column \in SideColumns, NEW best \in BOOLEAN
      PROVE  SpecFits(TeamSeasonAverage(column, best))
  <2>1. TeamSeasonsFit(TeamSeasonAverage(column, best))
    BY <1>2 DEF TeamSeasonsFit
  <2> QED
    BY <1>2, <2>1 DEF SpecFits
<1>10. ASSUME NEW column \in Made
       PROVE  SpecFits(TeamSeasonMade(column)) /\ SpecFits(TeamSeasonPct(column))
  <2>1. \A measure \in {"made", "pct"} : TeamSeasonsFit(TeamSeason(column, measure))
    <3> SUFFICES ASSUME NEW measure \in {"made", "pct"}
                 PROVE  TeamSeasonsFit(TeamSeason(column, measure))
      OBVIOUS
    <3> DEFINE spec == TeamSeason(column, measure)
    <3>1. spec.measure \in {"made", "pct"} /\ spec.column \in Made /\ spec.best \in BOOLEAN
      BY <1>1
    <3> QED
      BY <3>1 DEF TeamSeasonsFit
  <2> QED
    BY <1>1, <2>1 DEF SpecFits, TeamSeasonMade, TeamSeasonPct
<1>11. /\ \A of : SpecFits(TeamSeasonCount(of))
       /\ \A won : SpecFits(Streaks(won))
  <2>1. /\ \A of : TeamSeasonsFit(TeamSeasonCount(of))
        /\ \A won : TeamSeasonsFit(Streaks(won))
    BY <1>3, <1>4 DEF TeamSeasonsFit
  <2> QED
    BY <1>3, <1>4, <2>1 DEF SpecFits
<1>12. /\ \A column \in SideColumns, best \in BOOLEAN : \A types : SpecFits(TeamGames(column, types, best))
       /\ \A column \in SideColumns : SpecFits(TeamGameStat(column))
  <2>1. ASSUME NEW column \in SideColumns, NEW types, NEW best \in BOOLEAN
        PROVE  SpecFits(TeamGames(column, types, best))
    <3>1. TeamGamesFit(TeamGames(column, types, best))
      BY <1>5 DEF TeamGamesFit
    <3> QED
      BY <1>5, <3>1 DEF SpecFits
  <2> QED
    BY <2>1 DEF TeamGameStat
<1>13. \A of, type : SpecFits(TeamFranchise(of, type))
  BY <1>6 DEF SpecFits, OfOneKind
<1>14. \A best \in BOOLEAN : SpecFits(SeasonRecord(best))
  BY <1>7 DEF SpecFits
<1>15. \A family \in OfOneKind : SpecFits(Named(family))
  BY <1>8 DEF SpecFits
<1> QED
  BY <1>9, <1>10, <1>11, <1>12, <1>13, <1>14, <1>15
LEMMA FitTogether ==
  ASSUME NEW S, NEW A, Fit(S, A), NEW T, NEW B, Fit(T, B), A \cap B = {}
  PROVE  Fit(S \cup T, A \cup B)
BY DEF Fit

LEMMA ListFrom ==
  ASSUME NEW n \in Nat, NEW s, DOMAIN s = 1..n, s = [i \in 1..n |-> s[i]]
  PROVE  IsList(s)
<1>1. \A i \in 1..n : s[i] \in ToSet(s)
  BY DEF ToSet
<1> QED
  BY <1>1 DEF IsList

LEMMA JoinedSets ==
  ASSUME NEW s, IsList(s), NEW t, IsList(t)
  PROVE  IsList(s \o t) /\ ToSet(s \o t) = ToSet(s) \cup ToSet(t)
<1> DEFINE X == ToSet(s) \cup ToSet(t)
<1>0. s \in Seq(X) /\ t \in Seq(X)
  BY DEF IsList
<1> HIDE DEF X
<1>1. /\ s \o t \in Seq(X) /\ DOMAIN (s \o t) = 1..(Len(s) + Len(t)) /\ Len(s) \in Nat /\ Len(t) \in Nat
      /\ DOMAIN s = 1..Len(s) /\ DOMAIN t = 1..Len(t)
      /\ \A i \in 1..(Len(s) + Len(t)) : (s \o t)[i] = IF i <= Len(s) THEN s[i] ELSE t[i - Len(s)]
  BY <1>0
<1> DEFINE u == s \o t
<1> HIDE DEF u
<1>2. ToSet(s) \subseteq ToSet(u)
  <2>1. \A i \in DOMAIN s : i \in DOMAIN u /\ u[i] = s[i]
    BY <1>1 DEF u
  <2> QED
    BY <2>1 DEF ToSet
<1>3. ToSet(t) \subseteq ToSet(u)
  <2>1. \A i \in DOMAIN t : i + Len(s) \in DOMAIN u /\ u[i + Len(s)] = t[i]
    BY <1>1 DEF u
  <2> QED
    BY <2>1 DEF ToSet
<1>4. ToSet(u) \subseteq ToSet(s) \cup ToSet(t)
  <2>1. \A i \in DOMAIN u : (i \in DOMAIN s /\ u[i] = s[i]) \/ (i - Len(s) \in DOMAIN t /\ u[i] = t[i - Len(s)])
    BY <1>1 DEF u
  <2> QED
    BY <2>1 DEF ToSet
<1> QED
  BY <1>1, <1>2, <1>3, <1>4 DEF u, X, IsList

LEMMA TeamFranchiseFit == IsList(TEAM_FRANCHISE) /\ Fit(ToSet(TEAM_FRANCHISE), TeamFranchiseIds)
<1> DEFINE s == TEAM_FRANCHISE
<1>1. DOMAIN s = 1..5 /\ s = [i \in 1..5 |-> s[i]]
  BY DEF TEAM_FRANCHISE
<1>2. /\ SpecFits(s[1].spec) /\ SpecFits(s[2].spec) /\ SpecFits(s[3].spec) /\ SpecFits(s[4].spec)
      /\ SpecFits(s[5].spec)
  BY TeamsFit, StatsAre, MinimumsAssumption
     DEF TEAM_FRANCHISE, OfOneKind,
         Record
<1>3. \A i \in 1..5 : i = 1 \/ i = 2 \/ i = 3 \/ i = 4 \/ i = 5
  OBVIOUS
<1>4. /\ s[1].id = "team-championships" /\ s[2].id = "team-finals-appearances"
      /\ s[3].id = "team-playoff-appearances" /\ s[4].id = "team-most-wins-all-time"
      /\ s[5].id = "team-best-win-pct-all-time"
  BY DEF TEAM_FRANCHISE, Record
<1> HIDE DEF s
<1>5. Fit(ToSet(s), TeamFranchiseIds)
  BY <1>1, <1>2, <1>3, <1>4 DEF Fit, ToSet, TeamFranchiseIds
<1>6. IsList(s)
  BY <1>1, ListFrom
<1> QED
  BY <1>5, <1>6 DEF s

LEMMA TeamSeasonResultsFit == IsList(TEAM_SEASON_RESULTS) /\ Fit(ToSet(TEAM_SEASON_RESULTS), TeamSeasonResultsIds)
<1> DEFINE s == TEAM_SEASON_RESULTS
<1>1. DOMAIN s = 1..9 /\ s = [i \in 1..9 |-> s[i]]
  BY DEF TEAM_SEASON_RESULTS
<1>2. /\ SpecFits(s[1].spec) /\ SpecFits(s[2].spec) /\ SpecFits(s[3].spec) /\ SpecFits(s[4].spec)
      /\ SpecFits(s[5].spec) /\ SpecFits(s[6].spec) /\ SpecFits(s[7].spec) /\ SpecFits(s[8].spec)
      /\ SpecFits(s[9].spec)
  BY TeamsFit, StatsAre, MinimumsAssumption
     DEF TEAM_SEASON_RESULTS, SideColumns, BoxColumns,
         Record
<1>3. \A i \in 1..9 : i = 1 \/ i = 2 \/ i = 3 \/ i = 4 \/ i = 5 \/ i = 6 \/ i = 7 \/ i = 8 \/ i = 9
  OBVIOUS
<1>4. /\ s[1].id = "team-best-season" /\ s[2].id = "team-worst-season" /\ s[3].id = "team-most-wins-season"
      /\ s[4].id = "team-most-losses-season" /\ s[5].id = "team-longest-win-streak"
      /\ s[6].id = "team-longest-losing-streak" /\ s[7].id = "team-highest-ppg-season"
      /\ s[8].id = "team-lowest-opp-ppg-season" /\ s[9].id = "team-best-point-diff-season"
  BY DEF TEAM_SEASON_RESULTS, Record
<1> HIDE DEF s
<1>5. Fit(ToSet(s), TeamSeasonResultsIds)
  BY <1>1, <1>2, <1>3, <1>4 DEF Fit, ToSet, TeamSeasonResultsIds
<1>6. IsList(s)
  BY <1>1, ListFrom
<1> QED
  BY <1>5, <1>6 DEF s

LEMMA TeamSeasonShootingFit == IsList(TEAM_SEASON_SHOOTING) /\ Fit(ToSet(TEAM_SEASON_SHOOTING), TeamSeasonShootingIds)
<1> DEFINE s == TEAM_SEASON_SHOOTING
<1>1. DOMAIN s = 1..9 /\ s = [i \in 1..9 |-> s[i]]
  BY DEF TEAM_SEASON_SHOOTING
<1>2. /\ SpecFits(s[1].spec) /\ SpecFits(s[2].spec) /\ SpecFits(s[3].spec) /\ SpecFits(s[4].spec)
      /\ SpecFits(s[5].spec) /\ SpecFits(s[6].spec) /\ SpecFits(s[7].spec) /\ SpecFits(s[8].spec)
      /\ SpecFits(s[9].spec)
  BY TeamsFit, StatsAre, MinimumsAssumption
     DEF TEAM_SEASON_SHOOTING, SideColumns, BoxColumns,
         Record
<1>3. \A i \in 1..9 : i = 1 \/ i = 2 \/ i = 3 \/ i = 4 \/ i = 5 \/ i = 6 \/ i = 7 \/ i = 8 \/ i = 9
  OBVIOUS
<1>4. /\ s[1].id = "team-most-threes-season" /\ s[2].id = "team-three-pct-season"
      /\ s[3].id = "team-field-goal-pct-season" /\ s[4].id = "team-free-throw-pct-season"
      /\ s[5].id = "team-apg-season" /\ s[6].id = "team-rpg-season" /\ s[7].id = "team-spg-season"
      /\ s[8].id = "team-bpg-season" /\ s[9].id = "team-fewest-turnovers-season"
  BY DEF TEAM_SEASON_SHOOTING, Record
<1> HIDE DEF s
<1>5. Fit(ToSet(s), TeamSeasonShootingIds)
  BY <1>1, <1>2, <1>3, <1>4 DEF Fit, ToSet, TeamSeasonShootingIds
<1>6. IsList(s)
  BY <1>1, ListFrom
<1> QED
  BY <1>5, <1>6 DEF s

LEMMA TeamGameFit == IsList(TEAM_GAME) /\ Fit(ToSet(TEAM_GAME), TeamGameIds)
<1> DEFINE s == TEAM_GAME
<1>1. DOMAIN s = 1..11 /\ s = [i \in 1..11 |-> s[i]]
  BY DEF TEAM_GAME
<1>2. /\ SpecFits(s[1].spec) /\ SpecFits(s[2].spec) /\ SpecFits(s[3].spec) /\ SpecFits(s[4].spec)
      /\ SpecFits(s[5].spec) /\ SpecFits(s[6].spec) /\ SpecFits(s[7].spec) /\ SpecFits(s[8].spec)
      /\ SpecFits(s[9].spec) /\ SpecFits(s[10].spec) /\ SpecFits(s[11].spec)
  BY TeamsFit, StatsAre, MinimumsAssumption
     DEF TEAM_GAME, OfOneKind, SideColumns, BoxColumns,
         Record
<1>3. \A i \in 1..11 : i = 1 \/ i = 2 \/ i = 3 \/ i = 4 \/ i = 5 \/ i = 6 \/ i = 7 \/ i = 8 \/ i = 9 \/ i = 10 \/ i = 11
  OBVIOUS
<1>4. /\ s[1].id = "team-most-points-game" /\ s[2].id = "team-fewest-points-game"
      /\ s[3].id = "team-largest-win" /\ s[4].id = "team-most-threes-game"
      /\ s[5].id = "team-most-assists-game" /\ s[6].id = "team-most-rebounds-game"
      /\ s[7].id = "team-most-steals-game" /\ s[8].id = "team-most-blocks-game"
      /\ s[9].id = "team-highest-combined-points-game" /\ s[10].id = "team-playoff-most-points-game"
      /\ s[11].id = "team-playoff-largest-win"
  BY DEF TEAM_GAME, Record
<1> HIDE DEF s
<1>5. Fit(ToSet(s), TeamGameIds)
  BY <1>1, <1>2, <1>3, <1>4 DEF Fit, ToSet, TeamGameIds
<1>6. IsList(s)
  BY <1>1, ListFrom
<1> QED
  BY <1>5, <1>6 DEF s

LEMMA PlayerGameCountsFit == IsList(PLAYER_GAME_COUNTS) /\ Fit(ToSet(PLAYER_GAME_COUNTS), PlayerGameCountsIds)
<1> DEFINE s == PLAYER_GAME_COUNTS
<1>1. DOMAIN s = 1..7 /\ s = [i \in 1..7 |-> s[i]]
  BY DEF PLAYER_GAME_COUNTS
<1>2. /\ SpecFits(s[1].spec) /\ SpecFits(s[2].spec) /\ SpecFits(s[3].spec) /\ SpecFits(s[4].spec)
      /\ SpecFits(s[5].spec) /\ SpecFits(s[6].spec) /\ SpecFits(s[7].spec)
  BY PlayerGamesFit, StatsAre, MinimumsAssumption
     DEF PLAYER_GAME_COUNTS, COUNTING_STATS,
         Record
<1>3. \A i \in 1..7 : i = 1 \/ i = 2 \/ i = 3 \/ i = 4 \/ i = 5 \/ i = 6 \/ i = 7
  OBVIOUS
<1>4. /\ s[1].id = "player-points-game" /\ s[2].id = "player-rebounds-game"
      /\ s[3].id = "player-offensive-rebounds-game" /\ s[4].id = "player-defensive-rebounds-game"
      /\ s[5].id = "player-assists-game" /\ s[6].id = "player-steals-game" /\ s[7].id = "player-blocks-game"
  BY DEF PLAYER_GAME_COUNTS, Record
<1> HIDE DEF s
<1>5. Fit(ToSet(s), PlayerGameCountsIds)
  BY <1>1, <1>2, <1>3, <1>4 DEF Fit, ToSet, PlayerGameCountsIds
<1>6. IsList(s)
  BY <1>1, ListFrom
<1> QED
  BY <1>5, <1>6 DEF s

LEMMA PlayerGameShootingFit == IsList(PLAYER_GAME_SHOOTING) /\ Fit(ToSet(PLAYER_GAME_SHOOTING), PlayerGameShootingIds)
<1> DEFINE s == PLAYER_GAME_SHOOTING
<1>1. DOMAIN s = 1..8 /\ s = [i \in 1..8 |-> s[i]]
  BY DEF PLAYER_GAME_SHOOTING
<1>2. /\ SpecFits(s[1].spec) /\ SpecFits(s[2].spec) /\ SpecFits(s[3].spec) /\ SpecFits(s[4].spec)
      /\ SpecFits(s[5].spec) /\ SpecFits(s[6].spec) /\ SpecFits(s[7].spec) /\ SpecFits(s[8].spec)
  BY PlayerGamesFit, StatsAre, MinimumsAssumption
     DEF PLAYER_GAME_SHOOTING, COUNTING_STATS,
         Record
<1>3. \A i \in 1..8 : i = 1 \/ i = 2 \/ i = 3 \/ i = 4 \/ i = 5 \/ i = 6 \/ i = 7 \/ i = 8
  OBVIOUS
<1>4. /\ s[1].id = "player-threes-game" /\ s[2].id = "player-three-pct-game"
      /\ s[3].id = "player-field-goals-game" /\ s[4].id = "player-field-goal-pct-game"
      /\ s[5].id = "player-free-throws-game" /\ s[6].id = "player-free-throw-pct-game"
      /\ s[7].id = "player-minutes-game" /\ s[8].id = "player-plus-minus-game"
  BY DEF PLAYER_GAME_SHOOTING, Record
<1> HIDE DEF s
<1>5. Fit(ToSet(s), PlayerGameShootingIds)
  BY <1>1, <1>2, <1>3, <1>4 DEF Fit, ToSet, PlayerGameShootingIds
<1>6. IsList(s)
  BY <1>1, ListFrom
<1> QED
  BY <1>5, <1>6 DEF s

LEMMA PlayerSeasonCountsFit == IsList(PLAYER_SEASON_COUNTS) /\ Fit(ToSet(PLAYER_SEASON_COUNTS), PlayerSeasonCountsIds)
<1> DEFINE s == PLAYER_SEASON_COUNTS
<1>1. DOMAIN s = 1..9 /\ s = [i \in 1..9 |-> s[i]]
  BY DEF PLAYER_SEASON_COUNTS
<1>2. /\ SpecFits(s[1].spec) /\ SpecFits(s[2].spec) /\ SpecFits(s[3].spec) /\ SpecFits(s[4].spec)
      /\ SpecFits(s[5].spec) /\ SpecFits(s[6].spec) /\ SpecFits(s[7].spec) /\ SpecFits(s[8].spec)
      /\ SpecFits(s[9].spec)
  BY PlayerSeasonsFit, StatsAre, MinimumsAssumption
     DEF PLAYER_SEASON_COUNTS, TotalColumns, COUNTING_STATS,
         Record
<1>3. \A i \in 1..9 : i = 1 \/ i = 2 \/ i = 3 \/ i = 4 \/ i = 5 \/ i = 6 \/ i = 7 \/ i = 8 \/ i = 9
  OBVIOUS
<1>4. /\ s[1].id = "player-points-season" /\ s[2].id = "player-rebounds-season"
      /\ s[3].id = "player-offensive-rebounds-season" /\ s[4].id = "player-assists-season"
      /\ s[5].id = "player-steals-season" /\ s[6].id = "player-blocks-season"
      /\ s[7].id = "player-minutes-season" /\ s[8].id = "player-triple-doubles-season"
      /\ s[9].id = "player-double-doubles-season"
  BY DEF PLAYER_SEASON_COUNTS, Record
<1> HIDE DEF s
<1>5. Fit(ToSet(s), PlayerSeasonCountsIds)
  BY <1>1, <1>2, <1>3, <1>4 DEF Fit, ToSet, PlayerSeasonCountsIds
<1>6. IsList(s)
  BY <1>1, ListFrom
<1> QED
  BY <1>5, <1>6 DEF s

LEMMA PlayerSeasonRatesFit == IsList(PLAYER_SEASON_RATES) /\ Fit(ToSet(PLAYER_SEASON_RATES), PlayerSeasonRatesIds)
<1> DEFINE s == PLAYER_SEASON_RATES
<1>1. DOMAIN s = 1..12 /\ s = [i \in 1..12 |-> s[i]]
  BY DEF PLAYER_SEASON_RATES
<1>2. /\ SpecFits(s[1].spec) /\ SpecFits(s[2].spec) /\ SpecFits(s[3].spec) /\ SpecFits(s[4].spec)
      /\ SpecFits(s[5].spec) /\ SpecFits(s[6].spec) /\ SpecFits(s[7].spec) /\ SpecFits(s[8].spec)
      /\ SpecFits(s[9].spec) /\ SpecFits(s[10].spec) /\ SpecFits(s[11].spec) /\ SpecFits(s[12].spec)
  BY PlayerSeasonsFit, StatsAre, MinimumsAssumption
     DEF PLAYER_SEASON_RATES, TotalColumns, COUNTING_STATS,
         Record
<1>3. \A i \in 1..12 : i = 1 \/ i = 2 \/ i = 3 \/ i = 4 \/ i = 5 \/ i = 6 \/ i = 7 \/ i = 8 \/ i = 9 \/ i = 10 \/ i = 11 \/ i = 12
  OBVIOUS
<1>4. /\ s[1].id = "player-threes-season" /\ s[2].id = "player-three-pct-season"
      /\ s[3].id = "player-field-goals-season" /\ s[4].id = "player-field-goal-pct-season"
      /\ s[5].id = "player-free-throws-season" /\ s[6].id = "player-free-throw-pct-season"
      /\ s[7].id = "player-ppg-season" /\ s[8].id = "player-rpg-season" /\ s[9].id = "player-apg-season"
      /\ s[10].id = "player-spg-season" /\ s[11].id = "player-bpg-season" /\ s[12].id = "player-mpg-season"
  BY DEF PLAYER_SEASON_RATES, Record
<1> HIDE DEF s
<1>5. Fit(ToSet(s), PlayerSeasonRatesIds)
  BY <1>1, <1>2, <1>3, <1>4 DEF Fit, ToSet, PlayerSeasonRatesIds
<1>6. IsList(s)
  BY <1>1, ListFrom
<1> QED
  BY <1>5, <1>6 DEF s

LEMMA PlayerCareerCountsFit == IsList(PLAYER_CAREER_COUNTS) /\ Fit(ToSet(PLAYER_CAREER_COUNTS), PlayerCareerCountsIds)
<1> DEFINE s == PLAYER_CAREER_COUNTS
<1>1. DOMAIN s = 1..9 /\ s = [i \in 1..9 |-> s[i]]
  BY DEF PLAYER_CAREER_COUNTS
<1>2. /\ SpecFits(s[1].spec) /\ SpecFits(s[2].spec) /\ SpecFits(s[3].spec) /\ SpecFits(s[4].spec)
      /\ SpecFits(s[5].spec) /\ SpecFits(s[6].spec) /\ SpecFits(s[7].spec) /\ SpecFits(s[8].spec)
      /\ SpecFits(s[9].spec)
  BY PlayerCareersFit, TeamsFit, StatsAre, MinimumsAssumption
     DEF PLAYER_CAREER_COUNTS, TotalColumns, COUNTING_STATS, OfOneKind,
         Record
<1>3. \A i \in 1..9 : i = 1 \/ i = 2 \/ i = 3 \/ i = 4 \/ i = 5 \/ i = 6 \/ i = 7 \/ i = 8 \/ i = 9
  OBVIOUS
<1>4. /\ s[1].id = "player-career-points" /\ s[2].id = "player-career-rebounds"
      /\ s[3].id = "player-career-assists" /\ s[4].id = "player-career-steals"
      /\ s[5].id = "player-career-blocks" /\ s[6].id = "player-career-minutes"
      /\ s[7].id = "player-career-games" /\ s[8].id = "player-career-triple-doubles"
      /\ s[9].id = "player-career-double-doubles"
  BY DEF PLAYER_CAREER_COUNTS, Record
<1> HIDE DEF s
<1>5. Fit(ToSet(s), PlayerCareerCountsIds)
  BY <1>1, <1>2, <1>3, <1>4 DEF Fit, ToSet, PlayerCareerCountsIds
<1>6. IsList(s)
  BY <1>1, ListFrom
<1> QED
  BY <1>5, <1>6 DEF s

LEMMA PlayerCareerRatesFit == IsList(PLAYER_CAREER_RATES) /\ Fit(ToSet(PLAYER_CAREER_RATES), PlayerCareerRatesIds)
<1> DEFINE s == PLAYER_CAREER_RATES
<1>1. DOMAIN s = 1..11 /\ s = [i \in 1..11 |-> s[i]]
  BY DEF PLAYER_CAREER_RATES
<1>2. /\ SpecFits(s[1].spec) /\ SpecFits(s[2].spec) /\ SpecFits(s[3].spec) /\ SpecFits(s[4].spec)
      /\ SpecFits(s[5].spec) /\ SpecFits(s[6].spec) /\ SpecFits(s[7].spec) /\ SpecFits(s[8].spec)
      /\ SpecFits(s[9].spec) /\ SpecFits(s[10].spec) /\ SpecFits(s[11].spec)
  BY PlayerCareersFit, StatsAre, MinimumsAssumption
     DEF PLAYER_CAREER_RATES, TotalColumns, COUNTING_STATS,
         Record
<1>3. \A i \in 1..11 : i = 1 \/ i = 2 \/ i = 3 \/ i = 4 \/ i = 5 \/ i = 6 \/ i = 7 \/ i = 8 \/ i = 9 \/ i = 10 \/ i = 11
  OBVIOUS
<1>4. /\ s[1].id = "player-career-threes" /\ s[2].id = "player-career-three-pct"
      /\ s[3].id = "player-career-field-goals" /\ s[4].id = "player-career-field-goal-pct"
      /\ s[5].id = "player-career-free-throws" /\ s[6].id = "player-career-free-throw-pct"
      /\ s[7].id = "player-career-ppg" /\ s[8].id = "player-career-rpg" /\ s[9].id = "player-career-apg"
      /\ s[10].id = "player-career-spg" /\ s[11].id = "player-career-bpg"
  BY DEF PLAYER_CAREER_RATES, Record
<1> HIDE DEF s
<1>5. Fit(ToSet(s), PlayerCareerRatesIds)
  BY <1>1, <1>2, <1>3, <1>4 DEF Fit, ToSet, PlayerCareerRatesIds
<1>6. IsList(s)
  BY <1>1, ListFrom
<1> QED
  BY <1>5, <1>6 DEF s

LEMMA PlayerPlayoffsGameFit == IsList(PLAYER_PLAYOFFS_GAME) /\ Fit(ToSet(PLAYER_PLAYOFFS_GAME), PlayerPlayoffsGameIds)
<1> DEFINE s == PLAYER_PLAYOFFS_GAME
<1>1. DOMAIN s = 1..7 /\ s = [i \in 1..7 |-> s[i]]
  BY DEF PLAYER_PLAYOFFS_GAME
<1>2. /\ SpecFits(s[1].spec) /\ SpecFits(s[2].spec) /\ SpecFits(s[3].spec) /\ SpecFits(s[4].spec)
      /\ SpecFits(s[5].spec) /\ SpecFits(s[6].spec) /\ SpecFits(s[7].spec)
  BY PlayerGamesFit, TeamsFit, StatsAre, MinimumsAssumption
     DEF PLAYER_PLAYOFFS_GAME, COUNTING_STATS, OfOneKind,
         Record
<1>3. \A i \in 1..7 : i = 1 \/ i = 2 \/ i = 3 \/ i = 4 \/ i = 5 \/ i = 6 \/ i = 7
  OBVIOUS
<1>4. /\ s[1].id = "player-championships" /\ s[2].id = "player-playoff-points-game"
      /\ s[3].id = "player-playoff-rebounds-game" /\ s[4].id = "player-playoff-assists-game"
      /\ s[5].id = "player-playoff-threes-game" /\ s[6].id = "player-playoff-steals-game"
      /\ s[7].id = "player-playoff-blocks-game"
  BY DEF PLAYER_PLAYOFFS_GAME, Record
<1> HIDE DEF s
<1>5. Fit(ToSet(s), PlayerPlayoffsGameIds)
  BY <1>1, <1>2, <1>3, <1>4 DEF Fit, ToSet, PlayerPlayoffsGameIds
<1>6. IsList(s)
  BY <1>1, ListFrom
<1> QED
  BY <1>5, <1>6 DEF s

LEMMA PlayerPlayoffsCareerFit == IsList(PLAYER_PLAYOFFS_CAREER) /\ Fit(ToSet(PLAYER_PLAYOFFS_CAREER), PlayerPlayoffsCareerIds)
<1> DEFINE s == PLAYER_PLAYOFFS_CAREER
<1>1. DOMAIN s = 1..7 /\ s = [i \in 1..7 |-> s[i]]
  BY DEF PLAYER_PLAYOFFS_CAREER
<1>2. /\ SpecFits(s[1].spec) /\ SpecFits(s[2].spec) /\ SpecFits(s[3].spec) /\ SpecFits(s[4].spec)
      /\ SpecFits(s[5].spec) /\ SpecFits(s[6].spec) /\ SpecFits(s[7].spec)
  BY PlayerCareersFit, StatsAre, MinimumsAssumption
     DEF PLAYER_PLAYOFFS_CAREER, TotalColumns, COUNTING_STATS,
         Record
<1>3. \A i \in 1..7 : i = 1 \/ i = 2 \/ i = 3 \/ i = 4 \/ i = 5 \/ i = 6 \/ i = 7
  OBVIOUS
<1>4. /\ s[1].id = "player-playoff-career-points" /\ s[2].id = "player-playoff-career-rebounds"
      /\ s[3].id = "player-playoff-career-assists" /\ s[4].id = "player-playoff-career-threes"
      /\ s[5].id = "player-playoff-career-steals" /\ s[6].id = "player-playoff-career-blocks"
      /\ s[7].id = "player-playoff-career-games"
  BY DEF PLAYER_PLAYOFFS_CAREER, Record
<1> HIDE DEF s
<1>5. Fit(ToSet(s), PlayerPlayoffsCareerIds)
  BY <1>1, <1>2, <1>3, <1>4 DEF Fit, ToSet, PlayerPlayoffsCareerIds
<1>6. IsList(s)
  BY <1>1, ListFrom
<1> QED
  BY <1>5, <1>6 DEF s

LEMMA RegistryFits ==
  /\ \A i \in DOMAIN RECORDS : SpecFits(RECORDS[i].spec)
  /\ \A i \in DOMAIN RECORDS : RECORDS_BY_ID[RECORDS[i].id] = RECORDS[i]
  /\ \A ids \in {TeamFranchiseIds, TeamSeasonResultsIds, TeamGameIds, PlayerGameCountsIds, PlayerGameShootingIds,
                 PlayerSeasonRatesIds, PlayerCareerCountsIds, PlayerPlayoffsGameIds} : ids \subseteq RecordIds
<1> DEFINE s1 == TEAM_FRANCHISE
           s2 == s1 \o TEAM_SEASON_RESULTS
           s3 == s2 \o TEAM_SEASON_SHOOTING
           s4 == s3 \o TEAM_GAME
           s5 == s4 \o PLAYER_GAME_COUNTS
           s6 == s5 \o PLAYER_GAME_SHOOTING
           s7 == s6 \o PLAYER_SEASON_COUNTS
           s8 == s7 \o PLAYER_SEASON_RATES
           s9 == s8 \o PLAYER_CAREER_COUNTS
           s10 == s9 \o PLAYER_CAREER_RATES
           s11 == s10 \o PLAYER_PLAYOFFS_GAME
           s12 == s11 \o PLAYER_PLAYOFFS_CAREER
           i1 == TeamFranchiseIds
           i2 == i1 \cup TeamSeasonResultsIds
           i3 == i2 \cup TeamSeasonShootingIds
           i4 == i3 \cup TeamGameIds
           i5 == i4 \cup PlayerGameCountsIds
           i6 == i5 \cup PlayerGameShootingIds
           i7 == i6 \cup PlayerSeasonCountsIds
           i8 == i7 \cup PlayerSeasonRatesIds
           i9 == i8 \cup PlayerCareerCountsIds
           i10 == i9 \cup PlayerCareerRatesIds
           i11 == i10 \cup PlayerPlayoffsGameIds
           i12 == i11 \cup PlayerPlayoffsCareerIds
<1>1. IsList(s1) /\ Fit(ToSet(s1), i1)
  BY TeamFranchiseFit
<1>2. IsList(s2) /\ Fit(ToSet(s2), i2)
  <2>1. i1 \cap TeamSeasonResultsIds = {}
    BY DEF TeamFranchiseIds, TeamSeasonResultsIds
  <2> HIDE DEF s1, i1
  <2> QED
    BY <1>1, <2>1, TeamSeasonResultsFit, JoinedSets, FitTogether
<1>3. IsList(s3) /\ Fit(ToSet(s3), i3)
  <2>1. i2 \cap TeamSeasonShootingIds = {}
    BY DEF TeamFranchiseIds, TeamSeasonResultsIds, TeamSeasonShootingIds
  <2> HIDE DEF s2, i2
  <2> QED
    BY <1>2, <2>1, TeamSeasonShootingFit, JoinedSets, FitTogether
<1>4. IsList(s4) /\ Fit(ToSet(s4), i4)
  <2>1. i3 \cap TeamGameIds = {}
    BY DEF TeamFranchiseIds, TeamSeasonResultsIds, TeamSeasonShootingIds, TeamGameIds
  <2> HIDE DEF s3, i3
  <2> QED
    BY <1>3, <2>1, TeamGameFit, JoinedSets, FitTogether
<1>5. IsList(s5) /\ Fit(ToSet(s5), i5)
  <2>1. i4 \cap PlayerGameCountsIds = {}
    BY DEF TeamFranchiseIds, TeamSeasonResultsIds, TeamSeasonShootingIds, TeamGameIds, PlayerGameCountsIds
  <2> HIDE DEF s4, i4
  <2> QED
    BY <1>4, <2>1, PlayerGameCountsFit, JoinedSets, FitTogether
<1>6. IsList(s6) /\ Fit(ToSet(s6), i6)
  <2>1. i5 \cap PlayerGameShootingIds = {}
    BY DEF TeamFranchiseIds, TeamSeasonResultsIds, TeamSeasonShootingIds, TeamGameIds,
           PlayerGameCountsIds, PlayerGameShootingIds
  <2> HIDE DEF s5, i5
  <2> QED
    BY <1>5, <2>1, PlayerGameShootingFit, JoinedSets, FitTogether
<1>7. IsList(s7) /\ Fit(ToSet(s7), i7)
  <2>1. i6 \cap PlayerSeasonCountsIds = {}
    BY DEF TeamFranchiseIds, TeamSeasonResultsIds, TeamSeasonShootingIds, TeamGameIds,
           PlayerGameCountsIds, PlayerGameShootingIds, PlayerSeasonCountsIds
  <2> HIDE DEF s6, i6
  <2> QED
    BY <1>6, <2>1, PlayerSeasonCountsFit, JoinedSets, FitTogether
<1>8. IsList(s8) /\ Fit(ToSet(s8), i8)
  <2>1. i7 \cap PlayerSeasonRatesIds = {}
    BY DEF TeamFranchiseIds, TeamSeasonResultsIds, TeamSeasonShootingIds, TeamGameIds,
           PlayerGameCountsIds, PlayerGameShootingIds, PlayerSeasonCountsIds, PlayerSeasonRatesIds
  <2> HIDE DEF s7, i7
  <2> QED
    BY <1>7, <2>1, PlayerSeasonRatesFit, JoinedSets, FitTogether
<1>9. IsList(s9) /\ Fit(ToSet(s9), i9)
  <2>1. i8 \cap PlayerCareerCountsIds = {}
    BY DEF TeamFranchiseIds, TeamSeasonResultsIds, TeamSeasonShootingIds, TeamGameIds,
           PlayerGameCountsIds, PlayerGameShootingIds, PlayerSeasonCountsIds, PlayerSeasonRatesIds,
           PlayerCareerCountsIds
  <2> HIDE DEF s8, i8
  <2> QED
    BY <1>8, <2>1, PlayerCareerCountsFit, JoinedSets, FitTogether
<1>10. IsList(s10) /\ Fit(ToSet(s10), i10)
  <2>1. i9 \cap PlayerCareerRatesIds = {}
    BY DEF TeamFranchiseIds, TeamSeasonResultsIds, TeamSeasonShootingIds, TeamGameIds,
           PlayerGameCountsIds, PlayerGameShootingIds, PlayerSeasonCountsIds, PlayerSeasonRatesIds,
           PlayerCareerCountsIds, PlayerCareerRatesIds
  <2> HIDE DEF s9, i9
  <2> QED
    BY <1>9, <2>1, PlayerCareerRatesFit, JoinedSets, FitTogether
<1>11. IsList(s11) /\ Fit(ToSet(s11), i11)
  <2>1. i10 \cap PlayerPlayoffsGameIds = {}
    BY DEF TeamFranchiseIds, TeamSeasonResultsIds, TeamSeasonShootingIds, TeamGameIds,
           PlayerGameCountsIds, PlayerGameShootingIds, PlayerSeasonCountsIds, PlayerSeasonRatesIds,
           PlayerCareerCountsIds, PlayerCareerRatesIds, PlayerPlayoffsGameIds
  <2> HIDE DEF s10, i10
  <2> QED
    BY <1>10, <2>1, PlayerPlayoffsGameFit, JoinedSets, FitTogether
<1>12. IsList(s12) /\ Fit(ToSet(s12), i12)
  <2>1. i11 \cap PlayerPlayoffsCareerIds = {}
    BY DEF TeamFranchiseIds, TeamSeasonResultsIds, TeamSeasonShootingIds, TeamGameIds,
           PlayerGameCountsIds, PlayerGameShootingIds, PlayerSeasonCountsIds, PlayerSeasonRatesIds,
           PlayerCareerCountsIds, PlayerCareerRatesIds, PlayerPlayoffsGameIds, PlayerPlayoffsCareerIds
  <2> HIDE DEF s11, i11
  <2> QED
    BY <1>11, <2>1, PlayerPlayoffsCareerFit, JoinedSets, FitTogether
<1>13. RECORDS = s12
  BY DEF RECORDS
<1> HIDE DEF s12, i12
<1>14. \A i \in DOMAIN RECORDS : RECORDS[i] \in ToSet(RECORDS) /\ RECORDS[i].id \in RecordIds
  BY DEF ToSet, RecordIds
<1>15. \A r \in ToSet(RECORDS), s \in ToSet(RECORDS) : r.id = s.id => r = s
  BY <1>12, <1>13 DEF Fit
<1>16. ASSUME NEW i \in DOMAIN RECORDS
       PROVE  RECORDS_BY_ID[RECORDS[i].id] = RECORDS[i]
  <2> DEFINE named == CHOOSE r \in ToSet(RECORDS) : r.id = RECORDS[i].id
  <2>1. RECORDS_BY_ID[RECORDS[i].id] = named
    BY <1>14 DEF RECORDS_BY_ID
  <2>2. named \in ToSet(RECORDS) /\ named.id = RECORDS[i].id
    BY <1>14
  <2> QED
    BY <1>14, <1>15, <2>1, <2>2
<1>17. i12 \subseteq RecordIds
  <2>1. \A r \in ToSet(RECORDS) : r.id \in RecordIds
    BY DEF ToSet, RecordIds
  <2> QED
    BY <1>12, <1>13, <2>1 DEF Fit
<1> QED
  BY <1>12, <1>13, <1>14, <1>16, <1>17 DEF Fit, i12

-----------------------------------------------------------------------------
(* Records: what is stored *)

LEMMA GameIs ==
  ASSUME NEW d, Stored(d), NEW l \in d.lines
  PROVE  Game(d, l) \in d.games /\ Game(d, l).id = l.game_id
BY DEF Stored, Game

LEMMA GameHas ==
  ASSUME NEW d, Stored(d), NEW g \in d.games
  PROVE  /\ g.id \in Int /\ g.date \in Int /\ g.season \in Int /\ g.home_team_id \in Int /\ g.away_team_id \in Int
         /\ g.home_score \in Int /\ g.away_score \in Int
BY DEF Stored, GameColumns

LEMMA SumIsWhole ==
  ASSUME NEW S, IsFiniteSet(S), NEW f, \A x \in S : f[x] \in Int
  PROVE  SumFunction([x \in S |-> f[x]]) \in Int
<1> DEFINE g == [x \in S |-> f[x]]
<1>1. DOMAIN g = S /\ \A x \in DOMAIN g : g[x] \in Int
  OBVIOUS
<1> HIDE DEF g
<1>2. SumFunction(g) = Total(g)
  BY DEF SumFunction, SumFunctionOnSet, FoldFunctionOnSet, Total, MapThenSumSet, MapThenFoldSet
<1>3. Total(g) \in Int
  BY <1>1, TotalIsInt
<1> QED
  BY <1>2, <1>3 DEF g

LEMMA ColumnSum ==
  ASSUME NEW S, IsFiniteSet(S), NEW c, \A r \in S : r[c] \in Int
  PROVE  SumFunction([r \in S |-> r[c]]) \in Int
<1> DEFINE f == [r \in S |-> r[c]]
<1>1. \A r \in S : f[r] \in Int
  OBVIOUS
<1>2. [r \in S |-> f[r]] = f
  OBVIOUS
<1> HIDE DEF f
<1>3. SumFunction(f) \in Int
  <2>1. SumFunction([r \in S |-> f[r]]) \in Int
    BY <1>1, SumIsWhole
  <2> QED
    BY <1>2, <2>1
<1> QED
  BY <1>3 DEF f

LEMMA Fewer ==
  ASSUME NEW S, IsFiniteSet(S), NEW T \in SUBSET S
  PROVE  IsFiniteSet(T) /\ Cardinality(T) \in Nat /\ (T # {} => Cardinality(T) \in Nat \ {0})
<1>1. IsFiniteSet(T)
  BY FS_Subset
<1>2. Cardinality(T) \in Nat
  BY <1>1, FS_CardinalityType
<1>3. T # {} => Cardinality(T) # 0
  BY <1>1, FS_EmptySet
<1> QED
  BY <1>1, <1>2, <1>3

LEMMA HasFirst ==
  ASSUME NEW S, IsFiniteSet(S), S # {}, NEW rel, Orders(rel, S)
  PROVE  \E x \in S : \A y \in S : <<y, x>> \notin rel
<1>1. 1 \in 1..Cardinality(S)
  BY Fewer
<1>2. PICK x \in S : Place(rel, S, x) = 1
  BY <1>1, Places
<1>3. IsFiniteSet(Preceding(rel, S, x))
  BY FS_Subset DEF Preceding
<1>4. Preceding(rel, S, x) = {}
  BY <1>2, <1>3, FS_EmptySet, FS_CardinalityType DEF Place
<1> QED
  BY <1>4 DEF Preceding

\* A finite set of numbers has a greatest.
LEMMA GreatestIs ==
  ASSUME NEW S \in SUBSET Int, IsFiniteSet(S), S # {}
  PROVE  Max(S) \in S /\ \A x \in S : x <= Max(S)
<1>1. PICK rel : rel = {p \in S \X S : p[1] > p[2]}
  OBVIOUS
<1>2. Orders(rel, S)
  BY <1>1 DEF Orders
<1>3. PICK x \in S : \A y \in S : <<y, x>> \notin rel
  BY <1>2, HasFirst
<1>4. ASSUME NEW y \in S
      PROVE  y <= x
  <2>1. ~(y > x)
    BY <1>1, <1>3
  <2> QED
    BY <2>1
<1> QED
  BY <1>4 DEF Max

\* A row of the totals of some lines.
LEMMA SeasonTotalHas ==
  ASSUME NEW d, NEW k, NEW lines, IsFiniteSet(lines), \A l \in lines : \A c \in LineColumns : l[c] \in Int
  PROVE  LET r == PlayerSeasonTotal(d, k, lines)
         IN /\ r.player_id = k[1] /\ r.season = k[2] /\ r.game_type = k[3] /\ r.seconds_played \in Int
            /\ \A c \in TotalColumns : r[c] \in Int
<1> DEFINE last == CHOOSE l \in lines : \A m \in lines \ {l} : Later(Game(d, l), Game(d, m))
           doubles == Cardinality({l \in lines : InTens(l) >= 2})
           triples == Cardinality({l \in lines : InTens(l) >= 3})
           keys == [player_id |-> k[1], season |-> k[2], game_type |-> k[3],
                    team_id |-> last.team_id, games |-> Cardinality(lines),
                    double_doubles |-> doubles, triple_doubles |-> triples]
           summed == (COUNTING_STATS \ {"personal_fouls"}) \cup {"seconds_played"}
           sums == [c \in summed |-> SumOf(lines, LAMBDA l : l[c])]
           r == PlayerSeasonTotal(d, k, lines)
<1>1. r = Beside(keys, sums)
  BY DEF PlayerSeasonTotal
<1>2. Cardinality(lines) \in Int /\ doubles \in Int /\ triples \in Int
  BY Fewer
<1>3. \A c \in summed : sums[c] \in Int
  <2> SUFFICES ASSUME NEW c \in summed
               PROVE  sums[c] \in Int
    OBVIOUS
  <2>1. \A l \in lines : l[c] \in Int
    BY DEF LineColumns
  <2> HIDE DEF summed
  <2>2. SumOf(lines, LAMBDA l : l[c]) \in Int
    BY <2>1, ColumnSum DEF SumOf
  <2> QED
    BY <2>2
<1> HIDE DEF last, doubles, triples
<1>4. /\ DOMAIN keys = {"player_id", "season", "game_type", "team_id", "games", "double_doubles", "triple_doubles"}
      /\ keys["player_id"] = k[1] /\ keys["season"] = k[2] /\ keys["game_type"] = k[3]
      /\ keys["games"] \in Int /\ keys["double_doubles"] \in Int /\ keys["triple_doubles"] \in Int
  BY <1>2
<1>5. DOMAIN sums = summed
  OBVIOUS
<1> HIDE DEF keys, sums, r
<1>6. \A c \in DOMAIN keys : r[c] = keys[c]
  BY <1>1 DEF Beside
<1>7. \A c \in summed : c \notin DOMAIN keys /\ r[c] = sums[c]
  <2>1. \A c \in summed : c \notin DOMAIN keys
    BY <1>4, StatsAre DEF COUNTING_STATS
  <2> QED
    BY <1>1, <1>5, <2>1 DEF Beside
<1>8. \A c \in TotalColumns : c \in summed \/ c \in {"games", "double_doubles", "triple_doubles"}
  BY DEF TotalColumns
<1>9. \A c \in TotalColumns : r[c] \in Int
  BY <1>3, <1>4, <1>6, <1>7, <1>8
<1>10. r["player_id"] = k[1] /\ r["season"] = k[2] /\ r["game_type"] = k[3]
  BY <1>4, <1>6
<1>11. r["seconds_played"] \in Int
  BY <1>3, <1>7
<1> QED
  BY <1>9, <1>10, <1>11 DEF r

LEMMA SeasonTotalsAre ==
  ASSUME NEW d, Stored(d)
  PROVE  SeasonsAre(PlayerSeasonTotals(d))
<1>1. PICK counted : counted = {l \in d.lines : played(l) /\ Game(d, l).game_type \in LINE_GAME_TYPES}
  OBVIOUS
<1>2. PICK key : key = [l \in counted |-> <<l.player_id, Game(d, l).season, Game(d, l).game_type>>]
  OBVIOUS
<1>3. PICK keys : keys = {key[l] : l \in counted}
  OBVIOUS
<1>4. PICK of : of = [k \in keys |-> {l \in counted : key[l] = k}]
  OBVIOUS
<1>5. PICK row : row = [k \in keys |-> PlayerSeasonTotal(d, k, of[k])]
  OBVIOUS
<1> DEFINE rows == {row[k] : k \in keys}
<1>6. PlayerSeasonTotals(d) = rows
  <2>1. keys = {<<l.player_id, Game(d, l).season, Game(d, l).game_type>> : l \in counted}
    BY <1>2, <1>3
  <2>2. \A k \in keys :
          row[k] = PlayerSeasonTotal(d, k, {l \in counted : <<l.player_id, Game(d, l).season, Game(d, l).game_type>> = k})
    <3>1. \A k \in keys :
            of[k] = {l \in counted : <<l.player_id, Game(d, l).season, Game(d, l).game_type>> = k}
      BY <1>2, <1>4
    <3> QED
      BY <1>5, <3>1
  <2>3. rows = {PlayerSeasonTotal(d, k, {l \in counted : <<l.player_id, Game(d, l).season, Game(d, l).game_type>> = k}) :
                  k \in keys}
    BY <2>2
  <2>4. PlayerSeasonTotals(d)
          = {PlayerSeasonTotal(d, k, {l \in counted : <<l.player_id, Game(d, l).season, Game(d, l).game_type>> = k}) :
               k \in {<<l.player_id, Game(d, l).season, Game(d, l).game_type>> : l \in counted}}
    BY <1>1 DEF PlayerSeasonTotals
  <2> QED
    BY <2>1, <2>3, <2>4
<1>7. IsFiniteSet(counted)
  BY <1>1, Fewer DEF Stored
<1>8. ASSUME NEW k \in keys
      PROVE  IsFiniteSet(of[k]) /\ \A l \in of[k] : \A c \in LineColumns : l[c] \in Int
  <2>1. of[k] \subseteq counted /\ counted \subseteq d.lines
    BY <1>1, <1>4
  <2> QED
    BY <1>7, <2>1, Fewer DEF Stored
<1>9. IsFiniteSet(keys)
  BY <1>3, <1>7, ImageIsFinite
<1>10. \A k \in keys : k[1] \in Int /\ k[2] \in Int /\ k = <<k[1], k[2], k[3]>>
  <2>1. ASSUME NEW l \in counted
        PROVE  l.player_id \in Int /\ Game(d, l).season \in Int
    BY <1>1, GameIs, GameHas DEF Stored, LineColumns
  <2>2. \A l \in counted : key[l][1] \in Int /\ key[l][2] \in Int /\ key[l] = <<key[l][1], key[l][2], key[l][3]>>
    BY <1>2, <2>1
  <2> QED
    BY <1>3, <2>2
<1>11. IsFiniteSet(rows)
  BY <1>9, ImageIsFinite
<1>12. ASSUME NEW k \in keys
       PROVE  /\ row[k].player_id = k[1] /\ row[k].season = k[2] /\ row[k].game_type = k[3]
              /\ row[k].seconds_played \in Int /\ \A c \in TotalColumns : row[k][c] \in Int
  <2>1. row[k] = PlayerSeasonTotal(d, k, of[k])
    BY <1>5
  <2> QED
    BY <1>8, <2>1, SeasonTotalHas
<1>13. \A r \in rows : /\ r.player_id \in Int /\ r.season \in Int /\ r.seconds_played \in Int
                       /\ \A c \in TotalColumns : r[c] \in Int
  BY <1>10, <1>12
<1>14. \A j \in keys, k \in keys : row[j].player_id = row[k].player_id /\ row[j].season = row[k].season
                                   /\ row[j].game_type = row[k].game_type => j = k
  BY <1>10, <1>12
<1>15. \A r \in rows, s \in rows :
         r.player_id = s.player_id /\ r.season = s.season /\ r.game_type = s.game_type => r = s
  BY <1>14
<1> QED
  BY <1>6, <1>11, <1>13, <1>15 DEF SeasonsAre

LEMMA StreakIsNat ==
  ASSUME NEW d, Stored(d), NEW g, NEW t
  PROVE  Streak(d, g, t) \in Nat
<1> DEFINE won == team_won(g, t)
           games == {h \in d.games : PlayedIn(h, t) /\ completed(h)
                                       /\ h.game_type = g.game_type /\ h.season = g.season}
           number(h, of) == Cardinality({x \in of : ~Later(x, h)})
           run(h) == number(h, games) - number(h, {x \in games : team_won(x, t) = team_won(h, t)})
           alike == {h \in games : team_won(h, t) = won /\ run(h) = run(g)}
<1>1. Streak(d, g, t) = number(g, alike)
  BY DEF Streak
<1>2. {x \in alike : ~Later(x, g)} \in SUBSET d.games
  OBVIOUS
<1> HIDE DEF alike
<1>3. number(g, alike) \in Nat
  BY <1>2, Fewer DEF Stored
<1> QED
  BY <1>1, <1>3

LEMMA SideTotalHas ==
  ASSUME NEW d, Stored(d), NEW g \in d.games, NEW t
  PROVE  LET s == TeamGameTotal(d, g, t)
         IN /\ s.game_id = g.id /\ s.team_id = t /\ s.opponent_id = Opponent(g, t) /\ s.season = g.season
            /\ s.date = g.date /\ s.game_type = g.game_type /\ s.won = team_won(g, t)
            /\ s.streak = Streak(d, g, t) /\ s.streak \in Int
            /\ s.score \in Int /\ s.opponent_score \in Int
            /\ \A c \in BoxColumns : s[c] \in Int
<1>1. PICK box : box = {l \in d.lines : l.game_id = g.id /\ l.team_id = t}
  OBVIOUS
<1> DEFINE keys == [game_id |-> g.id, team_id |-> t, opponent_id |-> Opponent(g, t), season |-> g.season,
                    date |-> g.date, game_type |-> g.game_type, score |-> Score(g, t),
                    opponent_score |-> Score(g, Opponent(g, t)), won |-> team_won(g, t),
                    streak |-> Streak(d, g, t)]
           sums == [c \in BoxColumns |-> IF box = {} THEN Null ELSE SumOf(box, LAMBDA l : l[c])]
           s == TeamGameTotal(d, g, t)
<1>2. s = Beside(keys, sums)
  BY <1>1 DEF TeamGameTotal, BoxColumns
<1>3. IsFiniteSet(box) /\ box \subseteq d.lines
  BY <1>1, Fewer DEF Stored
<1>4. \A c \in BoxColumns : sums[c] \in Int
  <2> SUFFICES ASSUME NEW c \in BoxColumns
               PROVE  sums[c] \in Int
    OBVIOUS
  <2>1. c \in LineColumns
    BY StatsAre DEF BoxColumns, LineColumns, COUNTING_STATS
  <2>2. \A l \in box : l[c] \in Int
    BY <1>3, <2>1 DEF Stored
  <2>3. SumOf(box, LAMBDA l : l[c]) \in Int
    BY <1>3, <2>2, ColumnSum DEF SumOf
  <2> QED
    BY <2>3 DEF Null
<1>5. Score(g, t) \in Int /\ Score(g, Opponent(g, t)) \in Int /\ Streak(d, g, t) \in Int
  BY GameHas, StreakIsNat DEF Score
<1>6. DOMAIN keys = {"game_id", "team_id", "opponent_id", "season", "date", "game_type", "score", "opponent_score",
                     "won", "streak"}
  OBVIOUS
<1>7. /\ keys["game_id"] = g.id /\ keys["team_id"] = t /\ keys["opponent_id"] = Opponent(g, t)
      /\ keys["season"] = g.season /\ keys["date"] = g.date /\ keys["game_type"] = g.game_type
      /\ keys["won"] = team_won(g, t) /\ keys["streak"] = Streak(d, g, t)
      /\ keys["score"] = Score(g, t) /\ keys["opponent_score"] = Score(g, Opponent(g, t))
  OBVIOUS
<1>8. DOMAIN sums = BoxColumns
  OBVIOUS
<1> HIDE DEF keys, sums, s
<1>9. \A c \in DOMAIN keys : s[c] = keys[c]
  BY <1>2 DEF Beside
<1>10. \A c \in BoxColumns : c \notin DOMAIN keys
  BY <1>6, StatsAre DEF BoxColumns
<1>11. \A c \in BoxColumns : s[c] = sums[c]
  BY <1>2, <1>8, <1>10 DEF Beside
<1>12. \A c \in BoxColumns : s[c] \in Int
  BY <1>4, <1>11
<1>13. /\ s["game_id"] = g.id /\ s["team_id"] = t /\ s["opponent_id"] = Opponent(g, t) /\ s["season"] = g.season
       /\ s["date"] = g.date /\ s["game_type"] = g.game_type /\ s["won"] = team_won(g, t)
       /\ s["streak"] = Streak(d, g, t) /\ s["score"] = Score(g, t) /\ s["opponent_score"] = Score(g, Opponent(g, t))
  BY <1>6, <1>7, <1>9
<1> QED
  BY <1>5, <1>12, <1>13 DEF s

LEMMA SideTotalsFrom ==
  ASSUME NEW d, Stored(d)
  PROVE  /\ IsFiniteSet(TeamGameTotals(d))
         /\ \A s \in TeamGameTotals(d) :
              \E g \in d.games : \E t \in {g.home_team_id, g.away_team_id} :
                /\ g.game_type \in LINE_GAME_TYPES /\ completed(g) /\ s = TeamGameTotal(d, g, t)
<1>1. PICK counted : counted = {g \in d.games : g.game_type \in LINE_GAME_TYPES /\ completed(g)}
  OBVIOUS
<1>2. PICK of : of = [g \in counted |-> {TeamGameTotal(d, g, g.home_team_id), TeamGameTotal(d, g, g.away_team_id)}]
  OBVIOUS
<1>3. PICK sides : sides = {of[g] : g \in counted}
  OBVIOUS
<1>4. TeamGameTotals(d) = UNION sides
  BY <1>1, <1>2, <1>3 DEF TeamGameTotals
<1>5. IsFiniteSet(sides)
  <2>1. IsFiniteSet(counted)
    BY <1>1, Fewer DEF Stored
  <2> QED
    BY <1>3, <2>1, ImageIsFinite
<1>6. \A S \in sides : IsFiniteSet(S)
  <2>1. \A x, y : IsFiniteSet({x, y})
    <3> TAKE x, y
    <3>1. IsFiniteSet({x} \cup {y})
      BY FS_Singleton, FS_AddElement
    <3>2. {x, y} = {x} \cup {y}
      OBVIOUS
    <3> QED
      BY <3>1, <3>2
  <2>2. \A g \in counted : IsFiniteSet(of[g])
    BY <1>2, <2>1
  <2> QED
    BY <1>3, <2>2
<1>7. IsFiniteSet(UNION sides)
  BY <1>5, <1>6, FS_UNION
<1>8. ASSUME NEW s \in UNION sides
      PROVE  \E g \in d.games : \E t \in {g.home_team_id, g.away_team_id} :
               /\ g.game_type \in LINE_GAME_TYPES /\ completed(g) /\ s = TeamGameTotal(d, g, t)
  <2>1. PICK g \in counted : s \in of[g]
    BY <1>3
  <2>2. g \in d.games /\ g.game_type \in LINE_GAME_TYPES /\ completed(g)
    BY <1>1
  <2>3. \E t \in {g.home_team_id, g.away_team_id} : s = TeamGameTotal(d, g, t)
    BY <1>2, <2>1
  <2> QED
    BY <2>2, <2>3
<1> QED
  BY <1>4, <1>7, <1>8

LEMMA SideTotalsAre ==
  ASSUME NEW d, Stored(d)
  PROVE  SidesAre(TeamGameTotals(d))
<1>1. ASSUME NEW s \in TeamGameTotals(d)
      PROVE  /\ s.team_id \in Int /\ s.season \in Int /\ s.date \in Int /\ s.streak \in Int
             /\ s.score \in Int /\ s.opponent_score \in Int
             /\ \A c \in BoxColumns : s[c] \in Int
  <2>1. PICK g \in d.games : \E t \in {g.home_team_id, g.away_team_id} : s = TeamGameTotal(d, g, t)
    BY SideTotalsFrom
  <2>2. PICK t \in {g.home_team_id, g.away_team_id} : s = TeamGameTotal(d, g, t)
    BY <2>1
  <2>3. t \in Int /\ g.season \in Int /\ g.date \in Int
    BY GameHas
  <2> QED
    BY <2>2, <2>3, SideTotalHas
<1>2. ASSUME NEW r \in TeamGameTotals(d), NEW s \in TeamGameTotals(d), r.team_id = s.team_id, r.date = s.date
      PROVE  r = s
  <2>1. PICK g \in d.games : \E t \in {g.home_team_id, g.away_team_id} : r = TeamGameTotal(d, g, t)
    BY SideTotalsFrom
  <2>2. PICK t \in {g.home_team_id, g.away_team_id} : r = TeamGameTotal(d, g, t)
    BY <2>1
  <2>3. PICK h \in d.games : \E u \in {h.home_team_id, h.away_team_id} : s = TeamGameTotal(d, h, u)
    BY SideTotalsFrom
  <2>4. PICK u \in {h.home_team_id, h.away_team_id} : s = TeamGameTotal(d, h, u)
    BY <2>3
  <2>5. r.team_id = t /\ r.date = g.date /\ s.team_id = u /\ s.date = h.date
    BY <2>2, <2>4, SideTotalHas
  <2>6. g = h
    BY <1>2, <2>5 DEF Stored, PlayedIn
  <2> QED
    BY <1>2, <2>2, <2>4, <2>5, <2>6
<1> QED
  BY <1>1, <1>2, SideTotalsFrom DEF SidesAre

-----------------------------------------------------------------------------
(* Records: each kind of candidates can be listed *)

LEMMA FigureIsInt ==
  ASSUME NEW row, NEW column, column = "minutes" => row.seconds_played \in Int,
         column # "minutes" => row[column] \in Int
  PROVE  Figure(row, column) \in Int
BY DEF Figure

LEMMA ShareIs ==
  ASSUME NEW m \in Int, NEW n \in Nat \ {0}
  PROVE  IsFraction(<<m, n>>)
BY DEF IsFraction

LEMMA AttemptedIs ==
  ASSUME NEW made \in Made
  PROVE  Attempted(made) \in Shots /\ Attempted(made) \in COUNTING_STATS \ {"personal_fouls"} /\ made \in Shots
         /\ made \in COUNTING_STATS \ {"personal_fouls"} /\ made # "minutes" /\ Attempted(made) # "minutes"
BY StatsAre DEF COUNTING_STATS

LEMMA PlayerGameLists ==
  ASSUME NEW d, Stored(d), NEW spec, PlayerGameFits(spec)
  PROVE  Listable(player_game(d, spec))
<1>1. PICK S : S = {l \in d.lines : /\ played(l) /\ Game(d, l).game_type \in spec.types
                                    /\ spec.percentage => l[Attempted(spec.column)] >= spec.minimum}
  OBVIOUS
<1>2. PICK row : row = [l \in S |->
                [value |-> IF spec.percentage THEN <<l[spec.column], l[Attempted(spec.column)]>>
                           ELSE Whole(Figure(l, spec.column)),
                 team_id |-> l.team_id, player_id |-> l.player_id, season |-> Game(d, l).season,
                 game_id |-> l.game_id, opponent_id |-> Opponent(Game(d, l), l.team_id),
                 date |-> Game(d, l).date, line_id |-> l.id,
                 made |-> MadeOf(l, spec.column), attempted |-> AttemptedOf(l, spec.column)]]
  OBVIOUS
<1> DEFINE c == player_game(d, spec)
           order == <<<<"value", TRUE>>, <<"date", FALSE>>, Asc("player_id"), Asc("line_id")>>
           columns == {"date", "player_id", "line_id"}
<1>3. c.order = order
  BY DEF player_game, Desc, Asc
<1>4. c.rows = {Columns(row[l]) : l \in S}
  <2>1. c.rows = {Columns([value |-> IF spec.percentage THEN <<l[spec.column], l[Attempted(spec.column)]>>
                                     ELSE Whole(Figure(l, spec.column)),
                           team_id |-> l.team_id, player_id |-> l.player_id, season |-> Game(d, l).season,
                           game_id |-> l.game_id, opponent_id |-> Opponent(Game(d, l), l.team_id),
                           date |-> Game(d, l).date, line_id |-> l.id,
                           made |-> MadeOf(l, spec.column), attempted |-> AttemptedOf(l, spec.column)]) : l \in S}
    BY <1>1 DEF player_game
  <2> QED
    BY <1>2, <2>1
<1>5. IsFiniteSet(S) /\ S \subseteq d.lines
  BY <1>1, Fewer DEF Stored
<1>6. ASSUME NEW l \in S
      PROVE  /\ IsFraction(row[l].value) /\ {"value", "date", "player_id", "line_id"} \subseteq DOMAIN row[l]
             /\ row[l].date \in Int /\ row[l].player_id \in Int /\ row[l].line_id \in Int /\ row[l].line_id = l.id
  <2>1. \A k \in LineColumns : l[k] \in Int
    BY <1>5 DEF Stored
  <2>2. Game(d, l).date \in Int
    BY <1>5, GameIs, GameHas
  <2>3. row[l].value = IF spec.percentage THEN <<l[spec.column], l[Attempted(spec.column)]>>
                       ELSE Whole(Figure(l, spec.column))
    BY <1>2
  <2>4. CASE spec.percentage
    <3>1. l[spec.column] \in Int /\ l[Attempted(spec.column)] \in Int
      BY <2>1, <2>4, AttemptedIs DEF PlayerGameFits, LineColumns
    <3>2. l[Attempted(spec.column)] >= spec.minimum /\ spec.minimum \in Nat \ {0}
      BY <1>1, <2>4 DEF PlayerGameFits
    <3>3. l[Attempted(spec.column)] \in Nat \ {0}
      BY <3>1, <3>2
    <3> QED
      BY <1>2, <2>1, <2>2, <2>3, <2>4, <3>1, <3>3, ShareIs DEF LineColumns
  <2>5. CASE ~spec.percentage
    <3>1. Figure(l, spec.column) \in Int
      BY <2>1, <2>5, FigureIsInt DEF PlayerGameFits, LineColumns
    <3> QED
      BY <1>2, <2>1, <2>2, <2>3, <2>5, <3>1, WholeIs DEF LineColumns
  <2> QED
    BY <2>4, <2>5
<1>7. ToldApart(row, S, columns)
  <2>1. \A l \in S, m \in S : l.id = m.id => l = m
    BY <1>5 DEF Stored
  <2> QED
    BY <1>6, <2>1 DEF ToldApart
<1>8. OrderedBy(order, columns)
  BY Orders4
<1> HIDE DEF c, order
<1> QED
  BY <1>3, <1>4, <1>5, <1>7, <1>8, ListableRows DEF c

LEMMA JoinedIs ==
  ASSUME NEW X, NEW s \in Seq(X), NEW t \in Seq(X)
  PROVE  /\ s \o t \in Seq(X) /\ Len(s \o t) = Len(s) + Len(t)
         /\ \A i \in 1..(Len(s) + Len(t)) : (s \o t)[i] = IF i <= Len(s) THEN s[i] ELSE t[i - Len(s)]
OBVIOUS

\* A list of shares has what was made before the rest of its order.
LEMMA JoinedOrders ==
  ASSUME NEW best \in BOOLEAN, NEW k, NEW l
  PROVE  /\ OrderedBy(<<<<"value", best>>>> \o <<Desc("made")>> \o <<Asc(k), Asc(l)>>, {"made", k, l})
         /\ OrderedBy(<<<<"value", best>>>> \o <<Desc("made")>> \o <<Asc(k)>>, {"made", k})
         /\ OrderedBy(<<<<"value", best>>>> \o <<>> \o <<Asc(k), Asc(l)>>, {k, l})
         /\ OrderedBy(<<<<"value", best>>>> \o <<>> \o <<Asc(k)>>, {k})
<1>1. PICK a : a = <<"value", best>>
  OBVIOUS
<1>2. PICK m : m = Desc("made")
  OBVIOUS
<1>3. PICK x : x = Asc(k)
  OBVIOUS
<1>4. PICK y : y = Asc(l)
  OBVIOUS
<1>0. /\ a[1] = "value" /\ a[2] = best /\ m[1] = "made" /\ m[2] = TRUE
      /\ x[1] = k /\ x[2] = FALSE /\ y[1] = l /\ y[2] = FALSE
  BY <1>1, <1>2, <1>3, <1>4 DEF Desc, Asc
<1>5. PICK X : X = {a, m, x, y}
  OBVIOUS
<1>6. /\ <<a>> \in Seq(X) /\ <<m>> \in Seq(X) /\ <<x>> \in Seq(X) /\ <<>> \in Seq(X) /\ <<x, y>> \in Seq(X)
  BY <1>5
<1>7. /\ <<a>> \o <<m>> \in Seq(X) /\ Len(<<a>> \o <<m>>) = 2
      /\ (<<a>> \o <<m>>)[1] = a /\ (<<a>> \o <<m>>)[2] = m
      /\ <<a>> \o <<>> \in Seq(X) /\ Len(<<a>> \o <<>>) = 1 /\ (<<a>> \o <<>>)[1] = a
  BY <1>6, JoinedIs
<1>8. OrderedBy(<<a>> \o <<m>> \o <<x, y>>, {"made", k, l})
  <2>1. PICK u : u = <<a>> \o <<m>> \o <<x, y>>
    OBVIOUS
  <2>2. u \in Seq(X) /\ Len(u) = 4 /\ u[1] = a /\ u[2] = m /\ u[3] = x /\ u[4] = y
    BY <1>6, <1>7, <2>1, JoinedIs
  <2>3. DOMAIN u = 1..4 /\ \A i \in 1..4 : i = 1 \/ i = 2 \/ i = 3 \/ i = 4
    BY <2>2
  <2>4. \A i \in 1..4 : u[i][2] \in BOOLEAN /\ u[i][1] \in {"value"} \cup {"made", k, l}
    BY <1>0, <2>2, <2>3
  <2>5. \A c \in {"made", k, l} : \E i \in 1..4 : u[i][1] = c
    BY <1>0, <2>2, <2>3
  <2>6. u[1][1] = "value"
    BY <1>0, <2>2
  <2>7. \E n \in Nat \ {0} : DOMAIN u = 1..n
    BY <2>3
  <2> QED
    BY <2>1, <2>3, <2>4, <2>5, <2>6, <2>7 DEF OrderedBy
<1>9. OrderedBy(<<a>> \o <<m>> \o <<x>>, {"made", k})
  <2>1. PICK u : u = <<a>> \o <<m>> \o <<x>>
    OBVIOUS
  <2>2. u \in Seq(X) /\ Len(u) = 3 /\ u[1] = a /\ u[2] = m /\ u[3] = x
    BY <1>6, <1>7, <2>1, JoinedIs
  <2>3. DOMAIN u = 1..3 /\ \A i \in 1..3 : i = 1 \/ i = 2 \/ i = 3
    BY <2>2
  <2>4. \A i \in 1..3 : u[i][2] \in BOOLEAN /\ u[i][1] \in {"value"} \cup {"made", k}
    BY <1>0, <2>2, <2>3
  <2>5. \A c \in {"made", k} : \E i \in 1..3 : u[i][1] = c
    BY <1>0, <2>2, <2>3
  <2>6. u[1][1] = "value"
    BY <1>0, <2>2
  <2>7. \E n \in Nat \ {0} : DOMAIN u = 1..n
    BY <2>3
  <2> QED
    BY <2>1, <2>3, <2>4, <2>5, <2>6, <2>7 DEF OrderedBy
<1>10. OrderedBy(<<a>> \o <<>> \o <<x, y>>, {k, l})
  <2>1. PICK u : u = <<a>> \o <<>> \o <<x, y>>
    OBVIOUS
  <2>2. u \in Seq(X) /\ Len(u) = 3 /\ u[1] = a /\ u[2] = x /\ u[3] = y
    BY <1>6, <1>7, <2>1, JoinedIs
  <2>3. DOMAIN u = 1..3 /\ \A i \in 1..3 : i = 1 \/ i = 2 \/ i = 3
    BY <2>2
  <2>4. \A i \in 1..3 : u[i][2] \in BOOLEAN /\ u[i][1] \in {"value"} \cup {k, l}
    BY <1>0, <2>2, <2>3
  <2>5. \A c \in {k, l} : \E i \in 1..3 : u[i][1] = c
    BY <1>0, <2>2, <2>3
  <2>6. u[1][1] = "value"
    BY <1>0, <2>2
  <2>7. \E n \in Nat \ {0} : DOMAIN u = 1..n
    BY <2>3
  <2> QED
    BY <2>1, <2>3, <2>4, <2>5, <2>6, <2>7 DEF OrderedBy
<1>11. OrderedBy(<<a>> \o <<>> \o <<x>>, {k})
  <2>1. PICK u : u = <<a>> \o <<>> \o <<x>>
    OBVIOUS
  <2>2. u \in Seq(X) /\ Len(u) = 2 /\ u[1] = a /\ u[2] = x
    BY <1>6, <1>7, <2>1, JoinedIs
  <2>3. DOMAIN u = 1..2 /\ \A i \in 1..2 : i = 1 \/ i = 2
    BY <2>2
  <2>4. \A i \in 1..2 : u[i][2] \in BOOLEAN /\ u[i][1] \in {"value"} \cup {k}
    BY <1>0, <2>2, <2>3
  <2>5. \A c \in {k} : \E i \in 1..2 : u[i][1] = c
    BY <1>0, <2>2, <2>3
  <2>6. u[1][1] = "value"
    BY <1>0, <2>2
  <2>7. \E n \in Nat \ {0} : DOMAIN u = 1..n
    BY <2>3
  <2> QED
    BY <2>1, <2>3, <2>4, <2>5, <2>6, <2>7 DEF OrderedBy
<1> QED
  BY <1>1, <1>2, <1>3, <1>4, <1>8, <1>9, <1>10, <1>11

LEMMA SeasonLists ==
  ASSUME NEW d, SeasonsAre(d.seasons), NEW spec, SeasonFits(spec)
  PROVE  Listable(season(d, spec))
<1>1. PICK S : S = {r \in d.seasons :
                      /\ r.game_type = REGULAR /\ r.season \in Champions(d)
                      /\ CASE spec.measure = "total" -> Figure(r, spec.column) > 0
                           [] spec.measure = "pct" -> r[Attempted(spec.column)] >= spec.minimum
                           [] spec.measure = "average" -> r.games >= SEASON_AVERAGE_GAMES}
  OBVIOUS
<1> DEFINE value(r) == CASE spec.measure = "total" -> Whole(Figure(r, spec.column))
                         [] spec.measure = "pct" -> <<r[spec.column], r[Attempted(spec.column)]>>
                         [] spec.measure = "average" /\ spec.column = "minutes" -> <<r.seconds_played, 60 * r.games>>
                         [] OTHER -> <<r[spec.column], r.games>>
<1>2. PICK row : row = [r \in S |->
                [value |-> value(r), team_id |-> r.team_id, player_id |-> r.player_id, season |-> r.season,
                 made |-> MadeOf(r, spec.column), attempted |-> AttemptedOf(r, spec.column)]]
  OBVIOUS
<1> DEFINE c == season(d, spec)
<1>3. c.order = <<<<"value", TRUE>>>> \o (IF spec.measure = "pct" THEN <<Desc("made")>> ELSE <<>>)
                  \o <<Asc("season"), Asc("player_id")>>
  BY DEF season, Desc
<1>4. c.rows = {Columns(row[r]) : r \in S}
  <2>1. c.rows = {Columns([value |-> value(r), team_id |-> r.team_id, player_id |-> r.player_id, season |-> r.season,
                           made |-> MadeOf(r, spec.column), attempted |-> AttemptedOf(r, spec.column)]) : r \in S}
    BY <1>1 DEF season
  <2> QED
    BY <1>2, <2>1
<1>5. IsFiniteSet(S) /\ S \subseteq d.seasons
  BY <1>1, Fewer DEF SeasonsAre
<1>6. ASSUME NEW r \in S
      PROVE  /\ IsFraction(row[r].value) /\ {"value", "made", "season", "player_id"} \subseteq DOMAIN row[r]
             /\ row[r].season \in Int /\ row[r].season = r.season
             /\ row[r].player_id \in Int /\ row[r].player_id = r.player_id
             /\ spec.measure = "pct" => row[r].made \in Int
  <2>1. r.seconds_played \in Int /\ r.season \in Int /\ r.player_id \in Int /\ \A k \in TotalColumns : r[k] \in Int
    BY <1>5 DEF SeasonsAre
  <2>2. /\ row[r].value = value(r) /\ row[r].season = r.season /\ row[r].player_id = r.player_id
        /\ row[r].made = MadeOf(r, spec.column) /\ {"value", "made", "season", "player_id"} \subseteq DOMAIN row[r]
    BY <1>2
  <2>3. CASE spec.measure = "total"
    <3>1. Figure(r, spec.column) \in Int
      BY <2>1, <2>3, FigureIsInt DEF SeasonFits, TotalsFit
    <3>2. value(r) = Whole(Figure(r, spec.column))
      BY <2>3
    <3> QED
      BY <2>1, <2>2, <2>3, <3>1, <3>2, WholeIs
  <2>4. CASE spec.measure = "pct"
    <3>1. r[spec.column] \in Int /\ r[Attempted(spec.column)] \in Int
      BY <2>1, <2>4, AttemptedIs DEF SeasonFits, TotalsFit, TotalColumns
    <3>2. r[Attempted(spec.column)] >= spec.minimum /\ spec.minimum \in Nat \ {0}
      BY <1>1, <2>4 DEF SeasonFits, TotalsFit
    <3>3. r[Attempted(spec.column)] \in Nat \ {0}
      BY <3>1, <3>2
    <3>4. value(r) = <<r[spec.column], r[Attempted(spec.column)]>>
      BY <2>4
    <3>5. MadeOf(r, spec.column) = r[spec.column]
      BY <2>4 DEF SeasonFits, TotalsFit, MadeOf
    <3> QED
      BY <2>1, <2>2, <2>4, <3>1, <3>3, <3>4, <3>5, ShareIs
  <2>5. CASE spec.measure = "average"
    <3>1. r.games \in Int
      BY <2>1 DEF TotalColumns
    <3>2. r.games >= SEASON_AVERAGE_GAMES /\ SEASON_AVERAGE_GAMES \in Nat \ {0}
      BY <1>1, <2>5, MinimumsAssumption
    <3>3. r.games \in Nat \ {0} /\ 60 * r.games \in Nat \ {0}
      BY <3>1, <3>2
    <3>4. CASE spec.column = "minutes"
      <4>1. value(r) = <<r.seconds_played, 60 * r.games>>
        BY <2>5, <3>4
      <4> QED
        BY <2>1, <2>2, <2>5, <3>3, <4>1, ShareIs
    <3>5. CASE spec.column # "minutes"
      <4>1. value(r) = <<r[spec.column], r.games>>
        BY <2>5, <3>5
      <4>2. r[spec.column] \in Int
        BY <2>1, <2>5, <3>5 DEF SeasonFits, TotalsFit
      <4> QED
        BY <2>1, <2>2, <2>5, <3>3, <4>1, <4>2, ShareIs
    <3> QED
      BY <3>4, <3>5
  <2> QED
    BY <2>3, <2>4, <2>5 DEF SeasonFits, TotalsFit
<1>7. \A r \in S, s \in S : r.season = s.season /\ r.player_id = s.player_id => r = s
  BY <1>1, <1>5 DEF SeasonsAre
<1>8. CASE spec.measure = "pct"
  <2> DEFINE columns == {"made", "season", "player_id"}
  <2>1. ToldApart(row, S, columns)
    BY <1>6, <1>7, <1>8 DEF ToldApart
  <2>2. OrderedBy(c.order, columns)
    BY <1>3, <1>8, JoinedOrders
  <2> HIDE DEF c
  <2> QED
    BY <1>4, <1>5, <2>1, <2>2, ListableRows DEF c
<1>9. CASE spec.measure # "pct"
  <2> DEFINE columns == {"season", "player_id"}
  <2>1. ToldApart(row, S, columns)
    BY <1>6, <1>7 DEF ToldApart
  <2>2. OrderedBy(c.order, columns)
    BY <1>3, <1>9, JoinedOrders
  <2> HIDE DEF c
  <2> QED
    BY <1>4, <1>5, <2>1, <2>2, ListableRows DEF c
<1> QED
  BY <1>8, <1>9

LEMMA CareersList ==
  ASSUME NEW d, SeasonsAre(d.seasons), NEW spec, CareersFit(spec)
  PROVE  Listable(careers(d, spec))
<1> DEFINE of(p) == {r \in d.seasons : r.player_id = p /\ r.game_type = spec.type}
           total(p, k) == SumOf(of(p), LAMBDA r : r[k])
           figure(p) == IF spec.column = "minutes" THEN total(p, "seconds_played") \div 60 ELSE total(p, spec.column)
           attempted(p) == total(p, Attempted(spec.column))
           listed(p) == /\ of(p) # {}
                        /\ CASE spec.measure = "total" -> figure(p) > 0
                             [] spec.measure = "pct" -> attempted(p) >= spec.minimum
                             [] spec.measure = "average" -> total(p, "games") >= CAREER_AVERAGE_GAMES
           value(p) == CASE spec.measure = "total" -> Whole(figure(p))
                         [] spec.measure = "pct" -> <<total(p, spec.column), attempted(p)>>
                         [] OTHER -> <<total(p, spec.column), total(p, "games")>>
           made(p) == IF spec.column \in Made THEN total(p, spec.column) ELSE Null
           tried(p) == IF spec.column \in Made THEN attempted(p) ELSE Null
           S == {p \in {r.player_id : r \in d.seasons} : listed(p)}
           row == [p \in S |-> [value |-> value(p), player_id |-> p, made |-> made(p), attempted |-> tried(p)]]
           c == careers(d, spec)
<1>1. c.order = <<<<"value", TRUE>>>> \o (IF spec.measure = "pct" THEN <<Desc("made")>> ELSE <<>>) \o <<Asc("player_id")>>
  BY DEF careers, Desc
<1>2. c.rows = {Columns([value |-> value(p), player_id |-> p, made |-> made(p), attempted |-> tried(p)]) : p \in S}
  BY DEF careers
<1>3. \A p : \A k \in TotalColumns \cup {"seconds_played"} : total(p, k) \in Int
  <2> TAKE p
  <2> TAKE k \in TotalColumns \cup {"seconds_played"}
  <2>1. IsFiniteSet(of(p))
    BY Fewer DEF SeasonsAre
  <2>2. \A r \in of(p) : r[k] \in Int
    BY DEF SeasonsAre
  <2> HIDE DEF of
  <2> QED
    BY <2>1, <2>2, ColumnSum DEF SumOf
<1>4. IsFiniteSet(S)
  <2>1. PICK player : player = [r \in d.seasons |-> r.player_id]
    OBVIOUS
  <2>2. IsFiniteSet({player[r] : r \in d.seasons})
    BY ImageIsFinite DEF SeasonsAre
  <2>3. {player[r] : r \in d.seasons} = {r.player_id : r \in d.seasons}
    BY <2>1
  <2>4. IsFiniteSet({r.player_id : r \in d.seasons})
    BY <2>2, <2>3
  <2> HIDE DEF listed
  <2> QED
    BY <2>4, Fewer
<1>5. \A p \in S : p \in Int /\ listed(p)
  <2> HIDE DEF listed
  <2> QED
    BY DEF SeasonsAre
<1> HIDE DEF S, total, of
<1>6. c.rows = {Columns(row[p]) : p \in S}
  <2> HIDE DEF value, made, tried
  <2> QED
    BY <1>2
<1>7. ASSUME NEW p \in S
      PROVE  /\ IsFraction(row[p].value) /\ {"value", "made", "player_id"} \subseteq DOMAIN row[p]
             /\ row[p].player_id = p /\ p \in Int
             /\ spec.measure = "pct" => row[p].made \in Int
  <2>1. /\ row[p].value = value(p) /\ row[p].player_id = p /\ row[p].made = made(p)
        /\ {"value", "made", "player_id"} \subseteq DOMAIN row[p]
    <3> HIDE DEF value, made, tried
    <3> QED
      OBVIOUS
  <2> HIDE DEF row
  <2>2. p \in Int /\ listed(p)
    BY <1>5
  <2>3. CASE spec.measure = "total"
    <3>1. figure(p) \in Int
      <4>1. total(p, "seconds_played") \in Int
        BY <1>3
      <4>2. spec.column # "minutes" => total(p, spec.column) \in Int
        BY <1>3, <2>3 DEF CareersFit, TotalsFit
      <4> QED
        BY <4>1, <4>2
    <3>2. value(p) = Whole(figure(p))
      BY <2>3
    <3> HIDE DEF figure, value, made
    <3> QED
      BY <2>1, <2>2, <2>3, <3>1, <3>2, WholeIs
  <2>4. CASE spec.measure = "pct"
    <3>1. total(p, spec.column) \in Int /\ attempted(p) \in Int
      BY <1>3, <2>4, AttemptedIs DEF CareersFit, TotalsFit, TotalColumns
    <3>2. attempted(p) >= spec.minimum /\ spec.minimum \in Nat \ {0}
      BY <2>2, <2>4 DEF CareersFit, TotalsFit
    <3>3. value(p) = <<total(p, spec.column), attempted(p)>>
      BY <2>4
    <3>4. made(p) = total(p, spec.column)
      BY <2>4 DEF CareersFit, TotalsFit
    <3> HIDE DEF attempted, value, made
    <3>5. attempted(p) \in Nat \ {0}
      BY <3>1, <3>2
    <3> QED
      BY <2>1, <2>2, <2>4, <3>1, <3>3, <3>4, <3>5, ShareIs
  <2>5. CASE spec.measure = "average"
    <3>1. total(p, spec.column) \in Int /\ total(p, "games") \in Int
      BY <1>3, <2>5 DEF CareersFit, TotalsFit, TotalColumns
    <3>2. total(p, "games") >= CAREER_AVERAGE_GAMES /\ CAREER_AVERAGE_GAMES \in Nat \ {0}
      BY <2>2, <2>5, MinimumsAssumption
    <3>3. value(p) = <<total(p, spec.column), total(p, "games")>>
      BY <2>5
    <3> HIDE DEF value, made
    <3>4. total(p, "games") \in Nat \ {0}
      BY <3>1, <3>2
    <3> QED
      BY <2>1, <2>2, <2>5, <3>1, <3>3, <3>4, ShareIs
  <2> QED
    BY <2>3, <2>4, <2>5 DEF CareersFit, TotalsFit
<1> HIDE DEF row, c
<1>8. CASE spec.measure = "pct"
  <2> DEFINE columns == {"made", "player_id"}
  <2>1. ToldApart(row, S, columns)
    BY <1>7, <1>8 DEF ToldApart
  <2>2. OrderedBy(c.order, columns)
    BY <1>1, <1>8, JoinedOrders
  <2> QED
    BY <1>4, <1>6, <2>1, <2>2, ListableRows DEF c
<1>9. CASE spec.measure # "pct"
  <2> DEFINE columns == {"player_id"}
  <2>1. ToldApart(row, S, columns)
    BY <1>7 DEF ToldApart
  <2>2. OrderedBy(c.order, columns)
    BY <1>1, <1>9, JoinedOrders
  <2> QED
    BY <1>4, <1>6, <2>1, <2>2, ListableRows DEF c
<1> QED
  BY <1>8, <1>9

LEMMA SideFigureIs ==
  ASSUME NEW rows, SidesAre(rows), NEW s \in rows, NEW column \in SideColumns
  PROVE  SideFigure(s, column) \in Int
<1>1. s.score \in Int /\ s.opponent_score \in Int /\ \A c \in BoxColumns : s[c] \in Int
  BY DEF SidesAre
<1>2. CASE column = "margin"
  <2>1. SideFigure(s, column) = s.score - s.opponent_score
    BY <1>2 DEF SideFigure
  <2> QED
    BY <1>1, <2>1
<1>3. CASE column = "combined"
  <2>1. SideFigure(s, column) = s.score + s.opponent_score
    BY <1>3 DEF SideFigure
  <2> QED
    BY <1>1, <2>1
<1>4. CASE column \notin {"margin", "combined"}
  <2>1. SideFigure(s, column) = s[column]
    BY <1>4 DEF SideFigure
  <2>2. column \in {"score", "opponent_score"} \cup BoxColumns
    BY <1>4 DEF SideColumns
  <2> QED
    BY <1>1, <2>1, <2>2
<1> QED
  BY <1>2, <1>3, <1>4

LEMMA TeamSeasonsList ==
  ASSUME NEW d, SidesAre(d.sides), NEW spec, TeamSeasonsFit(spec)
  PROVE  Listable(team_seasons(d, spec))
<1> DEFINE of(k) == {s \in d.sides : s.game_type = REGULAR /\ <<s.season, s.team_id>> = k}
           keys == {<<s.season, s.team_id>> : s \in {t \in d.sides : t.game_type = REGULAR
                                                                       /\ t.season \in Champions(d)}}
           boxed(k) == {s \in of(k) : SideHas(s, spec.column)}
           total(k, f) == SumOf({s \in of(k) : SideHas(s, f)}, LAMBDA s : SideFigure(s, f))
           attempted(k) == total(k, Attempted(spec.column))
           won(k) == {s \in of(k) : s.won = spec.won}
           listed(k) == CASE spec.measure = "made" -> total(k, spec.column) > 0
                          [] spec.measure = "pct" -> attempted(k) > 0
                          [] spec.measure = "average" -> boxed(k) # {}
                          [] spec.measure = "streak" -> won(k) # {}
                          [] spec.measure = "count" -> TRUE
           value(k) == CASE spec.measure = "made" -> Whole(total(k, spec.column))
                         [] spec.measure = "pct" -> <<total(k, spec.column), attempted(k)>>
                         [] spec.measure = "average" -> <<total(k, spec.column), Cardinality(boxed(k))>>
                         [] spec.measure = "streak" -> Whole(Max({s.streak : s \in won(k)}))
                         [] spec.measure = "count" -> Whole(Cardinality(won(k)))
           made(k) == IF spec.column \in Made THEN total(k, spec.column) ELSE Null
           tried(k) == IF spec.column \in Made THEN attempted(k) ELSE Null
           S == {k \in keys : listed(k)}
           row == [k \in S |-> [value |-> value(k), season |-> k[1], team_id |-> k[2], made |-> made(k),
                                attempted |-> tried(k)]]
           c == team_seasons(d, spec)
<1>1. c.order = <<<<"value", spec.best>>>> \o (IF spec.measure = "pct" THEN <<Desc("made")>> ELSE <<>>)
                  \o <<Asc("season"), Asc("team_id")>>
  BY DEF team_seasons
<1>2. c.rows = {Columns([value |-> value(k), season |-> k[1], team_id |-> k[2], made |-> made(k),
                         attempted |-> tried(k)]) : k \in S}
  BY DEF team_seasons
<1>3. \A k : IsFiniteSet(of(k)) /\ of(k) \subseteq d.sides
  BY Fewer DEF SidesAre
<1>4. IsFiniteSet(keys) /\ \A k \in keys : k[1] \in Int /\ k[2] \in Int /\ k = <<k[1], k[2]>>
  <2>1. PICK T : T = {t \in d.sides : t.game_type = REGULAR /\ t.season \in Champions(d)}
    OBVIOUS
  <2>2. PICK key : key = [s \in T |-> <<s.season, s.team_id>>]
    OBVIOUS
  <2>3. keys = {key[s] : s \in T}
    BY <2>1, <2>2
  <2>4. IsFiniteSet(T)
    BY <2>1, Fewer DEF SidesAre
  <2>5. IsFiniteSet({key[s] : s \in T})
    BY <2>4, ImageIsFinite
  <2>6. \A s \in T : s.season \in Int /\ s.team_id \in Int
    BY <2>1 DEF SidesAre
  <2>7. \A s \in T : key[s][1] \in Int /\ key[s][2] \in Int /\ key[s] = <<key[s][1], key[s][2]>>
    BY <2>2, <2>6
  <2> HIDE DEF keys
  <2>8. \A k \in keys : k[1] \in Int /\ k[2] \in Int /\ k = <<k[1], k[2]>>
    BY <2>3, <2>7
  <2> QED
    BY <2>3, <2>5, <2>8
<1> HIDE DEF of, keys
<1>5. \A k : \A f \in SideColumns : total(k, f) \in Int
  <2> TAKE k
  <2> TAKE f \in SideColumns
  <2>1. PICK T : T = {s \in of(k) : SideHas(s, f)}
    OBVIOUS
  <2>2. PICK g : g = [s \in T |-> SideFigure(s, f)]
    OBVIOUS
  <2>3. IsFiniteSet(T) /\ T \subseteq d.sides
    BY <1>3, <2>1, Fewer
  <2>4. \A s \in T : g[s] \in Int
    BY <2>2, <2>3, SideFigureIs
  <2>5. SumFunction([s \in T |-> g[s]]) \in Int
    BY <2>3, <2>4, SumIsWhole
  <2>6. [s \in T |-> g[s]] = [s \in T |-> SideFigure(s, f)]
    BY <2>2
  <2>7. total(k, f) = SumFunction([s \in T |-> SideFigure(s, f)])
    BY <2>1 DEF SumOf
  <2> QED
    BY <2>5, <2>6, <2>7
<1>6. \A k : /\ IsFiniteSet(boxed(k)) /\ Cardinality(boxed(k)) \in Nat
             /\ boxed(k) # {} => Cardinality(boxed(k)) \in Nat \ {0}
             /\ IsFiniteSet(won(k)) /\ Cardinality(won(k)) \in Nat
             /\ won(k) # {} => Max({s.streak : s \in won(k)}) \in Int
  <2> TAKE k
  <2>1. boxed(k) \in SUBSET of(k) /\ won(k) \in SUBSET of(k)
    OBVIOUS
  <2> HIDE DEF boxed, won
  <2>2. IsFiniteSet(of(k)) /\ of(k) \subseteq d.sides
    BY <1>3
  <2>3. /\ IsFiniteSet(boxed(k)) /\ Cardinality(boxed(k)) \in Nat
        /\ boxed(k) # {} => Cardinality(boxed(k)) \in Nat \ {0}
        /\ IsFiniteSet(won(k)) /\ Cardinality(won(k)) \in Nat
    BY <2>1, <2>2, Fewer
  <2>4. PICK streak : streak = [s \in won(k) |-> s.streak]
    OBVIOUS
  <2>5. IsFiniteSet({streak[s] : s \in won(k)})
    BY <2>3, ImageIsFinite
  <2>6. {streak[s] : s \in won(k)} = {s.streak : s \in won(k)}
    BY <2>4
  <2>7. \A s \in won(k) : s.streak \in Int
    BY <2>1, <2>2 DEF SidesAre
  <2>8. PICK T : T = {s.streak : s \in won(k)}
    OBVIOUS
  <2>9. T \in SUBSET Int /\ IsFiniteSet(T) /\ (won(k) # {} => T # {})
    BY <2>5, <2>6, <2>7, <2>8
  <2>10. won(k) # {} => Max(T) \in Int
    BY <2>9, GreatestIs
  <2> QED
    BY <2>3, <2>8, <2>10
<1> HIDE DEF total, boxed, won
<1>7. IsFiniteSet(S)
  <2> HIDE DEF listed
  <2> QED
    BY <1>4, Fewer
<1>8. \A k \in S : k \in keys /\ listed(k)
  <2> HIDE DEF listed
  <2> QED
    OBVIOUS
<1> HIDE DEF S
<1>9. c.rows = {Columns(row[k]) : k \in S}
  <2> HIDE DEF value, made, tried
  <2> QED
    BY <1>2
<1>10. \A f \in Made : f \in SideColumns /\ Attempted(f) \in SideColumns
  BY AttemptedIs DEF SideColumns, BoxColumns
<1>11. ASSUME NEW k \in S
       PROVE  /\ IsFraction(row[k].value) /\ {"value", "made", "season", "team_id"} \subseteq DOMAIN row[k]
              /\ row[k].season = k[1] /\ row[k].team_id = k[2]
              /\ spec.measure = "pct" => row[k].made \in Int
  <2>1. /\ row[k].value = value(k) /\ row[k].season = k[1] /\ row[k].team_id = k[2] /\ row[k].made = made(k)
        /\ {"value", "made", "season", "team_id"} \subseteq DOMAIN row[k]
    <3> HIDE DEF value, made, tried
    <3> QED
      OBVIOUS
  <2> HIDE DEF row
  <2>2. listed(k)
    BY <1>8
  <2>3. CASE spec.measure = "made"
    <3>1. total(k, spec.column) \in Int
      BY <1>5, <1>10, <2>3 DEF TeamSeasonsFit
    <3>2. value(k) = Whole(total(k, spec.column))
      BY <2>3
    <3> HIDE DEF value, made
    <3> QED
      BY <2>1, <2>3, <3>1, <3>2, WholeIs
  <2>4. CASE spec.measure = "pct"
    <3>1. total(k, spec.column) \in Int /\ attempted(k) \in Int
      BY <1>5, <1>10, <2>4 DEF TeamSeasonsFit
    <3>2. attempted(k) > 0
      BY <2>2, <2>4
    <3>3. value(k) = <<total(k, spec.column), attempted(k)>>
      BY <2>4
    <3>4. made(k) = total(k, spec.column)
      BY <2>4 DEF TeamSeasonsFit
    <3> HIDE DEF attempted, value, made
    <3>5. attempted(k) \in Nat \ {0}
      BY <3>1, <3>2
    <3> QED
      BY <2>1, <2>4, <3>1, <3>3, <3>4, <3>5, ShareIs
  <2>5. CASE spec.measure = "average"
    <3>1. total(k, spec.column) \in Int
      BY <1>5, <2>5 DEF TeamSeasonsFit
    <3>2. boxed(k) # {}
      BY <2>2, <2>5
    <3>3. value(k) = <<total(k, spec.column), Cardinality(boxed(k))>>
      BY <2>5
    <3> HIDE DEF value, made
    <3>4. Cardinality(boxed(k)) \in Nat \ {0}
      BY <1>6, <3>2
    <3> QED
      BY <2>1, <2>5, <3>1, <3>3, <3>4, ShareIs
  <2>6. CASE spec.measure = "streak"
    <3>1. won(k) # {}
      BY <2>2, <2>6
    <3>2. value(k) = Whole(Max({s.streak : s \in won(k)}))
      BY <2>6
    <3>3. PICK most : most = Max({s.streak : s \in won(k)})
      OBVIOUS
    <3>4. most \in Int /\ value(k) = Whole(most)
      BY <1>6, <3>1, <3>2, <3>3
    <3> HIDE DEF value, made
    <3> QED
      BY <2>1, <2>6, <3>4, WholeIs
  <2>7. CASE spec.measure = "count"
    <3>1. value(k) = Whole(Cardinality(won(k)))
      BY <2>7
    <3>2. Cardinality(won(k)) \in Nat
      BY <1>6
    <3> HIDE DEF value, made
    <3> QED
      BY <2>1, <2>7, <3>1, <3>2, WholeIs
  <2> QED
    BY <2>3, <2>4, <2>5, <2>6, <2>7 DEF TeamSeasonsFit
<1> HIDE DEF row, c
<1>12. \A k \in S : row[k].season \in Int /\ row[k].team_id \in Int
  BY <1>4, <1>8, <1>11
<1>13. ASSUME NEW j \in S, NEW k \in S, row[j].season = row[k].season, row[j].team_id = row[k].team_id
       PROVE  j = k
  <2>1. j = <<j[1], j[2]>> /\ k = <<k[1], k[2]>>
    <3>1. j \in keys /\ k \in keys
      BY <1>8
    <3> QED
      BY <1>4, <3>1
  <2>2. row[j].season = j[1] /\ row[j].team_id = j[2] /\ row[k].season = k[1] /\ row[k].team_id = k[2]
    BY <1>11
  <2> QED
    BY <1>13, <2>1, <2>2
<1>14. CASE spec.measure = "pct"
  <2> DEFINE columns == {"made", "season", "team_id"}
  <2>1. ToldApart(row, S, columns)
    BY <1>11, <1>12, <1>13, <1>14 DEF ToldApart
  <2>2. OrderedBy(c.order, columns)
    BY <1>1, <1>14, JoinedOrders DEF TeamSeasonsFit
  <2> QED
    BY <1>7, <1>9, <2>1, <2>2, ListableRows DEF c
<1>15. CASE spec.measure # "pct"
  <2> DEFINE columns == {"season", "team_id"}
  <2>1. ToldApart(row, S, columns)
    BY <1>11, <1>12, <1>13 DEF ToldApart
  <2>2. OrderedBy(c.order, columns)
    BY <1>1, <1>15, JoinedOrders DEF TeamSeasonsFit
  <2> QED
    BY <1>7, <1>9, <2>1, <2>2, ListableRows DEF c
<1> QED
  BY <1>14, <1>15

\* Rows of a count for each of some ids.
LEMMA CountsList ==
  ASSUME NEW S, IsFiniteSet(S), S \subseteq Int, NEW k, k # "value",
         NEW row, \A t \in S : {"value", k} \subseteq DOMAIN row[t] /\ IsFraction(row[t].value) /\ row[t][k] = t,
         NEW c, c.rows = RowsOf(row, S), c.order = <<Desc("value"), Asc(k)>>
  PROVE  Listable(c)
<1> DEFINE order == <<<<"value", TRUE>>, <<k, FALSE>>>>
           columns == {k}
<1>1. OrderedBy(order, columns)
  BY Orders2
<1>2. c.order = order
  BY DEF Desc, Asc
<1>3. ToldApart(row, S, columns)
  BY DEF ToldApart
<1>4. "value" \notin columns
  OBVIOUS
<1> HIDE DEF order, columns
<1> QED
  BY <1>1, <1>2, <1>3, <1>4, ListableFrom

\* The ids in some column of a table.
LEMMA IdsAre ==
  ASSUME NEW S, IsFiniteSet(S), NEW f, \A x \in S : f[x] \in Int
  PROVE  IsFiniteSet({f[x] : x \in S}) /\ {f[x] : x \in S} \subseteq Int
BY ImageIsFinite

LEMMA PlayersAre ==
  ASSUME NEW d, Stored(d)
  PROVE  IsFiniteSet({l.player_id : l \in d.lines}) /\ {l.player_id : l \in d.lines} \subseteq Int
<1>1. PICK f : f = [l \in d.lines |-> l.player_id]
  OBVIOUS
<1>2. \A l \in d.lines : f[l] \in Int
  BY <1>1 DEF Stored, LineColumns
<1>3. {f[l] : l \in d.lines} = {l.player_id : l \in d.lines}
  BY <1>1
<1>4. IsFiniteSet(d.lines)
  BY DEF Stored
<1> QED
  BY <1>2, <1>3, <1>4, IdsAre

LEMMA TeamsAre ==
  ASSUME NEW d, Stored(d)
  PROVE  IsFiniteSet({t.id : t \in d.teams}) /\ {t.id : t \in d.teams} \subseteq Int
<1>1. PICK f : f = [t \in d.teams |-> t.id]
  OBVIOUS
<1>2. \A t \in d.teams : f[t] \in Int
  BY <1>1 DEF Stored
<1>3. {f[t] : t \in d.teams} = {t.id : t \in d.teams}
  BY <1>1
<1>4. IsFiniteSet(d.teams)
  BY DEF Stored
<1> QED
  BY <1>2, <1>3, <1>4, IdsAre

LEMMA ChampionsAre ==
  ASSUME NEW d, Stored(d)
  PROVE  IsFiniteSet(season_champions(d)) /\ \A k \in season_champions(d) : k[1] \in Int /\ k[2] \in Int
<1>1. PICK f : f = [g \in d.games |-> g.season]
  OBVIOUS
<1>2. \A g \in d.games : f[g] \in Int
  BY <1>1, GameHas
<1>3. PICK seasons : seasons = {g.season : g \in d.games}
  OBVIOUS
<1>4. seasons = {f[g] : g \in d.games}
  BY <1>1, <1>3
<1>5. IsFiniteSet(seasons) /\ seasons \subseteq Int
  BY <1>2, <1>4, IdsAre DEF Stored
<1>6. PICK teams : teams = {t.id : t \in d.teams}
  OBVIOUS
<1>7. IsFiniteSet(teams) /\ teams \subseteq Int
  BY <1>6, TeamsAre
<1>8. season_champions(d) \subseteq seasons \X teams
  BY <1>3, <1>6 DEF season_champions
<1>9. IsFiniteSet(seasons \X teams)
  BY <1>5, <1>7, FS_Product
<1> QED
  BY <1>5, <1>7, <1>8, <1>9, Fewer

LEMMA TeamChampionshipsList ==
  ASSUME NEW d, Stored(d)
  PROVE  Listable(team_championships(d))
<1> DEFINE titles(t) == {k \in season_champions(d) : k[2] = t}
           c == team_championships(d)
<1>1. PICK S : S = {k[2] : k \in season_champions(d)}
  OBVIOUS
<1>2. PICK row : row = [t \in S |-> [value |-> Whole(Cardinality(titles(t))), team_id |-> t]]
  OBVIOUS
<1>3. IsFiniteSet(S) /\ S \subseteq Int
  <2>1. PICK f : f = [k \in season_champions(d) |-> k[2]]
    OBVIOUS
  <2>2. \A k \in season_champions(d) : f[k] \in Int
    BY <2>1, ChampionsAre
  <2>3. S = {f[k] : k \in season_champions(d)}
    BY <1>1, <2>1
  <2> QED
    BY <2>2, <2>3, ChampionsAre, IdsAre
<1>4. c.rows = RowsOf(row, S) /\ c.order = <<Desc("value"), Asc("team_id")>>
  BY <1>1, <1>2 DEF team_championships, RowsOf
<1>5. \A t : Cardinality(titles(t)) \in Nat
  BY ChampionsAre, Fewer
<1> HIDE DEF titles, c
<1>6. \A t \in S : {"value", "team_id"} \subseteq DOMAIN row[t] /\ IsFraction(row[t].value) /\ row[t]["team_id"] = t
  <2> TAKE t \in S
  <2>1. row[t].value = Whole(Cardinality(titles(t))) /\ row[t].team_id = t /\ DOMAIN row[t] = {"value", "team_id"}
    BY <1>2
  <2>2. Cardinality(titles(t)) \in Nat
    BY <1>5
  <2> QED
    BY <2>1, <2>2, WholeIs
<1> QED
  BY <1>3, <1>4, <1>6, CountsList DEF c

LEMMA PlayerChampionshipsList ==
  ASSUME NEW d, Stored(d)
  PROVE  Listable(player_championships(d))
<1> DEFINE titles(p) == {k \in season_champions(d) :
                           \E l \in d.lines : /\ l.player_id = p /\ played(l) /\ l.team_id = k[2]
                                              /\ Game(d, l) \in finals(d, k[1])}
           c == player_championships(d)
<1>1. PICK S : S = {q \in {l.player_id : l \in d.lines} : titles(q) # {}}
  OBVIOUS
<1>2. PICK row : row = [p \in S |-> [value |-> Whole(Cardinality(titles(p))), player_id |-> p]]
  OBVIOUS
<1>3. IsFiniteSet(S) /\ S \subseteq Int
  <2>1. PICK players : players = {l.player_id : l \in d.lines}
    OBVIOUS
  <2>2. S \subseteq players
    BY <1>1, <2>1
  <2> QED
    BY <2>1, <2>2, PlayersAre, Fewer
<1>4. c.rows = RowsOf(row, S) /\ c.order = <<Desc("value"), Asc("player_id")>>
  BY <1>1, <1>2 DEF player_championships, RowsOf
<1>5. \A p : Cardinality(titles(p)) \in Nat
  BY ChampionsAre, Fewer
<1> HIDE DEF titles, c
<1>6. \A p \in S :
        {"value", "player_id"} \subseteq DOMAIN row[p] /\ IsFraction(row[p].value) /\ row[p]["player_id"] = p
  <2> TAKE p \in S
  <2>1. row[p].value = Whole(Cardinality(titles(p))) /\ row[p].player_id = p /\ DOMAIN row[p] = {"value", "player_id"}
    BY <1>2
  <2>2. Cardinality(titles(p)) \in Nat
    BY <1>5
  <2> QED
    BY <2>1, <2>2, WholeIs
<1> QED
  BY <1>3, <1>4, <1>6, CountsList DEF c

LEMMA FinalsAppearancesList ==
  ASSUME NEW d, Stored(d)
  PROVE  Listable(finals_appearances(d))
<1> DEFINE of(t) == {h \in d.games : h.game_type = "playoffs" /\ h.label = FINALS_LABEL /\ PlayedIn(h, t)}
           seasons(t) == {g.season : g \in of(t)}
           c == finals_appearances(d)
<1>1. PICK S : S = {u \in {v.id : v \in d.teams} : seasons(u) # {}}
  OBVIOUS
<1>2. PICK row : row = [t \in S |-> [value |-> Whole(Cardinality(seasons(t))), team_id |-> t]]
  OBVIOUS
<1>3. IsFiniteSet(S) /\ S \subseteq Int
  <2>1. PICK teams : teams = {t.id : t \in d.teams}
    OBVIOUS
  <2>2. S \subseteq teams
    BY <1>1, <2>1
  <2> QED
    BY <2>1, <2>2, TeamsAre, Fewer
<1>4. c.rows = RowsOf(row, S) /\ c.order = <<Desc("value"), Asc("team_id")>>
  BY <1>1, <1>2 DEF finals_appearances, RowsOf
<1>5. \A t : Cardinality(seasons(t)) \in Nat
  <2> TAKE t
  <2>1. IsFiniteSet(of(t))
    BY Fewer DEF Stored
  <2>2. PICK f : f = [g \in of(t) |-> g.season]
    OBVIOUS
  <2>3. {f[g] : g \in of(t)} = seasons(t)
    BY <2>2
  <2>4. IsFiniteSet({f[g] : g \in of(t)})
    BY <2>1, ImageIsFinite
  <2> QED
    BY <2>3, <2>4, FS_CardinalityType
<1> HIDE DEF seasons, c
<1>6. \A t \in S : {"value", "team_id"} \subseteq DOMAIN row[t] /\ IsFraction(row[t].value) /\ row[t]["team_id"] = t
  <2> TAKE t \in S
  <2>1. row[t].value = Whole(Cardinality(seasons(t))) /\ row[t].team_id = t /\ DOMAIN row[t] = {"value", "team_id"}
    BY <1>2
  <2>2. Cardinality(seasons(t)) \in Nat
    BY <1>5
  <2> QED
    BY <2>1, <2>2, WholeIs
<1> QED
  BY <1>3, <1>4, <1>6, CountsList DEF c

LEMMA CareerTripleDoublesList ==
  ASSUME NEW d, Stored(d)
  PROVE  Listable(career_triple_doubles(d))
<1> DEFINE of(p) == {m \in d.lines : /\ m.player_id = p /\ played(m) /\ TRIPLE_DOUBLE(m)
                                     /\ Game(d, m).game_type = REGULAR}
           games(p) == {l.game_id : l \in of(p)}
           c == career_triple_doubles(d)
<1>1. PICK S : S = {q \in {l.player_id : l \in d.lines} : games(q) # {}}
  OBVIOUS
<1>2. PICK row : row = [p \in S |-> [value |-> Whole(Cardinality(games(p))), player_id |-> p]]
  OBVIOUS
<1>3. IsFiniteSet(S) /\ S \subseteq Int
  <2>1. PICK players : players = {l.player_id : l \in d.lines}
    OBVIOUS
  <2>2. S \subseteq players
    BY <1>1, <2>1
  <2> QED
    BY <2>1, <2>2, PlayersAre, Fewer
<1>4. c.rows = RowsOf(row, S) /\ c.order = <<Desc("value"), Asc("player_id")>>
  BY <1>1, <1>2 DEF career_triple_doubles, RowsOf
<1>5. \A p : Cardinality(games(p)) \in Nat
  <2> TAKE p
  <2>1. IsFiniteSet(of(p))
    BY Fewer DEF Stored
  <2>2. PICK f : f = [l \in of(p) |-> l.game_id]
    OBVIOUS
  <2>3. {f[l] : l \in of(p)} = games(p)
    BY <2>2
  <2>4. IsFiniteSet({f[l] : l \in of(p)})
    BY <2>1, ImageIsFinite
  <2> QED
    BY <2>3, <2>4, FS_CardinalityType
<1> HIDE DEF games, c
<1>6. \A p \in S :
        {"value", "player_id"} \subseteq DOMAIN row[p] /\ IsFraction(row[p].value) /\ row[p]["player_id"] = p
  <2> TAKE p \in S
  <2>1. row[p].value = Whole(Cardinality(games(p))) /\ row[p].player_id = p /\ DOMAIN row[p] = {"value", "player_id"}
    BY <1>2
  <2>2. Cardinality(games(p)) \in Nat
    BY <1>5
  <2> QED
    BY <2>1, <2>2, WholeIs
<1> QED
  BY <1>3, <1>4, <1>6, CountsList DEF c

\* The teams of a table of team_game_totals.
LEMMA SideTeamsAre ==
  ASSUME NEW rows, SidesAre(rows), NEW T \in SUBSET rows
  PROVE  IsFiniteSet({s.team_id : s \in T}) /\ {s.team_id : s \in T} \subseteq Int
<1>1. PICK f : f = [s \in T |-> s.team_id]
  OBVIOUS
<1>2. \A s \in T : f[s] \in Int
  BY <1>1 DEF SidesAre
<1>3. {f[s] : s \in T} = {s.team_id : s \in T}
  BY <1>1
<1>4. IsFiniteSet(T)
  BY Fewer DEF SidesAre
<1> QED
  BY <1>2, <1>3, <1>4, IdsAre

LEMMA TeamFranchiseList ==
  ASSUME NEW d, SidesAre(d.sides), NEW spec
  PROVE  Listable(team_franchise(d, spec))
<1> DEFINE of(t) == {s \in d.sides : s.team_id = t /\ s.game_type = spec.type}
           seasons(t) == {s.season : s \in of(t)}
           won(t) == {s \in of(t) : s.won}
           value(t) == IF spec.measure = "seasons" THEN Cardinality(seasons(t)) ELSE Cardinality(won(t))
           c == team_franchise(d, spec)
<1>1. PICK T : T = {r \in d.sides : r.game_type = spec.type}
  OBVIOUS
<1>2. PICK S : S = {s.team_id : s \in T}
  OBVIOUS
<1>3. PICK row : row = [t \in S |-> [value |-> Whole(value(t)), team_id |-> t]]
  OBVIOUS
<1>4. IsFiniteSet(S) /\ S \subseteq Int
  BY <1>1, <1>2, SideTeamsAre
<1>5. c.rows = RowsOf(row, S) /\ c.order = <<Desc("value"), Asc("team_id")>>
  BY <1>1, <1>2, <1>3 DEF team_franchise, RowsOf
<1>6. \A t : value(t) \in Nat
  <2> TAKE t
  <2>1. IsFiniteSet(of(t))
    BY Fewer DEF SidesAre
  <2>2. PICK f : f = [s \in of(t) |-> s.season]
    OBVIOUS
  <2>3. {f[s] : s \in of(t)} = seasons(t)
    BY <2>2
  <2>4. IsFiniteSet({f[s] : s \in of(t)})
    BY <2>1, ImageIsFinite
  <2>5. Cardinality(seasons(t)) \in Nat
    BY <2>3, <2>4, FS_CardinalityType
  <2>6. won(t) \in SUBSET of(t)
    OBVIOUS
  <2> HIDE DEF of, won, seasons
  <2>7. Cardinality(won(t)) \in Nat
    BY <2>1, <2>6, Fewer
  <2> QED
    BY <2>5, <2>7
<1> HIDE DEF value, c
<1>7. \A t \in S : {"value", "team_id"} \subseteq DOMAIN row[t] /\ IsFraction(row[t].value) /\ row[t]["team_id"] = t
  <2> TAKE t \in S
  <2>1. row[t].value = Whole(value(t)) /\ row[t].team_id = t /\ DOMAIN row[t] = {"value", "team_id"}
    BY <1>3
  <2>2. value(t) \in Nat
    BY <1>6
  <2> QED
    BY <2>1, <2>2, WholeIs
<1> QED
  BY <1>4, <1>5, <1>7, CountsList DEF c

\* Rows of a team's games, one to a team and date.
LEMMA DatedList ==
  ASSUME NEW S, IsFiniteSet(S), NEW best \in BOOLEAN,
         NEW row, \A x \in S : /\ {"value", "date", "team_id"} \subseteq DOMAIN row[x] /\ IsFraction(row[x].value)
                               /\ row[x].date \in Int /\ row[x].team_id \in Int,
         \A x \in S, y \in S : row[x].date = row[y].date /\ row[x].team_id = row[y].team_id => x = y,
         NEW c, c.rows = RowsOf(row, S), c.order = <<<<"value", best>>, Asc("date"), Asc("team_id")>>
  PROVE  Listable(c)
<1> DEFINE order == <<<<"value", best>>, <<"date", FALSE>>, Asc("team_id")>>
           columns == {"date", "team_id"}
<1>1. OrderedBy(order, columns)
  BY Orders3
<1>2. c.order = order
  BY DEF Asc
<1>3. ToldApart(row, S, columns)
  BY DEF ToldApart
<1>4. "value" \notin columns
  OBVIOUS
<1> HIDE DEF order, columns
<1> QED
  BY <1>1, <1>2, <1>3, <1>4, ListableFrom

LEMMA TeamGamesList ==
  ASSUME NEW d, SidesAre(d.sides), NEW spec, TeamGamesFit(spec)
  PROVE  Listable(team_games(d, spec))
<1> DEFINE c == team_games(d, spec)
<1>1. PICK S : S = {s \in d.sides : /\ s.game_type \in spec.types
                                    /\ SideHas(s, spec.column)
                                    /\ spec.column \in {"margin", "combined"} => s.won}
  OBVIOUS
<1>2. PICK row : row = [s \in S |->
                [value |-> Whole(SideFigure(s, spec.column)), team_id |-> s.team_id, season |-> s.season,
                 game_id |-> s.game_id, opponent_id |-> s.opponent_id, date |-> s.date,
                 made |-> MadeOf(s, spec.column), attempted |-> AttemptedOf(s, spec.column)]]
  OBVIOUS
<1>3. c.rows = RowsOf(row, S) /\ c.order = <<<<"value", spec.best>>, Asc("date"), Asc("team_id")>>
  <2>1. c.rows = {Columns([value |-> Whole(SideFigure(s, spec.column)), team_id |-> s.team_id, season |-> s.season,
                           game_id |-> s.game_id, opponent_id |-> s.opponent_id, date |-> s.date,
                           made |-> MadeOf(s, spec.column), attempted |-> AttemptedOf(s, spec.column)]) : s \in S}
    BY <1>1 DEF team_games
  <2>2. c.order = <<<<"value", spec.best>>, Asc("date"), Asc("team_id")>>
    BY DEF team_games
  <2> HIDE DEF c
  <2> QED
    BY <1>2, <2>1, <2>2 DEF RowsOf
<1>4. S \subseteq d.sides /\ IsFiniteSet(S)
  BY <1>1, Fewer DEF SidesAre
<1>5. ASSUME NEW s \in S
      PROVE  /\ {"value", "date", "team_id"} \subseteq DOMAIN row[s] /\ IsFraction(row[s].value)
             /\ row[s].date \in Int /\ row[s].team_id \in Int
             /\ row[s].date = s.date /\ row[s].team_id = s.team_id
  <2>1. s.date \in Int /\ s.team_id \in Int
    BY <1>4 DEF SidesAre
  <2>2. SideFigure(s, spec.column) \in Int
    BY <1>4, SideFigureIs DEF TeamGamesFit
  <2>3. /\ row[s].value = Whole(SideFigure(s, spec.column)) /\ row[s].date = s.date /\ row[s].team_id = s.team_id
        /\ {"value", "date", "team_id"} \subseteq DOMAIN row[s]
    BY <1>2
  <2> QED
    BY <2>1, <2>2, <2>3, WholeIs
<1>6. \A x \in S, y \in S : row[x].date = row[y].date /\ row[x].team_id = row[y].team_id => x = y
  BY <1>4, <1>5 DEF SidesAre
<1>7. spec.best \in BOOLEAN
  BY DEF TeamGamesFit
<1> HIDE DEF c
<1> QED
  BY <1>3, <1>4, <1>5, <1>6, <1>7, DatedList DEF c

LEMMA TeamMostPointsList ==
  ASSUME NEW d, Stored(d)
  PROVE  Listable(team_most_points_game(d))
<1> DEFINE c == team_most_points_game(d)
           side(g, t) == [game_id |-> g.id, season |-> g.season, date |-> g.date, team_id |-> t,
                          opponent_id |-> Opponent(g, t), score |-> Score(g, t)]
<1>1. PICK counted : counted = {h \in d.games : h.game_type \in SINGLE_GAME_TYPES /\ completed(h)}
  OBVIOUS
<1>2. PICK S : S = TeamSides(d, SINGLE_GAME_TYPES)
  OBVIOUS
<1>3. PICK row : row = [s \in S |->
                [value |-> Whole(s.score), team_id |-> s.team_id, season |-> s.season,
                 game_id |-> s.game_id, opponent_id |-> s.opponent_id, date |-> s.date]]
  OBVIOUS
<1>4. c.rows = RowsOf(row, S) /\ c.order = <<<<"value", TRUE>>, Asc("date"), Asc("team_id")>>
  <2>1. c.rows = {Columns([value |-> Whole(s.score), team_id |-> s.team_id, season |-> s.season,
                           game_id |-> s.game_id, opponent_id |-> s.opponent_id, date |-> s.date]) : s \in S}
    BY <1>2 DEF team_most_points_game
  <2>2. c.order = <<<<"value", TRUE>>, Asc("date"), Asc("team_id")>>
    BY DEF team_most_points_game, Desc
  <2> HIDE DEF c
  <2> QED
    BY <1>3, <2>1, <2>2 DEF RowsOf
<1>5. PICK of : of = [g \in counted |-> {side(g, g.home_team_id), side(g, g.away_team_id)}]
  OBVIOUS
<1>6. S = UNION {of[g] : g \in counted}
  <2>1. {of[g] : g \in counted} = {{side(g, g.home_team_id), side(g, g.away_team_id)} : g \in counted}
    <3> HIDE DEF side
    <3> QED
      BY <1>5
  <2>2. S = UNION {{side(g, g.home_team_id), side(g, g.away_team_id)} : g \in counted}
    BY <1>1, <1>2 DEF TeamSides
  <2> QED
    BY <2>1, <2>2
<1>7. IsFiniteSet(counted) /\ counted \subseteq d.games
  BY <1>1, Fewer DEF Stored
<1>8. IsFiniteSet(S)
  <2>1. \A g \in counted : IsFiniteSet(of[g])
    <3>1. \A x, y : IsFiniteSet({x, y})
      <4> TAKE x, y
      <4>1. IsFiniteSet({x} \cup {y})
        BY FS_Singleton, FS_AddElement
      <4>2. {x, y} = {x} \cup {y}
        OBVIOUS
      <4> QED
        BY <4>1, <4>2
    <3> HIDE DEF side
    <3> QED
      BY <1>5, <3>1
  <2>2. IsFiniteSet({of[g] : g \in counted})
    BY <1>7, ImageIsFinite
  <2> QED
    BY <1>6, <2>1, <2>2, FS_UNION
<1>9. \A s \in S : \E g \in counted : \E t \in {g.home_team_id, g.away_team_id} : s = side(g, t)
  <2> HIDE DEF side
  <2> QED
    BY <1>5, <1>6
<1>10. ASSUME NEW s \in S
       PROVE  /\ {"value", "date", "team_id"} \subseteq DOMAIN row[s] /\ IsFraction(row[s].value)
              /\ row[s].date \in Int /\ row[s].team_id \in Int
              /\ row[s].date = s.date /\ row[s].team_id = s.team_id
  <2>1. PICK g \in counted : \E t \in {g.home_team_id, g.away_team_id} : s = side(g, t)
    BY <1>9
  <2>2. PICK t \in {g.home_team_id, g.away_team_id} : s = side(g, t)
    BY <2>1
  <2>3. s.date = g.date /\ s.team_id = t /\ s.score = Score(g, t)
    BY <2>2
  <2>4. g.date \in Int /\ t \in Int /\ Score(g, t) \in Int
    BY <1>7, GameHas DEF Score
  <2>5. /\ row[s].value = Whole(s.score) /\ row[s].date = s.date /\ row[s].team_id = s.team_id
        /\ {"value", "date", "team_id"} \subseteq DOMAIN row[s]
    BY <1>3
  <2> QED
    BY <2>3, <2>4, <2>5, WholeIs
<1>11. ASSUME NEW x \in S, NEW y \in S, row[x].date = row[y].date, row[x].team_id = row[y].team_id
       PROVE  x = y
  <2>1. PICK g \in counted : \E t \in {g.home_team_id, g.away_team_id} : x = side(g, t)
    BY <1>9
  <2>2. PICK t \in {g.home_team_id, g.away_team_id} : x = side(g, t)
    BY <2>1
  <2>3. PICK h \in counted : \E t_1 \in {h.home_team_id, h.away_team_id} : y = side(h, t_1)
    BY <1>9
  <2>4. PICK u \in {h.home_team_id, h.away_team_id} : y = side(h, u)
    BY <2>3
  <2>5. x.date = g.date /\ x.team_id = t /\ y.date = h.date /\ y.team_id = u
    BY <2>2, <2>4
  <2>6. g.date = h.date /\ t = u
    BY <1>10, <1>11, <2>5
  <2>7. g = h
    BY <1>7, <2>6 DEF Stored, PlayedIn
  <2> QED
    BY <2>2, <2>4, <2>6, <2>7
<1> HIDE DEF c
<1> QED
  BY <1>4, <1>8, <1>10, <1>11, DatedList DEF c

LEMMA TeamLargestWinList ==
  ASSUME NEW d, Stored(d)
  PROVE  Listable(team_largest_win(d))
<1> DEFINE c == team_largest_win(d)
           home(g) == g.home_score > g.away_score
           by(g) == IF home(g) THEN g.home_score - g.away_score ELSE g.away_score - g.home_score
           winner(g) == IF home(g) THEN g.home_team_id ELSE g.away_team_id
           loser(g) == IF home(g) THEN g.away_team_id ELSE g.home_team_id
<1>1. PICK S : S = {h \in d.games : h.game_type \in SINGLE_GAME_TYPES /\ completed(h)}
  OBVIOUS
<1>2. PICK row : row = [g \in S |-> [value |-> Whole(by(g)), team_id |-> winner(g), opponent_id |-> loser(g),
                                     season |-> g.season, game_id |-> g.id, date |-> g.date]]
  OBVIOUS
<1>3. c.rows = RowsOf(row, S) /\ c.order = <<<<"value", TRUE>>, Asc("date"), Asc("team_id")>>
  <2>1. c.rows = {Columns([value |-> Whole(by(g)), team_id |-> winner(g), opponent_id |-> loser(g),
                           season |-> g.season, game_id |-> g.id, date |-> g.date]) : g \in S}
    BY <1>1 DEF team_largest_win
  <2>2. c.order = <<<<"value", TRUE>>, Asc("date"), Asc("team_id")>>
    BY DEF team_largest_win, Desc
  <2> HIDE DEF c, by, winner, loser
  <2> QED
    BY <1>2, <2>1, <2>2 DEF RowsOf
<1>4. S \subseteq d.games /\ IsFiniteSet(S)
  BY <1>1, Fewer DEF Stored
<1>5. ASSUME NEW g \in S
      PROVE  by(g) \in Int /\ winner(g) \in Int /\ winner(g) \in {g.home_team_id, g.away_team_id} /\ g.date \in Int
  BY <1>4, GameHas
<1> HIDE DEF by, winner, loser
<1>6. ASSUME NEW g \in S
      PROVE  /\ {"value", "date", "team_id"} \subseteq DOMAIN row[g] /\ IsFraction(row[g].value)
             /\ row[g].date \in Int /\ row[g].team_id \in Int
             /\ row[g].date = g.date /\ row[g].team_id = winner(g)
  <2>1. /\ row[g].value = Whole(by(g)) /\ row[g].date = g.date /\ row[g].team_id = winner(g)
        /\ {"value", "date", "team_id"} \subseteq DOMAIN row[g]
    BY <1>2
  <2> QED
    BY <1>5, <2>1, WholeIs
<1>7. ASSUME NEW x \in S, NEW y \in S, row[x].date = row[y].date, row[x].team_id = row[y].team_id
      PROVE  x = y
  <2>1. x.date = y.date /\ winner(x) = winner(y)
    BY <1>6, <1>7
  <2> QED
    BY <1>4, <1>5, <2>1 DEF Stored, PlayedIn
<1> HIDE DEF c
<1> QED
  BY <1>3, <1>4, <1>6, <1>7, DatedList DEF c

LEMMA BestWinPctList ==
  ASSUME NEW d, SidesAre(d.sides)
  PROVE  Listable(best_win_pct_all_time(d))
<1> DEFINE c == best_win_pct_all_time(d)
           of(t) == {s \in d.sides : s.team_id = t /\ s.game_type = REGULAR}
           won(t) == {s \in of(t) : s.won}
           wins(t) == Cardinality(won(t))
           all(t) == Cardinality(of(t))
           columns == {"wins", "team_id"}
           order == <<<<"value", TRUE>>, <<"wins", TRUE>>, Asc("team_id")>>
<1>1. PICK T : T = {r \in d.sides : r.game_type = REGULAR}
  OBVIOUS
<1>2. PICK S : S = {s.team_id : s \in T}
  OBVIOUS
<1>3. PICK row : row = [t \in S |-> [value |-> <<wins(t), all(t)>>, team_id |-> t, wins |-> wins(t),
                                     losses |-> all(t) - wins(t), games |-> all(t)]]
  OBVIOUS
<1>4. c.rows = RowsOf(row, S) /\ c.order = order
  <2>1. c.rows = {Columns([value |-> <<wins(t), all(t)>>, team_id |-> t, wins |-> wins(t),
                           losses |-> all(t) - wins(t), games |-> all(t)]) : t \in S}
    BY <1>1, <1>2 DEF best_win_pct_all_time
  <2>2. c.order = order
    BY DEF best_win_pct_all_time, Desc
  <2> HIDE DEF c, wins, all
  <2> QED
    BY <1>3, <2>1, <2>2 DEF RowsOf
<1>5. IsFiniteSet(S) /\ S \subseteq Int
  BY <1>1, <1>2, SideTeamsAre
<1>6. ASSUME NEW t \in S
      PROVE  wins(t) \in Nat /\ all(t) \in Nat \ {0}
  <2>1. PICK s \in T : t = s.team_id
    BY <1>2
  <2>2. s \in of(t)
    BY <1>1, <2>1
  <2>3. of(t) \in SUBSET d.sides /\ won(t) \in SUBSET d.sides /\ of(t) # {}
    BY <2>2
  <2> HIDE DEF of, won
  <2> QED
    BY <2>3, Fewer DEF SidesAre
<1> HIDE DEF wins, all
<1>7. ASSUME NEW t \in S
      PROVE  /\ {"value", "wins", "team_id"} \subseteq DOMAIN row[t] /\ IsFraction(row[t].value)
             /\ row[t].wins \in Int /\ row[t].team_id = t
  <2>1. /\ row[t].value = <<wins(t), all(t)>> /\ row[t].team_id = t /\ row[t].wins = wins(t)
        /\ {"value", "wins", "team_id"} \subseteq DOMAIN row[t]
    BY <1>3
  <2> QED
    BY <1>6, <2>1, ShareIs
<1>8. ToldApart(row, S, columns)
  BY <1>5, <1>7 DEF ToldApart
<1>9. OrderedBy(order, columns)
  BY Orders3
<1>10. "value" \notin columns
  OBVIOUS
<1> HIDE DEF c, order, columns
<1> QED
  BY <1>4, <1>5, <1>8, <1>9, <1>10, ListableFrom DEF c

LEMMA SeasonRecordList ==
  ASSUME NEW d, Stored(d), NEW spec, spec.best \in BOOLEAN
  PROVE  Listable(season_record(d, spec))
<1> DEFINE c == season_record(d, spec)
           columns == {"wins", "season", "team_id"}
           order == <<<<"value", spec.best>>, <<"wins", spec.best>>, Asc("season"), Asc("team_id")>>
<1>1. PICK counted : counted = {g \in d.games : g.game_type = REGULAR /\ completed(g) /\ g.season \in Champions(d)}
  OBVIOUS
<1> DEFINE games(k) == {g \in counted : g.season = k[1] /\ PlayedIn(g, k[2])}
           won(k) == {g \in games(k) : team_won(g, k[2])}
           side(k) == [season |-> k[1], team_id |-> k[2], games |-> Cardinality(games(k)),
                       wins |-> Cardinality(won(k))]
<1>2. PICK of : of = [g \in counted |-> {<<g.season, g.home_team_id>>, <<g.season, g.away_team_id>>}]
  OBVIOUS
<1>3. PICK keys : keys = UNION {of[g] : g \in counted}
  OBVIOUS
<1>4. PICK S : S = SeasonSides(d)
  OBVIOUS
<1>5. S = {side(k) : k \in keys}
  <2>1. {of[g] : g \in counted} = {{<<g.season, g.home_team_id>>, <<g.season, g.away_team_id>>} : g \in counted}
    BY <1>2
  <2>2. keys = UNION {{<<g.season, g.home_team_id>>, <<g.season, g.away_team_id>>} : g \in counted}
    BY <1>3, <2>1
  <2> QED
    BY <1>1, <1>4, <2>2 DEF SeasonSides
<1>6. PICK row : row = [s \in S |-> [value |-> <<s.wins, s.games>>, team_id |-> s.team_id, season |-> s.season,
                                     wins |-> s.wins, losses |-> s.games - s.wins, games |-> s.games]]
  OBVIOUS
<1>7. c.rows = RowsOf(row, S) /\ c.order = order
  <2>1. c.rows = {Columns([value |-> <<s.wins, s.games>>, team_id |-> s.team_id, season |-> s.season,
                           wins |-> s.wins, losses |-> s.games - s.wins, games |-> s.games]) : s \in S}
    BY <1>4 DEF season_record
  <2>2. c.order = order
    BY DEF season_record
  <2> HIDE DEF c
  <2> QED
    BY <1>6, <2>1, <2>2 DEF RowsOf
<1>8. IsFiniteSet(counted) /\ counted \subseteq d.games
  BY <1>1, Fewer DEF Stored
<1>9. ASSUME NEW k \in keys
      PROVE  /\ k[1] \in Int /\ k[2] \in Int /\ k = <<k[1], k[2]>>
             /\ Cardinality(games(k)) \in Nat \ {0} /\ Cardinality(won(k)) \in Nat
  <2>1. PICK g \in counted : k \in of[g]
    BY <1>3
  <2>2. k = <<g.season, g.home_team_id>> \/ k = <<g.season, g.away_team_id>>
    BY <1>2, <2>1
  <2>3. g.season \in Int /\ g.home_team_id \in Int /\ g.away_team_id \in Int
    BY <1>8, GameHas
  <2>4. g \in games(k)
    BY <2>2 DEF PlayedIn
  <2>5. games(k) \in SUBSET counted /\ won(k) \in SUBSET counted /\ games(k) # {}
    BY <2>4
  <2> HIDE DEF games, won
  <2>6. Cardinality(games(k)) \in Nat \ {0} /\ Cardinality(won(k)) \in Nat
    BY <1>8, <2>5, Fewer
  <2> QED
    BY <2>2, <2>3, <2>6
<1>10. IsFiniteSet(keys)
  <2>1. \A g \in counted : IsFiniteSet(of[g])
    <3>1. \A x, y : IsFiniteSet({x, y})
      <4> TAKE x, y
      <4>1. IsFiniteSet({x} \cup {y})
        BY FS_Singleton, FS_AddElement
      <4>2. {x, y} = {x} \cup {y}
        OBVIOUS
      <4> QED
        BY <4>1, <4>2
    <3> QED
      BY <1>2, <3>1
  <2>2. IsFiniteSet({of[g] : g \in counted})
    BY <1>8, ImageIsFinite
  <2> QED
    BY <1>3, <2>1, <2>2, FS_UNION
<1>11. PICK f : f = [k \in keys |-> side(k)]
  OBVIOUS
<1> HIDE DEF games, won
<1>12. \A k \in keys : f[k].season = k[1] /\ f[k].team_id = k[2] /\ f[k].games = Cardinality(games(k))
                       /\ f[k].wins = Cardinality(won(k))
  BY <1>11
<1>13. S = {f[k] : k \in keys}
  BY <1>5, <1>11
<1>14. IsFiniteSet(S)
  BY <1>10, <1>13, ImageIsFinite
<1>15. ASSUME NEW s \in S
       PROVE  /\ {"value", "wins", "season", "team_id"} \subseteq DOMAIN row[s] /\ IsFraction(row[s].value)
              /\ row[s].wins \in Int /\ row[s].season \in Int /\ row[s].team_id \in Int
              /\ row[s].season = s.season /\ row[s].team_id = s.team_id
  <2>1. PICK k \in keys : s = f[k]
    BY <1>13
  <2>2. s.season \in Int /\ s.team_id \in Int /\ s.wins \in Int /\ s.games \in Nat \ {0}
    BY <1>9, <1>12, <2>1
  <2>3. /\ row[s].value = <<s.wins, s.games>> /\ row[s].team_id = s.team_id /\ row[s].season = s.season
        /\ row[s].wins = s.wins /\ {"value", "wins", "season", "team_id"} \subseteq DOMAIN row[s]
    BY <1>6
  <2> QED
    BY <2>2, <2>3, ShareIs
<1>16. ASSUME NEW r \in S, NEW s \in S, row[r].season = row[s].season, row[r].team_id = row[s].team_id
       PROVE  r = s
  <2>1. PICK j \in keys : r = f[j]
    BY <1>13
  <2>2. PICK k \in keys : s = f[k]
    BY <1>13
  <2>3. j[1] = k[1] /\ j[2] = k[2]
    BY <1>12, <1>15, <1>16, <2>1, <2>2
  <2>4. j = <<j[1], j[2]>> /\ k = <<k[1], k[2]>>
    BY <1>9
  <2> QED
    BY <2>1, <2>2, <2>3, <2>4
<1>17. ToldApart(row, S, columns)
  BY <1>15, <1>16 DEF ToldApart
<1>18. OrderedBy(order, columns)
  BY Orders4
<1>19. "value" \notin columns
  OBVIOUS
<1> HIDE DEF c, order, columns
<1> QED
  BY <1>7, <1>14, <1>17, <1>18, <1>19, ListableFrom DEF c

\* Whatever a definition of the registry asks for can be listed.
LEMMA CandidatesList ==
  ASSUME NEW d, Stored(d), SeasonsAre(d.seasons), SidesAre(d.sides), NEW spec, SpecFits(spec)
  PROVE  Listable(candidates(d, spec))
<1>1. CASE spec.family = "player_game" /\ PlayerGameFits(spec)
  <2>1. candidates(d, spec) = player_game(d, spec)
    BY <1>1 DEF candidates
  <2> QED
    BY <1>1, <2>1, PlayerGameLists
<1>2. CASE spec.family = "season" /\ SeasonFits(spec)
  <2>1. candidates(d, spec) = season(d, spec)
    BY <1>2 DEF candidates
  <2> QED
    BY <1>2, <2>1, SeasonLists
<1>3. CASE spec.family = "careers" /\ CareersFit(spec)
  <2>1. candidates(d, spec) = careers(d, spec)
    BY <1>3 DEF candidates
  <2> QED
    BY <1>3, <2>1, CareersList
<1>4. CASE spec.family = "team_seasons" /\ TeamSeasonsFit(spec)
  <2>1. candidates(d, spec) = team_seasons(d, spec)
    BY <1>4 DEF candidates
  <2> QED
    BY <1>4, <2>1, TeamSeasonsList
<1>5. CASE spec.family = "team_games" /\ TeamGamesFit(spec)
  <2>1. candidates(d, spec) = team_games(d, spec)
    BY <1>5 DEF candidates
  <2> QED
    BY <1>5, <2>1, TeamGamesList
<1>6. CASE spec.family = "season_record" /\ spec.best \in BOOLEAN
  <2>1. candidates(d, spec) = season_record(d, spec)
    BY <1>6 DEF candidates
  <2> QED
    BY <1>6, <2>1, SeasonRecordList
<1>7. CASE spec.family = "team_franchise"
  <2>1. candidates(d, spec) = team_franchise(d, spec)
    BY <1>7 DEF candidates
  <2> QED
    BY <2>1, TeamFranchiseList
<1>8. CASE spec.family = "best_win_pct_all_time"
  <2>1. candidates(d, spec) = best_win_pct_all_time(d)
    BY <1>8 DEF candidates
  <2> QED
    BY <2>1, BestWinPctList
<1>9. CASE spec.family = "finals_appearances"
  <2>1. candidates(d, spec) = finals_appearances(d)
    BY <1>9 DEF candidates
  <2> QED
    BY <2>1, FinalsAppearancesList
<1>10. CASE spec.family = "team_championships"
  <2>1. candidates(d, spec) = team_championships(d)
    BY <1>10 DEF candidates
  <2> QED
    BY <2>1, TeamChampionshipsList
<1>11. CASE spec.family = "player_championships"
  <2>1. candidates(d, spec) = player_championships(d)
    BY <1>11 DEF candidates
  <2> QED
    BY <2>1, PlayerChampionshipsList
<1>12. CASE spec.family = "team_most_points_game"
  <2>1. candidates(d, spec) = team_most_points_game(d)
    BY <1>12 DEF candidates
  <2> QED
    BY <2>1, TeamMostPointsList
<1>13. CASE spec.family = "team_largest_win"
  <2>1. candidates(d, spec) = team_largest_win(d)
    BY <1>13 DEF candidates
  <2> QED
    BY <2>1, TeamLargestWinList
<1>14. CASE spec.family = "career_triple_doubles"
  <2>1. candidates(d, spec) = career_triple_doubles(d)
    BY <1>14 DEF candidates
  <2> QED
    BY <2>1, CareerTripleDoublesList
<1> QED
  BY <1>1, <1>2, <1>3, <1>4, <1>5, <1>6, <1>7, <1>8, <1>9, <1>10, <1>11, <1>12, <1>13, <1>14
     DEF SpecFits, OfOneKind

-----------------------------------------------------------------------------
(* Records: a row of player_season_totals is the sum of its lines *)

\* A player's lines are one after the other, by their games.
LEMMA LinesInOrder ==
  ASSUME NEW d, Stored(d), NEW L \in SUBSET d.lines, NEW p, \A l \in L : l.player_id = p
  PROVE  /\ Orders({x \in L \X L : Later(Game(d, x[1]), Game(d, x[2]))}, L)
         /\ Orders({x \in L \X L : Earlier(Game(d, x[1]), Game(d, x[2]))}, L)
<1>1. PICK game : game = [l \in L |-> Game(d, l)]
  OBVIOUS
<1>2. PICK later : later = {x \in L \X L : Later(Game(d, x[1]), Game(d, x[2]))}
  OBVIOUS
<1>3. PICK earlier : earlier = {x \in L \X L : Earlier(Game(d, x[1]), Game(d, x[2]))}
  OBVIOUS
<1>4. ASSUME NEW l \in L
      PROVE  game[l] \in d.games /\ game[l].id = l.game_id /\ game[l].id \in Int /\ game[l].date \in Int
  BY <1>1, GameIs, GameHas
<1>5. ASSUME NEW l \in L, NEW m \in L, game[l].id = game[m].id
      PROVE  l = m
  BY <1>4, <1>5 DEF Stored
<1>6. \A l \in L, m \in L :
        <<l, m>> \in later <=> game[l].date > game[m].date \/ (game[l].date = game[m].date /\ game[l].id > game[m].id)
  BY <1>1, <1>2 DEF Later
<1>7. \A l \in L, m \in L : <<l, m>> \in earlier <=> <<m, l>> \in later
  BY <1>2, <1>3 DEF Earlier
<1>8. Orders(later, L)
  <2>1. \A l \in L : <<l, l>> \notin later
    BY <1>4, <1>6
  <2>2. ASSUME NEW l \in L, NEW m \in L
        PROVE  l = m \/ <<l, m>> \in later \/ <<m, l>> \in later
    <3>1. game[l].id \in Int /\ game[l].date \in Int /\ game[m].id \in Int /\ game[m].date \in Int
      BY <1>4
    <3>2. /\ <<l, m>> \in later <=> game[l].date > game[m].date \/ (game[l].date = game[m].date /\ game[l].id > game[m].id)
          /\ <<m, l>> \in later <=> game[m].date > game[l].date \/ (game[m].date = game[l].date /\ game[m].id > game[l].id)
      BY <1>6
    <3>3. game[l].id = game[m].id => l = m
      BY <1>5
    <3> QED
      BY <3>1, <3>2, <3>3
  <2>3. \A l \in L, m \in L, n \in L : <<l, m>> \in later /\ <<m, n>> \in later => <<l, n>> \in later
    BY <1>4, <1>6
  <2> QED
    BY <2>1, <2>2, <2>3 DEF Orders
<1>9. Orders(earlier, L)
  BY <1>7, <1>8 DEF Orders
<1> QED
  BY <1>2, <1>3, <1>8, <1>9

\* The row of a player's lines takes its team from one of them.
LEMMA RowIsTotal ==
  ASSUME NEW d, Stored(d), NEW k, NEW lines \in SUBSET d.lines, lines # {}, \A l \in lines : l.player_id = k[1]
  PROVE  IsTotal(PlayerSeasonTotal(d, k, lines), lines)
<1>1. IsFiniteSet(lines)
  BY Fewer DEF Stored
<1> DEFINE last == CHOOSE l \in lines : \A m \in lines \ {l} : Later(Game(d, l), Game(d, m))
           doubles == Cardinality({l \in lines : InTens(l) >= 2})
           triples == Cardinality({l \in lines : InTens(l) >= 3})
           keys == [player_id |-> k[1], season |-> k[2], game_type |-> k[3],
                    team_id |-> last.team_id, games |-> Cardinality(lines),
                    double_doubles |-> doubles, triple_doubles |-> triples]
           sums == [c \in SummedColumns |-> ColumnTotal(lines, c)]
           r == PlayerSeasonTotal(d, k, lines)
<1>2. r = Beside(keys, sums)
  BY DEF PlayerSeasonTotal, SummedColumns, ColumnTotal, SumOf
<1>3. last \in lines
  <2>1. PICK later : later = {x \in lines \X lines : Later(Game(d, x[1]), Game(d, x[2]))}
    OBVIOUS
  <2>2. Orders(later, lines)
    BY <2>1, LinesInOrder
  <2>3. PICK l \in lines : \A m \in lines : <<m, l>> \notin later
    BY <1>1, <2>2, HasFirst
  <2>4. \A m \in lines \ {l} : Later(Game(d, l), Game(d, m))
    BY <2>1, <2>2, <2>3 DEF Orders
  <2> QED
    BY <2>4
<1>4. doubles = Cardinality(AtLeast(lines, 2)) /\ triples = Cardinality(AtLeast(lines, 3))
  BY DEF AtLeast
<1> HIDE DEF last, doubles, triples
<1>5. /\ DOMAIN keys = {"player_id", "season", "game_type", "team_id", "games", "double_doubles", "triple_doubles"}
      /\ keys["team_id"] = last.team_id /\ keys["games"] = Cardinality(lines)
      /\ keys["double_doubles"] = doubles /\ keys["triple_doubles"] = triples
  OBVIOUS
<1>6. DOMAIN sums = SummedColumns /\ \A c \in SummedColumns : sums[c] = ColumnTotal(lines, c)
  OBVIOUS
<1>7. \A c \in SummedColumns : c \notin DOMAIN keys
  BY <1>5, StatsAre DEF COUNTING_STATS, SummedColumns
<1> HIDE DEF keys, sums, r
<1>8. \A c \in DOMAIN keys : r[c] = keys[c]
  BY <1>2 DEF Beside
<1>9. \A c \in SummedColumns : r[c] = sums[c]
  BY <1>2, <1>6, <1>7 DEF Beside
<1>10. /\ r["team_id"] = last.team_id /\ r["games"] = Cardinality(lines)
       /\ r["double_doubles"] = doubles /\ r["triple_doubles"] = triples
  BY <1>5, <1>8
<1>11. IsTotal(r, lines)
  BY <1>3, <1>4, <1>6, <1>9, <1>10 DEF IsTotal
<1> QED
  BY <1>11 DEF r

\* The table that a load rebuilds adds up.
LEMMA TableAddsUp ==
  ASSUME NEW d, Stored(d)
  PROVE  SeasonsAddUp(d, PlayerSeasonTotals(d))
<1>1. PICK counted : counted = {l \in d.lines : played(l) /\ Game(d, l).game_type \in LINE_GAME_TYPES}
  OBVIOUS
<1>2. PICK key : key = [l \in counted |-> <<l.player_id, Game(d, l).season, Game(d, l).game_type>>]
  OBVIOUS
<1>3. PICK keys : keys = {key[l] : l \in counted}
  OBVIOUS
<1>4. PICK of : of = [k \in keys |-> {l \in counted : key[l] = k}]
  OBVIOUS
<1>5. PICK row : row = [k \in keys |-> PlayerSeasonTotal(d, k, of[k])]
  OBVIOUS
<1> DEFINE rows == {row[k] : k \in keys}
<1>6. PlayerSeasonTotals(d) = rows
  <2>1. keys = {<<l.player_id, Game(d, l).season, Game(d, l).game_type>> : l \in counted}
    BY <1>2, <1>3
  <2>2. \A k \in keys :
          row[k] = PlayerSeasonTotal(d, k, {l \in counted : <<l.player_id, Game(d, l).season, Game(d, l).game_type>> = k})
    <3>1. \A k \in keys :
            of[k] = {l \in counted : <<l.player_id, Game(d, l).season, Game(d, l).game_type>> = k}
      BY <1>2, <1>4
    <3> QED
      BY <1>5, <3>1
  <2>3. rows = {PlayerSeasonTotal(d, k, {l \in counted : <<l.player_id, Game(d, l).season, Game(d, l).game_type>> = k}) :
                  k \in keys}
    BY <2>2
  <2>4. PlayerSeasonTotals(d)
          = {PlayerSeasonTotal(d, k, {l \in counted : <<l.player_id, Game(d, l).season, Game(d, l).game_type>> = k}) :
               k \in {<<l.player_id, Game(d, l).season, Game(d, l).game_type>> : l \in counted}}
    BY <1>1 DEF PlayerSeasonTotals
  <2> QED
    BY <2>1, <2>3, <2>4
<1>7. ASSUME NEW k \in keys
      PROVE  /\ row[k].player_id = k[1] /\ row[k].season = k[2] /\ row[k].game_type = k[3]
             /\ k[3] \in LINE_GAME_TYPES /\ of[k] = LinesOf(d, k[1], k[2], k[3]) /\ IsTotal(row[k], of[k])
  <2>1. PICK l \in counted : k = key[l]
    BY <1>3
  <2>2. k = <<l.player_id, Game(d, l).season, Game(d, l).game_type>>
    BY <1>2, <2>1
  <2>3. k[3] \in LINE_GAME_TYPES /\ l \in of[k]
    <3>1. k[3] = Game(d, l).game_type
      BY <2>2
    <3>2. Game(d, l).game_type \in LINE_GAME_TYPES
      BY <1>1
    <3>3. l \in of[k]
      BY <1>4, <2>1
    <3> QED
      BY <3>1, <3>2, <3>3
  <2>4. \A m \in counted : key[m] = k <=> /\ m.player_id = k[1] /\ Game(d, m).season = k[2]
                                         /\ Game(d, m).game_type = k[3]
    BY <1>2, <2>2
  <2>5. of[k] = LinesOf(d, k[1], k[2], k[3])
    BY <1>1, <1>4, <2>3, <2>4 DEF LinesOf
  <2>6. of[k] \in SUBSET d.lines /\ of[k] # {} /\ \A m \in of[k] : m.player_id = k[1]
    BY <2>3, <2>5 DEF LinesOf
  <2>7. IsTotal(row[k], of[k])
    BY <1>5, <2>6, RowIsTotal
  <2>8. IsFiniteSet(of[k]) /\ \A m \in of[k] : \A c \in LineColumns : m[c] \in Int
    BY <2>6, Fewer DEF Stored
  <2>9. row[k].player_id = k[1] /\ row[k].season = k[2] /\ row[k].game_type = k[3]
    BY <1>5, <2>8, SeasonTotalHas
  <2> QED
    BY <2>3, <2>5, <2>7, <2>9
<1>8. \A r \in rows : r.game_type \in LINE_GAME_TYPES /\ IsTotal(r, LinesOf(d, r.player_id, r.season, r.game_type))
  BY <1>7
<1>9. ASSUME NEW l \in d.lines, played(l), Game(d, l).game_type \in LINE_GAME_TYPES
      PROVE  \E r \in rows : /\ r.player_id = l.player_id /\ r.season = Game(d, l).season
                             /\ r.game_type = Game(d, l).game_type
  <2>1. l \in counted /\ key[l] \in keys
    BY <1>1, <1>3, <1>9
  <2>2. key[l] = <<l.player_id, Game(d, l).season, Game(d, l).game_type>>
    BY <1>2, <2>1
  <2> QED
    BY <1>7, <2>1, <2>2
<1> QED
  BY <1>6, <1>8, <1>9 DEF SeasonsAddUp

\* Only the games and the lines decide what a line's game is.
LEMMA SameLines ==
  ASSUME NEW d, Stored(d), NEW e, Stored(e), e.games = d.games, e.lines = d.lines, NEW rows, SeasonsAddUp(d, rows)
  PROVE  SeasonsAddUp(e, rows)
<1>1. \A l \in d.lines : Game(e, l) = Game(d, l)
  BY GameIs DEF Stored
<1>2. ASSUME NEW p, NEW s, NEW t
      PROVE  LinesOf(e, p, s, t) = LinesOf(d, p, s, t)
  BY <1>1 DEF LinesOf
<1> QED
  BY <1>1, <1>2 DEF SeasonsAddUp

-----------------------------------------------------------------------------
(* Records: what is counted in parts *)

\* Counted part by part, the parts of a set are the set.
LEMMA CountedInParts ==
  ASSUME NEW R, IsFiniteSet(R), NEW part, NEW count,
         \A r \in R : IsFiniteSet(part[r]) /\ count[r] = Cardinality(part[r]),
         \A r \in R, s \in R : r = s \/ part[r] \cap part[s] = {}
  PROVE  IsFiniteSet(AllOf(part, R)) /\ SumOver(count, R) = Cardinality(AllOf(part, R))
<1> DEFINE union(T) == UNION {part[r] : r \in T}
           sum(T) == Total([r \in T |-> count[r]])
           B == {T \in SUBSET R : ~(IsFiniteSet(union(T)) /\ sum(T) = Cardinality(union(T)))}
<1>1. B = {}
  <2> SUFFICES ASSUME B # {} PROVE FALSE
    OBVIOUS
  <2>1. B \subseteq SUBSET R
    OBVIOUS
  <2> HIDE DEF B
  <2>2. PICK T \in B : \A Y \in B : Y \subseteq T => Y = T
    BY <2>1, Smallest
  <2>3. T \in SUBSET R /\ ~(IsFiniteSet(union(T)) /\ sum(T) = Cardinality(union(T)))
    BY DEF B
  <2>4. IsFiniteSet(T)
    BY <2>3, Fewer
  <2>5. CASE T = {}
    <3>1. union(T) = {}
      BY <2>5
    <3>2. sum(T) = 0
      <4>1. DOMAIN [r \in T |-> count[r]] = {}
        BY <2>5
      <4> QED
        BY <4>1, TotalOfNone
    <3> HIDE DEF union, sum
    <3> QED
      BY <2>3, <3>1, <3>2, FS_EmptySet
  <2>6. CASE T # {}
    <3>1. PICK y \in T : TRUE
      BY <2>6
    <3>2. T \ {y} \notin B
      BY <2>2
    <3>3. IsFiniteSet(union(T \ {y})) /\ sum(T \ {y}) = Cardinality(union(T \ {y}))
      BY <2>3, <3>2 DEF B
    <3>4. IsFiniteSet(part[y]) /\ count[y] = Cardinality(part[y])
      BY <2>3
    <3>5. union(T) = part[y] \cup union(T \ {y})
      OBVIOUS
    <3>6. part[y] \cap union(T \ {y}) = {}
      <4>1. ASSUME NEW r \in T \ {y}
            PROVE  part[y] \cap part[r] = {}
        BY <2>3
      <4> QED
        BY <4>1
    <3>7. sum(T) = count[y] + sum(T \ {y})
      <4>1. PICK s : s = [r \in T |-> count[r]]
        OBVIOUS
      <4>2. PICK t : t = [r \in T \ {y} |-> count[r]]
        OBVIOUS
      <4>3. DOMAIN s = T /\ DOMAIN t = T \ {y} /\ (\A r \in T : s[r] = count[r]) /\ \A r \in T \ {y} : t[r] = count[r]
        BY <4>1, <4>2
      <4>4. \A r \in T : count[r] \in Int
        BY <2>3, FS_CardinalityType
      <4>5. /\ IsFiniteSet(DOMAIN s) /\ y \in DOMAIN s /\ \A r \in DOMAIN s : s[r] \in Int
            /\ DOMAIN t = DOMAIN s \ {y} /\ \A r \in DOMAIN t : t[r] = s[r]
        BY <2>4, <4>3, <4>4
      <4>6. Total(s) = s[y] + Total(t)
        BY <4>5, TotalWith
      <4> QED
        BY <4>1, <4>2, <4>3, <4>6
    <3> HIDE DEF union, sum
    <3>8. /\ IsFiniteSet(union(T))
          /\ Cardinality(union(T)) = Cardinality(part[y]) + Cardinality(union(T \ {y}))
      <4>1. PICK own : own = part[y]
        OBVIOUS
      <4>2. PICK rest : rest = union(T \ {y})
        OBVIOUS
      <4>3. IsFiniteSet(own) /\ IsFiniteSet(rest) /\ own \cap rest = {} /\ union(T) = own \cup rest
        BY <3>3, <3>4, <3>5, <3>6, <4>1, <4>2
      <4>4. IsFiniteSet(own \cup rest) /\ Cardinality(own \cup rest) = Cardinality(own) + Cardinality(rest)
        BY <4>3, DisjointSum
      <4> QED
        BY <4>1, <4>2, <4>3, <4>4
    <3> QED
      BY <2>3, <3>3, <3>4, <3>7, <3>8
  <2> QED
    BY <2>5, <2>6
<1>2. R \notin B
  BY <1>1
<1>3. IsFiniteSet(union(R)) /\ sum(R) = Cardinality(union(R))
  BY <1>2
<1>4. SumFunction([r \in R |-> count[r]]) = sum(R)
  <2>1. PICK g : g = [r \in R |-> count[r]]
    OBVIOUS
  <2>2. SumFunction(g) = Total(g)
    BY <2>1 DEF SumFunction, SumFunctionOnSet, FoldFunctionOnSet, Total, MapThenSumSet, MapThenFoldSet
  <2> QED
    BY <2>1, <2>2
<1> QED
  BY <1>3, <1>4 DEF AllOf, SumOver

-----------------------------------------------------------------------------
(* Records: a player's page and the table of season totals *)

\* A line of a player's page: its games, and its columns summed.
LEMMA LineSays ==
  ASSUME NEW lines, \A l \in lines : played(l)
  PROVE  /\ stat_line(lines).games_played = Cardinality(lines)
         /\ \A c \in {"points", "seconds_played", "defensive_rebounds"} : stat_line(lines)[c] = ColumnTotal(lines, c)
<1>1. PICK total : total = [c \in COUNTING_STATS |-> SumOf(lines, LAMBDA l : l[c])]
  OBVIOUS
<1> DEFINE seconds == SumOf({l \in lines : played(l)}, LAMBDA l : l.seconds_played)
           more == [seconds_played |-> seconds,
                    field_goal_pct |-> pct(total.field_goals_made, total.field_goals_attempted),
                    three_point_pct |-> pct(total.three_pointers_made, total.three_pointers_attempted),
                    free_throw_pct |-> pct(total.free_throws_made, total.free_throws_attempted)]
           sums == shooting(lines)
           line == stat_line(lines)
<1>2. sums = Beside(total, more)
  BY <1>1 DEF shooting
<1>3. DOMAIN total = COUNTING_STATS /\ \A c \in COUNTING_STATS : total[c] = ColumnTotal(lines, c)
  BY <1>1 DEF SumOf, ColumnTotal
<1>4. seconds = ColumnTotal(lines, "seconds_played")
  <2>1. {l \in lines : played(l)} = lines
    OBVIOUS
  <2> QED
    BY <2>1 DEF SumOf, ColumnTotal
<1> HIDE DEF seconds
<1>5. DOMAIN more = {"seconds_played", "field_goal_pct", "three_point_pct", "free_throw_pct"}
      /\ more["seconds_played"] = seconds
  OBVIOUS
<1> HIDE DEF more, sums
<1>6. /\ DOMAIN sums = COUNTING_STATS \cup {"seconds_played", "field_goal_pct", "three_point_pct", "free_throw_pct"}
      /\ {"points", "defensive_rebounds"} \subseteq COUNTING_STATS /\ "seconds_played" \notin COUNTING_STATS
      /\ "games_played" \notin COUNTING_STATS
  BY <1>2, <1>3, <1>5, StatsAre DEF Beside, COUNTING_STATS
<1>7. \A c \in {"points", "seconds_played", "defensive_rebounds"} : c \in DOMAIN sums /\ sums[c] = ColumnTotal(lines, c)
  BY <1>2, <1>3, <1>4, <1>5, <1>6 DEF Beside
<1> DEFINE games == Cardinality(lines)
           started == Cardinality({l \in lines : l.starter})
           shown == [games_played |-> games, games_started |-> started,
                     minutes_per_game |-> per_game(sums.seconds_played, 60 * games),
                     points_per_game |-> per_game(sums.points, games),
                     rebounds_per_game |-> per_game(sums.rebounds, games),
                     assists_per_game |-> per_game(sums.assists, games),
                     steals_per_game |-> per_game(sums.steals, games),
                     blocks_per_game |-> per_game(sums.blocks, games),
                     turnovers_per_game |-> per_game(sums.turnovers, games),
                     three_pointers_made_per_game |-> per_game(sums.three_pointers_made, games)]
<1>8. line = Beside(sums, shown)
  BY DEF stat_line, stat_line_of, sums
<1> HIDE DEF games, started
<1>9. "games_played" \in DOMAIN shown /\ shown["games_played"] = games
  OBVIOUS
<1> HIDE DEF shown, line
<1>10. line["games_played"] = games
  BY <1>6, <1>8, <1>9 DEF Beside
<1>11. \A c \in DOMAIN sums : line[c] = sums[c]
  BY <1>8 DEF Beside
<1> QED
  BY <1>7, <1>10, <1>11 DEF line, games

\* The seasons of a page, one after the other, each in its place.
LEMMA SeasonsRanked ==
  ASSUME NEW S, IsFiniteSet(S), \A k \in S : k[1] \in Int /\ k[2] \in LINE_GAME_TYPES,
         \A k \in S, m \in S : k[1] = m[1] /\ k[2] = m[2] => k = m
  PROVE  LET s == Ranked(S, LAMBDA k, m : k[1] > m[1] \/ (k[1] = m[1] /\ k[2] = "regular" /\ m[2] # "regular"))
         IN Len(s) = Cardinality(S) /\ DOMAIN s = 1..Cardinality(S) /\ \A i \in DOMAIN s : s[i] \in S
<1> DEFINE before(k, m) == k[1] > m[1] \/ (k[1] = m[1] /\ k[2] = "regular" /\ m[2] # "regular")
           p == [x \in S |-> 1 + Cardinality({y \in S : before(y, x)})]
<1>1. PICK rel : rel = {x \in S \X S : before(x[1], x[2])}
  OBVIOUS
<1>2. Orders(rel, S)
  <2>1. \A k \in S, m \in S : <<k, m>> \in rel <=> before(k, m)
    BY <1>1
  <2>2. ASSUME NEW k \in S, NEW m \in S
        PROVE  k = m \/ <<k, m>> \in rel \/ <<m, k>> \in rel
    BY <2>1 DEF LINE_GAME_TYPES
  <2>3. ASSUME NEW k \in S, NEW m \in S, NEW n \in S, <<k, m>> \in rel, <<m, n>> \in rel
        PROVE  <<k, n>> \in rel
    <3>1. before(k, m) /\ before(m, n)
      BY <2>1, <2>3
    <3>2. before(k, n)
      BY <3>1
    <3> QED
      BY <2>1, <3>2
  <2> QED
    BY <2>1, <2>2, <2>3 DEF Orders
<1>3. PICK q : q = [x \in S |-> 1 + Cardinality({y \in S : <<y, x>> \in rel})]
  OBVIOUS
<1>4. p = q
  <2>1. \A x \in S : {y \in S : before(y, x)} = {y \in S : <<y, x>> \in rel}
    BY <1>1
  <2> QED
    BY <1>3, <2>1
<1>5. InOrder(rel, S) = [i \in 1..Cardinality(S) |-> CHOOSE x \in S : q[x] = i]
  BY <1>3 DEF Ranked, InOrder
<1> HIDE DEF p
<1>6. InOrder(rel, S) = [i \in 1..Cardinality(S) |-> CHOOSE x \in S : p[x] = i]
  BY <1>4, <1>5
<1>7. InOrder(rel, S) = Ranked(S, before)
  BY <1>6 DEF Ranked, p
<1> HIDE DEF before
<1>8. LET s == InOrder(rel, S)
      IN Len(s) = Cardinality(S) /\ DOMAIN s = 1..Cardinality(S) /\ \A i \in DOMAIN s : s[i] \in S
  BY <1>2, Listing
<1> QED
  BY <1>7, <1>8 DEF before

\* The teams of a season line are those of its lines.
LEMMA TeamsAreListed ==
  ASSUME NEW d, Stored(d), NEW player, NEW key
  PROVE  ToSet(season_teams(d, player, key))
           = {l.team_id : l \in {m \in CountedLines(d, player) : <<Game(d, m).season, Game(d, m).game_type>> = key}}
<1>1. PICK lines : lines = {l \in CountedLines(d, player) : <<Game(d, l).season, Game(d, l).game_type>> = key}
  OBVIOUS
<1>2. PICK teams : teams = {l.team_id : l \in lines}
  OBVIOUS
<1>3. PICK first : first = [t \in teams |-> CHOOSE l \in lines : l.team_id = t /\ \A m \in lines :
                              m.team_id = t /\ m # l => Earlier(Game(d, l), Game(d, m))]
  OBVIOUS
<1>4. PICK earlier : earlier = {x \in lines \X lines : Earlier(Game(d, x[1]), Game(d, x[2]))}
  OBVIOUS
<1>5. PICK rel : rel = {x \in teams \X teams : Earlier(Game(d, first[x[1]]), Game(d, first[x[2]]))}
  OBVIOUS
<1>6. lines \in SUBSET d.lines /\ \A l \in lines : l.player_id = player
  BY <1>1 DEF CountedLines
<1>7. IsFiniteSet(lines) /\ Orders(earlier, lines)
  <2>1. IsFiniteSet(lines)
    BY <1>6, Fewer DEF Stored
  <2>2. Orders(earlier, lines)
    BY <1>4, <1>6, LinesInOrder
  <2> QED
    BY <2>1, <2>2
<1>8. ASSUME NEW t \in teams
      PROVE  first[t] \in lines /\ first[t].team_id = t
  <2>1. PICK its : its = {l \in lines : l.team_id = t}
    OBVIOUS
  <2>2. its # {} /\ its \in SUBSET lines
    BY <1>2, <2>1
  <2>3. IsFiniteSet(its) /\ Orders(earlier, its)
    BY <1>7, <2>2, Fewer DEF Orders
  <2>4. PICK l \in its : \A m \in its : <<m, l>> \notin earlier
    BY <2>2, <2>3, HasFirst
  <2>5. \A m \in its : m # l => Earlier(Game(d, l), Game(d, m))
    BY <1>4, <2>3, <2>4 DEF Orders
  <2>6. l \in lines /\ l.team_id = t /\ \A m \in lines : m.team_id = t /\ m # l => Earlier(Game(d, l), Game(d, m))
    BY <2>1, <2>5
  <2> QED
    BY <1>3, <2>6
<1>9. Orders(rel, teams)
  <2>1. \A t \in teams, u \in teams : <<t, u>> \in rel <=> <<first[t], first[u]>> \in earlier
    BY <1>4, <1>5, <1>8
  <2>2. \A t \in teams, u \in teams : t = u \/ first[t] # first[u]
    BY <1>8
  <2> QED
    BY <1>7, <1>8, <2>1, <2>2 DEF Orders
<1>10. IsFiniteSet(teams)
  <2>1. PICK team : team = [l \in lines |-> l.team_id]
    OBVIOUS
  <2>2. IsFiniteSet({team[l] : l \in lines})
    BY <1>7, ImageIsFinite
  <2>3. teams = {team[l] : l \in lines}
    BY <1>2, <2>1
  <2> QED
    BY <2>2, <2>3
<1>11. season_teams(d, player, key) = InOrder(rel, teams)
  <2>1. PICK p : p = [x \in teams |-> 1 + Cardinality({y \in teams : Earlier(Game(d, first[y]), Game(d, first[x]))})]
    OBVIOUS
  <2>2. PICK q : q = [x \in teams |-> 1 + Cardinality({y \in teams : <<y, x>> \in rel})]
    OBVIOUS
  <2>3. p = q
    <3>1. \A x \in teams : {y \in teams : Earlier(Game(d, first[y]), Game(d, first[x]))} = {y \in teams : <<y, x>> \in rel}
      BY <1>5
    <3> QED
      BY <2>1, <2>2, <3>1
  <2>4. InOrder(rel, teams) = [i \in 1..Cardinality(teams) |-> CHOOSE x \in teams : q[x] = i]
    BY <2>2 DEF Ranked, InOrder
  <2>5. season_teams(d, player, key) = [i \in 1..Cardinality(teams) |-> CHOOSE x \in teams : p[x] = i]
    <3> DEFINE chosen(t) == CHOOSE l \in lines : l.team_id = t /\ \A m \in lines :
                              m.team_id = t /\ m # l => Earlier(Game(d, l), Game(d, m))
               r == [x \in teams |-> 1 + Cardinality({y \in teams : Earlier(Game(d, chosen(y)), Game(d, chosen(x)))})]
    <3>1. season_teams(d, player, key) = [i \in 1..Cardinality(teams) |-> CHOOSE x \in teams : r[x] = i]
      BY <1>1, <1>2 DEF season_teams, Ranked
    <3>2. \A t \in teams : chosen(t) = first[t]
      BY <1>3
    <3> HIDE DEF chosen
    <3>3. \A x \in teams : {y \in teams : Earlier(Game(d, chosen(y)), Game(d, chosen(x)))}
                             = {y \in teams : Earlier(Game(d, first[y]), Game(d, first[x]))}
      BY <3>2
    <3>4. r = p
      BY <2>1, <3>3
    <3> HIDE DEF r
    <3> QED
      BY <3>1, <3>4
  <2> QED
    BY <2>3, <2>4, <2>5
<1>12. ToSet(InOrder(rel, teams)) = teams
  <2>1. PICK s : s = InOrder(rel, teams)
    OBVIOUS
  <2>2. DOMAIN s = 1..Cardinality(teams) /\ \A i \in DOMAIN s : s[i] \in teams
    BY <1>9, <1>10, <2>1, Listing
  <2>3. \A t \in teams : Place(rel, teams, t) \in DOMAIN s /\ s[Place(rel, teams, t)] = t
    BY <1>9, <1>10, <2>1, <2>2, Listing, Places
  <2> QED
    BY <2>1, <2>2, <2>3 DEF ToSet
<1> QED
  BY <1>1, <1>2, <1>11, <1>12

LEMMA MoreThanTwo ==
  ASSUME NEW line, InTens(line) >= 3
  PROVE  InTens(line) >= 2
<1>1. PICK stats : stats = {"points", "rebounds", "assists", "steals", "blocks"}
  OBVIOUS
<1>2. IsFiniteSet(stats)
  <2>1. IsFiniteSet({})
    BY FS_EmptySet
  <2>2. IsFiniteSet({} \cup {"points"})
    BY <2>1, FS_AddElement
  <2>3. IsFiniteSet(({} \cup {"points"}) \cup {"rebounds"})
    BY <2>2, FS_AddElement
  <2>4. IsFiniteSet((({} \cup {"points"}) \cup {"rebounds"}) \cup {"assists"})
    BY <2>3, FS_AddElement
  <2>5. IsFiniteSet(((({} \cup {"points"}) \cup {"rebounds"}) \cup {"assists"}) \cup {"steals"})
    BY <2>4, FS_AddElement
  <2>6. IsFiniteSet((((({} \cup {"points"}) \cup {"rebounds"}) \cup {"assists"}) \cup {"steals"}) \cup {"blocks"})
    BY <2>5, FS_AddElement
  <2>7. stats = (((({} \cup {"points"}) \cup {"rebounds"}) \cup {"assists"}) \cup {"steals"}) \cup {"blocks"}
    BY <1>1
  <2> QED
    BY <2>6, <2>7
<1>3. Cardinality({c \in stats : line[c] >= Tens}) \in Nat
  BY <1>2, Fewer
<1>4. InTens(line) \in Nat
  BY <1>1, <1>3 DEF InTens
<1> QED
  BY <1>4

\* The lines of the keys of a page.
LEMMA KeysAre ==
  ASSUME NEW d, Stored(d), NEW player
  PROVE  /\ IsFiniteSet(CountedLines(d, player)) /\ IsFiniteSet(SeasonKeys(d, player))
         /\ \A k \in SeasonKeys(d, player) :
              /\ k = <<k[1], k[2]>> /\ k[1] \in Int /\ k[2] \in LINE_GAME_TYPES
              /\ {l \in CountedLines(d, player) : <<Game(d, l).season, Game(d, l).game_type>> = k}
                   = LinesOf(d, player, k[1], k[2])
              /\ LinesOf(d, player, k[1], k[2]) # {}
         /\ \A l \in CountedLines(d, player) : <<Game(d, l).season, Game(d, l).game_type>> \in SeasonKeys(d, player)
<1>1. PICK counted : counted = CountedLines(d, player)
  OBVIOUS
<1>2. PICK key : key = [l \in counted |-> <<Game(d, l).season, Game(d, l).game_type>>]
  OBVIOUS
<1>3. SeasonKeys(d, player) = {key[l] : l \in counted}
  BY <1>1, <1>2 DEF SeasonKeys
<1>4. IsFiniteSet(counted) /\ counted \in SUBSET d.lines
  BY <1>1, Fewer DEF Stored, CountedLines
<1>5. ASSUME NEW k \in SeasonKeys(d, player)
      PROVE  /\ k = <<k[1], k[2]>> /\ k[1] \in Int /\ k[2] \in LINE_GAME_TYPES
             /\ {l \in counted : key[l] = k} = LinesOf(d, player, k[1], k[2])
             /\ LinesOf(d, player, k[1], k[2]) # {}
  <2>1. PICK l \in counted : k = key[l]
    BY <1>3
  <2>2. k = <<Game(d, l).season, Game(d, l).game_type>>
    BY <1>2, <2>1
  <2>3. Game(d, l).season \in Int
    BY <1>4, GameIs, GameHas
  <2>4. Game(d, l).game_type \in LINE_GAME_TYPES
    BY <1>1 DEF CountedLines
  <2>5. k = <<k[1], k[2]>> /\ k[1] \in Int /\ k[2] \in LINE_GAME_TYPES
    BY <2>2, <2>3, <2>4
  <2>6. \A m \in counted : key[m] = k <=> Game(d, m).season = k[1] /\ Game(d, m).game_type = k[2]
    BY <1>2, <2>2
  <2>7. {m \in counted : key[m] = k} = LinesOf(d, player, k[1], k[2])
    BY <1>1, <2>5, <2>6 DEF LinesOf, CountedLines
  <2> QED
    BY <2>1, <2>5, <2>7
<1>6. \A k \in SeasonKeys(d, player) :
        {l \in counted : <<Game(d, l).season, Game(d, l).game_type>> = k} = {l \in counted : key[l] = k}
  BY <1>2
<1>7. IsFiniteSet({key[l] : l \in counted})
  BY <1>4, ImageIsFinite
<1>8. \A l \in counted : <<Game(d, l).season, Game(d, l).game_type>> \in SeasonKeys(d, player)
  BY <1>2, <1>3
<1> QED
  BY <1>1, <1>3, <1>4, <1>5, <1>6, <1>7, <1>8

\* Every season line of a player's page is one row of the table, saying the same.
LEMMA SeasonsSay ==
  ASSUME NEW d, Stored(d), SeasonsAre(d.seasons), SeasonsAddUp(d, d.seasons), NEW player
  PROVE  SeasonsAgree({r \in d.seasons : r.player_id = player}, player_detail(d, player).seasons)
<1>1. PICK rows : rows = {r \in d.seasons : r.player_id = player}
  OBVIOUS
<1>2. PICK keys : keys = SeasonKeys(d, player)
  OBVIOUS
<1>3. PICK s : s = Ranked(keys, LAMBDA k, m : k[1] > m[1] \/ (k[1] = m[1] /\ k[2] = "regular" /\ m[2] # "regular"))
  OBVIOUS
<1>4. PICK seasons : seasons = player_detail(d, player).seasons
  OBVIOUS
<1>5. IsFiniteSet(keys) /\ \A k \in keys : k = <<k[1], k[2]>> /\ k[1] \in Int /\ k[2] \in LINE_GAME_TYPES
  BY <1>2, KeysAre
<1>6. Len(s) = Cardinality(keys) /\ DOMAIN s = 1..Cardinality(keys) /\ \A i \in DOMAIN s : s[i] \in keys
  <2>1. \A k \in keys, m \in keys : k[1] = m[1] /\ k[2] = m[2] => k = m
    BY <1>5
  <2> QED
    BY <1>3, <1>5, <2>1, SeasonsRanked
<1>7. seasons = [i \in DOMAIN s |->
                   [season |-> s[i][1], game_type |-> s[i][2], teams |-> season_teams(d, player, s[i]),
                    line |-> stat_line({l \in CountedLines(d, player) :
                                          <<Game(d, l).season, Game(d, l).game_type>> = s[i]})]]
  BY <1>2, <1>3, <1>4 DEF player_detail
<1>8. ASSUME NEW r \in rows
      PROVE  /\ <<r.season, r.game_type>> \in keys
             /\ IsTotal(r, LinesOf(d, player, r.season, r.game_type))
  <2>1. IsTotal(r, LinesOf(d, player, r.season, r.game_type)) /\ r.game_type \in LINE_GAME_TYPES
    BY <1>1 DEF SeasonsAddUp
  <2>2. PICK l : l \in LinesOf(d, player, r.season, r.game_type)
    BY <2>1 DEF IsTotal
  <2>3. l \in CountedLines(d, player) /\ Game(d, l).season = r.season /\ Game(d, l).game_type = r.game_type
    BY <2>1, <2>2 DEF LinesOf, CountedLines
  <2>4. <<Game(d, l).season, Game(d, l).game_type>> \in keys
    BY <1>2, <2>3, KeysAre
  <2> QED
    BY <2>1, <2>3, <2>4
<1>9. ASSUME NEW k \in keys
      PROVE  \E r \in rows : r.season = k[1] /\ r.game_type = k[2]
  <2>1. k[2] \in LINE_GAME_TYPES
    BY <1>5
  <2>2. PICK l : l \in LinesOf(d, player, k[1], k[2])
    BY <1>2, KeysAre
  <2>3. l \in d.lines /\ played(l) /\ l.player_id = player /\ Game(d, l).season = k[1] /\ Game(d, l).game_type = k[2]
    BY <2>2 DEF LinesOf
  <2>4. Game(d, l).game_type \in LINE_GAME_TYPES
    BY <2>1, <2>3
  <2>5. PICK r \in d.seasons : /\ r.player_id = l.player_id /\ r.season = Game(d, l).season
                               /\ r.game_type = Game(d, l).game_type
    BY <2>3, <2>4 DEF SeasonsAddUp
  <2> QED
    BY <1>1, <2>3, <2>5
<1>10. Cardinality(rows) = Cardinality(keys)
  <2>1. PICK f : f = [r \in rows |-> <<r.season, r.game_type>>]
    OBVIOUS
  <2>2. DOMAIN f = rows /\ \A r \in rows : f[r] = <<r.season, r.game_type>>
    BY <2>1
  <2>3. IsFiniteSet(rows)
    BY <1>1, Fewer DEF SeasonsAre
  <2>4. \A r \in DOMAIN f, q \in DOMAIN f : f[r] = f[q] => r = q
    <3>1. ASSUME NEW r \in rows, NEW q \in rows, f[r] = f[q]
          PROVE  r = q
      <4>1. r.season = q.season /\ r.game_type = q.game_type
        BY <2>2, <3>1
      <4> QED
        BY <1>1, <4>1 DEF SeasonsAre
    <3> QED
      BY <2>2, <3>1
  <2>5. {f[r] : r \in DOMAIN f} = keys
    <3>1. \A r \in rows : f[r] \in keys
      BY <1>8, <2>2
    <3>2. ASSUME NEW k \in keys
          PROVE  \E r \in rows : f[r] = k
      <4>1. PICK r \in rows : r.season = k[1] /\ r.game_type = k[2]
        BY <1>9
      <4>2. f[r] = <<k[1], k[2]>> /\ k = <<k[1], k[2]>>
        BY <1>5, <2>2, <4>1
      <4> QED
        BY <4>2
    <3> QED
      BY <2>2, <3>1, <3>2
  <2>6. IsFiniteSet(DOMAIN f)
    BY <2>2, <2>3
  <2> QED
    BY <2>2, <2>4, <2>5, <2>6, CountedByImage
<1>11. ASSUME NEW i \in DOMAIN seasons
       PROVE  IsTotalled({r \in rows : r.season = seasons[i].season /\ r.game_type = seasons[i].game_type}, seasons[i])
  <2>1. PICK k : k = s[i]
    OBVIOUS
  <2>2. PICK shown : shown = seasons[i]
    OBVIOUS
  <2>3. PICK lines : lines = LinesOf(d, player, k[1], k[2])
    OBVIOUS
  <2>4. k \in keys /\ i \in DOMAIN s
    BY <1>6, <1>7, <2>1
  <2>5. {l \in CountedLines(d, player) : <<Game(d, l).season, Game(d, l).game_type>> = k} = lines
    BY <1>2, <2>3, <2>4, KeysAre
  <2>6. /\ shown.season = k[1] /\ shown.game_type = k[2] /\ shown.teams = season_teams(d, player, k)
        /\ shown.line = stat_line(lines)
    BY <1>7, <2>1, <2>2, <2>4, <2>5
  <2>7. PICK its : its = {r \in rows : r.season = shown.season /\ r.game_type = shown.game_type}
    OBVIOUS
  <2>8. PICK r \in rows : r.season = k[1] /\ r.game_type = k[2]
    BY <1>9, <2>4
  <2>9. its = {r}
    <3>1. \A q \in rows : q.season = k[1] /\ q.game_type = k[2] => q = r
      BY <1>1, <2>8 DEF SeasonsAre
    <3> QED
      BY <2>6, <2>7, <2>8, <3>1
  <2>10. Cardinality(its) = 1
    BY <2>9, FS_Singleton
  <2>11. IsTotal(r, lines)
    BY <1>8, <2>3, <2>8
  <2>12. \A l \in lines : played(l)
    BY <2>3 DEF LinesOf
  <2>13. /\ shown.line.games_played = Cardinality(lines)
         /\ \A c \in {"points", "seconds_played", "defensive_rebounds"} : shown.line[c] = ColumnTotal(lines, c)
    BY <2>6, <2>12, LineSays
  <2>14. {"points", "seconds_played", "defensive_rebounds"} \subseteq SummedColumns
    BY DEF SummedColumns, COUNTING_STATS
  <2>15. r.games = shown.line.games_played
    BY <2>11, <2>13 DEF IsTotal
  <2>16. \A c \in {"points", "seconds_played", "defensive_rebounds"} : r[c] = shown.line[c]
    BY <2>11, <2>13, <2>14 DEF IsTotal
  <2>17. r.team_id \in ToSet(shown.teams)
    <3>1. PICK l \in lines : r.team_id = l.team_id
      BY <2>11 DEF IsTotal
    <3>2. l \in CountedLines(d, player) /\ <<Game(d, l).season, Game(d, l).game_type>> = k
      BY <2>5, <3>1
    <3>3. l.team_id \in {m.team_id : m \in {n \in CountedLines(d, player) : <<Game(d, n).season, Game(d, n).game_type>> = k}}
      BY <3>2
    <3>4. l.team_id \in ToSet(season_teams(d, player, k))
      BY <3>3, TeamsAreListed
    <3> QED
      BY <2>6, <3>1, <3>4
  <2>18. r.triple_doubles <= r.double_doubles
    <3>1. IsFiniteSet(lines)
      BY <2>3, Fewer DEF LinesOf, Stored
    <3>2. IsFiniteSet(AtLeast(lines, 2)) /\ AtLeast(lines, 3) \in SUBSET AtLeast(lines, 2)
      BY <3>1, Fewer, MoreThanTwo DEF AtLeast
    <3>3. Cardinality(AtLeast(lines, 3)) <= Cardinality(AtLeast(lines, 2))
      BY <3>2, FS_Subset
    <3> QED
      BY <2>11, <3>3 DEF IsTotal
  <2> QED
    BY <2>2, <2>7, <2>9, <2>10, <2>15, <2>16, <2>17, <2>18 DEF IsTotalled
<1>12. Len(seasons) = Len(s)
  <2>1. DOMAIN seasons = 1..Cardinality(keys)
    BY <1>6, <1>7
  <2>2. Cardinality(keys) \in Nat
    BY <1>5, FS_CardinalityType
  <2> QED
    BY <1>6, <2>1, <2>2
<1>13. SeasonsAgree(rows, seasons)
  BY <1>6, <1>10, <1>11, <1>12 DEF SeasonsAgree
<1> QED
  BY <1>1, <1>4, <1>13

\* What the rows of one per player say of a player.
LEMMA ValueOfOne ==
  ASSUME NEW S, NEW row, NEW player, NEW n,
         \A q \in S : {"value", "player_id"} \subseteq DOMAIN row[q] /\ row[q].player_id = q,
         player \in S => row[player].value = Whole(n)
  PROVE  ValuesOf(RowsOf(row, S), player) = IF player \in S THEN {n} ELSE {}
<1>1. PICK listed : listed = [q \in S |-> Columns(row[q])]
  OBVIOUS
<1>2. RowsOf(row, S) = {listed[q] : q \in S}
  BY <1>1 DEF RowsOf
<1>3. \A q \in S : listed[q].player_id = q
  BY <1>1, ColumnsHas
<1>4. player \in S => listed[player].value = Whole(n)
  BY <1>1, ColumnsHas
<1>5. player \in S => listed[player].value[1] = n
  BY <1>4 DEF Whole
<1>6. {s \in RowsOf(row, S) : s.player_id = player} = IF player \in S THEN {listed[player]} ELSE {}
  BY <1>2, <1>3
<1> QED
  BY <1>5, <1>6 DEF ValuesOf

\* A player's rows of a type count what the player's lines of the type do.
LEMMA CareerSums ==
  ASSUME NEW d, Stored(d), SeasonsAre(d.seasons), SeasonsAddUp(d, d.seasons), NEW player, NEW type \in LINE_GAME_TYPES,
         NEW rows, rows = RowsOfType(d, player, type),
         NEW lines, lines = LinesOfType(d, player, type)
  PROVE  /\ IsFiniteSet(lines) /\ (rows = {} <=> lines = {})
         /\ ColumnTotal(rows, "games") = Cardinality(lines)
         /\ ColumnTotal(rows, "triple_doubles") = Cardinality(AtLeast(lines, 3))
<1> USE DEF RowsOfType, LinesOfType
<1>1. IsFiniteSet(rows) /\ IsFiniteSet(lines)
  BY Fewer DEF SeasonsAre, Stored
<1>2. PICK of : of = [r \in rows |-> LinesOf(d, player, r.season, type)]
  OBVIOUS
<1>3. ASSUME NEW r \in rows
      PROVE  IsTotal(r, of[r]) /\ of[r] = LinesOf(d, player, r.season, type) /\ of[r] \in SUBSET lines
  <2>1. r \in d.seasons /\ r.player_id = player /\ r.game_type = type
    OBVIOUS
  <2>2. of[r] = LinesOf(d, player, r.season, type)
    BY <1>2
  <2>3. IsTotal(r, LinesOf(d, r.player_id, r.season, r.game_type))
    BY <2>1 DEF SeasonsAddUp
  <2>4. of[r] \in SUBSET lines
    BY <2>2 DEF LinesOf
  <2> QED
    BY <2>1, <2>2, <2>3, <2>4
<1>4. ASSUME NEW r \in rows, NEW s \in rows, r # s
      PROVE  of[r] \cap of[s] = {}
  <2>1. r.season # s.season
    BY <1>4 DEF SeasonsAre
  <2> QED
    BY <1>3, <2>1 DEF LinesOf
<1>5. ASSUME NEW l \in lines
      PROVE  \E r \in rows : l \in of[r]
  <2>1. l \in d.lines /\ played(l) /\ l.player_id = player /\ Game(d, l).game_type = type
    OBVIOUS
  <2>2. PICK r \in d.seasons : /\ r.player_id = l.player_id /\ r.season = Game(d, l).season
                               /\ r.game_type = Game(d, l).game_type
    BY <2>1 DEF SeasonsAddUp
  <2>3. r \in rows
    BY <2>1, <2>2
  <2>4. l \in LinesOf(d, player, r.season, type)
    BY <2>1, <2>2 DEF LinesOf
  <2> QED
    BY <1>3, <2>3, <2>4
<1>6. UNION {of[r] : r \in rows} = lines
  BY <1>3, <1>5
<1>7. rows = {} <=> lines = {}
  BY <1>3, <1>5 DEF IsTotal
<1>8. ColumnTotal(rows, "games") = Cardinality(lines)
  <2>1. PICK count : count = [r \in rows |-> r["games"]]
    OBVIOUS
  <2>2. \A r \in rows : IsFiniteSet(of[r]) /\ count[r] = Cardinality(of[r])
    BY <1>1, <1>3, <2>1, Fewer DEF IsTotal
  <2>3. \A r \in rows, s \in rows : r = s \/ of[r] \cap of[s] = {}
    BY <1>4
  <2>4. SumOver(count, rows) = Cardinality(AllOf(of, rows))
    BY <1>1, <2>2, <2>3, CountedInParts
  <2>5. [r \in rows |-> count[r]] = [r \in rows |-> r["games"]]
    BY <2>1
  <2> QED
    BY <1>6, <2>4, <2>5 DEF ColumnTotal, SumOver, AllOf
<1>9. ColumnTotal(rows, "triple_doubles") = Cardinality(AtLeast(lines, 3))
  <2>1. PICK count : count = [r \in rows |-> r["triple_doubles"]]
    OBVIOUS
  <2>2. PICK part : part = [r \in rows |-> AtLeast(of[r], 3)]
    OBVIOUS
  <2>3. \A r \in rows : IsFiniteSet(part[r]) /\ count[r] = Cardinality(part[r])
    <3>1. ASSUME NEW r \in rows
          PROVE  IsFiniteSet(part[r]) /\ count[r] = Cardinality(part[r])
      <4>1. part[r] = AtLeast(of[r], 3) /\ count[r] = r.triple_doubles
        BY <2>1, <2>2
      <4>2. IsFiniteSet(AtLeast(of[r], 3))
        BY <1>1, <1>3, Fewer DEF AtLeast
      <4>3. r.triple_doubles = Cardinality(AtLeast(of[r], 3))
        BY <1>3 DEF IsTotal
      <4> QED
        BY <4>1, <4>2, <4>3
    <3> QED
      BY <3>1
  <2>4. \A r \in rows, s \in rows : r = s \/ part[r] \cap part[s] = {}
    BY <1>4, <2>2 DEF AtLeast
  <2>5. UNION {part[r] : r \in rows} = AtLeast(lines, 3)
    <3>1. \A r \in rows : part[r] \subseteq AtLeast(lines, 3)
      BY <1>3, <2>2 DEF AtLeast
    <3>2. \A l \in AtLeast(lines, 3) : \E r \in rows : l \in part[r]
      BY <1>5, <2>2 DEF AtLeast
    <3> QED
      BY <3>1, <3>2
  <2>6. SumOver(count, rows) = Cardinality(AllOf(part, rows))
    BY <1>1, <2>3, <2>4, CountedInParts
  <2>7. [r \in rows |-> count[r]] = [r \in rows |-> r["triple_doubles"]]
    BY <2>1
  <2> QED
    BY <2>5, <2>6, <2>7 DEF ColumnTotal, SumOver, AllOf
<1> QED
  BY <1>1, <1>7, <1>8, <1>9

\* A career total in the library is the sum of the player's rows, if there is one.
LEMMA CareerSays ==
  ASSUME NEW d, NEW player, NEW column, column \notin {"minutes"} \cup Made, NEW type,
         NEW rows, rows = RowsOfType(d, player, type)
  PROVE  ValuesOf(careers(d, CareerTotal(column, type)).rows, player)
           = IF rows # {} /\ ColumnTotal(rows, column) > 0 THEN {ColumnTotal(rows, column)} ELSE {}
<1> USE DEF RowsOfType
<1>1. PICK spec : spec = CareerTotal(column, type)
  OBVIOUS
<1>2. spec.column = column /\ spec.measure = "total" /\ spec.type = type
  BY <1>1 DEF CareerTotal, Career, Spec0
<1> DEFINE of(p) == {r \in d.seasons : r.player_id = p /\ r.game_type = spec.type}
           total(p, k) == SumOf(of(p), LAMBDA r : r[k])
           figure(p) == IF spec.column = "minutes" THEN total(p, "seconds_played") \div 60 ELSE total(p, spec.column)
           attempted(p) == total(p, Attempted(spec.column))
           listed(p) == /\ of(p) # {}
                        /\ CASE spec.measure = "total" -> figure(p) > 0
                             [] spec.measure = "pct" -> attempted(p) >= spec.minimum
                             [] spec.measure = "average" -> total(p, "games") >= CAREER_AVERAGE_GAMES
           value(p) == CASE spec.measure = "total" -> Whole(figure(p))
                         [] spec.measure = "pct" -> <<total(p, spec.column), attempted(p)>>
                         [] OTHER -> <<total(p, spec.column), total(p, "games")>>
           made(p) == IF spec.column \in Made THEN total(p, spec.column) ELSE Null
           tried(p) == IF spec.column \in Made THEN attempted(p) ELSE Null
           S == {p \in {r.player_id : r \in d.seasons} : listed(p)}
           row == [p \in S |-> [value |-> value(p), player_id |-> p, made |-> made(p), attempted |-> tried(p)]]
           c == careers(d, spec)
<1>3. c.rows = {Columns([value |-> value(p), player_id |-> p, made |-> made(p), attempted |-> tried(p)]) : p \in S}
  BY DEF careers
<1>4. of(player) = rows
  BY <1>2
<1>5. total(player, column) = ColumnTotal(rows, column)
  <2> HIDE DEF of
  <2> QED
    BY <1>4 DEF SumOf, ColumnTotal
<1>6. player \in S <=> rows # {} /\ ColumnTotal(rows, column) > 0
  <2>1. rows # {} => player \in {r.player_id : r \in d.seasons}
    OBVIOUS
  <2>2. listed(player) <=> rows # {} /\ figure(player) > 0
    <3> HIDE DEF of, figure, attempted, total
    <3> QED
      BY <1>2, <1>4
  <2>3. figure(player) = ColumnTotal(rows, column)
    <3> HIDE DEF total
    <3> QED
      BY <1>2, <1>5
  <2> HIDE DEF listed, figure
  <2> QED
    BY <2>1, <2>2, <2>3
<1>7. value(player) = Whole(ColumnTotal(rows, column))
  <2>1. figure(player) = ColumnTotal(rows, column)
    <3> HIDE DEF total
    <3> QED
      BY <1>2, <1>5
  <2> HIDE DEF figure, attempted, total
  <2> QED
    BY <1>2, <2>1
<1> HIDE DEF S, value, made, tried
<1>8. c.rows = RowsOf(row, S)
  <2> HIDE DEF c
  <2> QED
    BY <1>3 DEF RowsOf
<1>9. \A q \in S : {"value", "player_id"} \subseteq DOMAIN row[q] /\ row[q].player_id = q /\ row[q].value = value(q)
  OBVIOUS
<1> HIDE DEF row, c
<1>10. ValuesOf(RowsOf(row, S), player) = IF player \in S THEN {ColumnTotal(rows, column)} ELSE {}
  BY <1>7, <1>9, ValueOfOne
<1> QED
  BY <1>1, <1>6, <1>8, <1>10 DEF c

\* The career record of triple-doubles counts the games of the lines that are.
LEMMA TriplesSay ==
  ASSUME NEW d, Stored(d), NEW player,
         NEW lines, lines = LinesOfType(d, player, REGULAR)
  PROVE  ValuesOf(career_triple_doubles(d).rows, player)
           = IF AtLeast(lines, 3) # {} THEN {Cardinality(AtLeast(lines, 3))} ELSE {}
<1> DEFINE its(p) == {m \in d.lines : /\ m.player_id = p /\ played(m) /\ TRIPLE_DOUBLE(m)
                                      /\ Game(d, m).game_type = REGULAR}
           games(p) == {l.game_id : l \in its(p)}
           S == {q \in {l.player_id : l \in d.lines} : games(q) # {}}
           row == [p \in S |-> [value |-> Whole(Cardinality(games(p))), player_id |-> p]]
<1>1. career_triple_doubles(d).rows = {Columns([value |-> Whole(Cardinality(games(p))), player_id |-> p]) : p \in S}
  BY DEF career_triple_doubles
<1>2. PICK triples : triples = AtLeast(lines, 3)
  OBVIOUS
<1>3. its(player) = triples
  BY <1>2 DEF AtLeast, LinesOfType, TRIPLE_DOUBLE
<1>4. IsFiniteSet(triples) /\ triples \in SUBSET d.lines /\ \A l \in triples : l.player_id = player
  BY <1>2, Fewer DEF AtLeast, LinesOfType, Stored
<1> HIDE DEF its
<1>5. Cardinality(games(player)) = Cardinality(triples) /\ (games(player) = {} <=> triples = {})
  <2>1. PICK f : f = [l \in triples |-> l.game_id]
    OBVIOUS
  <2>2. DOMAIN f = triples /\ \A l \in triples : f[l] = l.game_id
    BY <2>1
  <2>3. {f[l] : l \in DOMAIN f} = games(player)
    BY <1>3, <2>2
  <2>4. \A l \in DOMAIN f, m \in DOMAIN f : f[l] = f[m] => l = m
    BY <1>4, <2>2 DEF Stored
  <2>5. IsFiniteSet(DOMAIN f)
    BY <1>4, <2>2
  <2>6. Cardinality({f[l] : l \in DOMAIN f}) = Cardinality(DOMAIN f)
    BY <2>4, <2>5, CountedByImage
  <2> QED
    BY <1>3, <2>2, <2>3, <2>6
<1>6. player \in S <=> triples # {}
  <2>1. triples # {} => player \in {l.player_id : l \in d.lines}
    BY <1>4
  <2> HIDE DEF games
  <2> QED
    BY <1>5, <2>1
<1> HIDE DEF games, S
<1>7. career_triple_doubles(d).rows = RowsOf(row, S)
  BY <1>1 DEF RowsOf
<1>8. \A q \in S : /\ {"value", "player_id"} \subseteq DOMAIN row[q] /\ row[q].player_id = q
                   /\ row[q].value = Whole(Cardinality(games(q)))
  OBVIOUS
<1> HIDE DEF row
<1>9. ValuesOf(RowsOf(row, S), player) = IF player \in S THEN {Cardinality(triples)} ELSE {}
  BY <1>5, <1>8, ValueOfOne
<1> QED
  BY <1>2, <1>6, <1>7, <1>9

\* The library's totals of a player are those of the player's lines.
LEMMA TotalsSay ==
  ASSUME NEW d, Stored(d), SeasonsAre(d.seasons), SeasonsAddUp(d, d.seasons), NEW player
  PROVE  /\ ValuesOf(career_triple_doubles(d).rows, player)
              = ValuesOf(careers(d, CareerTotal("triple_doubles", REGULAR)).rows, player)
         /\ ValuesOf(careers(d, CareerTotal("games", "playoffs")).rows, player)
              = {player_detail(d, player).career_playoffs.games_played} \ {0}
<1>1. {"games", "triple_doubles"} \cap ({"minutes"} \cup Made) = {} /\ {REGULAR, "playoffs"} = LINE_GAME_TYPES
  BY StatsAre DEF LINE_GAME_TYPES, REGULAR
<1>2. /\ ValuesOf(career_triple_doubles(d).rows, player)
           = ValuesOf(careers(d, CareerTotal("triple_doubles", REGULAR)).rows, player)
  <2>1. PICK rows : rows = RowsOfType(d, player, REGULAR)
    OBVIOUS
  <2>2. PICK lines : lines = LinesOfType(d, player, REGULAR)
    OBVIOUS
  <2>3. /\ IsFiniteSet(lines) /\ (rows = {} <=> lines = {})
        /\ ColumnTotal(rows, "triple_doubles") = Cardinality(AtLeast(lines, 3))
    BY <1>1, <2>1, <2>2, CareerSums
  <2>4. IsFiniteSet(AtLeast(lines, 3)) /\ Cardinality(AtLeast(lines, 3)) \in Nat
        /\ (AtLeast(lines, 3) # {} => lines # {})
    BY <2>3, Fewer DEF AtLeast
  <2>5. Cardinality(AtLeast(lines, 3)) > 0 <=> AtLeast(lines, 3) # {}
    BY <2>4, FS_EmptySet
  <2>6. ValuesOf(careers(d, CareerTotal("triple_doubles", REGULAR)).rows, player)
          = IF rows # {} /\ ColumnTotal(rows, "triple_doubles") > 0 THEN {ColumnTotal(rows, "triple_doubles")} ELSE {}
    BY <1>1, <2>1, CareerSays
  <2>7. ValuesOf(career_triple_doubles(d).rows, player)
          = IF AtLeast(lines, 3) # {} THEN {Cardinality(AtLeast(lines, 3))} ELSE {}
    BY <2>2, TriplesSay
  <2> QED
    BY <2>3, <2>4, <2>5, <2>6, <2>7
<1>3. ValuesOf(careers(d, CareerTotal("games", "playoffs")).rows, player)
        = {player_detail(d, player).career_playoffs.games_played} \ {0}
  <2>1. PICK rows : rows = RowsOfType(d, player, "playoffs")
    OBVIOUS
  <2>2. PICK lines : lines = LinesOfType(d, player, "playoffs")
    OBVIOUS
  <2>3. /\ IsFiniteSet(lines) /\ (rows = {} <=> lines = {})
        /\ ColumnTotal(rows, "games") = Cardinality(lines)
    BY <1>1, <2>1, <2>2, CareerSums
  <2>4. Cardinality(lines) \in Nat /\ (Cardinality(lines) > 0 <=> lines # {})
    BY <2>3, FS_EmptySet, FS_CardinalityType
  <2>5. ValuesOf(careers(d, CareerTotal("games", "playoffs")).rows, player)
          = IF rows # {} /\ ColumnTotal(rows, "games") > 0 THEN {ColumnTotal(rows, "games")} ELSE {}
    BY <1>1, <2>1, CareerSays
  <2>6. {l \in CountedLines(d, player) : Game(d, l).game_type = "playoffs"} = lines
    BY <1>1, <2>2 DEF CountedLines, LinesOfType
  <2>7. player_detail(d, player).career_playoffs = stat_line(lines)
    BY <2>6 DEF player_detail
  <2>8. stat_line(lines).games_played = Cardinality(lines)
    <3>1. \A l \in lines : played(l)
      BY <2>2 DEF LinesOfType
    <3> QED
      BY <3>1, LineSays
  <2> QED
    BY <2>3, <2>4, <2>5, <2>7, <2>8
<1> QED
  BY <1>2, <1>3

-----------------------------------------------------------------------------
(* Records: a streak is a run of results *)

LEMMA LaterOrders ==
  ASSUME NEW d, Stored(d)
  PROVE  /\ \A g \in d.games : ~Later(g, g)
         /\ \A g \in d.games, h \in d.games : g = h \/ Later(g, h) \/ Later(h, g)
         /\ \A g \in d.games, h \in d.games, k \in d.games : Later(g, h) /\ Later(h, k) => Later(g, k)
<1>1. ASSUME NEW g \in d.games
      PROVE  g.id \in Int /\ g.date \in Int
  BY GameHas
<1>2. \A g \in d.games : ~Later(g, g)
  BY <1>1 DEF Later
<1>3. ASSUME NEW g \in d.games, NEW h \in d.games
      PROVE  g = h \/ Later(g, h) \/ Later(h, g)
  <2>1. g.id = h.id => g = h
    BY DEF Stored
  <2> QED
    BY <1>1, <2>1 DEF Later
<1>4. ASSUME NEW g \in d.games, NEW h \in d.games, NEW k \in d.games, Later(g, h), Later(h, k)
      PROVE  Later(g, k)
  <2>1. /\ g.id \in Int /\ g.date \in Int /\ h.id \in Int /\ h.date \in Int /\ k.id \in Int /\ k.date \in Int
    BY <1>1
  <2> QED
    BY <1>4, <2>1 DEF Later
<1> QED
  BY <1>2, <1>3, <1>4

\* The two numberings of the games tell a run from the ones before it.
LEMMA StreakIsRun ==
  ASSUME NEW d, Stored(d), NEW g \in d.games, NEW t
  PROVE  Streak(d, g, t) = Cardinality(RunOf(d.games, g, t))
<1>1. PICK G : G = GamesOfTeam(d.games, g, t)
  OBVIOUS
<1>2. G \in SUBSET d.games /\ IsFiniteSet(G)
  BY <1>1, Fewer DEF GamesOfTeam, Stored
<1> DEFINE number(h, of) == Cardinality({x \in of : ~Later(x, h)})
           run(h) == number(h, G) - number(h, {x \in G : team_won(x, t) = team_won(h, t)})
           alike == {h \in G : team_won(h, t) = team_won(g, t) /\ run(h) = run(g)}
<1>3. Streak(d, g, t) = number(g, alike)
  BY <1>1 DEF Streak, GamesOfTeam
<1>4. ASSUME NEW h \in d.games
      PROVE  run(h) = Cardinality(Others(G, h, t)) /\ IsFiniteSet(Others(G, h, t))
  <2>1. PICK X : X = {x \in G : ~Later(x, h)}
    OBVIOUS
  <2>2. PICK same : same = {x \in {y \in G : team_won(y, t) = team_won(h, t)} : ~Later(x, h)}
    OBVIOUS
  <2>3. PICK other : other = Others(G, h, t)
    OBVIOUS
  <2>4. X = same \cup other /\ same \cap other = {} /\ same \in SUBSET G /\ other \in SUBSET G
    BY <2>1, <2>2, <2>3 DEF Others
  <2>5. IsFiniteSet(same) /\ IsFiniteSet(other)
    BY <1>2, <2>4, Fewer
  <2>6. Cardinality(X) = Cardinality(same) + Cardinality(other) /\ Cardinality(same) \in Nat /\ Cardinality(other) \in Nat
    BY <2>4, <2>5, DisjointSum
  <2>7. run(h) = Cardinality(X) - Cardinality(same)
    BY <2>1, <2>2
  <2> HIDE DEF run
  <2> QED
    BY <2>3, <2>5, <2>6, <2>7
<1> HIDE DEF run
<1>5. ASSUME NEW x \in G, ~Later(x, g), team_won(x, t) = team_won(g, t)
      PROVE  run(x) = run(g) <=> \A y \in G : ~Later(y, g) /\ ~Later(x, y) => team_won(y, t) = team_won(g, t)
  <2>1. PICK A : A = Others(G, x, t)
    OBVIOUS
  <2>2. PICK B : B = Others(G, g, t)
    OBVIOUS
  <2>3. x \in d.games
    BY <1>2
  <2>4. run(x) = Cardinality(A) /\ run(g) = Cardinality(B) /\ IsFiniteSet(B)
    BY <1>4, <2>1, <2>2, <2>3
  <2>5. ASSUME NEW y \in G
        PROVE  /\ ~Later(y, x) => ~Later(y, g)
               /\ ~Later(x, y) \/ ~Later(y, x)
               /\ ~Later(x, y) /\ ~Later(y, x) => x = y
    <3>1. y \in d.games
      BY <1>2
    <3>2. ~Later(y, x) /\ Later(y, g) => x = y \/ Later(x, y)
      BY <2>3, <3>1, LaterOrders
    <3>3. Later(x, y) /\ Later(y, g) => Later(x, g)
      BY <2>3, <3>1, LaterOrders
    <3>4. ~(Later(x, y) /\ Later(y, x))
      BY <2>3, <3>1, LaterOrders
    <3>5. x = y \/ Later(x, y) \/ Later(y, x)
      BY <2>3, <3>1, LaterOrders
    <3> QED
      BY <1>5, <3>2, <3>3, <3>4, <3>5
  <2>6. A \in SUBSET B
    BY <1>5, <2>1, <2>2, <2>5 DEF Others
  <2>7. Cardinality(A) = Cardinality(B) <=> A = B
    <3>1. A # B => Cardinality(A) \in Nat /\ Cardinality(B) \in Nat /\ Cardinality(A) < Cardinality(B)
      BY <2>4, <2>6, StrictlyMore
    <3> QED
      BY <3>1
  <2>8. A = B <=> \A y \in G : ~Later(y, g) /\ ~Later(x, y) => team_won(y, t) = team_won(g, t)
    <3>1. ASSUME A = B, NEW y \in G, ~Later(y, g), ~Later(x, y)
          PROVE  team_won(y, t) = team_won(g, t)
      <4>1. y \in B => ~Later(y, x) /\ team_won(y, t) # team_won(x, t)
        BY <2>1, <3>1 DEF Others
      <4> QED
        BY <1>5, <2>2, <2>5, <3>1, <4>1 DEF Others
    <3>2. ASSUME \A y \in G : ~Later(y, g) /\ ~Later(x, y) => team_won(y, t) = team_won(g, t), NEW y \in B
          PROVE  y \in A
      <4>1. y \in G /\ ~Later(y, g) /\ team_won(y, t) # team_won(g, t)
        BY <2>2 DEF Others
      <4>2. Later(x, y)
        BY <3>2, <4>1
      <4>3. ~Later(y, x)
        BY <2>5, <4>1, <4>2
      <4> QED
        BY <1>5, <2>1, <4>1, <4>3 DEF Others
    <3> QED
      BY <2>6, <3>1, <3>2
  <2> QED
    BY <2>4, <2>7, <2>8
<1>6. {x \in alike : ~Later(x, g)} = RunOf(d.games, g, t)
  <2>1. ASSUME NEW x \in G, ~Later(x, g),
               \A y \in G : ~Later(y, g) /\ ~Later(x, y) => team_won(y, t) = team_won(g, t)
        PROVE  team_won(x, t) = team_won(g, t)
    BY <1>2, <2>1, LaterOrders
  <2>2. RunOf(d.games, g, t) = {x \in G : ~Later(x, g) /\ \A y \in G :
                                  ~Later(y, g) /\ ~Later(x, y) => team_won(y, t) = team_won(g, t)}
    BY <1>1 DEF RunOf
  <2> QED
    BY <1>5, <2>1, <2>2
<1> QED
  BY <1>3, <1>6

LEMMA TableTells ==
  ASSUME NEW d, Stored(d)
  PROVE  SidesTell(d.games, TeamGameTotals(d))
<1>1. ASSUME NEW s \in TeamGameTotals(d)
      PROVE  \E g \in d.games :
               /\ g.game_type \in LINE_GAME_TYPES /\ completed(g) /\ PlayedIn(g, s.team_id)
               /\ s.game_id = g.id /\ s.season = g.season /\ s.date = g.date /\ s.game_type = g.game_type
               /\ s.won = team_won(g, s.team_id) /\ s.streak = Cardinality(RunOf(d.games, g, s.team_id))
  <2>1. PICK g \in d.games : \E t \in {g.home_team_id, g.away_team_id} :
               g.game_type \in LINE_GAME_TYPES /\ completed(g) /\ s = TeamGameTotal(d, g, t)
    BY SideTotalsFrom
  <2>2. PICK t \in {g.home_team_id, g.away_team_id} :
               g.game_type \in LINE_GAME_TYPES /\ completed(g) /\ s = TeamGameTotal(d, g, t)
    BY <2>1
  <2>3. /\ s.game_id = g.id /\ s.team_id = t /\ s.season = g.season /\ s.date = g.date /\ s.game_type = g.game_type
        /\ s.won = team_won(g, t) /\ s.streak = Streak(d, g, t)
    BY <2>2, SideTotalHas
  <2>4. PlayedIn(g, t)
    BY DEF PlayedIn
  <2> QED
    BY <2>2, <2>3, <2>4, StreakIsRun
<1>2. ASSUME NEW g \in d.games, g.game_type \in LINE_GAME_TYPES, completed(g),
             NEW t \in {g.home_team_id, g.away_team_id}
      PROVE  \E s \in TeamGameTotals(d) : s.team_id = t /\ s.game_id = g.id
  <2>1. TeamGameTotal(d, g, t) \in TeamGameTotals(d)
    BY <1>2 DEF TeamGameTotals
  <2>2. TeamGameTotal(d, g, t).team_id = t /\ TeamGameTotal(d, g, t).game_id = g.id
    BY SideTotalHas
  <2> QED
    BY <2>1, <2>2
<1> QED
  BY <1>1, <1>2 DEF SidesTell

LEMMA RowsAndGames ==
  ASSUME NEW d, Stored(d), SidesAre(d.sides), SidesTell(d.games, d.sides), NEW s \in d.sides
  PROVE  \E g \in d.games :
           /\ s.won = team_won(g, s.team_id) /\ s.streak = Cardinality(RunOf(d.games, g, s.team_id))
           /\ g \in GamesOfTeam(d.games, g, s.team_id)
           /\ StandFor(UpTo(d.sides, s), GameOf(d.games, UpTo(d.sides, s)),
                       GamesOfTeam(d.games, g, s.team_id), g, s.team_id)
           /\ s \in UpTo(d.sides, s) /\ GameOf(d.games, UpTo(d.sides, s))[s] = g
<1>1. PICK U : U = UpTo(d.sides, s)
  OBVIOUS
<1>2. PICK t : t = s.team_id
  OBVIOUS
<1>3. PICK game : game = GameOf(d.games, U)
  OBVIOUS
<1>4. PICK g \in d.games :
        /\ g.game_type \in LINE_GAME_TYPES /\ completed(g) /\ PlayedIn(g, t)
        /\ s.game_id = g.id /\ s.season = g.season /\ s.date = g.date /\ s.game_type = g.game_type
        /\ s.won = team_won(g, t) /\ s.streak = Cardinality(RunOf(d.games, g, t))
  BY <1>2 DEF SidesTell
<1>5. PICK G : G = GamesOfTeam(d.games, g, t)
  OBVIOUS
<1>6. ASSUME NEW h \in d.games
      PROVE  h.id \in Int /\ h.date \in Int /\ \A k \in d.games : h.id = k.id => h = k
  BY GameHas DEF Stored
<1>7. ASSUME NEW r \in U
      PROVE  /\ r \in d.sides /\ r.team_id = t /\ game[r] \in d.games /\ r.game_id = game[r].id /\ r.date = game[r].date
             /\ game[r] \in G /\ ~Later(game[r], g) /\ r.won = team_won(game[r], t)
  <2>1. /\ r \in d.sides /\ r.team_id = t /\ r.season = s.season /\ r.game_type = s.game_type
        /\ r.date < s.date \/ (r.date = s.date /\ r.game_id <= s.game_id)
    BY <1>1, <1>2 DEF UpTo
  <2>2. PICK h \in d.games :
          /\ h.game_type \in LINE_GAME_TYPES /\ completed(h) /\ PlayedIn(h, t)
          /\ r.game_id = h.id /\ r.season = h.season /\ r.date = h.date /\ r.game_type = h.game_type
          /\ r.won = team_won(h, t)
    BY <2>1 DEF SidesTell
  <2>3. game[r] = h
    BY <1>3, <1>6, <2>2 DEF GameOf
  <2>4. h \in G
    BY <1>4, <1>5, <2>1, <2>2 DEF GamesOfTeam
  <2>5. ~Later(h, g)
    <3>1. h.id \in Int /\ h.date \in Int /\ g.id \in Int /\ g.date \in Int
      BY <1>6
    <3>2. h.date < g.date \/ (h.date = g.date /\ h.id <= g.id)
      BY <1>4, <2>1, <2>2
    <3> QED
      BY <3>1, <3>2 DEF Later
  <2> QED
    BY <2>1, <2>2, <2>3, <2>4, <2>5
<1>8. ASSUME NEW h \in G, ~Later(h, g)
      PROVE  \E r \in U : game[r] = h
  <2>1. h \in d.games /\ PlayedIn(h, t) /\ completed(h) /\ h.game_type = s.game_type /\ h.season = s.season
    BY <1>4, <1>5 DEF GamesOfTeam
  <2>2. t \in {h.home_team_id, h.away_team_id} /\ h.game_type \in LINE_GAME_TYPES
    BY <1>4, <2>1 DEF PlayedIn
  <2>3. PICK r \in d.sides : r.team_id = t /\ r.game_id = h.id
    BY <2>1, <2>2 DEF SidesTell
  <2>4. PICK k \in d.games :
          r.game_id = k.id /\ r.season = k.season /\ r.date = k.date /\ r.game_type = k.game_type
    BY <2>3 DEF SidesTell
  <2>5. k = h
    BY <1>6, <2>1, <2>3, <2>4
  <2>6. r.date < s.date \/ (r.date = s.date /\ r.game_id <= s.game_id)
    <3>1. h.id \in Int /\ h.date \in Int /\ g.id \in Int /\ g.date \in Int
      BY <1>6, <2>1
    <3> QED
      BY <1>4, <1>8, <2>3, <2>4, <2>5, <3>1 DEF Later
  <2>7. r \in U
    BY <1>1, <1>2, <2>1, <2>3, <2>4, <2>5, <2>6 DEF UpTo
  <2> QED
    BY <1>3, <1>6, <2>1, <2>3, <2>7 DEF GameOf
<1>9. ASSUME NEW r \in U, NEW q \in U
      PROVE  /\ LaterRow(r, q) <=> Later(game[r], game[q])
             /\ game[r] = game[q] => r = q
  <2>1. r.game_id = game[r].id /\ r.date = game[r].date /\ q.game_id = game[q].id /\ q.date = game[q].date
    BY <1>7
  <2>2. game[r] = game[q] => r = q
    BY <1>7, <2>1 DEF SidesAre
  <2> QED
    BY <2>1, <2>2 DEF Later, LaterRow
<1>10. s \in U
  BY <1>1, <1>4, <1>6 DEF UpTo
<1>11. game[s] = g
  BY <1>4, <1>6, <1>7, <1>10
<1>12. g \in G
  BY <1>4, <1>5 DEF GamesOfTeam
<1>13. StandFor(U, game, G, g, t)
  BY <1>7, <1>8, <1>9 DEF StandFor
<1> QED
  BY <1>1, <1>2, <1>3, <1>4, <1>5, <1>10, <1>11, <1>12, <1>13

\* The rows of a run come first, latest first, and the one after them, if any,
\* is of another result.
LEMMA StreakSays ==
  ASSUME NEW d, Stored(d), SidesAre(d.sides), SidesTell(d.games, d.sides), NEW s \in d.sides
  PROVE  LET upto == Ranked(UpTo(d.sides, s), LaterRow)
         IN /\ s.streak \in 1..Len(upto)
            /\ \A i \in 1..s.streak : upto[i].won = s.won
            /\ s.streak < Len(upto) => upto[s.streak + 1].won # s.won
<1>1. PICK U : U = UpTo(d.sides, s)
  OBVIOUS
<1>2. PICK t : t = s.team_id
  OBVIOUS
<1>3. PICK game : game = GameOf(d.games, U)
  OBVIOUS
<1>4. PICK g \in d.games :
        /\ s.won = team_won(g, t) /\ s.streak = Cardinality(RunOf(d.games, g, t))
        /\ g \in GamesOfTeam(d.games, g, t)
        /\ StandFor(U, game, GamesOfTeam(d.games, g, t), g, t)
        /\ s \in U /\ game[s] = g
  BY <1>1, <1>2, <1>3, RowsAndGames
<1>5. PICK G : G = GamesOfTeam(d.games, g, t)
  OBVIOUS
<1>6. PICK R : R = RunOf(d.games, g, t)
  OBVIOUS
<1>7. /\ G \in SUBSET d.games /\ IsFiniteSet(U)
      /\ StandFor(U, game, G, g, t)
  BY <1>1, <1>4, <1>5, Fewer DEF GamesOfTeam, UpTo, SidesAre
<1>8. \A x : x \in R <=>
             /\ x \in G /\ ~Later(x, g)
             /\ \A y \in G : ~Later(y, g) /\ ~Later(x, y) => team_won(y, t) = team_won(g, t)
  BY <1>5, <1>6 DEF RunOf
<1>9. PICK rel : rel = {x \in U \X U : LaterRow(x[1], x[2])}
  OBVIOUS
<1>10. \A r \in U, q \in U : <<r, q>> \in rel <=> Later(game[r], game[q])
  BY <1>7, <1>9 DEF StandFor
<1>11. Orders(rel, U)
  <2>1. \A r \in U : game[r] \in d.games
    BY <1>7 DEF StandFor
  <2>2. \A r \in U, q \in U : game[r] = game[q] => r = q
    BY <1>7 DEF StandFor
  <2>3. \A r \in U : <<r, r>> \notin rel
    BY <1>10, <2>1, LaterOrders
  <2>4. \A r \in U, q \in U : r = q \/ <<r, q>> \in rel \/ <<q, r>> \in rel
    BY <1>10, <2>1, <2>2, LaterOrders
  <2>5. \A r \in U, q \in U, w \in U : <<r, q>> \in rel /\ <<q, w>> \in rel => <<r, w>> \in rel
    BY <1>10, <2>1, LaterOrders
  <2> QED
    BY <2>3, <2>4, <2>5 DEF Orders
<1>12. Ranked(U, LaterRow) = InOrder(rel, U)
  <2> DEFINE p == [x \in U |-> 1 + Cardinality({y \in U : LaterRow(y, x)})]
  <2>1. PICK q : q = [x \in U |-> 1 + Cardinality({y \in U : <<y, x>> \in rel})]
    OBVIOUS
  <2>2. p = q
    <3>1. \A x \in U : {y \in U : LaterRow(y, x)} = {y \in U : <<y, x>> \in rel}
      BY <1>9
    <3> QED
      BY <2>1, <3>1
  <2>3. InOrder(rel, U) = [i \in 1..Cardinality(U) |-> CHOOSE x \in U : q[x] = i]
    BY <2>1 DEF Ranked, InOrder
  <2> HIDE DEF p
  <2>4. InOrder(rel, U) = [i \in 1..Cardinality(U) |-> CHOOSE x \in U : p[x] = i]
    BY <2>2, <2>3
  <2> QED
    BY <2>4 DEF Ranked, p
<1>13. PICK T : T = {r \in U : game[r] \in R}
  OBVIOUS
<1>14. s \in T
  <2>1. \A y \in G : ~Later(y, g) /\ ~Later(g, y) => y = g
    BY <1>7, LaterOrders
  <2>2. ~Later(g, g)
    BY LaterOrders
  <2>3. g \in R
    BY <1>4, <1>5, <1>8, <2>1, <2>2
  <2> QED
    BY <1>4, <1>13, <2>3
<1>15. Cardinality(T) = s.streak
  <2>1. PICK f : f = [r \in T |-> game[r]]
    OBVIOUS
  <2>2. DOMAIN f = T /\ T \in SUBSET U /\ \A r \in T : f[r] = game[r]
    BY <1>13, <2>1
  <2>3. {f[r] : r \in DOMAIN f} = R
    <3>1. ASSUME NEW h \in R
          PROVE  \E r \in DOMAIN f : f[r] = h
      <4>1. PICK r \in U : game[r] = h
        BY <1>7, <1>8 DEF StandFor
      <4> QED
        BY <1>13, <2>2, <4>1
    <3>2. \A r \in DOMAIN f : f[r] \in R
      BY <1>13, <2>2
    <3> QED
      BY <3>1, <3>2
  <2>4. \A r \in DOMAIN f, q \in DOMAIN f : f[r] = f[q] => r = q
    BY <1>7, <2>2 DEF StandFor
  <2>5. IsFiniteSet(DOMAIN f)
    BY <1>7, <2>2, Fewer
  <2>6. Cardinality({f[r] : r \in DOMAIN f}) = Cardinality(DOMAIN f)
    BY <2>4, <2>5, CountedByImage
  <2> QED
    BY <1>4, <1>6, <2>2, <2>3, <2>6
<1>16. ASSUME NEW r \in T
       PROVE  r \in U /\ r.won = s.won
  <2>1. r \in U /\ game[r] \in R /\ game[r] \in d.games /\ r.won = team_won(game[r], t)
    BY <1>7, <1>13, <1>16 DEF StandFor
  <2>2. ~Later(game[r], game[r])
    BY <2>1, LaterOrders
  <2> QED
    BY <1>4, <1>8, <2>1, <2>2
<1>17. ASSUME NEW y \in T, NEW x \in U, <<x, y>> \in rel
       PROVE  x \in T
  <2>1. y \in U /\ game[y] \in R /\ Later(game[x], game[y])
    BY <1>10, <1>13, <1>17
  <2>2. game[x] \in G /\ ~Later(game[x], g) /\ game[y] \in G
    BY <1>7, <2>1 DEF StandFor
  <2>3. ASSUME NEW z \in G, ~Later(z, g), ~Later(game[x], z)
        PROVE  team_won(z, t) = team_won(g, t)
    <3>1. ~Later(game[y], z)
      BY <1>7, <2>1, <2>2, <2>3, LaterOrders
    <3> QED
      BY <1>8, <2>1, <2>3, <3>1
  <2>4. game[x] \in R
    BY <1>8, <2>2, <2>3
  <2> QED
    BY <1>13, <2>4
<1>18. PICK k : k = Cardinality(T)
  OBVIOUS
<1>19. PICK n : n = Cardinality(U)
  OBVIOUS
<1>20. /\ T \in SUBSET U /\ IsFiniteSet(T) /\ Orders(rel, T) /\ k \in Nat \ {0} /\ n \in Nat /\ k <= n
       /\ \A i \in 1..k : InOrder(rel, T)[i] = InOrder(rel, U)[i]
  <2>1. T \in SUBSET U
    BY <1>13
  <2>2. /\ IsFiniteSet(T) /\ Orders(rel, T) /\ Cardinality(T) <= Cardinality(U)
        /\ \A i \in 1..Cardinality(T) : InOrder(rel, T)[i] = InOrder(rel, U)[i]
    BY <1>7, <1>11, <1>17, <2>1, FirstPlaces
  <2>3. k \in Nat \ {0} /\ n \in Nat
    BY <1>7, <1>14, <1>18, <1>19, <2>1, Fewer
  <2> QED
    BY <1>18, <1>19, <2>1, <2>2, <2>3
<1>21. PICK upto : upto = InOrder(rel, U)
  OBVIOUS
<1>22. /\ Len(upto) = n
       /\ \A i \in 1..n : upto[i] \in U /\ Place(rel, U, upto[i]) = i
       /\ \A x \in U : upto[Place(rel, U, x)] = x
  BY <1>7, <1>11, <1>19, <1>21, Listing
<1>23. \A i \in 1..k : upto[i] \in T
  <2>1. \A i \in 1..k : InOrder(rel, T)[i] \in T
    BY <1>18, <1>20, Listing
  <2> QED
    BY <1>20, <1>21, <2>1
<1>24. ASSUME k < n
       PROVE  upto[k + 1].won # s.won
  <2>1. PICK x : x = upto[k + 1]
    OBVIOUS
  <2>2. x \in U /\ Place(rel, U, x) = k + 1
    <3>1. k + 1 \in 1..n
      BY <1>20, <1>24
    <3> QED
      BY <1>22, <2>1, <3>1
  <2>3. x \notin T
    <3>1. ASSUME x \in T
          PROVE  FALSE
      <4>1. PICK i \in 1..k : InOrder(rel, T)[i] = x
        BY <1>18, <1>20, <3>1, Listing, Places
      <4>2. upto[i] = x /\ i \in 1..n
        BY <1>20, <1>21, <4>1
      <4>3. Place(rel, U, x) = i
        BY <1>22, <4>2
      <4> QED
        BY <1>20, <2>2, <4>1, <4>3
    <3> QED
      BY <3>1
  <2>4. ASSUME x.won = s.won
        PROVE  FALSE
    <3>1. game[x] \in G /\ ~Later(game[x], g) /\ x.won = team_won(game[x], t)
      BY <1>7, <2>2 DEF StandFor
    <3>2. ASSUME NEW y \in G, ~Later(y, g), ~Later(game[x], y)
          PROVE  team_won(y, t) = team_won(g, t)
      <4>1. PICK r \in U : game[r] = y
        BY <1>7, <3>2 DEF StandFor
      <4>2. CASE r = x
        BY <1>4, <2>4, <3>1, <4>1, <4>2
      <4>3. CASE r # x
        <5>1. <<r, x>> \in rel
          BY <1>10, <1>11, <2>2, <3>2, <4>1, <4>3 DEF Orders
        <5>2. Place(rel, U, r) < k + 1 /\ Place(rel, U, r) \in 1..n
          BY <1>7, <1>11, <1>19, <2>2, <5>1, Places
        <5>3. Place(rel, U, r) \in 1..k
          BY <1>20, <5>2
        <5>4. r \in T
          BY <1>22, <1>23, <5>3
        <5>5. r.won = s.won /\ r.won = team_won(game[r], t)
          BY <1>7, <1>16, <5>4 DEF StandFor
        <5> QED
          BY <1>4, <4>1, <5>5
      <4> QED
        BY <4>2, <4>3
    <3>3. game[x] \in R
      BY <1>8, <3>1, <3>2
    <3> QED
      BY <1>13, <2>2, <2>3, <3>3
  <2> QED
    BY <2>1, <2>4
<1>25. \A i \in 1..k : upto[i].won = s.won
  BY <1>16, <1>23
<1>26. s.streak = k
  BY <1>15, <1>18
<1> QED
  BY <1>1, <1>12, <1>20, <1>21, <1>22, <1>24, <1>25, <1>26

-----------------------------------------------------------------------------
(* Records: the leaders of a season *)

\* Two keys decide by the first, or by the second where the first is level.
LEMMA TwoKeys ==
  ASSUME NEW a \in BOOLEAN, NEW b \in BOOLEAN, NEW c \in BOOLEAN
  PROVE  Decides(<<<<a, b>>, <<c, FALSE>>>>) <=> a \/ (b /\ c)
<1>1. PICK keys : keys = <<<<a, b>>, <<c, FALSE>>>>
  OBVIOUS
<1>2. DOMAIN keys = {1, 2} /\ keys[1][1] = a /\ keys[1][2] = b /\ keys[2][1] = c
  BY <1>1
<1>3. 1..(1 - 1) = {} /\ 1..(2 - 1) = {1}
  OBVIOUS
<1>4. Decides(keys) <=> \E i \in {1, 2} : keys[i][1] /\ \A j \in 1..(i - 1) : keys[j][2]
  BY <1>2 DEF Decides
<1>5. Decides(keys) <=> keys[1][1] \/ (keys[2][1] /\ keys[1][2])
  BY <1>3, <1>4, Zenon
<1> QED
  BY <1>1, <1>2, <1>5

\* A mean is a fraction, of a player whose id is a number.
LEMMA MeansAre ==
  ASSUME NEW d, Stored(d), NEW s, NEW type, NEW stat \in {"points", "rebounds"}
  PROVE  /\ IsFiniteSet(Qualify(d, s, type)) /\ Qualify(d, s, type) \in SUBSET Int
         /\ \A p \in Qualify(d, s, type) : IsFraction(MeanOf(d, p, s, type, stat))
<1>1. PICK player : player = [l \in d.lines |-> l.player_id]
  OBVIOUS
<1>2. IsFiniteSet({player[l] : l \in d.lines})
  BY ImageIsFinite DEF Stored
<1>3. \A l \in d.lines : player[l] \in Int
  BY <1>1 DEF Stored, LineColumns
<1>4. ASSUME NEW p \in Qualify(d, s, type)
      PROVE  /\ p \in {player[l] : l \in d.lines} /\ p \in Int
             /\ IsFraction(MeanOf(d, p, s, type, stat))
  <2>1. PICK lines : lines = SeasonLines(d, p, s, type)
    OBVIOUS
  <2>2. lines # {} /\ lines \in SUBSET d.lines /\ \A l \in lines : l.player_id = p
    BY <2>1 DEF Qualify, SeasonLines, CountedLines
  <2>3. p \in {player[l] : l \in d.lines}
    BY <1>1, <2>2
  <2>4. Cardinality(lines) \in Nat \ {0} /\ IsFiniteSet(lines)
    BY <2>2, Fewer DEF Stored
  <2>5. SumFunction([l \in lines |-> l[stat]]) \in Int
    <3>1. \A l \in lines : l[stat] \in Int
      BY <2>2, StatsAre DEF Stored, LineColumns, COUNTING_STATS
    <3> QED
      BY <2>4, <3>1, ColumnSum
  <2>6. MeanOf(d, p, s, type, stat) = <<SumFunction([l \in lines |-> l[stat]]), Cardinality(lines)>>
    BY <2>1 DEF MeanOf, SumOf
  <2> QED
    BY <1>3, <2>3, <2>4, <2>5, <2>6 DEF IsFraction
<1>5. Qualify(d, s, type) \in SUBSET {player[l] : l \in d.lines}
  BY <1>4
<1> QED
  BY <1>2, <1>4, <1>5, Fewer

LEMMA LeadingOrders ==
  ASSUME NEW d, Stored(d), NEW s, NEW type, NEW stat \in {"points", "rebounds"}
  PROVE  Orders(Leading(d, s, type, stat), Qualify(d, s, type))
<1>1. PICK found : found = Qualify(d, s, type)
  OBVIOUS
<1>2. PICK mean : mean = [p \in found |-> MeanOf(d, p, s, type, stat)]
  OBVIOUS
<1>3. \A p \in found : p \in Int /\ IsFraction(mean[p])
  BY <1>1, <1>2, MeansAre
<1>4. PICK rel : rel = Leading(d, s, type, stat)
  OBVIOUS
<1>5. \A p \in found, q \in found :
        <<p, q>> \in rel <=> More(mean[p], mean[q]) \/ (Same(mean[p], mean[q]) /\ p < q)
  BY <1>1, <1>2, <1>4 DEF Leading
<1>6. ASSUME NEW p \in found
      PROVE  <<p, p>> \notin rel
  BY <1>3, <1>5, Compared
<1>7. ASSUME NEW p \in found, NEW q \in found
      PROVE  p = q \/ <<p, q>> \in rel \/ <<q, p>> \in rel
  <2>1. More(mean[p], mean[q]) \/ Same(mean[p], mean[q]) \/ More(mean[q], mean[p])
    BY <1>3, Compared
  <2>2. Same(mean[p], mean[q]) => Same(mean[q], mean[p])
    BY <1>3, Compared
  <2>3. p < q \/ p = q \/ q < p
    BY <1>3
  <2> QED
    BY <1>5, <2>1, <2>2, <2>3
<1>8. ASSUME NEW p \in found, NEW q \in found, NEW r \in found, <<p, q>> \in rel, <<q, r>> \in rel
      PROVE  <<p, r>> \in rel
  <2>1. /\ More(mean[p], mean[q]) /\ (More(mean[q], mean[r]) \/ Same(mean[q], mean[r])) => More(mean[p], mean[r])
        /\ Same(mean[p], mean[q]) /\ More(mean[q], mean[r]) => More(mean[p], mean[r])
        /\ Same(mean[p], mean[q]) /\ Same(mean[q], mean[r]) => Same(mean[p], mean[r])
    BY <1>3, Compared
  <2>2. p < q /\ q < r => p < r
    BY <1>3
  <2> QED
    BY <1>5, <1>8, <2>1, <2>2
<1>9. Orders(rel, found)
  BY <1>6, <1>7, <1>8 DEF Orders
<1> QED
  BY <1>1, <1>4, <1>9

LEMMA LeadersAre ==
  ASSUME NEW d, Stored(d), NEW s, NEW type \in LINE_GAME_TYPES, NEW stat \in {"points", "rebounds"}
  PROVE  LET order == Paged(InOrder(Leading(d, s, type, stat), Qualify(d, s, type)), 2, 0)
         IN leaders(d, s, stat, type, 2) = [i \in DOMAIN order |-> LeaderOf(d, s, type, stat, order[i])]
<1> DEFINE lines(p) == {l \in d.lines : /\ l.player_id = p /\ played(l)
                                        /\ Game(d, l).season = s /\ Game(d, l).game_type = type}
           games(p) == Cardinality(lines(p))
           total(p) == SumOf(lines(p), LAMBDA l : l[stat])
           found == {p \in {q.id : q \in d.players} : lines(p) # {} /\ games(p) >= qualifier(d, s, type)}
           before(p, q) == Decides(<<<<More(<<total(p), games(p)>>, <<total(q), games(q)>>),
                                       Same(<<total(p), games(p)>>, <<total(q), games(q)>>)>>, <<p < q, FALSE>>>>)
           top == Paged(Ranked(found, before), 2, 0)
           rel == Leading(d, s, type, stat)
           row(p) == [player |-> p, teams |-> {l.team_id : l \in lines(p)}, games_played |-> games(p),
                      average |-> per_game(total(p), games(p))]
<1>1. leaders(d, s, stat, type, 2) = [i \in DOMAIN top |-> row(top[i])]
  BY DEF leaders
<1>2. \A p : lines(p) = SeasonLines(d, p, s, type)
  BY DEF SeasonLines, CountedLines
<1> HIDE DEF lines
<1>3. \A p : <<total(p), games(p)>> = MeanOf(d, p, s, type, stat)
  BY <1>2 DEF MeanOf, SumOf
<1>4. found = Qualify(d, s, type)
  BY <1>2 DEF Qualify
<1> HIDE DEF total, games
<1>5. \A p : row(p) = LeaderOf(d, s, type, stat, p)
  <2>1. ASSUME NEW p
        PROVE  row(p) = LeaderOf(d, s, type, stat, p)
    <3>1. MeanOf(d, p, s, type, stat)[1] = total(p) /\ MeanOf(d, p, s, type, stat)[2] = games(p)
      BY <1>3
    <3>2. games(p) = Cardinality(SeasonLines(d, p, s, type))
      BY <1>2 DEF games
    <3> QED
      BY <1>2, <3>1, <3>2 DEF LeaderOf
  <2> QED
    BY <2>1
<1> HIDE DEF row
<1>6. ASSUME NEW p \in found, NEW q \in found
      PROVE  before(p, q) <=> <<p, q>> \in rel
  <2>1. PICK m : m = MeanOf(d, p, s, type, stat)
    OBVIOUS
  <2>2. PICK n : n = MeanOf(d, q, s, type, stat)
    OBVIOUS
  <2>3. before(p, q) <=> Decides(<<<<More(m, n), Same(m, n)>>, <<p < q, FALSE>>>>)
    <3>1. <<total(p), games(p)>> = m /\ <<total(q), games(q)>> = n
      BY <1>3, <2>1, <2>2
    <3> QED
      BY <3>1, Zenon
  <2>4. More(m, n) \in BOOLEAN /\ Same(m, n) \in BOOLEAN /\ (p < q) \in BOOLEAN
    BY DEF More, Same
  <2>5. Decides(<<<<More(m, n), Same(m, n)>>, <<p < q, FALSE>>>>) <=> More(m, n) \/ (Same(m, n) /\ p < q)
    BY <2>4, TwoKeys
  <2>6. <<p, q>> \in rel <=> More(m, n) \/ (Same(m, n) /\ p < q)
    BY <1>4, <2>1, <2>2 DEF Leading
  <2> QED
    BY <2>3, <2>5, <2>6
<1> HIDE DEF rel, found, before
<1>7. Ranked(found, before) = InOrder(rel, found)
  <2> DEFINE p == [x \in found |-> 1 + Cardinality({y \in found : before(y, x)})]
             q == [x \in found |-> 1 + Cardinality({y \in found : <<y, x>> \in rel})]
  <2>1. \A x \in found : {y \in found : before(y, x)} = {y \in found : <<y, x>> \in rel}
    BY <1>6
  <2>2. p = q
    BY <2>1
  <2> HIDE DEF p, q
  <2>3. InOrder(rel, found) = [i \in 1..Cardinality(found) |-> CHOOSE x \in found : q[x] = i]
    BY DEF Ranked, InOrder, q
  <2>4. InOrder(rel, found) = [i \in 1..Cardinality(found) |-> CHOOSE x \in found : p[x] = i]
    BY <2>2, <2>3
  <2> QED
    BY <2>4 DEF Ranked, p
<1>8. top = Paged(InOrder(rel, found), 2, 0)
  BY <1>7
<1> HIDE DEF top
<1>9. [i \in DOMAIN top |-> row(top[i])] = [i \in DOMAIN top |-> LeaderOf(d, s, type, stat, top[i])]
  BY <1>5
<1> QED
  BY <1>1, <1>4, <1>8, <1>9 DEF rel

\* A leader qualifies and says what the season line says, and nobody who
\* qualifies and is left out has a higher mean than the second one.
LEMMA LeadersSay ==
  ASSUME NEW d, Stored(d), NEW s, NEW type \in LINE_GAME_TYPES, NEW stat \in {"points", "rebounds"}
  PROVE  LET top == leaders(d, s, stat, type, 2)
         IN /\ \A i \in DOMAIN top :
                 /\ top[i].player \in Qualify(d, s, type)
                 /\ top[i] = LeaderOf(d, s, type, stat, top[i].player)
                 /\ top[i].games_played = stat_line(SeasonLines(d, top[i].player, s, type)).games_played
                 /\ top[i].teams = ToSet(season_teams(d, top[i].player, <<s, type>>))
            /\ \A p \in Qualify(d, s, type) \ {top[i].player : i \in DOMAIN top} :
                 Len(top) = 2 /\ ~More(MeanOf(d, p, s, type, stat), MeanOf(d, top[2].player, s, type, stat))
<1>1. PICK found : found = Qualify(d, s, type)
  OBVIOUS
<1>2. PICK rel : rel = Leading(d, s, type, stat)
  OBVIOUS
<1>3. PICK all : all = InOrder(rel, found)
  OBVIOUS
<1>4. PICK page : page = Paged(all, 2, 0)
  OBVIOUS
<1>5. PICK top : top = leaders(d, s, stat, type, 2)
  OBVIOUS
<1>6. PICK n : n = Cardinality(found)
  OBVIOUS
<1>7. IsFiniteSet(found) /\ Orders(rel, found) /\ n \in Nat
  BY <1>1, <1>2, <1>6, MeansAre, LeadingOrders, Fewer
<1>8. /\ all \in Seq(found) /\ Len(all) = n
      /\ \A i \in 1..n : all[i] \in found /\ Place(rel, found, all[i]) = i
      /\ \A p \in found : Place(rel, found, p) \in 1..n /\ all[Place(rel, found, p)] = p
  BY <1>3, <1>6, <1>7, Listing, Places
<1>9. PICK m : m = IF 2 < n THEN 2 ELSE n
  OBVIOUS
<1>10. m \in Nat /\ m <= n /\ page \in Seq(found) /\ Len(page) = m /\ \A i \in 1..m : page[i] = all[i]
  <2>1. /\ page \in Seq(found)
        /\ Len(page) = IF 0 >= Len(all) THEN 0 ELSE IF 0 + 2 < Len(all) THEN 2 ELSE Len(all) - 0
        /\ \A i \in 1..Len(page) : page[i] = all[0 + i]
    <3>1. PICK limit \in Nat \ {0} : limit = 2
      OBVIOUS
    <3>2. PICK offset \in Nat : offset = 0
      OBVIOUS
    <3>3. LET p == Paged(all, limit, offset)
          IN /\ p \in Seq(found)
             /\ Len(p) = IF offset >= Len(all) THEN 0
                         ELSE IF offset + limit < Len(all) THEN limit ELSE Len(all) - offset
             /\ \A i \in 1..Len(p) : p[i] = all[offset + i]
      <4>1. all \in Seq(found)
        BY <1>8
      <4> QED
        BY <4>1, PageIs
    <3>4. page = Paged(all, limit, offset)
      BY <1>4, <3>1, <3>2
    <3> QED
      BY <3>1, <3>2, <3>3, <3>4
  <2>2. Len(page) = m /\ m \in Nat /\ m <= n
    BY <1>7, <1>8, <1>9, <2>1
  <2>3. \A i \in 1..m : 0 + i = i
    BY <2>2
  <2> QED
    BY <2>1, <2>2, <2>3
<1>11. DOMAIN page = 1..m
  BY <1>10
<1>12. /\ DOMAIN top = 1..m /\ Len(top) = m
       /\ \A i \in 1..m : top[i] = LeaderOf(d, s, type, stat, all[i])
  <2>1. top = [i \in DOMAIN page |-> LeaderOf(d, s, type, stat, page[i])]
    BY <1>1, <1>2, <1>3, <1>4, <1>5, LeadersAre
  <2>2. top = [i \in 1..m |-> LeaderOf(d, s, type, stat, page[i])]
    BY <1>11, <2>1
  <2>3. DOMAIN top = 1..m /\ \A i \in 1..m : top[i] = LeaderOf(d, s, type, stat, page[i])
    BY <2>2
  <2>4. Len(top) = m
    BY <1>10, <2>2, LengthIs
  <2> QED
    BY <1>10, <2>3, <2>4
<1>13. \A p : /\ LeaderOf(d, s, type, stat, p).player = p
              /\ LeaderOf(d, s, type, stat, p).teams = {l.team_id : l \in SeasonLines(d, p, s, type)}
              /\ LeaderOf(d, s, type, stat, p).games_played = Cardinality(SeasonLines(d, p, s, type))
  BY DEF LeaderOf
<1>14. ASSUME NEW i \in 1..m
       PROVE  /\ top[i].player = all[i] /\ all[i] \in found
              /\ top[i] = LeaderOf(d, s, type, stat, top[i].player)
  <2>1. i \in 1..n
    BY <1>7, <1>10
  <2> QED
    BY <1>8, <1>12, <1>13, <2>1
<1>15. ASSUME NEW p
       PROVE  /\ stat_line(SeasonLines(d, p, s, type)).games_played = Cardinality(SeasonLines(d, p, s, type))
              /\ ToSet(season_teams(d, p, <<s, type>>)) = {l.team_id : l \in SeasonLines(d, p, s, type)}
  <2>1. \A l \in SeasonLines(d, p, s, type) : played(l)
    BY DEF SeasonLines, CountedLines
  <2>2. {l \in CountedLines(d, p) : <<Game(d, l).season, Game(d, l).game_type>> = <<s, type>>} = SeasonLines(d, p, s, type)
    BY DEF SeasonLines
  <2>3. ToSet(season_teams(d, p, <<s, type>>)) = {l.team_id : l \in SeasonLines(d, p, s, type)}
    BY <2>2, TeamsAreListed
  <2> QED
    BY <2>1, <2>3, LineSays
<1>16. ASSUME NEW i \in DOMAIN top
       PROVE  /\ top[i].player \in found
              /\ top[i] = LeaderOf(d, s, type, stat, top[i].player)
              /\ top[i].games_played = stat_line(SeasonLines(d, top[i].player, s, type)).games_played
              /\ top[i].teams = ToSet(season_teams(d, top[i].player, <<s, type>>))
  <2>1. PICK p : p = top[i].player
    OBVIOUS
  <2>2. p \in found /\ top[i] = LeaderOf(d, s, type, stat, p)
    BY <1>12, <1>14, <2>1
  <2> QED
    BY <1>13, <1>15, <2>1, <2>2
<1>17. ASSUME NEW p \in found, p \notin {top[i].player : i \in DOMAIN top}
       PROVE  Len(top) = 2 /\ ~More(MeanOf(d, p, s, type, stat), MeanOf(d, top[2].player, s, type, stat))
  <2>1. PICK j \in 1..n : j = Place(rel, found, p) /\ all[j] = p
    BY <1>8
  <2>2. j \notin 1..m
    BY <1>12, <1>14, <1>17, <2>1
  <2>3. m = 2 /\ 2 < j
    BY <1>7, <1>9, <2>1, <2>2
  <2>4. PICK q \in found : q = top[2].player /\ q = all[2] /\ Place(rel, found, q) = 2
    <3>1. 2 \in 1..n /\ 2 \in 1..m
      BY <1>7, <2>1, <2>3
    <3> QED
      BY <1>8, <1>14, <3>1
  <2>5. <<q, p>> \in rel
    BY <1>7, <2>1, <2>3, <2>4, Places
  <2>6. PICK a : a = MeanOf(d, q, s, type, stat)
    OBVIOUS
  <2>7. PICK b : b = MeanOf(d, p, s, type, stat)
    OBVIOUS
  <2>8. More(a, b) \/ Same(a, b)
    BY <1>1, <1>2, <2>5, <2>6, <2>7 DEF Leading
  <2>9. IsFraction(a) /\ IsFraction(b)
    BY <1>1, <2>4, <2>6, <2>7, MeansAre
  <2>10. ~More(b, a)
    BY <2>8, <2>9, Compared
  <2> QED
    BY <1>12, <2>3, <2>4, <2>6, <2>7, <2>10
<1> QED
  BY <1>1, <1>5, <1>16, <1>17
(* A team's season *)

\* A game is won or lost, so both together are all.
LEMMA WonAndLost ==
  ASSUME NEW d, Stored(d), NEW G \in SUBSET d.games, NEW t
  PROVE  /\ IsFiniteSet(G) /\ IsFiniteSet(Won(G, t)) /\ IsFiniteSet(Lost(G, t))
         /\ Cardinality(Won(G, t)) \in Nat /\ Cardinality(Lost(G, t)) \in Nat
         /\ Cardinality(G) = Cardinality(Won(G, t)) + Cardinality(Lost(G, t))
<1>1. IsFiniteSet(G)
  BY Fewer DEF Stored
<1>2. Won(G, t) \in SUBSET G /\ Lost(G, t) \in SUBSET G /\ Won(G, t) \cup Lost(G, t) = G
      /\ Won(G, t) \cap Lost(G, t) = {}
  BY DEF Won, Lost
<1>3. IsFiniteSet(Won(G, t)) /\ IsFiniteSet(Lost(G, t))
  BY <1>1, <1>2, Fewer
<1> QED
  BY <1>1, <1>2, <1>3, DisjointSum

LEMMA RecordCounts ==
  ASSUME NEW d, NEW s, NEW t
  PROVE  /\ DOMAIN records(d, s) = {u \in {v.id : v \in d.teams} : RegularGames(d, s, u) # {}}
         /\ t \in DOMAIN records(d, s) =>
              /\ records(d, s)[t].wins = Cardinality(Won(RegularGames(d, s, t), t))
              /\ records(d, s)[t].losses = Cardinality(Lost(RegularGames(d, s, t), t))
<1> DEFINE count(u, home, won) ==
             Cardinality({g \in RegularGames(d, s, u) : (g.home_team_id = u) \in home /\ team_won(g, u) = won})
           row(u) == [wins |-> count(u, BOOLEAN, TRUE), losses |-> count(u, BOOLEAN, FALSE),
                      home_wins |-> count(u, {TRUE}, TRUE), home_losses |-> count(u, {TRUE}, FALSE),
                      away_wins |-> count(u, {FALSE}, TRUE), away_losses |-> count(u, {FALSE}, FALSE)]
<1>1. PICK teams : teams = {u \in {v.id : v \in d.teams} : RegularGames(d, s, u) # {}}
  OBVIOUS
<1>2. records(d, s) = [u \in teams |-> row(u)]
  BY <1>1 DEF records
<1>3. count(t, BOOLEAN, TRUE) = Cardinality(Won(RegularGames(d, s, t), t))
  <2>1. \A g : (g.home_team_id = t) \in BOOLEAN
    OBVIOUS
  <2>2. \A g : (team_won(g, t) = TRUE) <=> team_won(g, t)
    BY DEF team_won
  <2> QED
    BY <2>1, <2>2 DEF Won
<1>4. count(t, BOOLEAN, FALSE) = Cardinality(Lost(RegularGames(d, s, t), t))
  <2>1. \A g : (g.home_team_id = t) \in BOOLEAN
    OBVIOUS
  <2>2. \A g : (team_won(g, t) = FALSE) <=> ~team_won(g, t)
    BY DEF team_won
  <2> QED
    BY <2>1, <2>2 DEF Lost
<1>5. row(t).wins = count(t, BOOLEAN, TRUE) /\ row(t).losses = count(t, BOOLEAN, FALSE)
  OBVIOUS
<1> HIDE DEF row, count
<1> QED
  BY <1>1, <1>2, <1>3, <1>4, <1>5

\* The table has one row for each of the team's games, and so the same counts.
LEMMA SideCounts ==
  ASSUME NEW d, Stored(d), SidesAre(d.sides), SidesTell(d.games, d.sides), Decisive(d), NEW s, NEW t
  PROVE  /\ Cardinality({r \in SeasonSide(d.sides, s, t) : r.won = TRUE}) = Cardinality(Won(RegularGames(d, s, t), t))
         /\ Cardinality({r \in SeasonSide(d.sides, s, t) : r.won = FALSE}) = Cardinality(Lost(RegularGames(d, s, t), t))
<1>1. PICK U : U = SeasonSide(d.sides, s, t)
  OBVIOUS
<1>2. PICK G : G = RegularGames(d, s, t)
  OBVIOUS
<1>3. PICK game : game = GameOf(d.games, U)
  OBVIOUS
<1>4. ASSUME NEW r \in U
      PROVE  /\ game[r] \in G /\ r.date = game[r].date /\ r.team_id = t /\ r \in d.sides
             /\ r.game_id = game[r].id /\ r.won = team_won(game[r], t)
  <2>1. r \in d.sides /\ r.game_type = REGULAR /\ r.season = s /\ r.team_id = t
    BY <1>1 DEF SeasonSide
  <2>2. PICK g \in d.games : /\ PlayedIn(g, t) /\ r.game_id = g.id /\ r.season = g.season /\ r.date = g.date
                             /\ r.game_type = g.game_type /\ r.won = team_won(g, t)
    BY <2>1 DEF SidesTell
  <2>3. game[r] = g
    BY <1>3, <2>2 DEF GameOf, Stored
  <2> QED
    BY <1>2, <2>1, <2>2, <2>3 DEF RegularGames
<1>5. ASSUME NEW g \in G
      PROVE  \E r \in U : game[r] = g
  <2>1. g \in d.games /\ g.season = s /\ g.game_type = REGULAR /\ PlayedIn(g, t)
    BY <1>2 DEF RegularGames
  <2>2. completed(g) /\ g.game_type \in LINE_GAME_TYPES /\ t \in {g.home_team_id, g.away_team_id}
    BY <2>1 DEF Decisive, LINE_GAME_TYPES, REGULAR, PlayedIn
  <2>3. PICK r \in d.sides : r.team_id = t /\ r.game_id = g.id
    BY <2>1, <2>2 DEF SidesTell
  <2>4. PICK h \in d.games : r.game_id = h.id /\ r.season = h.season /\ r.game_type = h.game_type
    BY <2>3 DEF SidesTell
  <2>5. h = g
    BY <2>1, <2>3, <2>4 DEF Stored
  <2>6. r \in U
    BY <1>1, <2>1, <2>3, <2>4, <2>5 DEF SeasonSide
  <2>7. game[r] \in d.games /\ game[r].id = g.id
    BY <1>2, <1>4, <2>3, <2>6 DEF RegularGames
  <2>8. game[r] = g
    BY <2>1, <2>7 DEF Stored
  <2> QED
    BY <2>6, <2>8
<1>6. ASSUME NEW r \in U, NEW q \in U, game[r] = game[q]
      PROVE  r = q
  BY <1>4, <1>6 DEF SidesAre
<1>7. IsFiniteSet(U)
  BY <1>1, Fewer DEF SidesAre, SeasonSide
<1>8. ASSUME NEW V \in SUBSET U
      PROVE  Cardinality(V) = Cardinality({game[r] : r \in V})
  <2>1. PICK f : f = [r \in V |-> game[r]]
    OBVIOUS
  <2>2. DOMAIN f = V /\ IsFiniteSet(V)
    BY <1>7, <2>1, Fewer
  <2>3. \A x \in DOMAIN f, y \in DOMAIN f : f[x] = f[y] => x = y
    BY <1>6, <2>1
  <2>4. Cardinality({f[x] : x \in DOMAIN f}) = Cardinality(DOMAIN f)
    BY <2>2, <2>3, CountedByImage
  <2>5. {f[x] : x \in DOMAIN f} = {game[r] : r \in V}
    BY <2>1
  <2> QED
    BY <2>2, <2>4, <2>5
<1>9. ASSUME NEW V, V = {r \in U : r.won = TRUE}
      PROVE  Cardinality(V) = Cardinality(Won(G, t))
  <2>1. {game[r] : r \in V} = Won(G, t)
    <3>1. ASSUME NEW r \in V
          PROVE  game[r] \in Won(G, t)
      BY <1>4, <1>9 DEF Won
    <3>2. ASSUME NEW g \in Won(G, t)
          PROVE  \E r \in V : game[r] = g
      <4>1. g \in G /\ team_won(g, t)
        BY DEF Won
      <4>2. PICK r \in U : game[r] = g
        BY <1>5, <4>1
      <4>3. r.won = TRUE
        BY <1>4, <4>1, <4>2 DEF team_won
      <4> QED
        BY <1>9, <4>2, <4>3
    <3> QED
      BY <3>1, <3>2
  <2> QED
    BY <1>8, <1>9, <2>1
<1>10. ASSUME NEW V, V = {r \in U : r.won = FALSE}
       PROVE  Cardinality(V) = Cardinality(Lost(G, t))
  <2>1. {game[r] : r \in V} = Lost(G, t)
    <3>1. ASSUME NEW r \in V
          PROVE  game[r] \in Lost(G, t)
      BY <1>4, <1>10 DEF Lost
    <3>2. ASSUME NEW g \in Lost(G, t)
          PROVE  \E r \in V : game[r] = g
      <4>1. g \in G /\ ~team_won(g, t)
        BY DEF Lost
      <4>2. PICK r \in U : game[r] = g
        BY <1>5, <4>1
      <4>3. r.won = team_won(g, t)
        BY <1>4, <4>2
      <4>4. team_won(g, t) = FALSE
        BY <4>1
      <4>5. r.won = FALSE
        BY <4>3, <4>4
      <4> QED
        BY <1>10, <4>2, <4>5
    <3> QED
      BY <3>1, <3>2
  <2> QED
    BY <1>8, <1>10, <2>1
<1> QED
  BY <1>1, <1>2, <1>9, <1>10

LEMMA KeyIs ==
  ASSUME NEW d, NEW k
  PROVE  k \in TeamSeasonKeys(d) <=> \E g \in ChampionSeasonGames(d) : \E t \in {g.home_team_id, g.away_team_id} :
                                   k = <<g.season, t>>
<1>1. PICK G : G = ChampionSeasonGames(d)
  OBVIOUS
<1>2. TeamSeasonKeys(d) = UNION {{<<g.season, g.home_team_id>>, <<g.season, g.away_team_id>>} : g \in G}
  BY <1>1 DEF TeamSeasonKeys
<1> QED
  BY <1>1, <1>2

\* Such a season has its team among the teams, and all its games count.
LEMMA KeyHas ==
  ASSUME NEW d, Decisive(d), NEW k \in TeamSeasonKeys(d)
  PROVE  /\ k = <<k[1], k[2]>> /\ k[2] \in DOMAIN records(d, k[1])
         /\ {g \in ChampionSeasonGames(d) : g.season = k[1] /\ PlayedIn(g, k[2])} = RegularGames(d, k[1], k[2])
<1>1. PICK g \in ChampionSeasonGames(d) : \E t \in {g.home_team_id, g.away_team_id} : k = <<g.season, t>>
  BY KeyIs
<1>2. PICK t \in {g.home_team_id, g.away_team_id} : k = <<g.season, t>>
  BY <1>1
<1>3. g \in d.games /\ g.game_type = REGULAR /\ g.season \in Champions(d)
  BY DEF ChampionSeasonGames
<1>4. k[1] = g.season /\ k[2] = t
  BY <1>2
<1>5. g \in RegularGames(d, k[1], k[2])
  BY <1>3, <1>4 DEF RegularGames, PlayedIn
<1>6. t \in {v.id : v \in d.teams}
  BY <1>3 DEF Decisive
<1>7. k[2] \in DOMAIN records(d, k[1])
  <2>1. DOMAIN records(d, k[1]) = {u \in {v.id : v \in d.teams} : RegularGames(d, k[1], u) # {}}
    BY RecordCounts
  <2>2. k[2] \in {v.id : v \in d.teams} /\ RegularGames(d, k[1], k[2]) # {}
    BY <1>4, <1>5, <1>6
  <2> QED
    BY <2>1, <2>2
<1>8. {h \in ChampionSeasonGames(d) : h.season = k[1] /\ PlayedIn(h, k[2])} = RegularGames(d, k[1], k[2])
  BY <1>3, <1>4 DEF ChampionSeasonGames, RegularGames, Decisive
<1> QED
  BY <1>2, <1>4, <1>7, <1>8

\* The table has the same team seasons.
LEMMA KeysOfSides ==
  ASSUME NEW d, Stored(d), SidesTell(d.games, d.sides), Decisive(d)
  PROVE  {<<s.season, s.team_id>> : s \in {r \in d.sides : r.game_type = REGULAR /\ r.season \in Champions(d)}}
           = TeamSeasonKeys(d)
<1>1. PICK R : R = {r \in d.sides : r.game_type = REGULAR /\ r.season \in Champions(d)}
  OBVIOUS
<1>2. ASSUME NEW s \in R
      PROVE  <<s.season, s.team_id>> \in TeamSeasonKeys(d)
  <2>1. s \in d.sides /\ s.game_type = REGULAR /\ s.season \in Champions(d)
    BY <1>1
  <2>2. PICK g \in d.games : /\ completed(g) /\ PlayedIn(g, s.team_id) /\ s.season = g.season
                             /\ s.game_type = g.game_type
    BY <2>1 DEF SidesTell
  <2>3. g \in ChampionSeasonGames(d) /\ s.team_id \in {g.home_team_id, g.away_team_id}
    BY <2>1, <2>2 DEF ChampionSeasonGames, PlayedIn
  <2> QED
    BY <2>2, <2>3, KeyIs
<1>3. ASSUME NEW k \in TeamSeasonKeys(d)
      PROVE  \E s \in R : k = <<s.season, s.team_id>>
  <2>1. PICK g \in ChampionSeasonGames(d) : \E t \in {g.home_team_id, g.away_team_id} : k = <<g.season, t>>
    BY KeyIs
  <2>2. PICK t \in {g.home_team_id, g.away_team_id} : k = <<g.season, t>>
    BY <2>1
  <2>3. g \in d.games /\ g.game_type = REGULAR /\ completed(g) /\ g.season \in Champions(d)
    BY DEF ChampionSeasonGames
  <2>4. g.game_type \in LINE_GAME_TYPES
    BY <2>3 DEF LINE_GAME_TYPES, REGULAR
  <2>5. PICK s \in d.sides : s.team_id = t /\ s.game_id = g.id
    BY <2>3, <2>4 DEF SidesTell
  <2>6. PICK h \in d.games : s.game_id = h.id /\ s.season = h.season /\ s.game_type = h.game_type
    BY <2>5 DEF SidesTell
  <2>7. h = g
    BY <2>3, <2>5, <2>6 DEF Stored
  <2> QED
    BY <1>1, <2>2, <2>3, <2>5, <2>6, <2>7
<1> QED
  BY <1>1, <1>2, <1>3

LEMMA CountedRows ==
  ASSUME NEW S, IsFiniteSet(S), NEW row,
         \A k \in S : /\ {"season", "team_id"} \subseteq DOMAIN row[k] /\ k = <<k[1], k[2]>>
                      /\ row[k].season = k[1] /\ row[k].team_id = k[2]
  PROVE  Cardinality(RowsOf(row, S)) = Cardinality(S)
<1>1. PICK f : f = [k \in S |-> Columns(row[k])]
  OBVIOUS
<1>2. \A k \in S : f[k].season = k[1] /\ f[k].team_id = k[2]
  BY <1>1, ColumnsHas
<1>3. \A j \in S, k \in S : f[j] = f[k] => j = k
  BY <1>2
<1>4. DOMAIN f = S
  BY <1>1
<1>5. Cardinality({f[k] : k \in S}) = Cardinality(S)
  BY <1>3, <1>4, CountedByImage
<1>6. {f[k] : k \in S} = RowsOf(row, S)
  BY <1>1 DEF RowsOf
<1> QED
  BY <1>5, <1>6

LEMMA BestRows ==
  ASSUME NEW d, Decisive(d), NEW spec
  PROVE  season_record(d, spec).rows = RowsOf(BestRow(d), TeamSeasonKeys(d))
<1>1. PICK counted : counted = ChampionSeasonGames(d)
  OBVIOUS
<1>2. PICK keys : keys = TeamSeasonKeys(d)
  OBVIOUS
<1> DEFINE games(k) == {g \in counted : g.season = k[1] /\ PlayedIn(g, k[2])}
           side(k) == [season |-> k[1], team_id |-> k[2], games |-> Cardinality(games(k)),
                       wins |-> Cardinality({g \in games(k) : team_won(g, k[2])})]
           shown(s) == [value |-> <<s.wins, s.games>>, team_id |-> s.team_id, season |-> s.season,
                        wins |-> s.wins, losses |-> s.games - s.wins, games |-> s.games]
<1>3. SeasonSides(d) = {side(k) : k \in keys}
  <2>1. keys = UNION {{<<g.season, g.home_team_id>>, <<g.season, g.away_team_id>>} : g \in counted}
    BY <1>1, <1>2 DEF TeamSeasonKeys
  <2>2. counted = {g \in d.games : g.game_type = REGULAR /\ completed(g) /\ g.season \in Champions(d)}
    BY <1>1 DEF ChampionSeasonGames
  <2> QED
    BY <2>1, <2>2 DEF SeasonSides
<1>4. season_record(d, spec).rows = {Columns(shown(s)) : s \in SeasonSides(d)}
  BY DEF season_record
<1>5. \A k \in keys : BestRow(d)[k] = shown(side(k))
  <2> TAKE k \in keys
  <2>1. PICK G : G = RegularGames(d, k[1], k[2])
    OBVIOUS
  <2>2. games(k) = G
    BY <1>1, <1>2, <2>1, KeyHas
  <2> HIDE DEF games
  <2>3. {g \in G : team_won(g, k[2])} = Won(G, k[2])
    BY DEF Won
  <2>4. PICK wins : wins = Cardinality(Won(G, k[2]))
    OBVIOUS
  <2>5. PICK n : n = Cardinality(G)
    OBVIOUS
  <2>6. side(k) = [season |-> k[1], team_id |-> k[2], games |-> n, wins |-> wins]
    BY <2>2, <2>3, <2>4, <2>5
  <2>7. BestRow(d)[k] = [value |-> <<wins, n>>, team_id |-> k[2], season |-> k[1], wins |-> wins,
                         losses |-> n - wins, games |-> n]
    BY <1>2, <2>1, <2>4, <2>5 DEF BestRow
  <2> QED
    BY <2>6, <2>7
<1> HIDE DEF games, side, shown
<1>6. {Columns(shown(s)) : s \in {side(k) : k \in keys}} = {Columns(shown(side(k))) : k \in keys}
  OBVIOUS
<1>7. {Columns(shown(side(k))) : k \in keys} = RowsOf(BestRow(d), keys)
  BY <1>5 DEF RowsOf
<1> QED
  BY <1>2, <1>3, <1>4, <1>6, <1>7

LEMMA CountRows ==
  ASSUME NEW d, Stored(d), SidesTell(d.games, d.sides), Decisive(d), NEW won
  PROVE  team_seasons(d, CountSpec(won)).rows = RowsOf(CountRow(d, won), TeamSeasonKeys(d))
<1>1. PICK spec : spec = CountSpec(won)
  OBVIOUS
<1>2. spec.measure = "count" /\ spec.won = won /\ spec.column = ""
  BY <1>1 DEF CountSpec, TeamSeason, Spec0
<1>3. PICK keys : keys = TeamSeasonKeys(d)
  OBVIOUS
<1> DEFINE of(k) == {s \in d.sides : s.game_type = REGULAR /\ <<s.season, s.team_id>> = k}
           boxed(k) == {s \in of(k) : SideHas(s, spec.column)}
           total(k, c) == SumOf({s \in of(k) : SideHas(s, c)}, LAMBDA s : SideFigure(s, c))
           attempted(k) == total(k, Attempted(spec.column))
           its(k) == {s \in of(k) : s.won = spec.won}
           listed(k) == CASE spec.measure = "made" -> total(k, spec.column) > 0
                          [] spec.measure = "pct" -> attempted(k) > 0
                          [] spec.measure = "average" -> boxed(k) # {}
                          [] spec.measure = "streak" -> its(k) # {}
                          [] spec.measure = "count" -> TRUE
           value(k) == CASE spec.measure = "made" -> Whole(total(k, spec.column))
                         [] spec.measure = "pct" -> <<total(k, spec.column), attempted(k)>>
                         [] spec.measure = "average" -> <<total(k, spec.column), Cardinality(boxed(k))>>
                         [] spec.measure = "streak" -> Whole(Max({s.streak : s \in its(k)}))
                         [] spec.measure = "count" -> Whole(Cardinality(its(k)))
           row(k) == [value |-> value(k), season |-> k[1], team_id |-> k[2],
                      made |-> IF spec.column \in Made THEN total(k, spec.column) ELSE Null,
                      attempted |-> IF spec.column \in Made THEN attempted(k) ELSE Null]
<1>4. team_seasons(d, spec).rows = {Columns(row(k)) : k \in {j \in keys : listed(j)}}
  BY <1>3, KeysOfSides DEF team_seasons
<1>5. \A k \in keys : listed(k)
  BY <1>2
<1>6. spec.column \notin Made
  BY <1>2, StatsAre
<1>7. ASSUME NEW k \in keys
      PROVE  CountRow(d, won)[k] = row(k)
  <2>1. k = <<k[1], k[2]>>
    BY <1>3, KeyHas
  <2>2. {s \in of(k) : s.won = won} = {r \in SeasonSide(d.sides, k[1], k[2]) : r.won = won}
    BY <2>1 DEF SeasonSide
  <2>3. value(k) = Whole(Cardinality(its(k)))
    BY <1>2
  <2>4. its(k) = {r \in SeasonSide(d.sides, k[1], k[2]) : r.won = won}
    BY <1>2, <2>2
  <2> HIDE DEF its, value, total, attempted
  <2>5. row(k) = [value |-> value(k), season |-> k[1], team_id |-> k[2], made |-> Null, attempted |-> Null]
    BY <1>6
  <2> HIDE DEF row
  <2> QED
    BY <1>3, <2>3, <2>4, <2>5 DEF CountRow
<1> HIDE DEF listed, row
<1>8. {Columns(row(k)) : k \in {j \in keys : listed(j)}} = RowsOf(CountRow(d, won), keys)
  BY <1>5, <1>7 DEF RowsOf
<1> QED
  BY <1>1, <1>3, <1>4, <1>8

LEMMA KeysAreFinite ==
  ASSUME NEW d, Stored(d), SidesAre(d.sides), SidesTell(d.games, d.sides), Decisive(d)
  PROVE  IsFiniteSet(TeamSeasonKeys(d))
<1>1. PICK R : R = {r \in d.sides : r.game_type = REGULAR /\ r.season \in Champions(d)}
  OBVIOUS
<1>2. IsFiniteSet(R)
  BY <1>1, Fewer DEF SidesAre
<1>3. PICK f : f = [s \in R |-> <<s.season, s.team_id>>]
  OBVIOUS
<1>4. IsFiniteSet({f[s] : s \in R})
  BY <1>2, ImageIsFinite
<1>5. {f[s] : s \in R} = TeamSeasonKeys(d)
  <2>1. {f[s] : s \in R} = {<<s.season, s.team_id>> : s \in R}
    BY <1>3
  <2> QED
    BY <1>1, <2>1, KeysOfSides
<1> QED
  BY <1>4, <1>5

\* A regular game has one winner, so the wins of a season's teams are its games.
LEMMA WinsAddUp ==
  ASSUME NEW d, Stored(d), Decisive(d), NEW s
  PROVE  MapThenSumSet(LAMBDA t : records(d, s)[t].wins, DOMAIN records(d, s))
           = Cardinality({g \in d.games : g.season = s /\ g.game_type = REGULAR})
<1>1. PICK found : found = records(d, s)
  OBVIOUS
<1>2. PICK R : R = DOMAIN found
  OBVIOUS
<1>3. PICK count : count = [t \in R |-> found[t].wins]
  OBVIOUS
<1>4. PICK part : part = [t \in R |-> Won(RegularGames(d, s, t), t)]
  OBVIOUS
<1>5. PICK all : all = {g \in d.games : g.season = s /\ g.game_type = REGULAR}
  OBVIOUS
<1>6. R = {u \in {v.id : v \in d.teams} : RegularGames(d, s, u) # {}}
  BY <1>1, <1>2, RecordCounts
<1>7. IsFiniteSet(R)
  <2>1. PICK f : f = [v \in d.teams |-> v.id]
    OBVIOUS
  <2>2. IsFiniteSet({f[v] : v \in d.teams})
    BY ImageIsFinite DEF Stored
  <2>3. R \in SUBSET {f[v] : v \in d.teams}
    BY <1>6, <2>1
  <2> QED
    BY <2>2, <2>3, Fewer
<1>8. ASSUME NEW t \in R
      PROVE  IsFiniteSet(part[t]) /\ count[t] = Cardinality(part[t])
  <2>1. RegularGames(d, s, t) \in SUBSET d.games
    BY DEF RegularGames
  <2>2. IsFiniteSet(Won(RegularGames(d, s, t), t))
    BY <2>1, WonAndLost
  <2>3. records(d, s)[t].wins = Cardinality(Won(RegularGames(d, s, t), t))
    BY <1>1, <1>2, RecordCounts
  <2> QED
    BY <1>1, <1>3, <1>4, <2>2, <2>3
<1>9. ASSUME NEW t \in R, NEW g
      PROVE  g \in part[t] <=> g \in all /\ PlayedIn(g, t) /\ team_won(g, t)
  BY <1>4, <1>5 DEF Won, RegularGames
<1>10. ASSUME NEW g \in all
       PROVE  /\ g.home_score \in Int /\ g.away_score \in Int /\ g.home_score # g.away_score
              /\ g.home_team_id # g.away_team_id /\ g \in d.games
              /\ g.home_team_id \in {v.id : v \in d.teams} /\ g.away_team_id \in {v.id : v \in d.teams}
  <2>1. g \in d.games /\ g.game_type = REGULAR
    BY <1>5
  <2> QED
    BY <2>1, GameHas DEF Decisive
<1>11. ASSUME NEW t \in R, NEW u \in R, t # u
       PROVE  part[t] \cap part[u] = {}
  <2> SUFFICES ASSUME NEW g, g \in part[t], g \in part[u]
               PROVE  FALSE
    OBVIOUS
  <2>1. g \in all /\ PlayedIn(g, t) /\ team_won(g, t) /\ PlayedIn(g, u) /\ team_won(g, u)
    BY <1>9
  <2> QED
    BY <1>10, <1>11, <2>1 DEF PlayedIn, team_won, Score, Opponent
<1>12. AllOf(part, R) = all
  <2>1. ASSUME NEW g \in all
        PROVE  \E t \in R : g \in part[t]
    <3>1. PICK t \in {g.home_team_id, g.away_team_id} : team_won(g, t)
      BY <1>10 DEF team_won, Score, Opponent
    <3>2. g \in RegularGames(d, s, t)
      BY <1>5, <1>10 DEF RegularGames, PlayedIn
    <3>3. t \in R
      BY <1>6, <1>10, <3>2
    <3> QED
      BY <1>9, <3>1, <3>3 DEF PlayedIn
  <2>2. ASSUME NEW t \in R
        PROVE  part[t] \subseteq all
    BY <1>9
  <2> QED
    BY <2>1, <2>2 DEF AllOf
<1>13. SumOver(count, R) = Cardinality(all)
  BY <1>7, <1>8, <1>11, <1>12, CountedInParts
<1>14. MapThenSumSet(LAMBDA t : found[t].wins, R) = SumOver(count, R)
  <2> DEFINE step(i) == [T \in SUBSET R |->
                           IF T = {} THEN 0
                           ELSE found[CHOOSE x \in T : TRUE].wins + i[T \ {CHOOSE x \in T : TRUE}]]
  <2>1. MapThenSumSet(LAMBDA t : found[t].wins, R) = (CHOOSE i : i = step(i))[R]
    BY DEF MapThenSumSet, MapThenFoldSet
  <2>2. \A i : (i = step(i)) <=> IsSum(i, count, R)
    <3> TAKE i
    <3>1. \A T \in SUBSET R : T # {} => found[CHOOSE x \in T : TRUE].wins = count[CHOOSE x \in T : TRUE]
      BY <1>3
    <3>2. step(i) = [T \in SUBSET R |->
                       IF T = {} THEN 0
                       ELSE count[CHOOSE x \in T : TRUE] + i[T \ {CHOOSE x \in T : TRUE}]]
      BY <3>1
    <3> QED
      BY <3>2 DEF IsSum, Pick
  <2> HIDE DEF step
  <2>3. \E h : h = step(h)
    BY <1>7, <2>2, SumExists
  <2>4. PICK h : h = CHOOSE i : i = step(i)
    OBVIOUS
  <2>5. IsSum(h, count, R)
    BY <2>2, <2>3, <2>4
  <2>6. PICK c : c = [r \in R |-> count[r]]
    OBVIOUS
  <2>7. Total(c) = h[R]
    BY <1>7, <2>5, <2>6, TotalIs
  <2>8. SumFunction(c) = Total(c)
    BY DEF SumFunction, SumFunctionOnSet, FoldFunctionOnSet, Total, MapThenSumSet, MapThenFoldSet
  <2> QED
    BY <2>1, <2>4, <2>6, <2>7, <2>8 DEF SumOver
<1>15. MapThenSumSet(LAMBDA t : records(d, s)[t].wins, DOMAIN records(d, s))
         = MapThenSumSet(LAMBDA t : found[t].wins, R)
  BY <1>1, <1>2
<1> QED
  BY <1>5, <1>13, <1>14, <1>15

\* The statement for all seasons names the champion that each season's names.
LEMMA ChampionIs ==
  ASSUME NEW d, Stored(d), \A v \in d.teams : v.id \in Nat, NEW s, NEW t \in {v.id : v \in d.teams}
  PROVE  <<s, t>> \in season_champions(d) <=> s \in {g.season : g \in d.games} /\ champion(d, s).champion = t
<1>1. PICK order : order = finals_order(d, s)
  OBVIOUS
<1>2. PICK won : won = finals_wins(d, s, order[1])
  OBVIOUS
<1>3. won \in Nat
  <2>1. {g \in finals(d, s) : team_won(g, order[1])} \in SUBSET d.games
    BY DEF finals
  <2> QED
    BY <1>2, <2>1, Fewer DEF finals_wins, Stored
<1>4. champion(d, s).champion = IF order = <<>> \/ won < FINALS_WINS THEN Null ELSE order[1]
  BY <1>1, <1>2 DEF champion
<1>5. t # Null
  BY DEF Null
<1>6. <<s, t>> \in season_champions(d) <=>
        s \in {g.season : g \in d.games} /\ order # <<>> /\ order[1] = t /\ finals_wins(d, s, t) >= FINALS_WINS
  <2>1. PICK pairs : pairs = {g.season : g \in d.games} \X {v.id : v \in d.teams}
    OBVIOUS
  <2> DEFINE holds(k) == LET first == finals_order(d, k[1])
                         IN first # <<>> /\ first[1] = k[2] /\ finals_wins(d, k[1], k[2]) >= FINALS_WINS
  <2>2. season_champions(d) = {k \in pairs : holds(k)}
    BY <2>1 DEF season_champions
  <2>3. holds(<<s, t>>) <=> order # <<>> /\ order[1] = t /\ finals_wins(d, s, t) >= FINALS_WINS
    BY <1>1
  <2>4. <<s, t>> \in pairs <=> s \in {g.season : g \in d.games}
    BY <2>1
  <2> HIDE DEF holds
  <2> QED
    BY <2>2, <2>3, <2>4
<1> QED
  BY <1>2, <1>3, <1>4, <1>5, <1>6, CapsAssumption

LEMMA TitlesAre ==
  ASSUME NEW d, Stored(d), \A v \in d.teams : v.id \in Nat, NEW t \in {v.id : v \in d.teams}
  PROVE  /\ Cardinality({k \in season_champions(d) : k[2] = t}) = Cardinality(Titles(d, t))
         /\ (\E k \in season_champions(d) : k[2] = t) <=> Titles(d, t) # {}
<1>1. PICK S : S = Titles(d, t)
  OBVIOUS
<1>2. PICK K : K = {k \in season_champions(d) : k[2] = t}
  OBVIOUS
<1>3. IsFiniteSet(S)
  <2>1. PICK f : f = [g \in d.games |-> g.season]
    OBVIOUS
  <2>2. IsFiniteSet({f[g] : g \in d.games})
    BY ImageIsFinite DEF Stored
  <2>3. S \in SUBSET {f[g] : g \in d.games}
    BY <1>1, <2>1 DEF Titles
  <2> QED
    BY <2>2, <2>3, Fewer
<1>4. PICK f : f = [s \in S |-> <<s, t>>]
  OBVIOUS
<1>5. K = {f[s] : s \in S}
  <2>1. ASSUME NEW s \in S
        PROVE  f[s] \in K
    BY <1>1, <1>2, <1>4, ChampionIs DEF Titles
  <2>2. ASSUME NEW k \in K
        PROVE  \E s \in S : f[s] = k
    <3>1. k \in season_champions(d) /\ k[2] = t
      BY <1>2
    <3>2. k = <<k[1], t>>
      BY <3>1 DEF season_champions
    <3>3. <<k[1], t>> \in season_champions(d)
      BY <3>1, <3>2
    <3>4. k[1] \in S
      BY <1>1, <3>3, ChampionIs DEF Titles
    <3> QED
      BY <1>4, <3>2, <3>4
  <2> QED
    BY <2>1, <2>2
<1>6. Cardinality(K) = Cardinality(S)
  <2>1. DOMAIN f = S /\ \A x \in S, y \in S : f[x] = f[y] => x = y
    BY <1>4
  <2>2. Cardinality({f[x] : x \in S}) = Cardinality(S)
    BY <1>3, <2>1, CountedByImage
  <2> QED
    BY <1>5, <2>2
<1>7. K # {} <=> S # {}
  BY <1>5
<1> QED
  BY <1>1, <1>2, <1>6, <1>7

LEMMA TitlesAgree ==
  ASSUME NEW d, Stored(d), \A v \in d.teams : v.id \in Nat
  PROVE  {<<r.team_id, r.value[1]>> : r \in team_championships(d).rows}
           = {<<t, Cardinality(Titles(d, t))>> : t \in {u \in {v.id : v \in d.teams} : Titles(d, u) # {}}}
<1>1. PICK T : T = {u \in {v.id : v \in d.teams} : Titles(d, u) # {}}
  OBVIOUS
<1> DEFINE won(t) == {k \in season_champions(d) : k[2] = t}
           row(t) == [value |-> Whole(Cardinality(won(t))), team_id |-> t]
<1>2. {k[2] : k \in season_champions(d)} = T
  <2>1. \A k \in season_champions(d) : k[2] \in {v.id : v \in d.teams}
    BY DEF season_champions
  <2>2. \A t \in {v.id : v \in d.teams} : (\E k \in season_champions(d) : k[2] = t) <=> Titles(d, t) # {}
    BY TitlesAre
  <2>3. PICK ids : ids = {v.id : v \in d.teams}
    OBVIOUS
  <2> QED
    BY <1>1, <2>1, <2>2, <2>3
<1>3. team_championships(d).rows = {Columns(row(t)) : t \in T}
  BY <1>2 DEF team_championships
<1>4. ASSUME NEW t \in T
      PROVE  Columns(row(t)).team_id = t /\ Columns(row(t)).value[1] = Cardinality(Titles(d, t))
  <2>1. {"team_id", "value"} \subseteq DOMAIN row(t) /\ row(t).team_id = t
        /\ row(t).value = <<Cardinality(won(t)), 1>>
    BY DEF Whole
  <2>2. Cardinality(won(t)) = Cardinality(Titles(d, t))
    BY <1>1, TitlesAre
  <2> HIDE DEF row, won
  <2> QED
    BY <2>1, <2>2, ColumnsHas
<1> HIDE DEF row
<1>5. {<<r.team_id, r.value[1]>> : r \in {Columns(row(t)) : t \in T}} = {<<t, Cardinality(Titles(d, t))>> : t \in T}
  BY <1>4
<1> QED
  BY <1>1, <1>3, <1>5


\* Rows of nothing add nothing.
LEMMA ZerosAddNothing ==
  ASSUME NEW S, IsFiniteSet(S), NEW c, \A x \in S : x[c] \in Int, NEW T \in SUBSET S,
         \A x \in S \ T : x[c] = 0
  PROVE  ColumnTotal(S, c) = ColumnTotal(T, c)
<1>1. ASSUME NEW X \in SUBSET S
      PROVE  ColumnTotal(X, c) = Total([x \in X |-> x[c]])
  BY DEF ColumnTotal, SumFunction, SumFunctionOnSet, FoldFunctionOnSet, Total, MapThenSumSet, MapThenFoldSet
<1>2. PICK B : B = {X \in SUBSET S : T \subseteq X /\ ColumnTotal(X, c) = ColumnTotal(S, c)}
  OBVIOUS
<1>3. B \subseteq SUBSET S /\ B # {}
  <2>1. S \in B
    BY <1>2
  <2> QED
    BY <1>2, <2>1
<1>4. PICK X \in B : \A Y \in B : Y \subseteq X => Y = X
  BY <1>3, Smallest
<1>5. X \in SUBSET S /\ T \subseteq X /\ ColumnTotal(X, c) = ColumnTotal(S, c)
  BY <1>2
<1>6. ASSUME NEW y \in X, y \notin T
      PROVE  FALSE
  <2>1. PICK Y : Y = X \ {y}
    OBVIOUS
  <2>2. PICK s : s = [x \in X |-> x[c]]
    OBVIOUS
  <2>3. PICK r : r = [x \in Y |-> x[c]]
    OBVIOUS
  <2>4. Total(s) = s[y] + Total(r)
    <3>1. IsFiniteSet(DOMAIN s)
      BY <1>5, <2>2, FS_Subset
    <3>2. \A x \in DOMAIN s : s[x] \in Int
      BY <1>5, <2>2
    <3>3. y \in DOMAIN s /\ DOMAIN r = DOMAIN s \ {y} /\ \A x \in DOMAIN r : r[x] = s[x]
      BY <1>6, <2>1, <2>2, <2>3
    <3> QED
      BY <3>1, <3>2, <3>3, TotalWith
  <2>5. s[y] = 0
    BY <1>5, <1>6, <2>2
  <2>6. Total(r) \in Int
    <3>1. IsFiniteSet(DOMAIN r)
      BY <1>5, <2>1, <2>3, FS_Subset
    <3>2. \A x \in DOMAIN r : r[x] \in Int
      BY <1>5, <2>1, <2>3
    <3> QED
      BY <3>1, <3>2, TotalIsInt
  <2>7. Y \in SUBSET S /\ T \subseteq Y /\ ColumnTotal(X, c) = Total(s) /\ ColumnTotal(Y, c) = Total(r)
    BY <1>1, <1>5, <1>6, <2>1, <2>2, <2>3
  <2>8. ColumnTotal(Y, c) = ColumnTotal(S, c)
    BY <1>5, <2>4, <2>5, <2>6, <2>7
  <2>9. Y \in B
    BY <1>2, <2>7, <2>8
  <2> QED
    BY <1>4, <1>6, <2>1, <2>9
<1>7. X = T
  BY <1>5, <1>6
<1> QED
  BY <1>5, <1>7

LEMMA TableIsBoxed ==
  ASSUME NEW d, Stored(d)
  PROVE  SidesBoxed(d.lines, TeamGameTotals(d))
<1> SUFFICES ASSUME NEW s \in TeamGameTotals(d)
             PROVE  \A c \in BoxColumns :
                      s[c] = IF SideBox(d.lines, s) = {} THEN Null ELSE ColumnTotal(SideBox(d.lines, s), c)
  BY DEF SidesBoxed
<1>1. PICK g \in d.games : \E t \in {g.home_team_id, g.away_team_id} : s = TeamGameTotal(d, g, t)
  BY SideTotalsFrom
<1>2. PICK t \in {g.home_team_id, g.away_team_id} : s = TeamGameTotal(d, g, t)
  BY <1>1
<1>3. s.game_id = g.id /\ s.team_id = t
  BY <1>2, SideTotalHas
<1>4. PICK box : box = SideBox(d.lines, s)
  OBVIOUS
<1>5. box = {l \in d.lines : l.game_id = g.id /\ l.team_id = t}
  BY <1>3, <1>4 DEF SideBox
<1> DEFINE keys == [game_id |-> g.id, team_id |-> t, opponent_id |-> Opponent(g, t), season |-> g.season,
                    date |-> g.date, game_type |-> g.game_type, score |-> Score(g, t),
                    opponent_score |-> Score(g, Opponent(g, t)), won |-> team_won(g, t),
                    streak |-> Streak(d, g, t)]
           sums == [c \in BoxColumns |-> IF box = {} THEN Null ELSE SumOf(box, LAMBDA l : l[c])]
<1>6. s = Beside(keys, sums)
  BY <1>2, <1>5 DEF TeamGameTotal, BoxColumns
<1>7. DOMAIN keys = {"game_id", "team_id", "opponent_id", "season", "date", "game_type", "score", "opponent_score",
                     "won", "streak"}
  OBVIOUS
<1>8. DOMAIN sums = BoxColumns
  OBVIOUS
<1>9. \A c \in BoxColumns : sums[c] = IF box = {} THEN Null ELSE ColumnTotal(box, c)
  BY DEF ColumnTotal, SumOf
<1> HIDE DEF keys, sums
<1>10. \A c \in BoxColumns : c \notin DOMAIN keys
  BY <1>7, StatsAre DEF BoxColumns
<1>11. \A c \in BoxColumns : s[c] = sums[c]
  BY <1>6, <1>8, <1>10 DEF Beside
<1> QED
  BY <1>4, <1>9, <1>11

\* What a box score's totals are.
LEMMA TotalsSumTheLines ==
  ASSUME NEW lines, NEW c \in COUNTING_STATS
  PROVE  team_box_score(lines).totals[c] = ColumnTotal({l \in lines : played(l)}, c)
<1>1. PICK on : on = {l \in lines : played(l)}
  OBVIOUS
<1>2. team_box_score(lines).totals = shooting(on)
  BY <1>1 DEF team_box_score
<1>3. PICK total : total = [k \in COUNTING_STATS |-> SumOf(on, LAMBDA l : l[k])]
  OBVIOUS
<1> DEFINE more == [seconds_played |-> SumOf({l \in on : played(l)}, LAMBDA l : l.seconds_played),
                    field_goal_pct |-> pct(total.field_goals_made, total.field_goals_attempted),
                    three_point_pct |-> pct(total.three_pointers_made, total.three_pointers_attempted),
                    free_throw_pct |-> pct(total.free_throws_made, total.free_throws_attempted)]
<1>4. shooting(on) = Beside(total, more)
  BY <1>3 DEF shooting
<1>5. DOMAIN total = COUNTING_STATS /\ total[c] = ColumnTotal(on, c)
  BY <1>3 DEF SumOf, ColumnTotal
<1> HIDE DEF more
<1>6. Beside(total, more)[c] = total[c]
  BY <1>5, BesideHas
<1> QED
  BY <1>1, <1>2, <1>4, <1>5, <1>6

\* A game's totals are those of the team's row.
LEMMA BoxIsTotalled ==
  ASSUME NEW d, Stored(d), SidesBoxed(d.lines, d.sides),
         NEW s \in d.sides, NEW g \in d.games, g.id = s.game_id, PlayedIn(g, s.team_id),
         \A l \in d.lines : l.game_id = g.id => PlayedIn(g, l.team_id),
         \A l \in d.lines : ~played(l) => \A c \in Shots \cup {"rebounds", "assists"} : l[c] = 0
  PROVE  TotalsAreTheBoxs(s, g, game_detail(d, g))
<1>1. PICK detail : detail = game_detail(d, g)
  OBVIOUS
<1>2. PICK box : box = SideBox(d.lines, s)
  OBVIOUS
<1>3. ~detail.raises
  BY <1>1 DEF game_detail
<1>4. (IF g.home_team_id = s.team_id THEN detail.home ELSE detail.away) = team_box_score(box)
  <2> DEFINE lines(t) == {l \in d.lines : l.game_id = g.id /\ l.team_id = t}
  <2>1. detail.home = team_box_score(lines(g.home_team_id)) /\ detail.away = team_box_score(lines(g.away_team_id))
    BY <1>1 DEF game_detail
  <2>2. box = lines(s.team_id)
    BY <1>2 DEF SideBox
  <2>3. s.team_id = g.home_team_id \/ s.team_id = g.away_team_id
    BY DEF PlayedIn
  <2> HIDE DEF lines
  <2> QED
    BY <2>1, <2>2, <2>3
<1>5. ASSUME s.rebounds # Null, NEW c \in Shots \cup {"rebounds", "assists"}
      PROVE  s[c] = team_box_score(box).totals[c]
  <2>1. c \in BoxColumns /\ c \in COUNTING_STATS /\ c \in LineColumns /\ "rebounds" \in BoxColumns
    BY StatsAre DEF BoxColumns, COUNTING_STATS, LineColumns
  <2>2. box # {}
    BY <1>2, <1>5, <2>1 DEF SidesBoxed
  <2>3. s[c] = ColumnTotal(box, c)
    BY <1>2, <2>1, <2>2 DEF SidesBoxed
  <2>4. PICK on : on = {l \in box : played(l)}
    OBVIOUS
  <2>5. ColumnTotal(box, c) = ColumnTotal(on, c)
    <3>1. box \in SUBSET d.lines /\ IsFiniteSet(box)
      BY <1>2, Fewer DEF SideBox, Stored
    <3>2. \A l \in box : l[c] \in Int
      BY <2>1, <3>1 DEF Stored
    <3>3. on \in SUBSET box /\ \A l \in box \ on : l[c] = 0
      BY <2>4, <3>1
    <3> QED
      BY <3>1, <3>2, <3>3, ZerosAddNothing
  <2>6. team_box_score(box).totals[c] = ColumnTotal(on, c)
    BY <2>1, <2>4, TotalsSumTheLines
  <2> QED
    BY <2>3, <2>5, <2>6
<1> QED
  BY <1>1, <1>3, <1>4, <1>5 DEF TotalsAreTheBoxs

-----------------------------------------------------------------------------
(* Records: the inductive invariant *)

\* Games and lines of the dataset are as they should be.
LEMMA DatasetIsStored ==
  ASSUME NEW d, d.teams = Teams, IsFiniteSet(d.games), IsFiniteSet(d.lines),
         \A g \in d.games : \E e \in Dataset : g = e.game,
         \A l \in d.lines : \E e \in Dataset : l \in e.lines /\ e.game \in d.games
  PROVE  Stored(d)
<1>1. IsFiniteSet(d.teams) /\ \A t \in d.teams : t.id \in Int
  BY TeamsAssumption
<1>2. \A g \in d.games : \A c \in GameColumns : g[c] \in Int
  BY DatasetAssumption
<1>3. ASSUME NEW g \in d.games, NEW h \in d.games, g.id = h.id
      PROVE  g = h
  BY <1>3, DatasetAssumption
<1>4. ASSUME NEW g \in d.games, NEW h \in d.games, NEW t \in {g.home_team_id, g.away_team_id},
             g.date = h.date, PlayedIn(h, t)
      PROVE  g = h
  <2>1. PICK e \in Dataset : g = e.game
    OBVIOUS
  <2>2. PICK f \in Dataset : h = f.game
    OBVIOUS
  <2>3. e = f
    BY <1>4, <2>1, <2>2, DatasetAssumption
  <2> QED
    BY <2>1, <2>2, <2>3
<1>5. ASSUME NEW l \in d.lines
      PROVE  (\A c \in LineColumns : l[c] \in Int) /\ \E g \in d.games : g.id = l.game_id
  <2>1. PICK e \in Dataset : l \in e.lines /\ e.game \in d.games
    OBVIOUS
  <2> QED
    BY <2>1, DatasetAssumption
<1>6. ASSUME NEW l \in d.lines, NEW m \in d.lines, l.id = m.id
      PROVE  l = m
  BY <1>6, DatasetAssumption
<1>7. ASSUME NEW l \in d.lines, NEW m \in d.lines, l.game_id = m.game_id, l.player_id = m.player_id
      PROVE  l = m
  <2>1. PICK e \in Dataset : l \in e.lines
    OBVIOUS
  <2>2. PICK f \in Dataset : m \in f.lines
    OBVIOUS
  <2>3. e.game.id = f.game.id
    BY <1>7, <2>1, <2>2, DatasetAssumption
  <2>4. e = f
    BY <2>3, DatasetAssumption
  <2> QED
    BY <1>7, <2>1, <2>2, <2>4, DatasetAssumption
<1> QED
  BY <1>1, <1>2, <1>3, <1>4, <1>5, <1>6, <1>7 DEF Stored

LEMMA RecordsInitially == RecordsInit => RecordsInv
<1> SUFFICES ASSUME RecordsInit
             PROVE  RecordsInv
  OBVIOUS
<1>1. /\ DOMAIN db = {"teams", "players", "games", "lines", "seasons", "sides"}
      /\ db.teams = Teams /\ db.players = Players /\ db.games = {} /\ db.lines = {} /\ db.seasons = {} /\ db.sides = {}
  BY DEF RecordsInit
<1>2. IsFiniteSet({})
  BY FS_EmptySet
<1> QED
  BY <1>1, <1>2 DEF RecordsInv, SeasonsAre, SeasonsAddUp, SidesAre, SidesTell, SidesBoxed

LEMMA RecordsStep == RecordsInv /\ [RecordsNext]_db => RecordsInv'
<1> SUFFICES ASSUME RecordsInv, [RecordsNext]_db
             PROVE  RecordsInv'
  OBVIOUS
<1>1. ASSUME NEW e \in Dataset, LoadGame(e)
      PROVE  RecordsInv'
  <2>1. PICK loaded : loaded = [db EXCEPT !.games = @ \cup {e.game}, !.lines = @ \cup e.lines]
    OBVIOUS
  <2>2. db' = [loaded EXCEPT !.seasons = PlayerSeasonTotals(loaded), !.sides = TeamGameTotals(loaded)]
    BY <1>1, <2>1 DEF LoadGame, rebuild_record_totals
  <2>3. /\ DOMAIN loaded = {"teams", "players", "games", "lines", "seasons", "sides"}
        /\ loaded.teams = Teams /\ loaded.players = Players
        /\ loaded.games = db.games \cup {e.game} /\ loaded.lines = db.lines \cup e.lines
    BY <2>1 DEF RecordsInv
  <2>4. IsFiniteSet(loaded.games) /\ IsFiniteSet(loaded.lines)
    <3>1. IsFiniteSet(db.games \cup {e.game})
      BY FS_AddElement DEF RecordsInv
    <3>2. IsFiniteSet(db.lines \cup e.lines)
      BY FS_Union, DatasetAssumption DEF RecordsInv
    <3> QED
      BY <2>3, <3>1, <3>2
  <2>5. /\ \A g \in loaded.games : \E f \in Dataset : g = f.game
        /\ \A l \in loaded.lines : \E f \in Dataset : l \in f.lines /\ f.game \in loaded.games
    BY <2>3 DEF RecordsInv
  <2>6. Stored(loaded)
    BY <2>3, <2>4, <2>5, DatasetIsStored
  <2>7. SeasonsAre(PlayerSeasonTotals(loaded)) /\ SidesAre(TeamGameTotals(loaded))
    BY <2>6, SeasonTotalsAre, SideTotalsAre
  <2>8. /\ DOMAIN db' = DOMAIN loaded
        /\ db'.teams = loaded.teams /\ db'.players = loaded.players
        /\ db'.games = loaded.games /\ db'.lines = loaded.lines
        /\ db'.seasons = PlayerSeasonTotals(loaded) /\ db'.sides = TeamGameTotals(loaded)
    <3>1. PICK seasons : seasons = PlayerSeasonTotals(loaded)
      OBVIOUS
    <3>2. PICK sides : sides = TeamGameTotals(loaded)
      OBVIOUS
    <3>3. db' = [loaded EXCEPT !.seasons = seasons, !.sides = sides]
      BY <2>2, <3>1, <3>2
    <3> QED
      BY <2>3, <3>1, <3>2, <3>3
  <2>9. SeasonsAddUp(loaded, PlayerSeasonTotals(loaded))
    BY <2>6, TableAddsUp
  <2>10. Stored(db')
    BY <2>3, <2>4, <2>5, <2>8, DatasetIsStored
  <2>11. SeasonsAddUp(db', db'.seasons)
    BY <2>6, <2>8, <2>9, <2>10, SameLines
  <2>12. SidesTell(db'.games, db'.sides)
    BY <2>6, <2>8, TableTells
  <2>13. SidesBoxed(db'.lines, db'.sides)
    BY <2>6, <2>8, TableIsBoxed
  <2> QED
    BY <2>3, <2>4, <2>5, <2>7, <2>8, <2>11, <2>12, <2>13 DEF RecordsInv
<1>2. CASE UNCHANGED db
  <2>1. db' = db
    BY <1>2
  <2>2. SeasonsAddUp(db', db'.seasons)
    BY <2>1 DEF RecordsInv
  <2> QED
    BY <2>1, <2>2 DEF RecordsInv
<1> QED
  BY <1>1, <1>2 DEF RecordsNext

\* At all times what is stored is games of the dataset with lines of theirs, and
\* each table of totals has one row for each of its keys, a player's the sum of
\* the player's lines and a team's that of one of its completed games, summed
\* from its box score (record_totals.rebuild_record_totals, run by every load).
THEOREM RecordsTypeOK == RecordsSpec => []RecordsInv
<1> QED
  BY RecordsInitially, RecordsStep, PTL DEF RecordsSpec

LEMMA HoldersHead == RecordsInv => HolderHeadsTheList
<1> SUFFICES ASSUME RecordsInv, NEW i \in DOMAIN RECORDS
             PROVE  HeadsItsList(RECORDS[i], candidates(db, RECORDS[i].spec))
  BY DEF HolderHeadsTheList
<1>1. PICK record : record = RECORDS[i]
  OBVIOUS
<1>2. PICK c : c = candidates(db, record.spec)
  OBVIOUS
<1>3. Stored(db) /\ SeasonsAre(db.seasons) /\ SidesAre(db.sides)
  BY DatasetIsStored DEF RecordsInv
<1>4. Listable(c)
  BY <1>1, <1>2, <1>3, RegistryFits, CandidatesList
<1>5. record_holders(db, <<record.id>>)[record.id] = first_of(c, record.value_kind)
  <2>1. record.id \in ToSet(<<record.id>>)
    BY DEF ToSet
  <2>2. record_holders(db, <<record.id>>)[record.id] = record_holder(db, RECORDS_BY_ID[record.id])
    BY <2>1 DEF record_holders
  <2>3. RECORDS_BY_ID[record.id] = record
    BY <1>1, RegistryFits
  <2> QED
    BY <1>2, <2>2, <2>3 DEF record_holder
<1>6. HeadsItsList(record, c)
  BY <1>2, <1>4, <1>5, HeadsList
<1> QED
  BY <1>1, <1>2, <1>6

\* At all times the holder of every record in the registry is the first entry of
\* its list and counts everyone level with it, and the list's pages of one are
\* its entries, each ranked by how many candidates of the whole database are
\* better (records.py's _holder_statement and _list_statement): for any caps and
\* minimums, over any dataset in which a team is in one game at a time.
THEOREM HolderHeads == RecordsSpec => []HolderHeadsTheList
<1> QED
  BY RecordsTypeOK, HoldersHead, PTL

LEMMA TotalsCompared == RecordsInv => TotalsAgree
<1> SUFFICES ASSUME RecordsInv, NEW p
             PROVE  /\ SeasonsAgree(SeasonRows(p), player_detail(db, p).seasons)
                    /\ ValuesOf(career_triple_doubles(db).rows, p)
                         = ValuesOf(careers(db, CareerTotal("triple_doubles", REGULAR)).rows, p)
                    /\ ValuesOf(careers(db, CareerTotal("games", "playoffs")).rows, p)
                         = {player_detail(db, p).career_playoffs.games_played} \ {0}
  BY DEF TotalsAgree
<1>1. Stored(db) /\ SeasonsAre(db.seasons) /\ SeasonsAddUp(db, db.seasons)
  BY DatasetIsStored DEF RecordsInv
<1>2. SeasonsAgree(SeasonRows(p), player_detail(db, p).seasons)
  BY <1>1, SeasonsSay DEF SeasonRows
<1> QED
  BY <1>1, <1>2, TotalsSay

\* At all times the table of season totals says what a player's page computes
\* from the box scores: one row for each season line, with its games, minutes
\* and points and one of its teams; and the career totals summed from the table
\* are those counted from the lines (record_totals.py's PLAYER_SEASON_TOTALS_SQL
\* beside service.py's player_detail), for any dataset in which a player has one
\* line in a game.
THEOREM TotalsAlwaysAgree == RecordsSpec => []TotalsAgree
<1> QED
  BY RecordsTypeOK, TotalsCompared, PTL

LEMMA StreaksRun == RecordsInv => StreakIsARun
<1> SUFFICES ASSUME RecordsInv, NEW s \in db.sides
             PROVE  LET upto == Ranked(UpTo(db.sides, s), LaterRow)
                    IN /\ s.streak \in 1..Len(upto)
                       /\ \A i \in 1..s.streak : upto[i].won = s.won
                       /\ s.streak < Len(upto) => upto[s.streak + 1].won # s.won
  BY DEF StreakIsARun, UpTo, LaterRow
<1>1. Stored(db) /\ SidesAre(db.sides) /\ SidesTell(db.games, db.sides)
  BY DatasetIsStored DEF RecordsInv
<1> QED
  BY <1>1, StreakSays

\* At all times a stored streak is as long as the run of the row's own result
\* that ends with it, and no longer: the games of the team's season and type,
\* latest first, went the same way that many times and the one before them did
\* not (record_totals.py's TEAM_GAME_TOTALS_SQL, which subtracts two numberings
\* of the games to tell one run from the next). One of the parts of FiguresAgree.
THEOREM StreaksAlwaysRun == RecordsSpec => []StreakIsARun
<1> QED
  BY RecordsTypeOK, StreaksRun, PTL

LEMMA LeadersLead == RecordsInv => LeadersQualify
<1> SUFFICES ASSUME RecordsInv, NEW s \in {g.season : g \in db.games}, NEW type \in LINE_GAME_TYPES,
                    NEW stat \in {"points", "rebounds"}
             PROVE  LET top == leaders(db, s, stat, type, 2)
                        lines(p) == {l \in CountedLines(db, p) : Game(db, l).season = s /\ Game(db, l).game_type = type}
                        mean(p) == <<SumOf(lines(p), LAMBDA l : l[stat]), Cardinality(lines(p))>>
                        shown(p) == per_game(mean(p)[1], mean(p)[2])
                        qualifies(p) == lines(p) # {} /\ Cardinality(lines(p)) >= qualifier(db, s, type)
                    IN /\ \A i \in DOMAIN top :
                            /\ qualifies(top[i].player) /\ top[i].average = shown(top[i].player)
                            /\ top[i].games_played = stat_line(lines(top[i].player)).games_played
                            /\ top[i].teams = ToSet(season_teams(db, top[i].player, <<s, type>>))
                       /\ \A p \in {q.id : q \in db.players} \ {top[i].player : i \in DOMAIN top} :
                            qualifies(p) => Len(top) = 2 /\ ~More(mean(p), mean(top[2].player))
  BY DEF LeadersQualify
<1> DEFINE lines(p) == {l \in CountedLines(db, p) : Game(db, l).season = s /\ Game(db, l).game_type = type}
           mean(p) == <<SumOf(lines(p), LAMBDA l : l[stat]), Cardinality(lines(p))>>
           qualifies(p) == lines(p) # {} /\ Cardinality(lines(p)) >= qualifier(db, s, type)
           top == leaders(db, s, stat, type, 2)
<1>1. Stored(db)
  BY DatasetIsStored DEF RecordsInv
<1>2. \A p : lines(p) = SeasonLines(db, p, s, type)
  BY DEF SeasonLines
<1> HIDE DEF lines
<1>3. \A p : mean(p) = MeanOf(db, p, s, type, stat)
  BY <1>2 DEF MeanOf
<1>4. \A p : p \in Qualify(db, s, type) <=> p \in {q.id : q \in db.players} /\ qualifies(p)
  BY <1>2 DEF Qualify
<1>5. \A p : LeaderOf(db, s, type, stat, p).average = per_game(mean(p)[1], mean(p)[2])
  BY <1>3 DEF LeaderOf
<1> HIDE DEF mean, qualifies, top
<1>6. /\ \A i \in DOMAIN top :
           /\ top[i].player \in Qualify(db, s, type)
           /\ top[i] = LeaderOf(db, s, type, stat, top[i].player)
           /\ top[i].games_played = stat_line(SeasonLines(db, top[i].player, s, type)).games_played
           /\ top[i].teams = ToSet(season_teams(db, top[i].player, <<s, type>>))
      /\ \A p \in Qualify(db, s, type) \ {top[i].player : i \in DOMAIN top} :
           Len(top) = 2 /\ ~More(MeanOf(db, p, s, type, stat), MeanOf(db, top[2].player, s, type, stat))
  BY <1>1, LeadersSay DEF top
<1>7. ASSUME NEW i \in DOMAIN top
      PROVE  /\ qualifies(top[i].player)
             /\ top[i].average = per_game(mean(top[i].player)[1], mean(top[i].player)[2])
             /\ top[i].games_played = stat_line(lines(top[i].player)).games_played
             /\ top[i].teams = ToSet(season_teams(db, top[i].player, <<s, type>>))
  BY <1>2, <1>4, <1>5, <1>6
<1>8. ASSUME NEW p \in {q.id : q \in db.players} \ {top[i].player : i \in DOMAIN top}, qualifies(p)
      PROVE  Len(top) = 2 /\ ~More(mean(p), mean(top[2].player))
  BY <1>3, <1>4, <1>6, <1>8
<1> QED
  BY <1>7, <1>8 DEF lines, mean, qualifies, top

\* At all times the leaders of a season are players who have played the games the
\* rule asks for, with the average, the games and the teams of the season line
\* on the player's own page, and nobody who has played them and is left out has
\* a higher average (service.leaders beside player_detail). One of the parts of
\* FiguresAgree.
THEOREM LeadersAlwaysQualify == RecordsSpec => []LeadersQualify
<1> QED
  BY RecordsTypeOK, LeadersLead, PTL

-----------------------------------------------------------------------------
(* Records: what may be linked has something to show *)

LEMMA FinalsHavePreviews ==
  ASSUME NEW d, Stored(d), NEW g \in d.games
  PROVE  LET scores == game_final_previews(d, {h.id : h \in d.games})
         IN /\ g.id \in DOMAIN scores
            /\ scores[g.id].home_score = g.home_score /\ scores[g.id].away_score = g.away_score
            /\ validate_game_final(d, g.id) = "ok" => completed(g)
<1>1. PICK ids : ids = {h.id : h \in d.games}
  OBVIOUS
<1>2. PICK scores : scores = game_final_previews(d, ids)
  OBVIOUS
<1>3. PICK game : game = [i \in ids |-> CHOOSE h \in d.games : h.id = i]
  OBVIOUS
<1>4. game[g.id] = g
  BY <1>1, <1>3 DEF Stored
<1>5. scores = [i \in ids |-> [home |-> game[i].home_team_id, away |-> game[i].away_team_id,
                               home_score |-> game[i].home_score, away_score |-> game[i].away_score]]
  <2>1. ids \cap {h.id : h \in d.games} = ids
    BY <1>1
  <2>2. scores = [i \in ids |-> LET h == CHOOSE x \in d.games : x.id = i
                                IN [home |-> h.home_team_id, away |-> h.away_team_id,
                                    home_score |-> h.home_score, away_score |-> h.away_score]]
    BY <1>2, <2>1 DEF game_final_previews
  <2>3. \A i \in ids : game[i] = CHOOSE x \in d.games : x.id = i
    BY <1>3
  <2> QED
    BY <2>2, <2>3
<1>6. g.id \in ids
  BY <1>1
<1>7. validate_game_final(d, g.id) = "ok" => completed(g)
  <2>1. g \in {h \in d.games : h.id = g.id}
    OBVIOUS
  <2> QED
    BY <2>1 DEF validate_game_final
<1> QED
  BY <1>1, <1>2, <1>4, <1>5, <1>6, <1>7

LEMMA LinesHavePreviews ==
  ASSUME NEW d, Stored(d), NEW l \in d.lines
  PROVE  LET lines == player_game_previews(d, {m.id : m \in d.lines})
             g == Game(d, l)
         IN /\ g \in d.games /\ lines[l.id].game = g.id
            /\ lines[l.id].is_home = (g.home_team_id = l.team_id)
            /\ lines[l.id].team_score = Score(g, l.team_id)
            /\ lines[l.id].opponent_score = Score(g, Opponent(g, l.team_id))
            /\ lines[l.id].seconds_played = l.seconds_played
            /\ validate_player_game(d, l.id) = "ok" => played(l)
<1>1. PICK ids : ids = {m.id : m \in d.lines}
  OBVIOUS
<1>2. PICK lines : lines = player_game_previews(d, ids)
  OBVIOUS
<1>3. PICK line : line = [i \in ids |-> CHOOSE m \in d.lines : m.id = i]
  OBVIOUS
<1>4. PICK game : game = [i \in ids |-> Game(d, line[i])]
  OBVIOUS
<1>5. line[l.id] = l
  BY <1>1, <1>3 DEF Stored
<1> DEFINE row(i) == [game |-> game[i].id, team |-> line[i].team_id, opponent |-> Opponent(game[i], line[i].team_id),
                      is_home |-> game[i].home_team_id = line[i].team_id, team_score |-> Score(game[i], line[i].team_id),
                      opponent_score |-> Score(game[i], Opponent(game[i], line[i].team_id)),
                      seconds_played |-> line[i].seconds_played, points |-> line[i].points]
<1>6. lines = [i \in ids |-> row(i)]
  <2>1. ids \cap {m.id : m \in d.lines} = ids
    BY <1>1
  <2> DEFINE chosen(i) == CHOOSE m \in d.lines : m.id = i
             its(m, g) == [game |-> g.id, team |-> m.team_id, opponent |-> Opponent(g, m.team_id),
                           is_home |-> g.home_team_id = m.team_id, team_score |-> Score(g, m.team_id),
                           opponent_score |-> Score(g, Opponent(g, m.team_id)),
                           seconds_played |-> m.seconds_played, points |-> m.points]
  <2>2. lines = [i \in ids |-> its(chosen(i), Game(d, chosen(i)))]
    BY <1>2, <2>1 DEF player_game_previews
  <2>3. \A i \in ids : chosen(i) = line[i] /\ Game(d, chosen(i)) = game[i]
    BY <1>3, <1>4
  <2>4. \A i \in ids : row(i) = its(line[i], game[i])
    OBVIOUS
  <2> HIDE DEF chosen, its, row
  <2> QED
    BY <2>2, <2>3, <2>4
<1>7. l.id \in ids
  BY <1>1
<1>8. PICK g : g = Game(d, l)
  OBVIOUS
<1>9. game[l.id] = g
  BY <1>4, <1>5, <1>7, <1>8
<1>10. lines[l.id] = row(l.id)
  BY <1>6, <1>7
<1>11. /\ row(l.id).game = g.id /\ row(l.id).is_home = (g.home_team_id = l.team_id)
       /\ row(l.id).team_score = Score(g, l.team_id)
       /\ row(l.id).opponent_score = Score(g, Opponent(g, l.team_id))
       /\ row(l.id).seconds_played = l.seconds_played
  BY <1>5, <1>9
<1> HIDE DEF row
<1>12. validate_player_game(d, l.id) = "ok" => played(l)
  <2>1. l \in {m \in d.lines : m.id = l.id}
    OBVIOUS
  <2> QED
    BY <2>1 DEF validate_player_game
<1>13. g \in d.games
  BY <1>8, GameIs
<1> QED
  BY <1>1, <1>2, <1>8, <1>10, <1>11, <1>12, <1>13

LEMMA CareersHavePreviews ==
  ASSUME NEW d, Stored(d), NEW p \in {q.id : q \in d.players}, NEW scope \in LINE_GAME_TYPES,
         validate_player_career(d, p, scope) = "ok"
  PROVE  ShowsTheCareer(player_career_previews(d, {q.id : q \in d.players} \X LINE_GAME_TYPES)[<<p, scope>>],
                        player_detail(d, p), scope)
<1>1. PICK lines : lines = {l \in CountedLines(d, p) : Game(d, l).game_type = scope}
  OBVIOUS
<1>2. PICK l \in d.lines : l.player_id = p /\ played(l) /\ Game(d, l).game_type = scope
  BY DEF validate_player_career
<1>3. l \in lines /\ lines \in SUBSET d.lines /\ \A m \in lines : played(m)
  BY <1>1, <1>2 DEF CountedLines
<1>4. Cardinality(lines) \in Nat \ {0}
  BY <1>3, Fewer DEF Stored
<1>5. stat_line(lines).games_played > 0
  BY <1>3, <1>4, LineSays
<1>6. player_career_previews(d, {q.id : q \in d.players} \X LINE_GAME_TYPES)[<<p, scope>>] = stat_line(lines)
  <2>1. PICK keys : keys = {q.id : q \in d.players} \X LINE_GAME_TYPES
    OBVIOUS
  <2>2. PICK wanted : wanted = {k \in keys : k[2] \in LINE_GAME_TYPES /\ k[1] \in {q.id : q \in d.players}}
    OBVIOUS
  <2> DEFINE of(k) == {m \in d.lines : m.player_id = k[1] /\ played(m) /\ Game(d, m).game_type = k[2]}
  <2>3. player_career_previews(d, keys) = [k \in wanted |-> stat_line(of(k))]
    BY <2>2 DEF player_career_previews
  <2>4. <<p, scope>> \in wanted
    BY <2>1, <2>2
  <2>5. of(<<p, scope>>) = lines
    BY <1>1 DEF CountedLines
  <2> HIDE DEF of
  <2> QED
    BY <2>1, <2>3, <2>4, <2>5
<1>7. stat_line(lines) = IF scope = "regular" THEN player_detail(d, p).career_regular
                                              ELSE player_detail(d, p).career_playoffs
  <2> DEFINE career(type) == stat_line({m \in CountedLines(d, p) : Game(d, m).game_type = type})
  <2>1. player_detail(d, p).career_regular = career("regular") /\ player_detail(d, p).career_playoffs = career("playoffs")
    BY DEF player_detail
  <2>2. stat_line(lines) = career(scope)
    BY <1>1
  <2> HIDE DEF career
  <2>3. scope = "regular" \/ scope = "playoffs"
    BY DEF LINE_GAME_TYPES
  <2> QED
    BY <2>1, <2>2, <2>3
<1> QED
  BY <1>5, <1>6, <1>7 DEF ShowsTheCareer

LEMMA LinksPreviewed ==
  ASSUME TwoTeams
  PROVE  RecordsInv => LinksHaveAPreview
<1> SUFFICES ASSUME RecordsInv
             PROVE  LinksHaveAPreview
  OBVIOUS
<1>1. PICK scores : scores = game_final_previews(db, {g.id : g \in db.games})
  OBVIOUS
<1>2. PICK lines : lines = player_game_previews(db, {l.id : l \in db.lines})
  OBVIOUS
<1>3. PICK totals : totals = player_career_previews(db, {p.id : p \in db.players} \X LINE_GAME_TYPES)
  OBVIOUS
<1>4. Stored(db) /\ \A g \in db.games : g.home_team_id # g.away_team_id
  BY DatasetIsStored DEF RecordsInv, TwoTeams
<1>5. ASSUME NEW g \in db.games
      PROVE  /\ g.id \in DOMAIN scores
             /\ scores[g.id].home_score = g.home_score /\ scores[g.id].away_score = g.away_score
             /\ validate_game_final(db, g.id) = "ok" => completed(g)
  BY <1>1, <1>4, FinalsHavePreviews
<1>6. ASSUME NEW i \in {g.id : g \in db.games}, validate_game_final(db, i) = "ok"
      PROVE  i \in DOMAIN scores /\ scores[i].home_score + scores[i].away_score > 0
  BY <1>5, <1>6 DEF completed
<1>7. ASSUME NEW i \in {l.id : l \in db.lines}, validate_player_game(db, i) = "ok"
      PROVE  ShowsTheScore(lines[i], scores[lines[i].game])
  <2>1. PICK l \in db.lines : i = l.id
    OBVIOUS
  <2>2. PICK g : g = Game(db, l)
    OBVIOUS
  <2>3. /\ g \in db.games /\ lines[i].game = g.id /\ lines[i].is_home = (g.home_team_id = l.team_id)
        /\ lines[i].team_score = Score(g, l.team_id)
        /\ lines[i].opponent_score = Score(g, Opponent(g, l.team_id))
        /\ lines[i].seconds_played = l.seconds_played /\ played(l)
    BY <1>2, <1>4, <1>7, <2>1, <2>2, LinesHavePreviews
  <2>4. scores[g.id].home_score = g.home_score /\ scores[g.id].away_score = g.away_score
    BY <1>5, <2>3
  <2>5. g.home_team_id # g.away_team_id
    BY <1>4, <2>3
  <2>6. lines[i].seconds_played # Null
    BY <2>3 DEF played
  <2>7. {Score(g, l.team_id), Score(g, Opponent(g, l.team_id))} = {g.home_score, g.away_score}
    BY <2>5 DEF Score, Opponent
  <2>8. Score(g, l.team_id) = IF g.home_team_id = l.team_id THEN g.home_score ELSE g.away_score
    BY DEF Score
  <2> QED
    BY <2>3, <2>4, <2>6, <2>7, <2>8 DEF ShowsTheScore
<1>8. ASSUME NEW p \in {q.id : q \in db.players}, NEW scope \in LINE_GAME_TYPES,
             validate_player_career(db, p, scope) = "ok"
      PROVE  ShowsTheCareer(totals[<<p, scope>>], player_detail(db, p), scope)
  BY <1>3, <1>4, <1>8, CareersHavePreviews
<1> QED
  BY <1>1, <1>2, <1>3, <1>6, <1>7, <1>8 DEF LinksHaveAPreview, ArePreviews

\* At all times whatever a post may link has something to show: a final its
\* score, a line its seconds and the score from the player's side, a career at
\* least one game and the figures of the player's own page (service.py's
\* validators and previews), where no team plays itself. One of the parts of
\* PagesAgree.
THEOREM LinksAlwaysHaveAPreview ==
  ASSUME TwoTeams
  PROVE  RecordsSpec => []LinksHaveAPreview
<1> QED
  BY RecordsTypeOK, LinksPreviewed, PTL
\* What a row of the season record says, and the two rows of counts beside it.
LEMMA BestSays ==
  ASSUME NEW d, Stored(d), SidesAre(d.sides), SidesTell(d.games, d.sides), Decisive(d), NEW k \in TeamSeasonKeys(d)
  PROVE  LET r == Columns(BestRow(d)[k])
             found == records(d, k[1])
         IN /\ r.season = k[1] /\ r.team_id = k[2] /\ k[2] \in DOMAIN found
            /\ r.wins = found[k[2]].wins /\ r.losses = found[k[2]].losses
            /\ \A won \in BOOLEAN :
                 LET w == Columns(CountRow(d, won)[k])
                 IN /\ w.season = k[1] /\ w.team_id = k[2]
                    /\ w.value = Whole(IF won THEN r.wins ELSE r.losses)
<1>1. PICK s : s = k[1]
  OBVIOUS
<1>2. PICK t : t = k[2]
  OBVIOUS
<1>3. PICK G : G = RegularGames(d, s, t)
  OBVIOUS
<1>4. PICK wins : wins = Cardinality(Won(G, t))
  OBVIOUS
<1>5. PICK losses : losses = Cardinality(Lost(G, t))
  OBVIOUS
<1>6. PICK row : row = BestRow(d)[k]
  OBVIOUS
<1>7. Cardinality(G) - wins = losses
  <2>1. G \in SUBSET d.games
    BY <1>3 DEF RegularGames
  <2> QED
    BY <1>4, <1>5, <2>1, WonAndLost
<1>8. row = [value |-> <<wins, Cardinality(G)>>, team_id |-> t, season |-> s,
             wins |-> wins, losses |-> Cardinality(G) - wins, games |-> Cardinality(G)]
  BY <1>1, <1>2, <1>3, <1>4, <1>6 DEF BestRow
<1>9. Columns(row).season = s /\ Columns(row).team_id = t /\ Columns(row).wins = wins /\ Columns(row).losses = losses
  <2>1. /\ {"season", "team_id", "wins", "losses"} \subseteq DOMAIN row
        /\ row.season = s /\ row.team_id = t /\ row.wins = wins /\ row.losses = losses
    BY <1>7, <1>8
  <2> QED
    BY <2>1, ColumnsHas
<1>10. t \in DOMAIN records(d, s)
  BY <1>1, <1>2, KeyHas
<1>11. records(d, s)[t].wins = wins /\ records(d, s)[t].losses = losses
  BY <1>3, <1>4, <1>5, <1>10, RecordCounts
<1>12. ASSUME NEW won \in BOOLEAN
       PROVE  LET w == Columns(CountRow(d, won)[k])
              IN w.season = s /\ w.team_id = t /\ w.value = Whole(IF won THEN wins ELSE losses)
  <2>1. PICK n : n = Cardinality({r \in SeasonSide(d.sides, s, t) : r.won = won})
    OBVIOUS
  <2>2. n = IF won THEN wins ELSE losses
    <3>1. /\ Cardinality({r \in SeasonSide(d.sides, s, t) : r.won = TRUE}) = wins
          /\ Cardinality({r \in SeasonSide(d.sides, s, t) : r.won = FALSE}) = losses
      BY <1>3, <1>4, <1>5, SideCounts
    <3>2. CASE won
      <4>1. won = TRUE
        BY <3>2
      <4> QED
        BY <2>1, <3>1, <4>1
    <3>3. CASE ~won
      <4>1. won = FALSE
        BY <3>3
      <4> QED
        BY <2>1, <3>1, <4>1
    <3> QED
      BY <3>2, <3>3
  <2>3. PICK w : w = CountRow(d, won)[k]
    OBVIOUS
  <2>4. w = [value |-> Whole(n), season |-> s, team_id |-> t, made |-> Null, attempted |-> Null]
    BY <1>1, <1>2, <2>1, <2>3 DEF CountRow
  <2>5. {"season", "team_id", "value"} \subseteq DOMAIN w /\ w.season = s /\ w.team_id = t /\ w.value = Whole(n)
    BY <2>4
  <2>6. Columns(w).season = s /\ Columns(w).team_id = t /\ Columns(w).value = Whole(n)
    BY <2>5, ColumnsHas
  <2> QED
    BY <2>2, <2>3, <2>6
<1> QED
  BY <1>1, <1>2, <1>6, <1>9, <1>10, <1>11, <1>12

LEMMA RecordsCompared ==
  ASSUME TwoTeams, Decided
  PROVE  RecordsInv => RecordsAgree
<1> SUFFICES ASSUME RecordsInv
             PROVE  RecordsAgree
  OBVIOUS
<1>1. /\ Stored(db) /\ SidesAre(db.sides) /\ SidesTell(db.games, db.sides)
      /\ \A v \in db.teams : v.id \in Nat
  BY DatasetIsStored, TeamsAssumption DEF RecordsInv
<1>2. Decisive(db)
  BY DatasetAssumption DEF RecordsInv, Decisive, TwoTeams, Decided
<1>3. PICK K : K = TeamSeasonKeys(db)
  OBVIOUS
<1>4. PICK best : best = season_record(db, SeasonRecord(TRUE)).rows
  OBVIOUS
<1>5. PICK counts : counts = [won \in BOOLEAN |-> team_seasons(db, CountSpec(won)).rows]
  OBVIOUS
<1>6. best = RowsOf(BestRow(db), K)
  BY <1>2, <1>3, <1>4, BestRows
<1>7. \A won \in BOOLEAN : counts[won] = RowsOf(CountRow(db, won), K)
  BY <1>1, <1>2, <1>3, <1>5, CountRows
<1>8. ASSUME NEW r \in best
      PROVE  LET found == records(db, r.season)
             IN /\ r.team_id \in DOMAIN found
                /\ r.wins = found[r.team_id].wins /\ r.losses = found[r.team_id].losses
                /\ \E w \in counts[TRUE] : w.season = r.season /\ w.team_id = r.team_id /\ w.value = Whole(r.wins)
                /\ \E w \in counts[FALSE] : w.season = r.season /\ w.team_id = r.team_id /\ w.value = Whole(r.losses)
  <2>1. PICK k \in K : r = Columns(BestRow(db)[k])
    BY <1>6 DEF RowsOf
  <2>2. PICK found : found = records(db, k[1])
    OBVIOUS
  <2>3. PICK row : row = [won \in BOOLEAN |-> Columns(CountRow(db, won)[k])]
    OBVIOUS
  <2>4. /\ r.season = k[1] /\ r.team_id = k[2] /\ k[2] \in DOMAIN found
        /\ r.wins = found[k[2]].wins /\ r.losses = found[k[2]].losses
        /\ \A won \in BOOLEAN : /\ row[won].season = k[1] /\ row[won].team_id = k[2]
                                /\ row[won].value = Whole(IF won THEN r.wins ELSE r.losses)
    BY <1>1, <1>2, <1>3, <2>1, <2>2, <2>3, BestSays
  <2>5. row[TRUE] \in counts[TRUE] /\ row[FALSE] \in counts[FALSE]
    BY <1>7, <2>3 DEF RowsOf
  <2>6. row[TRUE].value = Whole(r.wins) /\ row[FALSE].value = Whole(r.losses)
    BY <2>4
  <2> QED
    BY <2>2, <2>4, <2>5, <2>6
<1>9. Cardinality(best) = Cardinality(counts[TRUE])
  <2>1. IsFiniteSet(K)
    BY <1>1, <1>2, <1>3, KeysAreFinite
  <2>2. ASSUME NEW k \in K
        PROVE  k = <<k[1], k[2]>>
    BY <1>2, <1>3, KeyHas
  <2>3. Cardinality(RowsOf(BestRow(db), K)) = Cardinality(K)
    <3>1. \A k \in K : /\ {"season", "team_id"} \subseteq DOMAIN BestRow(db)[k]
                       /\ BestRow(db)[k].season = k[1] /\ BestRow(db)[k].team_id = k[2]
      BY <1>3 DEF BestRow
    <3> QED
      BY <2>1, <2>2, <3>1, CountedRows
  <2>4. Cardinality(RowsOf(CountRow(db, TRUE), K)) = Cardinality(K)
    <3>1. \A k \in K : /\ {"season", "team_id"} \subseteq DOMAIN CountRow(db, TRUE)[k]
                       /\ CountRow(db, TRUE)[k].season = k[1] /\ CountRow(db, TRUE)[k].team_id = k[2]
      BY <1>3 DEF CountRow
    <3> QED
      BY <2>1, <2>2, <3>1, CountedRows
  <2> QED
    BY <1>6, <1>7, <2>3, <2>4
<1>10. \A s : MapThenSumSet(LAMBDA t : records(db, s)[t].wins, DOMAIN records(db, s))
                = Cardinality({g \in db.games : g.season = s /\ g.game_type = REGULAR})
  BY <1>1, <1>2, WinsAddUp
<1>11. {<<r.team_id, r.value[1]>> : r \in team_championships(db).rows}
         = {<<t, Cardinality(Titles(db, t))>> : t \in {u \in {v.id : v \in db.teams} : Titles(db, u) # {}}}
  BY <1>1, TitlesAgree
<1>12. \A won \in BOOLEAN :
         counts[won] = team_seasons(db, [TeamSeason("", "count") EXCEPT !.won = won]).rows
  BY <1>5 DEF CountSpec
<1> QED
  BY <1>4, <1>8, <1>9, <1>10, <1>11, <1>12 DEF RecordsAgree, Titles

LEMMA FiguresCompared ==
  ASSUME TwoTeams, Decided
  PROVE  RecordsInv => FiguresAgree
BY RecordsCompared, StreaksRun, LeadersLead DEF FiguresAgree

\* At all times what a team's season, a streak and a page of leaders say agrees
\* wherever it is read: of the games themselves by records, season_record,
\* champion and leaders (service.py, records.py), or of the tables that
\* record_totals.py derives from them; where no team plays itself and every
\* regular season game has a winner.
THEOREM FiguresAlwaysAgree ==
  ASSUME TwoTeams, Decided
  PROVE  RecordsSpec => []FiguresAgree
<1> QED
  BY RecordsTypeOK, FiguresCompared, PTL

-----------------------------------------------------------------------------
(* Records: what two pages show of the same rows *)

\* A list that is asked for whole is all the rows in their order.
LEMMA WholePage ==
  ASSUME NEW S, IsFiniteSet(S), NEW rel, Orders(rel, S), NEW limit \in Nat \ {0}, Cardinality(S) <= limit
  PROVE  /\ Paged(InOrder(rel, S), limit, 0) = InOrder(rel, S)
         /\ ToSet(InOrder(rel, S)) = S
<1>1. PICK all : all = InOrder(rel, S)
  OBVIOUS
<1>2. PICK n : n = Cardinality(S)
  OBVIOUS
<1>3. n \in Nat
  BY <1>2, FS_CardinalityType
<1>4. /\ all \in Seq(S) /\ Len(all) = n /\ DOMAIN all = 1..n
      /\ \A i \in 1..n : all[i] \in S
      /\ \A x \in S : Place(rel, S, x) \in 1..n /\ all[Place(rel, S, x)] = x
  BY <1>1, <1>2, Listing, Places
<1>5. ToSet(all) = S
  BY <1>4 DEF ToSet
<1>6. Paged(all, limit, 0) = all
  <2>1. PICK offset \in Nat : offset = 0
    OBVIOUS
  <2>2. PICK page : page = Paged(all, limit, offset)
    OBVIOUS
  <2>3. /\ page \in Seq(S)
        /\ Len(page) = IF offset >= Len(all) THEN 0
                       ELSE IF offset + limit < Len(all) THEN limit ELSE Len(all) - offset
        /\ \A i \in 1..Len(page) : page[i] = all[offset + i]
    BY <1>4, <2>2, PageIs
  <2>4. Len(page) = n
    BY <1>2, <1>3, <1>4, <2>1, <2>3
  <2>5. \A i \in 1..n : page[i] = all[i]
    BY <1>3, <2>1, <2>3, <2>4
  <2>6. page = all
    BY <1>4, <2>3, <2>4, <2>5
  <2> QED
    BY <2>1, <2>2, <2>6
<1> QED
  BY <1>1, <1>5, <1>6

\* Games, latest first.
LEMMA GamesInOrder ==
  ASSUME NEW d, Stored(d), NEW S \in SUBSET d.games
  PROVE  /\ IsFiniteSet(S) /\ Cardinality(S) \in Nat /\ Cardinality(S) <= Cardinality(d.games)
         /\ Orders(LaterIn(S), S) /\ Ranked(S, Later) = InOrder(LaterIn(S), S)
<1>1. IsFiniteSet(S) /\ Cardinality(S) \in Nat /\ Cardinality(S) <= Cardinality(d.games)
  BY Fewer, FS_Subset DEF Stored
<1>2. \A g \in S, h \in S : Later(g, h) <=> <<g, h>> \in LaterIn(S)
  BY DEF LaterIn
<1>3. Orders(LaterIn(S), S)
  <2>1. /\ \A g \in S : ~Later(g, g)
        /\ \A g \in S, h \in S : g = h \/ Later(g, h) \/ Later(h, g)
        /\ \A g \in S, h \in S, k \in S : Later(g, h) /\ Later(h, k) => Later(g, k)
    BY LaterOrders
  <2> QED
    BY <1>2, <2>1 DEF Orders
<1>4. Ranked(S, Later) = InOrder(LaterIn(S), S)
  <2> DEFINE p == [x \in S |-> 1 + Cardinality({y \in S : Later(y, x)})]
             q == [x \in S |-> 1 + Cardinality({y \in S : <<y, x>> \in LaterIn(S)})]
  <2>1. \A x \in S : {y \in S : Later(y, x)} = {y \in S : <<y, x>> \in LaterIn(S)}
    BY <1>2
  <2>2. p = q
    BY <2>1
  <2> HIDE DEF p, q
  <2>3. InOrder(LaterIn(S), S) = [i \in 1..Cardinality(S) |-> CHOOSE x \in S : q[x] = i]
    BY DEF Ranked, InOrder, q
  <2>4. InOrder(LaterIn(S), S) = [i \in 1..Cardinality(S) |-> CHOOSE x \in S : p[x] = i]
    BY <2>2, <2>3
  <2> QED
    BY <2>4 DEF Ranked, p
<1> QED
  BY <1>1, <1>3, <1>4

LEMMA GamesListed ==
  ASSUME NEW d, Stored(d), NEW limit \in Nat \ {0}, Cardinality(d.games) <= limit,
         NEW S \in SUBSET d.games
  PROVE  /\ Paged(Ranked(S, Later), limit, 0) = InOrder(LaterIn(S), S)
         /\ ToSet(InOrder(LaterIn(S), S)) = S
<1>1. /\ IsFiniteSet(S) /\ Cardinality(S) \in Nat /\ Cardinality(S) <= Cardinality(d.games)
      /\ Orders(LaterIn(S), S) /\ Ranked(S, Later) = InOrder(LaterIn(S), S)
  BY GamesInOrder
<1>2. Cardinality(S) <= limit
  <2>1. Cardinality(d.games) \in Nat
    BY FS_CardinalityType DEF Stored
  <2> QED
    BY <1>1, <2>1
<1> QED
  BY <1>1, <1>2, WholePage

\* A team's season shows the games listed for it, and no more wins than it won.
LEMMA SeasonIsListed ==
  ASSUME NEW d, Stored(d), NEW limit \in Nat \ {0}, Cardinality(d.games) <= limit, NEW t \in Nat, NEW s \in Nat
  PROVE  ListsTheSeason(team_season(d, t, s), list_games(d, s, t, "any", Null, Null, limit, 0),
                        filter_games(d, s, t, "any"), game_ids_for_team(d, t))
<1>1. PICK S : S = TeamSeasonGames(d, t, s)
  OBVIOUS
<1>2. PICK all : all = InOrder(LaterIn(S), S)
  OBVIOUS
<1>3. PICK n : n = Cardinality(S)
  OBVIOUS
<1>4. PICK shown : shown = team_season(d, t, s)
  OBVIOUS
<1>5. S \in SUBSET d.games /\ t # Null /\ s # Null
  BY <1>1 DEF TeamSeasonGames, Null
<1>6. /\ IsFiniteSet(S) /\ n \in Nat /\ Orders(LaterIn(S), S) /\ Ranked(S, Later) = all
      /\ ToSet(all) = S
  BY <1>2, <1>3, <1>5, GamesInOrder, GamesListed
<1>7. /\ DOMAIN all = 1..n /\ \A i \in 1..n : all[i] \in S
      /\ \A g \in S : Place(LaterIn(S), S, g) \in 1..n /\ all[Place(LaterIn(S), S, g)] = g
  BY <1>2, <1>3, <1>6, Listing, Places
<1>8. list_games(d, s, t, "any", Null, Null, limit, 0) = all
  <2>1. {g \in d.games : /\ Passes(s, g.season)
                         /\ t = Null \/ PlayedIn(g, t)
                         /\ "any" = "any" \/ "any" = g.game_type
                         /\ Null = Null \/ g.date >= Null * HoursADay
                         /\ Null = Null \/ g.date < (Null + 1) * HoursADay} = S
    BY <1>1, <1>5 DEF TeamSeasonGames, Passes
  <2>2. list_games(d, s, t, "any", Null, Null, limit, 0) = Paged(Ranked(S, Later), limit, 0)
    BY <2>1 DEF list_games
  <2> QED
    BY <1>2, <1>5, <2>2, GamesListed
<1>9. filter_games(d, s, t, "any") = S
  BY <1>1, <1>5 DEF filter_games, Passes, TeamSeasonGames
<1>10. \A g \in S : g.id \in game_ids_for_team(d, t)
  BY <1>1 DEF game_ids_for_team, TeamSeasonGames
<1> DEFINE row(g) == [game_id |-> g.id, opponent |-> Opponent(g, t), is_home |-> g.home_team_id = t,
                      team_score |-> Score(g, t), opponent_score |-> Score(g, Opponent(g, t)),
                      won |-> team_won(g, t)]
           record == IF t \in DOMAIN records(d, s) THEN records(d, s)[t] ELSE NO_RECORD
<1>11. shown.record = record /\ shown.games = [i \in 1..n |-> row(all[i])]
  <2>1. {g \in d.games : g.season = s /\ PlayedIn(g, t)} = S
    BY <1>1 DEF TeamSeasonGames
  <2>2. shown = [record |-> record, games |-> [i \in DOMAIN Ranked(S, Later) |-> row(Ranked(S, Later)[i])]]
    BY <1>4, <2>1 DEF team_season
  <2>3. shown = [record |-> record, games |-> [i \in DOMAIN all |-> row(all[i])]]
    BY <1>6, <2>2
  <2> HIDE DEF row, record
  <2>4. shown.record = record /\ shown.games = [i \in DOMAIN all |-> row(all[i])]
    BY <2>3
  <2> QED
    BY <1>7, <2>4
<1>12. PICK games : games = shown.games
  OBVIOUS
<1>13. DOMAIN games = 1..n /\ \A i \in 1..n : games[i].game_id = all[i].id /\ games[i].won = team_won(all[i], t)
  BY <1>11, <1>12
<1> HIDE DEF row
<1>14. [i \in DOMAIN games |-> games[i].game_id] = Listed(all)
  BY <1>7, <1>13 DEF Listed
<1>15. ToSet(Listed(all)) = {g.id : g \in S}
  <2>1. DOMAIN Listed(all) = 1..n /\ \A i \in 1..n : Listed(all)[i] = all[i].id
    BY <1>7 DEF Listed
  <2> QED
    BY <1>7, <2>1 DEF ToSet
<1>16. record.wins <= Cardinality({i \in DOMAIN games : games[i].won})
  <2>1. PICK won : won = {i \in DOMAIN games : games[i].won}
    OBVIOUS
  <2>2. IsFiniteSet(won) /\ Cardinality(won) \in Nat
    <3>1. IsFiniteSet(1..n)
      BY <1>6, FS_Interval
    <3> QED
      BY <1>13, <2>1, <3>1, Fewer
  <2>3. CASE t \notin DOMAIN records(d, s)
    BY <2>1, <2>2, <2>3 DEF NO_RECORD
  <2>4. CASE t \in DOMAIN records(d, s)
    <3>1. PICK W : W = Won(RegularGames(d, s, t), t)
      OBVIOUS
    <3>2. record.wins = Cardinality(W)
      BY <2>4, <3>1, RecordCounts
    <3>3. W \in SUBSET S /\ IsFiniteSet(W) /\ \A g \in W : team_won(g, t)
      <4>1. W \in SUBSET S /\ \A g \in W : team_won(g, t)
        BY <1>1, <3>1 DEF Won, RegularGames, TeamSeasonGames
      <4> QED
        BY <1>6, <4>1, FS_Subset
    <3>4. PICK place : place = [g \in W |-> Place(LaterIn(S), S, g)]
      OBVIOUS
    <3>5. \A g \in W : place[g] \in 1..n /\ all[place[g]] = g
      BY <1>7, <3>3, <3>4
    <3>6. DOMAIN place = W
      BY <3>4
    <3>7. Cardinality({place[g] : g \in W}) = Cardinality(W)
      <4>1. \A g \in W, h \in W : place[g] = place[h] => g = h
        BY <3>5
      <4> QED
        BY <3>3, <3>6, <4>1, CountedByImage
    <3>8. {place[g] : g \in W} \in SUBSET won
      BY <1>13, <2>1, <3>3, <3>5
    <3>9. Cardinality({place[g] : g \in W}) <= Cardinality(won)
      BY <2>2, <3>8, FS_Subset
    <3> QED
      BY <2>1, <3>2, <3>7, <3>9
  <2> QED
    BY <2>3, <2>4
<1> HIDE DEF record
<1> QED
  BY <1>4, <1>8, <1>9, <1>10, <1>11, <1>12, <1>14, <1>15, <1>16 DEF ListsTheSeason

\* The whole days of a date are those of its hours.
LEMMA DayIs ==
  ASSUME NEW date \in Nat, NEW day \in Nat, NEW h \in Nat \ {0}
  PROVE  date \div h = day <=> date >= day * h /\ date < (day + 1) * h
<1>1. PICK q \in Nat : q = date \div h
  OBVIOUS
<1>2. PICK r \in Nat : r = date % h
  OBVIOUS
<1>3. date = q * h + r /\ r < h
  BY <1>1, <1>2
<1>4. (day + 1) * h = day * h + h /\ (q + 1) * h = q * h + h
  OBVIOUS
<1>5. q = day => date >= day * h /\ date < (day + 1) * h
  BY <1>3, <1>4
<1>6. q < day => (q + 1) * h <= day * h
  <2>1. q < day => q + 1 <= day
    OBVIOUS
  <2>2. (q + 1) > day \/ (q + 1) = day \/ day > (q + 1)
    OBVIOUS
  <2> QED
    BY <2>1, <2>2, Scaled
<1>7. q > day => q * h >= (day + 1) * h
  <2>1. q > day => q >= day + 1
    OBVIOUS
  <2>2. q > day + 1 \/ q = day + 1 \/ day + 1 > q
    OBVIOUS
  <2> QED
    BY <2>1, <2>2, Scaled
<1>8. q * h \in Int /\ day * h \in Int
  OBVIOUS
<1>9. q < day => date < day * h
  BY <1>3, <1>4, <1>6, <1>8
<1>10. q > day => date >= (day + 1) * h
  BY <1>3, <1>7, <1>8
<1> QED
  BY <1>1, <1>4, <1>5, <1>8, <1>9, <1>10

\* The games listed from a day to that day are the day's.
LEMMA DayIsListed ==
  ASSUME NEW d, Stored(d), NEW limit \in Nat \ {0}, Cardinality(d.games) <= limit, NEW day \in Nat,
         \A g \in d.games : g.date \in Nat
  PROVE  ToSet(list_games(d, Null, Null, "any", day, day, limit, 0)) = DayGames(d, day)
<1>1. PICK S : S = DayGames(d, day)
  OBVIOUS
<1>2. day # Null /\ HoursADay \in Nat \ {0}
  BY CapsAssumption DEF Null
<1>3. \A g \in d.games : Day(g) = day <=> g.date >= day * HoursADay /\ g.date < (day + 1) * HoursADay
  BY <1>2, DayIs DEF Day
<1>4. {g \in d.games : /\ Passes(Null, g.season)
                       /\ Null = Null \/ PlayedIn(g, Null)
                       /\ "any" = "any" \/ "any" = g.game_type
                       /\ day = Null \/ g.date >= day * HoursADay
                       /\ day = Null \/ g.date < (day + 1) * HoursADay} = S
  BY <1>1, <1>2, <1>3 DEF DayGames, Passes
<1>5. list_games(d, Null, Null, "any", day, day, limit, 0) = Paged(Ranked(S, Later), limit, 0)
  BY <1>4 DEF list_games
<1>6. S \in SUBSET d.games
  BY <1>1 DEF DayGames
<1> QED
  BY <1>1, <1>5, <1>6, GamesListed

-----------------------------------------------------------------------------
(* Records: the standings and the ranks *)

LEMMA ThreeKeys ==
  ASSUME NEW a \in BOOLEAN, NEW b \in BOOLEAN, NEW c \in BOOLEAN, NEW e \in BOOLEAN, NEW f \in BOOLEAN
  PROVE  Decides(<<<<a, b>>, <<c, e>>, <<f, FALSE>>>>) <=> a \/ (b /\ c) \/ (b /\ e /\ f)
<1>1. PICK keys : keys = <<<<a, b>>, <<c, e>>, <<f, FALSE>>>>
  OBVIOUS
<1>2. /\ DOMAIN keys = {1, 2, 3} /\ keys[1][1] = a /\ keys[1][2] = b /\ keys[2][1] = c /\ keys[2][2] = e
      /\ keys[3][1] = f
  BY <1>1
<1>3. 1..(1 - 1) = {} /\ 1..(2 - 1) = {1} /\ 1..(3 - 1) = {1, 2}
  OBVIOUS
<1>4. Decides(keys) <=> \E i \in {1, 2, 3} : keys[i][1] /\ \A j \in 1..(i - 1) : keys[j][2]
  BY <1>2 DEF Decides
<1>5. Decides(keys) <=> keys[1][1] \/ (keys[2][1] /\ keys[1][2]) \/ (keys[3][1] /\ keys[1][2] /\ keys[2][2])
  BY <1>3, <1>4, Zenon
<1> QED
  BY <1>1, <1>2, <1>5

\* A finite set of numbers has a least.
LEMMA LeastIs ==
  ASSUME NEW S \in SUBSET Int, IsFiniteSet(S), S # {}
  PROVE  Min(S) \in S /\ \A x \in S : Min(S) <= x
<1>1. PICK rel : rel = {p \in S \X S : p[1] < p[2]}
  OBVIOUS
<1>2. Orders(rel, S)
  BY <1>1 DEF Orders
<1>3. PICK x \in S : \A y \in S : <<y, x>> \notin rel
  BY <1>2, HasFirst
<1>4. ASSUME NEW y \in S
      PROVE  x <= y
  <2>1. ~(y < x)
    BY <1>1, <1>3
  <2> QED
    BY <2>1
<1> QED
  BY <1>4 DEF Min

LEMMA TeamIs ==
  ASSUME NEW d, NamedTeams(d), NEW t \in TeamIds(d), NEW u \in TeamIds(d)
  PROVE  /\ Team(d, t) \in d.teams /\ Team(d, t).id = t /\ Team(d, t).name \in Int
         /\ Team(d, t).name = Team(d, u).name => t = u
<1>1. ASSUME NEW v \in TeamIds(d)
      PROVE  Team(d, v) \in d.teams /\ Team(d, v).id = v
  BY DEF Team, TeamIds
<1>2. Team(d, t).name \in Int
  BY <1>1 DEF NamedTeams
<1>3. Team(d, t).name = Team(d, u).name => t = u
  <2>1. Team(d, t).name = Team(d, u).name => Team(d, t) = Team(d, u)
    BY <1>1 DEF NamedTeams
  <2> QED
    BY <1>1, <2>1
<1> QED
  BY <1>1, <1>2, <1>3

\* A team with a record has played.
LEMMA ShareIsFraction ==
  ASSUME NEW d, Stored(d), NEW s, NEW t \in DOMAIN records(d, s)
  PROVE  LET r == records(d, s)[t]
         IN r.wins \in Nat /\ r.losses \in Nat /\ IsFraction(<<r.wins, r.wins + r.losses>>)
<1>1. PICK G : G = RegularGames(d, s, t)
  OBVIOUS
<1>2. PICK r : r = records(d, s)[t]
  OBVIOUS
<1>3. G \in SUBSET d.games /\ G # {}
  <2>1. G \in SUBSET d.games
    BY <1>1 DEF RegularGames
  <2>2. DOMAIN records(d, s) = {u \in {v.id : v \in d.teams} : RegularGames(d, s, u) # {}}
    BY RecordCounts
  <2> QED
    BY <1>1, <2>1, <2>2
<1>4. r.wins = Cardinality(Won(G, t)) /\ r.losses = Cardinality(Lost(G, t))
  BY <1>1, <1>2, RecordCounts
<1>5. /\ Cardinality(Won(G, t)) \in Nat /\ Cardinality(Lost(G, t)) \in Nat
      /\ Cardinality(G) = Cardinality(Won(G, t)) + Cardinality(Lost(G, t))
  BY <1>3, WonAndLost
<1>6. Cardinality(G) \in Nat \ {0}
  BY <1>3, Fewer DEF Stored
<1>7. r.wins \in Nat /\ r.losses \in Nat /\ r.wins + r.losses \in Nat \ {0}
  BY <1>4, <1>5, <1>6
<1> QED
  BY <1>2, <1>7, ShareIs

LEMMA StandingIs ==
  ASSUME NEW d, NEW found, NEW t, NEW u
  PROVE  LET share(v) == <<found[v].wins, found[v].wins + found[v].losses>>
         IN standing_before(d, found, t, u)
              <=> \/ More(share(t), share(u))
                  \/ Same(share(t), share(u)) /\ found[t].wins > found[u].wins
                  \/ /\ Same(share(t), share(u)) /\ found[t].wins = found[u].wins
                     /\ Team(d, t).name < Team(d, u).name
<1> DEFINE share(v) == <<found[v].wins, found[v].wins + found[v].losses>>
<1>1. PICK x : x = share(t)
  OBVIOUS
<1>2. PICK y : y = share(u)
  OBVIOUS
<1>3. PICK m : m = found[t].wins
  OBVIOUS
<1>4. PICK n : n = found[u].wins
  OBVIOUS
<1>5. PICK i : i = Team(d, t).name
  OBVIOUS
<1>6. PICK j : j = Team(d, u).name
  OBVIOUS
<1>7. standing_before(d, found, t, u)
        <=> Decides(<<<<More(share(t), share(u)), Same(share(t), share(u))>>,
                      <<found[t].wins > found[u].wins, found[t].wins = found[u].wins>>,
                      <<Team(d, t).name < Team(d, u).name, FALSE>>>>)
  BY Zenon DEF standing_before
<1> HIDE DEF share
<1>8. standing_before(d, found, t, u)
        <=> Decides(<<<<More(x, y), Same(x, y)>>, <<m > n, m = n>>, <<i < j, FALSE>>>>)
  BY <1>1, <1>2, <1>3, <1>4, <1>5, <1>6, <1>7, Zenon
<1>9. More(x, y) \in BOOLEAN /\ Same(x, y) \in BOOLEAN /\ (m > n) \in BOOLEAN /\ (m = n) \in BOOLEAN /\ (i < j) \in BOOLEAN
  BY DEF More, Same
<1>10. Decides(<<<<More(x, y), Same(x, y)>>, <<m > n, m = n>>, <<i < j, FALSE>>>>)
         <=> More(x, y) \/ (Same(x, y) /\ m > n) \/ (Same(x, y) /\ m = n /\ i < j)
  BY <1>9, ThreeKeys
<1>11. standing_before(d, found, t, u)
         <=> \/ More(share(t), share(u))
             \/ Same(share(t), share(u)) /\ found[t].wins > found[u].wins
             \/ /\ Same(share(t), share(u)) /\ found[t].wins = found[u].wins
                /\ Team(d, t).name < Team(d, u).name
  BY <1>1, <1>2, <1>3, <1>4, <1>5, <1>6, <1>8, <1>10, Zenon
<1> QED
  BY <1>11 DEF share

\* Teams with records stand one after the other.
LEMMA StandingOrders ==
  ASSUME NEW d, Stored(d), NamedTeams(d), NEW s, NEW S \in SUBSET (DOMAIN records(d, s))
  PROVE  LET found == records(d, s)
         IN /\ IsFiniteSet(S) /\ S \subseteq TeamIds(d)
            /\ Orders(StandingIn(d, found, S), S)
            /\ standing_order(d, found, S) = InOrder(StandingIn(d, found, S), S)
<1>1. PICK found : found = records(d, s)
  OBVIOUS
<1>2. S \subseteq TeamIds(d) /\ S \subseteq DOMAIN found
  BY <1>1, RecordCounts DEF TeamIds
<1>3. IsFiniteSet(S)
  <2>1. PICK id : id = [t \in d.teams |-> t.id]
    OBVIOUS
  <2>2. IsFiniteSet({id[t] : t \in d.teams})
    BY ImageIsFinite DEF Stored
  <2>3. TeamIds(d) = {id[t] : t \in d.teams}
    BY <2>1 DEF TeamIds
  <2> QED
    BY <1>2, <2>2, <2>3, FS_Subset
<1>4. PICK share : share = [t \in S |-> <<found[t].wins, found[t].wins + found[t].losses>>]
  OBVIOUS
<1>5. PICK wins : wins = [t \in S |-> found[t].wins]
  OBVIOUS
<1>6. PICK name : name = [t \in S |-> Team(d, t).name]
  OBVIOUS
<1>7. \A t \in S : IsFraction(share[t]) /\ wins[t] \in Int
  BY <1>1, <1>2, <1>4, <1>5, ShareIsFraction
<1>8. /\ \A t \in S : name[t] \in Int
      /\ \A t \in S, u \in S : name[t] = name[u] => t = u
  BY <1>2, <1>6, TeamIs
<1>9. PICK rel : rel = StandingIn(d, found, S)
  OBVIOUS
<1>10. \A t \in S, u \in S : standing_before(d, found, t, u) <=> <<t, u>> \in rel
  BY <1>9 DEF StandingIn
<1>11. \A t \in S, u \in S :
         <<t, u>> \in rel <=> \/ More(share[t], share[u])
                              \/ Same(share[t], share[u]) /\ wins[t] > wins[u]
                              \/ Same(share[t], share[u]) /\ wins[t] = wins[u] /\ name[t] < name[u]
  BY <1>4, <1>5, <1>6, <1>10, StandingIs
<1>12. ASSUME NEW t \in S
       PROVE  <<t, t>> \notin rel
  <2>1. ~More(share[t], share[t])
    BY <1>7, Compared
  <2>2. ~(wins[t] > wins[t]) /\ ~(name[t] < name[t])
    BY <1>7, <1>8
  <2> QED
    BY <1>11, <2>1, <2>2
<1>13. ASSUME NEW t \in S, NEW u \in S
       PROVE  t = u \/ <<t, u>> \in rel \/ <<u, t>> \in rel
  <2>1. More(share[t], share[u]) \/ Same(share[t], share[u]) \/ More(share[u], share[t])
    BY <1>7, Compared
  <2>2. Same(share[t], share[u]) => Same(share[u], share[t])
    BY <1>7, Compared
  <2>3. wins[t] > wins[u] \/ wins[t] = wins[u] \/ wins[u] > wins[t]
    BY <1>7
  <2>4. name[t] < name[u] \/ t = u \/ name[u] < name[t]
    BY <1>8
  <2> QED
    BY <1>11, <2>1, <2>2, <2>3, <2>4
<1>14. ASSUME NEW t \in S, NEW u \in S, NEW v \in S, <<t, u>> \in rel, <<u, v>> \in rel
       PROVE  <<t, v>> \in rel
  <2>1. /\ More(share[t], share[u]) /\ (More(share[u], share[v]) \/ Same(share[u], share[v])) => More(share[t], share[v])
        /\ Same(share[t], share[u]) /\ More(share[u], share[v]) => More(share[t], share[v])
        /\ Same(share[t], share[u]) /\ Same(share[u], share[v]) => Same(share[t], share[v])
    BY <1>7, Compared
  <2>2. /\ wins[t] > wins[u] /\ (wins[u] > wins[v] \/ wins[u] = wins[v]) => wins[t] > wins[v]
        /\ wins[t] = wins[u] /\ wins[u] > wins[v] => wins[t] > wins[v]
        /\ wins[t] = wins[u] /\ wins[u] = wins[v] => wins[t] = wins[v]
    BY <1>7
  <2>3. name[t] < name[u] /\ name[u] < name[v] => name[t] < name[v]
    BY <1>8
  <2> QED
    BY <1>11, <1>14, <2>1, <2>2, <2>3
<1>15. Orders(rel, S)
  BY <1>12, <1>13, <1>14 DEF Orders
<1>16. standing_order(d, found, S) = InOrder(rel, S)
  <2> DEFINE before(t, u) == standing_before(d, found, t, u)
             p == [x \in S |-> 1 + Cardinality({y \in S : before(y, x)})]
             q == [x \in S |-> 1 + Cardinality({y \in S : <<y, x>> \in rel})]
  <2>1. \A x \in S : {y \in S : before(y, x)} = {y \in S : <<y, x>> \in rel}
    BY <1>10
  <2> HIDE DEF before
  <2>2. p = q
    BY <2>1
  <2> HIDE DEF p, q
  <2>3. InOrder(rel, S) = [i \in 1..Cardinality(S) |-> CHOOSE x \in S : q[x] = i]
    BY DEF Ranked, InOrder, q
  <2>4. InOrder(rel, S) = [i \in 1..Cardinality(S) |-> CHOOSE x \in S : p[x] = i]
    BY <2>2, <2>3
  <2> QED
    BY <2>4 DEF standing_order, Ranked, p, before
<1> QED
  BY <1>1, <1>2, <1>3, <1>9, <1>15, <1>16

\* A team with a record ranks where it stands, and every team has a rank.
LEMMA RanksAre ==
  ASSUME NEW d, Stored(d), NamedTeams(d), NEW s
  PROVE  LET found == records(d, s)
             rank == ranks(d, s)
         IN /\ \A t \in TeamIds(d) : rank[t] \in Nat
            /\ \A t \in DOMAIN found :
                 rank[t] = Place(StandingIn(d, found, DOMAIN found), DOMAIN found, t)
<1> DEFINE rest == {t.id : t \in d.teams} \ DOMAIN records(d, s)
           joined == standing_order(d, records(d, s), DOMAIN records(d, s))
                       \o Ranked(rest, LAMBDA t, u : Team(d, t).name < Team(d, u).name)
<1>0. ranks(d, s) = [t \in {u.id : u \in d.teams} |-> CHOOSE i \in DOMAIN joined : joined[i] = t]
  BY DEF ranks
<1> HIDE DEF joined
<1>1. PICK found : found = records(d, s)
  OBVIOUS
<1>2. PICK S : S = DOMAIN found
  OBVIOUS
<1>3. PICK rel : rel = StandingIn(d, found, S)
  OBVIOUS
<1>4. PICK first : first = standing_order(d, found, S)
  OBVIOUS
<1>5. IsFiniteSet(S) /\ S \subseteq TeamIds(d) /\ Orders(rel, S) /\ first = InOrder(rel, S)
  <2>1. S \in SUBSET (DOMAIN records(d, s))
    BY <1>1, <1>2
  <2> QED
    BY <1>1, <1>3, <1>4, <2>1, StandingOrders
<1>6. PICK R : R = TeamIds(d) \ S
  OBVIOUS
<1>7. PICK byname : byname = {p \in R \X R : Team(d, p[1]).name < Team(d, p[2]).name}
  OBVIOUS
<1>8. \A t \in R, u \in R : <<t, u>> \in byname <=> Team(d, t).name < Team(d, u).name
  BY <1>7
<1>9. Orders(byname, R)
  <2>1. PICK name : name = [t \in R |-> Team(d, t).name]
    OBVIOUS
  <2>2. /\ \A t \in R : name[t] \in Int
        /\ \A t \in R, u \in R : name[t] = name[u] => t = u
    BY <1>6, <2>1, TeamIs
  <2>3. \A t \in R, u \in R : <<t, u>> \in byname <=> name[t] < name[u]
    BY <1>8, <2>1
  <2> QED
    BY <2>2, <2>3 DEF Orders
<1>10. IsFiniteSet(R)
  <2>1. PICK id : id = [t \in d.teams |-> t.id]
    OBVIOUS
  <2>2. IsFiniteSet({id[t] : t \in d.teams})
    BY ImageIsFinite DEF Stored
  <2>3. TeamIds(d) = {id[t] : t \in d.teams}
    BY <2>1 DEF TeamIds
  <2> QED
    BY <1>6, <2>2, <2>3, FS_Subset
<1>11. PICK last : last = Ranked(R, LAMBDA t, u : Team(d, t).name < Team(d, u).name)
  OBVIOUS
<1>12. last = InOrder(byname, R)
  <2> DEFINE before(t, u) == Team(d, t).name < Team(d, u).name
             p == [x \in R |-> 1 + Cardinality({y \in R : before(y, x)})]
             q == [x \in R |-> 1 + Cardinality({y \in R : <<y, x>> \in byname})]
  <2>1. \A x \in R : {y \in R : before(y, x)} = {y \in R : <<y, x>> \in byname}
    BY <1>8
  <2> HIDE DEF before
  <2>2. p = q
    BY <2>1
  <2> HIDE DEF p, q
  <2>3. InOrder(byname, R) = [i \in 1..Cardinality(R) |-> CHOOSE x \in R : q[x] = i]
    BY DEF Ranked, InOrder, q
  <2>4. InOrder(byname, R) = [i \in 1..Cardinality(R) |-> CHOOSE x \in R : p[x] = i]
    BY <2>2, <2>3
  <2> QED
    BY <1>11, <2>4 DEF Ranked, p, before
<1>13. PICK n : n = Cardinality(S)
  OBVIOUS
<1>14. PICK m : m = Cardinality(R)
  OBVIOUS
<1>15. n \in Nat /\ m \in Nat
  BY <1>5, <1>10, <1>13, <1>14, FS_CardinalityType
<1>16. /\ first \in Seq(S) /\ Len(first) = n
       /\ \A i \in 1..n : first[i] \in S /\ Place(rel, S, first[i]) = i
       /\ \A t \in S : Place(rel, S, t) \in 1..n /\ first[Place(rel, S, t)] = t
  BY <1>5, <1>13, Listing, Places
<1>17. /\ last \in Seq(R) /\ Len(last) = m
       /\ \A i \in 1..m : last[i] \in R
       /\ \A t \in R : Place(byname, R, t) \in 1..m /\ last[Place(byname, R, t)] = t
  BY <1>9, <1>10, <1>12, <1>14, Listing, Places
<1>18. PICK order : order = first \o last
  OBVIOUS
<1>19. /\ DOMAIN order = 1..(n + m)
       /\ \A i \in 1..n : order[i] = first[i]
       /\ \A i \in 1..(n + m) : i \notin 1..n => i - n \in 1..m /\ order[i] = last[i - n]
  BY <1>15, <1>16, <1>17, <1>18
<1>20. PICK rank : rank = ranks(d, s)
  OBVIOUS
<1>21. \A t \in TeamIds(d) : rank[t] = CHOOSE i \in DOMAIN order : order[i] = t
  <2>1. R = rest
    BY <1>1, <1>2, <1>6 DEF TeamIds
  <2>2. Ranked(rest, LAMBDA t, u : Team(d, t).name < Team(d, u).name)
          = Ranked(R, LAMBDA t, u : Team(d, t).name < Team(d, u).name)
    <3> HIDE DEF rest
    <3> QED
      BY <2>1 DEF Ranked
  <2>3. joined = order
    <3> HIDE DEF rest
    <3> QED
      BY <1>1, <1>2, <1>4, <1>11, <1>18, <2>2 DEF joined
  <2> QED
    BY <1>0, <1>20, <2>3 DEF TeamIds
<1>22. ASSUME NEW t \in S
       PROVE  rank[t] = Place(rel, S, t) /\ rank[t] \in Nat
  <2>1. PICK i \in 1..n : i = Place(rel, S, t) /\ first[i] = t
    BY <1>16
  <2>2. i \in DOMAIN order /\ order[i] = t
    BY <1>15, <1>19, <2>1
  <2>3. ASSUME NEW j \in DOMAIN order, order[j] = t
        PROVE  j = i
    <3>1. j \in 1..n
      <4>1. j \notin 1..n => order[j] \in R
        BY <1>17, <1>19
      <4> QED
        BY <1>6, <2>3, <4>1
    <3> QED
      BY <1>16, <1>19, <2>1, <2>3, <3>1
  <2>4. rank[t] = CHOOSE j \in DOMAIN order : order[j] = t
    BY <1>5, <1>21
  <2> QED
    BY <2>1, <2>2, <2>3, <2>4
<1>23. ASSUME NEW t \in R
       PROVE  rank[t] \in Nat
  <2>1. PICK i \in 1..m : last[i] = t
    BY <1>17
  <2>2. n + i \in 1..(n + m) /\ n + i \notin 1..n /\ (n + i) - n = i
    BY <1>15
  <2>3. n + i \in DOMAIN order /\ order[n + i] = t
    BY <1>19, <2>1, <2>2
  <2>4. rank[t] = CHOOSE j \in DOMAIN order : order[j] = t
    BY <1>6, <1>21
  <2>5. rank[t] \in DOMAIN order
    BY <2>3, <2>4
  <2> QED
    BY <1>15, <1>19, <2>5
<1>24. \A t \in TeamIds(d) : rank[t] \in Nat
  BY <1>6, <1>22, <1>23
<1> QED
  BY <1>1, <1>2, <1>3, <1>20, <1>22, <1>24

LEMMA StandingsAre ==
  ASSUME NEW d, NEW s, NEW found, found = records(d, s), NEW table, table = standings(d, s)
  PROVE  /\ \A c \in DOMAIN table : DOMAIN table[c] = DivisionsOf(d, found, c)
         /\ \A c \in DOMAIN table : \A v \in DivisionsOf(d, found, c) :
              /\ DOMAIN table[c][v] = DOMAIN DivisionOrder(d, found, c, v)
              /\ \A i \in DOMAIN DivisionOrder(d, found, c, v) :
                   /\ table[c][v][i].team = DivisionOrder(d, found, c, v)[i]
                   /\ table[c][v][i].games_behind = Behind(d, found, c, DivisionOrder(d, found, c, v)[i])
<1> DEFINE its(c, v) == DivisionOrder(d, found, c, v)
           row(c, t) == [team |-> t, games_behind |-> Behind(d, found, c, t),
                         win_pct |-> pct(found[t].wins, found[t].wins + found[t].losses)]
           rows(c, v) == [i \in DOMAIN its(c, v) |-> row(c, its(c, v)[i])]
           divisions(c) == [v \in DivisionsOf(d, found, c) |-> rows(c, v)]
<1>1. table = [c \in {Team(d, t).conference : t \in DOMAIN found} |-> divisions(c)]
  BY DEF standings, ConferenceTeams, DivisionTeams, DivisionOrder, DivisionsOf, Behind
<1>2. \A c, t : row(c, t).team = t /\ row(c, t).games_behind = Behind(d, found, c, t)
  OBVIOUS
<1> HIDE DEF row, its
<1>3. ASSUME NEW c, NEW v
      PROVE  /\ DOMAIN rows(c, v) = DOMAIN its(c, v)
             /\ \A i \in DOMAIN its(c, v) : /\ rows(c, v)[i].team = its(c, v)[i]
                                            /\ rows(c, v)[i].games_behind = Behind(d, found, c, its(c, v)[i])
  BY <1>2
<1> HIDE DEF rows
<1>4. ASSUME NEW c
      PROVE  /\ DOMAIN divisions(c) = DivisionsOf(d, found, c)
             /\ \A v \in DivisionsOf(d, found, c) : divisions(c)[v] = rows(c, v)
  OBVIOUS
<1> HIDE DEF divisions
<1>5. \A c \in DOMAIN table : table[c] = divisions(c)
  BY <1>1
<1>6. ASSUME NEW c \in DOMAIN table, NEW v \in DivisionsOf(d, found, c)
      PROVE  /\ DOMAIN table[c][v] = DOMAIN its(c, v)
             /\ \A i \in DOMAIN its(c, v) :
                  /\ table[c][v][i].team = its(c, v)[i]
                  /\ table[c][v][i].games_behind = Behind(d, found, c, its(c, v)[i])
  <2>1. table[c][v] = rows(c, v)
    BY <1>4, <1>5
  <2> QED
    BY <1>3, <2>1
<1> QED
  BY <1>4, <1>5, <1>6 DEF its

\* The best ranked of the teams that lead a division leads its conference, and
\* is no game behind.
LEMMA RanksLeadStandings ==
  ASSUME NEW d, Stored(d), NamedTeams(d), NEW s
  PROVE  RanksLead(standings(d, s), ranks(d, s))
<1>1. PICK found : found = records(d, s)
  OBVIOUS
<1>2. PICK table : table = standings(d, s)
  OBVIOUS
<1>3. PICK rank : rank = ranks(d, s)
  OBVIOUS
<1>4. PICK all : all = StandingIn(d, found, DOMAIN found)
  OBVIOUS
<1>5. IsFiniteSet(DOMAIN found) /\ DOMAIN found \subseteq TeamIds(d) /\ Orders(all, DOMAIN found)
  <2>1. DOMAIN found \in SUBSET (DOMAIN records(d, s))
    BY <1>1
  <2> QED
    BY <1>1, <1>4, <2>1, StandingOrders
<1>6. \A t \in DOMAIN found : rank[t] = Place(all, DOMAIN found, t) /\ rank[t] \in Nat
  BY <1>1, <1>3, <1>4, <1>5, RanksAre
<1>7. ASSUME NEW c \in DOMAIN table
      PROVE  DOMAIN table[c] = DivisionsOf(d, found, c)
  BY <1>1, <1>2, StandingsAre
<1>8. ASSUME NEW c \in DOMAIN table, NEW v \in DOMAIN table[c]
      PROVE  /\ DOMAIN table[c][v] = DOMAIN DivisionOrder(d, found, c, v)
             /\ \A i \in DOMAIN table[c][v] :
                  /\ table[c][v][i].team = DivisionOrder(d, found, c, v)[i]
                  /\ table[c][v][i].games_behind = Behind(d, found, c, DivisionOrder(d, found, c, v)[i])
  <2>1. v \in DivisionsOf(d, found, c)
    BY <1>7
  <2> QED
    BY <1>1, <1>2, <2>1, StandingsAre
\* The teams of a division one after the other.
<1>9. ASSUME NEW c, NEW v
      PROVE  LET D == DivisionTeams(d, found, c, v)
                 its == DivisionOrder(d, found, c, v)
             IN /\ DOMAIN its = 1..Cardinality(D) /\ \A i \in DOMAIN its : its[i] \in D
                /\ \A t \in D : (\A u \in D : <<u, t>> \notin all) => 1 \in DOMAIN its /\ its[1] = t
  <2>1. PICK D : D = DivisionTeams(d, found, c, v)
    OBVIOUS
  <2>2. PICK its : its = DivisionOrder(d, found, c, v)
    OBVIOUS
  <2>3. PICK rel : rel = StandingIn(d, found, D)
    OBVIOUS
  <2>4. D \in SUBSET (DOMAIN records(d, s)) /\ D \in SUBSET (DOMAIN found)
    BY <1>1, <2>1 DEF DivisionTeams, ConferenceTeams
  <2>5. IsFiniteSet(D) /\ Orders(rel, D) /\ its = InOrder(rel, D)
    BY <1>1, <2>1, <2>2, <2>3, <2>4, StandingOrders DEF DivisionOrder
  <2>6. /\ DOMAIN its = 1..Cardinality(D) /\ \A i \in 1..Cardinality(D) : its[i] \in D
        /\ \A t \in D : Place(rel, D, t) \in 1..Cardinality(D) /\ its[Place(rel, D, t)] = t
    BY <2>5, Listing, Places
  <2>7. \A t \in D, u \in D : <<t, u>> \in rel => <<t, u>> \in all
    BY <1>4, <2>3, <2>4 DEF StandingIn
  <2>8. ASSUME NEW t \in D, \A u \in D : <<u, t>> \notin all
        PROVE  1 \in DOMAIN its /\ its[1] = t
    <3>1. Preceding(rel, D, t) = {}
      BY <2>7, <2>8 DEF Preceding
    <3>2. Place(rel, D, t) = 1
      BY <3>1, FS_EmptySet DEF Place
    <3> QED
      BY <2>6, <3>2
  <2> QED
    BY <2>1, <2>2, <2>6, <2>8
\* The first of a conference.
<1>10. ASSUME NEW c, ConferenceTeams(d, found, c) # {}
      PROVE  \E f \in ConferenceTeams(d, found, c) :
               /\ \A u \in ConferenceTeams(d, found, c) : <<u, f>> \notin all
               /\ standing_order(d, found, ConferenceTeams(d, found, c))[1] = f
  <2>1. PICK C : C = ConferenceTeams(d, found, c)
    OBVIOUS
  <2>2. PICK rel : rel = StandingIn(d, found, C)
    OBVIOUS
  <2>3. C \in SUBSET (DOMAIN records(d, s)) /\ C \in SUBSET (DOMAIN found)
    BY <1>1, <2>1 DEF ConferenceTeams
  <2>4. IsFiniteSet(C) /\ Orders(rel, C) /\ standing_order(d, found, C) = InOrder(rel, C)
    BY <1>1, <2>2, <2>3, StandingOrders
  <2>5. PICK f \in C : \A u \in C : <<u, f>> \notin rel
    BY <1>10, <2>1, <2>4, HasFirst
  <2>6. Place(rel, C, f) = 1
    <3>1. Preceding(rel, C, f) = {}
      BY <2>5 DEF Preceding
    <3> QED
      BY <3>1, FS_EmptySet DEF Place
  <2>7. InOrder(rel, C)[1] = f
    BY <2>4, <2>6, Listing
  <2>8. \A u \in C : <<u, f>> \in all => <<u, f>> \in rel
    BY <1>4, <2>2, <2>3 DEF StandingIn
  <2> QED
    BY <2>1, <2>4, <2>5, <2>7, <2>8
<1>11. ASSUME NEW c \in DOMAIN table, NEW v \in DOMAIN table[c], NEW i \in DOMAIN table[c][v],
              rank[table[c][v][i].team] = Min({rank[table[c][e][1].team] : e \in DOMAIN table[c]})
       PROVE  table[c][v][i].games_behind = 0
  <2>1. PICK C : C = ConferenceTeams(d, found, c)
    OBVIOUS
  <2>2. PICK t : t = table[c][v][i].team
    OBVIOUS
  <2>3. t \in C
    <3>1. t \in DivisionTeams(d, found, c, v)
      <4>1. i \in DOMAIN DivisionOrder(d, found, c, v) /\ t = DivisionOrder(d, found, c, v)[i]
        BY <1>8, <2>2
      <4> QED
        BY <1>9, <4>1
    <3> QED
      BY <2>1, <3>1 DEF DivisionTeams
  <2>4. PICK f \in C : /\ \A u \in C : <<u, f>> \notin all
                       /\ standing_order(d, found, C)[1] = f
    BY <1>10, <2>1, <2>3
  <2>5. PICK e \in DOMAIN table[c] : e = Team(d, f).division
    BY <1>7, <2>1 DEF DivisionsOf
  <2>6. table[c][e][1].team = f
    <3>1. f \in DivisionTeams(d, found, c, e) /\ DivisionTeams(d, found, c, e) \subseteq C
      BY <2>1, <2>5 DEF DivisionTeams
    <3>2. 1 \in DOMAIN DivisionOrder(d, found, c, e) /\ DivisionOrder(d, found, c, e)[1] = f
      BY <1>9, <2>4, <3>1
    <3> QED
      BY <1>8, <3>2
  <2>7. PICK led : led = [w \in DOMAIN table[c] |-> rank[table[c][w][1].team]]
    OBVIOUS
  <2>8. PICK R : R = {led[w] : w \in DOMAIN table[c]}
    OBVIOUS
  <2>9. IsFiniteSet(R) /\ R \in SUBSET Int /\ rank[f] \in R
    <3>1. C \in SUBSET (DOMAIN found) /\ IsFiniteSet(C)
      BY <1>5, <2>1, FS_Subset DEF ConferenceTeams
    <3>2. IsFiniteSet(DOMAIN table[c])
      <4>1. PICK division : division = [u \in C |-> Team(d, u).division]
        OBVIOUS
      <4>2. DivisionsOf(d, found, c) = {division[u] : u \in C}
        BY <2>1, <4>1 DEF DivisionsOf
      <4> QED
        BY <1>7, <3>1, <4>2, ImageIsFinite
    <3>3. IsFiniteSet(R)
      BY <2>8, <3>2, ImageIsFinite
    <3>4. ASSUME NEW w \in DOMAIN table[c]
          PROVE  led[w] \in Int
      <4>1. PICK u \in C : w = Team(d, u).division
        BY <1>7, <2>1 DEF DivisionsOf
      <4>2. u \in DivisionTeams(d, found, c, w)
        BY <2>1, <4>1 DEF DivisionTeams
      <4>3. PICK D : D = DivisionTeams(d, found, c, w)
        OBVIOUS
      <4>4. D \subseteq C /\ IsFiniteSet(D) /\ Cardinality(D) \in Nat \ {0}
        <5>1. D \in SUBSET C /\ D # {}
          BY <2>1, <4>2, <4>3 DEF DivisionTeams
        <5> QED
          BY <3>1, <5>1, Fewer
      <4>5. 1 \in DOMAIN DivisionOrder(d, found, c, w)
        BY <1>9, <4>3, <4>4
      <4>6. table[c][w][1].team \in D
        <5>1. table[c][w][1].team = DivisionOrder(d, found, c, w)[1]
          BY <1>8, <4>5
        <5> QED
          BY <1>9, <4>3, <4>5, <5>1
      <4> QED
        BY <1>6, <2>7, <3>1, <4>4, <4>6
    <3>5. led[e] = rank[f]
      BY <2>6, <2>7
    <3> QED
      BY <2>8, <3>3, <3>4, <3>5
  <2>10. rank[t] <= rank[f]
    <3>1. {rank[table[c][w][1].team] : w \in DOMAIN table[c]} = R
      BY <2>7, <2>8
    <3>2. R # {}
      BY <2>9
    <3>3. \A x \in R : Min(R) <= x
      BY <2>9, <3>2, LeastIs
    <3> QED
      BY <1>11, <2>2, <2>9, <3>1, <3>3
  <2>11. t = f
    <3>1. t \in DOMAIN found /\ f \in DOMAIN found
      BY <2>1, <2>3, <2>4 DEF ConferenceTeams
    <3>2. t = f \/ <<f, t>> \in all
      BY <1>5, <2>3, <2>4, <3>1 DEF Orders
    <3>3. <<f, t>> \in all => Place(all, DOMAIN found, f) < Place(all, DOMAIN found, t)
      BY <1>5, <3>1, Places
    <3>4. <<f, t>> \in all => rank[f] < rank[t]
      BY <1>6, <3>1, <3>3
    <3> QED
      BY <1>6, <2>10, <3>1, <3>2, <3>4
  <2>12. Behind(d, found, c, t) = 0
    <3>1. Behind(d, found, c, t) = (found[f].wins - found[f].wins) + (found[f].losses - found[f].losses)
      BY <2>1, <2>4, <2>11 DEF Behind
    <3>2. found[f].wins \in Int /\ found[f].losses \in Int
      <4>1. f \in DOMAIN found
        BY <2>1, <2>4 DEF ConferenceTeams
      <4>2. f \in DOMAIN records(d, s)
        BY <1>1, <4>1
      <4>3. LET r == records(d, s)[f]
            IN r.wins \in Nat /\ r.losses \in Nat /\ IsFraction(<<r.wins, r.wins + r.losses>>)
        BY <4>2, ShareIsFraction
      <4> QED
        BY <1>1, <4>3
    <3> QED
      BY <3>1, <3>2
  <2>13. table[c][v][i].games_behind = Behind(d, found, c, t)
    BY <1>8, <2>2
  <2> QED
    BY <2>12, <2>13
<1> QED
  BY <1>2, <1>3, <1>11 DEF RanksLead

-----------------------------------------------------------------------------
(* Records: the games of the last dates *)

LEMMA MatchedOrders ==
  ASSUME NEW d, Stored(d), NamedTeams(d), TeamsAreStored(d), NEW S \in SUBSET d.games
  PROVE  Orders(MatchedFirst(d, S), S) /\ \A g \in S : Matched(d, g) \in Nat
<1>1. \A g \in S : Matched(d, g) \in Nat
  <2> TAKE g \in S
  <2>1. PICK rank : rank = ranks(d, g.season)
    OBVIOUS
  <2>2. \A t \in TeamIds(d) : rank[t] \in Nat
    BY <2>1, RanksAre
  <2>3. rank[g.home_team_id] \in Nat /\ rank[g.away_team_id] \in Nat
    BY <2>2 DEF TeamsAreStored
  <2> QED
    BY <2>1, <2>3 DEF Matched
<1>2. PICK m : m = [g \in S |-> Matched(d, g)]
  OBVIOUS
<1>3. PICK rel : rel = MatchedFirst(d, S)
  OBVIOUS
<1>4. \A g \in S, h \in S : <<g, h>> \in rel <=> m[g] < m[h] \/ (m[g] = m[h] /\ Later(g, h))
  BY <1>2, <1>3 DEF MatchedFirst
<1>5. /\ \A g \in S : ~Later(g, g)
      /\ \A g \in S, h \in S : g = h \/ Later(g, h) \/ Later(h, g)
      /\ \A g \in S, h \in S, k \in S : Later(g, h) /\ Later(h, k) => Later(g, k)
  BY LaterOrders
<1>6. \A g \in S : m[g] \in Nat
  BY <1>1, <1>2
<1>7. \A g \in S : <<g, g>> \notin rel
  BY <1>4, <1>5, <1>6
<1>8. \A g \in S, h \in S : g = h \/ <<g, h>> \in rel \/ <<h, g>> \in rel
  <2> TAKE g \in S, h \in S
  <2>1. m[g] < m[h] \/ m[g] = m[h] \/ m[h] < m[g]
    BY <1>6
  <2> QED
    BY <1>4, <1>5, <2>1
<1>9. \A g \in S, h \in S, k \in S : <<g, h>> \in rel /\ <<h, k>> \in rel => <<g, k>> \in rel
  BY <1>4, <1>5, <1>6
<1> QED
  BY <1>1, <1>3, <1>7, <1>8, <1>9 DEF Orders

\* The games shown, and their ranks.
LEMMA RecentAre ==
  ASSUME NEW d, Stored(d), NamedTeams(d), TeamsAreStored(d), NEW limit
  PROVE  LET S == LatestGames(d)
             all == InOrder(MatchedFirst(d, S), S)
             recent == recent_games(d, limit)
         IN /\ DOMAIN recent = DOMAIN Paged(all, limit, 0)
            /\ \A i \in DOMAIN recent :
                 all[i] \in S => recent[i].home_rank + recent[i].away_rank = Matched(d, all[i])
<1> DEFINE days == {Day(g) : g \in {h \in d.games : completed(h)}}
           last == {e \in days : Cardinality({f \in days : f > e}) < 3}
           games == {g \in d.games : completed(g) /\ Day(g) \in last}
           rank == [s \in {g.season : g \in games} |-> ranks(d, s)]
           matched(g) == rank[g.season][g.home_team_id] + rank[g.season][g.away_team_id]
           before(g, h) == Decides(<<<<matched(g) < matched(h), matched(g) = matched(h)>>, <<Later(g, h), FALSE>>>>)
           record(g, t) == IF t \in DOMAIN records(d, g.season) THEN records(d, g.season)[t] ELSE NO_RECORD
           shown(g) == [id |-> g.id, home_rank |-> rank[g.season][g.home_team_id],
                        away_rank |-> rank[g.season][g.away_team_id],
                        home_record |-> record(g, g.home_team_id), away_record |-> record(g, g.away_team_id)]
           p == [x \in games |-> 1 + Cardinality({y \in games : before(y, x)})]
           all == [i \in 1..Cardinality(games) |-> CHOOSE x \in games : p[x] = i]
<1>1. recent_games(d, limit) = [i \in DOMAIN Paged(all, limit, 0) |-> shown(all[i])]
  BY DEF recent_games, Ranked
<1>2. games = LatestGames(d)
  BY DEF LatestGames, LastDays
<1> HIDE DEF days, last, games
<1>3. \A g \in games : rank[g.season] = ranks(d, g.season)
  OBVIOUS
<1>4. \A g : shown(g).home_rank = rank[g.season][g.home_team_id] /\ shown(g).away_rank = rank[g.season][g.away_team_id]
  OBVIOUS
<1> HIDE DEF rank, shown
<1>5. \A g \in games : matched(g) = Matched(d, g)
  BY <1>3 DEF Matched
<1>6. \A g \in games : matched(g) = shown(g).home_rank + shown(g).away_rank
  BY <1>4
<1>7. games \in SUBSET d.games
  BY <1>2 DEF LatestGames
<1> HIDE DEF matched
<1>8. PICK rel : rel = MatchedFirst(d, games)
  OBVIOUS
<1>9. ASSUME NEW g \in games, NEW h \in games
      PROVE  before(g, h) <=> <<g, h>> \in rel
  <2>1. (matched(g) < matched(h)) \in BOOLEAN /\ (matched(g) = matched(h)) \in BOOLEAN
    OBVIOUS
  <2>2. Later(g, h) \in BOOLEAN
    BY DEF Later
  <2>3. before(g, h) <=> matched(g) < matched(h) \/ (matched(g) = matched(h) /\ Later(g, h))
    BY <2>1, <2>2, TwoKeys
  <2> HIDE DEF before
  <2> QED
    BY <1>5, <1>8, <2>3 DEF MatchedFirst
<1> HIDE DEF before
<1>10. all = InOrder(rel, games)
  <2> DEFINE q == [x \in games |-> 1 + Cardinality({y \in games : <<y, x>> \in rel})]
  <2>1. \A x \in games : {y \in games : before(y, x)} = {y \in games : <<y, x>> \in rel}
    BY <1>9
  <2>2. p = q
    BY <2>1
  <2> HIDE DEF p, q
  <2>3. InOrder(rel, games) = [i \in 1..Cardinality(games) |-> CHOOSE x \in games : q[x] = i]
    BY DEF Ranked, InOrder, q
  <2> QED
    BY <2>2, <2>3
<1> HIDE DEF all
<1>11. \A i \in DOMAIN Paged(all, limit, 0) :
         all[i] \in games => shown(all[i]).home_rank + shown(all[i]).away_rank = Matched(d, all[i])
  BY <1>5, <1>6
<1> QED
  BY <1>1, <1>2, <1>8, <1>10, <1>11

LEMMA RecentBestFirst ==
  ASSUME NEW d, Stored(d), NamedTeams(d), TeamsAreStored(d),
         NEW limit \in Nat \ {0}, Cardinality(d.games) <= limit
  PROVE  BestFirst(recent_games(d, limit))
<1>1. PICK S : S = LatestGames(d)
  OBVIOUS
<1>2. PICK rel : rel = MatchedFirst(d, S)
  OBVIOUS
<1>3. PICK all : all = InOrder(rel, S)
  OBVIOUS
<1>4. PICK recent : recent = recent_games(d, limit)
  OBVIOUS
<1>5. PICK n : n = Cardinality(S)
  OBVIOUS
<1>6. S \in SUBSET d.games
  BY <1>1 DEF LatestGames
<1>7. IsFiniteSet(S) /\ n \in Nat /\ n <= limit
  <2>1. Cardinality(d.games) \in Nat
    BY FS_CardinalityType DEF Stored
  <2>2. IsFiniteSet(S) /\ n \in Nat /\ n <= Cardinality(d.games)
    BY <1>5, <1>6, GamesInOrder
  <2> QED
    BY <2>1, <2>2
<1>8. Orders(rel, S) /\ \A g \in S : Matched(d, g) \in Nat
  BY <1>2, <1>6, MatchedOrders
<1>9. Paged(all, limit, 0) = all
  BY <1>3, <1>5, <1>7, <1>8, WholePage
<1>10. /\ DOMAIN all = 1..n
       /\ \A i \in 1..n : all[i] \in S /\ Place(rel, S, all[i]) = i
  BY <1>3, <1>5, <1>7, <1>8, Listing
<1>11. /\ DOMAIN recent = DOMAIN Paged(all, limit, 0)
       /\ \A i \in DOMAIN recent :
            all[i] \in S => recent[i].home_rank + recent[i].away_rank = Matched(d, all[i])
  BY <1>1, <1>2, <1>3, <1>4, RecentAre
<1>12. DOMAIN recent = 1..n
  BY <1>9, <1>10, <1>11
<1>13. Len(recent) = n
  <2>1. \E f : recent = [i \in DOMAIN Paged(all, limit, 0) |-> f[i]]
    <3>1. recent = [i \in DOMAIN recent |-> recent[i]]
      BY <1>4 DEF recent_games
    <3> QED
      BY <1>11, <3>1
  <2> QED
    BY <1>7, <1>12, <2>1
<1> SUFFICES ASSUME NEW i \in 1..(n - 1)
             PROVE  recent[i].home_rank + recent[i].away_rank <= recent[i + 1].home_rank + recent[i + 1].away_rank
  BY <1>4, <1>13 DEF BestFirst
<1>14. i \in 1..n /\ i + 1 \in 1..n
  BY <1>7
<1>15. /\ recent[i].home_rank + recent[i].away_rank = Matched(d, all[i])
       /\ recent[i + 1].home_rank + recent[i + 1].away_rank = Matched(d, all[i + 1])
  BY <1>10, <1>11, <1>12, <1>14
<1>16. <<all[i], all[i + 1]>> \in rel
  <2>1. Place(rel, S, all[i]) < Place(rel, S, all[i + 1])
    BY <1>7, <1>10, <1>14
  <2> QED
    BY <1>7, <1>8, <1>10, <1>14, <2>1, Places
<1>17. Matched(d, all[i]) < Matched(d, all[i + 1]) \/ Matched(d, all[i]) = Matched(d, all[i + 1])
  BY <1>2, <1>16 DEF MatchedFirst
<1> QED
  BY <1>8, <1>10, <1>14, <1>15, <1>17

-----------------------------------------------------------------------------
(* Records: a player's games and the players of a season *)

\* A player's log is all of the player's lines, and it starts with the line the
\* latest team is read from.
LEMMA LogIs ==
  ASSUME NEW d, Stored(d), NEW p, NEW limit \in Nat \ {0}, Cardinality(d.lines) <= limit
  PROVE  LET log == player_games(d, p, Null, "any", limit, 0)
         IN /\ ToSet(log) = PlayerLines(d, p)
            /\ log # <<>> => log[1].team_id = latest_team(d, p)
<1>1. PICK L : L = PlayerLines(d, p)
  OBVIOUS
<1>2. PICK rel : rel = LaterOf(d, L)
  OBVIOUS
<1>3. PICK log : log = InOrder(rel, L)
  OBVIOUS
<1>4. PICK n : n = Cardinality(L)
  OBVIOUS
<1>5. L \in SUBSET d.lines /\ \A l \in L : l.player_id = p
  BY <1>1 DEF PlayerLines
<1>6. IsFiniteSet(L) /\ n \in Nat /\ n <= limit
  <2>1. IsFiniteSet(d.lines) /\ Cardinality(d.lines) \in Nat
    BY FS_CardinalityType DEF Stored
  <2>2. IsFiniteSet(L) /\ n \in Nat /\ n <= Cardinality(d.lines)
    BY <1>4, <1>5, <2>1, FS_Subset, FS_CardinalityType
  <2> QED
    BY <2>1, <2>2
<1>7. Orders(rel, L)
  BY <1>2, <1>5, LinesInOrder DEF LaterOf
<1>8. \A l \in L, m \in L : Later(Game(d, l), Game(d, m)) <=> <<l, m>> \in rel
  BY <1>2 DEF LaterOf
<1>9. Ranked(L, LAMBDA l, m : Later(Game(d, l), Game(d, m))) = log
  <2> DEFINE before(l, m) == Later(Game(d, l), Game(d, m))
             f == [x \in L |-> 1 + Cardinality({y \in L : before(y, x)})]
             g == [x \in L |-> 1 + Cardinality({y \in L : <<y, x>> \in rel})]
  <2>1. \A x \in L : {y \in L : before(y, x)} = {y \in L : <<y, x>> \in rel}
    BY <1>8
  <2> HIDE DEF before
  <2>2. f = g
    BY <2>1
  <2> HIDE DEF f, g
  <2>3. log = [i \in 1..Cardinality(L) |-> CHOOSE x \in L : g[x] = i]
    BY <1>3 DEF Ranked, InOrder, g
  <2>4. log = [i \in 1..Cardinality(L) |-> CHOOSE x \in L : f[x] = i]
    BY <2>2, <2>3
  <2> QED
    BY <2>4 DEF Ranked, f, before
<1>10. player_games(d, p, Null, "any", limit, 0) = log
  <2>1. {l \in d.lines : /\ l.player_id = p
                         /\ Passes(Null, Game(d, l).season)
                         /\ "any" = "any" \/ "any" = Game(d, l).game_type} = L
    BY <1>1 DEF PlayerLines, Passes
  <2>2. player_games(d, p, Null, "any", limit, 0)
          = Paged(Ranked(L, LAMBDA l, m : Later(Game(d, l), Game(d, m))), limit, 0)
    BY <2>1 DEF player_games
  <2>3. Paged(log, limit, 0) = log
    BY <1>3, <1>4, <1>6, <1>7, WholePage
  <2> QED
    BY <1>9, <2>2, <2>3
<1>11. ToSet(log) = L
  BY <1>3, <1>4, <1>6, <1>7, WholePage
<1>12. /\ Len(log) = n /\ DOMAIN log = 1..n
       /\ \A i \in 1..n : log[i] \in L /\ Place(rel, L, log[i]) = i
  BY <1>3, <1>4, <1>6, <1>7, Listing
<1>13. ASSUME log # <<>>
       PROVE  log[1].team_id = latest_team(d, p)
  <2>1. n # 0
    <3>1. log \in Seq(L)
      BY <1>3, <1>6, <1>7, Listing
    <3> QED
      BY <1>12, <1>13, <3>1
  <2>2. log[1] \in L /\ Place(rel, L, log[1]) = 1
    BY <1>6, <1>12, <2>1
  <2>3. ASSUME NEW m \in L \ {log[1]}
        PROVE  <<log[1], m>> \in rel
    <3>1. Place(rel, L, m) \in 1..n /\ Place(rel, L, m) # 1
      BY <1>4, <1>6, <1>7, <2>2, Places
    <3>2. Place(rel, L, log[1]) < Place(rel, L, m)
      BY <1>6, <2>2, <3>1
    <3> QED
      BY <1>6, <1>7, <2>2, <3>2, Places
  <2>4. PICK c : c = CHOOSE l \in L : \A m \in L \ {l} : Later(Game(d, l), Game(d, m))
    OBVIOUS
  <2>5. \A m \in L \ {log[1]} : Later(Game(d, log[1]), Game(d, m))
    BY <1>8, <2>2, <2>3
  <2>6. c \in L /\ \A m \in L \ {c} : Later(Game(d, c), Game(d, m))
    BY <2>2, <2>4, <2>5
  <2>7. c = log[1]
    <3>1. c # log[1] => <<c, log[1]>> \in rel /\ <<log[1], c>> \in rel
      BY <1>8, <2>2, <2>3, <2>6
    <3> QED
      BY <1>7, <2>2, <2>6, <3>1 DEF Orders
  <2>8. latest_team(d, p) = c.team_id
    BY <1>1, <2>2, <2>4 DEF latest_team, PlayerLines
  <2> QED
    BY <2>7, <2>8
<1> QED
  BY <1>1, <1>10, <1>11, <1>13

LEMMA NamesOrder ==
  ASSUME NEW d, NamedPlayers(d), NEW S \in SUBSET d.players
  PROVE  Orders(ByNameIn(S), S)
<1>1. \A p \in S : p.id \in Int /\ p.last_name \in Int /\ p.first_name \in Int
  BY DEF NamedPlayers
<1>2. PICK rel : rel = ByNameIn(S)
  OBVIOUS
<1>3. \A p \in S, q \in S : <<p, q>> \in rel <=> ByName(p, q)
  BY <1>2 DEF ByNameIn
<1>4. \A p \in S : <<p, p>> \notin rel
  BY <1>1, <1>3 DEF ByName
<1>5. ASSUME NEW p \in S, NEW q \in S
      PROVE  p = q \/ <<p, q>> \in rel \/ <<q, p>> \in rel
  <2>1. p.id = q.id => p = q
    BY DEF NamedPlayers
  <2>2. /\ p.id = q.id \/ p.id < q.id \/ q.id < p.id
        /\ p.last_name = q.last_name \/ p.last_name < q.last_name \/ q.last_name < p.last_name
        /\ p.first_name = q.first_name \/ p.first_name < q.first_name \/ q.first_name < p.first_name
    BY <1>1
  <2> QED
    BY <1>3, <2>1, <2>2 DEF ByName
<1>6. ASSUME NEW p \in S, NEW q \in S, NEW r \in S, <<p, q>> \in rel, <<q, r>> \in rel
      PROVE  <<p, r>> \in rel
  BY <1>1, <1>3, <1>6 DEF ByName
<1> QED
  BY <1>2, <1>4, <1>5, <1>6 DEF Orders

\* The players listed for a season are those with a played line of it.
LEMMA PlayersListed ==
  ASSUME NEW d, NamedPlayers(d), NEW s, s # Null, NEW limit \in Nat \ {0}, Cardinality(d.players) <= limit
  PROVE  ToSet(Listed(list_players(d, s, limit, 0))) = {p.id : p \in SeasonPlayers(d, s)}
<1>1. PICK S : S = SeasonPlayers(d, s)
  OBVIOUS
<1>2. PICK rel : rel = ByNameIn(S)
  OBVIOUS
<1>3. PICK all : all = InOrder(rel, S)
  OBVIOUS
<1>4. S \in SUBSET d.players /\ Orders(rel, S)
  BY <1>1, <1>2, NamesOrder DEF SeasonPlayers
<1>5. IsFiniteSet(S) /\ Cardinality(S) \in Nat /\ Cardinality(S) <= limit
  <2>1. IsFiniteSet(d.players) /\ Cardinality(d.players) \in Nat
    BY FS_CardinalityType DEF NamedPlayers
  <2>2. IsFiniteSet(S) /\ Cardinality(S) \in Nat /\ Cardinality(S) <= Cardinality(d.players)
    BY <1>4, <2>1, FS_Subset, FS_CardinalityType
  <2> QED
    BY <2>1, <2>2
<1>6. Paged(all, limit, 0) = all /\ ToSet(all) = S
  BY <1>3, <1>4, <1>5, WholePage
<1> DEFINE found == {p \in d.players : s = Null \/ \E l \in d.lines :
                       l.player_id = p.id /\ played(l) /\ Game(d, l).season = s}
           before(p, q) == Decides(<<<<p.last_name < q.last_name, p.last_name = q.last_name>>,
                                     <<p.first_name < q.first_name, p.first_name = q.first_name>>,
                                     <<p.id < q.id, FALSE>>>>)
           f == [x \in found |-> 1 + Cardinality({y \in found : before(y, x)})]
           ranked == [i \in 1..Cardinality(found) |-> CHOOSE x \in found : f[x] = i]
<1>7. list_players(d, s, limit, 0) = Paged(ranked, limit, 0)
  BY DEF list_players, Ranked
<1>8. found = S
  BY <1>1 DEF SeasonPlayers, PlayedFor
<1> HIDE DEF found
<1>9. ASSUME NEW p \in S, NEW q \in S
      PROVE  before(p, q) <=> <<p, q>> \in rel
  <2>1. p \in d.players /\ q \in d.players
    BY <1>4
  <2>2. /\ (p.last_name < q.last_name) \in BOOLEAN /\ (p.last_name = q.last_name) \in BOOLEAN
        /\ (p.first_name < q.first_name) \in BOOLEAN /\ (p.first_name = q.first_name) \in BOOLEAN
        /\ (p.id < q.id) \in BOOLEAN
    BY <2>1 DEF NamedPlayers
  <2>3. before(p, q) <=> \/ p.last_name < q.last_name
                         \/ p.last_name = q.last_name /\ p.first_name < q.first_name
                         \/ p.last_name = q.last_name /\ p.first_name = q.first_name /\ p.id < q.id
    BY <2>2, ThreeKeys
  <2> HIDE DEF before
  <2> QED
    BY <1>2, <2>3 DEF ByNameIn, ByName
<1> HIDE DEF before
<1>10. ranked = all
  <2> DEFINE g == [x \in S |-> 1 + Cardinality({y \in S : <<y, x>> \in rel})]
  <2>1. \A x \in S : {y \in S : before(y, x)} = {y \in S : <<y, x>> \in rel}
    BY <1>9
  <2>2. f = g
    BY <1>8, <2>1
  <2> HIDE DEF f, g
  <2>3. all = [i \in 1..Cardinality(S) |-> CHOOSE x \in S : g[x] = i]
    BY <1>3 DEF Ranked, InOrder, g
  <2> QED
    BY <1>8, <2>2, <2>3
<1> HIDE DEF ranked
<1>11. list_players(d, s, limit, 0) = all
  BY <1>6, <1>7, <1>10
<1>12. ToSet(Listed(all)) = {p.id : p \in ToSet(all)}
  <2>1. DOMAIN Listed(all) = DOMAIN all /\ \A i \in DOMAIN all : Listed(all)[i] = all[i].id
    BY DEF Listed
  <2> QED
    BY <2>1 DEF ToSet
<1> QED
  BY <1>1, <1>6, <1>11, <1>12

LEMMA LogsSay ==
  ASSUME Stored(db), NamedPlayers(db), \A s \in StoredSeasons : s # Null,
         AllRows \in Nat \ {0}, Cardinality(db.lines) <= AllRows, Cardinality(db.players) <= AllRows,
         NEW p \in {q.id : q \in db.players}
  PROVE  LogIsThePlayers(p, player_games(db, p, Null, "any", AllRows, 0))
<1>1. PICK log : log = player_games(db, p, Null, "any", AllRows, 0)
  OBVIOUS
<1>2. ToSet(log) = PlayerLines(db, p) /\ (log # <<>> => log[1].team_id = latest_team(db, p))
  BY <1>1, LogIs
<1>3. ASSUME NEW s \in StoredSeasons
      PROVE  p \in ToSet(Listed(list_players(db, s, AllRows, 0)))
               <=> \E i \in DOMAIN log : played(log[i]) /\ Game(db, log[i]).season = s
  <2>1. p \in ToSet(Listed(list_players(db, s, AllRows, 0))) <=> p \in {q.id : q \in SeasonPlayers(db, s)}
    BY PlayersListed
  <2>2. p \in {q.id : q \in SeasonPlayers(db, s)} <=> PlayedFor(db, p, s)
    BY DEF SeasonPlayers
  <2>3. PlayedFor(db, p, s) <=> \E l \in PlayerLines(db, p) : played(l) /\ Game(db, l).season = s
    BY DEF PlayedFor, PlayerLines
  <2>4. \A l : l \in PlayerLines(db, p) <=> \E i \in DOMAIN log : log[i] = l
    BY <1>2 DEF ToSet
  <2> QED
    BY <2>1, <2>2, <2>3, <2>4
<1> QED
  BY <1>1, <1>2, <1>3 DEF LogIsThePlayers

-----------------------------------------------------------------------------
(* Records: the seasons and the catalog *)

\* The seasons listed are the stored ones, the latest first and the earliest last.
LEMMA SeasonsListed ==
  ASSUME NEW d, Stored(d)
  PROVE  LET seasons == distinct_seasons(d)
         IN /\ ToSet(seasons) = SeasonsOf(d)
            /\ seasons # <<>> => window(d) = <<seasons[Len(seasons)], seasons[1]>>
<1>1. PICK S : S = SeasonsOf(d)
  OBVIOUS
<1>2. PICK rel : rel = {p \in S \X S : p[1] > p[2]}
  OBVIOUS
<1>3. PICK all : all = InOrder(rel, S)
  OBVIOUS
<1>4. PICK n : n = Cardinality(S)
  OBVIOUS
<1>5. S \in SUBSET Int /\ IsFiniteSet(S) /\ n \in Nat
  <2>1. PICK its : its = [g \in d.games |-> g.season]
    OBVIOUS
  <2>2. IsFiniteSet({its[g] : g \in d.games})
    BY ImageIsFinite DEF Stored
  <2>3. S = {its[g] : g \in d.games}
    BY <1>1, <2>1 DEF SeasonsOf
  <2>4. \A g \in d.games : g.season \in Int
    BY GameHas
  <2> QED
    BY <1>1, <1>4, <2>2, <2>3, <2>4, FS_CardinalityType DEF SeasonsOf
<1>6. \A s \in S, t \in S : s > t <=> <<s, t>> \in rel
  BY <1>2
<1>7. Orders(rel, S)
  BY <1>5, <1>6 DEF Orders
<1>8. distinct_seasons(d) = all
  <2> DEFINE before(s, t) == s > t
             f == [x \in S |-> 1 + Cardinality({y \in S : before(y, x)})]
             g == [x \in S |-> 1 + Cardinality({y \in S : <<y, x>> \in rel})]
  <2>1. \A x \in S : {y \in S : before(y, x)} = {y \in S : <<y, x>> \in rel}
    BY <1>6
  <2> HIDE DEF before
  <2>2. f = g
    BY <2>1
  <2> HIDE DEF f, g
  <2>3. all = [i \in 1..Cardinality(S) |-> CHOOSE x \in S : g[x] = i]
    BY <1>3 DEF Ranked, InOrder, g
  <2>4. all = [i \in 1..Cardinality(S) |-> CHOOSE x \in S : f[x] = i]
    BY <2>2, <2>3
  <2>5. distinct_seasons(d) = Ranked(S, LAMBDA s, t : s > t)
    BY <1>1 DEF distinct_seasons, SeasonsOf
  <2>6. Ranked(S, LAMBDA s, t : s > t) = [i \in 1..Cardinality(S) |-> CHOOSE x \in S : f[x] = i]
    BY DEF Ranked, f, before
  <2> QED
    BY <2>4, <2>5, <2>6
<1>9. /\ all \in Seq(S) /\ Len(all) = n /\ DOMAIN all = 1..n
      /\ \A i \in 1..n : all[i] \in S /\ Place(rel, S, all[i]) = i
      /\ \A x \in S : Place(rel, S, x) \in 1..n /\ all[Place(rel, S, x)] = x
  BY <1>3, <1>4, <1>5, <1>7, Listing, Places
<1>10. ToSet(all) = S
  BY <1>9 DEF ToSet
<1>11. ASSUME all # <<>>
       PROVE  window(d) = <<all[n], all[1]>>
  <2>1. 1 \in 1..n /\ n \in 1..n
    BY <1>5, <1>9, <1>11
  <2>2. all[1] \in S /\ all[n] \in S
    BY <1>9, <2>1
  <2>3. ASSUME NEW x \in S
        PROVE  x <= all[1] /\ all[n] <= x
    <3>1. PICK k \in 1..n : k = Place(rel, S, x)
      BY <1>9
    <3>2. all[k] = x
      BY <1>9, <3>1
    <3>3. k # 1 => Place(rel, S, all[1]) < Place(rel, S, x)
      BY <1>5, <1>9, <2>1, <3>1
    <3>4. k # n => Place(rel, S, x) < Place(rel, S, all[n])
      BY <1>5, <1>9, <2>1, <3>1
    <3>5. k # 1 => <<all[1], x>> \in rel
      BY <1>5, <1>7, <2>2, <3>3, Places
    <3>6. k # n => <<x, all[n]>> \in rel
      BY <1>5, <1>7, <2>2, <3>4, Places
    <3>7. all[1] \in Int /\ all[n] \in Int /\ x \in Int
      BY <1>5, <2>2
    <3>8. x <= all[1]
      BY <1>6, <2>2, <3>2, <3>5, <3>7
    <3>9. all[n] <= x
      BY <1>6, <2>2, <3>2, <3>6, <3>7
    <3> QED
      BY <3>8, <3>9
  <2>4. Max(S) \in S /\ (\A x \in S : x <= Max(S)) /\ Min(S) \in S /\ \A x \in S : Min(S) <= x
    BY <1>5, <2>2, GreatestIs, LeastIs
  <2>5. Max(S) = all[1]
    <3>1. all[1] <= Max(S) /\ Max(S) <= all[1] /\ Max(S) \in Int /\ all[1] \in Int
      BY <1>5, <2>2, <2>3, <2>4
    <3> QED
      BY <3>1
  <2>6. Min(S) = all[n]
    <3>1. all[n] <= Min(S) /\ Min(S) <= all[n] /\ Min(S) \in Int /\ all[n] \in Int
      BY <1>5, <2>2, <2>3, <2>4
    <3> QED
      BY <3>1
  <2>7. window(d) = <<Min(S), Max(S)>>
    <3>1. window(d) = IF S = {} THEN <<Null, Null>> ELSE <<Min(S), Max(S)>>
      BY <1>1 DEF window, SeasonsOf
    <3> QED
      BY <2>2, <3>1
  <2> QED
    BY <2>5, <2>6, <2>7
<1> QED
  BY <1>1, <1>8, <1>9, <1>10, <1>11

\* Every featured record is registered, and not every one is featured.
LEMMA FeaturedAreRegistered ==
  /\ DOMAIN FEATURED = 1..16 /\ \A k \in 1..16 : FEATURED[k] \in RecordIds
  /\ \A j \in 1..16, k \in 1..16 : FEATURED[j] = FEATURED[k] => j = k
  /\ \E id \in RecordIds : id \notin ToSet(FEATURED)
<1>1. DOMAIN FEATURED = 1..16
  BY DEF FEATURED
<1>2. \A k \in 1..16 : \/ k = 1 \/ k = 2 \/ k = 3 \/ k = 4 \/ k = 5 \/ k = 6 \/ k = 7 \/ k = 8
                       \/ k = 9 \/ k = 10 \/ k = 11 \/ k = 12 \/ k = 13 \/ k = 14 \/ k = 15 \/ k = 16
  OBVIOUS
<1>3. /\ {FEATURED[1], FEATURED[8], FEATURED[12]} \subseteq TeamSeasonResultsIds
      /\ {FEATURED[2], FEATURED[9], FEATURED[10]} \subseteq PlayerGameCountsIds
      /\ FEATURED[3] \in TeamFranchiseIds /\ {FEATURED[4], FEATURED[13]} \subseteq PlayerCareerCountsIds
      /\ {FEATURED[5], FEATURED[6], FEATURED[7]} \subseteq PlayerSeasonRatesIds
      /\ FEATURED[11] \in PlayerGameShootingIds /\ FEATURED[14] \in PlayerPlayoffsGameIds
      /\ {FEATURED[15], FEATURED[16], "team-fewest-points-game"} \subseteq TeamGameIds
  BY DEF FEATURED, TeamFranchiseIds, TeamSeasonResultsIds, TeamGameIds, PlayerGameCountsIds, PlayerGameShootingIds,
         PlayerSeasonRatesIds, PlayerCareerCountsIds, PlayerPlayoffsGameIds
<1>4. /\ TeamFranchiseIds \cup TeamSeasonResultsIds \cup TeamGameIds \cup PlayerGameCountsIds \subseteq RecordIds
      /\ PlayerGameShootingIds \cup PlayerSeasonRatesIds \cup PlayerCareerCountsIds \subseteq RecordIds
      /\ PlayerPlayoffsGameIds \subseteq RecordIds
  BY RegistryFits
<1>5. \A k \in 1..16 : FEATURED[k] \in RecordIds
  BY <1>2, <1>3, <1>4
<1>6. \A j \in 1..16, k \in 1..16 : FEATURED[j] = FEATURED[k] => j = k
  BY DEF FEATURED
<1>7. "team-fewest-points-game" \notin ToSet(FEATURED)
  <2>1. \A k \in 1..16 : FEATURED[k] # "team-fewest-points-game"
    BY DEF FEATURED
  <2> QED
    BY <1>1, <2>1 DEF ToSet
<1> QED
  BY <1>1, <1>3, <1>4, <1>5, <1>6, <1>7

\* The ranks in the catalog are one to sixteen, and some records have none.
LEMMA FeaturedRanksAre ==
  {CATALOG[i].featured_rank : i \in DOMAIN CATALOG} = {Null} \cup 1..16
<1>1. DOMAIN CATALOG = DOMAIN RECORDS /\ \A i \in DOMAIN RECORDS : CATALOG[i].featured_rank = featured_rank(RECORDS[i].id)
  BY DEF CATALOG
<1>2. /\ DOMAIN FEATURED = 1..16 /\ \A k \in 1..16 : FEATURED[k] \in RecordIds
      /\ \A j \in 1..16, k \in 1..16 : FEATURED[j] = FEATURED[k] => j = k
      /\ \E id \in RecordIds : id \notin ToSet(FEATURED)
  BY FeaturedAreRegistered
<1>3. \A k \in 1..16 : FEATURED[k] \in ToSet(FEATURED)
  BY <1>2 DEF ToSet
<1>4. ASSUME NEW k \in 1..16
      PROVE  featured_rank(FEATURED[k]) = k
  <2>1. PICK i : i = CHOOSE j \in DOMAIN FEATURED : FEATURED[j] = FEATURED[k]
    OBVIOUS
  <2>2. i \in DOMAIN FEATURED /\ FEATURED[i] = FEATURED[k]
    BY <1>2, <2>1
  <2>3. featured_rank(FEATURED[k]) = i
    BY <1>3, <2>1 DEF featured_rank
  <2> QED
    BY <1>2, <2>2, <2>3
<1>5. \A id : id \notin ToSet(FEATURED) => featured_rank(id) = Null
  BY DEF featured_rank
<1>6. \A id : id \in ToSet(FEATURED) => \E k \in 1..16 : id = FEATURED[k]
  BY <1>2 DEF ToSet
<1>7. PICK ranked : ranked = {CATALOG[i].featured_rank : i \in DOMAIN CATALOG}
  OBVIOUS
<1>8. \A r : r \in ranked <=> \E id \in RecordIds : r = featured_rank(id)
  BY <1>1, <1>7 DEF RecordIds
<1>9. ASSUME NEW r \in ranked
      PROVE  r \in {Null} \cup 1..16
  BY <1>4, <1>5, <1>6, <1>8
<1>10. ASSUME NEW k \in 1..16
       PROVE  k \in ranked
  BY <1>2, <1>4, <1>8
<1>11. Null \in ranked
  BY <1>2, <1>5, <1>8
<1> QED
  BY <1>7, <1>9, <1>10, <1>11

LEMMA WindowSays ==
  ASSUME Stored(db)
  PROVE  WindowIsTheSeasons(records_catalog(db), distinct_seasons(db))
<1>1. records_catalog(db).window = window(db) /\ records_catalog(db).records = CATALOG
  BY DEF records_catalog
<1>2. PICK seasons : seasons = distinct_seasons(db)
  OBVIOUS
<1>3. ToSet(seasons) = SeasonsOf(db) /\ (seasons # <<>> => window(db) = <<seasons[Len(seasons)], seasons[1]>>)
  BY <1>2, SeasonsListed
<1>4. \A s \in ToSet(seasons) : season_has_games(db, s)
  BY <1>3 DEF SeasonsOf, season_has_games
<1> QED
  BY <1>1, <1>2, <1>3, <1>4, FeaturedRanksAre DEF WindowIsTheSeasons

-----------------------------------------------------------------------------
(* Records: two pages that show the same thing agree *)

\* The hypotheses of the reads hold of what is stored.
LEMMA WhatIsStored ==
  ASSUME RecordsInv
  PROVE  /\ Stored(db) /\ NamedTeams(db) /\ TeamsAreStored(db) /\ NamedPlayers(db)
         /\ \A g \in db.games : g.date \in Nat /\ g.season \in Nat
         /\ \A l \in db.lines : \A g \in db.games : l.game_id = g.id => PlayedIn(g, l.team_id)
<1>1. Stored(db)
  BY DatasetIsStored DEF RecordsInv
<1>2. NamedTeams(db)
  BY TeamsAssumption DEF RecordsInv, NamedTeams
<1>3. NamedPlayers(db)
  BY PlayersAssumption DEF RecordsInv, NamedPlayers
<1>4. ASSUME NEW g \in db.games
      PROVE  /\ g.date \in Nat /\ g.season \in Nat
             /\ g.home_team_id \in TeamIds(db) /\ g.away_team_id \in TeamIds(db)
  <2>1. PICK e \in Dataset : g = e.game
    BY DEF RecordsInv
  <2>2. /\ e.game.date \in Nat /\ e.game.season \in Nat
        /\ {e.game.home_team_id, e.game.away_team_id} \subseteq {t.id : t \in Teams}
    BY DatasetAssumption
  <2>3. TeamIds(db) = {t.id : t \in Teams}
    BY DEF RecordsInv, TeamIds
  <2> QED
    BY <2>1, <2>2, <2>3
<1>5. TeamsAreStored(db)
  BY <1>4 DEF TeamsAreStored
<1>6. ASSUME NEW l \in db.lines, NEW g \in db.games, l.game_id = g.id
      PROVE  PlayedIn(g, l.team_id)
  <2>1. PICK e \in Dataset : l \in e.lines /\ e.game \in db.games
    BY DEF RecordsInv
  <2>2. l.game_id = e.game.id /\ PlayedIn(e.game, l.team_id)
    BY <2>1, DatasetAssumption
  <2>3. e.game = g
    BY <1>1, <1>6, <2>1, <2>2 DEF Stored
  <2> QED
    BY <2>2, <2>3
<1> QED
  BY <1>1, <1>2, <1>3, <1>4, <1>5, <1>6

\* No list is longer than the limit.
LEMMA AllRowsAreListed ==
  ASSUME Stored(db), NamedPlayers(db)
  PROVE  /\ AllRows \in Nat \ {0} /\ Cardinality(db.games) <= AllRows
         /\ Cardinality(db.lines) <= AllRows /\ Cardinality(db.players) <= AllRows
<1>1. Cardinality(db.games) \in Nat /\ Cardinality(db.lines) \in Nat /\ Cardinality(db.players) \in Nat
  BY FS_CardinalityType DEF Stored, NamedPlayers
<1> QED
  BY <1>1 DEF AllRows

LEMMA ReadsCompared ==
  ASSUME UnplayedAreEmpty
  PROVE  RecordsInv => ReadsAgree
<1> SUFFICES ASSUME RecordsInv
             PROVE  ReadsAgree
  OBVIOUS
<1>1. /\ Stored(db) /\ NamedTeams(db) /\ TeamsAreStored(db) /\ NamedPlayers(db)
      /\ \A g \in db.games : g.date \in Nat /\ g.season \in Nat
      /\ \A l \in db.lines : \A g \in db.games : l.game_id = g.id => PlayedIn(g, l.team_id)
  BY WhatIsStored
<1>2. /\ AllRows \in Nat \ {0} /\ Cardinality(db.games) <= AllRows
      /\ Cardinality(db.lines) <= AllRows /\ Cardinality(db.players) <= AllRows
  BY <1>1, AllRowsAreListed
<1>3. \A s \in StoredSeasons : s \in Nat /\ s # Null
  <2>1. \A s \in Nat : s # Null
    BY DEF Null
  <2> QED
    BY <1>1, <2>1 DEF StoredSeasons
<1>4. ASSUME NEW t \in {u.id : u \in db.teams}, NEW s \in StoredSeasons
      PROVE  ListsTheSeason(team_season(db, t, s), list_games(db, s, t, "any", Null, Null, AllRows, 0),
                            filter_games(db, s, t, "any"), game_ids_for_team(db, t))
  <2>1. t \in Nat
    BY TeamsAssumption DEF RecordsInv
  <2>2. s \in Nat
    BY <1>3
  <2> QED
    BY <1>1, <1>2, <2>1, <2>2, SeasonIsListed
<1>5. ASSUME NEW day \in {Day(g) : g \in db.games}
      PROVE  ToSet(list_games(db, Null, Null, "any", day, day, AllRows, 0)) = {g \in db.games : Day(g) = day}
  <2>1. PICK g \in db.games : day = Day(g)
    OBVIOUS
  <2>2. day \in Nat
    BY <1>1, <2>1, CapsAssumption DEF Day
  <2>3. ToSet(list_games(db, Null, Null, "any", day, day, AllRows, 0)) = DayGames(db, day)
    BY <1>1, <1>2, <2>2, DayIsListed
  <2> QED
    BY <2>3 DEF DayGames
<1>6. ASSUME NEW side \in db.sides, NEW g \in {h \in db.games : h.id = side.game_id}
      PROVE  TotalsAreTheBoxs(side, g, game_detail(db, g))
  <2>1. SidesBoxed(db.lines, db.sides)
    BY DEF RecordsInv
  <2>2. PICK h \in db.games : PlayedIn(h, side.team_id) /\ side.game_id = h.id
    BY DEF RecordsInv, SidesTell
  <2>3. g \in db.games /\ g.id = side.game_id /\ PlayedIn(g, side.team_id)
    BY <1>1, <2>2 DEF Stored
  <2>4. \A l \in db.lines : l.game_id = g.id => PlayedIn(g, l.team_id)
    BY <1>1, <2>3
  <2>5. ASSUME NEW l \in db.lines, ~played(l), NEW c \in Shots \cup {"rebounds", "assists"}
        PROVE  l[c] = 0
    <3>1. PICK e \in Dataset : l \in e.lines
      BY DEF RecordsInv
    <3> QED
      BY <2>5, <3>1 DEF UnplayedAreEmpty
  <2> QED
    BY <1>1, <2>1, <2>3, <2>4, <2>5, BoxIsTotalled
<1>7. \A s \in StoredSeasons : RanksLead(standings(db, s), ranks(db, s))
  BY <1>1, RanksLeadStandings
<1>8. BestFirst(recent_games(db, AllRows))
  BY <1>1, <1>2, RecentBestFirst
<1>9. \A p \in {q.id : q \in db.players} : LogIsThePlayers(p, player_games(db, p, Null, "any", AllRows, 0))
  BY <1>1, <1>2, <1>3, LogsSay
<1>10. WindowIsTheSeasons(records_catalog(db), distinct_seasons(db))
  BY <1>1, WindowSays
<1> QED
  BY <1>4, <1>5, <1>6, <1>7, <1>8, <1>9, <1>10 DEF ReadsAgree

\* At all times two pages that show the same thing agree (service.py's reads and
\* records.py's catalog over the same rows): a team's season is the games listed
\* for it, a day's games are those listed from that day to that day, a game's
\* totals are the row's of team_game_totals, the best ranked team of a
\* conference leads its standings, the recent games come best matched first, a
\* player's log starts with the team shown and has a played line of just the
\* seasons the player is listed for, and the catalog's window is the seasons.
\* A team does not play itself, and a line that was not played has no figures.
THEOREM PagesAlwaysAgree ==
  ASSUME TwoTeams, UnplayedAreEmpty
  PROVE  RecordsSpec => []PagesAgree
<1>1. RecordsInv => PagesAgree
  BY LinksPreviewed, ReadsCompared DEF PagesAgree
<1> QED
  BY <1>1, RecordsTypeOK, PTL
=============================================================================
