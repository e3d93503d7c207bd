------------------------- MODULE TwoLevelCacheProofs -------------------------
(***************************************************************************)
(* Safety of the two-level cache for every finite set of readers, every    *)
(* set of writers, and any bound on versions and waiting mutations.        *)
(***************************************************************************)
EXTENDS TwoLevelCache, FiniteSetTheorems, TLAPS

LEMMA Bounds ==
    /\ MaxWrites \in Nat /\ MaxQueue \in Nat
    /\ Kinds \subseteq {"invalidate", "put", "clear"}
    /\ IsFiniteSet(Readers) /\ Cardinality(Readers) \in Nat
    /\ None = -1 /\ None \in Copies /\ None \notin Versions
    /\ Versions \subseteq Nat /\ 0 \in Versions /\ Versions \subseteq Copies
  BY TwoLevelCacheAssumption, FS_CardinalityType DEF None, Versions, Copies

(* A key whose lock has been dropped gets a lock that nobody has.          *)
LEMMA UnusedLock ==
  ASSUME table = None
  PROVE  \E k \in Locks : k \notin {table} \cup {reader[q].lock : q \in Readers}
<1> DEFINE held == {reader[q].lock : q \in Readers}
           n == Cardinality(Readers)
           f == [q \in Readers |-> reader[q].lock]
<1>1. f \in Surjection(Readers, held)
  BY DEF Surjection
<1>2. IsFiniteSet(held) /\ Cardinality(held) <= n
  BY <1>1, Bounds, FS_Surjection, Zenon
<1>3. IsFiniteSet(Locks) /\ Cardinality(Locks) = n + 1
  <2>1. 1 \in Int /\ n + 1 \in Int /\ ~(1 > n + 1) /\ (n + 1) - 1 + 1 = n + 1
    BY Bounds
  <2>2. IsFiniteSet(1..(n + 1)) /\ Cardinality(1..(n + 1)) = n + 1
    BY <2>1, FS_Interval
  <2> QED
    BY <2>2 DEF Locks
<1>4. Cardinality(held) \in Nat
  BY <1>2, FS_CardinalityType
<1>5. ~(Locks \subseteq held)
  <2> SUFFICES ASSUME Locks \subseteq held PROVE FALSE
    OBVIOUS
  <2>1. Cardinality(Locks) <= Cardinality(held)
    BY <1>2, FS_Subset, Zenon
  <2> QED
    BY <2>1, <1>2, <1>3, <1>4, Bounds
<1>6. None \notin Locks
  BY Bounds DEF Locks
<1> QED
  BY <1>5, <1>6

-----------------------------------------------------------------------------
(* Sequences of mutations. *)

Mutations == [v : Copies, after : BOOLEAN]

LEMMA HeadRemoved ==
  ASSUME NEW q \in Seq(Mutations), q # <<>>
  PROVE  /\ RemoveAt(q, 1) \in Seq(Mutations)
         /\ Len(RemoveAt(q, 1)) = Len(q) - 1
         /\ \A i \in 1..(Len(q) - 1) : RemoveAt(q, 1)[i] = q[i + 1]
<1>1. Len(q) \in Nat \ {0}
  OBVIOUS
<1>2. RemoveAt(q, 1) = SubSeq(q, 1, 0) \o SubSeq(q, 2, Len(q))
  BY DEF RemoveAt
<1>3. SubSeq(q, 2, Len(q)) \in Seq(Mutations) /\ Len(SubSeq(q, 2, Len(q))) = Len(q) - 1
  BY <1>1
<1>4. SubSeq(q, 1, 0) = <<>>
  BY <1>1
<1>5. RemoveAt(q, 1) = SubSeq(q, 2, Len(q))
  BY <1>2, <1>3, <1>4
<1>6. ASSUME NEW i \in 1..(Len(q) - 1)
      PROVE  SubSeq(q, 2, Len(q))[i] = q[i + 1]
  BY <1>1
<1>7. QED
  BY <1>3, <1>5, <1>6

-----------------------------------------------------------------------------
(* Types: of the rows, entries and records, of the lock table, and of the  *)
(* queue.                                                                  *)

RowTypes ==
    /\ db \in Versions /\ acked \in Versions
    /\ mem \in [v : Copies, asked : Versions, since : Versions, fromRedis : BOOLEAN]
    /\ red \in Copies
    /\ writer \in [Writers -> [pc : {"idle", "wrote"}, kind : Kinds \cup {"none"}, v : Copies]]
    /\ \A w \in Writers : writer[w].pc = "wrote" => writer[w].v \in Versions

Records ==
    [pc : {"idle", "wait", "redis", "reply", "fetch", "fetched", "batch", "batched"},
     lock : Locks \cup {None}, saw : Copies, asked : Versions]

ReaderTypes ==
    /\ table \in Locks \cup {None}
    /\ reader \in [Readers -> Records]
    /\ begun \in SUBSET Readers
    /\ split \in BOOLEAN
    /\ table # None => Slow # {}

QueueTypes ==
    /\ queue \in Seq(Mutations) /\ Len(queue) <= MaxQueue
    /\ late \in SUBSET Copies
    /\ tail \in BOOLEAN
    /\ MutationsAreChained

TInv == RowTypes /\ ReaderTypes /\ QueueTypes

LEMMA TypesSuffice == TInv => TypeOK
  BY DEF TInv, RowTypes, ReaderTypes, QueueTypes, TypeOK, Mutations, Records

LEMMA TypesInit == Init => TInv
<1> SUFFICES ASSUME Init PROVE TInv
  OBVIOUS
<1>1. RowTypes
  BY Bounds DEF Init, RowTypes, NoEntry, Resting
<1>2. ReaderTypes
  BY Bounds DEF Init, ReaderTypes, Records, Idle
<1>3. QueueTypes
  <2>1. queue \in Seq(Mutations) /\ Len(queue) = 0
    BY DEF Init
  <2>2. late \in SUBSET Copies /\ tail \in BOOLEAN
    BY DEF Init
  <2>3. MutationsAreChained
    <3>1. queue = <<>> /\ tail = FALSE /\ DOMAIN queue = {}
      BY <2>1 DEF Init
    <3> QED
      BY <3>1 DEF MutationsAreChained
  <2> QED
    BY <2>1, <2>2, <2>3, Bounds DEF QueueTypes
<1> QED
  BY <1>1, <1>2, <1>3 DEF TInv

(* What an enqueued mutation does to the queue: it awaits the one before.  *)
LEMMA EnqueueTypes ==
  ASSUME QueueTypes, NEW v \in Copies, Enqueues(v)
  PROVE  QueueTypes'
<1>1. CASE RedisOn
  <2> DEFINE m == [v |-> v, after |-> tail]
  <2>1. m \in Mutations /\ queue \in Seq(Mutations) /\ Len(queue) \in Nat
    BY DEF QueueTypes, Mutations
  <2>2. queue' = Append(queue, m) /\ tail' = TRUE /\ late' = late /\ Len(queue) < MaxQueue
    BY <1>1 DEF Enqueues
  <2>3. queue' \in Seq(Mutations) /\ Len(queue') = Len(queue) + 1
    BY <2>1, <2>2
  <2>4. Len(queue') <= MaxQueue
    BY <2>1, <2>2, <2>3, Bounds
  <2>5. tail' <=> queue' # <<>>
    BY <2>1, <2>2, <2>3
  <2>6. ASSUME NEW i \in DOMAIN queue', i > 1
        PROVE  queue'[i].after
    <3>1. CASE i \in DOMAIN queue
      <4>1. queue'[i] = queue[i]
        BY <2>1, <2>2, <3>1
      <4> QED
        BY <4>1, <3>1, <2>6 DEF QueueTypes, MutationsAreChained
    <3>2. CASE i \notin DOMAIN queue
      <4>1. i = Len(queue) + 1 /\ queue # <<>>
        BY <2>1, <2>3, <2>6, <3>2
      <4>2. queue'[i] = m
        BY <2>1, <2>2, <4>1
      <4>3. tail
        BY <4>1 DEF QueueTypes, MutationsAreChained
      <4> QED
        BY <4>2, <4>3
    <3> QED
      BY <3>1, <3>2
  <2> QED
    BY <2>2, <2>3, <2>4, <2>5, <2>6 DEF QueueTypes, MutationsAreChained
<1>2. CASE ~RedisOn
  BY <1>2 DEF QueueTypes, Enqueues, redis, MutationsAreChained
<1> QED
  BY <1>1, <1>2

(* Only the oldest mutation may run, and the next one becomes the oldest.  *)
LEMMA MutateTypes ==
  ASSUME QueueTypes, NEW i \in 1..MaxQueue, Mutates(i)
  PROVE  QueueTypes' /\ red' \in Copies \cup {red}
<1>1. queue \in Seq(Mutations) /\ i \in DOMAIN queue /\ Len(queue) \in Nat /\ queue # <<>>
  BY DEF QueueTypes, Mutates
<1>2. i = 1
  BY <1>1 DEF Mutates, QueueTypes, MutationsAreChained
<1>3. queue' = RemoveAt(queue, 1) /\ tail' = Untails(1)
  BY <1>2 DEF Mutates
<1>4. /\ queue' \in Seq(Mutations) /\ Len(queue') = Len(queue) - 1
      /\ \A k \in 1..(Len(queue) - 1) : queue'[k] = queue[k + 1]
  BY <1>1, <1>3, HeadRemoved
<1>5. Len(queue') <= MaxQueue
  BY <1>1, <1>4, Bounds DEF QueueTypes
<1>6. queue[1].v \in Copies
  <2>1. queue[1] \in Mutations
    BY <1>1, <1>2
  <2> QED
    BY <2>1 DEF Mutations
<1>7. late' \in SUBSET Copies /\ red' \in Copies \cup {red}
  BY <1>2, <1>6 DEF Mutates, QueueTypes
<1>8. tail \in BOOLEAN /\ tail
  BY <1>1 DEF QueueTypes, MutationsAreChained
<1>9. tail' \in BOOLEAN /\ (tail' <=> queue' # <<>>)
  <2>1. CASE Len(queue) = 1
    BY <2>1, <1>3, <1>4 DEF Untails
  <2>2. CASE Len(queue) # 1
    <3>1. tail' = tail
      BY <2>2, <1>3 DEF Untails
    <3>2. queue' # <<>>
      BY <2>2, <1>1, <1>4
    <3> QED
      BY <3>1, <3>2, <1>8
  <2> QED
    BY <2>1, <2>2
<1>10. ASSUME NEW k \in DOMAIN queue', k > 1
       PROVE  queue'[k].after
  <2>1. k \in 1..(Len(queue) - 1) /\ k + 1 \in DOMAIN queue /\ k + 1 > 1
    BY <1>1, <1>4
  <2> QED
    BY <2>1, <1>4 DEF QueueTypes, MutationsAreChained
<1> QED
  BY <1>4, <1>5, <1>7, <1>9, <1>10 DEF QueueTypes, MutationsAreChained

LEMMA StoreTypes ==
  ASSUME acked' \in Versions, NEW v \in Copies, NEW asked \in Versions,
         NEW fromRedis \in BOOLEAN, Store(v, asked, fromRedis)
  PROVE  mem' \in [v : Copies, asked : Versions, since : Versions, fromRedis : BOOLEAN]
  BY DEF Store

LEMMA FinishTypes ==
  ASSUME ReaderTypes, NEW r \in Readers, Finishes(r),
         Settles(Slow \ {r}) \/ GoesAway(Slow \ {r})
  PROVE  ReaderTypes'
<1>1. reader' \in [Readers -> Records]
  BY Bounds DEF ReaderTypes, Records, Finishes, Idle
<1>2. begun' \in SUBSET Readers /\ split' \in BOOLEAN
  BY DEF ReaderTypes, Settles, GoesAway
<1> QED
  BY <1>1, <1>2 DEF ReaderTypes, Finishes

LEMMA AcknowledgeTypes ==
  ASSUME RowTypes, NEW w \in Writers, writer[w].pc = "wrote", Acknowledges(w)
  PROVE  /\ acked' \in Versions /\ acked' >= acked /\ acked' >= writer[w].v
         /\ acked' = acked \/ acked' = writer[w].v
         /\ writer' \in [Writers -> [pc : {"idle", "wrote"}, kind : Kinds \cup {"none"}, v : Copies]]
         /\ \A x \in Writers : writer'[x].pc = "wrote" => writer'[x] = writer[x]
<1>1. acked \in Versions /\ writer[w].v \in Versions
  BY DEF RowTypes
<1>2. acked \in Int /\ writer[w].v \in Int
  BY <1>1, Bounds
<1>3. acked' = IF writer[w].v > acked THEN writer[w].v ELSE acked
  BY DEF Acknowledges
<1>4. Resting \in [pc : {"idle", "wrote"}, kind : Kinds \cup {"none"}, v : Copies] /\ Resting.pc = "idle"
  BY Bounds DEF Resting
<1>5. writer' = [writer EXCEPT ![w] = Resting]
  BY DEF Acknowledges
<1>6. /\ writer' \in [Writers -> [pc : {"idle", "wrote"}, kind : Kinds \cup {"none"}, v : Copies]]
      /\ \A x \in Writers : writer'[x].pc = "wrote" => writer'[x] = writer[x]
  BY <1>4, <1>5 DEF RowTypes
<1> QED
  BY <1>1, <1>2, <1>3, <1>6

-----------------------------------------------------------------------------
(* Why a stale entry is a race: a version somebody read was in the row     *)
(* after he asked, nobody has told the cache of a version the row has not  *)
(* had, and whoever tells it also replaces or drops the entry.             *)
RaceInv ==
    /\ acked <= db
    /\ \A w \in Writers : writer[w].pc = "wrote" => writer[w].v <= db
    /\ \A r \in Readers :
         /\ reader[r].asked <= acked
         /\ reader[r].pc \in {"fetched", "batched"} => reader[r].asked <= reader[r].saw
    /\ StaleIsARace

IInv == TInv /\ RaceInv

LEMMA RaceInit == Init => RaceInv
  BY DEF Init, RaceInv, StaleIsARace, Hit, NoEntry, Resting, Idle

(* What everyone read and wrote is an integer.                             *)
LEMMA Numbers ==
  ASSUME TInv
  PROVE  /\ acked \in Int /\ db \in Int /\ mem.v \in Int /\ mem.asked \in Int
         /\ \A r \in Readers : reader[r].asked \in Int /\ reader[r].saw \in Int
         /\ \A w \in Writers : writer[w].v \in Int
<1>1. Versions \subseteq Int /\ Copies \subseteq Int
  BY Bounds DEF Copies
<1> QED
  BY <1>1 DEF TInv, RowTypes, ReaderTypes, Records

(* An entry stored by a reader that asked for it no later than it saw it,  *)
(* or had it from Redis, is either current or comes out of a race.         *)
LEMMA ReaderStores ==
  ASSUME IInv, NEW r \in Readers, UNCHANGED <<db, acked, writer>>,
         NEW fromRedis \in BOOLEAN, Store(reader[r].saw, reader[r].asked, fromRedis),
         reader[r].pc \in {"fetched", "batched"} \/ fromRedis,
         reader' = [reader EXCEPT ![r] = Idle]
  PROVE  RaceInv'
<1>1. /\ mem'.v = reader[r].saw /\ mem'.asked = reader[r].asked
      /\ mem'.since = acked' /\ mem'.fromRedis = fromRedis
  BY DEF Store
<1>2. StaleIsARace'
  <2>1. CASE fromRedis
    BY <1>1, <2>1 DEF StaleIsARace
  <2>2. CASE ~fromRedis
    <3>1. reader[r].asked <= reader[r].saw
      BY <2>2 DEF IInv, RaceInv
    <3>2. reader[r].asked \in Int /\ reader[r].saw \in Int /\ acked \in Int
      BY Numbers DEF IInv
    <3>3. reader[r].saw < acked => reader[r].asked < acked
      BY <3>1, <3>2
    <3> QED
      BY <1>1, <3>3 DEF StaleIsARace
  <2> QED
    BY <2>1, <2>2
<1>3. \A q \in Readers :
         /\ reader'[q].asked <= acked
         /\ reader'[q].pc \in {"fetched", "batched"} => reader'[q].asked <= reader'[q].saw
  <2>1. Idle.asked = 0 /\ Idle.pc = "idle" /\ 0 <= acked
    BY Bounds DEF Idle, IInv, TInv, RowTypes
  <2> QED
    BY <2>1 DEF IInv, RaceInv, TInv, ReaderTypes
<1> QED
  BY <1>2, <1>3 DEF IInv, RaceInv

(* A step that drops the entry, or leaves it alone, while the acknowledged *)
(* version and the row stay.                                               *)
LEMMA ReaderMoves ==
  ASSUME IInv, NEW r \in Readers, UNCHANGED <<db, acked, mem, writer>>,
         NEW rec, reader' = [reader EXCEPT ![r] = rec],
         rec.asked \in {0, acked, reader[r].asked},
         \/ rec.pc \notin {"fetched", "batched"}
         \/ rec.saw = db /\ rec.asked = reader[r].asked
  PROVE  RaceInv'
<1>1. reader[r].asked <= acked /\ acked <= db /\ acked >= 0
  BY Bounds DEF IInv, RaceInv, TInv, RowTypes
<1>2. reader[r].asked \in Int /\ acked \in Int /\ db \in Int
  BY Numbers DEF IInv
<1>3. rec.asked <= acked /\ (rec.pc \in {"fetched", "batched"} => rec.asked <= rec.saw)
  BY <1>1, <1>2
<1>4. \A q \in Readers : reader'[q] = IF q = r THEN rec ELSE reader[q]
  BY DEF IInv, TInv, ReaderTypes
<1>5. StaleIsARace'
  BY DEF IInv, RaceInv, StaleIsARace, Hit
<1> QED
  BY <1>3, <1>4, <1>5 DEF IInv, RaceInv

(* A writer that tells the cache: its version has been in the row, and the *)
(* entry it leaves is its own or none.                                     *)
LEMMA WriterTells ==
  ASSUME IInv, NEW w \in Writers, writer[w].pc = "wrote", Acknowledges(w),
         UNCHANGED <<db, reader>>,
         mem' = NoEntry \/ Store(writer[w].v, writer[w].v, FALSE)
  PROVE  RaceInv'
<1>0. RowTypes
  BY DEF IInv, TInv
<1>1. /\ acked' \in Versions
      /\ acked' >= acked
      /\ acked' = acked \/ acked' = writer[w].v
      /\ acked' >= writer[w].v
      /\ \A x \in Writers : writer'[x].pc = "wrote" => writer'[x] = writer[x]
  BY <1>0, AcknowledgeTypes
<1>2. acked' <= db
  BY <1>1 DEF IInv, RaceInv
<1>3. \A r \in Readers : reader[r].asked <= acked'
  <2>1. acked \in Int /\ acked' \in Int /\ \A r \in Readers : reader[r].asked \in Int
    BY <1>1, Numbers, Bounds DEF IInv
  <2> QED
    BY <1>1, <2>1 DEF IInv, RaceInv
<1>4. StaleIsARace'
  <2>1. CASE mem' = NoEntry
    BY <2>1 DEF StaleIsARace, Hit, NoEntry
  <2>2. CASE Store(writer[w].v, writer[w].v, FALSE)
    BY <2>2 DEF StaleIsARace, Store
  <2> QED
    BY <2>1, <2>2
<1> QED
  BY <1>1, <1>2, <1>3, <1>4 DEF IInv, RaceInv

-----------------------------------------------------------------------------
(* Every step. *)

LEMMA InitIInv == Init => IInv
  BY TypesInit, RaceInit DEF IInv

LEMMA FreshLock ==
  ASSUME ReaderTypes
  PROVE  LET unused == Locks \ ({table} \cup {reader[q].lock : q \in Readers})
         IN  (IF table # None THEN table ELSE CHOOSE k \in unused : TRUE) \in Locks
<1>1. CASE table # None
  BY <1>1 DEF ReaderTypes
<1>2. CASE table = None
  <2> DEFINE unused == Locks \ ({table} \cup {reader[q].lock : q \in Readers})
  <2>1. \E k \in unused : TRUE
    BY <1>2, UnusedLock
  <2>2. (CHOOSE k \in unused : TRUE) \in unused
    BY <2>1
  <2> QED
    BY <2>2, <1>2
<1> QED
  BY <1>1, <1>2

(* A reader goes on to another place; only its record and the lock change. *)
LEMMA MoveKeepsIInv ==
  ASSUME IInv, NEW r \in Readers, NEW rec \in Records,
         reader' = [reader EXCEPT ![r] = rec],
         rec.asked \in {0, acked, reader[r].asked},
         \/ rec.pc \notin {"fetched", "batched"}
         \/ rec.saw = db /\ rec.asked = reader[r].asked,
         UNCHANGED <<db, mem, red, writer, redis, acked>>,
         begun' \in SUBSET Readers, split' \in BOOLEAN,
         \/ table' = None
         \/ table' \in Locks /\ rec.pc \notin {"idle", "batch", "batched"}
         \/ table' = table /\ reader[r].pc \in {"idle", "batch", "batched"}
  PROVE  IInv'
<1>1. reader' \in [Readers -> Records] /\ \A q \in Readers : reader'[q] = IF q = r THEN rec ELSE reader[q]
  BY DEF IInv, TInv, ReaderTypes
<1>2. table' # None => Slow' # {}
  <2>1. CASE rec.pc \notin {"idle", "batch", "batched"}
    BY <1>1, <2>1 DEF Slow
  <2>2. CASE table' = table /\ reader[r].pc \in {"idle", "batch", "batched"}
    <3>1. Slow \subseteq Slow'
      BY <1>1, <2>2 DEF Slow
    <3> QED
      BY <2>2, <3>1 DEF IInv, TInv, ReaderTypes
  <2> QED
    BY <2>1, <2>2
<1>3. ReaderTypes'
  BY <1>1, <1>2 DEF IInv, TInv, ReaderTypes
<1>4. RowTypes' /\ QueueTypes'
  BY DEF IInv, TInv, RowTypes, QueueTypes, redis, MutationsAreChained
<1>5. RaceInv'
  BY ReaderMoves
<1> QED
  BY <1>3, <1>4, <1>5 DEF IInv, TInv

(* A reader stores what it saw, and is done.                               *)
LEMMA StoreKeepsIInv ==
  ASSUME IInv, NEW r \in Readers, NEW fromRedis \in BOOLEAN,
         Store(reader[r].saw, reader[r].asked, fromRedis),
         reader[r].pc \in {"fetched", "batched"} \/ fromRedis,
         reader' = [reader EXCEPT ![r] = Idle],
         UNCHANGED <<db, red, writer, acked>>,
         Enqueues(reader[r].saw) \/ UNCHANGED redis,
         ReaderTypes'
  PROVE  IInv'
<1>1. reader[r] \in Records /\ acked' \in Versions
  BY DEF IInv, TInv, ReaderTypes, RowTypes
<1>2. reader[r].saw \in Copies /\ reader[r].asked \in Versions
  BY <1>1 DEF Records
<1>3. mem' \in [v : Copies, asked : Versions, since : Versions, fromRedis : BOOLEAN]
  BY <1>1, <1>2, StoreTypes
<1>4. RowTypes'
  BY <1>3 DEF IInv, TInv, RowTypes
<1>5. QueueTypes'
  <2>1. CASE Enqueues(reader[r].saw)
    BY <1>2, <2>1, EnqueueTypes DEF IInv, TInv
  <2>2. CASE UNCHANGED redis
    BY <2>2 DEF IInv, TInv, QueueTypes, redis, MutationsAreChained
  <2> QED
    BY <2>1, <2>2
<1>6. RaceInv'
  BY ReaderStores
<1> QED
  BY <1>4, <1>5, <1>6 DEF IInv, TInv

LEMMA ReaderStepKeepsIInv ==
  ASSUME IInv, NEW r \in Readers,
         Misses(r) \/ BatchMisses(r) \/ ReaderGoesOn(r) \/ FetchFails(r)
  PROVE  IInv'
<1>a. /\ acked \in Versions /\ db \in Versions /\ 0 \in Versions /\ None \in Copies
      /\ Versions \subseteq Copies
  BY Bounds DEF IInv, TInv, RowTypes
<1>b. reader \in [Readers -> Records] /\ begun \in SUBSET Readers /\ split \in BOOLEAN
      /\ table \in Locks \cup {None} /\ ReaderTypes
  BY DEF IInv, TInv, ReaderTypes
<1>c. Miss \in {"redis", "fetch"}
  BY DEF Miss
<1>d. Idle \in Records /\ Idle.pc = "idle" /\ Idle.asked = 0
  BY <1>a DEF Idle, Records
<1>1. CASE Misses(r)
  <2> DEFINE unused == Locks \ ({table} \cup {reader[q].lock : q \in Readers})
             l == IF table # None THEN table ELSE CHOOSE k \in unused : TRUE
             free == ~Locked(l) /\ ~Awaited(l)
             rec == [pc |-> IF free THEN Miss ELSE "wait", lock |-> l, saw |-> None,
                     asked |-> IF free THEN acked ELSE 0]
  <2>1. /\ table' = l /\ reader' = [reader EXCEPT ![r] = rec]
        /\ begun' \in {begun, begun \cup {r}} /\ split' = split
        /\ UNCHANGED <<db, mem, red, writer, redis, acked>>
    BY <1>1 DEF Misses
  <2>2. l \in Locks
    BY <1>b, FreshLock
  <2> HIDE DEF unused, l
  <2>3. rec.pc \in {"redis", "fetch", "wait"} /\ rec.asked \in {0, acked}
    BY <1>c
  <2>4. rec \in Records
    BY <2>2, <2>3, <1>a DEF Records
  <2> HIDE DEF rec
  <2> QED
    BY <1>b, <2>1, <2>2, <2>3, <2>4, MoveKeepsIInv
<1>2. CASE BatchMisses(r)
  <2> DEFINE rec == [Idle EXCEPT !.pc = "batch", !.asked = acked]
  <2>1. /\ reader[r].pc = "idle" /\ reader' = [reader EXCEPT ![r] = rec]
        /\ UNCHANGED <<db, mem, red, table, writer, redis, acked, begun, split>>
    BY <1>2 DEF BatchMisses
  <2>2. rec \in Records /\ rec.pc = "batch" /\ rec.asked = acked
    BY <1>a DEF Idle, Records
  <2> HIDE DEF rec
  <2> QED
    BY <1>b, <2>1, <2>2, MoveKeepsIInv
<1>3. CASE Acquires(r)
  <2>1. CASE Finishes(r) /\ Settles(Slow \ {r}) /\ UNCHANGED <<db, mem, red, writer, redis, acked>>
    BY <1>b, <1>d, <2>1, MoveKeepsIInv DEF Finishes, Settles
  <2>2. CASE /\ reader' = [reader EXCEPT ![r].pc = Miss, ![r].asked = acked]
             /\ begun' \in {begun, begun \cup {r}}
             /\ reader[r].pc = "wait"
             /\ UNCHANGED <<db, mem, red, table, writer, redis, acked, split>>
    <3> DEFINE rec == [reader[r] EXCEPT !.pc = Miss, !.asked = acked]
    <3>1. reader' = [reader EXCEPT ![r] = rec]
      BY <1>b, <2>2
    <3>2. rec \in Records /\ rec.pc \in {"redis", "fetch"} /\ rec.asked = acked
      BY <1>a, <1>b, <1>c DEF Records
    <3>3. /\ begun' \in SUBSET Readers /\ split' \in BOOLEAN
          /\ table' = None \/ table' \in Locks
      BY <1>b, <2>2
    <3> HIDE DEF rec
    <3> QED
      BY <2>2, <3>1, <3>2, <3>3, MoveKeepsIInv
  <2> QED
    BY <1>3, <2>1, <2>2 DEF Acquires
<1>4. CASE RedisAnswers(r)
  <2>0. UNCHANGED <<db, mem, red, table, writer, redis, acked, split>>
    BY <1>4 DEF RedisAnswers
  <2>1. CASE reader' = [reader EXCEPT ![r].pc = "reply", ![r].saw = red] /\ UNCHANGED begun
    <3> DEFINE rec == [reader[r] EXCEPT !.pc = "reply", !.saw = red]
    <3>1. reader' = [reader EXCEPT ![r] = rec]
      BY <1>b, <2>1
    <3>2. red \in Copies
      BY DEF IInv, TInv, RowTypes
    <3>3. rec \in Records /\ rec.pc = "reply" /\ rec.asked = reader[r].asked
      BY <1>b, <3>2 DEF Records
    <3> HIDE DEF rec
    <3> QED
      BY <1>b, <2>0, <2>1, <3>1, <3>3, MoveKeepsIInv
  <2>2. CASE reader' = [reader EXCEPT ![r].pc = "fetch", ![r].asked = acked] /\ begun' = begun \cup {r}
    <3> DEFINE rec == [reader[r] EXCEPT !.pc = "fetch", !.asked = acked]
    <3>1. reader' = [reader EXCEPT ![r] = rec]
      BY <1>b, <2>2
    <3>2. rec \in Records /\ rec.pc = "fetch" /\ rec.asked = acked
      BY <1>a, <1>b DEF Records
    <3>3. /\ begun' \in SUBSET Readers /\ split' \in BOOLEAN
          /\ table' = None \/ table' \in Locks
      BY <1>b, <2>0, <2>2
    <3> HIDE DEF rec
    <3> QED
      BY <2>0, <2>2, <3>1, <3>2, <3>3, MoveKeepsIInv
  <2> QED
    BY <1>4, <2>1, <2>2 DEF RedisAnswers
<1>5. CASE RedisHit(r)
  <2>1. ReaderTypes'
    BY <1>5, <1>b, FinishTypes DEF RedisHit
  <2> QED
    BY <1>5, <2>1, StoreKeepsIInv DEF RedisHit, Finishes
<1>6. CASE FetchReads(r)
  <2> DEFINE rec == [reader[r] EXCEPT !.saw = db,
                        !.pc = IF reader[r].pc = "fetch" THEN "fetched" ELSE "batched"]
  <2>1. /\ reader' = [reader EXCEPT ![r] = rec]
        /\ UNCHANGED <<db, mem, red, table, writer, redis, acked, begun, split>>
        /\ reader[r].pc \in {"fetch", "batch"}
    BY <1>6, <1>b DEF FetchReads
  <2>2. /\ rec \in Records /\ rec.saw = db /\ rec.asked = reader[r].asked
        /\ rec.pc = IF reader[r].pc = "fetch" THEN "fetched" ELSE "batched"
    BY <1>a, <1>b DEF Records
  <2> HIDE DEF rec
  <2>3. \/ reader[r].pc \in {"idle", "batch", "batched"} /\ table' = table
        \/ table' \in Locks \cup {None} /\ rec.pc \notin {"idle", "batch", "batched"}
    BY <1>b, <2>1, <2>2
  <2> QED
    BY <1>b, <2>1, <2>2, <2>3, MoveKeepsIInv
<1>7. CASE FetchStores(r)
  <2>1. ReaderTypes'
    BY <1>7, <1>b, FinishTypes DEF FetchStores
  <2> QED
    BY <1>7, <2>1, StoreKeepsIInv DEF FetchStores, Finishes
<1>8. CASE FetchFails(r)
  BY <1>8, <1>b, <1>d, MoveKeepsIInv DEF FetchFails, Finishes, GoesAway
<1>9. CASE BatchPuts(r)
  <2>1. ReaderTypes'
    <3>1. reader' \in [Readers -> Records] /\ Slow' = Slow
      BY <1>9, <1>b, <1>d DEF BatchPuts, Slow
    <3> QED
      BY <1>9, <1>b, <3>1 DEF BatchPuts, ReaderTypes
  <2> QED
    BY <1>9, <2>1, StoreKeepsIInv DEF BatchPuts
<1> QED
  BY <1>1, <1>2, <1>3, <1>4, <1>5, <1>6, <1>7, <1>8, <1>9 DEF ReaderGoesOn

LEMMA WriteKeepsIInv ==
  ASSUME IInv, NEW w \in Writers, Writes(w)
  PROVE  IInv'
<1>1. /\ db \in Int /\ acked \in Int /\ \A x \in Writers : writer[x].v \in Int
      /\ db \in Versions /\ db' = db + 1 /\ db < MaxWrites
  BY Numbers DEF IInv, TInv, RowTypes, Writes
<1>2. db' \in Versions /\ db' >= db /\ db' >= acked
  BY <1>1, Bounds DEF Versions, IInv, RaceInv
<1>3. /\ writer' \in [Writers -> [pc : {"idle", "wrote"}, kind : Kinds \cup {"none"}, v : Copies]]
      /\ \A x \in Writers : writer'[x].pc = "wrote" => writer'[x].v \in {writer[x].v, db'} /\
           (writer'[x].v # db' => writer[x].pc = "wrote")
  <2>1. CASE UNCHANGED writer
    BY <2>1 DEF IInv, TInv, RowTypes
  <2>2. ASSUME NEW k \in Kinds, writer' = [writer EXCEPT ![w] = [pc |-> "wrote", kind |-> k, v |-> db']]
        PROVE  <1>3
    <3>1. [pc |-> "wrote", kind |-> k, v |-> db']
            \in [pc : {"idle", "wrote"}, kind : Kinds \cup {"none"}, v : Copies]
      BY <1>2, Bounds
    <3> QED
      BY <2>2, <3>1 DEF IInv, TInv, RowTypes
  <2> QED
    BY <2>1, <2>2 DEF Writes
<1>4. UNCHANGED <<mem, red, table, reader, redis, acked, begun, split>>
  BY DEF Writes
<1>5. RowTypes'
  BY <1>2, <1>3, <1>4 DEF IInv, TInv, RowTypes
<1>6. ReaderTypes' /\ QueueTypes'
  BY <1>4 DEF IInv, TInv, ReaderTypes, Slow, QueueTypes, redis, MutationsAreChained
<1>7. RaceInv'
  <2>1. \A x \in Writers : writer'[x].pc = "wrote" => writer'[x].v <= db'
    BY <1>1, <1>2, <1>3 DEF IInv, RaceInv
  <2>2. StaleIsARace'
    BY <1>4 DEF IInv, RaceInv, StaleIsARace, Hit
  <2> QED
    BY <1>2, <1>4, <2>1, <2>2 DEF IInv, RaceInv
<1> QED
  BY <1>5, <1>6, <1>7 DEF IInv, TInv

(* A writer tells the cache: with its version, or to drop what there is.   *)
LEMMA TellKeepsIInv ==
  ASSUME IInv, NEW w \in Writers, writer[w].pc = "wrote", Acknowledges(w),
         UNCHANGED <<db, red, reader>>,
         table' = table \/ table' = None,
         begun' \in SUBSET Readers, split' \in BOOLEAN,
         \/ mem' = NoEntry /\ Enqueues(None)
         \/ Store(writer[w].v, writer[w].v, FALSE) /\ Enqueues(writer[w].v)
  PROVE  IInv'
<1>1. RowTypes /\ writer[w].v \in Versions /\ writer[w].v \in Copies
  BY Bounds DEF IInv, TInv, RowTypes
<1>2. /\ acked' \in Versions
      /\ writer' \in [Writers -> [pc : {"idle", "wrote"}, kind : Kinds \cup {"none"}, v : Copies]]
      /\ \A x \in Writers : writer'[x].pc = "wrote" => writer'[x] = writer[x]
  BY <1>1, AcknowledgeTypes
<1>3. mem' \in [v : Copies, asked : Versions, since : Versions, fromRedis : BOOLEAN]
  <2>1. CASE mem' = NoEntry
    BY <2>1, Bounds DEF NoEntry
  <2>2. CASE Store(writer[w].v, writer[w].v, FALSE)
    BY <1>1, <1>2, <2>2, StoreTypes
  <2> QED
    BY <2>1, <2>2
<1>4. RowTypes'
  BY <1>1, <1>2, <1>3 DEF RowTypes
<1>5. ReaderTypes'
  BY DEF IInv, TInv, ReaderTypes, Slow
<1>6. QueueTypes'
  BY <1>1, EnqueueTypes, Bounds DEF IInv, TInv
<1>7. RaceInv'
  BY WriterTells
<1> QED
  BY <1>4, <1>5, <1>6, <1>7 DEF IInv, TInv

LEMMA WriterStepKeepsIInv ==
  ASSUME IInv, NEW w \in Writers, Writes(w) \/ WriterGoesOn(w)
  PROVE  IInv'
<1>0. begun \in SUBSET Readers /\ split \in BOOLEAN
  BY DEF IInv, TInv, ReaderTypes
<1>1. CASE Writes(w)
  BY <1>1, WriteKeepsIInv
<1>2. CASE Puts(w)
  BY <1>0, <1>2, TellKeepsIInv DEF Puts
<1>3. CASE Invalidates(w)
  BY <1>3, TellKeepsIInv DEF Invalidates, GoesAway
<1>4. CASE Clears(w)
  BY <1>4, TellKeepsIInv DEF Clears, GoesAway
<1> QED
  BY <1>1, <1>2, <1>3, <1>4 DEF WriterGoesOn

(* Redis changes its own entry and the queue.                              *)
LEMMA RedisStepKeepsIInv ==
  ASSUME IInv, UNCHANGED <<db, mem, table, reader, writer, acked, begun, split>>,
         red' \in Copies, QueueTypes'
  PROVE  IInv'
<1>1. RowTypes' /\ ReaderTypes'
  BY DEF IInv, TInv, RowTypes, ReaderTypes, Slow
<1>2. RaceInv'
  BY DEF IInv, RaceInv, StaleIsARace, Hit
<1> QED
  BY <1>1, <1>2 DEF IInv, TInv

LEMMA ExpiryKeepsIInv ==
  ASSUME IInv, MemoryExpires \/ Restart
  PROVE  IInv'
<1>1. /\ mem' = NoEntry /\ UNCHANGED <<db, red, acked>>
      /\ begun' = {} /\ split' \in BOOLEAN
  BY DEF MemoryExpires, Restart, GoesAway
<1>2. /\ acked \in Versions /\ 0 \in Versions /\ None \in Copies /\ 0 <= acked
      /\ NoEntry \in [v : Copies, asked : Versions, since : Versions, fromRedis : BOOLEAN]
  BY Bounds DEF IInv, TInv, RowTypes, NoEntry
<1>3. StaleIsARace'
  BY <1>1 DEF StaleIsARace, Hit, NoEntry
<1>4. CASE MemoryExpires
  <2>1. UNCHANGED <<table, reader, writer, redis>>
    BY <1>4 DEF MemoryExpires
  <2>2. RowTypes' /\ ReaderTypes' /\ QueueTypes'
    BY <1>1, <1>2, <2>1
    DEF IInv, TInv, RowTypes, ReaderTypes, Slow, QueueTypes, redis, MutationsAreChained
  <2> QED
    BY <1>1, <1>3, <2>1, <2>2 DEF IInv, TInv, RaceInv
<1>5. CASE Restart
  <2>1. /\ table' = None /\ reader' = [r \in Readers |-> Idle] /\ writer' = [w \in Writers |-> Resting]
        /\ queue' = <<>> /\ tail' = FALSE /\ late' = late
    BY <1>5 DEF Restart
  <2>2. RowTypes'
    BY <1>1, <1>2, <2>1 DEF IInv, TInv, RowTypes, Resting
  <2>3. ReaderTypes'
    BY <1>1, <1>2, <2>1 DEF ReaderTypes, Records, Idle
  <2>4. QueueTypes'
    <3>1. queue' \in Seq(Mutations) /\ Len(queue') = 0 /\ DOMAIN queue' = {}
      BY <2>1
    <3>2. MutationsAreChained'
      BY <2>1, <3>1 DEF MutationsAreChained
    <3>3. late' \in SUBSET Copies /\ tail' \in BOOLEAN
      BY <2>1 DEF IInv, TInv, QueueTypes
    <3>4. Len(queue') <= MaxQueue
      BY <3>1, Bounds
    <3> QED
      BY <3>1, <3>2, <3>3, <3>4 DEF QueueTypes
  <2>5. RaceInv'
    BY <1>1, <1>2, <1>3, <2>1 DEF IInv, RaceInv, Idle, Resting
  <2> QED
    BY <2>2, <2>3, <2>4, <2>5 DEF IInv, TInv
<1> QED
  BY <1>4, <1>5

LEMMA NextKeepsIInv == IInv /\ [Next]_vars => IInv'
<1> SUFFICES ASSUME IInv, [Next]_vars PROVE IInv'
  OBVIOUS
<1>0. red \in Copies /\ QueueTypes
  BY DEF IInv, TInv, RowTypes
<1>1. ASSUME NEW r \in Readers, Misses(r) \/ BatchMisses(r) \/ ReaderGoesOn(r) \/ FetchFails(r)
      PROVE  IInv'
  BY <1>1, ReaderStepKeepsIInv
<1>2. ASSUME NEW w \in Writers, Writes(w) \/ WriterGoesOn(w)
      PROVE  IInv'
  BY <1>2, WriterStepKeepsIInv
<1>3. ASSUME NEW i \in 1..MaxQueue, Mutates(i)
      PROVE  IInv'
  <2>1. QueueTypes' /\ red' \in Copies
    BY <1>0, <1>3, MutateTypes
  <2>2. UNCHANGED <<db, mem, table, reader, writer, acked, begun, split>>
    BY <1>3 DEF Mutates
  <2> QED
    BY <2>1, <2>2, RedisStepKeepsIInv
<1>4. ASSUME NEW v \in Copies, LandsLate(v)
      PROVE  IInv'
  <2>1. QueueTypes' /\ red' \in Copies
    BY <1>0, <1>4 DEF LandsLate, QueueTypes, MutationsAreChained
  <2> QED
    BY <1>4, <2>1, RedisStepKeepsIInv DEF LandsLate
<1>5. CASE MemoryExpires \/ Restart
  BY <1>5, ExpiryKeepsIInv
<1>6. CASE RedisExpires
  <2>1. QueueTypes' /\ red' \in Copies
    BY <1>0, <1>6, Bounds DEF RedisExpires, QueueTypes, redis, MutationsAreChained
  <2> QED
    BY <1>6, <2>1, RedisStepKeepsIInv DEF RedisExpires
<1>7. CASE UNCHANGED vars
  <2>1. QueueTypes' /\ red' \in Copies
    BY <1>0, <1>7 DEF vars, QueueTypes, redis, MutationsAreChained
  <2> QED
    BY <1>7, <2>1, RedisStepKeepsIInv DEF vars
<1> QED
  BY <1>1, <1>2, <1>3, <1>4, <1>5, <1>6, <1>7 DEF Next

LEMMA SpecKeepsIInv == Spec => []IInv
  BY InitIInv, NextKeepsIInv, PTL DEF Spec

-----------------------------------------------------------------------------
(* The cache's state is well formed: in particular a lock stays in the     *)
(* table only while a reader may need it (cache.py:377-408).               *)
THEOREM TypeCorrect == Spec => []TypeOK
<1>1. IInv => TypeOK
  BY TypesSuffice DEF IInv
<1> QED
  BY <1>1, SpecKeepsIInv, PTL

(* However many readers and writers, and however long the queue: Redis     *)
(* gets the mutations in the order of the memory's (cache.py:249-283).     *)
THEOREM Chained == Spec => []MutationsAreChained
<1>1. IInv => MutationsAreChained
  BY DEF IInv, TInv, QueueTypes
<1> QED
  BY <1>1, SpecKeepsIInv, PTL

(* However many readers and writers: an entry older than an acknowledged   *)
(* write came from a fetch that was under way, or from a Redis copy that   *)
(* the deletion had not reached (cache.py:286-408).                        *)
THEOREM StaleOnlyByRace == Spec => []StaleIsARace
<1>1. IInv => StaleIsARace
  BY DEF IInv, RaceInv
<1> QED
  BY <1>1, SpecKeepsIInv, PTL

-----------------------------------------------------------------------------
(* Why concurrent misses share one fetch(): nobody shares a lock with its  *)
(* holder, whoever is in the slow path is behind the lock of the table     *)
(* until the entry goes, and whoever called fetch() is still inside it, or *)
(* has stored its answer for all those who wait.                           *)

Behind(r, q) == reader[r].lock = reader[q].lock
Fetching(r) == reader[r].pc \in {"fetch", "fetched"}
Inside(r) == reader[r].pc \in {"redis", "reply", "fetch", "fetched"}

OneHolder ==
    /\ \A r \in Readers : reader[r].pc \in {"reply", "fetched", "batched"} => reader[r].saw \in Versions
    /\ \A r, q \in Readers : Inside(r) /\ Inside(q) /\ Behind(r, q) => r = q
    /\ \A r \in Slow : reader[r].lock \in Locks
    /\ Slow = {} => begun = {}

OneLock == ~split =>
    /\ \A r, q \in Slow : Behind(r, q)
    /\ ~Hit => \A r \in Slow : reader[r].lock = table

OneFetch == ~split =>
    \/ \A r \in begun : Fetching(r)
    \/ /\ Hit
       /\ \A r \in Slow : reader[r].pc = "wait"
       /\ \A r, q \in begun : r = q

FetchInv == OneHolder /\ OneLock /\ OneFetch

LEMMA InsideIsSlow == \A r \in Readers : (Inside(r) => r \in Slow) /\ (Fetching(r) => Inside(r))
  BY DEF Inside, Slow, Fetching

LEMMA FetchInit == Init => FetchInv
  BY DEF Init, FetchInv, OneHolder, OneLock, OneFetch, Inside, Slow, Idle, Fetching

(* Behind one lock at most one reader has called fetch().                  *)
LEMMA FetchSuffices == IInv /\ FetchInv => OneFetchPerMiss
<1> SUFFICES ASSUME IInv, FetchInv, ~split PROVE Cardinality(begun) <= 1
  BY DEF OneFetchPerMiss
<1>1. begun \subseteq Readers
  BY DEF IInv, TInv, ReaderTypes
<1>2. \A r, q \in begun : r = q
  BY <1>1, InsideIsSlow DEF FetchInv, OneHolder, OneLock, OneFetch
<1>3. CASE begun = {}
  BY <1>3, FS_EmptySet
<1>4. CASE begun # {}
  <2>1. PICK r \in begun : TRUE
    BY <1>4
  <2>2. begun = {r}
    BY <1>2, <2>1
  <2> QED
    BY <2>2, FS_Singleton
<1> QED
  BY <1>3, <1>4

(* Steps that leave the readers, and a hit a hit.                          *)
LEMMA OthersKeepFetch ==
  ASSUME FetchInv, UNCHANGED <<reader, table, begun, split>>, Hit => Hit'
  PROVE  FetchInv'
  BY DEF FetchInv, OneHolder, OneLock, OneFetch, Inside, Behind, Fetching, Slow

(* The entry goes while readers are under way: whoever has called fetch()  *)
(* counts no longer, and the locks may differ from then on.                *)
LEMMA LossKeepsFetch ==
  ASSUME FetchInv, UNCHANGED reader, GoesAway(Slow)
  PROVE  FetchInv'
  BY DEF FetchInv, OneHolder, OneLock, OneFetch, Inside, Behind, Fetching, Slow, GoesAway

(* A reader outside the slow path moves, and stays outside.                *)
LEMMA BatchKeepsFetch ==
  ASSUME IInv, FetchInv, NEW r \in Readers, NEW rec \in Records,
         reader' = [reader EXCEPT ![r] = rec],
         reader[r].pc \in {"idle", "batch", "batched"},
         rec.pc \in {"idle", "batch", "batched"},
         rec.pc = "batched" => rec.saw \in Versions,
         UNCHANGED <<table, begun, split>>, Hit => Hit'
  PROVE  FetchInv'
<1>1. \A q \in Readers : reader'[q] = IF q = r THEN rec ELSE reader[q]
  BY DEF IInv, TInv, ReaderTypes
<1>2. Slow' = Slow /\ r \notin Slow
  BY <1>1 DEF Slow
<1>3. \A q \in Slow : q \in Readers /\ q # r /\ reader'[q] = reader[q]
  BY <1>1, <1>2 DEF Slow
<1>4. \A q \in Readers : (Inside(q)' <=> Inside(q)) /\ (Fetching(q)' <=> Fetching(q))
  BY <1>1 DEF Inside, Fetching
<1>5. OneHolder'
  <2>1. \A q \in Readers : reader'[q].pc \in {"reply", "fetched", "batched"} => reader'[q].saw \in Versions
    BY <1>1 DEF FetchInv, OneHolder
  <2>2. \A p, q \in Readers : Inside(p)' /\ Inside(q)' /\ Behind(p, q)' => p = q
    BY <1>3, <1>4, InsideIsSlow DEF FetchInv, OneHolder, Behind
  <2> QED
    BY <2>1, <2>2, <1>2, <1>3 DEF FetchInv, OneHolder
<1>6. OneLock'
  BY <1>2, <1>3 DEF FetchInv, OneLock, Behind
<1>7. OneFetch'
  <2>1. begun \subseteq Readers
    BY DEF IInv, TInv, ReaderTypes
  <2> QED
    BY <1>2, <1>3, <1>4, <2>1 DEF FetchInv, OneFetch
<1> QED
  BY <1>5, <1>6, <1>7 DEF FetchInv

(* A reader in the slow path moves on behind the same lock: it waits no    *)
(* longer only when nobody is inside.                                      *)
LEMMA OnwardKeepsFetch ==
  ASSUME IInv, FetchInv, NEW r \in Readers, NEW rec \in Records,
         reader' = [reader EXCEPT ![r] = rec],
         r \in Slow, rec.lock = reader[r].lock,
         rec.pc \in {"redis", "reply", "fetch", "fetched"},
         rec.pc \in {"reply", "fetched"} => rec.saw \in Versions,
         Inside(r) \/ (~Hit /\ ~Locked(reader[r].lock)),
         \/ begun' = begun /\ (Fetching(r) => rec.pc \in {"fetch", "fetched"})
         \/ begun' = begun \cup {r} /\ rec.pc \in {"fetch", "fetched"},
         UNCHANGED <<mem, table, split>>
  PROVE  FetchInv'
<1>1. \A q \in Readers : reader'[q] = IF q = r THEN rec ELSE reader[q]
  BY DEF IInv, TInv, ReaderTypes
<1>2. Slow' = Slow
  BY <1>1 DEF Slow
<1>3. \A q \in Readers : reader'[q].lock = reader[q].lock
  BY <1>1
<1>4. \A q \in Readers : q # r => (Inside(q)' <=> Inside(q)) /\ (Fetching(q)' <=> Fetching(q))
  BY <1>1 DEF Inside, Fetching
<1>5. \A q \in Readers : Inside(q) /\ Behind(q, r) => q = r
  <2>1. CASE Inside(r)
    BY <2>1 DEF FetchInv, OneHolder
  <2>2. CASE ~Locked(reader[r].lock)
    BY <2>2 DEF Locked, Holds, Inside, Behind
  <2> QED
    BY <2>1, <2>2
<1>6. OneHolder'
  <2>1. \A q \in Readers : reader'[q].pc \in {"reply", "fetched", "batched"} => reader'[q].saw \in Versions
    BY <1>1 DEF FetchInv, OneHolder
  <2>2. \A p, q \in Readers : Inside(p)' /\ Inside(q)' /\ Behind(p, q)' => p = q
    BY <1>3, <1>4, <1>5 DEF FetchInv, OneHolder, Behind
  <2>3. \A q \in Slow' : reader'[q].lock \in Locks
    BY <1>2, <1>3 DEF FetchInv, OneHolder, Slow
  <2> QED
    BY <2>1, <2>2, <2>3, <1>2 DEF OneHolder
<1>7. OneLock'
  BY <1>2, <1>3 DEF FetchInv, OneLock, Behind, Hit, Slow
<1>8. OneFetch'
  <2> SUFFICES ASSUME ~split PROVE \A q \in begun' : Fetching(q)'
    BY DEF OneFetch
  <2>1. begun \subseteq Readers
    BY DEF IInv, TInv, ReaderTypes
  <2>2. \A q \in begun : Fetching(q)
    BY InsideIsSlow DEF FetchInv, OneFetch, Inside
  <2>3. \A q \in begun : q = r
    BY <2>1, <2>2, <1>5, InsideIsSlow DEF FetchInv, OneLock
  <2>4. rec.pc \in {"fetch", "fetched"} => Fetching(r)'
    BY <1>1 DEF Fetching
  <2> QED
    BY <2>2, <2>3, <2>4
<1> QED
  BY <1>6, <1>7, <1>8 DEF FetchInv

(* A reader is done.  If it was inside, all others of its lock wait, and   *)
(* nobody but it had called fetch().                                       *)
LEMMA DoneKeepsFetch ==
  ASSUME IInv, FetchInv, NEW r \in Slow, Finishes(r),
         \/ GoesAway(Slow \ {r})
         \/ Settles(Slow \ {r}) /\ Hit' /\ (Inside(r) \/ (reader[r].pc = "wait" /\ Hit))
  PROVE  FetchInv'
<1>0. r \in Readers /\ begun \subseteq Readers
  BY DEF Slow, IInv, TInv, ReaderTypes
<1>1. \A q \in Readers : reader'[q] = IF q = r THEN Idle ELSE reader[q]
  BY DEF Finishes, IInv, TInv, ReaderTypes
<1>2. Slow' = Slow \ {r}
  BY <1>0, <1>1 DEF Slow, Idle
<1>3. \A q \in Slow' : q \in Slow /\ q \in Readers /\ reader'[q] = reader[q] /\ q # r
  BY <1>1, <1>2 DEF Slow
<1>4. \A q \in Readers : q # r => (Inside(q)' <=> Inside(q)) /\ (Fetching(q)' <=> Fetching(q))
  BY <1>1 DEF Inside, Fetching
<1>5. ~Inside(r)'
  BY <1>0, <1>1 DEF Inside, Idle
<1>6. OneHolder'
  <2>1. \A q \in Readers : reader'[q].pc \in {"reply", "fetched", "batched"} => reader'[q].saw \in Versions
    BY <1>1 DEF FetchInv, OneHolder, Idle
  <2>2. \A p, q \in Readers : Inside(p)' /\ Inside(q)' /\ Behind(p, q)' => p = q
    BY <1>1, <1>4, <1>5 DEF FetchInv, OneHolder, Behind
  <2>3. Slow' = {} => begun' = {}
    BY <1>2 DEF GoesAway, Settles
  <2> QED
    BY <2>1, <2>2, <2>3, <1>3 DEF FetchInv, OneHolder
<1>7. CASE split'
  BY <1>6, <1>7 DEF FetchInv, OneLock, OneFetch
<1>8. CASE ~split' /\ Slow' = {}
  <2>1. begun' = {}
    BY <1>6, <1>8 DEF OneHolder
  <2> QED
    BY <1>6, <1>8, <2>1 DEF FetchInv, OneLock, OneFetch
<1>9. CASE ~split' /\ Slow' # {}
  <2>1. ~split /\ begun' = begun /\ Hit' /\ (Inside(r) \/ (reader[r].pc = "wait" /\ Hit))
    BY <1>2, <1>9 DEF GoesAway, Settles
  <2>2. OneLock'
    BY <1>3, <2>1 DEF FetchInv, OneLock, Behind
  <2>3. CASE Inside(r)
    <3>1. \A q \in Slow : q # r => ~Inside(q)
      BY <1>0, <2>1, <2>3, <1>3 DEF FetchInv, OneHolder, OneLock, Slow
    <3>2. \A q \in Slow' : reader'[q].pc = "wait"
      <4> SUFFICES ASSUME NEW q \in Slow' PROVE reader'[q].pc = "wait"
        OBVIOUS
      <4>1. ~Inside(q) /\ q \in Slow /\ reader'[q] = reader[q] /\ reader[q] \in Records
        BY <3>1, <1>3 DEF IInv, TInv, ReaderTypes
      <4> QED
        BY <4>1 DEF Inside, Slow, Records
    <3>3. \A q \in begun : q = r
      BY <1>0, <2>1, <2>3, <3>1, InsideIsSlow DEF FetchInv, OneFetch, Inside
    <3>4. OneFetch'
      BY <2>1, <3>2, <3>3 DEF OneFetch
    <3> QED
      BY <1>6, <2>2, <3>4 DEF FetchInv
  <2>4. CASE reader[r].pc = "wait"
    <3>1. OneFetch'
      BY <1>0, <1>3, <1>4, <2>1, <2>4 DEF FetchInv, OneFetch, Fetching
    <3> QED
      BY <1>6, <2>2, <3>1 DEF FetchInv
  <2> QED
    BY <2>1, <2>3, <2>4
<1> QED
  BY <1>7, <1>8, <1>9

(* A reader that misses goes behind the lock of the table, or behind a new *)
(* one when nobody else is on the way.                                     *)
LEMMA MissKeepsFetch ==
  ASSUME IInv, FetchInv, NEW r \in Readers, Misses(r)
  PROVE  FetchInv'
<1> DEFINE unused == Locks \ ({table} \cup {reader[q].lock : q \in Readers})
           l == IF table # None THEN table ELSE CHOOSE k \in unused : TRUE
           free == ~Locked(l) /\ ~Awaited(l)
           rec == [pc |-> IF free THEN Miss ELSE "wait", lock |-> l, saw |-> None,
                   asked |-> IF free THEN acked ELSE 0]
<1>1. /\ reader[r].pc = "idle" /\ ~Hit
      /\ table' = l /\ reader' = [reader EXCEPT ![r] = rec]
      /\ begun' = IF free /\ ~RedisOn THEN begun \cup {r} ELSE begun
      /\ UNCHANGED <<mem, split>>
  BY DEF Misses
<1>2. l \in Locks
  BY FreshLock DEF IInv, TInv
<1>3. ~free => rec.pc = "wait"
  OBVIOUS
<1>4. free => rec.pc = Miss
  OBVIOUS
<1>5. rec.lock = l
  OBVIOUS
<1>6. \A q \in Slow : Inside(q) \/ reader[q].pc = "wait"
  BY DEF Inside, Slow, IInv, TInv, ReaderTypes, Records
<1>7. free => \A q \in Slow : reader[q].lock # l
  BY <1>6 DEF Locked, Awaited, Holds, Inside, Slow
<1> HIDE DEF l, free, rec, unused
<1>8. \A q \in Readers : reader'[q] = IF q = r THEN rec ELSE reader[q]
  BY <1>1 DEF IInv, TInv, ReaderTypes
<1>9. rec.pc \in {"wait", "redis", "fetch"} /\ (rec.pc = "fetch" <=> free /\ ~RedisOn)
  BY <1>3, <1>4 DEF Miss
<1>10. Slow' = Slow \cup {r} /\ r \notin Slow
  BY <1>1, <1>8, <1>9 DEF Slow
<1>11. \A q \in Slow : q \in Readers /\ q # r /\ reader'[q] = reader[q]
  BY <1>8, <1>10 DEF Slow
<1>12. \A q \in Readers : q # r => (Inside(q)' <=> Inside(q)) /\ (Fetching(q)' <=> Fetching(q))
  BY <1>8 DEF Inside, Fetching
<1>13. Inside(r)' <=> free
  BY <1>3, <1>4, <1>8 DEF Inside, Miss
<1>14. begun \subseteq Readers
  BY DEF IInv, TInv, ReaderTypes
<1>15. ~split => \A q \in Slow : reader[q].lock = table
  BY <1>1 DEF FetchInv, OneLock
<1>16. ~split /\ free => Slow = {} /\ begun = {}
  <2>1. None \notin Locks
    BY Bounds DEF Locks
  <2>2. table # None => l = table
    BY DEF l
  <2>3. \A q \in Slow : reader[q].lock \in Locks
    BY DEF FetchInv, OneHolder
  <2> QED
    BY <1>7, <1>15, <2>1, <2>2, <2>3 DEF FetchInv, OneHolder
<1>17. OneHolder'
  <2>1. \A q \in Readers : reader'[q].pc \in {"reply", "fetched", "batched"} => reader'[q].saw \in Versions
    BY <1>8, <1>9 DEF FetchInv, OneHolder
  <2>2. \A p, q \in Readers : Inside(p)' /\ Inside(q)' /\ Behind(p, q)' => p = q
    <3> SUFFICES ASSUME NEW p \in Readers, NEW q \in Readers, Inside(p)', Inside(q)', Behind(p, q)', p # q
                 PROVE  FALSE
      OBVIOUS
    <3>1. CASE p # r /\ q # r
      BY <3>1, <1>8, <1>12 DEF FetchInv, OneHolder, Behind
    <3>2. CASE p = r
      <4>1. q \in Slow /\ free /\ reader[q].lock = l
        BY <3>2, <1>5, <1>8, <1>12, <1>13, InsideIsSlow DEF Behind
      <4> QED
        BY <4>1, <1>7
    <3>3. CASE q = r
      <4>1. p \in Slow /\ free /\ reader[p].lock = l
        BY <3>3, <1>5, <1>8, <1>12, <1>13, InsideIsSlow DEF Behind
      <4> QED
        BY <4>1, <1>7
    <3> QED
      BY <3>1, <3>2, <3>3
  <2>3. \A q \in Slow' : reader'[q].lock \in Locks
    BY <1>2, <1>5, <1>8, <1>10, <1>11 DEF FetchInv, OneHolder
  <2> QED
    BY <2>1, <2>2, <2>3, <1>10 DEF OneHolder
<1>18. ~split => \A q \in Slow' : reader'[q].lock = l
  <2>1. ~split /\ Slow # {} => l = table
    <3>1. \A q \in Slow : reader[q].lock \in Locks
      BY DEF FetchInv, OneHolder
    <3>2. None \notin Locks
      BY Bounds DEF Locks
    <3> QED
      BY <3>1, <3>2, <1>15 DEF l
  <2> QED
    BY <2>1, <1>5, <1>8, <1>10, <1>11, <1>15
<1>19. OneLock'
  BY <1>1, <1>18 DEF OneLock, Behind
<1>20. OneFetch'
  <2> SUFFICES ASSUME ~split PROVE \A q \in begun' : Fetching(q)'
    BY <1>1 DEF OneFetch
  <2>1. \A q \in begun : Fetching(q)
    BY <1>1 DEF FetchInv, OneFetch
  <2>2. \A q \in begun : q # r
    BY <2>1, <1>1 DEF Fetching
  <2>3. r \in begun' => Fetching(r)'
    BY <2>2, <1>1, <1>8, <1>9 DEF Fetching
  <2> QED
    BY <2>1, <2>2, <2>3, <1>1, <1>12, <1>14
<1> QED
  BY <1>17, <1>19, <1>20 DEF FetchInv

LEMMA ReaderStepKeepsFetch ==
  ASSUME IInv, FetchInv, NEW r \in Readers,
         Misses(r) \/ BatchMisses(r) \/ ReaderGoesOn(r) \/ FetchFails(r)
  PROVE  FetchInv'
<1>a. /\ reader \in [Readers -> Records] /\ reader[r] \in Records
      /\ acked \in Versions /\ db \in Versions /\ None \in Copies
  BY Bounds DEF IInv, TInv, ReaderTypes, RowTypes
<1>b. /\ reader[r].pc \in {"reply", "fetched", "batched"} => reader[r].saw \in Versions
      /\ None \notin Versions /\ Versions \subseteq Copies
  BY Bounds DEF FetchInv, OneHolder
<1>c. Miss \in {"redis", "fetch"} /\ (Miss = "fetch" <=> ~RedisOn)
  BY DEF Miss
<1>d. Idle \in Records /\ Idle.pc = "idle"
  BY <1>a, Bounds DEF Idle, Records
<1>1. CASE Misses(r)
  BY <1>1, MissKeepsFetch
<1>2. CASE BatchMisses(r)
  <2> DEFINE rec == [Idle EXCEPT !.pc = "batch", !.asked = acked]
  <2>1. rec \in Records /\ rec.pc = "batch"
    BY <1>a, <1>d DEF Records
  <2>2. /\ reader[r].pc = "idle" /\ reader' = [reader EXCEPT ![r] = rec]
        /\ UNCHANGED <<mem, table, begun, split>>
    BY <1>2 DEF BatchMisses
  <2> HIDE DEF rec
  <2> QED
    BY <2>1, <2>2, BatchKeepsFetch DEF Hit
<1>3. CASE Acquires(r)
  <2>0. reader[r].pc = "wait" /\ ~Locked(reader[r].lock) /\ mem' = mem /\ r \in Slow
    BY <1>3 DEF Acquires, Slow
  <2>1. CASE Hit /\ Finishes(r) /\ Settles(Slow \ {r})
    BY <2>0, <2>1, DoneKeepsFetch DEF Hit
  <2>2. CASE /\ ~Hit /\ reader' = [reader EXCEPT ![r].pc = Miss, ![r].asked = acked]
             /\ begun' = IF RedisOn THEN begun ELSE begun \cup {r}
             /\ UNCHANGED <<table, split>>
    <3> DEFINE rec == [reader[r] EXCEPT !.pc = Miss, !.asked = acked]
    <3>1. reader' = [reader EXCEPT ![r] = rec]
      BY <1>a, <2>2
    <3>2. rec \in Records /\ rec.pc = Miss /\ rec.lock = reader[r].lock
      BY <1>a, <1>c DEF Records
    <3>3. ~Fetching(r)
      BY <2>0 DEF Fetching
    <3> HIDE DEF rec
    <3> QED
      BY <1>c, <2>0, <2>2, <3>1, <3>2, <3>3, OnwardKeepsFetch
  <2> QED
    BY <1>3, <2>1, <2>2 DEF Acquires
<1>4. CASE RedisAnswers(r)
  <2>0. reader[r].pc = "redis" /\ UNCHANGED <<mem, table, split>> /\ r \in Slow /\ Inside(r) /\ ~Fetching(r)
    BY <1>4 DEF RedisAnswers, Slow, Inside, Fetching
  <2>1. CASE red # None /\ reader' = [reader EXCEPT ![r].pc = "reply", ![r].saw = red] /\ UNCHANGED begun
    <3> DEFINE rec == [reader[r] EXCEPT !.pc = "reply", !.saw = red]
    <3>1. reader' = [reader EXCEPT ![r] = rec]
      BY <1>a, <2>1
    <3>2. red \in Versions
      BY <2>1 DEF IInv, TInv, RowTypes, Copies
    <3>3. rec \in Records /\ rec.pc = "reply" /\ rec.lock = reader[r].lock /\ rec.saw \in Versions
      BY <1>a, <1>b, <3>2 DEF Records
    <3> HIDE DEF rec
    <3> QED
      BY <2>0, <2>1, <3>1, <3>3, OnwardKeepsFetch
  <2>2. CASE reader' = [reader EXCEPT ![r].pc = "fetch", ![r].asked = acked] /\ begun' = begun \cup {r}
    <3> DEFINE rec == [reader[r] EXCEPT !.pc = "fetch", !.asked = acked]
    <3>1. reader' = [reader EXCEPT ![r] = rec]
      BY <1>a, <2>2
    <3>2. rec \in Records /\ rec.pc = "fetch" /\ rec.lock = reader[r].lock
      BY <1>a DEF Records
    <3> HIDE DEF rec
    <3> QED
      BY <2>0, <2>2, <3>1, <3>2, OnwardKeepsFetch
  <2> QED
    BY <1>4, <2>1, <2>2 DEF RedisAnswers
<1>5. CASE RedisHit(r) \/ FetchStores(r)
  <2>1. /\ Inside(r) /\ r \in Slow /\ Finishes(r) /\ Settles(Slow \ {r})
        /\ mem'.v = reader[r].saw /\ reader[r].saw \in Versions
    BY <1>5, <1>b DEF RedisHit, FetchStores, Inside, Slow, Store
  <2>2. Hit'
    BY <1>b, <2>1 DEF Hit
  <2>3. Settles(Slow \ {r}) /\ Hit' /\ (Inside(r) \/ (reader[r].pc = "wait" /\ Hit))
    BY <2>1, <2>2
  <2> QED
    BY <2>1, <2>3, DoneKeepsFetch
<1>6. CASE FetchReads(r)
  <2> DEFINE rec == [reader[r] EXCEPT !.saw = db,
                        !.pc = IF reader[r].pc = "fetch" THEN "fetched" ELSE "batched"]
  <2>1. /\ reader' = [reader EXCEPT ![r] = rec]
        /\ UNCHANGED <<mem, table, begun, split>>
        /\ reader[r].pc \in {"fetch", "batch"}
    BY <1>6, <1>a DEF FetchReads
  <2>2. /\ rec \in Records /\ rec.saw \in Versions /\ rec.lock = reader[r].lock
        /\ rec.pc = IF reader[r].pc = "fetch" THEN "fetched" ELSE "batched"
    BY <1>a, <1>b DEF Records
  <2> HIDE DEF rec
  <2>3. CASE reader[r].pc = "fetch"
    <3>1. r \in Slow /\ Inside(r)
      BY <2>3 DEF Slow, Inside
    <3> QED
      BY <2>1, <2>2, <2>3, <3>1, OnwardKeepsFetch
  <2>4. CASE reader[r].pc = "batch"
    BY <2>1, <2>2, <2>4, BatchKeepsFetch DEF Hit
  <2> QED
    BY <2>1, <2>3, <2>4
<1>7. CASE FetchFails(r)
  BY <1>7, DoneKeepsFetch DEF FetchFails, Slow
<1>8. CASE BatchPuts(r)
  <2>1. /\ reader[r].pc = "batched" /\ reader' = [reader EXCEPT ![r] = Idle]
        /\ UNCHANGED <<table, begun, split>> /\ mem'.v = reader[r].saw
    BY <1>8 DEF BatchPuts, Store
  <2>2. Hit'
    BY <1>b, <2>1 DEF Hit
  <2> QED
    BY <1>d, <2>1, <2>2, BatchKeepsFetch
<1> QED
  BY <1>1, <1>2, <1>3, <1>4, <1>5, <1>6, <1>7, <1>8 DEF ReaderGoesOn

LEMMA NextKeepsFetch == IInv /\ FetchInv /\ [Next]_vars => FetchInv'
<1> SUFFICES ASSUME IInv, FetchInv, [Next]_vars PROVE FetchInv'
  OBVIOUS
<1>1. ASSUME NEW r \in Readers, Misses(r) \/ BatchMisses(r) \/ ReaderGoesOn(r) \/ FetchFails(r)
      PROVE  FetchInv'
  BY <1>1, ReaderStepKeepsFetch
<1>2. ASSUME NEW w \in Writers, Writes(w) \/ WriterGoesOn(w)
      PROVE  FetchInv'
  <2>1. CASE Writes(w)
    BY <2>1, OthersKeepFetch DEF Writes, Hit
  <2>2. CASE Puts(w)
    <3>1. writer[w].v \in Versions /\ None \notin Versions
      BY <2>2, Bounds DEF Puts, IInv, TInv, RowTypes
    <3>2. Hit'
      BY <2>2, <3>1 DEF Puts, Store, Hit
    <3> QED
      BY <2>2, <3>2, OthersKeepFetch DEF Puts
  <2>3. CASE Invalidates(w) \/ Clears(w)
    BY <2>3, LossKeepsFetch DEF Invalidates, Clears
  <2> QED
    BY <1>2, <2>1, <2>2, <2>3 DEF WriterGoesOn
<1>3. ASSUME NEW i \in 1..MaxQueue, Mutates(i)
      PROVE  FetchInv'
  BY <1>3, OthersKeepFetch DEF Mutates, Hit
<1>4. ASSUME NEW v \in Copies, LandsLate(v)
      PROVE  FetchInv'
  BY <1>4, OthersKeepFetch DEF LandsLate, Hit
<1>5. CASE MemoryExpires
  BY <1>5, LossKeepsFetch DEF MemoryExpires
<1>6. CASE Restart
  <2>1. reader' = [r \in Readers |-> Idle] /\ begun' = {} /\ split' = FALSE
    BY <1>6 DEF Restart, GoesAway
  <2>2. Slow' = {}
    BY <2>1 DEF Slow, Idle
  <2> QED
    BY <2>1, <2>2 DEF FetchInv, OneHolder, OneLock, OneFetch, Inside, Idle
<1>7. CASE RedisExpires \/ UNCHANGED vars
  BY <1>7, OthersKeepFetch DEF RedisExpires, vars, Hit
<1> QED
  BY <1>1, <1>2, <1>3, <1>4, <1>5, <1>6, <1>7 DEF Next

(* However many readers miss at once, one of them calls fetch() for all    *)
(* (cache.py:369-408): a second call needs the entry, or the first call,   *)
(* to be lost while others were on their way.                              *)
THEOREM SharedFetch == Spec => []OneFetchPerMiss
<1>1. Init => IInv /\ FetchInv
  BY InitIInv, FetchInit
<1>2. IInv /\ FetchInv /\ [Next]_vars => (IInv /\ FetchInv)'
  BY NextKeepsIInv, NextKeepsFetch
<1>3. IInv /\ FetchInv => OneFetchPerMiss
  BY FetchSuffices
<1> QED
  BY <1>1, <1>2, <1>3, PTL DEF Spec
=============================================================================
