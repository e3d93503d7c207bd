----------------------------- MODULE TwoLevelCache -----------------------------
(***************************************************************************)
(* One key of a TwoLevelCache (cache.py): an in-memory entry, a Redis      *)
(* entry behind a chain of background mutations, and the row of the        *)
(* database that both copy.  The row is known by its version.              *)
(*                                                                         *)
(* Readers run get_or_fetch, or the batch readers of users_cache.py that   *)
(* take no lock; writers change the row and then invalidate, put or        *)
(* clear_all, as the modules that own a cache do.  Either layer may drop   *)
(* its entry at any time (its time to live), a Redis call may be lost or   *)
(* land after its time-out, and the process may be restarted.              *)
(***************************************************************************)
EXTENDS Integers, Sequences, FiniteSets, SequencesExt

CONSTANTS
    Readers,    \* reads in flight at a time
    Writers,    \* writes in flight at a time
    Kinds,      \* what the writers do with the cache
    RedisOn,    \* REDIS_URL is set
    MaxWrites,  \* bound: versions of the row
    MaxQueue    \* bound: mutations that wait for Redis

ASSUME TwoLevelCacheAssumption ==
    /\ IsFiniteSet(Readers)
    /\ Kinds \subseteq {"invalidate", "put", "clear"}
    /\ RedisOn \in BOOLEAN
    /\ MaxWrites \in Nat
    /\ MaxQueue \in Nat

VARIABLES
    db,       \* the version of the row
    mem,      \* the in-memory entry
    red,      \* the Redis entry
    table,    \* the lock that _locks holds for the key
    reader,
    writer,
    queue,    \* the unfinished mutations, oldest first
    tail,     \* _redis_tails names the newest of them
    late,     \* a mutation given up by the client that Redis may still apply
              \* (bound: one at a time)
    acked,    \* history: the newest version whose writer has told the cache
    begun,    \* history: who called fetch() since the entry last went away
    split     \* history: the entry went away under readers in the slow path

redis == <<queue, tail, late>>
vars == <<db, mem, red, table, reader, writer, redis, acked, begun, split>>

None == -1                                  \* CACHE_MISS, or a deletion
Versions == 0..MaxWrites
Copies == Versions \cup {None}
Locks == 1..Cardinality(Readers) + 1

\* An entry remembers the newest acknowledged version when it was asked for
\* (`asked`) and when it was stored (`since`), and whether Redis gave it.
NoEntry == [v |-> None, asked |-> 0, since |-> 0, fromRedis |-> FALSE]
Idle == [pc |-> "idle", lock |-> None, saw |-> None, asked |-> 0]
Resting == [pc |-> "idle", kind |-> "none", v |-> None]

\* The readers in the slow path of get_or_fetch.
Slow == {r \in Readers : reader[r].pc \notin {"idle", "batch", "batched"}}

(* Types; and a lock stays in the table only while a reader may need it,   *)
(* or the table would grow with every key ever read.                       *)
TypeOK ==
    /\ db \in Versions /\ acked \in Versions
    /\ mem \in [v : Copies, asked : Versions, since : Versions, fromRedis : BOOLEAN]
    /\ red \in Copies
    /\ table \in Locks \cup {None}
    /\ reader \in [Readers ->
         [pc : {"idle", "wait", "redis", "reply", "fetch", "fetched", "batch", "batched"},
          lock : Locks \cup {None}, saw : Copies, asked : Versions]]
    /\ writer \in [Writers -> [pc : {"idle", "wrote"}, kind : Kinds \cup {"none"}, v : Copies]]
    /\ queue \in Seq([v : Copies, after : BOOLEAN]) /\ Len(queue) <= MaxQueue
    /\ late \in SUBSET Copies
    /\ tail \in BOOLEAN /\ split \in BOOLEAN
    /\ begun \in SUBSET Readers
    /\ table # None => Slow # {}

Init ==
    /\ db = 0 /\ acked = 0
    /\ mem = NoEntry /\ red = None
    /\ table = None
    /\ reader = [r \in Readers |-> Idle]
    /\ writer = [w \in Writers |-> Resting]
    /\ queue = <<>> /\ tail = FALSE /\ late = {}
    /\ begun = {} /\ split = FALSE

-----------------------------------------------------------------------------
(* Helpers. *)

Hit == mem.v # None
Holds(r, l) == reader[r].lock = l /\ reader[r].pc \in {"redis", "reply", "fetch", "fetched"}
Locked(l) == \E r \in Readers : Holds(r, l)
Awaited(l) == \E r \in Readers : reader[r].lock = l /\ reader[r].pc = "wait"

\* What the next step of a reader that missed is.
Miss == IF RedisOn THEN "redis" ELSE "fetch"

Store(v, asked, fromRedis) ==
    mem' = [v |-> v, asked |-> asked, since |-> acked', fromRedis |-> fromRedis]

\* _enqueue_redis_mutation: the new task awaits the one the tail names.
Enqueues(v) ==
    IF RedisOn
    THEN /\ Len(queue) < MaxQueue
         /\ queue' = Append(queue, [v |-> v, after |-> tail])
         /\ tail' = TRUE
         /\ UNCHANGED late
    ELSE UNCHANGED redis

\* The entry is gone: a new fetch is due, and readers in the slow path may
\* no longer be behind one lock.
GoesAway(readers) ==
    /\ begun' = {}
    /\ split' = (readers # {})

Settles(readers) ==
    /\ split' = (split /\ readers # {})
    /\ begun' = IF readers = {} THEN {} ELSE begun

\* get_or_fetch's finally: the lock under the key goes, whoever made it.
Finishes(r) ==
    /\ reader' = [reader EXCEPT ![r] = Idle]
    /\ table' = None

-----------------------------------------------------------------------------
(* Readers.  A hit changes nothing. *)

\* The miss, setdefault, and the lock when nobody has it or waits for it.
Misses(r) ==
    /\ reader[r].pc = "idle"
    /\ ~Hit
    /\ LET unused == Locks \ ({table} \cup {reader[q].lock : q \in Readers})
           l == IF table # None THEN table ELSE CHOOSE k \in unused : TRUE
           free == ~Locked(l) /\ ~Awaited(l) IN
       /\ table' = l
       /\ reader' = [reader EXCEPT ![r] =
            [pc |-> IF free THEN Miss ELSE "wait", lock |-> l, saw |-> None,
             asked |-> IF free THEN acked ELSE 0]]
       /\ begun' = IF free /\ ~RedisOn THEN begun \cup {r} ELSE begun
    /\ UNCHANGED <<db, mem, red, writer, redis, acked, split>>

AcquiresUnchecked(r) ==
    /\ reader[r].pc = "wait" /\ ~Locked(reader[r].lock)
    /\ reader' = [reader EXCEPT ![r].pc = Miss, ![r].asked = acked]
    /\ begun' = IF RedisOn THEN begun ELSE begun \cup {r}
    /\ UNCHANGED <<db, mem, red, table, writer, redis, acked, split>>

\* A waiter gets the lock and looks at the memory again.
Acquires(r) ==
    /\ reader[r].pc = "wait" /\ ~Locked(reader[r].lock)
    /\ \/ /\ Hit
          /\ Finishes(r)
          /\ Settles(Slow \ {r})
       \/ /\ ~Hit
          /\ reader' = [reader EXCEPT ![r].pc = Miss, ![r].asked = acked]
          /\ begun' = IF RedisOn THEN begun ELSE begun \cup {r}
          /\ UNCHANGED <<table, split>>
    /\ UNCHANGED <<db, mem, red, writer, redis, acked>>

\* Redis answers; an empty answer, an error or a time-out leads to fetch().
RedisAnswers(r) ==
    /\ reader[r].pc = "redis"
    /\ \/ /\ red # None
          /\ reader' = [reader EXCEPT ![r].pc = "reply", ![r].saw = red]
          /\ UNCHANGED begun
       \/ /\ reader' = [reader EXCEPT ![r].pc = "fetch", ![r].asked = acked]
          /\ begun' = begun \cup {r}
    /\ UNCHANGED <<db, mem, red, table, writer, redis, acked, split>>

HitRefreshesRedis(r) ==
    /\ reader[r].pc = "reply"
    /\ UNCHANGED acked
    /\ Store(reader[r].saw, reader[r].asked, TRUE)
    /\ Enqueues(reader[r].saw)
    /\ Finishes(r)
    /\ Settles(Slow \ {r})
    /\ UNCHANGED <<db, red, writer>>

RedisHit(r) ==
    /\ reader[r].pc = "reply"
    /\ UNCHANGED acked
    /\ Store(reader[r].saw, reader[r].asked, TRUE)
    /\ Finishes(r)
    /\ Settles(Slow \ {r})
    /\ UNCHANGED <<db, red, writer, redis>>

FetchReads(r) ==
    /\ reader[r].pc \in {"fetch", "batch"}
    /\ reader' = [reader EXCEPT ![r].saw = db,
                                ![r].pc = IF @ = "fetch" THEN "fetched" ELSE "batched"]
    /\ UNCHANGED <<db, mem, red, table, writer, redis, acked, begun, split>>

FetchStores(r) ==
    /\ reader[r].pc = "fetched"
    /\ UNCHANGED acked
    /\ Store(reader[r].saw, reader[r].asked, FALSE)
    /\ Enqueues(reader[r].saw)
    /\ Finishes(r)
    /\ Settles(Slow \ {r})
    /\ UNCHANGED <<db, red, writer>>

\* fetch() raises, or the reader is cancelled, even while it waits: nothing is
\* cached, and the lock goes all the same.
FetchFails(r) ==
    /\ reader[r].pc \in {"wait", "redis", "fetch", "fetched"}
    /\ Finishes(r)
    /\ GoesAway(Slow \ {r})
    /\ UNCHANGED <<db, mem, red, writer, redis, acked>>

\* The batch readers: a query without the lock, then put.
BatchMisses(r) ==
    /\ reader[r].pc = "idle" /\ ~Hit
    /\ reader' = [reader EXCEPT ![r] = [Idle EXCEPT !.pc = "batch", !.asked = acked]]
    /\ UNCHANGED <<db, mem, red, table, writer, redis, acked, begun, split>>

BatchPuts(r) ==
    /\ reader[r].pc = "batched"
    /\ UNCHANGED acked
    /\ Store(reader[r].saw, reader[r].asked, FALSE)
    /\ Enqueues(reader[r].saw)
    /\ reader' = [reader EXCEPT ![r] = Idle]
    /\ UNCHANGED <<db, red, table, writer, begun, split>>

-----------------------------------------------------------------------------
(* Writers. *)

\* The write lands; its caller hears of it later, or of a failure.
Writes(w) ==
    /\ writer[w].pc = "idle"
    /\ db < MaxWrites
    /\ db' = db + 1
    /\ \/ \E k \in Kinds : writer' = [writer EXCEPT ![w] = [pc |-> "wrote", kind |-> k, v |-> db']]
       \/ UNCHANGED writer
    /\ UNCHANGED <<mem, red, table, reader, redis, acked, begun, split>>

Acknowledges(w) ==
    /\ acked' = IF writer[w].v > acked THEN writer[w].v ELSE acked
    /\ writer' = [writer EXCEPT ![w] = Resting]

PutsFirst(w) ==
    /\ writer[w].pc = "wrote" /\ writer[w].kind = "put"
    /\ Acknowledges(w)
    /\ IF Hit THEN UNCHANGED mem ELSE Store(writer[w].v, writer[w].v - 1, FALSE)
    /\ Enqueues(writer[w].v)
    /\ UNCHANGED <<db, red, table, reader, begun, split>>

\* put: what the writer wrote, whatever has been written since.
Puts(w) ==
    /\ writer[w].pc = "wrote" /\ writer[w].kind = "put"
    /\ Acknowledges(w)
    /\ Store(writer[w].v, writer[w].v, FALSE)
    /\ Enqueues(writer[w].v)
    /\ UNCHANGED <<db, red, table, reader, begun, split>>

\* invalidate: the entry and the lock go at once, the Redis copy in its turn.
Invalidates(w) ==
    /\ writer[w].pc = "wrote" /\ writer[w].kind = "invalidate"
    /\ Acknowledges(w)
    /\ mem' = NoEntry
    /\ table' = None
    /\ Enqueues(None)
    /\ GoesAway(Slow)
    /\ UNCHANGED <<db, red, reader>>

\* clear_all: the locks stay.  It also waits for the deletion, to no effect here.
Clears(w) ==
    /\ writer[w].pc = "wrote" /\ writer[w].kind = "clear"
    /\ Acknowledges(w)
    /\ mem' = NoEntry
    /\ Enqueues(None)
    /\ GoesAway(Slow)
    /\ UNCHANGED <<db, red, table, reader>>

-----------------------------------------------------------------------------
(* Redis. *)

UntailsAny(i) == FALSE

\* _clear_redis_tail: only the newest task is the tail.
Untails(i) == IF i = Len(queue) THEN FALSE ELSE tail

\* A task runs when it awaits nobody, or all before it are done.
Mutates(i) ==
    /\ i \in DOMAIN queue
    /\ i = 1 \/ ~queue[i].after
    /\ queue' = RemoveAt(queue, i)
    /\ tail' = Untails(i)
    /\ \/ /\ red' = queue[i].v
          /\ UNCHANGED late
       \/ /\ late' = IF late = {} THEN {queue[i].v} ELSE late
          /\ UNCHANGED red              \* refused, or cut off: it may land yet
    /\ UNCHANGED <<db, mem, table, reader, writer, acked, begun, split>>

LandsLate(v) ==
    /\ v \in late
    /\ red' \in {red, v}
    /\ late' = late \ {v}
    /\ UNCHANGED <<db, mem, table, reader, writer, queue, tail, acked, begun, split>>

\* Times to live, and the LRU bound of the memory.
MemoryExpires ==
    /\ Hit
    /\ mem' = NoEntry
    /\ GoesAway(Slow)
    /\ UNCHANGED <<db, red, table, reader, writer, redis, acked>>

RedisExpires ==
    /\ red # None
    /\ red' = None
    /\ UNCHANGED <<db, mem, table, reader, writer, redis, acked, begun, split>>

Restart ==
    /\ mem' = NoEntry
    /\ table' = None
    /\ reader' = [r \in Readers |-> Idle]
    /\ writer' = [w \in Writers |-> Resting]
    /\ queue' = <<>> /\ tail' = FALSE
    /\ GoesAway({})
    /\ UNCHANGED <<db, red, late, acked>>

-----------------------------------------------------------------------------
ReaderGoesOn(r) ==
    Acquires(r) \/ RedisAnswers(r) \/ RedisHit(r) \/ FetchReads(r) \/ FetchStores(r) \/ BatchPuts(r)

WriterGoesOn(w) == Puts(w) \/ Invalidates(w) \/ Clears(w)

Next ==
    \/ \E r \in Readers : Misses(r) \/ BatchMisses(r) \/ ReaderGoesOn(r) \/ FetchFails(r)
    \/ \E w \in Writers : Writes(w) \/ WriterGoesOn(w)
    \/ \E i \in 1..MaxQueue : Mutates(i)
    \/ \E v \in Copies : LandsLate(v)
    \/ MemoryExpires \/ RedisExpires \/ Restart

Spec == Init /\ [][Next]_vars

\* Awaited calls end, times to live pass, and Redis is done with every command.
Fairness ==
    /\ \A r \in Readers : WF_vars(ReaderGoesOn(r))
    /\ \A w \in Writers : WF_vars(WriterGoesOn(w))
    /\ \A i \in 1..MaxQueue : WF_vars(Mutates(i))
    /\ \A v \in Copies : WF_vars(LandsLate(v))
    /\ WF_vars(MemoryExpires)
    /\ WF_vars(RedisExpires)

FairSpec == Spec /\ Fairness

-----------------------------------------------------------------------------
(* Properties. *)

(* No entry survives the acknowledgement of a newer write, and an entry    *)
(* that is older than an acknowledged write was stored after it by someone *)
(* who had asked before it, or was copied from Redis, where the deletion   *)
(* had not arrived.                                                        *)
StaleIsARace ==
    Hit => /\ mem.since = acked
           /\ mem.v < acked => mem.asked < acked \/ mem.fromRedis

(* Redis applies the mutations in the order they were enqueued: as long as *)
(* one is unfinished the tail names the newest, and each awaits another    *)
(* but the oldest.                                                         *)
MutationsAreChained ==
    /\ tail <=> queue # <<>>
    /\ \A i \in DOMAIN queue : i > 1 => queue[i].after

(* Concurrent misses share one fetch(): a second one needs the entry or    *)
(* the first fetch to be lost while others were on their way.              *)
OneFetchPerMiss == ~split => Cardinality(begun) <= 1

(* Once nobody writes any more both layers come to hold the row as it is,  *)
(* or nothing, and stay so: an old copy is never renewed.                  *)
CopiesConverge == <>[](mem.v \in {None, db} /\ red \in {None, db})
=============================================================================
