-------------------------------- MODULE Warns --------------------------------
(***************************************************************************)
(* The warnings of one user.  Every chat has a history (`warns`, one       *)
(* document per warning) and a counter (`warn_counts`, one document per    *)
(* chat or none), written by separate calls.  The handlers are             *)
(*                                                                         *)
(*   warn    execute_warn, its auto-ban at a threshold (warning_flow.py)   *)
(*   unwarn  execute_unwarn: remove the newest warning                     *)
(*   reset   execute_resetwarns: clear one chat                            *)
(*   expire  expire_old_warns, the daily job (scheduler.py)                *)
(*                                                                         *)
(* Each call to the database is an action.  It may fail, and a write may   *)
(* land although it is reported to have failed.  The calls of a `gather`   *)
(* run in any order.  A missing counter is rebuilt from the history when   *)
(* it is next read, so a chat without one is in order.                     *)
(***************************************************************************)
EXTENDS Integers, FiniteSets, FiniteSetsExt

CONSTANTS
    Chats,      \* the groups of the federation
    Handled,    \* bound: those where commands are given; the user has one
                \* earlier warning in each of the others
    Tasks,      \* handlers that run at a time
    WarnLimit,  \* cfg.warn_limit
    FedLimit,   \* cfg.fed_warn_limit, 0 when it is off
    MaxWarns    \* bound: warnings in all

ASSUME WarnsAssumption ==
    /\ WarnLimit \in Nat \ {0}
    /\ FedLimit \in Nat
    /\ MaxWarns \in Nat
    /\ IsFiniteSet(Chats)
    /\ Handled \subseteq Chats
    /\ Chats = Handled \/ MaxWarns > 0
    /\ "federation" \notin Chats

VARIABLES
    issued,     \* warnings issued so far; they are named 1..issued, by time
    horizon,    \* warnings up to this one are older than WARN_EXPIRY_DAYS
    hist,       \* the history of each chat
    counts,     \* the counter document of each chat
    task,       \* the running handlers
    doubt,      \* history: chats whose counter something has put in doubt
    excused     \* history: limits that a reported failure left unacted on

warnsVars == <<issued, horizon, hist, counts, task, doubt, excused>>

\* What has a limit: every chat, and the federation.
Limits == Chats \cup {"federation"}

\* `stale`: updated_at is older than the expiry.
NoCounter == [there |-> FALSE, n |-> 0, stale |-> FALSE]
Counter(n) == IF n = 0 THEN NoCounter ELSE [there |-> TRUE, n |-> n, stale |-> FALSE]

NoTask == [op |-> "none", pc |-> "idle", chat |-> "none", n |-> 0, doc |-> 0,
           todo |-> {}, repair |-> FALSE, gone |-> FALSE, shared |-> FALSE]

Active == {t \in Tasks : task[t].pc # "idle"}

WarnsTypeOK ==
    /\ issued \in 0..MaxWarns
    /\ horizon \in 0..issued
    /\ hist \in [Chats -> SUBSET (1..issued)]
    /\ counts \in [Chats -> [there : BOOLEAN, n : Nat, stale : BOOLEAN]]
    /\ \A c \in Chats : ~counts[c].there => counts[c] = NoCounter
    /\ task \in [Tasks ->
         [op : {"none", "warn", "unwarn", "reset", "expire"},
          pc : {"idle", "inc", "rollback", "fed", "autoban",
                "clear", "backfill", "newest", "remove", "recount", "store", "reread"},
          chat : Chats \cup {"none"}, n : 0..MaxWarns, doc : 0..issued,
          todo : SUBSET {"warns", "count"},
          repair : BOOLEAN, gone : BOOLEAN, shared : BOOLEAN]]
    /\ \A t \in Tasks : task[t].pc = "idle" <=> task[t] = NoTask
    /\ doubt \subseteq Chats
    /\ excused \subseteq Limits

\* federation_warn_count: what the counters of the chats add up to.
FedTotal(cs) == Cardinality(UNION {{c} \X (1..cs[c].n) : c \in Chats})
Adds(total) == FedLimit > 0 /\ total >= FedLimit

\* The limits that the counters have reached.
Reached(cs) ==
    {c \in Chats : cs[c].n >= WarnLimit}
        \cup IF Adds(FedTotal(cs)) THEN {"federation"} ELSE {}

WarnsInit ==
    /\ issued = IF Chats = Handled THEN 0 ELSE 1
    /\ horizon = 0
    /\ hist = [c \in Chats |-> IF c \in Handled THEN {} ELSE {1}]
    /\ counts = [c \in Chats |-> IF c \in Handled THEN NoCounter ELSE Counter(1)]
    /\ task = [t \in Tasks |-> NoTask]
    /\ doubt = {}
    /\ excused = Reached(counts)

-----------------------------------------------------------------------------
(* Who works on what.  `shared` marks a handler that met another one.      *)

Scope(r) ==
    CASE r.pc = "idle" -> {}
      [] r.op = "expire" \/ (r.op = "warn" /\ r.pc = "clear") -> Chats
      [] OTHER -> {r.chat}

\* A handler that has yet to decide, or is deciding, writes no warnings.
Writing(u) == task[u].pc \notin {"idle", "fed", "autoban"}
Meeting(t, r) == {u \in Tasks \ {t} : Writing(u) /\ Scope(task[u]) \cap Scope(r) # {}}

\* t becomes r, and so does what it shares with the others.
Enters(t, r) ==
    task' = [u \in Tasks |->
               CASE u = t -> [r EXCEPT !.shared = Meeting(t, r) # {}]
                 [] u \in Meeting(t, r) -> [task[u] EXCEPT !.shared = TRUE]
                 [] OTHER -> task[u]]

Fresh(op, c, pc) == [NoTask EXCEPT !.op = op, !.chat = c, !.pc = pc]
Goes(t, pc) == task' = [task EXCEPT ![t].pc = pc]
Proceeds(t, pc) ==
    task' = [task EXCEPT ![t] = IF pc = "idle" THEN NoTask ELSE Fresh(@.op, @.chat, pc)]
Ends(t) == task' = [task EXCEPT ![t] = NoTask]
Doubts(chats) == doubt' = doubt \cup chats
Excuses(limits) == excused' = excused \cup (limits \cap Reached(counts'))
Rebuilt(c) ==
    IF counts'[c].n > counts[c].n THEN Excuses({c, "federation"}) ELSE UNCHANGED excused

\* The counter of c after one more or one fewer.
Inc(c) == [counts EXCEPT ![c] = Counter(@.n + 1)]
Dec(c) == [counts EXCEPT ![c] = [there |-> TRUE, n |-> @.n - 1, stale |-> FALSE]]

-----------------------------------------------------------------------------
(* execute_warn. *)

\* add_warn's insert.  A refused one ends the handler and changes nothing.
WarnInserts(t, c) ==
    /\ task[t].pc = "idle"
    /\ issued < MaxWarns
    /\ issued' = issued + 1
    /\ hist' = [hist EXCEPT ![c] = @ \cup {issued'}]
    /\ \/ /\ Enters(t, [Fresh("warn", c, "inc") EXCEPT !.doc = issued'])
          /\ UNCHANGED doubt
       \/ /\ Doubts({c})                    \* landed, but reported as failed
          /\ task' = [u \in Tasks |-> IF Writing(u) /\ c \in Scope(task[u])
                                      THEN [task[u] EXCEPT !.shared = TRUE] ELSE task[u]]
    /\ UNCHANGED <<horizon, counts, excused>>

\* What the counter says of the warning just counted.
Decides(n) == IF n >= WarnLimit THEN "autoban" ELSE IF FedLimit > 0 THEN "fed" ELSE "idle"

WarnCounts(t) ==
    /\ task[t].pc = "inc"
    /\ LET c == task[t].chat IN
       \/ /\ counts' = Inc(c)
          /\ \/ /\ Proceeds(t, Decides(counts'[c].n))
                /\ excused' = excused \ ({c} \cup (Reached(counts') \cap {"federation"}))
                /\ UNCHANGED doubt
             \/ Goes(t, "rollback") /\ Doubts({c}) /\ Excuses({c, "federation"})
       \/ Goes(t, "rollback") /\ UNCHANGED <<counts, doubt, excused>>
    /\ UNCHANGED <<issued, horizon, hist>>

WarnRollsBack(t) ==
    /\ task[t].pc = "rollback"
    /\ LET c == task[t].chat IN
       \/ /\ hist' = [hist EXCEPT ![c] = @ \ {task[t].doc}]
          /\ Doubts(IF task[t].shared THEN {c} ELSE {})
       \/ UNCHANGED hist /\ Doubts({c})
    /\ Ends(t)
    /\ UNCHANGED <<issued, horizon, counts, excused>>

FedReadsAboveOnly(t) ==
    /\ task[t].pc = "fed"
    /\ IF FedTotal(counts) > FedLimit THEN Goes(t, "autoban") ELSE Ends(t)
    /\ UNCHANGED <<issued, horizon, hist, counts, doubt, excused>>

\* federation_warn_count; a failed read leaves the check to the next warning.
FedReads(t) ==
    /\ task[t].pc = "fed"
    /\ UNCHANGED <<issued, horizon, hist, counts, doubt>>
    /\ \/ /\ FedTotal(counts) >= FedLimit
          /\ Goes(t, "autoban")
          /\ UNCHANGED excused
       \/ /\ FedTotal(counts) < FedLimit
          /\ Ends(t)
          /\ UNCHANGED excused
       \/ Ends(t) /\ Excuses({"federation"})

-----------------------------------------------------------------------------
(* _execute_warn_auto_ban.  Its lookups, the ban record and the fan-out    *)
(* touch nothing that the other handlers here read, so they are one step,  *)
(* with one disjunct per way out.  A failed lookup counts as no role or no *)
(* ban; what the ban does elsewhere is FedBan's.                           *)

ExemptsStaff(t) == Ends(t) /\ Excuses({task[t].chat, "federation"})

BanNotRecorded(t) == Ends(t) /\ Excuses({task[t].chat, "federation"})

NoChatReached(t) == Ends(t) /\ Excuses({task[t].chat, "federation"})

\* The warnings go once at least one chat has not failed.
Enforced(t) ==
    /\ Enters(t, [task[t] EXCEPT !.pc = "clear", !.doc = 0, !.todo = {"warns", "count"}])
    /\ UNCHANGED excused

AutoBan(t) ==
    /\ task[t].pc = "autoban"
    /\ UNCHANGED <<issued, horizon, hist, counts, doubt>>
    /\ ExemptsStaff(t) \/ BanNotRecorded(t) \/ NoChatReached(t) \/ Enforced(t)

-----------------------------------------------------------------------------
(* _clear_warn_docs for one chat (reset) or all (auto-ban), and the two    *)
(* deletions of expire_old_warns.  A failed deletion is logged.            *)

Cleared(r) ==
    [c \in Chats |->
       IF c \notin Scope(r) THEN hist[c]
       ELSE IF r.op = "expire" THEN {i \in hist[c] : i > horizon} ELSE {}]

Uncounted(r) ==
    [c \in Chats |->
       IF c \in Scope(r) /\ (r.op = "expire" => counts[c].stale) THEN NoCounter
       ELSE counts[c]]

\* Chats whose counter outlives warnings it counted.
Outlived(r) == {c \in Scope(r) : Cleared(r)[c] # hist[c] /\ counts[c].there
                                   /\ Uncounted(r)[c].there}

Contended(r) == IF r.shared THEN Scope(r) ELSE {}

Done(t, part) ==
    IF task[t].todo = {part} THEN Ends(t)
    ELSE task' = [task EXCEPT ![t].todo = @ \ {part}]

ClearsWarns(t) ==
    /\ task[t].pc = "clear" /\ "warns" \in task[t].todo
    /\ LET r == task[t] IN
       /\ hist' \in {hist, Cleared(r)}
       /\ Doubts(Contended(r) \cup
                 IF hist' # hist THEN Outlived(r)
                 ELSE {c \in Chats : Cleared(r)[c] # hist[c]})
    /\ Done(t, "warns")
    /\ UNCHANGED <<issued, horizon, counts, excused>>

ClearsCount(t) ==
    /\ task[t].pc = "clear" /\ "count" \in task[t].todo
    /\ LET r == task[t] IN
       \/ /\ counts' = Uncounted(r)
          /\ Doubts(Contended(r))
          /\ UNCHANGED excused
       \/ /\ Doubts(Contended(r) \cup {c \in Scope(r) : Uncounted(r)[c] # counts[c]})
          /\ UNCHANGED counts
          /\ IF r.op = "warn" THEN Excuses(Limits) ELSE UNCHANGED excused
    /\ Done(t, "count")
    /\ UNCHANGED <<issued, horizon, hist>>

\* execute_resetwarns.
ResetStarts(t, c) ==
    /\ task[t].pc = "idle"
    /\ Enters(t, [Fresh("reset", c, "clear") EXCEPT !.todo = {"warns", "count"}])
    /\ UNCHANGED <<issued, horizon, hist, counts, doubt, excused>>

Expiring == \E t \in Active : task[t].op = "expire"

\* The job fires once a day and never twice at a time.
ExpiryStarts(t) ==
    /\ task[t].pc = "idle"
    /\ ~Expiring
    /\ Enters(t, [Fresh("expire", "none", "clear") EXCEPT !.todo = {"warns", "count"}])
    /\ UNCHANGED <<issued, horizon, hist, counts, doubt, excused>>

-----------------------------------------------------------------------------
(* execute_unwarn: warn_count, remove_last_warn, warn_count again.         *)

\* What _sync_warn_count reads: the counter, or the history without one.
Missing(c) == ~counts[c].there /\ hist[c] # {}

UnwarnReads(t, c) ==
    /\ task[t].pc = "idle"
    /\ \/ /\ counts[c].n > 0
          /\ Enters(t, Fresh("unwarn", c, "newest"))
       \/ /\ Missing(c)
          /\ Enters(t, [Fresh("unwarn", c, "backfill") EXCEPT !.n = Cardinality(hist[c])])
    /\ UNCHANGED <<issued, horizon, hist, counts, doubt, excused>>

\* The read that follows the removal, for the reply.
UnwarnRereads(t) ==
    /\ task[t].pc = "reread"
    /\ LET c == task[t].chat IN
       IF Missing(c)
       THEN task' = [task EXCEPT ![t].pc = "backfill", ![t].n = Cardinality(hist[c]),
                                 ![t].gone = TRUE]
       ELSE Ends(t)
    /\ UNCHANGED <<issued, horizon, hist, counts, doubt, excused>>

\* The upsert with $setOnInsert: it changes nothing when a counter is there.
Backfills(t) ==
    /\ task[t].pc = "backfill"
    /\ LET r == task[t]
           filled == IF counts[r.chat].there THEN counts
                     ELSE [counts EXCEPT ![r.chat] = Counter(r.n)] IN
       /\ counts' \in {counts, filled}
       /\ doubt' = IF counts' = counts THEN doubt
                   ELSE IF r.shared THEN doubt \cup {r.chat} ELSE doubt \ {r.chat}
       /\ \/ /\ counts' = filled /\ counts'[r.chat].n > 0 /\ ~r.gone
             /\ task' = [task EXCEPT ![t].pc = "newest", ![t].n = 0]
          \/ Ends(t)
    /\ Rebuilt(task[t].chat)
    /\ UNCHANGED <<issued, horizon, hist>>

UnwarnPicks(t) ==
    /\ task[t].pc = "newest"
    /\ LET c == task[t].chat IN
       \/ /\ hist[c] # {}
          /\ task' = [task EXCEPT ![t].pc = "remove", ![t].doc = Max(hist[c]),
                                  ![t].todo = {"warns", "count"}]
       \/ Ends(t)                              \* no warning, or a failed read
    /\ UNCHANGED <<issued, horizon, hist, counts, doubt, excused>>

\* A half of remove_last_warn's gather has come back: `gone` is that the
\* deletion removed its document, `repair` that the counter needs a recount.
Removed(t, part, gone, repair) ==
    LET r == [task[t] EXCEPT !.todo = @ \ {part}, !.gone = gone, !.repair = repair]
    IN task' = [task EXCEPT ![t] =
         IF r.todo # {} THEN r
         ELSE [r EXCEPT !.doc = 0, !.pc = IF repair THEN "recount" ELSE "reread",
                        !.gone = repair /\ gone, !.repair = FALSE]]

MissingIsRemoved(t) ==
    /\ task[t].pc = "remove" /\ "warns" \in task[t].todo
    /\ LET r == task[t] IN
       /\ hist' = [hist EXCEPT ![r.chat] = @ \ {r.doc}]
       /\ Removed(t, "warns", TRUE, r.repair)
    /\ UNCHANGED <<issued, horizon, counts, doubt, excused>>

RemovesWarn(t) ==
    /\ task[t].pc = "remove" /\ "warns" \in task[t].todo
    /\ LET r == task[t]
           deleted == [hist EXCEPT ![r.chat] = @ \ {r.doc}] IN
       \/ /\ hist' = deleted
          /\ LET gone == r.doc \in hist[r.chat] IN
             Removed(t, "warns", gone, r.repair \/ ~gone)
       \/ /\ hist' \in {hist, deleted}
          /\ Removed(t, "warns", FALSE, TRUE)
    /\ UNCHANGED <<issued, horizon, counts, doubt, excused>>

RemovesCount(t) ==
    /\ task[t].pc = "remove" /\ "count" \in task[t].todo
    /\ LET r == task[t]
           matched == counts[r.chat].n > 0
           lowered == IF matched THEN Dec(r.chat) ELSE counts IN
       \/ /\ counts' = lowered
          /\ Removed(t, "count", r.gone, r.repair \/ ~matched)
       \/ /\ counts' \in {counts, lowered}
          /\ Removed(t, "count", r.gone, TRUE)
    /\ UNCHANGED <<issued, horizon, hist, doubt, excused>>

\* _recount_and_store: the count is read, then stored.
Recounts(t) ==
    /\ task[t].pc = "recount"
    /\ \/ /\ task' = [task EXCEPT ![t].pc = "store", ![t].n = Cardinality(hist[task[t].chat])]
          /\ UNCHANGED doubt
       \/ Ends(t) /\ Doubts({task[t].chat})
    /\ UNCHANGED <<issued, horizon, hist, counts, excused>>

Stores(t) ==
    /\ task[t].pc = "store"
    /\ LET r == task[t] IN
       \/ /\ counts' = [counts EXCEPT ![r.chat] = Counter(r.n)]
          /\ doubt' = IF r.shared THEN doubt \cup {r.chat} ELSE doubt \ {r.chat}
          /\ \/ /\ r.gone
                /\ task' = [task EXCEPT ![t].pc = "reread", ![t].n = 0, ![t].gone = FALSE]
             \/ Ends(t)                  \* nothing removed, or reported as failed
       \/ UNCHANGED counts /\ Ends(t) /\ Doubts({r.chat})
    /\ Rebuilt(task[t].chat)
    /\ UNCHANGED <<issued, horizon, hist>>

-----------------------------------------------------------------------------
(* The rest of the world. *)

\* WARN_EXPIRY_DAYS pass.  Bound: not while an expiry is running, which takes
\* seconds and has read the clock.
TimePasses ==
    /\ ~Expiring
    /\ horizon' = issued
    /\ counts' = [c \in Chats |-> [counts[c] EXCEPT !.stale = @ \/ counts[c].there]]
    /\ horizon' # horizon \/ counts' # counts
    /\ UNCHANGED <<issued, hist, task, doubt, excused>>

BotRestarts ==
    /\ Active # {}
    /\ task' = [t \in Tasks |-> NoTask]
    /\ Doubts(UNION {Scope(task[t]) : t \in Active})
    /\ UNCHANGED <<issued, horizon, hist, counts>>
    /\ Excuses(Limits)

TaskStep(t) ==
    \/ \E c \in Handled : WarnInserts(t, c) \/ ResetStarts(t, c) \/ UnwarnReads(t, c)
    \/ WarnCounts(t) \/ WarnRollsBack(t) \/ FedReads(t)
    \/ AutoBan(t)
    \/ ClearsWarns(t) \/ ClearsCount(t) \/ ExpiryStarts(t)
    \/ UnwarnRereads(t) \/ Backfills(t) \/ UnwarnPicks(t)
    \/ RemovesWarn(t) \/ RemovesCount(t) \/ Recounts(t) \/ Stores(t)

WarnsNext == (\E t \in Tasks : TaskStep(t)) \/ TimePasses \/ BotRestarts

WarnsSpec == WarnsInit /\ [][WarnsNext]_warnsVars

-----------------------------------------------------------------------------
(* Properties. *)

Busy(c) == \E t \in Active : c \in Scope(task[t])

(* The counter that decides on a ban is the number of warnings on record,  *)
(* unless one of the causes that `doubt` collects has come between: a      *)
(* write lost without a repair, a repair or a deletion that overlapped     *)
(* another handler, an expiry that kept the counter of warnings it         *)
(* deleted, a restart.  Rollback, recount and backfill repair the rest.    *)
CounterAgrees ==
    \A c \in Chats :
        ~Busy(c) /\ c \notin doubt /\ counts[c].there => counts[c].n = Cardinality(hist[c])

(* A limit that is reached is acted on: once no handler runs, a counter at *)
(* the limit, or counters that add up to the federation's, mean that the   *)
(* auto-ban of the last warning that counted towards it ended for a reason *)
(* it reported (or a restart), and the next warning there tries again,     *)
(* however far above the limit it lands.                                   *)
LimitIsActedOn == Active = {} => Reached(counts) \subseteq excused
=============================================================================
