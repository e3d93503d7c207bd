----------------------------- MODULE Connection -----------------------------
(***************************************************************************)
(* How one group joins the federation and leaves it: the bot's standing in *)
(* the group, the federated_groups row, the pending_joins row, the prompt  *)
(* with its buttons and the cached answer of is_connected.  The handlers   *)
(* are                                                                     *)
(*                                                                         *)
(*   on_bot_added      every change of the bot's own standing              *)
(*   on_join_decision  a tap on the prompt by the group's owner            *)
(*   tcconnect, tcdisconnect, rmtc, leaveall, cleanup                      *)
(*   on_chat_migration the basic group has become a supergroup             *)
(*                                                                         *)
(* Handlers run concurrently, so two updates may be handled in the wrong   *)
(* order.  The reads of a handler up to its first write are one step, as   *)
(* late as it likes; each write and each Telegram call that matters is a   *)
(* step, and may fail.  What complete_join replays is in FedBan.           *)
(***************************************************************************)
EXTENDS Integers, FiniteSets

CONSTANTS
    Tasks,        \* bound: handlers at a time
    Moves,        \* bound: changes of the bot's standing, and migrations
    MaxHandlers   \* bound: handlers in all

ASSUME ConnectionAssumption == Moves \in Nat /\ MaxHandlers \in Nat

\* The chat id of the group, before and after it migrates.
Ids == {"basic", "super"}

VARIABLES
    live,      \* the id the group has
    bot,       \* the bot there: "admin" holds every right it requires
    moves,     \* changes so far
    updates,   \* Telegram updates nobody has handled
    row,       \* federated_groups
    pending,   \* ids with a pending_joins row
    prompt,    \* ids with a prompt whose buttons work
    conn,      \* connected_cache
    task,
    handlers,  \* handlers started so far
    told,      \* history: ids connected since anybody asked for the opposite
    failed,    \* history: ids with a write that failed
    late,      \* history: ids with a write made on an answer out of date
    crossed,   \* history: ids with two writes under way at once
    poisoned,  \* history: an inactive row has moved to the new id
    refused    \* history: ids whose prompt a tap has removed without deciding,
               \*   since it was sent and since the bot's standing changed

group == <<live, bot, moves, updates>>
rows == <<row, pending>>
tasks == <<task, handlers>>
historyVars == <<told, failed, late, crossed, poisoned, refused>>
connectionVars == <<group, rows, prompt, conn, tasks, historyVars>>

Standings == {"out", "member", "admin"}
Idle == [pc |-> "idle", id |-> "basic", todo |-> {}, put |-> "none", since |-> 0]

StandingIn(id) == IF id = live THEN bot ELSE "out"

ConnectionTypeOK ==
    /\ live \in Ids /\ bot \in Standings /\ moves \in 0..Moves
    /\ updates \subseteq [id : Ids, was : Standings, is : Standings \cup {"migrated"},
                          nr : 1..Moves]
    /\ row \in [Ids -> {"none", "inactive", "active"}]
    /\ pending \subseteq Ids /\ prompt \subseteq Ids
    /\ conn \in [Ids -> {"miss", "yes", "no"}]
    /\ task \in [Tasks ->
         [pc : {"idle", "left", "ask", "persist", "add", "clear", "cancel", "go",
                "disconnect", "leaveall", "prune", "migrate"},
          id : Ids, todo : SUBSET {"row", "pending", "leave", "moved", "movedRow"},
          put : {"none", "yes", "no"}, since : 0..Moves]]
    /\ handlers \in 0..MaxHandlers
    /\ told \subseteq Ids /\ failed \subseteq Ids /\ late \subseteq Ids /\ crossed \subseteq Ids
    /\ poisoned \in BOOLEAN /\ refused \subseteq Ids

\* Not in the group, in it with a prompt, or connected.
ConnectionInit ==
    /\ live = "basic" /\ moves = 0 /\ updates = {}
    /\ \E known \in {"none", "inactive"} :
         \/ bot = "out" /\ row = [basic |-> known, super |-> "none"]
            /\ pending = {} /\ prompt = {} /\ told = {}
         \/ bot = "member" /\ row = [basic |-> known, super |-> "none"]
            /\ pending = {"basic"} /\ prompt = {"basic"} /\ told = {}
         \/ bot = "admin" /\ row = [basic |-> "active", super |-> "none"]
            /\ pending = {} /\ prompt = {} /\ told = {"basic"}
    /\ conn = [id \in Ids |-> "miss"]
    /\ task = [t \in Tasks |-> Idle] /\ handlers = 0
    /\ failed = {} /\ late = {} /\ crossed = {} /\ poisoned = FALSE /\ refused = {}

-----------------------------------------------------------------------------
(* The group, as Telegram has it. *)

BotMoves(to) ==
    /\ moves < Moves
    /\ to # bot
    /\ bot' = to
    /\ moves' = moves + 1
    /\ updates' = updates \cup {[id |-> live, was |-> bot, is |-> to, nr |-> moves']}
    /\ refused' = {}

MovedByPeople ==
    /\ \E to \in Standings : BotMoves(to)
    /\ told' = IF bot' = "out" THEN told \ {live} ELSE told
    /\ UNCHANGED <<live, rows, prompt, conn, tasks, failed, late, crossed, poisoned>>

GroupMigrates ==
    /\ live = "basic" /\ bot # "out" /\ moves < Moves
    /\ live' = "super"
    /\ moves' = moves + 1
    /\ updates' = updates \cup {[id |-> "super", was |-> bot, is |-> "migrated", nr |-> moves']}
    /\ told' = {}
    /\ UNCHANGED <<bot, rows, prompt, conn, tasks, failed, late, crossed, poisoned, refused>>

-----------------------------------------------------------------------------
(* Tasks, reads and writes. *)

Becomes(t, r) == task' = [task EXCEPT ![t] = r] /\ UNCHANGED handlers
Goes(t, pc) == Becomes(t, [task[t] EXCEPT !.pc = pc])
HandlerEnds(t) == Becomes(t, Idle)
Free(t) == task[t] = Idle /\ handlers < MaxHandlers
Starts(t, r) ==
    /\ Free(t)
    /\ handlers' = handlers + 1
    /\ task' = [task EXCEPT ![t] = IF r = Idle THEN Idle ELSE [r EXCEPT !.since = moves]]

\* What is left of task t: nothing, or an answer to put into the cache.
Left(t, put) == IF put = "none" THEN Idle ELSE [Idle EXCEPT !.id = task[t].id, !.put = put]

\* The same when it has done one of the things it does side by side.
After(t, thing, put) ==
    LET r == [task[t] EXCEPT !.todo = @ \ {thing}, !.put = put]
    IN  IF r.todo # {} THEN r ELSE Left(t, put)
HasDone(t, thing, put) == Becomes(t, After(t, thing, put))

At(t, pc) == task[t].pc = pc /\ task[t].put = "none"

\* is_connected
Connected(id) == IF conn[id] = "miss" THEN row[id] = "active" ELSE conn[id] = "yes"

\* Anybody's is_connected in the group fills the cache; a TTL empties it.
CacheFills ==
    /\ conn[live] = "miss"
    /\ conn' = [conn EXCEPT ![live] = IF row[live] = "active" THEN "yes" ELSE "no"]
    /\ UNCHANGED <<group, rows, prompt, tasks, historyVars>>

CacheExpires(id) ==
    /\ conn[id] # "miss"
    /\ conn' = [conn EXCEPT ![id] = "miss"]
    /\ UNCHANGED <<group, rows, prompt, tasks, historyVars>>

\* Handlers that have written the row of id and not yet put the answer.
Putting(id) ==
    {t \in Tasks : \/ task[t].id = id /\ task[t].put # "none"
                   \/ task[t].pc = "migrate" /\ "movedRow" \in task[t].todo}

\* The answer a handler puts into the cache after its write.
Puts(t) ==
    LET id == task[t].id IN
    /\ task[t].put # "none"
    /\ conn' = [conn EXCEPT ![id] = task[t].put]
    /\ IF task[t].pc = "idle" THEN HandlerEnds(t) ELSE Becomes(t, [task[t] EXCEPT !.put = "none"])
    /\ UNCHANGED <<group, rows, prompt, historyVars>>

\* Task t writes the row of id.
Crosses(id, t) == crossed' = IF Putting(id) \ {t} # {} THEN crossed \cup {id} ELSE crossed

\* deactivate_group; it matches no row when there is none.
Deactivate(id) ==
    row' = [row EXCEPT ![id] = IF @ = "none" THEN "none" ELSE "inactive"]

WriteFails(id) == failed' = failed \cup {id}

(* A deactivation as the step of task t: done, without a match, or failed, *)
(* perhaps after it has landed.                                            *)
DeactivateStep(t, done, else) ==
    LET id == task[t].id IN
    /\ \/ /\ row[id] # "none"
          /\ Deactivate(id)
          /\ Becomes(t, done)
          /\ Crosses(id, t)
          /\ UNCHANGED failed
       \/ /\ row[id] = "none"
          /\ Becomes(t, else)
          /\ UNCHANGED <<row, failed, crossed>>
       \/ /\ Deactivate(id) \/ UNCHANGED row
          /\ Becomes(t, else)
          /\ WriteFails(id)
          /\ UNCHANGED crossed
    /\ UNCHANGED <<pending, prompt, conn, poisoned, refused>>

\* The bot has moved since task t learnt of its standing.
OutOfDate(t) == moves > task[t].since

RemovePending(t) ==
    LET id == task[t].id IN
    \/ pending' = pending \ {id} /\ UNCHANGED failed
    \/ pending' \in {pending, pending \ {id}} /\ WriteFails(id)

\* leave_chat
LeaveChat(id) ==
    \/ id = live /\ bot # "out" /\ BotMoves("out") /\ UNCHANGED <<live, failed>>
    \/ WriteFails(id) /\ UNCHANGED <<group, refused>>

-----------------------------------------------------------------------------
(* on_bot_added *)

\* An update is taken up; the order is anybody's guess.
Takes(t, u, r) ==
    /\ u \in updates
    /\ updates' = updates \ {u}
    /\ Free(t)
    /\ handlers' = handlers + 1
    /\ task' = [task EXCEPT ![t] = IF r = Idle THEN Idle
                                    ELSE [r EXCEPT !.since = u.nr, !.id = u.id]]
    /\ UNCHANGED <<live, bot, moves>>

BotLeft(t, u) ==
    /\ u.is = "out"
    /\ Takes(t, u, [Idle EXCEPT !.pc = "left", !.todo = {"row", "pending"}])
    /\ UNCHANGED <<rows, prompt, conn, historyVars>>

\* A demotion is reported and changes nothing.
BotDemoted(t, u) ==
    /\ u.is = "member" /\ u.was = "admin"
    /\ Takes(t, u, Idle)
    /\ UNCHANGED <<rows, prompt, conn, historyVars>>

PromotionIgnored(t, u) ==
    /\ u.is = "admin" \/ (u.is = "member" /\ u.was = "out")
    /\ Takes(t, u, IF Connected(u.id) \/ u.id \in pending THEN Idle
                   ELSE [Idle EXCEPT !.pc = "ask"])
    /\ UNCHANGED <<rows, prompt, conn, historyVars>>

\* The bot is added or gets its rights: the request that is pending is
\* accepted, or a prompt is sent where there is none.
BotAdded(t, u) ==
    /\ u.is = "admin" \/ (u.is = "member" /\ u.was = "out")
    /\ \/ /\ u.id \in pending /\ u.is = "admin"
          /\ Takes(t, u, [Idle EXCEPT !.pc = "add"])
          /\ prompt' \in {prompt, prompt \ {u.id}}
       \/ /\ Connected(u.id) \/ u.id \in pending
          /\ ~(u.id \in pending /\ u.is = "admin")
          /\ Takes(t, u, Idle)
          /\ UNCHANGED prompt
       \/ /\ ~Connected(u.id) /\ u.id \notin pending
          /\ Takes(t, u, [Idle EXCEPT !.pc = "ask"])
          /\ UNCHANGED prompt
    /\ UNCHANGED <<rows, conn, historyVars>>

\* The prompt is sent, and then the pending row is written.
Asks(t) ==
    LET id == task[t].id IN
    /\ At(t, "ask")
    /\ \/ /\ StandingIn(id) # "out"
          /\ prompt' = prompt \cup {id}
          /\ refused' = refused \ {id}
          /\ Goes(t, "persist")
          /\ UNCHANGED failed
       \/ HandlerEnds(t) /\ WriteFails(id) /\ UNCHANGED <<prompt, refused>>
    /\ UNCHANGED <<group, rows, conn, told, late, crossed, poisoned>>

\* add_pending, after the prompt or after a tap without the rights.
Persists(t) ==
    LET id == task[t].id IN
    /\ At(t, "persist")
    /\ HandlerEnds(t)
    /\ \/ pending' = pending \cup {id} /\ UNCHANGED failed
       \/ pending' \in {pending, pending \cup {id}} /\ WriteFails(id)
    /\ late' = IF OutOfDate(t) THEN late \cup {id} ELSE late
    /\ UNCHANGED <<group, row, prompt, conn, told, crossed, poisoned, refused>>

LeftIfConnected(t) ==
    LET id == task[t].id IN
    /\ At(t, "left") /\ "row" \in task[t].todo
    /\ HasDone(t, "row", "none")
    /\ IF Connected(id) THEN Deactivate(id) ELSE UNCHANGED row
    /\ UNCHANGED <<group, pending, prompt, conn, historyVars>>

\* The bot is gone: the row is deactivated and the pending row removed.
LeftDeactivates(t) ==
    /\ At(t, "left") /\ "row" \in task[t].todo
    /\ DeactivateStep(t, After(t, "row", "no"), After(t, "row", "none"))
    /\ late' = IF OutOfDate(t) THEN late \cup {task[t].id} ELSE late
    /\ UNCHANGED <<group, told>>

LeftForgets(t) ==
    /\ At(t, "left") /\ "pending" \in task[t].todo
    /\ HasDone(t, "pending", "none")
    /\ RemovePending(t)
    /\ late' = IF OutOfDate(t) THEN late \cup {task[t].id} ELSE late
    /\ UNCHANGED <<group, row, prompt, conn, told, crossed, poisoned, refused>>

-----------------------------------------------------------------------------
(* complete_join *)

AddsGroup(t) ==
    LET id == task[t].id IN
    /\ At(t, "add")
    /\ \/ /\ row' = [row EXCEPT ![id] = "active"]
          /\ Becomes(t, [task[t] EXCEPT !.pc = "clear", !.put = "yes"])
          /\ Crosses(id, t)
          /\ told' = told \cup {id}
          /\ UNCHANGED failed
       \/ /\ row' \in {row, [row EXCEPT ![id] = "active"]}
          /\ HandlerEnds(t)
          /\ WriteFails(id)
          /\ UNCHANGED <<told, crossed, poisoned>>
    /\ late' = IF OutOfDate(t) THEN late \cup {id} ELSE late
    /\ UNCHANGED <<group, pending, prompt, conn, poisoned, refused>>

ClearsPending(t) ==
    /\ At(t, "clear")
    /\ RemovePending(t)
    /\ HandlerEnds(t)
    /\ UNCHANGED <<group, row, prompt, conn, told, late, crossed, poisoned, refused>>

(* on_join_decision: the owner's tap. *)
TapConnect(t) ==
    /\ live \in prompt
    /\ prompt' = prompt \ {live}
    /\ CASE bot = "member"                      -> Starts(t, [Idle EXCEPT !.pc = "persist", !.id = live])
         [] bot = "admin" /\ ~Connected(live)   -> Starts(t, [Idle EXCEPT !.pc = "add", !.id = live])
         [] OTHER                               -> Starts(t, Idle)
    /\ UNCHANGED <<group, rows, conn, historyVars>>

\* Not the owner, or a lookup failed: nothing is written, and the buttons go
\* all the same.
TapRefused(t) ==
    /\ live \in prompt
    /\ prompt' = prompt \ {live}
    /\ Starts(t, Idle)
    /\ refused' = refused \cup {live}
    /\ UNCHANGED <<group, rows, conn, told, failed, late, crossed, poisoned>>

TapCancel(t) ==
    /\ live \in prompt /\ bot # "out"
    /\ Starts(t, [Idle EXCEPT !.pc = "cancel", !.id = live])
    /\ UNCHANGED <<group, rows, prompt, conn, historyVars>>

Cancels(t) ==
    /\ At(t, "cancel")
    /\ RemovePending(t)
    /\ Goes(t, "go")
    /\ prompt' \in {prompt, prompt \ {task[t].id}}
    /\ UNCHANGED <<group, row, conn, told, late, crossed, poisoned, refused>>

\* leave_chat, after a cancel or a disconnect.
Leaves(t) ==
    /\ At(t, "go")
    /\ LeaveChat(task[t].id)
    /\ told' = IF bot' = "out" THEN told \ {task[t].id} ELSE told
    /\ HandlerEnds(t)
    /\ UNCHANGED <<rows, prompt, conn, late, crossed, poisoned>>

(* /tcconnect *)
ConnectStarts(t) ==
    /\ bot = "admin" /\ ~Connected(live) /\ live \notin pending
    /\ Starts(t, [Idle EXCEPT !.pc = "add", !.id = live])
    /\ UNCHANGED <<group, rows, prompt, conn, historyVars>>

-----------------------------------------------------------------------------
(* /tcdisconnect and /rmtc *)

DisconnectStarts(t) ==
    /\ bot # "out" /\ Connected(live)
    /\ Starts(t, [Idle EXCEPT !.pc = "disconnect", !.id = live])
    /\ UNCHANGED <<group, rows, prompt, conn, historyVars>>

RmtcStarts(t, id) ==
    /\ id = live \/ row[id] # "none"
    /\ Starts(t, [Idle EXCEPT !.pc = "disconnect", !.id = id])
    /\ UNCHANGED <<group, rows, prompt, conn, historyVars>>

\* Only a confirmed deactivation is followed by leave_chat.
Disconnects(t) ==
    /\ At(t, "disconnect")
    /\ DeactivateStep(t, [task[t] EXCEPT !.pc = "go", !.put = "no"], Idle)
    /\ told' = told \ {task[t].id}
    /\ UNCHANGED <<group, late>>

(* /leaveall: the list of groups may be behind; leaving and deactivating   *)
(* run side by side.                                                       *)
LeaveallStarts(t, id) ==
    /\ row[id] # "none"
    /\ Starts(t, [Idle EXCEPT !.pc = "leaveall", !.id = id, !.todo = {"row", "leave"}])
    /\ UNCHANGED <<group, rows, prompt, conn, historyVars>>

LeaveallDeactivates(t) ==
    /\ At(t, "leaveall") /\ "row" \in task[t].todo
    /\ DeactivateStep(t, After(t, "row", "no"), After(t, "row", "none"))
    /\ told' = told \ {task[t].id}
    \* It has left, and the bot is back.
    /\ late' = IF "leave" \notin task[t].todo /\ StandingIn(task[t].id) # "out"
                THEN late \cup {task[t].id} ELSE late
    /\ UNCHANGED group

LeaveallLeaves(t) ==
    /\ At(t, "leaveall") /\ "leave" \in task[t].todo
    /\ LeaveChat(task[t].id)
    /\ told' = told \ {task[t].id}
    /\ HasDone(t, "leave", "none")
    /\ UNCHANGED <<rows, prompt, conn, late, crossed, poisoned>>

(* /cleanup: a group is pruned when Telegram says that the bot is out of   *)
(* it, and kept when Telegram does not answer.                             *)
CleanupFailsOpen(t, id) ==
    /\ row[id] # "none"
    /\ Starts(t, [Idle EXCEPT !.pc = "prune", !.id = id])
    /\ UNCHANGED <<group, rows, prompt, conn, historyVars>>

CleanupStarts(t, id) ==
    /\ row[id] # "none"
    /\ StandingIn(id) = "out"
    /\ Starts(t, [Idle EXCEPT !.pc = "prune", !.id = id])
    /\ UNCHANGED <<group, rows, prompt, conn, historyVars>>

Prunes(t) ==
    /\ At(t, "prune")
    /\ DeactivateStep(t, Left(t, "no"), Idle)
    /\ late' = IF OutOfDate(t) THEN late \cup {task[t].id} ELSE late
    /\ UNCHANGED <<group, told>>

-----------------------------------------------------------------------------
(* on_chat_migration: the row and the pending row move side by side; the   *)
(* unique index refuses to move a row to an id that has one.               *)

MigrationStarts(t, u) ==
    /\ u.is = "migrated"
    /\ Takes(t, u, [Idle EXCEPT !.pc = "migrate", !.todo = {"row", "pending"}])
    /\ UNCHANGED <<rows, prompt, conn, historyVars>>

MovesRow(t) ==
    LET rest(moved) == Becomes(t, [task[t] EXCEPT !.todo = (@ \ {"row"}) \cup moved]) IN
    /\ At(t, "migrate") /\ "row" \in task[t].todo
    /\ \/ /\ row["basic"] # "none" /\ row["super"] = "none"
          /\ row' = [basic |-> "none", super |-> row["basic"]]
          /\ rest({"moved", "movedRow"})
          /\ crossed' = IF Putting("basic") \cup Putting("super") # {} THEN Ids ELSE crossed
          /\ poisoned' = (poisoned \/ row["basic"] # "active")
          /\ told' = IF row["basic"] = "active" /\ bot # "out" THEN told \cup {"super"} ELSE told
          /\ UNCHANGED failed
       \/ /\ row["basic"] = "none"
          /\ rest({})
          /\ UNCHANGED <<row, told, failed, crossed, poisoned>>
       \/ /\ failed' = Ids
          /\ rest({})
          /\ UNCHANGED <<row, told, crossed, poisoned>>
    /\ late' = IF OutOfDate(t) THEN Ids ELSE late
    /\ UNCHANGED <<group, pending, prompt, conn, refused>>

MovesPending(t) ==
    LET rest(moved) == Becomes(t, [task[t] EXCEPT !.todo = (@ \ {"pending"}) \cup moved]) IN
    /\ At(t, "migrate") /\ "pending" \in task[t].todo
    /\ \/ /\ "basic" \in pending /\ "super" \notin pending
          /\ pending' = {"super"}
          /\ rest({"moved"})
          /\ UNCHANGED failed
       \/ /\ "basic" \notin pending
          /\ rest({})
          /\ UNCHANGED <<pending, failed>>
       \/ /\ failed' = Ids
          /\ rest({})
          /\ UNCHANGED pending
    /\ UNCHANGED <<group, row, prompt, conn, told, late, crossed, poisoned, refused>>

MigrationPutsNewOnly(t) ==
    /\ At(t, "migrate") /\ task[t].todo \cap {"row", "pending"} = {}
    /\ conn' = [conn EXCEPT !["super"] = IF "movedRow" \in task[t].todo THEN "yes" ELSE @]
    /\ HandlerEnds(t)
    /\ UNCHANGED <<group, rows, prompt, historyVars>>

\* The new id counts as connected when a row has moved, active or not.
MigrationPuts(t) ==
    /\ At(t, "migrate") /\ task[t].todo \cap {"row", "pending"} = {}
    /\ conn' = [basic |-> IF "moved" \in task[t].todo THEN "no" ELSE conn["basic"],
                super |-> IF "movedRow" \in task[t].todo THEN "yes" ELSE conn["super"]]
    /\ HandlerEnds(t)
    /\ UNCHANGED <<group, rows, prompt, historyVars>>

-----------------------------------------------------------------------------
Handles(t) ==
    \/ Puts(t)
    \/ \E u \in updates : BotLeft(t, u) \/ BotDemoted(t, u) \/ BotAdded(t, u)
                            \/ MigrationStarts(t, u)
    \/ Asks(t) \/ Persists(t)
    \/ LeftDeactivates(t) \/ LeftForgets(t)
    \/ AddsGroup(t) \/ ClearsPending(t)
    \/ TapConnect(t) \/ TapRefused(t) \/ TapCancel(t) \/ Cancels(t) \/ Leaves(t)
    \/ ConnectStarts(t) \/ DisconnectStarts(t) \/ Disconnects(t)
    \/ \E id \in Ids : RmtcStarts(t, id) \/ LeaveallStarts(t, id) \/ CleanupStarts(t, id)
    \/ LeaveallDeactivates(t) \/ LeaveallLeaves(t)
    \/ Prunes(t)
    \/ MovesRow(t) \/ MovesPending(t) \/ MigrationPuts(t)

ConnectionNext ==
    \/ \E t \in Tasks : Handles(t)
    \/ CacheFills
    \/ \E id \in Ids : CacheExpires(id)
    \/ MovedByPeople \/ GroupMigrates

ConnectionSpec == ConnectionInit /\ [][ConnectionNext]_connectionVars

-----------------------------------------------------------------------------
(* Properties. *)

\* Nothing is under way.
Quiet == updates = {} /\ \A t \in Tasks : task[t] = Idle

(* No group stays in the federation without the bot (a ghost), unless a    *)
(* write failed or landed on an answer that was out of date.               *)
NoGhost ==
    Quiet => \A id \in Ids :
        row[id] = "active" /\ StandingIn(id) = "out" => id \in failed \cup late

(* A group that was connected, and that nobody has asked to disconnect, is *)
(* in the federation as long as the bot is in it, unless a write failed or *)
(* landed on an answer that was out of date.                               *)
StaysConnected ==
    \A id \in told : row[id] = "active" \/ id \in failed \cup late

(* is_connected says yes of a group in the federation only, once the       *)
(* handlers that write its row have put their answers, unless two of them  *)
(* overlapped, a write failed, or an inactive row has migrated.            *)
AnswersAgree ==
    \A id \in Ids :
        conn[id] = "yes" /\ Putting(id) = {} =>
            row[id] = "active" \/ id \in failed \cup crossed \/ poisoned

\* The bot has its rights and a request is pending, which /tcconnect refuses to
\* replace, and no prompt is there to accept it.
DeadEnd ==
    /\ live = "basic" /\ bot = "admin" /\ "basic" \in pending
    /\ row["basic"] # "active" /\ "basic" \notin prompt

(* A group whose bot has its rights and whose request is pending has a     *)
(* prompt to accept it, unless a write failed, came late or crossed        *)
(* another, or a tap that decided nothing (not the owner's, or a lookup    *)
(* failed) took the prompt away after the bot had got its rights.  Before  *)
(* that, the promotion accepts the request without the prompt.             *)
NoDeadEnd ==
    Quiet /\ DeadEnd => "basic" \in failed \cup late \cup crossed \cup refused
=============================================================================
