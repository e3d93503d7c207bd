------------------------------- MODULE FedBan -------------------------------
(***************************************************************************)
(* The federation ban of one user: the records in the `bans` collection,   *)
(* the user's standing in every chat, and the handlers that read the one   *)
(* and write the other.                                                    *)
(*                                                                         *)
(*   ban      _execute_ban     (workflows/ban_flow.py)                     *)
(*   lift     execute_unban    (workflows/unban_flow.py)                   *)
(*   join     _handle_member, on_join_request_approved (greeting.py)       *)
(*   verify   verify_user      (syncing.py)                                *)
(*   connect  complete_join    (workflows/connected_flow.py)               *)
(*                                                                         *)
(* Every database operation and every Telegram call is awaited, so each is *)
(* an action of its own.  Any of them may fail, a write may land although  *)
(* it is reported to have failed, and a handler may end at any await (an   *)
(* exception, a cancellation, or a restart of the process, which ends all  *)
(* of them): nothing of it survives but what it wrote.                     *)
(***************************************************************************)
EXTENDS Naturals, Sequences, FiniteSets

CONSTANTS
    Primary,    \* cfg.main_group, cfg.exec_group: enforced, never connected
    Groups,     \* chats that connect to the federation and leave it
    Bans,       \* bound: runs of _execute_ban
    Lifts,      \* bound: runs of execute_unban
    Earlier     \* bound: active records that earlier bans may have left

ASSUME ChatsAssumption == Primary \cap Groups = {}
ASSUME BoundsAssumption == IsFiniteSet(Bans) /\ Earlier \in Nat

Chats == Primary \cup Groups

VARIABLES
    records,    \* the user's ban documents, oldest first
    listed,     \* the groups whose federated_groups row is active
    standing,   \* the user in each chat
    ban, lift,  \* the runs of _execute_ban and of execute_unban
    join,       \* the join being handled in each chat (bound: one per chat)
    verify,     \* a /tcsync <user> run (bound: one at a time)
    connect,    \* complete_join in each group
    missed,     \* history: chats where an enforcement was tried in vain
    stuck       \* history: chats left banned when their record went away

vars == <<records, listed, standing, ban, lift, join, verify, connect, missed, stuck>>

RecordCount == 0..Earlier + Cardinality(Bans)

Answers == {"unread", "banned", "clean"}

TypeOK ==
    /\ records \in Seq([active : BOOLEAN])
    /\ Len(records) \in RecordCount
    /\ listed \subseteq Groups
    /\ standing \in [Chats -> {"member", "left", "banned"}]
    /\ ban \in [Bans ->
         [pc : {"unsent", "reading", "pruning", "writing", "written", "fanout", "ended"},
          found : RecordCount,
          ready : BOOLEAN, groups : SUBSET Groups, todo : SUBSET Chats]]
    /\ \A b \in Bans : /\ ban[b].found <= Len(records)
                       /\ ban[b].pc = "fanout" => ban[b].ready
    \* `late` is history: groups added since the run read its list.
    /\ lift \in [Lifts ->
         [pc : {"unsent", "holding", "listed", "fanout", "ended"},
          groups : SUBSET Groups, late : SUBSET Groups, todo : SUBSET Chats]]
    /\ join \in [Chats -> {"none", "joined", "enforcing"}]
    /\ verify \in [answer : Answers, ready : BOOLEAN, todo : SUBSET Groups]
    /\ connect \in [Groups -> [answer : Answers \cup {"idle"}, added : BOOLEAN]]
    /\ missed \subseteq Chats
    /\ stuck \subseteq {c \in Chats : standing[c] = "banned"}

Unsent == [pc |-> "unsent", found |-> 0,
           ready |-> FALSE, groups |-> {}, todo |-> {}]
UnsentLift == [pc |-> "unsent", groups |-> {}, late |-> {}, todo |-> {}]
NoVerify == [answer |-> "unread", ready |-> FALSE, todo |-> {}]
NoConnect == [answer |-> "idle", added |-> FALSE]

Init ==
    /\ listed \in SUBSET Groups
    /\ \/ /\ records = <<>>
          /\ standing \in [Chats -> {"member", "left"}]
       \* Bans that overlapped have left a record each, and reached every chat.
       \/ /\ records = [i \in 1..Earlier |-> [active |-> TRUE]]
          /\ Earlier > 0
          /\ standing = [c \in Chats |-> "banned"]
    /\ ban = [b \in Bans |-> Unsent]
    /\ lift = [l \in Lifts |-> UnsentLift]
    /\ join = [c \in Chats |-> "none"]
    /\ verify = NoVerify
    /\ connect = [g \in Groups |-> NoConnect]
    /\ missed = {}
    /\ stuck = {}

-----------------------------------------------------------------------------
(* The `bans` collection. *)

Active == {i \in DOMAIN records : records[i].active}

\* get_active_ban: the newest active record; 0 stands for None.
ActiveBan == IF Active = {} THEN 0 ELSE CHOOSE i \in Active : \A j \in Active : j <= i

Deactivate(ids) ==
    records' = [i \in DOMAIN records |->
                  IF i \in ids THEN [records[i] EXCEPT !.active = FALSE] ELSE records[i]]

IsBanned == IF Active = {} THEN "clean" ELSE "banned"

InFederation(c) == c \in Primary \cup listed

BannedChats == {c \in Chats : standing[c] = "banned"}

(* ban_chat_member and unban_chat_member.  A call without effect is one    *)
(* that failed, was skipped by the breaker, or was refused (no rights, the *)
(* bot is not in the chat).                                                *)
TelegramBan(c) ==
    \/ /\ standing' = [standing EXCEPT ![c] = "banned"]
       /\ missed' = missed \ {c}
       /\ stuck' = IF Active = {} THEN stuck \cup {c} ELSE stuck \ {c}
    \/ /\ missed' = missed \cup {c}
       /\ UNCHANGED <<standing, stuck>>

TelegramUnban(c) ==
    \/ /\ standing' = [standing EXCEPT ![c] = IF @ = "banned" THEN "left" ELSE @]
       /\ stuck' = stuck \ {c}
       /\ UNCHANGED missed
    \/ /\ stuck' = stuck \cup ({c} \cap BannedChats)
       /\ UNCHANGED <<standing, missed>>

-----------------------------------------------------------------------------
(* _execute_ban. *)

EndedBan == [Unsent EXCEPT !.pc = "ended"]

BanStarts(b) ==
    /\ ban[b].pc = "unsent"
    /\ ban' = [ban EXCEPT ![b].pc = "reading"]
    /\ UNCHANGED <<records, listed, standing, lift, join, verify, connect, missed, stuck>>

(* The active_groups task, started first and awaited last; an outage       *)
(* leaves the primary groups.                                              *)
BanReadsGroups(b) ==
    /\ ban[b].pc \in {"reading", "pruning", "writing", "written"}
    /\ ~ban[b].ready
    /\ \E groups \in {listed, {}} :
          /\ ban' = [ban EXCEPT ![b].ready = TRUE, ![b].groups = groups]
          /\ missed' = missed \cup
               IF ban[b].pc = "written" THEN listed \ groups ELSE {}
    /\ UNCHANGED <<records, listed, standing, lift, join, verify, connect, stuck>>

BanReads(b) ==
    /\ ban[b].pc = "reading"
    /\ \/ /\ ActiveBan # 0
          /\ ban' = [ban EXCEPT ![b].pc = "pruning", ![b].found = ActiveBan]
       \/ /\ ActiveBan = 0
          /\ ban' = [ban EXCEPT ![b].pc = "writing"]
    /\ UNCHANGED <<records, listed, standing, lift, join, verify, connect, missed, stuck>>

(* deactivate_extra_active_bans. *)
BanPrunes(b) ==
    /\ ban[b].pc = "pruning"
    /\ Deactivate(Active \ {ban[b].found})
    /\ ban' = [ban EXCEPT ![b].pc = "writing"]
    \* The record found may be inactive by now, and the pruned one the ban's.
    /\ stuck' = stuck \cup IF ban[b].found \in Active THEN {} ELSE BannedChats
    /\ UNCHANGED <<listed, standing, lift, join, verify, connect, missed>>

\* insert_one, or find_one_and_update by ban_id, which leaves is_active alone.
Written(b) ==
    IF ban[b].found = 0
    THEN Append(records, [active |-> TRUE])
    ELSE records

EnforcesAnyway(b) ==
    /\ ban[b].pc = "writing"
    /\ records' = records
    /\ ban' = [ban EXCEPT ![b].pc = "written"]
    /\ UNCHANGED <<listed, standing, lift, join, verify, connect, missed, stuck>>

(* The proof upload, then create_ban or update_ban. *)
BanWrites(b) ==
    /\ ban[b].pc = "writing"
    /\ records' = Written(b)
    /\ ban' = [ban EXCEPT ![b] = [@ EXCEPT !.pc = "written", !.found = 0]]
    /\ missed' = missed \cup IF ban[b].ready THEN listed \ ban[b].groups ELSE {}
    /\ UNCHANGED <<listed, standing, lift, join, verify, connect, stuck>>

(* The write is reported to have failed: fail closed.  It may have landed. *)
BanWriteFails(b) ==
    /\ ban[b].pc = "writing"
    /\ records' \in {records, Written(b)}
    /\ ban' = [ban EXCEPT ![b] = EndedBan]
    /\ missed' = missed \cup Chats
    /\ UNCHANGED <<listed, standing, lift, join, verify, connect, stuck>>

FanningOut(run, todo) == [Unsent EXCEPT !.pc = "fanout", !.ready = run.ready, !.todo = todo]

(* The groups task is awaited, the target demoted again, the primary       *)
(* groups added.                                                           *)
BanFansOut(b) ==
    /\ ban[b].pc = "written" /\ ban[b].ready
    /\ ban' = [ban EXCEPT ![b] = FanningOut(@, Primary \cup ban[b].groups)]
    /\ UNCHANGED <<records, listed, standing, lift, join, verify, connect, missed, stuck>>

BanEnforces(b) ==
    \E c \in ban[b].todo :
        /\ TelegramBan(c)
        /\ LET rest == ban[b].todo \ {c} IN
           ban' = [ban EXCEPT ![b] = IF rest = {} THEN EndedBan ELSE [ban[b] EXCEPT !.todo = rest]]
        /\ UNCHANGED <<records, listed, lift, join, verify, connect>>

\* Chats a run has yet to enforce.
BanOwes(b) ==
    CASE ban[b].pc = "written" -> Primary \cup (IF ban[b].ready THEN ban[b].groups ELSE Groups)
      [] ban[b].pc = "fanout"  -> ban[b].todo
      [] OTHER                 -> {}

BanDies(b) ==
    /\ ban[b].pc \notin {"unsent", "ended"}
    /\ ban' = [ban EXCEPT ![b] = EndedBan]
    /\ missed' = missed \cup BanOwes(b)
    /\ UNCHANGED <<records, listed, standing, lift, join, verify, connect, stuck>>

-----------------------------------------------------------------------------
(* execute_unban. *)

EndedLift == [UnsentLift EXCEPT !.pc = "ended"]

(* The speculative read of cmd_unban. *)
LiftReads(l) ==
    /\ lift[l].pc = "unsent"
    /\ ActiveBan # 0
    /\ lift' = [lift EXCEPT ![l].pc = "holding"]
    /\ UNCHANGED <<records, listed, standing, ban, join, verify, connect, missed, stuck>>

GroupsOutageProceeds(l) ==
    /\ lift[l].pc = "holding"
    /\ \E groups \in {listed, {}} :
          lift' = [lift EXCEPT ![l].pc = "listed", ![l].groups = groups]
    /\ UNCHANGED <<records, listed, standing, ban, join, verify, connect, missed, stuck>>

(* Groups first: an outage aborts with the record intact. *)
LiftReadsGroups(l) ==
    /\ lift[l].pc = "holding"
    /\ lift' = [lift EXCEPT ![l].pc = "listed", ![l].groups = listed]
    /\ UNCHANGED <<records, listed, standing, ban, join, verify, connect, missed, stuck>>

(* deactivate_all_active_bans, then the primary groups are added.  Groups  *)
(* that joined behind the list, or are out of the federation, keep a ban.  *)
LiftDeactivates(l) ==
    /\ lift[l].pc = "listed"
    /\ Deactivate(Active)
    /\ lift' = [lift EXCEPT ![l] =
                  [UnsentLift EXCEPT !.pc = "fanout", !.todo = Primary \cup lift[l].groups]]
    /\ stuck' = stuck \cup (BannedChats \cap (lift[l].late \cup (Groups \ listed)))
    /\ UNCHANGED <<listed, standing, ban, join, verify, connect, missed>>

(* The deactivation raises; it may have landed. *)
LiftDeactivationFails(l) ==
    /\ lift[l].pc = "listed"
    /\ lift' = [lift EXCEPT ![l] = EndedLift]
    /\ \/ UNCHANGED <<records, stuck>>
       \/ Deactivate(Active) /\ stuck' = stuck \cup BannedChats
    /\ UNCHANGED <<listed, standing, ban, join, verify, connect, missed>>

LiftUnbans(l) ==
    \E c \in lift[l].todo :
        /\ TelegramUnban(c)
        /\ LET rest == lift[l].todo \ {c} IN
           lift' = [lift EXCEPT ![l] = IF rest = {} THEN EndedLift ELSE [lift[l] EXCEPT !.todo = rest]]
        /\ UNCHANGED <<records, listed, ban, join, verify, connect>>

LiftDies(l) ==
    /\ lift[l].pc \notin {"unsent", "ended"}
    /\ lift' = [lift EXCEPT ![l] = EndedLift]
    /\ stuck' = stuck \cup (lift[l].todo \cap BannedChats)
    /\ UNCHANGED <<records, listed, standing, ban, join, verify, connect, missed>>

-----------------------------------------------------------------------------
(* The user comes and goes; a banned user cannot join. *)

UserJoins(c) ==
    /\ standing[c] = "left" /\ join[c] = "none"
    /\ standing' = [standing EXCEPT ![c] = "member"]
    /\ join' = [join EXCEPT ![c] = "joined"]
    /\ UNCHANGED <<records, listed, ban, lift, verify, connect, missed, stuck>>

UserLeaves(c) ==
    /\ standing[c] = "member"
    /\ standing' = [standing EXCEPT ![c] = "left"]
    /\ UNCHANGED <<records, listed, ban, lift, join, verify, connect, missed, stuck>>

JoinReadsPrimaryOnly(c) ==
    /\ join[c] = "joined"
    /\ join' = [join EXCEPT ![c] =
                  IF c \in Primary /\ ActiveBan # 0 THEN "enforcing" ELSE "none"]
    /\ UNCHANGED <<records, listed, standing, ban, lift, verify, connect, missed, stuck>>

(* is_connected, then get_active_ban. *)
JoinReads(c) ==
    /\ join[c] = "joined"
    /\ join' = [join EXCEPT ![c] =
                  IF InFederation(c) /\ ActiveBan # 0 THEN "enforcing" ELSE "none"]
    /\ UNCHANGED <<records, listed, standing, ban, lift, verify, connect, missed, stuck>>

(* After the awaited auto-demotion. *)
JoinEnforces(c) ==
    /\ join[c] = "enforcing"
    /\ TelegramBan(c)
    /\ join' = [join EXCEPT ![c] = "none"]
    /\ UNCHANGED <<records, listed, ban, lift, verify, connect>>

(* An outage of either read lets the joiner in silently. *)
JoinDies(c) ==
    /\ join[c] # "none"
    /\ join' = [join EXCEPT ![c] = "none"]
    /\ missed' = missed \cup {c}
    /\ UNCHANGED <<records, listed, standing, ban, lift, verify, connect, stuck>>

-----------------------------------------------------------------------------
(* verify_user: both reads in parallel, then one pair per connected group. *)

VerifyReads ==
    /\ \/ /\ ~verify.ready
          /\ verify' = [verify EXCEPT !.ready = TRUE, !.todo = listed]
       \/ /\ verify.answer = "unread"
          /\ verify' = [verify EXCEPT !.answer = IsBanned]
    /\ UNCHANGED <<records, listed, standing, ban, lift, join, connect, missed, stuck>>

(* Probe and act.  The probe's answer decides whether anything is done.    *)
VerifyPair ==
    /\ verify.ready /\ verify.answer # "unread"
    /\ \E g \in verify.todo :
          /\ verify' = [verify EXCEPT !.todo = @ \ {g}]
          /\ \/ verify.answer = "banned" /\ standing[g] = "member" /\ TelegramBan(g)
             \/ verify.answer = "clean" /\ standing[g] = "banned" /\ TelegramUnban(g)
             \/ UNCHANGED <<standing, missed, stuck>>
    /\ UNCHANGED <<records, listed, ban, lift, join, connect>>

VerifyEnds ==
    /\ verify # NoVerify
    /\ verify' = NoVerify
    /\ UNCHANGED <<records, listed, standing, ban, lift, join, connect, missed, stuck>>

-----------------------------------------------------------------------------
(* complete_join: active_ban_user_ids and add_group in parallel, then the  *)
(* replay.                                                                 *)

ConnectStarts(g) ==
    /\ g \notin listed /\ connect[g].answer = "idle"
    /\ connect' = [connect EXCEPT ![g].answer = "unread"]
    /\ UNCHANGED <<records, listed, standing, ban, lift, join, verify, missed, stuck>>

(* A failed read is taken for an empty list. *)
ConnectReads(g) ==
    /\ connect[g].answer = "unread"
    /\ \/ connect' = [connect EXCEPT ![g].answer = IsBanned] /\ UNCHANGED missed
       \/ connect' = [connect EXCEPT ![g].answer = "clean"] /\ missed' = missed \cup {g}
    /\ UNCHANGED <<records, listed, standing, ban, lift, join, verify, stuck>>

ConnectAdds(g) ==
    /\ connect[g].answer # "idle" /\ ~connect[g].added
    /\ connect' = [connect EXCEPT ![g].added = TRUE]
    /\ listed' = listed \cup {g}
    \* A ban recorded since the read is not replayed.
    /\ missed' = missed \cup
         IF connect[g].answer = "clean" /\ Active # {} THEN {g} ELSE {}
    /\ lift' = [l \in Lifts |->
         IF lift[l].pc = "listed" THEN [lift[l] EXCEPT !.late = @ \cup {g}] ELSE lift[l]]
    /\ UNCHANGED <<records, standing, ban, join, verify, stuck>>

ConnectReplays(g) ==
    /\ connect[g].added /\ connect[g].answer \in {"banned", "clean"}
    /\ connect' = [connect EXCEPT ![g] = NoConnect]
    /\ \/ connect[g].answer = "banned" /\ TelegramBan(g)
       \/ connect[g].answer = "clean" /\ UNCHANGED <<standing, missed, stuck>>
    /\ UNCHANGED <<records, listed, ban, lift, join, verify>>

ConnectDies(g) ==
    /\ connect[g].answer # "idle"
    /\ connect' = [connect EXCEPT ![g] = NoConnect]
    /\ missed' = missed \cup {g}
    /\ UNCHANGED <<records, listed, standing, ban, lift, join, verify, stuck>>

(* deactivate_group, by /tcdisconnect, /rmtc, /leaveall or the bot's       *)
(* removal.  A call that a handler still makes there may have its effect   *)
(* (the bot leaves after the row is written) or not.                       *)
Disconnect(g) ==
    /\ g \in listed
    /\ listed' = listed \ {g}
    /\ UNCHANGED <<records, standing, ban, lift, join, verify, connect, missed, stuck>>

-----------------------------------------------------------------------------
BanStep(b) ==
    \/ BanStarts(b) \/ BanReadsGroups(b) \/ BanReads(b) \/ BanPrunes(b)
    \/ BanWrites(b) \/ BanWriteFails(b) \/ BanFansOut(b) \/ BanEnforces(b) \/ BanDies(b)

LiftStep(l) ==
    \/ LiftReads(l) \/ LiftReadsGroups(l) \/ LiftDeactivates(l)
    \/ LiftDeactivationFails(l) \/ LiftUnbans(l) \/ LiftDies(l)

JoinStep(c) == UserJoins(c) \/ UserLeaves(c) \/ JoinReads(c) \/ JoinEnforces(c) \/ JoinDies(c)

VerifyStep == VerifyReads \/ VerifyPair \/ VerifyEnds

ConnectStep(g) ==
    \/ ConnectStarts(g) \/ ConnectReads(g) \/ ConnectAdds(g)
    \/ ConnectReplays(g) \/ ConnectDies(g) \/ Disconnect(g)

Next ==
    \/ \E b \in Bans : BanStep(b)
    \/ \E l \in Lifts : LiftStep(l)
    \/ \E c \in Chats : JoinStep(c)
    \/ VerifyStep
    \/ \E g \in Groups : ConnectStep(g)

Spec == Init /\ [][Next]_vars

-----------------------------------------------------------------------------
(* No chat bans the user unless a record was written first (the comment of *)
(* _execute_ban: fail closed).                                             *)
FailClosed == BannedChats # {} => records # <<>>

(* While a record is active, every federation chat either does not have    *)
(* the user, or a handler in flight still owes it the ban, or the attempt  *)
(* to enforce there failed, or the group connected behind the snapshot.    *)
Owed(c) ==
    \/ \E b \in Bans : c \in BanOwes(b)
    \/ join[c] # "none"
    \/ c \in Groups /\ connect[c].answer \in {"unread", "banned"}

NoGap ==
    Active # {} => \A c \in Chats :
        InFederation(c) /\ standing[c] = "member" => Owed(c) \/ c \in missed

(* Once no record is active, a federation chat bans the user only while a  *)
(* lift is still to reach it, or after the lift failed there, or because   *)
(* an enforcer acted on what it had read before the lift.                  *)
NoOrphan ==
    Active = {} => \A c \in Chats :
        InFederation(c) /\ standing[c] = "banned" =>
            c \in stuck \/ \E l \in Lifts : c \in lift[l].todo
=============================================================================
