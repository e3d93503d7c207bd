-------------------------------- MODULE Mute --------------------------------
(***************************************************************************)
(* The federation mute of one user: the user's row in `active_mutes`, the  *)
(* restriction in every chat, and the handlers that read the one and write *)
(* the other.                                                              *)
(*                                                                         *)
(*   mute     _execute_mute    (workflows/muting_flow.py)                  *)
(*   unmute   execute_unmute   (the same)                                  *)
(*   join     _handle_member, on_join_request_approved (greeting.py)       *)
(*   connect  complete_join    (workflows/connected_flow.py)               *)
(*                                                                         *)
(* Every awaited call is a step and may fail; a write may land although it *)
(* is reported to have failed; a handler may end at any await.             *)
(***************************************************************************)
EXTENDS Naturals, FiniteSets

CONSTANTS
    Primary,    \* cfg.main_group, cfg.exec_group
    Groups,     \* chats that connect to the federation and leave it
    Mutes,      \* bound: runs of _execute_mute
    Unmutes,    \* bound: runs of execute_unmute
    MaxHandlers \* bound: handlers at a time

ASSUME MuteAssumption ==
    /\ Primary \cap Groups = {} /\ MaxHandlers \in Nat
    /\ Mutes \cap {"none", "forever", "joined", "idle", "unread"} = {}  \* runs are no words

AllChats == Primary \cup Groups

\* How long a mute lasts: until the deadline of a timed run, or forever.
Untils == Mutes \cup {"forever"}

VARIABLES
    row,        \* until_date of the user's active_mutes document
    past,       \* the timed runs whose deadline has passed
    listed,     \* groups whose federated_groups row is active
    inside,     \* chats the user is in
    quiet,      \* until when the user is restricted in each chat
    mute, unmute,  \* the runs
    join,       \* in each chat: no join, one to look at, or the mute to apply
    connect,    \* complete_join in each group
    missed,     \* history: chats where the mute was tried in vain
    stuck,      \* history: chats left restricted when the row went away, or ran out
    raced,      \* history: the row was changed under a handler that acts on it
    outlived    \* history: restrictions Telegram took to be permanent

histories == <<missed, stuck, raced, outlived>>
muteVars == <<row, past, listed, inside, quiet, mute, unmute, join, connect, histories>>

Unsent == [pc |-> "unsent", until |-> "none", groups |-> {}, todo |-> {}]
Ended == [Unsent EXCEPT !.pc = "ended"]
\* `left` is history: chats the run has not freed, or that were muted since.
UnsentUnmute == [pc |-> "unsent", todo |-> {}, left |-> {}]
EndedUnmute == [UnsentUnmute EXCEPT !.pc = "ended"]
NoConnect == [answer |-> "idle", added |-> FALSE]

MuteTypeOK ==
    /\ row \in Untils \cup {"none"} /\ past \subseteq Mutes
    /\ listed \subseteq Groups /\ inside \subseteq AllChats
    /\ quiet \in [AllChats -> Untils \cup {"none"}]
    /\ mute \in [Mutes -> [pc : {"unsent", "listed", "set", "fanout", "ended"},
                           until : Untils \cup {"none"},
                           groups : SUBSET Groups, todo : SUBSET AllChats]]
    /\ unmute \in [Unmutes -> [pc : {"unsent", "holding", "fanout", "ended"},
                               todo : SUBSET AllChats, left : SUBSET AllChats]]
    /\ join \in [AllChats -> Untils \cup {"none", "joined"}]
    /\ connect \in [Groups -> [answer : Untils \cup {"idle", "unread", "none"},
                               added : BOOLEAN]]
    /\ missed \subseteq AllChats /\ stuck \subseteq AllChats /\ outlived \subseteq AllChats
    /\ raced \in BOOLEAN

MuteInit ==
    /\ row = "none" /\ past = {}
    /\ listed \in SUBSET Groups
    /\ inside \in SUBSET AllChats
    /\ quiet = [c \in AllChats |-> "none"]
    /\ mute = [m \in Mutes |-> Unsent]
    /\ unmute = [u \in Unmutes |-> UnsentUnmute]
    /\ join = [c \in AllChats |-> "none"]
    /\ connect = [g \in Groups |-> NoConnect]
    /\ missed = {} /\ stuck = {} /\ outlived = {} /\ raced = FALSE

-----------------------------------------------------------------------------
(* active_mutes: one document, upserted; an expired one is not found. *)

Found == IF row \in past THEN "none" ELSE row

InFederation(c) == c \in Primary \cup listed

QuietChats == {c \in AllChats : quiet[c] # "none"}

\* Handlers that have taken the row for what it is, and have yet to act on it.
MutesActing == {m \in Mutes : mute[m].pc \in {"set", "fanout"}}
UnmutesActing == {u \in Unmutes : unmute[u].pc \in {"holding", "fanout"}}
OthersActing ==
    \/ \E c \in AllChats : join[c] \in Untils
    \/ \E g \in Groups : connect[g].answer \in Untils

\* Chats of the federation that the user is in, with nothing left to do.
Reached(c) ==
    /\ InFederation(c) /\ c \in inside \ missed
    /\ join[c] = "none" /\ (c \in Groups => connect[c] = NoConnect)

Room ==
    Cardinality({m \in Mutes : mute[m].pc \notin {"unsent", "ended"}})
    + Cardinality(UnmutesActing)
    + Cardinality({c \in AllChats : join[c] # "none"})
    + Cardinality({g \in Groups : connect[g] # NoConnect}) < MaxHandlers

\* The unmutes under way will not have freed chat c.
Touches(c) ==
    unmute' = [u \in Unmutes |->
                 IF u \in UnmutesActing THEN [unmute[u] EXCEPT !.left = @ \cup {c}]
                                        ELSE unmute[u]]

(* restrict_chat_member with no permission.  Telegram takes a deadline that *)
(* has passed, or is about to, to mean forever.                             *)
Restricts(c, until) ==
    \/ /\ quiet' = [quiet EXCEPT ![c] = IF until \in past THEN "forever" ELSE until]
       /\ outlived' = IF until \in past THEN outlived \cup {c} ELSE outlived \ {c}
       /\ missed' = missed \ {c}
       /\ stuck' = stuck \ {c}
       /\ Touches(c)
    \/ /\ missed' = missed \cup ({c} \cap inside)
       /\ UNCHANGED <<quiet, unmute, stuck, outlived>>

-----------------------------------------------------------------------------
(* _execute_mute *)

(* active_groups; an outage ends the run with nothing touched. *)
MuteReads(m) ==
    /\ mute[m].pc = "unsent" /\ Room
    /\ \E until \in {m, "forever"} :
          mute' = [mute EXCEPT ![m] =
                     [Unsent EXCEPT !.pc = "listed", !.until = until, !.groups = listed]]
    /\ UNCHANGED <<row, past, listed, inside, quiet, unmute, join, connect, histories>>

\* Groups that connected behind the list, with what they read before.
Behind(m) == listed \ mute[m].groups

RacesMute(m) == raced' = (MutesActing \ {m} # {} \/ UnmutesActing # {} \/ OthersActing)

\* Instead: the run goes on whether or not the row was written.
MuteSetsBestEffort(m) ==
    /\ mute[m].pc = "listed"
    /\ row' \in {row, mute[m].until}
    /\ mute' = [mute EXCEPT ![m].pc = "set"]
    /\ missed' = Behind(m)
    /\ RacesMute(m)
    /\ UNCHANGED <<past, listed, inside, quiet, unmute, join, connect, stuck, outlived>>

\* Instead: the upsert leaves the deadline of an existing row alone.
MuteSetsOnInsert(m) ==
    /\ mute[m].pc = "listed"
    /\ row' = IF row = "none" THEN mute[m].until ELSE row
    /\ mute' = [mute EXCEPT ![m].pc = "set"]
    /\ missed' = Behind(m)
    /\ RacesMute(m)
    /\ UNCHANGED <<past, listed, inside, quiet, unmute, join, connect, stuck, outlived>>

(* set_active_mute *)
MuteSets(m) ==
    /\ mute[m].pc = "listed"
    /\ row' = mute[m].until
    /\ mute' = [mute EXCEPT ![m].pc = "set"]
    /\ missed' = Behind(m)
    /\ RacesMute(m)
    /\ UNCHANGED <<past, listed, inside, quiet, unmute, join, connect, stuck, outlived>>

(* It is reported to have failed, and no chat is touched; it may have landed. *)
MuteSetFails(m) ==
    /\ mute[m].pc = "listed"
    /\ mute' = [mute EXCEPT ![m] = Ended]
    /\ \/ UNCHANGED <<row, missed, raced>>
       \/ row' = mute[m].until /\ missed' = AllChats /\ RacesMute(m)
    /\ UNCHANGED <<past, listed, inside, quiet, unmute, join, connect, stuck, outlived>>

(* log_mute, then the list with the primary groups added. *)
MuteLogs(m) ==
    /\ mute[m].pc = "set"
    /\ mute' = [mute EXCEPT ![m].pc = "fanout", ![m].todo = Primary \cup mute[m].groups]
    /\ UNCHANGED <<row, past, listed, inside, quiet, unmute, join, connect, histories>>

(* log_mute fails: the row is deleted, an earlier mute's with it, or stays. *)
MuteLogFails(m) ==
    /\ mute[m].pc = "set"
    /\ mute' = [mute EXCEPT ![m] = Ended]
    /\ \/ /\ row' = "none"
          /\ stuck' = stuck \cup QuietChats
          /\ missed' = {}
          /\ RacesMute(m)
       \/ missed' = AllChats /\ UNCHANGED <<row, stuck, raced>>
    /\ UNCHANGED <<past, listed, inside, quiet, unmute, join, connect, outlived>>

MuteEnforces(m) ==
    \E c \in mute[m].todo :
        /\ Restricts(c, mute[m].until)
        /\ mute' = [mute EXCEPT ![m] =
                      IF mute[m].todo = {c} THEN Ended
                      ELSE [mute[m] EXCEPT !.todo = mute[m].todo \ {c}]]
        /\ UNCHANGED <<row, past, listed, inside, join, connect, raced>>

MuteDies(m) ==
    /\ mute[m].pc \notin {"unsent", "ended"}
    /\ mute' = [mute EXCEPT ![m] = Ended]
    /\ missed' = missed \cup (IF mute[m].pc = "set" THEN AllChats ELSE mute[m].todo)
    /\ UNCHANGED <<row, past, listed, inside, quiet, unmute, join, connect,
                   stuck, raced, outlived>>

-----------------------------------------------------------------------------
(* execute_unmute *)

(* get_active_mute; None, or a failed read, ends the run. *)
UnmuteReads(u) ==
    /\ unmute[u].pc = "unsent" /\ Room
    /\ Found # "none"
    /\ unmute' = [unmute EXCEPT ![u].pc = "holding"]
    /\ UNCHANGED <<row, past, listed, inside, quiet, mute, join, connect, histories>>

(* active_groups *)
UnmuteLists(u) ==
    /\ unmute[u].pc = "holding"
    /\ LET todo == Primary \cup listed IN
       unmute' = [unmute EXCEPT ![u] =
                    [pc |-> "fanout", todo |-> todo,
                     left |-> @.left \cup (QuietChats \ todo)]]
    /\ UNCHANGED <<row, past, listed, inside, quiet, mute, join, connect, histories>>

(* restrict_chat_member with the usual permissions. *)
UnmuteFrees(u) ==
    \E c \in unmute[u].todo :
        /\ \/ /\ quiet' = [quiet EXCEPT ![c] = "none"]
              /\ outlived' = outlived \ {c} /\ stuck' = stuck \ {c}
              /\ unmute' = [unmute EXCEPT ![u].todo = @ \ {c}, ![u].left = @ \ {c}]
           \/ /\ unmute' = [unmute EXCEPT ![u].todo = @ \ {c}, ![u].left = @ \cup ({c} \cap QuietChats)]
              /\ UNCHANGED <<quiet, outlived, stuck>>
        /\ UNCHANGED <<row, past, listed, inside, mute, join, connect, missed, raced>>

RacesUnmute(u) == raced' = (MutesActing # {} \/ UnmutesActing \ {u} # {} \/ OthersActing)

(* clear_active_mute, however many chats were freed. *)
UnmuteClears(u) ==
    /\ unmute[u].pc = "fanout" /\ unmute[u].todo = {}
    /\ row' = "none"
    /\ unmute' = [unmute EXCEPT ![u] = EndedUnmute]
    /\ stuck' = stuck \cup (QuietChats \cap unmute[u].left)
    /\ missed' = {}
    /\ RacesUnmute(u)
    /\ UNCHANGED <<past, listed, inside, quiet, mute, join, connect, outlived>>

(* The run ends without it, or it fails: the chats freed are open again. *)
UnmuteDies(u) ==
    /\ unmute[u].pc \in {"holding", "fanout"}
    /\ unmute' = [unmute EXCEPT ![u] = EndedUnmute]
    /\ missed' = AllChats
    /\ UNCHANGED <<row, past, listed, inside, quiet, mute, join, connect,
                   stuck, raced, outlived>>

-----------------------------------------------------------------------------
(* The user comes and goes, and keeps the restriction; deadlines pass. *)

UserJoins(c) ==
    /\ c \notin inside /\ join[c] = "none" /\ Room
    /\ inside' = inside \cup {c}
    /\ join' = [join EXCEPT ![c] = "joined"]
    /\ UNCHANGED <<row, past, listed, quiet, mute, unmute, connect, histories>>

UserLeaves(c) ==
    /\ c \in inside
    /\ inside' = inside \ {c}
    /\ UNCHANGED <<row, past, listed, quiet, mute, unmute, join, connect, histories>>

(* is_connected and get_active_mute. *)
JoinReads(c) ==
    /\ join[c] = "joined"
    /\ join' = [join EXCEPT ![c] = IF InFederation(c) THEN Found ELSE "none"]
    /\ UNCHANGED <<row, past, listed, inside, quiet, mute, unmute, connect, histories>>

(* After the awaited auto-demotion. *)
JoinEnforces(c) ==
    /\ join[c] \in Untils
    /\ Restricts(c, join[c])
    /\ join' = [join EXCEPT ![c] = "none"]
    /\ UNCHANGED <<row, past, listed, inside, mute, connect, raced>>

(* A read that fails lets the user in without a word. *)
JoinDies(c) ==
    /\ join[c] # "none"
    /\ join' = [join EXCEPT ![c] = "none"]
    /\ missed' = IF Found = "none" THEN missed ELSE missed \cup {c}
    /\ UNCHANGED <<row, past, listed, inside, quiet, mute, unmute, connect,
                   stuck, raced, outlived>>

(* A deadline passes, for the row and for the chats that have it.  A chat  *)
(* that a re-mute did not reach, or has yet to reach, keeps what it had.   *)
DeadlinePasses(m) ==
    /\ m \notin past
    /\ mute[m].pc \notin {"unsent", "listed"}  \* bound: not before it is written
    /\ \/ row = m \/ mute[m].until = m
       \/ \E c \in AllChats : m \in {quiet[c], join[c]}
       \/ \E g \in Groups : connect[g].answer = m
    /\ past' = past \cup {m}
    /\ quiet' = [c \in AllChats |-> IF quiet[c] = m THEN "none" ELSE quiet[c]]
    /\ stuck' = {c \in AllChats : quiet'[c] # "none" /\ c \in stuck} \cup
         {c \in QuietChats : row = m /\ (MutesActing # {} \/ ~Reached(c))}
    /\ UNCHANGED <<row, listed, inside, mute, unmute, join, connect,
                   missed, raced, outlived>>

-----------------------------------------------------------------------------
(* complete_join: active_mute_docs and add_group in parallel, the replay.  *)

ConnectStarts(g) ==
    /\ g \notin listed /\ connect[g].answer = "idle" /\ Room
    /\ connect' = [connect EXCEPT ![g].answer = "unread"]
    /\ UNCHANGED <<row, past, listed, inside, quiet, mute, unmute, join, histories>>

(* A failed read is taken for an empty list. *)
ConnectReads(g) ==
    /\ connect[g].answer = "unread"
    /\ \/ connect' = [connect EXCEPT ![g].answer = Found] /\ UNCHANGED missed
       \/ connect' = [connect EXCEPT ![g].answer = "none"] /\ missed' = missed \cup {g}
    /\ UNCHANGED <<row, past, listed, inside, quiet, mute, unmute, join,
                   stuck, raced, outlived>>

ConnectAdds(g) ==
    /\ connect[g].answer # "idle" /\ ~connect[g].added
    /\ connect' = [connect EXCEPT ![g].added = TRUE]
    /\ listed' = listed \cup {g}
    \* A mute recorded since the read is not replayed.
    /\ missed' = missed \cup (IF connect[g].answer \in {"unread", Found} THEN {} ELSE {g})
    /\ UNCHANGED <<row, past, inside, quiet, mute, unmute, join, stuck, raced, outlived>>

ConnectReplays(g) ==
    /\ connect[g].added /\ connect[g].answer # "unread"
    /\ connect' = [connect EXCEPT ![g] = NoConnect]
    /\ \/ connect[g].answer # "none" /\ Restricts(g, connect[g].answer)
       \/ connect[g].answer = "none" /\ UNCHANGED <<quiet, unmute, missed, stuck, outlived>>
    /\ UNCHANGED <<row, past, listed, inside, mute, join, raced>>

ConnectDies(g) ==
    /\ connect[g].answer # "idle"
    /\ connect' = [connect EXCEPT ![g] = NoConnect]
    /\ missed' = missed \cup {g}
    /\ UNCHANGED <<row, past, listed, inside, quiet, mute, unmute, join,
                   stuck, raced, outlived>>

Disconnects(g) ==
    /\ listed' = listed \ {g} /\ g \in listed
    /\ UNCHANGED <<row, past, inside, quiet, mute, unmute, join, connect, histories>>

-----------------------------------------------------------------------------
MuteNext ==
    \/ \E m \in Mutes :
         \/ MuteReads(m) \/ MuteSets(m) \/ MuteSetFails(m) \/ MuteLogs(m)
         \/ MuteLogFails(m) \/ MuteEnforces(m) \/ MuteDies(m) \/ DeadlinePasses(m)
    \/ \E u \in Unmutes :
         \/ UnmuteReads(u) \/ UnmuteLists(u) \/ UnmuteFrees(u) \/ UnmuteClears(u)
         \/ UnmuteDies(u)
    \/ \E c \in AllChats :
         \/ UserJoins(c) \/ UserLeaves(c) \/ JoinReads(c) \/ JoinEnforces(c) \/ JoinDies(c)
    \/ \E g \in Groups :
         \/ ConnectStarts(g) \/ ConnectReads(g) \/ ConnectAdds(g) \/ ConnectReplays(g)
         \/ ConnectDies(g) \/ Disconnects(g)

MuteSpec == MuteInit /\ [][MuteNext]_muteVars

-----------------------------------------------------------------------------
(* Properties. *)

(* A chat is never restricted without a row that /tcunmute finds, whatever *)
(* fails on the way: a chat is excused when an unmute could not free it,   *)
(* when the rollback of a re-mute deleted the earlier mute's row, when a   *)
(* timed re-mute ran out and the chat, which it missed or had yet to       *)
(* reach, still had the earlier restriction, when Telegram took the        *)
(* deadline for none, and all are when the row was changed under another   *)
(* handler.                                                                *)
RecordBacksMutes ==
    Found = "none" /\ ~raced => QuietChats \subseteq stuck \cup outlived

(* When nobody is at it, a user with an active row is restricted, until    *)
(* the time the row says, in every chat of the federation the user is in:  *)
(* chats that were out at the mute, or the user was out of, catch up.      *)
MutedEverywhere ==
    Found # "none" /\ ~raced /\ MutesActing = {} /\ UnmutesActing = {} =>
        \A c \in AllChats \ outlived : Reached(c) => quiet[c] = Found
=============================================================================
