------------------------------ MODULE ModAction ------------------------------
(***************************************************************************)
(* The reason and proof conversation of one action (mute, kick or warn),   *)
(* as one moderator leads it in several chats: workflows/reason_flow.py    *)
(* with its entries in muting.py, kicking.py and warnings.py.              *)
(*                                                                         *)
(* The state of the conversation is kept per chat, and stored when the     *)
(* callback returns; what was entered is kept in user_data, once for all   *)
(* chats.  Callbacks run concurrently: each is a step up to its first      *)
(* await, and goes on from there in steps of its own.                      *)
(***************************************************************************)
EXTENDS Integers, FiniteSets

CONSTANTS
    Chats,      \* where the moderator gives commands
    Tasks,      \* bound: callbacks at a time
    MaxEntries  \* bound: commands that open a conversation

ASSUME ModActionAssumption == MaxEntries \in Nat /\ "none" \notin Chats

Entries == 1..MaxEntries
NoEntry == 0

VARIABLES
    conv,       \* the stored state of the conversation in each chat
    data,       \* the entry whose keys are in user_data
    executing,  \* the {action}_executing key
    items,      \* the entries the proof in {action}_proof_msgs was sent for:
                \*   NoEntry when it came with no entry in user_data
    entered,    \* entries so far, each with its chat
    task,
    ran,        \* the entry the executor was last given, with its proof (empty before)
    cancelled,  \* history: entries that a Cancel, or a command, took away
    mixed       \* history: conversations overlapped, or the first steps of one
                \*   with other callbacks of its chat, or an executor raised

keys == <<data, executing, items>>
vars == <<conv, keys, entered, task, ran, cancelled, mixed>>

Idle == [pc |-> "idle", chat |-> "none"]

TypeOK ==
    /\ conv \in [Chats -> {"end", "reason", "proof"}]
    /\ data \in Entries \cup {NoEntry}
    /\ executing \in BOOLEAN /\ items \subseteq Entries \cup {NoEntry}
    /\ \E n \in 0..MaxEntries : entered \in [1..n -> Chats]
    /\ task \in [Tasks ->
         [pc : {"idle", "prompt", "noted", "done", "confirm", "execute", "return", "tell"},
          chat : Chats \cup {"none"}]]
    /\ ran \subseteq [entry : DOMAIN entered, proof : SUBSET (Entries \cup {NoEntry})]
    /\ cancelled \subseteq DOMAIN entered
    /\ mixed \in BOOLEAN

Init ==
    /\ conv = [c \in Chats |-> "end"]
    /\ data = NoEntry /\ executing = FALSE /\ items = {}
    /\ entered = <<>>
    /\ task = [t \in Tasks |-> Idle]
    /\ ran = {} /\ cancelled = {} /\ mixed = FALSE

-----------------------------------------------------------------------------
(* Callbacks. *)

Busy(c) == {t \in Tasks : task[t].chat = c}

\* Chats with a conversation, or with a callback that has not returned.
Open == {c \in Chats : conv[c] # "end" \/ Busy(c) # {}}

\* A callback in chat c takes its first step; opening says that it may leave the
\* conversation open.  Skip, proof, Cancel and the executor may overlap.
Mixes(c, opening) ==
    \/ Open \ {c} # {}
    \/ opening /\ Busy(c) # {}
    \/ \E t \in Busy(c) : task[t].pc \in {"prompt", "noted", "done"}

\* Nothing is open and no entry's proof is left of what was.
Clean == Open = {} /\ items \subseteq {NoEntry}

Starts(t, c, pc) ==
    /\ task[t] = Idle
    /\ task' = [task EXCEPT ![t] = [pc |-> pc, chat |-> c]]
    /\ mixed' = ((mixed /\ ~Clean) \/ Mixes(c, pc \in {"prompt", "noted", "done"}))

Goes(t, pc) == task' = [task EXCEPT ![t].pc = pc]

\* The callback returns, and its state is stored.
Returns(t, next) ==
    /\ conv' = [conv EXCEPT ![task[t].chat] = next]
    /\ task' = [task EXCEPT ![t] = Idle]

\* _clear_user_data
Clear == data' = NoEntry /\ executing' = FALSE /\ items' = {}

-----------------------------------------------------------------------------
(* The entry: the checks before it are the first step, refused or passed.  *)

Enters(t, c) ==
    /\ conv[c] = "end"
    /\ Cardinality(DOMAIN entered) < MaxEntries
    /\ LET e == Cardinality(DOMAIN entered) + 1 IN
       /\ entered' = [i \in 1..e |-> IF i = e THEN c ELSE entered[i]]
       /\ data' = e
       /\ Starts(t, c, "prompt")
    /\ UNCHANGED <<conv, executing, items, ran, cancelled>>

\* The prompt is sent, for the reason or (it was given inline) for the proof.
\* When that fails the entry's own keys are removed.
Prompts(t) ==
    /\ task[t].pc = "prompt"
    /\ \/ \E next \in {"reason", "proof"} : Returns(t, next) /\ UNCHANGED data
       \/ Returns(t, "end") /\ data' = NoEntry
    /\ UNCHANGED <<executing, items, entered, ran, cancelled, mixed>>

-----------------------------------------------------------------------------
(* WAITING_REASON: the text, or Skip.  The prompt is edited; when that     *)
(* fails there is nothing to tap, and the conversation ends.               *)

Reason(t, c) ==
    /\ conv[c] = "reason"
    /\ Starts(t, c, "noted")
    /\ UNCHANGED <<conv, keys, entered, ran, cancelled>>

\* Instead: the conversation goes on whether or not the prompt was shown.
NotedRegardless(t) ==
    /\ task[t].pc = "noted"
    /\ Returns(t, "proof")
    /\ \/ UNCHANGED keys
       \/ Clear
    /\ UNCHANGED <<entered, ran, cancelled, mixed>>

Noted(t) ==
    /\ task[t].pc = "noted"
    /\ \/ Returns(t, "proof") /\ UNCHANGED keys
       \/ Returns(t, "end") /\ Clear
    /\ UNCHANGED <<entered, ran, cancelled, mixed>>

-----------------------------------------------------------------------------
(* WAITING_PROOF *)

\* _on_proof, one step: a proof item is kept, unless the executor runs.  It
\* does not ask for a target: a Cancel that has cleared the keys and has not
\* returned yet leaves the state that takes it.
Proof(c) ==
    /\ conv[c] = "proof"
    /\ IF executing THEN conv' = [conv EXCEPT ![c] = "end"] /\ UNCHANGED items
       ELSE items' = items \cup {data} /\ UNCHANGED conv
    /\ mixed' = (mixed \/ Mixes(c, FALSE))
    /\ UNCHANGED <<data, executing, entered, task, ran, cancelled>>

\* Done asks for the locale first; with nothing collected it changes nothing.
Done(t, c) ==
    /\ conv[c] = "proof"
    /\ Starts(t, c, "done")
    /\ UNCHANGED <<conv, keys, entered, ran, cancelled>>

Confirms(t) ==
    /\ task[t].pc = "done"
    /\ IF items = {} THEN Returns(t, "proof") /\ UNCHANGED executing
       ELSE /\ executing' = TRUE
            /\ Goes(t, IF executing THEN "return" ELSE "confirm")
            /\ UNCHANGED conv
    /\ UNCHANGED <<data, items, entered, ran, cancelled, mixed>>

\* A Skip or Done after the first returns at once.
SkipProof(t, c) ==
    /\ conv[c] = "proof"
    /\ executing' = TRUE
    /\ Starts(t, c, IF executing THEN "return" ELSE "confirm")
    /\ UNCHANGED <<conv, data, items, entered, ran, cancelled>>

\* The executor takes what is in user_data: _exec_mute pops every key of the
\* action, _exec_kick and _exec_warn leave the flag.  Without a target it ends.
Executes(t) ==
    /\ task[t].pc = "confirm"
    /\ data' = NoEntry /\ items' = {}
    /\ executing' \in {executing, FALSE}
    /\ ran' = IF data = NoEntry THEN ran ELSE {[entry |-> data, proof |-> items]}
    /\ Goes(t, "execute")
    /\ UNCHANGED <<conv, entered, cancelled, mixed>>

\* However it ends, all the keys go; when it raises, no state is stored.
Executed(t) ==
    /\ task[t].pc = "execute"
    /\ Clear
    /\ \/ Returns(t, "end") /\ UNCHANGED mixed
       \/ /\ task' = [task EXCEPT ![t] = Idle]
          /\ mixed' = TRUE
          /\ UNCHANGED conv
    /\ UNCHANGED <<entered, ran, cancelled>>

-----------------------------------------------------------------------------
(* Cancel, and any other command, in any state. *)

\* Instead: Cancel is answered with the keys still there.
CancelTellsFirst(t, c) ==
    /\ conv[c] # "end"
    /\ cancelled' = IF data = NoEntry THEN cancelled ELSE cancelled \cup {data}
    /\ Starts(t, c, "tell")
    /\ UNCHANGED <<conv, keys, entered, ran>>

\* Instead: what was collected is kept.
CancelKeepsProof(t, c) ==
    /\ conv[c] # "end"
    /\ data' = NoEntry /\ executing' = FALSE /\ UNCHANGED items
    /\ cancelled' = IF data = NoEntry THEN cancelled ELSE cancelled \cup {data}
    /\ Starts(t, c, "tell")
    /\ UNCHANGED <<conv, entered, ran>>

\* _on_cancel and _on_end_conv clear the keys first and answer afterwards.
Cancel(t, c) ==
    /\ conv[c] # "end"
    /\ Clear
    /\ cancelled' = IF data = NoEntry THEN cancelled ELSE cancelled \cup {data}
    /\ Starts(t, c, "tell")
    /\ UNCHANGED <<conv, entered, ran>>

Told(t) ==
    /\ task[t].pc \in {"tell", "return"}
    /\ Returns(t, "end")
    /\ UNCHANGED <<keys, entered, ran, cancelled, mixed>>

\* A restart: user_data and the conversations are in memory.
Restart ==
    /\ conv' = [c \in Chats |-> "end"]
    /\ Clear
    /\ task' = [t \in Tasks |-> Idle]
    /\ UNCHANGED <<entered, ran, cancelled, mixed>>

Next ==
    \/ \E t \in Tasks :
         \/ \E c \in Chats : \/ Enters(t, c) \/ Reason(t, c)
                             \/ Done(t, c) \/ SkipProof(t, c) \/ Cancel(t, c)
         \/ Prompts(t) \/ Noted(t) \/ Confirms(t) \/ Executes(t)
         \/ Executed(t) \/ Told(t)
    \/ \E c \in Chats : Proof(c)
    \/ Restart

Spec == Init /\ [][Next]_vars

-----------------------------------------------------------------------------
(* Properties. *)

(* What was cancelled before the executor had taken it is never executed:  *)
(* a Cancel that races a Done or a Skip either comes after it or holds.    *)
CancelHolds ==
    [][\A r \in ran' \ ran : r.entry \notin cancelled]_vars

(* The executor is given no proof that was sent for another entry: what a  *)
(* Cancel, a failed prompt or an earlier run left behind is gone, unless   *)
(* two were open at once.  What nobody's entry was there for may be in it: *)
(* a photo that came between a Cancel's clearing and its return is stored, *)
(* no command removes it, and the next executor takes it for its own.      *)
ProofIsItsOwn ==
    [][\A r \in ran' \ ran :
          ~mixed => r.proof \subseteq {r.entry, NoEntry}]_vars

(* A chat that waits for a reason or for proof has its entry in user_data, *)
(* unless its callbacks overlapped, a conversation in another chat did, or *)
(* its executor raised.                                                    *)
ConversationHasItsData ==
    \A c \in Chats :
        conv[c] # "end" /\ Busy(c) = {} /\ ~mixed =>
            data # NoEntry /\ entered[data] = c
=============================================================================
