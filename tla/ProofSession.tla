---------------------------- MODULE ProofSession ----------------------------
(***************************************************************************)
(* The ban conversation of one moderator in one chat: the entry point of   *)
(* tcbot/modules/banning.py and the proof-collection handlers of           *)
(* tcbot/modules/helper/workflows/ban_flow.py.                             *)
(*                                                                         *)
(* The application runs with concurrent_updates(True), so the handlers of  *)
(* one conversation are tasks that interleave at their awaits, and PTB     *)
(* stores a handler's return value as the conversation state only when the *)
(* handler has returned.  Every handler is therefore split at each await   *)
(* after which it reads or writes shared state, and the code between two   *)
(* awaits is one action.  Of _execute_ban only the fate of the record is    *)
(* kept here; the module FedBan opens it.                                  *)
(***************************************************************************)
EXTENDS Naturals

CONSTANTS
    MaxAttempts,    \* bound: the /tcban commands the moderator sends
    MaxSessions     \* bound: the _ProofSession objects created

ASSUME BoundsAssumption == MaxAttempts \in Nat /\ MaxSessions \in Nat

\* Numbered in the order of dispatch and of creation.
Attempts == 1..MaxAttempts
Sessions == 1..MaxSessions
NoAttempt == 0
NoSession == 0

VARIABLES
    conv,       \* PTB's state of this conversation: "none", "confirm" or "proof"
    entry,      \* cmd_ban_start of each attempt
    userData,   \* the attempt whose ban_* keys are in user_data
    current,    \* _proof_sessions[key]
    session,    \* the _ProofSession objects
    flush,      \* the _flush_session task of each session
    done,       \* the Done tap that claimed each session
    ban,        \* how far _execute_ban got, for each runner of it
    other       \* one more handler in flight (bound: one besides entries and Done taps)

vars == <<conv, entry, userData, current, session, flush, done, ban, other>>

\* _execute_ban is awaited by the flush task of a session or by its Done tap.
Runners == {"flush", "done"} \X Sessions

TypeOK ==
    /\ conv \in {"none", "confirm", "proof"}
    /\ entry \in [Attempts -> {"unsent", "resolving", "looking", "returned"}]
    /\ userData \in Attempts \cup {NoAttempt}
    /\ current \in Sessions \cup {NoSession}
    /\ session \in [Sessions -> [made : BOOLEAN, meta : Attempts \cup {NoAttempt},
                                 window : {"quiet", "recent", "capped"},
                                 flushing : BOOLEAN, cancelled : BOOLEAN]]
    /\ flush \in [Sessions ->
            [pc : {"none", "sleeping", "executing", "cancelled", "ended"},
             held : Sessions \cup {NoSession}]]
    /\ done \in [Sessions -> {"none", "answering", "executing", "ended"}]
    /\ ban \in [Runners -> {"none", "running", "written", "failed"}]
    /\ current # NoSession => session[current].made /\ flush[current].pc # "none"
    /\ other \in {"none", "cancel", "cancelled", "continue", "demoting", "nudge"}

Unmade == [made |-> FALSE, meta |-> NoAttempt, window |-> "quiet",
           flushing |-> FALSE, cancelled |-> FALSE]

Init ==
    /\ conv = "none"
    /\ entry = [a \in Attempts |-> "unsent"]
    /\ userData = NoAttempt
    /\ current = NoSession
    /\ session = [s \in Sessions |-> Unmade]
    /\ flush = [s \in Sessions |-> [pc |-> "none", held |-> NoSession]]
    /\ done = [s \in Sessions |-> "none"]
    /\ ban = [r \in Runners |-> "none"]
    /\ other = "none"

-----------------------------------------------------------------------------
(* cmd_ban_start.  PTB consults the entry point only without a state; a    *)
(* second /tcban may be dispatched before the first returned.              *)

EntryDispatch(a) ==
    /\ entry[a] = "unsent"
    /\ \A b \in Attempts : b < a => entry[b] # "unsent"
    /\ conv = "none"
    /\ entry' = [entry EXCEPT ![a] = "resolving"]
    /\ UNCHANGED <<conv, userData, current, session, flush, done, ban, other>>

(* No target, no reason, a refused target: END, before any key is written. *)
EntryRejects(a) ==
    /\ entry[a] = "resolving"
    /\ entry' = [entry EXCEPT ![a] = "returned"]
    /\ conv' = "none"
    /\ UNCHANGED <<userData, current, session, flush, done, ban, other>>

EntryStoresKeys(a) ==
    /\ entry[a] = "resolving"
    /\ entry' = [entry EXCEPT ![a] = "looking"]
    /\ userData' = a
    /\ UNCHANGED <<conv, current, session, flush, done, ban, other>>

(* get_active_ban, then the confirmation card (an active ban exists) or    *)
(* the auto-demotion and the proof prompt.  A failed prompt pops the keys, *)
(* a failed demotion leaves them.                                          *)
EntryReturns(a) ==
    /\ entry[a] = "looking"
    /\ entry' = [entry EXCEPT ![a] = "returned"]
    /\ \/ conv' \in {"confirm", "proof"} /\ UNCHANGED userData
       \/ conv' = "none" /\ userData' \in {userData, NoAttempt}
    /\ UNCHANGED <<current, session, flush, done, ban, other>>

(* on_ban_update_continue: answer, read the keys, demote, edit the prompt. *)
ContinueTapped ==
    /\ conv = "confirm" /\ other = "none"
    /\ other' = "continue"
    /\ UNCHANGED <<conv, entry, userData, current, session, flush, done, ban>>

ContinueReads ==
    /\ other = "continue"
    /\ \/ userData = NoAttempt /\ other' = "none" /\ conv' = "none"
       \/ userData # NoAttempt /\ other' = "demoting" /\ UNCHANGED conv
    /\ UNCHANGED <<entry, userData, current, session, flush, done, ban>>

ContinueReturns ==
    /\ other = "demoting"
    /\ other' = "none"
    /\ \/ conv' = "proof" /\ UNCHANGED userData
       \/ conv' = "none" /\ userData' \in {userData, NoAttempt}
    /\ UNCHANGED <<entry, current, session, flush, done, ban>>

-----------------------------------------------------------------------------
(* on_proof_received has no await: it is one action in each of its cases.  *)

\* Past the deadline an arrival no longer moves the window.
Arrival(window) == IF window = "capped" THEN window ELSE "recent"

LateProofAppended ==
    /\ conv = "proof"
    /\ current # NoSession /\ session[current].flushing
    /\ session' = [session EXCEPT ![current].window = Arrival(@)]
    /\ UNCHANGED <<conv, entry, userData, current, flush, done, ban, other>>

(* A flush claimed the session: the media is dropped and the conversation  *)
(* ends.                                                                   *)
LateProofDropped ==
    /\ conv = "proof"
    /\ current # NoSession /\ session[current].flushing
    /\ conv' = "none"
    /\ UNCHANGED <<entry, userData, current, session, flush, done, ban, other>>

FirstProof(s) ==
    /\ conv = "proof"
    /\ current = NoSession
    /\ ~session[s].made
    /\ \A t \in Sessions : t < s => session[t].made
    /\ session' = [session EXCEPT ![s] = [Unmade EXCEPT !.made = TRUE, !.meta = userData]]
    /\ current' = s
    /\ flush' = [flush EXCEPT ![s].pc = "sleeping"]
    /\ UNCHANGED <<conv, entry, userData, done, ban, other>>

NextProof ==
    /\ conv = "proof"
    /\ current # NoSession /\ ~session[current].flushing
    /\ session' = [session EXCEPT ![current].window = Arrival(@)]
    /\ UNCHANGED <<conv, entry, userData, current, flush, done, ban, other>>

-----------------------------------------------------------------------------
(* Leaving the table.  The key is popped and user_data cleared only while  *)
(* the table still holds the same session object.                          *)

ReleaseWhateverIsThere(s) ==
    current' = NoSession /\ userData' = NoAttempt

ReleaseKeepsKeys(s) ==
    /\ current' = IF current = s THEN NoSession ELSE current
    /\ UNCHANGED userData

Release(s) ==
    IF current = s
    THEN current' = NoSession /\ userData' = NoAttempt
    ELSE UNCHANGED <<current, userData>>

\* task.cancel(): the CancelledError is raised when the loop next runs the task.
CancelledTask(task) ==
    IF task.pc \in {"sleeping", "executing"} THEN [task EXCEPT !.pc = "cancelled"] ELSE task

CancelLeavesTable ==
    /\ userData' = NoAttempt
    /\ UNCHANGED current
    /\ IF current = NoSession
       THEN UNCHANGED <<session, flush>>
       ELSE /\ session' = [session EXCEPT ![current].cancelled = TRUE]
            /\ flush' = [flush EXCEPT ![current] = CancelledTask(@)]

(* _cancel_proof_session. *)
CancelSession ==
    /\ userData' = NoAttempt
    /\ current' = NoSession
    /\ IF current = NoSession
       THEN UNCHANGED <<session, flush>>
       ELSE /\ session' = [session EXCEPT ![current].cancelled = TRUE]
            /\ flush' = [flush EXCEPT ![current] = CancelledTask(@)]

\* Claimed for execution; nobody reads the times of its arrivals any more.
Claimed(sess) == [sess EXCEPT !.flushing = TRUE, !.window = "quiet"]

-----------------------------------------------------------------------------
(* on_done_proof. *)

(* The claim: no await between the test of `flushing` and its assignment.  *)
ClaimByDone(s) ==
    /\ conv = "proof"
    /\ current = s
    /\ ~session[s].flushing
    /\ session' = [session EXCEPT ![s] = Claimed(@)]
    /\ flush' = [flush EXCEPT ![s] = CancelledTask(@)]
    /\ done' = [done EXCEPT ![s] = "answering"]
    /\ UNCHANGED <<conv, entry, userData, current, ban, other>>

(* Metadata without a target: the key is popped whoever holds it by now.   *)
DoneAborts(s) ==
    /\ done[s] = "answering"
    /\ session[s].meta = NoAttempt
    /\ done' = [done EXCEPT ![s] = "ended"]
    /\ current' = NoSession
    /\ userData' = NoAttempt
    /\ conv' = "none"
    /\ UNCHANGED <<entry, session, flush, ban, other>>

DoneExecutes(s) ==
    /\ done[s] = "answering"
    /\ session[s].meta # NoAttempt
    /\ done' = [done EXCEPT ![s] = "executing"]
    /\ ban' = [ban EXCEPT ![<<"done", s>>] = "running"]
    /\ UNCHANGED <<conv, entry, userData, current, session, flush, other>>

DoneReturns(s) ==
    /\ done[s] = "executing"
    /\ ban[<<"done", s>>] # "running"
    /\ done' = [done EXCEPT ![s] = "ended"]
    /\ Release(s)
    /\ conv' = "none"
    /\ UNCHANGED <<entry, session, flush, ban, other>>

(* A Done tap with nothing to flush, or any other message: a notice, then  *)
(* WAITING_PROOF, whatever happened to the conversation in between.        *)
Nudge ==
    /\ conv = "proof" /\ other = "none"
    /\ other' = "nudge"
    /\ UNCHANGED <<conv, entry, userData, current, session, flush, done, ban>>

NudgeReturns ==
    /\ other = "nudge"
    /\ other' = "none"
    /\ conv' = "proof"
    /\ UNCHANGED <<entry, userData, current, session, flush, done, ban>>

-----------------------------------------------------------------------------
(* _flush_session.  `held` is its local variable `session`: unset during   *)
(* the first sleep, and whatever the table held at the last wake after it. *)

\* A task that ended without executing anything; what it held no longer matters.
Finished == [pc |-> "ended", held |-> NoSession]

WakeToNothing(s) ==
    /\ flush[s].pc = "sleeping"
    /\ current # NoSession => session[current].flushing \/ session[current].cancelled
    /\ flush' = [flush EXCEPT ![s] = Finished]
    /\ IF current = NoSession THEN UNCHANGED <<current, userData>> ELSE Release(current)
    /\ UNCHANGED <<conv, entry, session, done, ban, other>>

WakeIgnoresCap(s) ==
    /\ flush[s].pc = "sleeping"
    /\ current # NoSession
    /\ ~session[current].flushing /\ ~session[current].cancelled
    /\ session[current].window # "quiet"
    /\ flush' = [flush EXCEPT ![s].held = current]
    /\ session' = [session EXCEPT ![current].window = "quiet"]
    /\ UNCHANGED <<conv, entry, userData, current, done, ban, other>>

(* Media arrived during the sleep: the silence window slides, short of the *)
(* deadline.                                                               *)
WakeAndSlide(s) ==
    /\ flush[s].pc = "sleeping"
    /\ current # NoSession
    /\ ~session[current].flushing /\ ~session[current].cancelled
    /\ session[current].window = "recent"
    /\ flush' = [flush EXCEPT ![s].held = current]
    /\ session' = [session EXCEPT ![current].window = "quiet"]
    /\ UNCHANGED <<conv, entry, userData, current, done, ban, other>>

(* Silence, or the deadline: claim.  A sleep that overshoots may find      *)
(* silence although media arrived at its start.                            *)
WakeAndClaim(s) ==
    /\ flush[s].pc = "sleeping"
    /\ current # NoSession
    /\ ~session[current].flushing /\ ~session[current].cancelled
    /\ session' = [session EXCEPT ![current] = Claimed(@)]
    /\ \/ /\ session[current].meta # NoAttempt
          /\ flush' = [flush EXCEPT ![s] = [pc |-> "executing", held |-> current]]
          /\ ban' = [ban EXCEPT ![<<"flush", s>>] = "running"]
          /\ UNCHANGED <<current, userData>>
       \/ /\ session[current].meta = NoAttempt
          /\ flush' = [flush EXCEPT ![s] = Finished]
          /\ Release(current)
          /\ UNCHANGED ban
    /\ UNCHANGED <<conv, entry, done, other>>

FlushReturns(s) ==
    /\ flush[s].pc = "executing"
    /\ ban[<<"flush", s>>] # "running"
    /\ flush' = [flush EXCEPT ![s].pc = "ended"]
    /\ Release(flush[s].held)
    /\ UNCHANGED <<conv, entry, session, done, ban, other>>

(* The CancelledError arrives, in a sleep or inside _execute_ban. *)
FlushUnwinds(s) ==
    /\ flush[s].pc = "cancelled"
    /\ flush' = [flush EXCEPT ![s] =
                   IF ban[<<"flush", s>>] = "none" THEN Finished ELSE [@ EXCEPT !.pc = "ended"]]
    /\ ban' = [ban EXCEPT ![<<"flush", s>>] =
                 IF @ = "running" THEN "failed" ELSE @]
    /\ IF flush[s].held = NoSession
       THEN UNCHANGED <<current, userData>>
       ELSE Release(flush[s].held)
    /\ UNCHANGED <<conv, entry, session, done, other>>

(* _PROOF_COLLECT_MAX_S after the first media. *)
Overdue(s) ==
    /\ current = s /\ ~session[s].flushing
    /\ session[s].window # "capped"
    /\ session' = [session EXCEPT ![s].window = "capped"]
    /\ UNCHANGED <<conv, entry, userData, current, flush, done, ban, other>>

-----------------------------------------------------------------------------
(* _execute_ban, run by r, up to the record: written, or failed (which     *)
(* fails closed).  A cancelled flush task makes no more progress.          *)

Alive(r) == r[1] = "done" \/ flush[r[2]].pc = "executing"

BanProgress(r) ==
    /\ Alive(r)
    /\ ban[r] = "running"
    /\ \E to \in {"written", "failed"} : ban' = [ban EXCEPT ![r] = to]
    /\ UNCHANGED <<conv, entry, userData, current, session, flush, done, other>>

-----------------------------------------------------------------------------
(* on_cancel_proof: answer the tap, cancel, edit the prompt. *)

CancelTapped ==
    /\ conv # "none" /\ other = "none"
    /\ other' = "cancel"
    /\ UNCHANGED <<conv, entry, userData, current, session, flush, done, ban>>

CancelActs ==
    /\ other = "cancel"
    /\ other' = "cancelled"
    /\ CancelSession
    /\ UNCHANGED <<conv, entry, done, ban>>

CancelReturns ==
    /\ other = "cancelled"
    /\ other' = "none"
    /\ conv' = "none"
    /\ UNCHANGED <<entry, userData, current, session, flush, done, ban>>

(* on_proof_timeout, the fallback any command of the moderator triggers.   *)
TimeoutActs ==
    /\ conv # "none" /\ other = "none"
    /\ other' = "cancelled"
    /\ CancelSession
    /\ UNCHANGED <<conv, entry, done, ban>>

-----------------------------------------------------------------------------
EntryStep(a) == EntryDispatch(a) \/ EntryRejects(a) \/ EntryStoresKeys(a) \/ EntryReturns(a)

DoneStep(s) == DoneAborts(s) \/ DoneExecutes(s) \/ DoneReturns(s)

FlushStep(s) ==
    WakeToNothing(s) \/ WakeAndSlide(s) \/ WakeAndClaim(s) \/ FlushReturns(s) \/ FlushUnwinds(s)

Next ==
    \/ \E a \in Attempts : EntryStep(a)
    \/ ContinueTapped \/ ContinueReads \/ ContinueReturns
    \/ \E s \in Sessions :
          FirstProof(s) \/ ClaimByDone(s) \/ DoneStep(s) \/ FlushStep(s) \/ Overdue(s)
    \/ NextProof \/ LateProofDropped
    \/ Nudge \/ NudgeReturns
    \/ \E r \in Runners : BanProgress(r)
    \/ CancelTapped \/ CancelActs \/ CancelReturns
    \/ TimeoutActs

(* The loop runs a flush task whose sleep is over, and the clock advances; *)
(* what the moderator sends or taps is under no obligation.                *)
Fairness ==
    \A s \in Sessions : WF_vars(FlushStep(s)) /\ WF_vars(Overdue(s))

Safety == Init /\ [][Next]_vars

Spec == Safety /\ Fairness

-----------------------------------------------------------------------------
RunnerSession(r) == IF r[1] = "done" THEN r[2] ELSE flush[r[2]].held

Banned(r) == session[RunnerSession(r)].meta

(* One /tcban is executed at most once, whichever of the Done tap, the     *)
(* silence window, the hard cap and later media race for its session, and  *)
(* however many sessions the conversation goes through.                    *)
OneExecutionPerAttempt ==
    \A q, r \in Runners :
        ban[q] # "none" /\ ban[r] # "none" /\ Banned(q) = Banned(r) => q = r

\* A Done tap on a session without metadata went through its abort branch.
DoneAborted == \E s \in Sessions : done[s] = "ended" /\ session[s].meta = NoAttempt

(* A session that holds a ban's metadata is on the table, claimed or       *)
(* cancelled: no cleanup drops a successor's session (the same-object      *)
(* guards of ban_flow.py:787-790 and :837-840).  The abort branch of       *)
(* on_done_proof has no such guard and is excepted.                        *)
NoSessionLost ==
    ~DoneAborted => \A s \in Sessions :
        session[s].made /\ session[s].meta # NoAttempt =>
            current = s \/ session[s].flushing \/ session[s].cancelled

(* Once claimed, a session's proof does not change under the upload.       *)
ClaimedProofIsFrozen ==
    [][\A s \in Sessions :
          session[s].flushing => session'[s].window = session[s].window]_vars

(* A session cancelled before anybody claimed it is never executed.        *)
CancelledIsNeverClaimed ==
    [][\A s \in Sessions :
          session[s].cancelled /\ ~session[s].flushing => ~session'[s].flushing]_vars

(* Collection ends: media that keeps arriving delays the flush only up to  *)
(* the 60 second cap (ban_flow.py:81-84).                                  *)
CollectionEnds ==
    \A s \in Sessions : flush[s].pc = "sleeping" ~> flush[s].pc # "sleeping"
=============================================================================
