------------------------- MODULE ProofSessionProofs -------------------------
(***************************************************************************)
(* Safety of the ban conversation for any number of commands and any       *)
(* number of proof sessions, of which several may be alive at a time.      *)
(***************************************************************************)
EXTENDS ProofSession, TLAPS

(* A session object that was not created yet has left no trace.            *)
Fresh ==
    \A s \in Sessions : ~session[s].made =>
        /\ session[s] = Unmade
        /\ flush[s] = [pc |-> "none", held |-> NoSession]
        /\ done[s] = "none"
        /\ \A t \in Sessions : flush[t].held # s

(* Whose turn _execute_ban is.  A cancelled task belongs to a session that *)
(* somebody claimed or cancelled.                                          *)
PhaseOf(s) ==
    /\ done[s] # "none" => session[s].flushing
    /\ done[s] \in {"none", "answering"} => ban[<<"done", s>>] = "none"
    /\ done[s] = "executing" => ban[<<"done", s>>] # "none"
    /\ flush[s].pc \in {"none", "sleeping"} => ban[<<"flush", s>>] = "none"
    /\ flush[s].pc = "executing" => ban[<<"flush", s>>] # "none"
    /\ flush[s].pc = "cancelled" => session[s].flushing \/ session[s].cancelled

Phases == \A s \in Sessions : PhaseOf(s)

(* Whoever executes a session has claimed it, and has claimed it alone.    *)
Claims ==
    /\ \A s \in Sessions : ban[<<"done", s>>] # "none" => session[s].meta # NoAttempt
    /\ \A s \in Sessions : ban[<<"flush", s>>] # "none" =>
          /\ flush[s].held \in Sessions
          /\ session[flush[s].held].flushing
          /\ session[flush[s].held].meta # NoAttempt
          /\ done[flush[s].held] = "none"
    /\ \A s, t \in Sessions :
          ban[<<"flush", s>>] # "none" /\ ban[<<"flush", t>>] # "none"
              /\ flush[s].held = flush[t].held => s = t

(* A command's keys go to one session: they are gone from user_data when   *)
(* that session leaves the table, and no command stores them twice.        *)
Keys ==
    /\ userData # NoAttempt => entry[userData] \in {"looking", "returned"}
    /\ \A s \in Sessions : session[s].meta # NoAttempt =>
          /\ entry[session[s].meta] \in {"looking", "returned"}
          /\ session[s].meta = userData => current = s
    /\ \A s, t \in Sessions :
          session[s].meta # NoAttempt /\ session[s].meta = session[t].meta => s = t

\* What is cancelled is not on the table any more.
Tabled == current # NoSession => ~session[current].cancelled

(* As long as no Done tap aborted, a flush task sleeps for the session on  *)
(* the table, its own, and nothing else.                                   *)
Kept ==
    ~DoneAborted =>
        /\ NoSessionLost
        /\ \A s \in Sessions :
              /\ flush[s].pc = "sleeping" => current = s /\ ~session[s].flushing
              /\ flush[s].held \in {s, NoSession}

IInv == TypeOK /\ Fresh /\ Phases /\ Claims /\ Keys /\ Tabled /\ Kept

-----------------------------------------------------------------------------
SessionRecords ==
    [made : BOOLEAN, meta : Attempts \cup {NoAttempt}, window : {"quiet", "recent", "capped"},
     flushing : BOOLEAN, cancelled : BOOLEAN]

FlushRecords ==
    [pc : {"none", "sleeping", "executing", "cancelled", "ended"},
     held : Sessions \cup {NoSession}]

LEMMA Names ==
    /\ NoSession \notin Sessions /\ NoAttempt \notin Attempts
    /\ NoSession = 0 /\ NoAttempt = 0
    /\ \A s \in Sessions : <<"done", s>> \in Runners /\ <<"flush", s>> \in Runners
    /\ Unmade \in SessionRecords
  BY BoundsAssumption DEF Sessions, Attempts, NoSession, NoAttempt, Runners, Unmade, SessionRecords

(* Whoever executes a session is named by its kind and its number.         *)
LEMMA RunnerNames ==
  ASSUME NEW r \in Runners
  PROVE  \E s \in Sessions : r = <<"done", s>> \/ r = <<"flush", s>>
  BY DEF Runners

(* What an action must keep for the commands' keys to stay with one        *)
(* session each: the metadata, and the table as long as there are keys.    *)
LEMMA KeysKept ==
  ASSUME IInv, userData' \in {userData, NoAttempt},
         \A a \in Attempts : entry[a] \in {"looking", "returned"} =>
             entry'[a] \in {"looking", "returned"},
         \A s \in Sessions : session'[s].meta = session[s].meta,
         userData' # NoAttempt => current' = current
  PROVE  Keys'
<1>1. userData \in Attempts \cup {NoAttempt}
      /\ \A s \in Sessions : session[s].meta \in Attempts \cup {NoAttempt}
  BY DEF IInv, TypeOK
<1> QED
  BY <1>1 DEF IInv, Keys

LEMMA Releases ==
  ASSUME NEW s, Release(s)
  PROVE  /\ userData' \in {userData, NoAttempt}
         /\ userData' # NoAttempt => current' = current
         /\ current' \in {current, NoSession}
         /\ current' # current => current = s
  BY DEF Release

(* An abort is not undone.                                                 *)
LEMMA AbortStays ==
  ASSUME \A s \in Sessions : done[s] = "ended" =>
             done'[s] = "ended" /\ session'[s].meta = session[s].meta,
         ~DoneAborted'
  PROVE  ~DoneAborted
  BY DEF DoneAborted

-----------------------------------------------------------------------------
LEMMA Initially == Init => IInv
<1> SUFFICES ASSUME Init PROVE IInv
  OBVIOUS
<1>1. TypeOK
  BY Names DEF Init, TypeOK, Unmade
<1>2. \A s \in Sessions : /\ session[s] = Unmade
                          /\ flush[s] = [pc |-> "none", held |-> NoSession]
                          /\ done[s] = "none"
                          /\ ban[<<"done", s>>] = "none" /\ ban[<<"flush", s>>] = "none"
  BY Names DEF Init
<1>3. Unmade.meta = NoAttempt /\ ~Unmade.made /\ ~Unmade.flushing
  BY DEF Unmade
<1>9. \A s \in Sessions : flush[s].pc = "none" /\ flush[s].held = NoSession
  BY DEF Init
<1>10. \A s \in Sessions : s # NoSession
  BY Names
<1>4. Fresh
  BY <1>2, <1>9, <1>10 DEF Fresh
<1>7. Phases
  BY <1>2, <1>9 DEF Phases, PhaseOf
<1>8. Claims
  BY <1>2 DEF Claims
<1>5. Keys /\ Tabled
  BY <1>2, <1>3 DEF Init, Keys, Tabled
<1>6. Kept
  BY <1>2, <1>3 DEF Init, Kept, NoSessionLost
<1> QED
  BY <1>1, <1>4, <1>5, <1>6, <1>7, <1>8 DEF IInv

-----------------------------------------------------------------------------
(* Commands, taps and notices touch neither a session nor the table.       *)
LEMMA Outside ==
  ASSUME IInv, TypeOK', Keys', UNCHANGED <<current, session, flush, done, ban>>
  PROVE  IInv'
<1>1. Fresh' /\ Phases' /\ Claims' /\ Tabled'
  BY DEF IInv, Fresh, Phases, PhaseOf, Claims, Tabled
<1>2. Kept'
  BY DEF IInv, Kept, NoSessionLost, DoneAborted
<1> QED
  BY <1>1, <1>2 DEF IInv

LEMMA EntryDispatchStep ==
  ASSUME IInv, NEW a \in Attempts, EntryDispatch(a)
  PROVE  IInv'
<1>1. TypeOK'
  BY DEF IInv, TypeOK, EntryDispatch
<1>2. Keys'
  <2>1. \A b \in Attempts : entry[b] \in {"looking", "returned"} =>
            entry'[b] \in {"looking", "returned"}
    BY DEF IInv, TypeOK, EntryDispatch
  <2> QED
    BY <2>1, KeysKept DEF EntryDispatch
<1> QED
  BY <1>1, <1>2, Outside DEF EntryDispatch

LEMMA EntryRejectsStep ==
  ASSUME IInv, NEW a \in Attempts, EntryRejects(a)
  PROVE  IInv'
<1>1. TypeOK'
  BY DEF IInv, TypeOK, EntryRejects
<1>2. Keys'
  <2>1. \A b \in Attempts : entry[b] \in {"looking", "returned"} =>
            entry'[b] \in {"looking", "returned"}
    BY DEF IInv, TypeOK, EntryRejects
  <2> QED
    BY <2>1, KeysKept DEF EntryRejects
<1> QED
  BY <1>1, <1>2, Outside DEF EntryRejects

(* The command is new: no session has its keys.                            *)
LEMMA EntryStoresKeysStep ==
  ASSUME IInv, NEW a \in Attempts, EntryStoresKeys(a)
  PROVE  IInv'
<1>1. TypeOK'
  BY DEF IInv, TypeOK, EntryStoresKeys
<1>2. /\ \A b \in Attempts : entry[b] \in {"looking", "returned"} =>
             entry'[b] \in {"looking", "returned"}
      /\ entry'[a] = "looking" /\ userData' = a /\ entry[a] = "resolving"
  BY DEF IInv, TypeOK, EntryStoresKeys
<1>3. \A s \in Sessions : session[s].meta # NoAttempt =>
          session[s].meta \in Attempts /\ session[s].meta # a
  BY <1>2 DEF IInv, TypeOK, Keys
<1>4. Keys'
  BY <1>2, <1>3 DEF IInv, Keys, EntryStoresKeys
<1> QED
  BY <1>1, <1>4, Outside DEF EntryStoresKeys

LEMMA EntryReturnsStep ==
  ASSUME IInv, NEW a \in Attempts, EntryReturns(a)
  PROVE  IInv'
<1>1. userData' \in {userData, NoAttempt}
  BY DEF EntryReturns
<1>2. TypeOK'
  BY <1>1 DEF IInv, TypeOK, EntryReturns
<1>3. Keys'
  <2>1. \A b \in Attempts : entry[b] \in {"looking", "returned"} =>
            entry'[b] \in {"looking", "returned"}
    BY DEF IInv, TypeOK, EntryReturns
  <2> QED
    BY <1>1, <2>1, KeysKept DEF EntryReturns
<1> QED
  BY <1>2, <1>3, Outside DEF EntryReturns

(* Nothing but PTB's state, the other handler and maybe the keys.          *)
LEMMA OtherStep ==
  ASSUME IInv, userData' \in {userData, NoAttempt},
         UNCHANGED <<entry, current, session, flush, done, ban>>,
         conv' \in {"none", "confirm", "proof"},
         other' \in {"none", "cancel", "cancelled", "continue", "demoting", "nudge"}
  PROVE  IInv'
<1>1. TypeOK'
  BY DEF IInv, TypeOK
<1>2. Keys'
  BY KeysKept
<1> QED
  BY <1>1, <1>2, Outside

LEMMA TapSteps ==
  ASSUME IInv,
         \/ ContinueTapped \/ ContinueReads \/ ContinueReturns \/ LateProofDropped
         \/ Nudge \/ NudgeReturns \/ CancelTapped \/ CancelReturns
  PROVE  IInv'
<1>1. conv \in {"none", "confirm", "proof"}
      /\ other \in {"none", "cancel", "cancelled", "continue", "demoting", "nudge"}
  BY DEF IInv, TypeOK
<1>2. CASE ContinueTapped \/ ContinueReads \/ ContinueReturns
  BY <1>1, <1>2, OtherStep DEF ContinueTapped, ContinueReads, ContinueReturns
<1>3. CASE LateProofDropped
  BY <1>1, <1>3, OtherStep DEF LateProofDropped
<1>4. CASE Nudge \/ NudgeReturns
  BY <1>1, <1>4, OtherStep DEF Nudge, NudgeReturns
<1>5. CASE CancelTapped \/ CancelReturns
  BY <1>1, <1>5, OtherStep DEF CancelTapped, CancelReturns
<1> QED
  BY <1>2, <1>3, <1>4, <1>5

-----------------------------------------------------------------------------
(* The window of a session that nobody claimed.                            *)
LEMMA WindowStep ==
  ASSUME IInv, current # NoSession, ~session[current].flushing,
         NEW w \in {"quiet", "recent", "capped"},
         session' = [session EXCEPT ![current].window = w],
         \A s \in Sessions : /\ flush'[s].pc = flush[s].pc
                             /\ flush'[s].held \in {flush[s].held, current}
                             /\ flush'[s].held # flush[s].held => flush[s].pc = "sleeping",
         flush' \in [Sessions -> FlushRecords],
         UNCHANGED <<conv, entry, userData, current, done, ban, other>>
  PROVE  IInv'
<1>1. current \in Sessions /\ session[current].made /\ flush[current].pc # "none"
  BY DEF IInv, TypeOK
<1>2. session \in [Sessions -> SessionRecords]
  BY DEF IInv, TypeOK, SessionRecords
<1>3. \A s \in Sessions :
          /\ session'[s].made = session[s].made /\ session'[s].meta = session[s].meta
          /\ session'[s].flushing = session[s].flushing
          /\ session'[s].cancelled = session[s].cancelled
          /\ s # current => session'[s] = session[s]
  BY <1>1, <1>2 DEF SessionRecords
<1>4. session' \in [Sessions -> SessionRecords]
  BY <1>1, <1>2 DEF SessionRecords
<1>5. TypeOK'
  BY <1>1, <1>3, <1>4 DEF IInv, TypeOK, SessionRecords, FlushRecords
<1>6. Fresh'
  <2> SUFFICES ASSUME NEW s \in Sessions, ~session'[s].made
               PROVE  /\ session'[s] = Unmade
                      /\ flush'[s] = [pc |-> "none", held |-> NoSession]
                      /\ done'[s] = "none"
                      /\ \A t \in Sessions : flush'[t].held # s
    BY DEF Fresh
  <2>1. ~session[s].made /\ s # current /\ session'[s] = Unmade
    BY <1>1, <1>3 DEF IInv, Fresh
  <2>2. /\ flush[s] = [pc |-> "none", held |-> NoSession] /\ done[s] = "none"
        /\ \A t \in Sessions : flush[t].held # s
    BY <2>1 DEF IInv, Fresh
  <2>3. flush'[s] = flush[s]
    BY <2>2 DEF FlushRecords
  <2> QED
    BY <2>1, <2>2, <2>3
<1>7. Phases'
  <2> SUFFICES ASSUME NEW s \in Sessions PROVE PhaseOf(s)'
    BY DEF Phases
  <2> QED
    BY <1>3 DEF IInv, Phases, PhaseOf
<1>8. Claims'
  <2>1. \A s \in Sessions : ban[<<"flush", s>>] # "none" => flush'[s].held = flush[s].held
    BY DEF IInv, Phases, PhaseOf
  <2> QED
    BY <1>3, <2>1 DEF IInv, Claims
<1>9. Keys'
  BY <1>3, KeysKept
<1>10. Tabled'
  BY <1>1, <1>3 DEF IInv, Tabled
<1>11. Kept'
  <2> SUFFICES ASSUME ~DoneAborted' PROVE Kept'
    BY DEF Kept
  <2>1. ~DoneAborted
    BY <1>3, AbortStays
  <2> QED
    BY <1>3, <2>1 DEF IInv, Kept, NoSessionLost
<1> QED
  BY <1>5, <1>6, <1>7, <1>8, <1>9, <1>10, <1>11 DEF IInv

LEMMA MediaSteps ==
  ASSUME IInv, NextProof \/ \E s \in Sessions : Overdue(s)
  PROVE  IInv'
<1>1. flush \in [Sessions -> FlushRecords] /\ current \in Sessions \cup {NoSession}
  BY DEF IInv, TypeOK, FlushRecords
<1>2. CASE NextProof
  <2>1. Arrival(session[current].window) \in {"quiet", "recent", "capped"}
    BY DEF Arrival
  <2>2. session' = [session EXCEPT ![current].window = Arrival(session[current].window)]
    BY <1>2 DEF NextProof
  <2> QED
    BY <1>1, <1>2, <2>1, <2>2, WindowStep DEF NextProof
<1>3. CASE \E s \in Sessions : Overdue(s)
  BY <1>1, <1>3, WindowStep, Names DEF Overdue
<1> QED
  BY <1>2, <1>3

LEMMA SlideStep ==
  ASSUME IInv, NEW s \in Sessions, WakeAndSlide(s)
  PROVE  IInv'
<1>1. flush \in [Sessions -> FlushRecords] /\ current \in Sessions
  BY DEF IInv, TypeOK, FlushRecords, WakeAndSlide
<1>2. /\ flush' \in [Sessions -> FlushRecords]
      /\ \A t \in Sessions : /\ flush'[t].pc = flush[t].pc
                             /\ flush'[t].held \in {flush[t].held, current}
                             /\ flush'[t].held # flush[t].held => flush[t].pc = "sleeping"
  BY <1>1 DEF FlushRecords, WakeAndSlide
<1> QED
  BY <1>1, <1>2, WindowStep DEF WakeAndSlide

-----------------------------------------------------------------------------
(* A new session takes the keys along; the table was empty, so no other    *)
(* session has them.                                                       *)
LEMMA FirstProofStep ==
  ASSUME IInv, NEW s \in Sessions, FirstProof(s)
  PROVE  IInv'
<1> DEFINE new == [Unmade EXCEPT !.made = TRUE, !.meta = userData]
<1>1. /\ session \in [Sessions -> SessionRecords] /\ flush \in [Sessions -> FlushRecords]
      /\ userData \in Attempts \cup {NoAttempt}
  BY DEF IInv, TypeOK, SessionRecords, FlushRecords
<1>2. /\ new \in SessionRecords /\ new.made /\ new.meta = userData
      /\ ~new.flushing /\ ~new.cancelled
  BY <1>1 DEF Unmade, SessionRecords
<1> HIDE DEF new
<1>3. /\ session' = [session EXCEPT ![s] = new] /\ session' \in [Sessions -> SessionRecords]
      /\ session'[s] = new /\ \A t \in Sessions : t # s => session'[t] = session[t]
  BY <1>1, <1>2 DEF FirstProof, new
<1>4. /\ flush' \in [Sessions -> FlushRecords] /\ flush'[s].pc = "sleeping"
      /\ \A t \in Sessions : flush'[t].held = flush[t].held /\ (t # s => flush'[t] = flush[t])
  BY <1>1 DEF FirstProof, FlushRecords
<1>5. /\ ~session[s].made /\ ~session[s].flushing /\ session[s].meta = NoAttempt
      /\ current = NoSession /\ current' = s
      /\ flush[s].pc = "none" /\ flush[s].held = NoSession /\ done[s] = "none"
      /\ \A t \in Sessions : flush[t].held # s
  BY DEF FirstProof, IInv, Fresh, Unmade
<1>6. TypeOK'
  BY <1>2, <1>3, <1>4 DEF IInv, TypeOK, SessionRecords, FlushRecords, FirstProof
<1>7. Fresh'
  <2> SUFFICES ASSUME NEW t \in Sessions, ~session'[t].made
               PROVE  /\ session'[t] = Unmade
                      /\ flush'[t] = [pc |-> "none", held |-> NoSession]
                      /\ done'[t] = "none"
                      /\ \A u \in Sessions : flush'[u].held # t
    BY DEF Fresh
  <2>1. t # s /\ ~session[t].made
    BY <1>2, <1>3
  <2> QED
    BY <2>1, <1>3, <1>4 DEF IInv, Fresh, FirstProof
<1>8. Phases'
  <2> SUFFICES ASSUME NEW t \in Sessions PROVE PhaseOf(t)'
    BY DEF Phases
  <2>1. CASE t = s
    BY <1>4, <1>5, <2>1 DEF IInv, Phases, PhaseOf, FirstProof
  <2>2. CASE t # s
    BY <1>3, <1>4, <2>2 DEF IInv, Phases, PhaseOf, FirstProof
  <2> QED
    BY <2>1, <2>2
<1>9. Claims'
  <2>1. ban[<<"done", s>>] = "none" /\ \A t \in Sessions : ban[<<"flush", t>>] # "none" => flush[t].held # s
    BY <1>5 DEF IInv, Phases, PhaseOf
  <2> QED
    BY <1>3, <1>4, <2>1 DEF IInv, Claims, FirstProof
<1>10. Keys'
  <2>1. \A t \in Sessions : session[t].meta # NoAttempt => session[t].meta # userData
    BY <1>5, Names DEF IInv, Keys
  <2>2. \A t \in Sessions : session'[t].meta = IF t = s THEN userData ELSE session[t].meta
    BY <1>2, <1>3
  <2>3. userData' = userData /\ entry' = entry
    BY DEF FirstProof
  <2> QED
    BY <1>5, <2>1, <2>2, <2>3 DEF IInv, Keys
<1>11. Tabled'
  BY <1>2, <1>3, <1>5 DEF Tabled
<1>12. Kept'
  <2> SUFFICES ASSUME ~DoneAborted' PROVE Kept'
    BY DEF Kept
  <2>1. ~DoneAborted
    <3>1. \A t \in Sessions : done[t] = "ended" =>
              done'[t] = "ended" /\ session'[t].meta = session[t].meta
      BY <1>3, <1>5 DEF FirstProof
    <3> QED
      BY <3>1, AbortStays
  <2>2. /\ \A t \in Sessions : flush[t].pc # "sleeping"
        /\ \A t \in Sessions : session[t].made /\ session[t].meta # NoAttempt =>
               session[t].flushing \/ session[t].cancelled
        /\ \A t \in Sessions : flush[t].held \in {t, NoSession}
    BY <1>5, <2>1, Names DEF IInv, Kept, NoSessionLost
  <2>3. NoSessionLost'
    BY <1>3, <1>5, <2>2 DEF NoSessionLost
  <2> QED
    BY <1>2, <1>3, <1>4, <1>5, <2>2, <2>3 DEF Kept
<1> QED
  BY <1>6, <1>7, <1>8, <1>9, <1>10, <1>11, <1>12 DEF IInv

-----------------------------------------------------------------------------
(* Only the flush tasks' phase and what they hold change, apart from       *)
(* sessions that are claimed or cancelled, the table and the keys: what a  *)
(* session that is not made keeps.                                         *)
LEMMA FreshKept ==
  ASSUME IInv, TypeOK',
         \A t \in Sessions : session'[t].made = session[t].made,
         \A t \in Sessions : ~session[t].made =>
             session'[t] = session[t] /\ flush'[t] = flush[t] /\ done'[t] = done[t],
         \A t \in Sessions : flush'[t].held \in {flush[t].held, NoSession, current}
  PROVE  Fresh'
<1>1. current \in Sessions => session[current].made
  BY DEF IInv, TypeOK, NoSession, Sessions
<1> SUFFICES ASSUME NEW t \in Sessions, ~session'[t].made
             PROVE  /\ session'[t] = Unmade
                    /\ flush'[t] = [pc |-> "none", held |-> NoSession]
                    /\ done'[t] = "none"
                    /\ \A u \in Sessions : flush'[u].held # t
  BY DEF Fresh
<1>2. ~session[t].made /\ t # current /\ t # NoSession
  BY <1>1, Names
<1> QED
  BY <1>2 DEF IInv, Fresh

(* A session that nobody claimed has no Done tap and is in nobody's hands. *)
LEMMA Unclaimed ==
  ASSUME IInv, NEW s \in Sessions, ~session[s].flushing
  PROVE  /\ done[s] = "none" /\ ban[<<"done", s>>] = "none"
         /\ \A t \in Sessions : ban[<<"flush", t>>] # "none" => flush[t].held # s
  BY DEF IInv, Phases, PhaseOf, Claims

LEMMA ClaimsOf ==
  ASSUME NEW r \in SessionRecords
  PROVE  /\ Claimed(r) \in SessionRecords /\ Claimed(r).flushing
         /\ Claimed(r).made = r.made /\ Claimed(r).meta = r.meta
         /\ Claimed(r).cancelled = r.cancelled
  BY DEF Claimed, SessionRecords

LEMMA CancelledTasks ==
  ASSUME NEW f \in FlushRecords
  PROVE  /\ CancelledTask(f) \in FlushRecords /\ CancelledTask(f).held = f.held
         /\ CancelledTask(f).pc = IF f.pc \in {"sleeping", "executing"} THEN "cancelled" ELSE f.pc
  BY DEF CancelledTask, FlushRecords

LEMMA ClaimByDoneStep ==
  ASSUME IInv, NEW s \in Sessions, ClaimByDone(s)
  PROVE  IInv'
<1>1. session \in [Sessions -> SessionRecords] /\ flush \in [Sessions -> FlushRecords]
  BY DEF IInv, TypeOK, SessionRecords, FlushRecords
<1>2. /\ current = s /\ ~session[s].flushing /\ session[s].made
      /\ done \in [Sessions -> {"none", "answering", "executing", "ended"}]
      /\ done' = [done EXCEPT ![s] = "answering"]
      /\ UNCHANGED <<conv, entry, userData, current, ban, other>>
  BY Names DEF IInv, TypeOK, ClaimByDone
<1>3. /\ session' = [session EXCEPT ![s] = Claimed(session[s])]
      /\ flush' = [flush EXCEPT ![s] = CancelledTask(flush[s])]
  BY DEF ClaimByDone
<1>4. /\ session' \in [Sessions -> SessionRecords] /\ flush' \in [Sessions -> FlushRecords]
      /\ session'[s].flushing
      /\ \A t \in Sessions :
            /\ session'[t].made = session[t].made /\ session'[t].meta = session[t].meta
            /\ session'[t].cancelled = session[t].cancelled
            /\ flush'[t].held = flush[t].held
            /\ t # s => session'[t] = session[t] /\ flush'[t] = flush[t] /\ done'[t] = done[t]
      /\ flush'[s].pc = IF flush[s].pc \in {"sleeping", "executing"} THEN "cancelled" ELSE flush[s].pc
      /\ done'[s] = "answering"
  BY <1>1, <1>2, <1>3, ClaimsOf, CancelledTasks
<1>5. /\ done[s] = "none" /\ ban[<<"done", s>>] = "none"
      /\ \A t \in Sessions : ban[<<"flush", t>>] # "none" => flush[t].held # s
  BY <1>2, Unclaimed
<1>6. TypeOK'
  BY <1>2, <1>4 DEF IInv, TypeOK, SessionRecords, FlushRecords
<1>7. Fresh'
  BY <1>2, <1>4, <1>6, FreshKept
<1>8. Phases'
  <2> SUFFICES ASSUME NEW t \in Sessions PROVE PhaseOf(t)'
    BY DEF Phases
  <2>1. CASE t = s
    BY <1>2, <1>4, <1>5, <2>1 DEF IInv, Phases, PhaseOf
  <2>2. CASE t # s
    BY <1>2, <1>4, <2>2 DEF IInv, Phases, PhaseOf
  <2> QED
    BY <2>1, <2>2
<1>9. Claims'
  BY <1>2, <1>4, <1>5 DEF IInv, Claims
<1>10. Keys'
  BY <1>2, <1>4, KeysKept
<1>11. Tabled'
  BY <1>2, <1>4 DEF IInv, Tabled
<1>12. Kept'
  <2> SUFFICES ASSUME ~DoneAborted' PROVE Kept'
    BY DEF Kept
  <2>1. ~DoneAborted
    BY <1>4, <1>5, AbortStays
  <2> QED
    BY <1>2, <1>4, <2>1 DEF IInv, Kept, NoSessionLost
<1> QED
  BY <1>6, <1>7, <1>8, <1>9, <1>10, <1>11, <1>12 DEF IInv

-----------------------------------------------------------------------------
(* The abort empties the table, whoever is on it: from here on sessions    *)
(* may get lost, but no command's keys go to two.                          *)
LEMMA DoneAbortsStep ==
  ASSUME IInv, NEW s \in Sessions, DoneAborts(s)
  PROVE  IInv'
<1>1. /\ done \in [Sessions -> {"none", "answering", "executing", "ended"}]
      /\ done[s] = "answering" /\ session[s].meta = NoAttempt
      /\ done' = [done EXCEPT ![s] = "ended"] /\ current' = NoSession /\ userData' = NoAttempt
      /\ conv' = "none" /\ UNCHANGED <<entry, session, flush, ban, other>>
  BY DEF IInv, TypeOK, DoneAborts
<1>2. done'[s] = "ended" /\ \A t \in Sessions : t # s => done'[t] = done[t]
  BY <1>1
<1>3. session[s].made /\ session[s].flushing /\ ban[<<"done", s>>] = "none"
  BY <1>1 DEF IInv, Fresh, Phases, PhaseOf
<1>4. TypeOK'
  BY <1>1 DEF IInv, TypeOK
<1>5. Fresh'
  BY <1>1, <1>2, <1>3, <1>4, FreshKept
<1>6. Phases'
  BY <1>1, <1>2, <1>3 DEF IInv, Phases, PhaseOf
<1>7. Claims'
  BY <1>1, <1>2 DEF IInv, Claims
<1>8. Keys'
  BY <1>1, KeysKept
<1>9. Tabled'
  BY <1>1 DEF Tabled
<1>10. Kept'
  BY <1>1, <1>2 DEF Kept, DoneAborted
<1> QED
  BY <1>4, <1>5, <1>6, <1>7, <1>8, <1>9, <1>10 DEF IInv

(* The tap has claimed the session, so no flush task has it.               *)
LEMMA DoneExecutesStep ==
  ASSUME IInv, NEW s \in Sessions, DoneExecutes(s)
  PROVE  IInv'
<1>1. /\ done \in [Sessions -> {"none", "answering", "executing", "ended"}]
      /\ ban \in [Runners -> {"none", "running", "written", "failed"}]
      /\ done[s] = "answering" /\ session[s].meta # NoAttempt
      /\ done' = [done EXCEPT ![s] = "executing"]
      /\ ban' = [ban EXCEPT ![<<"done", s>>] = "running"]
      /\ UNCHANGED <<conv, entry, userData, current, session, flush, other>>
  BY DEF IInv, TypeOK, DoneExecutes
<1>2. done'[s] = "executing" /\ \A t \in Sessions : t # s => done'[t] = done[t]
  BY <1>1
<1>3. /\ ban' \in [Runners -> {"none", "running", "written", "failed"}]
      /\ ban'[<<"done", s>>] = "running"
      /\ \A t \in Sessions : ban'[<<"flush", t>>] = ban[<<"flush", t>>]
      /\ \A t \in Sessions : t # s => ban'[<<"done", t>>] = ban[<<"done", t>>]
  BY <1>1 DEF Runners
<1>4. session[s].made /\ session[s].flushing
  BY <1>1 DEF IInv, Fresh, Phases, PhaseOf
<1>5. TypeOK'
  BY <1>1, <1>3 DEF IInv, TypeOK
<1>6. Fresh'
  BY <1>1, <1>2, <1>4, <1>5, FreshKept
<1>7. Phases'
  <2> SUFFICES ASSUME NEW t \in Sessions PROVE PhaseOf(t)'
    BY DEF Phases
  <2> QED
    BY <1>1, <1>2, <1>3, <1>4 DEF IInv, Phases, PhaseOf
<1>8. Claims'
  BY <1>1, <1>2, <1>3 DEF IInv, Claims
<1>9. Keys'
  BY <1>1, KeysKept
<1>10. Tabled'
  BY <1>1 DEF IInv, Tabled
<1>11. Kept'
  <2> SUFFICES ASSUME ~DoneAborted' PROVE Kept'
    BY DEF Kept
  <2>1. ~DoneAborted
    BY <1>1, <1>2, AbortStays
  <2> QED
    BY <1>1, <2>1 DEF IInv, Kept, NoSessionLost
<1> QED
  BY <1>5, <1>6, <1>7, <1>8, <1>9, <1>10, <1>11 DEF IInv

-----------------------------------------------------------------------------
(* Leaving the table: a session leaves it when somebody has claimed it.    *)
LEMMA KeptAfterRelease ==
  ASSUME IInv, current' \in {current, NoSession},
         \A t \in Sessions :
             /\ session'[t].made = session[t].made /\ session'[t].meta = session[t].meta
             /\ session'[t].cancelled = session[t].cancelled
             /\ session[t].flushing => session'[t].flushing
             /\ done[t] = "ended" => done'[t] = "ended",
         ~DoneAborted =>
             /\ current' # current => session'[current].flushing
             /\ \A t \in Sessions :
                   /\ flush'[t].held \in {t, NoSession}
                   /\ flush'[t].pc = "sleeping" =>
                        flush[t].pc = "sleeping" /\ session'[t].flushing = session[t].flushing
  PROVE  Kept'
<1> SUFFICES ASSUME ~DoneAborted' PROVE Kept'
  BY DEF Kept
<1>1. ~DoneAborted
  BY AbortStays
<1>2. \A t \in Sessions : flush[t].pc = "sleeping" => current = t /\ ~session[t].flushing
  BY <1>1 DEF IInv, Kept
<1>3. NoSessionLost'
  <2> SUFFICES ASSUME NEW t \in Sessions, session'[t].made, session'[t].meta # NoAttempt
               PROVE  current' = t \/ session'[t].flushing \/ session'[t].cancelled
    BY DEF NoSessionLost
  <2>1. current = t \/ session[t].flushing \/ session[t].cancelled
    BY <1>1 DEF IInv, Kept, NoSessionLost
  <2> QED
    BY <1>1, <2>1
<1>4. \A t \in Sessions : /\ flush'[t].pc = "sleeping" => current' = t /\ ~session'[t].flushing
                          /\ flush'[t].held \in {t, NoSession}
  BY <1>1, <1>2
<1> QED
  BY <1>3, <1>4 DEF Kept

LEMMA DoneReturnsStep ==
  ASSUME IInv, NEW s \in Sessions, DoneReturns(s)
  PROVE  IInv'
<1>1. /\ done \in [Sessions -> {"none", "answering", "executing", "ended"}]
      /\ done[s] = "executing" /\ done' = [done EXCEPT ![s] = "ended"]
      /\ conv' = "none" /\ UNCHANGED <<entry, session, flush, ban, other>>
      /\ current \in Sessions \cup {NoSession} /\ userData \in Attempts \cup {NoAttempt}
  BY DEF IInv, TypeOK, DoneReturns
<1>2. done'[s] = "ended" /\ \A t \in Sessions : t # s => done'[t] = done[t]
  BY <1>1
<1>3. /\ userData' \in {userData, NoAttempt} /\ (userData' # NoAttempt => current' = current)
      /\ current' \in {current, NoSession} /\ (current' # current => current = s)
  BY Releases DEF DoneReturns
<1>4. session[s].made /\ session[s].flushing
  BY <1>1 DEF IInv, Fresh, Phases, PhaseOf
<1>5. TypeOK'
  BY <1>1, <1>3 DEF IInv, TypeOK
<1>6. Fresh'
  BY <1>1, <1>2, <1>4, <1>5, FreshKept
<1>7. Phases'
  <2> SUFFICES ASSUME NEW t \in Sessions PROVE PhaseOf(t)'
    BY DEF Phases
  <2> QED
    BY <1>1, <1>2, <1>4 DEF IInv, Phases, PhaseOf
<1>8. Claims'
  BY <1>1, <1>2 DEF IInv, Claims
<1>9. Keys'
  BY <1>1, <1>3, KeysKept
<1>10. Tabled'
  BY <1>1, <1>3 DEF IInv, Tabled
<1>11. Kept'
  <2>1. \A t \in Sessions : done[t] = "ended" => done'[t] = "ended"
    BY <1>2
  <2>2. ~DoneAborted => \A t \in Sessions : flush[t].held \in {t, NoSession}
    BY DEF IInv, Kept
  <2> QED
    BY <1>1, <1>3, <1>4, <2>1, <2>2, KeptAfterRelease
<1> QED
  BY <1>5, <1>6, <1>7, <1>8, <1>9, <1>10, <1>11 DEF IInv

-----------------------------------------------------------------------------
(* A task that ends in the sleep has executed nothing.                     *)
LEMMA FinishedFacts ==
  /\ Finished \in FlushRecords /\ Finished.pc = "ended" /\ Finished.held = NoSession
  BY DEF Finished, FlushRecords

(* What flush task s of a session does to itself, the table and the keys.  *)
LEMMA FlushLeaves ==
  ASSUME IInv, NEW s \in Sessions, flush[s].pc # "none",
         flush' \in [Sessions -> FlushRecords],
         \A t \in Sessions : t # s => flush'[t] = flush[t],
         flush'[s].pc = "ended", flush'[s].held \in {flush[s].held, NoSession},
         ban' \in [Runners -> {"none", "running", "written", "failed"}],
         \A r \in Runners : r # <<"flush", s>> => ban'[r] = ban[r],
         ban'[<<"flush", s>>] # "none" =>
             ban[<<"flush", s>>] # "none" /\ flush'[s].held = flush[s].held,
         userData' \in {userData, NoAttempt}, userData' # NoAttempt => current' = current,
         current' \in {current, NoSession},
         ~DoneAborted /\ current' # current => session[current].flushing,
         UNCHANGED <<conv, entry, session, done, other>>
  PROVE  IInv'
<1>1. /\ session[s].made
      /\ \A t \in Sessions : <<"done", t>> \in Runners /\ <<"flush", t>> \in Runners
      /\ \A t \in Sessions : <<"done", t>> # <<"flush", s>>
      /\ \A t \in Sessions : t # s => <<"flush", t>> # <<"flush", s>>
  BY Names DEF IInv, Fresh
<1>2. \A t \in Sessions : /\ ban'[<<"done", t>>] = ban[<<"done", t>>]
                          /\ t # s => ban'[<<"flush", t>>] = ban[<<"flush", t>>]
  BY <1>1
<1>3. TypeOK'
  BY DEF IInv, TypeOK, FlushRecords
<1>4. Fresh'
  BY <1>1, <1>3, FreshKept
<1>5. Phases'
  <2> SUFFICES ASSUME NEW t \in Sessions PROVE PhaseOf(t)'
    BY DEF Phases
  <2> QED
    BY <1>2 DEF IInv, Phases, PhaseOf
<1>6. Claims'
  <2>1. \A t \in Sessions : ban'[<<"flush", t>>] # "none" =>
            ban[<<"flush", t>>] # "none" /\ flush'[t].held = flush[t].held
    BY <1>2
  <2>2. \A t \in Sessions : ban'[<<"done", t>>] # "none" => session'[t].meta # NoAttempt
    BY <1>2 DEF IInv, Claims
  <2>3. \A t \in Sessions : ban'[<<"flush", t>>] # "none" =>
            /\ flush'[t].held \in Sessions
            /\ session'[flush'[t].held].flushing
            /\ session'[flush'[t].held].meta # NoAttempt
            /\ done'[flush'[t].held] = "none"
    <3> SUFFICES ASSUME NEW t \in Sessions, ban'[<<"flush", t>>] # "none"
                 PROVE  /\ flush'[t].held \in Sessions
                        /\ session'[flush'[t].held].flushing
                        /\ session'[flush'[t].held].meta # NoAttempt
                        /\ done'[flush'[t].held] = "none"
      OBVIOUS
    <3>1. ban[<<"flush", t>>] # "none" /\ flush'[t].held = flush[t].held
      BY <2>1
    <3> QED
      BY <3>1 DEF IInv, Claims
  <2>4. \A t, u \in Sessions :
            ban'[<<"flush", t>>] # "none" /\ ban'[<<"flush", u>>] # "none"
                /\ flush'[t].held = flush'[u].held => t = u
    BY <2>1 DEF IInv, Claims
  <2> QED
    BY <2>2, <2>3, <2>4 DEF Claims
<1>7. Keys'
  BY KeysKept
<1>8. Tabled'
  BY DEF IInv, Tabled
<1>9. Kept'
  <2>1. ~DoneAborted => \A t \in Sessions : flush[t].held \in {t, NoSession}
    BY DEF IInv, Kept
  <2>2. ~DoneAborted => \A t \in Sessions :
            /\ flush'[t].held \in {t, NoSession}
            /\ flush'[t].pc = "sleeping" => flush[t].pc = "sleeping"
    BY <2>1
  <2> QED
    BY <2>2, KeptAfterRelease
<1> QED
  BY <1>3, <1>4, <1>5, <1>6, <1>7, <1>8, <1>9 DEF IInv

(* A task that sleeps for the session on the table does not find it        *)
(* claimed; one whose session is gone has nothing to release but what an   *)
(* abort or a Done tap left.                                               *)
LEMMA WakeToNothingStep ==
  ASSUME IInv, NEW s \in Sessions, WakeToNothing(s)
  PROVE  IInv'
<1>1. /\ flush \in [Sessions -> FlushRecords]
      /\ ban \in [Runners -> {"none", "running", "written", "failed"}]
      /\ current \in Sessions \cup {NoSession}
      /\ flush[s].pc = "sleeping" /\ ban[<<"flush", s>>] = "none"
      /\ flush' = [flush EXCEPT ![s] = Finished]
      /\ UNCHANGED <<conv, entry, session, done, ban, other>>
  BY DEF IInv, TypeOK, FlushRecords, Phases, PhaseOf, WakeToNothing
<1>2. /\ flush' \in [Sessions -> FlushRecords]
      /\ flush'[s].pc = "ended" /\ flush'[s].held = NoSession
      /\ \A t \in Sessions : t # s => flush'[t] = flush[t]
  BY <1>1, FinishedFacts
<1>3. /\ userData' \in {userData, NoAttempt} /\ (userData' # NoAttempt => current' = current)
      /\ current' \in {current, NoSession}
  BY Releases DEF WakeToNothing
<1>4. current' # current => session[current].flushing
  <2>1. current' # current => current # NoSession
    BY <1>3
  <2> QED
    BY <2>1 DEF IInv, Tabled, WakeToNothing
<1> QED
  BY <1>1, <1>2, <1>3, <1>4, FlushLeaves

LEMMA FlushReturnsStep ==
  ASSUME IInv, NEW s \in Sessions, FlushReturns(s)
  PROVE  IInv'
<1>1. /\ flush \in [Sessions -> FlushRecords]
      /\ ban \in [Runners -> {"none", "running", "written", "failed"}]
      /\ flush[s].pc = "executing" /\ ban[<<"flush", s>>] # "none"
      /\ flush' = [flush EXCEPT ![s].pc = "ended"]
      /\ UNCHANGED <<conv, entry, session, done, ban, other>>
  BY DEF IInv, TypeOK, FlushRecords, Phases, PhaseOf, FlushReturns
<1>2. /\ flush' \in [Sessions -> FlushRecords]
      /\ flush'[s].pc = "ended" /\ flush'[s].held = flush[s].held
      /\ \A t \in Sessions : t # s => flush'[t] = flush[t]
  BY <1>1 DEF FlushRecords
<1>3. /\ userData' \in {userData, NoAttempt} /\ (userData' # NoAttempt => current' = current)
      /\ current' \in {current, NoSession} /\ (current' # current => current = flush[s].held)
  BY Releases DEF FlushReturns
<1>4. session[flush[s].held].flushing
  BY <1>1 DEF IInv, Claims
<1> QED
  BY <1>1, <1>2, <1>3, <1>4, FlushLeaves

(* The cancelled task's own session was claimed or cancelled, and what it  *)
(* held was its own as long as nothing aborted.                            *)
LEMMA FlushUnwindsStep ==
  ASSUME IInv, NEW s \in Sessions, FlushUnwinds(s)
  PROVE  IInv'
<1>1. /\ flush \in [Sessions -> FlushRecords]
      /\ ban \in [Runners -> {"none", "running", "written", "failed"}]
      /\ flush[s].pc = "cancelled" /\ <<"flush", s>> \in Runners
      /\ UNCHANGED <<conv, entry, session, done, other>>
  BY Names DEF IInv, TypeOK, FlushRecords, FlushUnwinds
<1>2. /\ flush' \in [Sessions -> FlushRecords]
      /\ flush'[s].pc = "ended" /\ flush'[s].held \in {flush[s].held, NoSession}
      /\ ban[<<"flush", s>>] # "none" => flush'[s].held = flush[s].held
      /\ \A t \in Sessions : t # s => flush'[t] = flush[t]
  <2>1. CASE ban[<<"flush", s>>] = "none"
    <3>1. flush' = [flush EXCEPT ![s] = Finished]
      BY <2>1 DEF FlushUnwinds
    <3> QED
      BY <1>1, <2>1, <3>1, FinishedFacts
  <2>2. CASE ban[<<"flush", s>>] # "none"
    <3>1. flush' = [flush EXCEPT ![s].pc = "ended"]
      BY <1>1, <2>2 DEF FlushUnwinds
    <3> QED
      BY <1>1, <3>1 DEF FlushRecords
  <2> QED
    BY <2>1, <2>2
<1>3. /\ ban' \in [Runners -> {"none", "running", "written", "failed"}]
      /\ \A r \in Runners : r # <<"flush", s>> => ban'[r] = ban[r]
      /\ ban'[<<"flush", s>>] # "none" => ban[<<"flush", s>>] # "none"
  BY <1>1 DEF FlushUnwinds
<1>4. /\ userData' \in {userData, NoAttempt} /\ (userData' # NoAttempt => current' = current)
      /\ current' \in {current, NoSession} /\ (current' # current => current = flush[s].held)
  BY Releases DEF FlushUnwinds
<1>5. ASSUME ~DoneAborted, current' # current PROVE session[current].flushing
  <2>1. current # NoSession /\ current = s
    BY <1>4, <1>5 DEF IInv, Kept
  <2>2. session[s].flushing \/ session[s].cancelled
    BY <1>1 DEF IInv, Phases, PhaseOf
  <2> QED
    BY <2>1, <2>2 DEF IInv, Tabled
<1> QED
  BY <1>1, <1>2, <1>3, <1>4, <1>5, FlushLeaves

-----------------------------------------------------------------------------
(* A flush task claims the session on the table, which need not be its     *)
(* own; nobody else has it.                                                *)
LEMMA WakeAndClaimStep ==
  ASSUME IInv, NEW s \in Sessions, WakeAndClaim(s)
  PROVE  IInv'
<1> DEFINE c == current
<1>1. /\ session \in [Sessions -> SessionRecords] /\ flush \in [Sessions -> FlushRecords]
      /\ ban \in [Runners -> {"none", "running", "written", "failed"}]
      /\ userData \in Attempts \cup {NoAttempt}
      /\ c \in Sessions /\ ~session[c].flushing /\ session[c].made
      /\ flush[s].pc = "sleeping" /\ ban[<<"flush", s>>] = "none" /\ session[s].made
      /\ <<"flush", s>> \in Runners
  <2>1. /\ session \in [Sessions -> SessionRecords] /\ flush \in [Sessions -> FlushRecords]
        /\ ban \in [Runners -> {"none", "running", "written", "failed"}]
        /\ userData \in Attempts \cup {NoAttempt}
        /\ c \in Sessions /\ session[c].made
    BY DEF IInv, TypeOK, SessionRecords, FlushRecords, WakeAndClaim
  <2>2. ~session[c].flushing /\ flush[s].pc = "sleeping"
    BY DEF WakeAndClaim
  <2>3. ban[<<"flush", s>>] = "none" /\ session[s].made
    <3>1. ban[<<"flush", s>>] = "none"
      BY <2>2 DEF IInv, Phases, PhaseOf
    <3>2. session[s].made
      BY <2>2 DEF IInv, Fresh
    <3> QED
      BY <3>1, <3>2
  <2>4. <<"flush", s>> \in Runners
    BY Names
  <2> QED
    BY <2>1, <2>2, <2>3, <2>4
<1>2. /\ session' = [session EXCEPT ![c] = Claimed(session[c])]
      /\ UNCHANGED <<conv, entry, done, other>>
  BY DEF WakeAndClaim
<1>3. /\ session' \in [Sessions -> SessionRecords] /\ session'[c].flushing
      /\ \A t \in Sessions :
            /\ session'[t].made = session[t].made /\ session'[t].meta = session[t].meta
            /\ session'[t].cancelled = session[t].cancelled
            /\ t # c => session'[t] = session[t]
            /\ session[t].flushing => session'[t].flushing
  BY <1>1, <1>2, ClaimsOf
<1>4. /\ done[c] = "none" /\ ban[<<"done", c>>] = "none"
      /\ \A t \in Sessions : ban[<<"flush", t>>] # "none" => flush[t].held # c
  BY <1>1, Unclaimed
<1>5. /\ flush' \in [Sessions -> FlushRecords]
      /\ flush'[s].pc \in {"executing", "ended"} /\ flush'[s].held \in {c, NoSession}
      /\ \A t \in Sessions : t # s => flush'[t] = flush[t]
      /\ ban' \in [Runners -> {"none", "running", "written", "failed"}]
      /\ \A r \in Runners : r # <<"flush", s>> => ban'[r] = ban[r]
      /\ flush'[s].pc = "executing" <=> ban'[<<"flush", s>>] # "none"
      /\ flush'[s].pc = "executing" => flush'[s].held = c /\ session[c].meta # NoAttempt
      /\ userData' \in {userData, NoAttempt} /\ (userData' # NoAttempt => current' = current)
      /\ current' \in {current, NoSession}
  <2>1. CASE /\ session[c].meta # NoAttempt
             /\ flush' = [flush EXCEPT ![s] = [pc |-> "executing", held |-> c]]
             /\ ban' = [ban EXCEPT ![<<"flush", s>>] = "running"]
             /\ UNCHANGED <<current, userData>>
    <3>1. [pc |-> "executing", held |-> c] \in FlushRecords
      BY <1>1 DEF FlushRecords
    <3>2. flush'[s] = [pc |-> "executing", held |-> c]
      BY <1>1, <2>1
    <3>3. flush'[s].pc = "executing" /\ flush'[s].held = c
      BY <3>2
    <3>4. /\ flush' \in [Sessions -> FlushRecords]
          /\ \A t \in Sessions : t # s => flush'[t] = flush[t]
      BY <1>1, <2>1, <3>1
    <3>5. /\ ban' \in [Runners -> {"none", "running", "written", "failed"}]
          /\ \A r \in Runners : r # <<"flush", s>> => ban'[r] = ban[r]
          /\ ban'[<<"flush", s>>] = "running"
      BY <1>1, <2>1
    <3> QED
      BY <2>1, <3>3, <3>4, <3>5
  <2>2. CASE flush' = [flush EXCEPT ![s] = Finished] /\ Release(current) /\ UNCHANGED ban
    <3>1. /\ flush' \in [Sessions -> FlushRecords]
          /\ flush'[s].pc = "ended" /\ flush'[s].held = NoSession
          /\ \A t \in Sessions : t # s => flush'[t] = flush[t]
      BY <1>1, <2>2, FinishedFacts
    <3> QED
      BY <1>1, <2>2, <3>1, Releases
  <2> QED
    BY <2>1, <2>2 DEF WakeAndClaim
<1>6. \A t \in Sessions :
          /\ ban'[<<"done", t>>] = ban[<<"done", t>>]
          /\ t # s => ban'[<<"flush", t>>] = ban[<<"flush", t>>]
  <2>1. \A t \in Sessions : /\ <<"done", t>> \in Runners /\ <<"flush", t>> \in Runners
                            /\ <<"done", t>> # <<"flush", s>>
                            /\ t # s => <<"flush", t>> # <<"flush", s>>
    BY Names
  <2> QED
    BY <1>5, <2>1
<1>7. TypeOK'
  <2>1. current' # NoSession => session'[current'].made /\ flush'[current'].pc # "none"
    BY <1>1, <1>3, <1>5 DEF IInv, TypeOK
  <2>2. current' \in Sessions \cup {NoSession} /\ userData' \in Attempts \cup {NoAttempt}
    BY <1>1, <1>5
  <2> QED
    BY <1>2, <1>3, <1>5, <2>1, <2>2 DEF IInv, TypeOK, SessionRecords, FlushRecords
<1>8. Fresh'
  <2>1. \A t \in Sessions : ~session[t].made => t # c /\ t # s
    BY <1>1
  <2>2. \A t \in Sessions : flush'[t].held \in {flush[t].held, NoSession, current}
    BY <1>5
  <2> QED
    BY <1>2, <1>3, <1>5, <1>7, <2>1, <2>2, FreshKept
<1>9. Phases'
  <2> SUFFICES ASSUME NEW t \in Sessions PROVE PhaseOf(t)'
    BY DEF Phases
  <2>1. CASE t = s
    BY <1>2, <1>3, <1>5, <1>6, <2>1 DEF IInv, Phases, PhaseOf
  <2>2. CASE t # s
    BY <1>2, <1>3, <1>5, <1>6, <2>2 DEF IInv, Phases, PhaseOf
  <2> QED
    BY <2>1, <2>2
<1>10. Claims'
  <2>1. \A t \in Sessions : ban'[<<"done", t>>] # "none" => session'[t].meta # NoAttempt
    <3> SUFFICES ASSUME NEW t \in Sessions, ban'[<<"done", t>>] # "none"
                 PROVE  session'[t].meta # NoAttempt
      OBVIOUS
    <3>1. ban[<<"done", t>>] # "none"
      BY <1>6
    <3>2. session[t].meta # NoAttempt
      BY <3>1 DEF IInv, Claims
    <3> QED
      BY <1>3, <3>2
  <2>2. ASSUME NEW t \in Sessions, ban'[<<"flush", t>>] # "none"
        PROVE  /\ flush'[t].held \in Sessions
               /\ session'[flush'[t].held].flushing
               /\ session'[flush'[t].held].meta # NoAttempt
               /\ done'[flush'[t].held] = "none"
               /\ t # s => ban[<<"flush", t>>] # "none" /\ flush'[t].held = flush[t].held
               /\ t = s <=> flush'[t].held = c
    <3>1. CASE t = s
      <4>1. flush'[t].held = c /\ session[c].meta # NoAttempt
        BY <1>5, <2>2, <3>1
      <4> QED
        BY <1>1, <1>2, <1>3, <1>4, <3>1, <4>1
    <3>2. CASE t # s
      <4>1. ban[<<"flush", t>>] # "none" /\ flush'[t].held = flush[t].held
        BY <1>5, <1>6, <2>2, <3>2
      <4> QED
        BY <1>2, <1>3, <1>4, <3>2, <4>1 DEF IInv, Claims
    <3> QED
      BY <3>1, <3>2
  <2>3. \A t, u \in Sessions :
            ban'[<<"flush", t>>] # "none" /\ ban'[<<"flush", u>>] # "none"
                /\ flush'[t].held = flush'[u].held => t = u
    BY <2>2 DEF IInv, Claims
  <2> QED
    BY <2>1, <2>2, <2>3 DEF Claims
<1>11. Keys'
  BY <1>2, <1>3, <1>5, KeysKept
<1>12. Tabled'
  BY <1>1, <1>3, <1>5 DEF IInv, Tabled
<1>13. Kept'
  <2>1. ASSUME ~DoneAborted
        PROVE  /\ current' # current => session'[current].flushing
               /\ \A t \in Sessions :
                     /\ flush'[t].held \in {t, NoSession}
                     /\ flush'[t].pc = "sleeping" =>
                          flush[t].pc = "sleeping" /\ session'[t].flushing = session[t].flushing
    <3>1. c = s /\ \A t \in Sessions : flush[t].held \in {t, NoSession}
      BY <1>1, <2>1 DEF IInv, Kept
    <3> QED
      BY <1>3, <1>5, <3>1
  <2> QED
    BY <1>2, <1>3, <1>5, <2>1, KeptAfterRelease
<1> QED
  BY <1>7, <1>8, <1>9, <1>10, <1>11, <1>12, <1>13 DEF IInv

-----------------------------------------------------------------------------
(* _execute_ban goes on: the same runners as before.                       *)
LEMMA BanProgressStep ==
  ASSUME IInv, NEW r \in Runners, BanProgress(r)
  PROVE  IInv'
<1>1. /\ ban' \in [Runners -> {"none", "running", "written", "failed"}]
      /\ \A q \in Runners : ban'[q] # "none" <=> ban[q] # "none"
      /\ UNCHANGED <<conv, entry, userData, current, session, flush, done, other>>
  BY DEF IInv, TypeOK, BanProgress
<1>2. \A s \in Sessions : /\ ban'[<<"done", s>>] # "none" <=> ban[<<"done", s>>] # "none"
                          /\ ban'[<<"flush", s>>] # "none" <=> ban[<<"flush", s>>] # "none"
  BY <1>1, Names
<1>3. TypeOK' /\ Fresh' /\ Tabled' /\ Keys'
  BY <1>1 DEF IInv, TypeOK, Fresh, Tabled, Keys
<1>4. Phases'
  <2> SUFFICES ASSUME NEW s \in Sessions PROVE PhaseOf(s)'
    BY DEF Phases
  <2> QED
    BY <1>1, <1>2 DEF IInv, Phases, PhaseOf
<1>5. Claims'
  BY <1>1, <1>2 DEF IInv, Claims
<1>6. Kept'
  BY <1>1 DEF IInv, Kept, NoSessionLost, DoneAborted
<1> QED
  BY <1>3, <1>4, <1>5, <1>6 DEF IInv

-----------------------------------------------------------------------------
(* A cancelled session is off the table, and its keys with it; its flush   *)
(* task is cancelled wherever it is.                                       *)
LEMMA CancelStep ==
  ASSUME IInv, CancelSession, other' = "cancelled",
         conv' \in {"none", "confirm", "proof"}, UNCHANGED <<entry, done, ban>>
  PROVE  IInv'
<1>1. /\ session \in [Sessions -> SessionRecords] /\ flush \in [Sessions -> FlushRecords]
      /\ current \in Sessions \cup {NoSession} /\ current' = NoSession /\ userData' = NoAttempt
  BY DEF IInv, TypeOK, SessionRecords, FlushRecords, CancelSession
<1>2. /\ session' \in [Sessions -> SessionRecords] /\ flush' \in [Sessions -> FlushRecords]
      /\ current # NoSession => session'[current].cancelled
      /\ \A t \in Sessions :
            /\ session'[t].made = session[t].made /\ session'[t].meta = session[t].meta
            /\ session'[t].flushing = session[t].flushing
            /\ session[t].cancelled => session'[t].cancelled
            /\ flush'[t].held = flush[t].held
            /\ t # current => session'[t] = session[t] /\ flush'[t] = flush[t]
            /\ t = current => flush'[t].pc =
                  IF flush[t].pc \in {"sleeping", "executing"} THEN "cancelled" ELSE flush[t].pc
  <2>1. CASE current = NoSession
    BY <1>1, <2>1, Names DEF CancelSession
  <2>2. CASE current \in Sessions
    <3>1. /\ session' = [session EXCEPT ![current].cancelled = TRUE]
          /\ flush' = [flush EXCEPT ![current] = CancelledTask(flush[current])]
      BY <2>2, Names DEF CancelSession
    <3>2. /\ session' \in [Sessions -> SessionRecords]
          /\ session'[current].cancelled
          /\ \A t \in Sessions :
                /\ session'[t].made = session[t].made /\ session'[t].meta = session[t].meta
                /\ session'[t].flushing = session[t].flushing
                /\ session[t].cancelled => session'[t].cancelled
                /\ t # current => session'[t] = session[t]
      BY <1>1, <2>2, <3>1 DEF SessionRecords
    <3>3. /\ flush' \in [Sessions -> FlushRecords]
          /\ \A t \in Sessions :
                /\ flush'[t].held = flush[t].held
                /\ t # current => flush'[t] = flush[t]
                /\ t = current => flush'[t].pc =
                      IF flush[t].pc \in {"sleeping", "executing"} THEN "cancelled" ELSE flush[t].pc
      BY <1>1, <2>2, <3>1, CancelledTasks
    <3> QED
      BY <3>2, <3>3
  <2> QED
    BY <1>1, <2>1, <2>2
<1>3. TypeOK'
  BY <1>1, <1>2 DEF IInv, TypeOK, SessionRecords, FlushRecords
<1>4. Fresh'
  <2>1. \A t \in Sessions : ~session[t].made => t # current
    BY Names DEF IInv, TypeOK
  <2> QED
    BY <1>2, <1>3, <2>1, FreshKept
<1>5. Phases'
  <2> SUFFICES ASSUME NEW t \in Sessions PROVE PhaseOf(t)'
    BY DEF Phases
  <2>1. CASE t = current
    <3>1. session'[t].cancelled
      BY <1>2, <2>1, Names
    <3> QED
      BY <1>2, <2>1, <3>1 DEF IInv, Phases, PhaseOf
  <2>2. CASE t # current
    BY <1>2, <2>2 DEF IInv, Phases, PhaseOf
  <2> QED
    BY <2>1, <2>2
<1>6. Claims'
  BY <1>2 DEF IInv, Claims
<1>7. Keys'
  BY <1>1, <1>2, KeysKept
<1>8. Tabled'
  BY <1>1 DEF Tabled
<1>9. Kept'
  <2> SUFFICES ASSUME ~DoneAborted' PROVE Kept'
    BY DEF Kept
  <2>1. ~DoneAborted
    BY <1>2, AbortStays
  <2>2. NoSessionLost'
    <3> SUFFICES ASSUME NEW t \in Sessions, session'[t].made, session'[t].meta # NoAttempt
                 PROVE  session'[t].flushing \/ session'[t].cancelled
      BY DEF NoSessionLost
    <3>1. current = t \/ session[t].flushing \/ session[t].cancelled
      BY <1>2, <2>1 DEF IInv, Kept, NoSessionLost
    <3> QED
      BY <1>2, <3>1, Names
  <2>3. \A t \in Sessions : flush'[t].pc # "sleeping" /\ flush'[t].held \in {t, NoSession}
    BY <1>2, <2>1 DEF IInv, Kept
  <2> QED
    BY <2>2, <2>3 DEF Kept
<1> QED
  BY <1>3, <1>4, <1>5, <1>6, <1>7, <1>8, <1>9 DEF IInv

-----------------------------------------------------------------------------
LEMMA Inductive == IInv /\ [Next]_vars => IInv'
<1> SUFFICES ASSUME IInv, [Next]_vars PROVE IInv'
  OBVIOUS
<1>1. CASE \E a \in Attempts : EntryStep(a)
  BY <1>1, EntryDispatchStep, EntryRejectsStep, EntryStoresKeysStep, EntryReturnsStep DEF EntryStep
<1>2. CASE \/ ContinueTapped \/ ContinueReads \/ ContinueReturns \/ LateProofDropped
           \/ Nudge \/ NudgeReturns \/ CancelTapped \/ CancelReturns
  BY <1>2, TapSteps
<1>3. CASE \E s \in Sessions : FirstProof(s) \/ ClaimByDone(s)
  BY <1>3, FirstProofStep, ClaimByDoneStep
<1>4. CASE \E s \in Sessions : DoneStep(s)
  BY <1>4, DoneAbortsStep, DoneExecutesStep, DoneReturnsStep DEF DoneStep
<1>5. CASE \E s \in Sessions : FlushStep(s)
  BY <1>5, WakeToNothingStep, SlideStep, WakeAndClaimStep, FlushReturnsStep, FlushUnwindsStep
     DEF FlushStep
<1>6. CASE NextProof \/ \E s \in Sessions : Overdue(s)
  BY <1>6, MediaSteps
<1>7. CASE \E r \in Runners : BanProgress(r)
  BY <1>7, BanProgressStep
<1>8. CASE CancelActs \/ TimeoutActs
  <2>1. conv \in {"none", "confirm", "proof"}
    BY DEF IInv, TypeOK
  <2> QED
    BY <1>8, <2>1, CancelStep DEF CancelActs, TimeoutActs
<1>9. CASE UNCHANGED vars
  <2>1. TypeOK' /\ Keys' /\ UNCHANGED <<current, session, flush, done, ban>>
    BY <1>9 DEF vars, IInv, TypeOK, Keys
  <2> QED
    BY <2>1, Outside
<1> QED
  BY <1>1, <1>2, <1>3, <1>4, <1>5, <1>6, <1>7, <1>8, <1>9 DEF Next

LEMMA Holds == Spec => []IInv
  BY Initially, Inductive, PTL DEF Spec, Safety

(* Sessions, their flush tasks and their Done taps keep their types, and   *)
(* what is on the table was created.                                       *)
THEOREM TypeCorrect == Spec => []TypeOK
<1>1. IInv => TypeOK
  BY DEF IInv
<1> QED
  BY <1>1, Holds, PTL

(* However many commands, sessions and stray flush tasks there are: a      *)
(* /tcban is executed at most once (ban_flow.py:705-842).                  *)
THEOREM ExecutedOnce == Spec => []OneExecutionPerAttempt
<1>1. IInv => OneExecutionPerAttempt
  <2> SUFFICES ASSUME IInv, NEW q \in Runners, NEW r \in Runners,
                      ban[q] # "none", ban[r] # "none", Banned(q) = Banned(r)
               PROVE  q = r
    BY DEF OneExecutionPerAttempt
  <2>1. ASSUME NEW x \in Runners, ban[x] # "none"
        PROVE  /\ RunnerSession(x) \in Sessions
               /\ session[RunnerSession(x)].meta # NoAttempt
    <3>1. PICK s \in Sessions : x = <<"done", s>> \/ x = <<"flush", s>>
      BY RunnerNames
    <3>2. CASE x = <<"done", s>>
      BY <2>1, <3>1, <3>2 DEF IInv, Claims, RunnerSession
    <3>3. CASE x = <<"flush", s>>
      BY <2>1, <3>1, <3>3 DEF IInv, Claims, RunnerSession
    <3> QED
      BY <3>1, <3>2, <3>3
  <2>2. RunnerSession(q) = RunnerSession(r)
    BY <2>1 DEF IInv, Keys, Banned
  <2>3. PICK s \in Sessions : q = <<"done", s>> \/ q = <<"flush", s>>
    BY RunnerNames
  <2>4. PICK t \in Sessions : r = <<"done", t>> \/ r = <<"flush", t>>
    BY RunnerNames
  <2>5. \A u, v \in Sessions : ban[<<"done", u>>] # "none" /\ ban[<<"flush", v>>] # "none" =>
            flush[v].held # u
    BY DEF IInv, Claims, Phases, PhaseOf
  <2>6. CASE q = <<"done", s>> /\ r = <<"done", t>>
    BY <2>2, <2>6 DEF RunnerSession
  <2>7. CASE q = <<"flush", s>> /\ r = <<"flush", t>>
    BY <2>2, <2>7 DEF RunnerSession, IInv, Claims
  <2>8. CASE q = <<"done", s>> /\ r = <<"flush", t>>
    BY <2>2, <2>5, <2>8 DEF RunnerSession
  <2>9. CASE q = <<"flush", s>> /\ r = <<"done", t>>
    BY <2>2, <2>5, <2>9 DEF RunnerSession
  <2> QED
    BY <2>3, <2>4, <2>6, <2>7, <2>8, <2>9
<1> QED
  BY <1>1, Holds, PTL

(* However many sessions the conversation goes through: none with a ban's  *)
(* metadata drops off the table unclaimed and uncancelled, unless a Done   *)
(* tap aborted (ban_flow.py:787-790, :837-840).                            *)
THEOREM NothingLost == Spec => []NoSessionLost
<1>1. IInv => NoSessionLost
  <2> SUFFICES ASSUME IInv PROVE NoSessionLost
    OBVIOUS
  <2>1. CASE DoneAborted
    BY <2>1 DEF NoSessionLost
  <2>2. CASE ~DoneAborted
    BY <2>2 DEF IInv, Kept
  <2> QED
    BY <2>1, <2>2
<1> QED
  BY <1>1, Holds, PTL

-----------------------------------------------------------------------------
(* What a step does to the sessions: claim the one on the table, cancel    *)
(* it, move its window as long as nobody claimed it, or create one.        *)
LEMMA SessionChanges ==
  ASSUME IInv, [Next]_vars, NEW s \in Sessions, session'[s] # session[s]
  PROVE  \/ (~session[s].flushing /\ (session'[s].flushing => ~session[s].cancelled))
         \/ (current = s /\ CancelSession)
<1>1. /\ session \in [Sessions -> SessionRecords]
      /\ current \in Sessions \cup {NoSession}
  BY DEF IInv, TypeOK, SessionRecords
<1>2. CASE \E c \in Sessions : FirstProof(c)
  <2> PICK c \in Sessions : FirstProof(c)
    BY <1>2
  <2>1. session' = [session EXCEPT ![c] = [Unmade EXCEPT !.made = TRUE, !.meta = userData]]
    BY DEF FirstProof
  <2>2. c = s /\ session[s] = Unmade
    BY <1>1, <2>1 DEF FirstProof, IInv, Fresh
  <2> QED
    BY <2>2 DEF Unmade
<1>3. CASE \E c \in Sessions : ClaimByDone(c)
  BY <1>1, <1>3, Names DEF ClaimByDone, IInv, Tabled
<1>4. CASE \E c \in Sessions : WakeAndClaim(c)
  BY <1>1, <1>4 DEF WakeAndClaim
<1>5. CASE NextProof \/ \E c \in Sessions : WakeAndSlide(c) \/ Overdue(c)
  <2>1. current \in Sessions /\ ~session[current].flushing
    BY <1>1, <1>5, Names DEF NextProof, WakeAndSlide, Overdue
  <2>2. \E w : session' = [session EXCEPT ![current].window = w]
    BY <1>5 DEF NextProof, WakeAndSlide, Overdue
  <2>3. current = s /\ session'[s].flushing = session[s].flushing
    BY <1>1, <2>1, <2>2 DEF SessionRecords
  <2> QED
    BY <2>1, <2>3
<1>6. CASE CancelActs \/ TimeoutActs
  <2>1. CancelSession
    BY <1>6 DEF CancelActs, TimeoutActs
  <2>2. current = s
    BY <1>1, <2>1 DEF CancelSession
  <2> QED
    BY <2>1, <2>2
<1>7. CASE UNCHANGED session
  BY <1>7
<1> QED
  BY <1>2, <1>3, <1>4, <1>5, <1>6, <1>7
     DEF Next, vars, EntryStep, EntryDispatch, EntryRejects, EntryStoresKeys, EntryReturns,
         ContinueTapped, ContinueReads, ContinueReturns, DoneStep, DoneAborts, DoneExecutes,
         DoneReturns, FlushStep, WakeToNothing, FlushReturns, FlushUnwinds, LateProofDropped,
         Nudge, NudgeReturns, BanProgress, CancelTapped, CancelReturns

(* What Cancel does to the session on the table.                           *)
LEMMA CancelChanges ==
  ASSUME IInv, CancelSession, NEW s \in Sessions, current = s
  PROVE  session'[s].flushing = session[s].flushing /\ session'[s].window = session[s].window
<1>1. session \in [Sessions -> SessionRecords] /\ current # NoSession
  BY Names DEF IInv, TypeOK, SessionRecords
<1>2. session' = [session EXCEPT ![s].cancelled = TRUE]
  BY <1>1 DEF CancelSession
<1> QED
  BY <1>1, <1>2 DEF SessionRecords

(* Whoever claims, and whatever arrives while it executes: the proof it    *)
(* uploads is the proof it claimed (ban_flow.py:705-842).                  *)
THEOREM ProofStays == Spec => ClaimedProofIsFrozen
<1>1. IInv /\ [Next]_vars =>
        [\A s \in Sessions : session[s].flushing => session'[s].window = session[s].window]_vars
  BY SessionChanges, CancelChanges
<1> QED
  BY <1>1, Holds, PTL DEF Spec, Safety, ClaimedProofIsFrozen

(* However late its flush task or a Done tap comes: what was cancelled     *)
(* before anybody claimed it is not executed (ban_flow.py:129-147).        *)
THEOREM CancelIsFinal == Spec => CancelledIsNeverClaimed
<1>1. IInv /\ [Next]_vars =>
        [\A s \in Sessions :
            session[s].cancelled /\ ~session[s].flushing => ~session'[s].flushing]_vars
  BY SessionChanges, CancelChanges
<1> QED
  BY <1>1, Holds, PTL DEF Spec, Safety, CancelledIsNeverClaimed

=============================================================================
