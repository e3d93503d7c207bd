---------------------------- MODULE FanOutProofs ----------------------------
(***************************************************************************)
(* What the dispatcher keeps for every set of batches and groups, every    *)
(* semaphore size and every threshold.  The breaker's own invariants are   *)
(* not proved again: FanOut implements CircuitBreaker, so                  *)
(* CircuitBreakerProofs applies to it.                                     *)
(***************************************************************************)
EXTENDS FanOut, Warns, FiniteSetTheorems, WellFoundedInduction, TLAPS

BP == INSTANCE CircuitBreakerProofs WITH Calls <- Slots

-----------------------------------------------------------------------------
(* Every step of the dispatcher is a step of the breaker, or none.         *)
LEMMA StepImplements == [Next]_vars => [Breaker!Next]_breakerVars
<1> SUFFICES ASSUME [Next]_vars
             PROVE  Breaker!Next \/ UNCHANGED breakerVars
  OBVIOUS
<1>1. ASSUME NEW b \in Batches, Start(b) \/ Cancel(b) \/ Return(b)
      PROVE  UNCHANGED breakerVars
  BY <1>1 DEF Start, Cancel, Return
<1>2. ASSUME NEW s \in Slots, SlotStep(s)
      PROVE  Breaker!Next \/ UNCHANGED breakerVars
  <2>1. CASE Enter(s)
    BY <2>1 DEF Enter, Breaker!Next, Breaker!TryAcquire
  <2>2. CASE Succeed(s) \/ FailNetwork(s) \/ FailRefused(s)
    BY <2>2 DEF Succeed, FailNetwork, FailRefused, Breaker!Next, Breaker!Settle
  <2>3. CASE CancelSlot(s)
    BY <2>3 DEF CancelSlot, Breaker!Next, Breaker!Settle
  <2>4. QED
    BY <1>2, <2>1, <2>2, <2>3 DEF SlotStep
<1>3. CASE Environment
  BY <1>3 DEF Environment, Breaker!Next
<1>4. CASE Finished \/ UNCHANGED vars
  BY <1>4 DEF Finished, vars
<1>5. QED
  BY <1>1, <1>2, <1>3, <1>4 DEF Next

(* Whatever fan_out does, it uses the breaker as circuit_breaker.py means  *)
(* it to be used: one outcome reported for every admission.                *)
THEOREM Implements == Spec => ImplementsBreaker
<1>1. Init => Breaker!Init
  BY DEF Init
<1>2. [Next]_vars => [Breaker!Next]_(Breaker!breakerVars)
  BY StepImplements DEF breakerVars, Breaker!breakerVars
<1>3. QED
  BY <1>1, <1>2, PTL DEF Spec, ImplementsBreaker, Breaker!Safety

(* The breaker named by FanOut and the one named here are the same.        *)
LEMMA SameBreaker == Breaker!Safety => BP!Safety
<1>1. Breaker!Init => BP!Init
  BY DEF Breaker!Init, BP!Init
<1>2. ASSUME NEW s \in Slots
      PROVE  /\ Breaker!TryAcquire(s) => BP!TryAcquire(s)
             /\ Breaker!Settle(s) => BP!Settle(s)
  BY DEF Breaker!TryAcquire, Breaker!Admit, Breaker!Refuse, Breaker!State,
         BP!TryAcquire, BP!Admit, BP!Refuse, BP!State,
         Breaker!Settle, Breaker!RecordSuccess, Breaker!RecordFailure,
         Breaker!ReleaseProbe, Breaker!InFlight, Breaker!Saturated, Breaker!Trips,
         BP!Settle, BP!RecordSuccess, BP!RecordFailure,
         BP!ReleaseProbe, BP!InFlight, BP!Saturated, BP!Trips
<1>3. [Breaker!Next]_(Breaker!breakerVars) => [BP!Next]_(BP!breakerVars)
  BY <1>2 DEF Breaker!Next, Breaker!Elapse, Breaker!Reset, Breaker!HealthTest,
         Breaker!HealthStore, Breaker!breakerVars,
         BP!Next, BP!Elapse, BP!Reset, BP!HealthTest, BP!HealthStore, BP!breakerVars
<1>4. QED
  BY <1>1, <1>3, PTL DEF Breaker!Safety, BP!Safety

(* Hence everything CircuitBreakerProofs shows of the breaker.             *)
LEMMA BreakerInvariant == Spec => []BP!IInv
<1>1. BP!ThresholdAssumption
  BY CountAssumption DEF CountAssumption, BP!ThresholdAssumption
<1>2. QED
  BY <1>1, Implements, SameBreaker, BP!SafetyKeepsIInv, PTL DEF ImplementsBreaker

-----------------------------------------------------------------------------
(* The dispatcher's own part of the invariant. *)

\* A slot is in its call exactly when the breaker counts it in flight.
Linked == \A s \in Slots : slot[s] = "calling" <=> call[s] # "idle"

Untouched ==
    \A b \in Batches : batch[b] = "idle" => \A s \in SlotsOf(b) : slot[s] = "unborn"

Complete ==
    \A b \in Batches : batch[b] = "returned" =>
        \A s \in SlotsOf(b) : slot[s] \in Ended \ {"cancelled"}

NetworkSlots == {s \in Slots : slot[s] = "network"}
Failed == Cardinality(NetworkSlots)

\* What the circuit remembers, real network failures justify.
Justified ==
    /\ failureCount <= Failed
    /\ circuit # "closed" \/ healthSawOpen => Failed >= FailureThreshold

DInv ==
    /\ slot \in [Slots -> Ended \cup {"unborn", "queued", "calling"}]
    /\ batch \in [Batches -> {"idle", "running", "cancelling", "returned", "cancelled"}]
    /\ Linked
    /\ Untouched
    /\ Complete
    /\ Justified
    /\ SkipsNeedNetworkFailures

LEMMA SlotsFinite == IsFiniteSet(NetworkSlots) /\ Failed \in Nat
<1>1. IsFiniteSet(Slots)
  BY FiniteAssumption, FS_Product DEF FiniteAssumption, Slots
<1>2. NetworkSlots \subseteq Slots
  BY DEF NetworkSlots
<1>3. QED
  BY <1>1, <1>2, FS_Subset, FS_CardinalityType DEF Failed

\* A step that leaves the network failures alone leaves their number alone.
LEMMA SameFailed == NetworkSlots' = NetworkSlots => Failed' = Failed
BY DEF Failed

LEMMA OneMoreFailed ==
  ASSUME NEW s \in Slots, s \notin NetworkSlots, NetworkSlots' = NetworkSlots \cup {s}
  PROVE  Failed' = Failed + 1
BY SlotsFinite, FS_AddElement DEF Failed

LEMMA InitDInv == Init => DInv
<1> SUFFICES ASSUME Init PROVE DInv
  OBVIOUS
<1>1. Linked /\ Untouched /\ Complete /\ SkipsNeedNetworkFailures
  BY DEF Init, Breaker!Init, Linked, Untouched, Complete, SkipsNeedNetworkFailures, SlotsOf, Slots
<1>2. Justified
  BY SlotsFinite DEF Init, Breaker!Init, Justified
<1>3. QED
  BY <1>1, <1>2 DEF DInv, Init

-----------------------------------------------------------------------------
\* The types a step relies on, taken from the breaker's invariant.
Typed ==
    /\ call \in [Slots -> {"idle", "normal", "probe"}]
    /\ failureCount \in 0..FailureThreshold

LEMMA BreakerTypes == BP!IInv => Typed
BY DEF BP!IInv, BP!TypeOK, Typed

(* A batch starts: its slots, all unborn, are queued. *)
LEMMA StartKeepsDInv ==
  ASSUME DInv, NEW b \in Batches, Start(b)
  PROVE  DInv'
<1>1. \A s \in SlotsOf(b) : slot[s] = "unborn"
  BY DEF DInv, Untouched, Start
<1>2. /\ slot' \in [Slots -> Ended \cup {"unborn", "queued", "calling"}]
      /\ batch' \in [Batches -> {"idle", "running", "cancelling", "returned", "cancelled"}]
      /\ \A s \in Slots : slot'[s] # slot[s] => slot[s] = "unborn" /\ slot'[s] = "queued"
  BY <1>1 DEF DInv, Start
<1>3. Linked' /\ Complete' /\ NetworkSlots' = NetworkSlots
  BY <1>2 DEF DInv, Linked, Complete, NetworkSlots, Start, breakerVars, SlotsOf, Slots, Ended, Failures
<1>4. Untouched'
  BY DEF DInv, Untouched, Start, SlotsOf, Slots
<1>5. Justified' /\ SkipsNeedNetworkFailures'
  BY <1>2, <1>3, SameFailed
  DEF DInv, Justified, SkipsNeedNetworkFailures, Failed, NetworkSlots, Start, breakerVars
<1>6. QED
  BY <1>2, <1>3, <1>4, <1>5 DEF DInv

(* A batch is cancelled or returns: no slot moves. *)
LEMMA BatchKeepsDInv ==
  ASSUME DInv, NEW b \in Batches, Cancel(b) \/ Return(b)
  PROVE  DInv'
<1>1. UNCHANGED <<breakerVars, slot>>
  BY DEF Cancel, Return
<1>2. /\ batch' \in [Batches -> {"idle", "running", "cancelling", "returned", "cancelled"}]
      /\ \A d \in Batches : batch'[d] = "idle" => batch[d] = "idle"
  BY DEF DInv, Cancel, Return
<1>3. Linked' /\ Untouched'
  BY <1>1, <1>2 DEF DInv, Linked, Untouched, breakerVars
<1>4. Complete'
  BY <1>1 DEF DInv, Complete, Cancel, Return
<1>5. Justified' /\ SkipsNeedNetworkFailures'
  BY <1>1 DEF DInv, Justified, SkipsNeedNetworkFailures, Failed, NetworkSlots, breakerVars
<1>6. QED
  BY <1>1, <1>2, <1>3, <1>4, <1>5 DEF DInv

(* A slot step touches one slot, of a batch that is neither idle nor       *)
(* returned, and never a slot that already failed on the network.          *)
LEMMA OneSlotMoves ==
  ASSUME DInv, NEW s \in Slots, NEW r \in Ended \cup {"calling"},
         slot' = [slot EXCEPT ![s] = r], UNCHANGED batch,
         slot[s] \in {"queued", "calling"},
         batch[s[1]] \in {"running", "cancelling"}
  PROVE  /\ slot' \in [Slots -> Ended \cup {"unborn", "queued", "calling"}]
         /\ batch' \in [Batches -> {"idle", "running", "cancelling", "returned", "cancelled"}]
         /\ Untouched' /\ Complete'
         /\ r # "network" => NetworkSlots' = NetworkSlots
         /\ r = "network" => /\ s \notin NetworkSlots
                             /\ NetworkSlots' = NetworkSlots \cup {s}
<1>1. /\ slot' \in [Slots -> Ended \cup {"unborn", "queued", "calling"}]
      /\ batch' \in [Batches -> {"idle", "running", "cancelling", "returned", "cancelled"}]
  BY DEF DInv
<1>2. \A b \in Batches : s \in SlotsOf(b) => batch[b] \in {"running", "cancelling"}
  BY DEF SlotsOf, Slots
<1>3. \A b \in Batches : \A q \in SlotsOf(b) : q \in Slots
  BY DEF SlotsOf, Slots
<1>4. Untouched' /\ Complete'
  BY <1>2, <1>3 DEF DInv, Untouched, Complete, SlotsOf
<1>5. /\ r # "network" => NetworkSlots' = NetworkSlots
      /\ r = "network" => /\ s \notin NetworkSlots
                          /\ NetworkSlots' = NetworkSlots \cup {s}
  BY DEF DInv, NetworkSlots
<1>6. QED
  BY <1>1, <1>4, <1>5

(* A refusal by the breaker is the only way to skip, and the breaker       *)
(* refuses only when its circuit is not closed.                            *)
LEMMA EnterKeepsDInv ==
  ASSUME DInv, Typed, NEW s \in Slots, Enter(s)
  PROVE  DInv'
<1>1. CASE Breaker!Admit(s) /\ slot' = [slot EXCEPT ![s] = "calling"]
  <2>1. NetworkSlots' = NetworkSlots /\ Untouched' /\ Complete'
        /\ slot' \in [Slots -> Ended \cup {"unborn", "queued", "calling"}]
        /\ batch' \in [Batches -> {"idle", "running", "cancelling", "returned", "cancelled"}]
    BY <1>1, OneSlotMoves DEF Enter
  <2>2. Linked'
    BY <1>1 DEF DInv, Linked, Typed, Breaker!Admit
  <2>3. Failed' = Failed
    BY <2>1, SameFailed
  <2>4. Justified'
    BY <1>1, <2>3 DEF DInv, Justified, Breaker!Admit, Breaker!State
  <2>5. SkipsNeedNetworkFailures'
    BY <1>1, <2>3 DEF DInv, SkipsNeedNetworkFailures, Failed, NetworkSlots
  <2>6. QED
    BY <2>1, <2>2, <2>4, <2>5 DEF DInv
<1>2. CASE Breaker!Refuse(s) /\ slot' = [slot EXCEPT ![s] = "skipped"]
  <2>1. NetworkSlots' = NetworkSlots /\ Untouched' /\ Complete'
        /\ slot' \in [Slots -> Ended \cup {"unborn", "queued", "calling"}]
        /\ batch' \in [Batches -> {"idle", "running", "cancelling", "returned", "cancelled"}]
    BY <1>2, OneSlotMoves DEF Enter, Ended, Failures
  <2>2. Linked'
    BY <1>2 DEF Enter, DInv, Linked, Breaker!Refuse
  <2>3. Failed' = Failed
    BY <2>1, SameFailed
  <2>4. circuit # "closed"
    BY <1>2 DEF Breaker!Refuse, Breaker!State
  <2>5. Justified'
    BY <1>2, <2>3, <2>4 DEF DInv, Justified, Breaker!Refuse, Breaker!State
  <2>6. SkipsNeedNetworkFailures'
    BY <2>3, <2>4 DEF DInv, Justified, SkipsNeedNetworkFailures, Failed, NetworkSlots
  <2>7. QED
    BY <2>1, <2>2, <2>5, <2>6 DEF DInv
<1>3. QED
  BY <1>1, <1>2 DEF Enter

(* Outcomes the breaker does not count against the network: a success, an  *)
(* answer that refuses, a cancelled slot.                                  *)
LEMMA QuietOutcomeKeepsDInv ==
  ASSUME DInv, Typed, NEW s \in Slots,
         Succeed(s) \/ FailRefused(s) \/ CancelSlot(s)
  PROVE  DInv'
<1>1. PICK r \in {"ok", "benign", "refused", "cancelled"} :
        slot' = [slot EXCEPT ![s] = r]
  BY DEF Succeed, FailRefused, CancelSlot
<1>2. /\ UNCHANGED batch
      /\ slot[s] \in {"queued", "calling"}
      /\ batch[s[1]] \in {"running", "cancelling"}
  BY DEF Succeed, FailRefused, CancelSlot
<1>3. r \in Ended /\ r # "network" /\ r # "skipped" /\ r # "calling"
  BY DEF Ended, Failures
<1>4. NetworkSlots' = NetworkSlots /\ Untouched' /\ Complete'
      /\ slot' \in [Slots -> Ended \cup {"unborn", "queued", "calling"}]
      /\ batch' \in [Batches -> {"idle", "running", "cancelling", "returned", "cancelled"}]
  BY <1>1, <1>2, <1>3, OneSlotMoves
<1>5. Failed' = Failed
  BY <1>4, SameFailed
<1>6. /\ call' = [call EXCEPT ![s] = "idle"]
      /\ failureCount' \in {0, failureCount}
      /\ circuit' \in {"closed", circuit}
      /\ UNCHANGED healthSawOpen
  <2>1. CASE Succeed(s)
    BY <2>1 DEF Succeed, Breaker!RecordSuccess
  <2>2. CASE FailRefused(s)
    BY <2>2 DEF FailRefused, Breaker!ReleaseProbe
  <2>3. CASE CancelSlot(s) /\ slot[s] = "calling"
    BY <2>3 DEF CancelSlot, Breaker!ReleaseProbe
  <2>4. CASE CancelSlot(s) /\ slot[s] = "queued"
    <3>1. call[s] = "idle"
      BY <2>4 DEF DInv, Linked
    <3>2. QED
      BY <2>4, <3>1 DEF CancelSlot, breakerVars, Typed
  <2>5. QED
    BY <1>2, <2>1, <2>2, <2>3, <2>4
<1>7. Linked'
  BY <1>1, <1>3, <1>6 DEF DInv, Linked, Typed
<1>8. Justified'
  BY <1>5, <1>6, SlotsFinite DEF DInv, Justified
<1>9. SkipsNeedNetworkFailures'
  BY <1>1, <1>3, <1>5 DEF DInv, SkipsNeedNetworkFailures, Failed, NetworkSlots
<1>10. QED
  BY <1>4, <1>7, <1>8, <1>9 DEF DInv

(* The one outcome that is counted adds a network slot for the failure it  *)
(* adds to the counter.                                                    *)
LEMMA NetworkOutcomeKeepsDInv ==
  ASSUME DInv, Typed, NEW s \in Slots, FailNetwork(s)
  PROVE  DInv'
<1>1. /\ s \notin NetworkSlots
      /\ NetworkSlots' = NetworkSlots \cup {s}
      /\ Untouched' /\ Complete'
      /\ slot' \in [Slots -> Ended \cup {"unborn", "queued", "calling"}]
      /\ batch' \in [Batches -> {"idle", "running", "cancelling", "returned", "cancelled"}]
  BY OneSlotMoves DEF FailNetwork, Ended, Failures
<1>2. Failed' = Failed + 1
  BY <1>1, OneMoreFailed
<1>3. Linked'
  BY DEF FailNetwork, Breaker!RecordFailure, DInv, Linked, Typed
<1>4. Justified'
  <2>1. failureCount' <= failureCount + 1
    BY CountAssumption
    DEF CountAssumption, FailNetwork, Breaker!RecordFailure, Breaker!Saturated, Typed
  <2>2. failureCount' <= Failed'
    <3>1. failureCount \in Nat /\ failureCount' \in Nat
      BY CountAssumption
      DEF CountAssumption, FailNetwork, Breaker!RecordFailure, Breaker!Saturated, Typed
    <3>2. QED
      BY <1>2, <2>1, <3>1, SlotsFinite DEF DInv, Justified
  <2>3. CASE Breaker!Trips
    BY <1>2, <2>2, <2>3, SlotsFinite, CountAssumption
    DEF CountAssumption, DInv, Justified, Typed, Breaker!Trips
  <2>4. CASE ~Breaker!Trips
    BY <1>2, <2>2, <2>4, SlotsFinite, CountAssumption
    DEF CountAssumption, FailNetwork, Breaker!RecordFailure, DInv, Justified
  <2>5. QED
    BY <2>3, <2>4
<1>5. SkipsNeedNetworkFailures'
  <2>1. (\E q \in Slots : slot'[q] = "skipped") => Failed >= FailureThreshold
    BY DEF FailNetwork, DInv, SkipsNeedNetworkFailures, Failed, NetworkSlots
  <2>2. Failed >= FailureThreshold => Failed' >= FailureThreshold
    BY <1>2, SlotsFinite, CountAssumption DEF CountAssumption
  <2>3. QED
    BY <2>1, <2>2 DEF SkipsNeedNetworkFailures, Failed, NetworkSlots
<1>6. QED
  BY <1>1, <1>3, <1>4, <1>5 DEF DInv

LEMMA NextKeepsDInv == DInv /\ BP!IInv /\ [Next]_vars => DInv'
<1> SUFFICES ASSUME DInv, Typed, [Next]_vars
             PROVE  DInv'
  BY BreakerTypes
<1>1. ASSUME NEW b \in Batches, Start(b) \/ Cancel(b) \/ Return(b)
      PROVE  DInv'
  BY <1>1, StartKeepsDInv, BatchKeepsDInv
<1>2. ASSUME NEW s \in Slots, SlotStep(s)
      PROVE  DInv'
  BY <1>2, EnterKeepsDInv, QuietOutcomeKeepsDInv, NetworkOutcomeKeepsDInv DEF SlotStep
<1>3. CASE Environment
  <2>1. /\ UNCHANGED <<slot, batch, call, failureCount>>
        /\ circuit' # "closed" \/ healthSawOpen' => circuit # "closed" \/ healthSawOpen
    BY <1>3 DEF Environment, Breaker!Elapse, Breaker!HealthTest, Breaker!HealthStore
  <2>2. QED
    BY <2>1 DEF DInv, Linked, Untouched, Complete, Justified,
                SkipsNeedNetworkFailures, Failed, NetworkSlots
<1>4. CASE Finished \/ UNCHANGED vars
  BY <1>4 DEF Finished, vars, breakerVars, DInv, Linked, Untouched, Complete, Justified,
              SkipsNeedNetworkFailures, Failed, NetworkSlots
<1>5. QED
  BY <1>1, <1>2, <1>3, <1>4 DEF Next

LEMMA Invariants == Spec => [](DInv /\ BP!IInv)
BY InitDInv, NextKeepsDInv, BreakerInvariant, PTL DEF Spec

-----------------------------------------------------------------------------
(* Groups are skipped only after FailureThreshold real network failures,   *)
(* for any number of concurrent batches (dispatch.py:101-119).             *)
THEOREM SkipsAreJustified == Spec => []SkipsNeedNetworkFailures
<1>1. DInv => SkipsNeedNetworkFailures
  BY DEF DInv
<1>2. QED
  BY <1>1, Invariants, PTL

(* A returned list accounts for every group (dispatch.py:130-199).         *)
THEOREM ListsAreComplete == Spec => []ReturnedListIsComplete
<1>1. DInv => ReturnedListIsComplete
  <2> SUFFICES ASSUME DInv, NEW b \in Batches, batch[b] = "returned"
               PROVE  /\ \A s \in SlotsOf(b) : slot[s] \in Ended \ {"cancelled"}
                      /\ TransientErrors(b) = 0
                            => \A s \in SlotsOf(b) : slot[s] \in {"ok", "benign"}
    BY DEF ReturnedListIsComplete
  <2>1. \A s \in SlotsOf(b) : slot[s] \in Ended \ {"cancelled"}
    BY DEF DInv, Complete
  <2>2. ASSUME TransientErrors(b) = 0, NEW s \in SlotsOf(b)
        PROVE  slot[s] \in {"ok", "benign"}
    <3> DEFINE T == {q \in SlotsOf(b) : Transient(q)}
    <3>1. IsFiniteSet(SlotsOf(b))
      BY FiniteAssumption, FS_Singleton, FS_Product DEF FiniteAssumption, SlotsOf
    <3>2. IsFiniteSet(T)
      BY <3>1, FS_Subset
    <3>3. T = {}
      BY <2>2, <3>2, FS_EmptySet DEF TransientErrors
    <3>4. ~Transient(s)
      BY <3>3
    <3>5. QED
      BY <2>1, <3>4 DEF Transient, Ended, Failures
  <2>3. QED
    BY <2>1, <2>2
<1>2. QED
  BY <1>1, Invariants, PTL

(* No batch, however it ends, leaves the probe slot reserved               *)
(* (dispatch.py:105-128).                                                  *)
THEOREM IdleAdmitsProbe == Spec => []IdleBreakerAdmitsProbe
<1>1. DInv /\ BP!IInv => IdleBreakerAdmitsProbe
  BY DEF DInv, Linked, BP!IInv, BP!ProbeHeldByCall, IdleBreakerAdmitsProbe
<1>2. QED
  BY <1>1, Invariants, PTL

-----------------------------------------------------------------------------
(***************************************************************************)
(* The warnings, whose auto-ban is one of the dispatcher's callers, for    *)
(* every set of handlers, every finite set of chats, both limits and any   *)
(* number of warnings.  What holds in between is a balance: the counter of *)
(* a chat and the warnings that running handlers have yet to count (Owing) *)
(* add up to its history and the removals that only the counter has seen   *)
(* (Leading), or some handler is still about to set it right.              *)
(***************************************************************************)

\* The places of a handler.
WarnPlaces == {"inc", "rollback", "fed", "autoban"}
UnwarnPlaces == {"backfill", "newest", "remove", "recount", "store", "reread"}

Halves == SUBSET {"warns", "count"}

WarnRecords ==
    {r \in [op : {"none", "warn", "unwarn", "reset", "expire"},
            pc : {"idle", "clear"} \cup WarnPlaces \cup UnwarnPlaces,
            chat : Chats \cup {"none"}, n : 0..MaxWarns, doc : 0..MaxWarns,
            todo : Halves,
            repair : BOOLEAN, gone : BOOLEAN, shared : BOOLEAN] :
       /\ r.pc = "idle" => r = NoTask
       /\ r.pc \in WarnPlaces => r.op = "warn"
       /\ r.pc \in UnwarnPlaces => r.op = "unwarn"
       /\ r.pc = "clear" => r.op \in {"warn", "reset", "expire"} /\ r.todo # {}
       /\ r.pc = "remove" => r.todo # {}
       /\ r.repair => r.pc = "remove"
       /\ r.op \in {"warn", "unwarn", "reset"} => r.chat \in Chats}

WarnsTypes ==
    /\ issued \in 0..MaxWarns
    /\ horizon \in 0..issued
    /\ hist \in [Chats -> SUBSET (1..issued)]
    /\ counts \in [Chats -> [there : BOOLEAN, n : Nat, stale : BOOLEAN]]
    /\ \A c \in Chats : ~counts[c].there => counts[c] = NoCounter
    /\ task \in [Tasks -> WarnRecords]
    /\ \A t \in Tasks : task[t].doc <= issued
    /\ doubt \subseteq Chats
    /\ excused \subseteq Limits
    /\ IsFiniteSet(Active)

-----------------------------------------------------------------------------
(* The balance of a chat. *)

\* r works on the history or the counter of c.
WorksOn(r, c) == r.pc \notin {"idle", "fed", "autoban"} /\ c \in Scope(r)

\* r has a warning of c on record that it has yet to count, or it has already
\* taken one from the counter; or the other way round.
Owes(r, c) ==
    /\ WorksOn(r, c)
    /\ \/ r.pc \in {"inc", "rollback"}
       \/ r.pc = "remove" /\ ~r.repair /\ r.todo = {"warns"}
Leads(r, c) == WorksOn(r, c) /\ r.pc = "remove" /\ ~r.repair /\ r.todo = {"count"}

\* r is on its way to set the counter of c right, or to put it in doubt.
Unsettled(r, c) ==
    /\ WorksOn(r, c)
    /\ r.pc \in {"clear", "recount", "store"} \/ (r.pc = "remove" /\ r.repair)

Owing(tasks, c) == {t \in Tasks : Owes(tasks[t], c)}
Leading(tasks, c) == {t \in Tasks : Leads(tasks[t], c)}

Balanced(c) ==
    counts[c].n + Cardinality(Owing(task, c)) = Cardinality(hist[c]) + Cardinality(Leading(task, c))

Settled(c) == c \notin doubt => Balanced(c) \/ \E t \in Tasks : Unsettled(task[t], c)
BalanceInv == \A c \in Chats : Settled(c)

\* r has yet to count warning i of c.
Counts(r, c, i) == r.pc \in {"inc", "rollback"} /\ r.chat = c /\ r.doc = i

\* A counter that is stale counts no warning younger than the horizon.
Dated(c) ==
    c \notin doubt /\ counts[c].stale =>
        \A i \in hist[c] : i <= horizon \/ \E t \in Tasks : Counts(task[t], c, i)
StaleInv == \A c \in Chats : Dated(c)

\* Two handlers that work on one chat know it.
MeetingInv ==
    \A t, u \in Tasks : \A c \in Chats :
        t # u /\ WorksOn(task[t], c) /\ WorksOn(task[u], c) => task[t].shared

\* What a handler that met nobody knows of a chat it works on.
Knows(r, c) ==
    /\ r.pc \in {"inc", "rollback"} => r.doc \in hist[c]
    /\ r.pc \in {"backfill", "store"} => r.n = Cardinality(hist[c])
    /\ r.pc = "clear" /\ c \notin doubt =>
         IF r.todo = {"warns"}
         THEN \/ counts[c].n = 0 /\ (r.op = "expire" => \A i \in hist[c] : i <= horizon)
              \/ r.op = "expire" /\ ~counts[c].stale /\ counts[c].n = Cardinality(hist[c])
         ELSE IF r.todo = {"count"}
         THEN \/ hist[c] = {} /\ (r.op = "expire" => counts[c].stale \/ counts[c].n = 0)
              \/ r.op = "expire" /\ ~counts[c].stale /\ counts[c].n = Cardinality(hist[c])
         ELSE counts[c].n = Cardinality(hist[c])

KnowsInv ==
    \A t \in Tasks : \A c \in Chats : WorksOn(task[t], c) /\ ~task[t].shared => Knows(task[t], c)

-----------------------------------------------------------------------------
(* The limits. *)

\* r is going to act on limit l: to read the federation's total, to ban, or to
\* clear every counter since it has banned.
Acts(r, l) ==
    \/ r.pc = "fed" /\ l = "federation"
    \/ r.pc = "autoban" /\ l \in {r.chat, "federation"}
    \/ r.pc = "clear" /\ r.op = "warn" /\ "count" \in r.todo

LimitInv == \A l \in Reached(counts) \ excused : \E t \in Tasks : Acts(task[t], l)

WarnsIInv ==
    WarnsTypes /\ BalanceInv /\ StaleInv /\ MeetingInv /\ KnowsInv /\ LimitInv

LEMMA WarnConstants ==
    /\ WarnLimit \in Nat /\ WarnLimit > 0 /\ FedLimit \in Nat /\ MaxWarns \in Nat
    /\ IsFiniteSet(Chats) /\ Handled \subseteq Chats /\ "federation" \notin Chats
    /\ Chats # Handled => MaxWarns > 0
  BY WarnsAssumption DEF WarnsAssumption

LEMMA NoTaskIsRecord == NoTask \in WarnRecords
  BY WarnConstants DEF NoTask, WarnRecords, WarnPlaces, UnwarnPlaces, Halves

(* remove_last_warn finds the newest warning of a chat that has one.       *)
LEMMA NewestWarn ==
  ASSUME NEW m \in Nat, NEW S \in SUBSET (1..m), S # {}
  PROVE  Max(S) \in S
<1> DEFINE above(i) == {j \in S : j > i}
           family == {above(i) : i \in S}
<1>1. family \subseteq FiniteSubsetsOf(S)
  <2> SUFFICES ASSUME NEW i \in S PROVE above(i) \in FiniteSubsetsOf(S)
    OBVIOUS
  <2>1. IsFiniteSet(1..m)
    BY FS_Interval
  <2>2. above(i) \in SUBSET (1..m)
    OBVIOUS
  <2> QED
    BY <2>1, <2>2, FS_Subset DEF FiniteSubsetsOf
<1>2. PICK s \in family : \A t \in family : ~(<<t, s>> \in StrictSubsetOrdering(S))
  <2>1. family # {}
    OBVIOUS
  <2> HIDE DEF family
  <2> QED
    BY <1>1, <2>1, FS_StrictSubsetOrderingWellFounded, WFMin
<1>3. PICK i \in S : s = above(i)
  BY <1>2
<1>4. \A j \in S : i >= j
  <2> SUFFICES ASSUME NEW j \in S, j > i PROVE FALSE
    OBVIOUS
  <2>1. above(j) \subseteq above(i) /\ j \in above(i) /\ j \notin above(j)
    <3>1. \A k \in S : k > j => k > i
      OBVIOUS
    <3>2. ~(j > j)
      OBVIOUS
    <3> QED
      BY <3>1, <3>2
  <2>2. <<above(j), above(i)>> \in StrictSubsetOrdering(S)
    BY <2>1 DEF StrictSubsetOrdering
  <2> QED
    BY <1>2, <1>3, <2>2
<1> QED
  BY <1>4 DEF Max

LEMMA HistoryIsFinite ==
  ASSUME NEW m \in 0..MaxWarns, NEW h \in SUBSET (1..m)
  PROVE  /\ IsFiniteSet(h) /\ Cardinality(h) \in 0..MaxWarns
         /\ Cardinality(h) = 0 <=> h = {}
<1>1. IsFiniteSet(1..m) /\ Cardinality(1..m) <= m
  BY FS_Interval, WarnConstants
<1>2. IsFiniteSet(h) /\ Cardinality(h) <= Cardinality(1..m)
  BY <1>1, FS_Subset
<1>3. Cardinality(h) \in Nat /\ Cardinality(1..m) \in Nat
  BY <1>1, <1>2, FS_CardinalityType
<1>4. Cardinality(h) = 0 <=> h = {}
  BY <1>2, FS_EmptySet
<1> QED
  BY <1>1, <1>2, <1>3, <1>4, WarnConstants

-----------------------------------------------------------------------------
(* The tallies of handlers, when one handler at most changes.              *)

\* Everybody but t is where they were; they may have met somebody.
Others(before, after, t) ==
    \A u \in Tasks \ {t} :
        \/ after[u] = before[u]
        \/ before[u].pc # "idle" /\ after[u] = [before[u] EXCEPT !.shared = TRUE]

LEMMA SharingIsNoWork ==
  ASSUME NEW r \in WarnRecords, NEW c
  PROVE  LET s == [r EXCEPT !.shared = TRUE] IN
         /\ r.pc # "idle" => s \in WarnRecords
         /\ Scope(s) = Scope(r) /\ (WorksOn(s, c) <=> WorksOn(r, c))
         /\ (Owes(s, c) <=> Owes(r, c)) /\ (Leads(s, c) <=> Leads(r, c))
         /\ (Unsettled(s, c) <=> Unsettled(r, c)) /\ s.shared = TRUE
         /\ s.pc = r.pc /\ s.doc = r.doc /\ s.chat = r.chat
<1>1. LET s == [r EXCEPT !.shared = TRUE] IN
      /\ s.pc = r.pc /\ s.op = r.op /\ s.chat = r.chat /\ s.todo = r.todo /\ s.repair = r.repair
      /\ s.doc = r.doc /\ s.shared = TRUE
  BY DEF WarnRecords
<1>2. r.pc # "idle" => [r EXCEPT !.shared = TRUE] \in WarnRecords
  BY DEF WarnRecords, WarnPlaces, UnwarnPlaces
<1> QED
  BY <1>1, <1>2 DEF Scope, WorksOn, Owes, Leads, Unsettled

LEMMA TallyMoves ==
  ASSUME NEW F, NEW G, NEW t, IsFiniteSet(F), G \ {t} = F \ {t}
  PROVE  /\ IsFiniteSet(G) /\ Cardinality(F) \in Nat /\ Cardinality(G) \in Nat
         /\ (t \in F <=> t \in G) => Cardinality(G) = Cardinality(F)
         /\ t \in F /\ t \notin G => Cardinality(G) = Cardinality(F) - 1
         /\ t \notin F /\ t \in G => Cardinality(G) = Cardinality(F) + 1
<1>1. CASE t \in F <=> t \in G
  <2>1. F = G
    BY <1>1
  <2> QED
    BY <1>1, <2>1, FS_CardinalityType
<1>2. CASE t \in F /\ t \notin G
  <2>1. G = F \ {t}
    BY <1>2
  <2>2. IsFiniteSet(G) /\ Cardinality(G) = Cardinality(F) - 1
    BY <1>2, <2>1, FS_RemoveElement
  <2> QED
    BY <1>2, <2>2, FS_CardinalityType
<1>3. CASE t \notin F /\ t \in G
  <2>1. G = F \cup {t}
    BY <1>3
  <2>2. IsFiniteSet(G) /\ Cardinality(G) = Cardinality(F) + 1
    BY <1>3, <2>1, FS_AddElement
  <2> QED
    BY <1>3, <2>2, FS_CardinalityType
<1> QED
  BY <1>1, <1>2, <1>3

\* What r adds to the tallies of c.
Due(r, c) == IF Owes(r, c) THEN 1 ELSE IF Leads(r, c) THEN -1 ELSE 0

LEMMA OthersStay ==
  ASSUME task \in [Tasks -> WarnRecords], NEW after, NEW t \in Tasks, Others(task, after, t),
         NEW u \in Tasks \ {t}, NEW c
  PROVE  /\ after[u] \in WarnRecords
         /\ Scope(after[u]) = Scope(task[u]) /\ (WorksOn(after[u], c) <=> WorksOn(task[u], c))
         /\ (Owes(after[u], c) <=> Owes(task[u], c)) /\ (Leads(after[u], c) <=> Leads(task[u], c))
         /\ (Unsettled(after[u], c) <=> Unsettled(task[u], c))
         /\ after[u].pc = task[u].pc /\ after[u].doc = task[u].doc /\ after[u].chat = task[u].chat
         /\ after[u] = task[u] \/ after[u].shared = TRUE
         /\ task[u].shared => after[u].shared
<1>1. task[u] \in WarnRecords
  OBVIOUS
<1>2. CASE after[u] = task[u]
  BY <1>1, <1>2
<1>3. CASE task[u].pc # "idle" /\ after[u] = [task[u] EXCEPT !.shared = TRUE]
  BY <1>1, <1>3, SharingIsNoWork
<1> QED
  BY <1>2, <1>3 DEF Others

LEMMA OthersWork ==
  ASSUME task \in [Tasks -> WarnRecords], NEW after, NEW t \in Tasks, Others(task, after, t),
         NEW u \in Tasks \ {t}, NEW c
  PROVE  /\ (WorksOn(after[u], c) <=> WorksOn(task[u], c)) /\ (task[u].shared => after[u].shared)
         /\ after[u] = task[u] \/ after[u].shared
<1>1. task[u] \in WarnRecords
  OBVIOUS
<1>2. CASE after[u] = task[u]
  BY <1>2
<1>3. CASE after[u] = [task[u] EXCEPT !.shared = TRUE]
  BY <1>1, <1>3 DEF WarnRecords, WorksOn, Scope
<1> QED
  BY <1>2, <1>3 DEF Others

LEMMA OthersSame ==
  ASSUME task \in [Tasks -> WarnRecords], NEW after, NEW t \in Tasks, Others(task, after, t),
         NEW u \in Tasks \ {t}
  PROVE  /\ after[u].pc = task[u].pc /\ after[u].doc = task[u].doc /\ after[u].chat = task[u].chat
         /\ (task[u].shared => after[u].shared)
<1>1. task[u] \in WarnRecords
  OBVIOUS
<1>2. CASE after[u] = task[u]
  BY <1>2
<1>3. CASE after[u] = [task[u] EXCEPT !.shared = TRUE]
  BY <1>1, <1>3 DEF WarnRecords
<1> QED
  BY <1>2, <1>3 DEF Others

LEMMA Tallies ==
  ASSUME WarnsTypes, NEW after, NEW t \in Tasks, Others(task, after, t), NEW c
  PROVE  /\ Cardinality(Owing(task, c)) \in Nat /\ Cardinality(Leading(task, c)) \in Nat
         /\ Cardinality(Owing(after, c)) \in Nat /\ Cardinality(Leading(after, c)) \in Nat
         /\ Cardinality(Owing(after, c)) - Cardinality(Leading(after, c)) =
              Cardinality(Owing(task, c)) - Cardinality(Leading(task, c))
                + Due(after[t], c) - Due(task[t], c)
<1>1. IsFiniteSet(Owing(task, c)) /\ IsFiniteSet(Leading(task, c))
  <2>1. Owing(task, c) \in SUBSET Active /\ Leading(task, c) \in SUBSET Active
    BY DEF Owing, Leading, Owes, Leads, WorksOn, Active
  <2> QED
    BY <2>1, FS_Subset DEF WarnsTypes
<1>2. Owing(after, c) \ {t} = Owing(task, c) \ {t} /\ Leading(after, c) \ {t} = Leading(task, c) \ {t}
  BY OthersStay DEF Owing, Leading, WarnsTypes
<1>3. /\ t \in Owing(task, c) <=> Owes(task[t], c)
      /\ t \in Owing(after, c) <=> Owes(after[t], c)
      /\ t \in Leading(task, c) <=> Leads(task[t], c)
      /\ t \in Leading(after, c) <=> Leads(after[t], c)
  BY DEF Owing, Leading
<1>4. /\ ~(Owes(task[t], c) /\ Leads(task[t], c))
      /\ ~(Owes(after[t], c) /\ Leads(after[t], c))
  BY DEF Owes, Leads
<1>5. /\ Cardinality(Owing(task, c)) \in Nat /\ Cardinality(Owing(after, c)) \in Nat
      /\ (Owes(task[t], c) <=> Owes(after[t], c)) => Cardinality(Owing(after, c)) = Cardinality(Owing(task, c))
      /\ Owes(task[t], c) /\ ~Owes(after[t], c)
           => Cardinality(Owing(after, c)) = Cardinality(Owing(task, c)) - 1
      /\ ~Owes(task[t], c) /\ Owes(after[t], c)
           => Cardinality(Owing(after, c)) = Cardinality(Owing(task, c)) + 1
  BY <1>1, <1>2, <1>3, TallyMoves, Zenon
<1>6. /\ Cardinality(Leading(task, c)) \in Nat /\ Cardinality(Leading(after, c)) \in Nat
      /\ (Leads(task[t], c) <=> Leads(after[t], c)) => Cardinality(Leading(after, c)) = Cardinality(Leading(task, c))
      /\ Leads(task[t], c) /\ ~Leads(after[t], c)
           => Cardinality(Leading(after, c)) = Cardinality(Leading(task, c)) - 1
      /\ ~Leads(task[t], c) /\ Leads(after[t], c)
           => Cardinality(Leading(after, c)) = Cardinality(Leading(task, c)) + 1
  BY <1>1, <1>2, <1>3, TallyMoves, Zenon
<1> QED
  BY <1>4, <1>5, <1>6 DEF Due

(* What a handler does that changes the counter and the history by as much *)
(* as it changes what it owes.                                             *)
LEMMA StaysSettled ==
  ASSUME WarnsTypes, WarnsTypes', NEW t \in Tasks, Others(task, task', t), NEW c \in Chats,
         Settled(c), c \in doubt => c \in doubt',
         \/ Unsettled(task'[t], c)
         \/ /\ ~Unsettled(task[t], c)
            /\ counts'[c].n - Cardinality(hist'[c]) + Due(task'[t], c) =
                 counts[c].n - Cardinality(hist[c]) + Due(task[t], c)
  PROVE  Settled(c)'
<1>0. SUFFICES ASSUME c \notin doubt', ~Unsettled(task'[t], c),
                      \A u \in Tasks : ~Unsettled(task'[u], c)
               PROVE  Balanced(c)'
  BY DEF Settled
<1>1. ASSUME NEW u \in Tasks PROVE ~Unsettled(task[u], c)
  <2>1. task \in [Tasks -> WarnRecords]
    BY DEF WarnsTypes
  <2>2. CASE u = t
    BY <1>0, <2>2
  <2>3. CASE u # t
    BY <1>0, <2>1, <2>3, OthersStay
  <2> QED
    BY <2>2, <2>3
<1>2. Balanced(c)
  BY <1>0, <1>1 DEF Settled
<1>3. counts[c].n \in Nat /\ counts'[c].n \in Nat
  BY DEF WarnsTypes
<1>4. Cardinality(hist[c]) \in Nat /\ Cardinality(hist'[c]) \in Nat
  <2>1. /\ issued \in 0..MaxWarns /\ hist[c] \in SUBSET (1..issued)
        /\ issued' \in 0..MaxWarns /\ hist'[c] \in SUBSET (1..issued')
    BY DEF WarnsTypes
  <2>2. Cardinality(hist[c]) \in 0..MaxWarns /\ Cardinality(hist'[c]) \in 0..MaxWarns
    BY <2>1, HistoryIsFinite
  <2> QED
    BY <2>2, WarnConstants
<1>5. Due(task[t], c) \in Int /\ Due(task'[t], c) \in Int
  BY DEF Due
<1> QED
  BY <1>0, <1>2, <1>3, <1>4, <1>5, Tallies DEF Balanced

-----------------------------------------------------------------------------
(* What every step of a handler leaves as it is. *)

LEMMA RunningIsFinite ==
  ASSUME WarnsTypes, NEW t \in Tasks, Others(task, task', t)
  PROVE  IsFiniteSet(Active')
<1>1. IsFiniteSet(Active \cup {t})
  BY FS_AddElement DEF WarnsTypes
<1>2. Active' \in SUBSET (Active \cup {t})
  <2> SUFFICES ASSUME NEW u \in Active', u # t PROVE u \in Active
    OBVIOUS
  <2>1. u \in Tasks \ {t} /\ task'[u].pc # "idle"
    BY DEF Active
  <2>2. task \in [Tasks -> WarnRecords]
    BY DEF WarnsTypes
  <2>3. task'[u].pc = task[u].pc
    BY <2>1, <2>2, OthersSame
  <2> QED
    BY <2>1, <2>3 DEF Active
<1> QED
  BY <1>1, <1>2, FS_Subset

LEMMA TaskChanges ==
  ASSUME WarnsTypes, NEW t \in Tasks, NEW s \in WarnRecords, task' = [task EXCEPT ![t] = s]
  PROVE  /\ Others(task, task', t) /\ task'[t] = s
         /\ task' \in [Tasks -> WarnRecords] /\ IsFiniteSet(Active')
<1>1. Others(task, task', t) /\ task'[t] = s /\ task' \in [Tasks -> WarnRecords]
  BY DEF Others, WarnsTypes
<1> QED
  BY <1>1, RunningIsFinite

LEMMA TaskEnters ==
  ASSUME WarnsTypes, NEW t \in Tasks, NEW r \in WarnRecords, r.pc # "idle", Enters(t, r)
  PROVE  /\ Others(task, task', t)
         /\ task'[t] = [r EXCEPT !.shared = Meeting(t, r) # {}] /\ task'[t] \in WarnRecords
         /\ task' \in [Tasks -> WarnRecords] /\ IsFiniteSet(Active')
         /\ \A u \in Meeting(t, r) : task'[u].shared
<1>0. ASSUME NEW b \in BOOLEAN PROVE [r EXCEPT !.shared = b] \in WarnRecords
  BY DEF WarnRecords, WarnPlaces, UnwarnPlaces
<1>1. [r EXCEPT !.shared = Meeting(t, r) # {}] \in WarnRecords
  <2> DEFINE b == Meeting(t, r) # {}
  <2>1. b \in BOOLEAN
    OBVIOUS
  <2> HIDE DEF b
  <2>2. [r EXCEPT !.shared = b] \in WarnRecords
    BY <1>0, <2>1
  <2> QED
    BY <2>2 DEF b
<1>2. task'[t] = [r EXCEPT !.shared = Meeting(t, r) # {}]
  <2> DEFINE s == [r EXCEPT !.shared = Meeting(t, r) # {}]
  <2>1. task' = [u \in Tasks |-> CASE u = t -> s
                                   [] u \in Meeting(t, r) -> [task[u] EXCEPT !.shared = TRUE]
                                   [] OTHER -> task[u]]
    BY DEF Enters
  <2>2. t \notin Meeting(t, r)
    BY DEF Meeting
  <2> HIDE DEF s
  <2>3. task'[t] = s
    BY <2>1, <2>2
  <2> QED
    BY <2>3 DEF s
<1>3. ASSUME NEW u \in Meeting(t, r)
      PROVE  /\ u # t /\ u \in Tasks /\ task[u].pc # "idle"
             /\ task'[u] = [task[u] EXCEPT !.shared = TRUE]
  BY DEF Meeting, Enters, Writing
<1>4. ASSUME NEW u \in Tasks \ {t}, u \notin Meeting(t, r)
      PROVE  task'[u] = task[u]
  BY <1>4 DEF Enters
<1>5. Others(task, task', t)
  BY <1>3, <1>4 DEF Others
<1>6. DOMAIN task' = Tasks /\ task' = [u \in Tasks |-> task'[u]]
  BY DEF Enters
<1>7. \A u \in Tasks : task'[u] \in WarnRecords
  <2> SUFFICES ASSUME NEW u \in Tasks, u # t PROVE task'[u] \in WarnRecords
    BY <1>1, <1>2
  <2> QED
    <3>1. task \in [Tasks -> WarnRecords]
      BY DEF WarnsTypes
    <3> QED
      BY <1>5, <3>1, OthersStay
<1>8. \A u \in Meeting(t, r) : task'[u].shared
  <2> SUFFICES ASSUME NEW u \in Meeting(t, r) PROVE task'[u].shared
    OBVIOUS
  <2>1. task[u] \in WarnRecords
    BY <1>3 DEF WarnsTypes
  <2> QED
    BY <1>3, <2>1, SharingIsNoWork
<1>9. task' \in [Tasks -> WarnRecords]
  BY <1>6, <1>7
<1> QED
  BY <1>1, <1>2, <1>5, <1>8, <1>9, RunningIsFinite

LEMMA DocsStay ==
  ASSUME WarnsTypes, NEW t \in Tasks, Others(task, task', t),
         issued' \in Nat, issued <= issued', task'[t].doc <= issued'
  PROVE  \A u \in Tasks : task'[u].doc <= issued'
<1> SUFFICES ASSUME NEW u \in Tasks \ {t} PROVE task'[u].doc <= issued'
  OBVIOUS
<1>1. task'[u].doc = task[u].doc /\ task[u].doc <= issued /\ task[u].doc \in Nat /\ issued \in Nat
  <2>1. task[u] \in WarnRecords /\ task \in [Tasks -> WarnRecords]
    BY DEF WarnsTypes
  <2>2. task[u].doc \in Nat
    BY <2>1, WarnConstants DEF WarnRecords
  <2>3. task'[u].doc = task[u].doc
    BY <2>1, OthersSame
  <2> QED
    BY <2>2, <2>3, WarnConstants DEF WarnsTypes
<1> QED
  BY <1>1

\* Somebody new at work on a chat meets whoever works on it.
LEMMA MeetingEnters ==
  ASSUME WarnsTypes, MeetingInv, NEW t \in Tasks, NEW r \in WarnRecords, r.pc # "idle",
         Enters(t, r)
  PROVE  MeetingInv'
<1>1. /\ Others(task, task', t) /\ task \in [Tasks -> WarnRecords]
      /\ task'[t] = [r EXCEPT !.shared = Meeting(t, r) # {}]
      /\ \A u \in Meeting(t, r) : task'[u].shared
  BY TaskEnters DEF WarnsTypes
<1>2. ASSUME NEW u \in Tasks \ {t}, NEW c \in Chats, WorksOn(task'[t], c), WorksOn(task'[u], c)
      PROVE  u \in Meeting(t, r)
  <2>1. c \in Scope(r)
    BY <1>1, <1>2 DEF WorksOn, Scope, WarnRecords
  <2>2. WorksOn(task[u], c)
    BY <1>1, <1>2, OthersWork
  <2> QED
    BY <2>1, <2>2 DEF Meeting, WorksOn, Writing
<1>3. SUFFICES ASSUME NEW u \in Tasks, NEW v \in Tasks, NEW c \in Chats,
                      u # v, WorksOn(task'[u], c), WorksOn(task'[v], c)
               PROVE  task'[u].shared
  BY DEF MeetingInv
<1>4. CASE u = t
  <2>1. v \in Meeting(t, r)
    BY <1>2, <1>3, <1>4
  <2>2. Meeting(t, r) # {}
    BY <2>1
  <2> QED
    BY <1>1, <1>4, <2>2 DEF WarnRecords
<1>5. CASE u # t /\ v = t
  BY <1>1, <1>2, <1>3, <1>5
<1>6. CASE u # t /\ v # t
  <2>1. WorksOn(task[u], c)
    BY <1>1, <1>3, <1>6, OthersWork
  <2>3. WorksOn(task[v], c)
    <3>1. v \in Tasks \ {t} /\ WorksOn(task'[v], c)
      BY <1>3, <1>6
    <3> QED
      BY <1>1, <3>1, OthersWork
  <2>2. task[u].shared
    BY <1>3, <2>1, <2>3 DEF MeetingInv
  <2> QED
    BY <1>1, <1>6, <2>2, OthersSame
<1> QED
  BY <1>4, <1>5, <1>6

\* Nobody new is at work on a chat.
LEMMA MeetingStays ==
  ASSUME WarnsTypes, MeetingInv, NEW t \in Tasks, Others(task, task', t),
         \A c \in Chats : WorksOn(task'[t], c) => WorksOn(task[t], c) /\ task'[t].shared = task[t].shared
  PROVE  MeetingInv'
<1>1. task \in [Tasks -> WarnRecords]
  BY DEF WarnsTypes
<1>2. ASSUME NEW u \in Tasks, NEW c \in Chats, WorksOn(task'[u], c)
      PROVE  WorksOn(task[u], c) /\ (task[u].shared => task'[u].shared)
  <2>1. CASE u = t
    BY <1>2, <2>1
  <2>2. CASE u # t
    BY <1>1, <1>2, <2>2, OthersWork
  <2> QED
    BY <2>1, <2>2
<1> QED
  BY <1>2 DEF MeetingInv

-----------------------------------------------------------------------------
(* What the handlers other than t know, and the chats t does not work on. *)

Works(t, c) == WorksOn(task[t], c) \/ WorksOn(task'[t], c)

\* t changes nothing but the chats it works on.
Minds(t) ==
    \A c \in Chats : ~Works(t, c) =>
        hist'[c] = hist[c] /\ counts'[c] = counts[c] /\ (c \in doubt => c \in doubt')

LEMMA OthersKnow ==
  ASSUME WarnsTypes, MeetingInv, MeetingInv', KnowsInv, NEW t \in Tasks,
         Others(task, task', t), Minds(t), horizon' = horizon,
         NEW u \in Tasks \ {t}, NEW c \in Chats, WorksOn(task'[u], c), ~task'[u].shared
  PROVE  Knows(task[u], c)'
<1>1. WorksOn(task[u], c) /\ ~task[u].shared /\ task'[u] = task[u]
  <2>1. task \in [Tasks -> WarnRecords]
    BY DEF WarnsTypes
  <2> QED
    BY <2>1, OthersWork
<1>2. ~Works(t, c)
  BY <1>1 DEF MeetingInv, Works
<1>3. hist'[c] = hist[c] /\ counts'[c] = counts[c] /\ (c \in doubt => c \in doubt')
  BY <1>2 DEF Minds
<1>4. Knows(task[u], c)
  BY <1>1 DEF KnowsInv
<1> QED
  BY <1>1, <1>3, <1>4 DEF Knows

LEMMA StaysDated ==
  ASSUME WarnsTypes, NEW t \in Tasks, Others(task, task', t), NEW c \in Chats,
         Dated(c), c \in doubt => c \in doubt', horizon' = horizon,
         counts'[c].stale => counts[c].stale,
         \A i \in hist'[c] : i \in hist[c] \/ Counts(task'[t], c, i),
         \A i \in hist'[c] : Counts(task[t], c, i) => Counts(task'[t], c, i)
  PROVE  Dated(c)'
<1> SUFFICES ASSUME c \notin doubt', counts'[c].stale, NEW i \in hist'[c], ~(i <= horizon')
             PROVE  \E u \in Tasks : Counts(task'[u], c, i)
  BY DEF Dated
<1>1. CASE Counts(task'[t], c, i)
  BY <1>1
<1>2. CASE ~Counts(task'[t], c, i)
  <2>1. i \in hist[c]
    BY <1>2
  <2>2. PICK u \in Tasks : Counts(task[u], c, i)
    BY <2>1 DEF Dated
  <2>3. u # t
    BY <1>2, <2>2
  <2>4. task \in [Tasks -> WarnRecords]
    BY DEF WarnsTypes
  <2>5. task'[u].pc = task[u].pc /\ task'[u].doc = task[u].doc /\ task'[u].chat = task[u].chat
    BY <2>3, <2>4, OthersSame
  <2>6. Counts(task'[u], c, i)
    BY <2>2, <2>5 DEF Counts
  <2> QED
    BY <2>6
<1> QED
  BY <1>1, <1>2

\* The warning that a handler is counting is one of a chat it works on.
LEMMA CountsWorks ==
  ASSUME NEW r \in WarnRecords, NEW c \in Chats, NEW i, Counts(r, c, i)
  PROVE  WorksOn(r, c)
  BY DEF Counts, WorksOn, Scope, WarnRecords, WarnPlaces, UnwarnPlaces

LEMMA DueWorks ==
  ASSUME NEW r, NEW c, ~WorksOn(r, c)
  PROVE  Due(r, c) = 0 /\ ~Unsettled(r, c)
  BY DEF Due, Owes, Leads, Unsettled

BooksInv == BalanceInv /\ StaleInv /\ KnowsInv

\* One step of handler t, of which what is left to show is what becomes of
\* the chats it works on.
LEMMA HandlerStep ==
  ASSUME WarnsTypes, WarnsTypes', MeetingInv, MeetingInv', BooksInv, NEW t \in Tasks,
         Others(task, task', t), Minds(t), horizon' = horizon,
         \A c \in Chats : Works(t, c) => Settled(c)' /\ Dated(c)',
         \A c \in Chats : WorksOn(task'[t], c) /\ ~task'[t].shared => Knows(task[t], c)'
  PROVE  BooksInv'
<1>1. task \in [Tasks -> WarnRecords] /\ task' \in [Tasks -> WarnRecords]
  BY DEF WarnsTypes
<1>2. ASSUME NEW c \in Chats, ~Works(t, c) PROVE Settled(c)' /\ Dated(c)'
  <2>1. hist'[c] = hist[c] /\ counts'[c] = counts[c] /\ (c \in doubt => c \in doubt')
    BY <1>2 DEF Minds
  <2>2. Settled(c) /\ Dated(c)
    BY DEF BooksInv, BalanceInv, StaleInv
  <2>3. ~WorksOn(task[t], c) /\ ~WorksOn(task'[t], c)
    BY <1>2 DEF Works
  <2>4. Due(task[t], c) = 0 /\ Due(task'[t], c) = 0 /\ ~Unsettled(task[t], c)
    BY <2>3, DueWorks
  <2>5. Settled(c)'
    BY <2>1, <2>2, <2>4, StaysSettled
  <2>6. \A i \in hist'[c] : ~Counts(task[t], c, i)
    BY <1>1, <2>3, CountsWorks
  <2>7. Dated(c)'
    BY <2>1, <2>2, <2>6, StaysDated
  <2> QED
    BY <2>5, <2>7
<1>3. BalanceInv' /\ StaleInv'
  BY <1>2 DEF BalanceInv, StaleInv
<1>4. KnowsInv'
  <2> SUFFICES ASSUME NEW u \in Tasks, NEW c \in Chats, WorksOn(task'[u], c), ~task'[u].shared
               PROVE  Knows(task[u], c)'
    BY DEF KnowsInv
  <2>1. CASE u = t
    BY <2>1
  <2>2. CASE u # t
    BY <2>2, OthersKnow DEF BooksInv
  <2> QED
    BY <2>1, <2>2
<1> QED
  BY <1>3, <1>4 DEF BooksInv

-----------------------------------------------------------------------------
(* What the counters add up to. *)

Counters == [there : BOOLEAN, n : Nat, stale : BOOLEAN]

LEMMA TotalIsNat ==
  ASSUME NEW cs \in [Chats -> Counters]
  PROVE  /\ IsFiniteSet(UNION {{c} \X (1..cs[c].n) : c \in Chats}) /\ FedTotal(cs) \in Nat
<1> DEFINE F(c) == {c} \X (1..cs[c].n)
           fam == {F(c) : c \in Chats}
<1>1. IsFiniteSet(fam)
  <2> DEFINE f == [c \in Chats |-> F(c)]
  <2>1. f \in Surjection(Chats, fam)
    BY DEF Surjection
  <2> QED
    BY <2>1, WarnConstants, FS_Surjection, Zenon
<1>2. ASSUME NEW c \in Chats PROVE IsFiniteSet(F(c))
  <2>1. IsFiniteSet({c})
    BY FS_Singleton
  <2>2. cs[c].n \in Int /\ 1 \in Int
    BY DEF Counters
  <2>3. IsFiniteSet(1..cs[c].n)
    BY <2>2, FS_Interval
  <2> QED
    BY <2>1, <2>3, FS_Product
<1>3. IsFiniteSet(UNION fam)
  BY <1>1, <1>2, FS_UNION
<1> QED
  BY <1>3, FS_CardinalityType DEF FedTotal

LEMMA TotalGrows ==
  ASSUME NEW cs \in [Chats -> Counters], NEW ds \in [Chats -> Counters],
         \A c \in Chats : cs[c].n <= ds[c].n
  PROVE  FedTotal(cs) <= FedTotal(ds)
<1> DEFINE C == UNION {{c} \X (1..cs[c].n) : c \in Chats}
           D == UNION {{c} \X (1..ds[c].n) : c \in Chats}
<1>1. IsFiniteSet(D)
  BY TotalIsNat
<1>2. C \in SUBSET D
  <2> SUFFICES ASSUME NEW c \in Chats, NEW p \in {c} \X (1..cs[c].n)
               PROVE  p \in {c} \X (1..ds[c].n)
    OBVIOUS
  <2>1. 1..cs[c].n \subseteq 1..ds[c].n
    <3>1. cs[c].n \in Nat /\ ds[c].n \in Nat /\ cs[c].n <= ds[c].n
      BY DEF Counters
    <3> QED
      BY <3>1
  <2> QED
    BY <2>1
<1>3. Cardinality(C) <= Cardinality(D)
  BY <1>1, <1>2, FS_Subset
<1> QED
  BY <1>3 DEF FedTotal

LEMMA TotalOfNothing ==
  ASSUME NEW cs \in [Chats -> Counters], \A c \in Chats : cs[c].n = 0
  PROVE  FedTotal(cs) = 0
<1>1. UNION {{c} \X (1..cs[c].n) : c \in Chats} = {}
  OBVIOUS
<1> QED
  BY <1>1, FS_EmptySet DEF FedTotal

LEMMA ReachedAreLimits ==
  ASSUME NEW cs
  PROVE  Reached(cs) \subseteq Limits
  BY DEF Reached, Limits

LEMMA FewerReached ==
  ASSUME WarnsTypes, WarnsTypes', \A c \in Chats : counts'[c].n <= counts[c].n
  PROVE  Reached(counts') \subseteq Reached(counts)
<1>1. counts \in [Chats -> Counters] /\ counts' \in [Chats -> Counters]
  BY DEF WarnsTypes, Counters
<1>2. Adds(FedTotal(counts')) => Adds(FedTotal(counts))
  <2>1. FedTotal(counts') <= FedTotal(counts) /\ FedTotal(counts') \in Nat /\ FedTotal(counts) \in Nat
    BY <1>1, TotalGrows, TotalIsNat
  <2> QED
    BY <2>1, WarnConstants DEF Adds
<1>3. \A c \in Chats : counts'[c].n >= WarnLimit => counts[c].n >= WarnLimit
  BY <1>1, WarnConstants DEF Counters
<1> QED
  BY <1>2, <1>3 DEF Reached

LEMMA OthersAct ==
  ASSUME task \in [Tasks -> WarnRecords], NEW t \in Tasks, Others(task, task', t),
         NEW u \in Tasks \ {t}, NEW l, Acts(task[u], l)
  PROVE  Acts(task'[u], l)
<1>1. task[u] \in WarnRecords
  OBVIOUS
<1>2. CASE task'[u] = [task[u] EXCEPT !.shared = TRUE]
  BY <1>1, <1>2 DEF WarnRecords, Acts
<1> QED
  BY <1>2 DEF Others

\* After a step of t, a limit that is not excused is one that t acts on, or one
\* that was reached before without being t's to act on.
Answers(t) ==
    \A l \in Reached(counts') \ excused' :
        Acts(task'[t], l) \/ (l \in Reached(counts) \ excused /\ ~Acts(task[t], l))

LEMMA LimitsKeep ==
  ASSUME WarnsTypes, LimitInv, NEW t \in Tasks, Others(task, task', t), Answers(t)
  PROVE  LimitInv'
<1> SUFFICES ASSUME NEW l \in Reached(counts') \ excused', ~Acts(task'[t], l)
             PROVE  \E u \in Tasks : Acts(task'[u], l)
  BY DEF LimitInv
<1>1. l \in Reached(counts) \ excused /\ ~Acts(task[t], l)
  BY DEF Answers
<1>2. PICK u \in Tasks : Acts(task[u], l)
  BY <1>1 DEF LimitInv
<1>3. u # t
  BY <1>1, <1>2
<1>4. task \in [Tasks -> WarnRecords]
  BY DEF WarnsTypes
<1> QED
  BY <1>2, <1>3, <1>4, OthersAct

-----------------------------------------------------------------------------
(* A chat that one handler works on, or nobody. *)

LEMMA OneChat ==
  ASSUME NEW r \in WarnRecords, r.pc \notin {"idle", "clear"}
  PROVE  /\ r.chat \in Chats /\ Scope(r) = {r.chat}
         /\ \A c : WorksOn(r, c) <=> c = r.chat /\ r.pc \notin {"fed", "autoban"}
  BY DEF WarnRecords, WarnPlaces, UnwarnPlaces, Scope, WorksOn

LEMMA NothingDue ==
  ASSUME NEW r \in WarnRecords, NEW c,
         r.pc \notin {"inc", "rollback"}, r.pc # "remove" \/ r.repair \/ r.todo = {"warns", "count"}
  PROVE  Due(r, c) = 0
  BY DEF Due, Owes, Leads

LEMMA CardsAreNat ==
  ASSUME WarnsTypes, NEW c \in Chats
  PROVE  /\ counts[c].n \in Nat /\ Cardinality(hist[c]) \in 0..MaxWarns
         /\ Cardinality(hist[c]) \in Nat /\ IsFiniteSet(hist[c])
         /\ Cardinality(hist[c]) = 0 <=> hist[c] = {}
<1>1. issued \in 0..MaxWarns /\ hist[c] \in SUBSET (1..issued) /\ counts[c].n \in Nat
  BY DEF WarnsTypes
<1> QED
  BY <1>1, HistoryIsFinite, WarnConstants

\* Nobody but t works on c in `after`, and t owes nothing there.
LEMMA NobodyElse ==
  ASSUME NEW after, NEW t \in Tasks, NEW c, \A u \in Tasks \ {t} : ~WorksOn(after[u], c),
         Due(after[t], c) = 0
  PROVE  Cardinality(Owing(after, c)) = 0 /\ Cardinality(Leading(after, c)) = 0
<1>1. Owing(after, c) = {} /\ Leading(after, c) = {}
  BY DEF Owing, Leading, Due, Owes, Leads
<1> QED
  BY <1>1, FS_EmptySet

LEMMA Lone ==
  ASSUME WarnsTypes, MeetingInv, NEW t \in Tasks, ~task[t].shared, Others(task, task', t),
         NEW c \in Chats, WorksOn(task[t], c)
  PROVE  \A u \in Tasks \ {t} : ~WorksOn(task'[u], c)
<1>1. task \in [Tasks -> WarnRecords]
  BY DEF WarnsTypes
<1> SUFFICES ASSUME NEW u \in Tasks \ {t}, WorksOn(task'[u], c) PROVE FALSE
  OBVIOUS
<1>2. WorksOn(task[u], c)
  BY <1>1, OthersWork
<1> QED
  BY <1>2 DEF MeetingInv

\* Whoever met nobody leaves a chat settled whose counter is right.
LEMMA LoneSettles ==
  ASSUME WarnsTypes, MeetingInv, NEW t \in Tasks, ~task[t].shared, Others(task, task', t),
         NEW c \in Chats, WorksOn(task[t], c), Due(task'[t], c) = 0,
         c \notin doubt' => counts'[c].n = Cardinality(hist'[c])
  PROVE  Settled(c)'
<1>1. Cardinality(Owing(task', c)) = 0 /\ Cardinality(Leading(task', c)) = 0
  BY Lone, NobodyElse
<1> QED
  BY <1>1 DEF Settled, Balanced

\* The counter of a settled chat that nobody works on is right.
LEMMA FreeIsRight ==
  ASSUME WarnsTypes, NEW c \in Chats, Settled(c), c \notin doubt,
         \A u \in Tasks : ~WorksOn(task[u], c)
  PROVE  counts[c].n = Cardinality(hist[c])
<1>1. Owing(task, c) = {} /\ Leading(task, c) = {}
  BY DEF Owing, Leading, Owes, Leads
<1>2. Cardinality(Owing(task, c)) = 0 /\ Cardinality(Leading(task, c)) = 0
  BY <1>1, FS_EmptySet
<1>3. Balanced(c)
  BY DEF Settled, Unsettled
<1> QED
  BY <1>2, <1>3, CardsAreNat DEF Balanced

\* Whoever enters a chat and meets nobody finds its counter right.
LEMMA EntersRight ==
  ASSUME WarnsTypes, BooksInv, NEW t \in Tasks, NEW r \in WarnRecords, r.pc # "idle",
         Enters(t, r), ~task'[t].shared, NEW c \in Chats, WorksOn(r, c), ~WorksOn(task[t], c),
         c \notin doubt
  PROVE  counts[c].n = Cardinality(hist[c])
<1>1. task'[t] = [r EXCEPT !.shared = Meeting(t, r) # {}]
  BY TaskEnters
<1>2. Meeting(t, r) = {}
  BY <1>1 DEF WarnRecords
<1>3. \A u \in Tasks : ~WorksOn(task[u], c)
  BY <1>2 DEF Meeting, WorksOn, Writing
<1> QED
  BY <1>3, FreeIsRight DEF BooksInv, BalanceInv

(* A step of a handler that changes none of the data. *)
LEMMA QuietStep ==
  ASSUME WarnsTypes, MeetingInv, MeetingInv', BooksInv, NEW t \in Tasks,
         Others(task, task', t), task' \in [Tasks -> WarnRecords], IsFiniteSet(Active'),
         task'[t].doc <= issued, UNCHANGED <<issued, horizon, hist, counts, doubt>>,
         excused' \subseteq Limits, task[t].pc \notin {"inc", "rollback"},
         \A c \in Chats : Due(task'[t], c) = Due(task[t], c)
                            /\ (Unsettled(task[t], c) => Unsettled(task'[t], c)),
         \A c \in Chats : WorksOn(task'[t], c) /\ ~task'[t].shared => Knows(task[t], c)'
  PROVE  WarnsTypes' /\ BooksInv'
<1>1. \A u \in Tasks : task'[u].doc <= issued'
  <2>1. issued' \in Nat /\ issued <= issued' /\ task'[t].doc <= issued'
    BY WarnConstants DEF WarnsTypes
  <2> QED
    BY <2>1, DocsStay
<1>2. WarnsTypes'
  BY <1>1 DEF WarnsTypes
<1>3. ASSUME NEW c \in Chats PROVE Settled(c)' /\ Dated(c)'
  <2>1. hist'[c] = hist[c] /\ counts'[c] = counts[c] /\ (c \in doubt => c \in doubt')
    OBVIOUS
  <2>2. Settled(c) /\ Dated(c)
    BY DEF BooksInv, BalanceInv, StaleInv
  <2>3. \/ Unsettled(task'[t], c)
        \/ /\ ~Unsettled(task[t], c)
           /\ counts'[c].n - Cardinality(hist'[c]) + Due(task'[t], c) =
                counts[c].n - Cardinality(hist[c]) + Due(task[t], c)
    BY <2>1
  <2>4. Settled(c)'
    BY <1>2, <2>1, <2>2, <2>3, StaysSettled
  <2>5. \A i : ~Counts(task[t], c, i)
    BY DEF Counts
  <2>6. Dated(c)'
    BY <2>1, <2>2, <2>5, StaysDated
  <2> QED
    BY <2>4, <2>6
<1>4. Minds(t)
  BY DEF Minds
<1> QED
  BY <1>2, <1>3, <1>4, HandlerStep

-----------------------------------------------------------------------------
(* The steps that read, decide, or begin. *)

LEMMA NoTaskRests ==
    /\ NoTask.pc = "idle" /\ NoTask.doc = 0 /\ NoTask \in WarnRecords
    /\ \A c : ~WorksOn(NoTask, c) /\ Due(NoTask, c) = 0 /\ ~Unsettled(NoTask, c)
    /\ \A c, i : ~Counts(NoTask, c, i)
<1>1. NoTask.pc = "idle" /\ NoTask.doc = 0
  BY DEF NoTask
<1> QED
  BY <1>1, NoTaskIsRecord DEF WorksOn, Due, Owes, Leads, Unsettled, Counts

LEMMA BothHalves == {"warns", "count"} \in Halves /\ {"warns", "count"} # {}
  BY DEF Halves

LEMMA BanClears ==
  ASSUME NEW f \in WarnRecords, f.pc = "autoban", NEW h \in Halves, h # {}
  PROVE  LET s == [f EXCEPT !.pc = "clear", !.doc = 0, !.todo = h] IN
         s \in WarnRecords /\ s.pc = "clear" /\ s.doc = 0 /\ s.todo = h
<1>1. 0 \in 0..MaxWarns
  BY WarnConstants
<1>2. [f EXCEPT !.pc = "clear", !.doc = 0, !.todo = h] \in WarnRecords
  BY <1>1 DEF WarnRecords, WarnPlaces, UnwarnPlaces
<1> QED
  BY <1>2 DEF WarnRecords

LEMMA NewestGoes ==
  ASSUME NEW f \in WarnRecords, f.pc = "newest", NEW h \in Halves, h # {}, NEW m \in 0..MaxWarns
  PROVE  LET s == [f EXCEPT !.pc = "remove", !.doc = m, !.todo = h] IN
         s \in WarnRecords /\ s.pc = "remove" /\ s.doc = m /\ s.todo = h
<1>1. [f EXCEPT !.pc = "remove", !.doc = m, !.todo = h] \in WarnRecords
  BY DEF WarnRecords, WarnPlaces, UnwarnPlaces
<1> QED
  BY <1>1 DEF WarnRecords

LEMMA FreshClears ==
  ASSUME NEW op \in {"reset", "expire"}, NEW c \in Chats \cup {"none"}, op = "reset" => c \in Chats,
         NEW h \in Halves, h # {}
  PROVE  LET s == [Fresh(op, c, "clear") EXCEPT !.todo = h] IN
         s \in WarnRecords /\ s.pc = "clear" /\ s.doc = 0 /\ s.todo = h
<1> DEFINE f == Fresh(op, c, "clear")
           All == [op : {"none", "warn", "unwarn", "reset", "expire"},
                   pc : {"idle", "clear"} \cup WarnPlaces \cup UnwarnPlaces,
                   chat : Chats \cup {"none"}, n : 0..MaxWarns, doc : 0..MaxWarns,
                   todo : Halves, repair : BOOLEAN, gone : BOOLEAN, shared : BOOLEAN]
<1>1. f \in All
  BY NoTaskIsRecord, WarnConstants DEF Fresh, WarnRecords, WarnPlaces, UnwarnPlaces
<1>2. f.op = op /\ f.pc = "clear" /\ f.chat = c /\ f.doc = 0 /\ f.repair = FALSE
  BY DEF Fresh, NoTask
<1> HIDE DEF f
<1>3. [f EXCEPT !.todo = h] \in WarnRecords
  BY <1>1, <1>2 DEF WarnRecords, WarnPlaces, UnwarnPlaces
<1> QED
  BY <1>1, <1>2, <1>3 DEF f

LEMMA AtRest ==
  ASSUME NEW r \in WarnRecords, r.pc \in {"idle", "fed", "autoban"}
  PROVE  \A c : ~WorksOn(r, c) /\ Due(r, c) = 0 /\ ~Unsettled(r, c)
  BY DEF WorksOn, Due, Owes, Leads, Unsettled

LEMMA QuietChange ==
  ASSUME WarnsTypes, MeetingInv, BooksInv, NEW t \in Tasks, NEW s \in WarnRecords,
         task' = [task EXCEPT ![t] = s], s.doc <= issued,
         UNCHANGED <<issued, horizon, hist, counts, doubt>>, excused' \subseteq Limits,
         task[t].pc \notin {"inc", "rollback"},
         \A c \in Chats : WorksOn(s, c) => WorksOn(task[t], c) /\ s.shared = task[t].shared,
         \A c \in Chats : Due(s, c) = Due(task[t], c) /\ (Unsettled(task[t], c) => Unsettled(s, c)),
         s.pc \in {"backfill", "store"} => s.n = Cardinality(hist[s.chat]),
         s.pc \notin {"inc", "rollback", "clear"}
  PROVE  WarnsTypes' /\ MeetingInv' /\ BooksInv'
<1>1. /\ Others(task, task', t) /\ task'[t] = s
      /\ task' \in [Tasks -> WarnRecords] /\ IsFiniteSet(Active')
  BY TaskChanges
<1>2. MeetingInv'
  BY <1>1, MeetingStays
<1>3. ASSUME NEW c \in Chats, WorksOn(s, c)
      PROVE  Knows(task[t], c)'
  <2>1. c = s.chat
    BY <1>3, OneChat DEF WorksOn
  <2> QED
    BY <1>1, <2>1 DEF Knows
<1> QED
  BY <1>1, <1>2, <1>3, QuietStep

LEMMA EntersToClear ==
  ASSUME WarnsTypes, MeetingInv, BooksInv, NEW t \in Tasks, NEW r \in WarnRecords,
         r.pc = "clear", r.todo = {"warns", "count"}, r.doc <= issued, Enters(t, r),
         task[t].pc \in {"idle", "autoban"},
         UNCHANGED <<issued, horizon, hist, counts, doubt>>, excused' \subseteq Limits
  PROVE  WarnsTypes' /\ MeetingInv' /\ BooksInv'
<1>1. /\ Others(task, task', t) /\ task'[t] = [r EXCEPT !.shared = Meeting(t, r) # {}]
      /\ task'[t] \in WarnRecords /\ task' \in [Tasks -> WarnRecords] /\ IsFiniteSet(Active')
  BY TaskEnters
<1>2. /\ task'[t].pc = "clear" /\ task'[t].todo = {"warns", "count"} /\ task'[t].doc = r.doc
      /\ \A c : WorksOn(task'[t], c) => WorksOn(r, c)
  <2>1. /\ task'[t].pc = "clear" /\ task'[t].todo = {"warns", "count"} /\ task'[t].doc = r.doc
        /\ task'[t].op = r.op /\ task'[t].chat = r.chat
    BY <1>1 DEF WarnRecords
  <2> QED
    BY <2>1 DEF WorksOn, Scope
<1>3. MeetingInv'
  BY MeetingEnters
<1>4. task[t] \in WarnRecords
  BY DEF WarnsTypes
<1>5. ASSUME NEW c \in Chats
      PROVE  Due(task'[t], c) = Due(task[t], c) /\ ~Unsettled(task[t], c) /\ ~WorksOn(task[t], c)
  BY <1>1, <1>2, <1>4, NothingDue, AtRest
<1>6. ASSUME NEW c \in Chats, WorksOn(task'[t], c), ~task'[t].shared
      PROVE  Knows(task[t], c)'
  <2>1. c \notin doubt => counts[c].n = Cardinality(hist[c])
    BY <1>2, <1>5, <1>6, EntersRight
  <2> QED
    BY <1>2, <2>1 DEF Knows
<1> QED
  BY <1>1, <1>2, <1>3, <1>5, <1>6, QuietStep

LEMMA ResetStartsKeeps ==
  ASSUME WarnsTypes, MeetingInv, BooksInv, NEW t \in Tasks, NEW c \in Handled, ResetStarts(t, c)
  PROVE  WarnsTypes' /\ MeetingInv' /\ BooksInv'
<1> DEFINE r == [Fresh("reset", c, "clear") EXCEPT !.todo = {"warns", "count"}]
<1>1. /\ r \in WarnRecords /\ r.pc = "clear" /\ r.todo = {"warns", "count"} /\ r.doc = 0
  <2> DEFINE both == {"warns", "count"}
             s == [Fresh("reset", c, "clear") EXCEPT !.todo = both]
  <2>0. both \in Halves /\ both # {} /\ c \in Chats
    BY WarnConstants, BothHalves
  <2> HIDE DEF both
  <2>1. s \in WarnRecords /\ s.pc = "clear" /\ s.doc = 0 /\ s.todo = both
    BY <2>0, FreshClears
  <2> QED
    BY <2>1 DEF both
<1>2. Enters(t, r) /\ task[t].pc = "idle"
  BY DEF ResetStarts
<1>3. UNCHANGED <<issued, horizon, hist, counts, doubt>> /\ excused' \subseteq Limits
  BY DEF ResetStarts, WarnsTypes
<1>4. r.doc <= issued
  BY <1>1, WarnConstants DEF WarnsTypes
<1> HIDE DEF r
<1> QED
  BY <1>1, <1>2, <1>3, <1>4, EntersToClear

LEMMA ExpiryStartsKeeps ==
  ASSUME WarnsTypes, MeetingInv, BooksInv, NEW t \in Tasks, ExpiryStarts(t)
  PROVE  WarnsTypes' /\ MeetingInv' /\ BooksInv'
<1> DEFINE r == [Fresh("expire", "none", "clear") EXCEPT !.todo = {"warns", "count"}]
<1>1. /\ r \in WarnRecords /\ r.pc = "clear" /\ r.todo = {"warns", "count"} /\ r.doc = 0
  <2> DEFINE both == {"warns", "count"}
             s == [Fresh("expire", "none", "clear") EXCEPT !.todo = both]
  <2>0. both \in Halves /\ both # {}
    BY BothHalves
  <2> HIDE DEF both
  <2>1. s \in WarnRecords /\ s.pc = "clear" /\ s.doc = 0 /\ s.todo = both
    BY <2>0, FreshClears
  <2> QED
    BY <2>1 DEF both
<1>2. Enters(t, r) /\ task[t].pc = "idle"
  BY DEF ExpiryStarts
<1>3. UNCHANGED <<issued, horizon, hist, counts, doubt>> /\ excused' \subseteq Limits
  BY DEF ExpiryStarts, WarnsTypes
<1>4. r.doc <= issued
  BY <1>1, WarnConstants DEF WarnsTypes
<1> HIDE DEF r
<1> QED
  BY <1>1, <1>2, <1>3, <1>4, EntersToClear

LEMMA UnwarnReadsKeeps ==
  ASSUME WarnsTypes, MeetingInv, BooksInv, NEW t \in Tasks, NEW c \in Handled, UnwarnReads(t, c)
  PROVE  WarnsTypes' /\ MeetingInv' /\ BooksInv'
<1>0. /\ task[t].pc = "idle" /\ task[t] \in WarnRecords /\ c \in Chats
      /\ UNCHANGED <<issued, horizon, hist, counts, doubt>> /\ excused' \subseteq Limits
  BY WarnConstants DEF UnwarnReads, WarnsTypes
<1>1. PICK r \in WarnRecords :
        /\ r.pc \in {"newest", "backfill"} /\ r.chat = c /\ r.doc = 0 /\ Enters(t, r)
        /\ r.pc = "backfill" => r.n = Cardinality(hist[c])
  <2>1. CASE counts[c].n > 0 /\ Enters(t, Fresh("unwarn", c, "newest"))
    <3> DEFINE r == Fresh("unwarn", c, "newest")
    <3>1. r \in WarnRecords /\ r.pc = "newest" /\ r.chat = c /\ r.doc = 0
      BY <1>0, WarnConstants DEF Fresh, NoTask, WarnRecords, WarnPlaces, UnwarnPlaces
    <3> HIDE DEF r
    <3> QED
      BY <2>1, <3>1 DEF r
  <2>2. CASE Enters(t, [Fresh("unwarn", c, "backfill") EXCEPT !.n = Cardinality(hist[c])])
    <3> DEFINE n == Cardinality(hist[c])
               r == [Fresh("unwarn", c, "backfill") EXCEPT !.n = n]
    <3>1. n \in 0..MaxWarns
      BY <1>0, CardsAreNat
    <3> HIDE DEF n
    <3>2. r \in WarnRecords /\ r.pc = "backfill" /\ r.chat = c /\ r.doc = 0 /\ r.n = n
      BY <1>0, <3>1, WarnConstants DEF Fresh, NoTask, WarnRecords, WarnPlaces, UnwarnPlaces
    <3>3. Enters(t, r)
      BY <2>2 DEF n
    <3> HIDE DEF r
    <3> QED
      BY <3>2, <3>3 DEF n
  <2> QED
    BY <2>1, <2>2 DEF UnwarnReads
<1>2. /\ Others(task, task', t) /\ task'[t] = [r EXCEPT !.shared = Meeting(t, r) # {}]
      /\ task'[t] \in WarnRecords /\ task' \in [Tasks -> WarnRecords] /\ IsFiniteSet(Active')
  BY <1>1, TaskEnters
<1>3. /\ task'[t].pc = r.pc /\ task'[t].chat = c /\ task'[t].doc = 0 /\ task'[t].n = r.n
  BY <1>1, <1>2 DEF WarnRecords
<1>4. MeetingInv'
  BY <1>1, MeetingEnters
<1>5. ASSUME NEW d \in Chats
      PROVE  /\ Due(task'[t], d) = Due(task[t], d) /\ ~Unsettled(task[t], d)
             /\ WorksOn(task'[t], d) => d = c
  BY <1>0, <1>1, <1>2, <1>3, NothingDue, AtRest, OneChat
<1>6. ASSUME NEW d \in Chats, WorksOn(task'[t], d), ~task'[t].shared
      PROVE  Knows(task[t], d)'
  <2>1. d = c
    BY <1>5, <1>6
  <2> QED
    BY <1>0, <1>1, <1>3, <2>1 DEF Knows
<1>7. task'[t].doc <= issued
  BY <1>3, WarnConstants DEF WarnsTypes
<1> QED
  BY <1>0, <1>2, <1>4, <1>5, <1>6, <1>7, QuietStep

LEMMA FedReadsKeeps ==
  ASSUME WarnsTypes, MeetingInv, BooksInv, NEW t \in Tasks, FedReads(t)
  PROVE  WarnsTypes' /\ MeetingInv' /\ BooksInv'
<1>0. /\ task[t].pc = "fed" /\ task[t] \in WarnRecords
      /\ UNCHANGED <<issued, horizon, hist, counts, doubt>> /\ excused' \subseteq Limits
  BY ReachedAreLimits DEF FedReads, WarnsTypes, Excuses, Limits
<1>1. PICK s \in WarnRecords :
        task' = [task EXCEPT ![t] = s] /\ s.pc \in {"idle", "autoban"} /\ s.doc <= issued
  <2>1. CASE Goes(t, "autoban")
    <3> DEFINE s == [task[t] EXCEPT !.pc = "autoban"]
    <3>1. s \in WarnRecords /\ s.pc = "autoban" /\ s.doc = task[t].doc
      BY <1>0 DEF WarnRecords, WarnPlaces, UnwarnPlaces
    <3> QED
      BY <2>1, <3>1 DEF Goes, WarnsTypes
  <2>2. CASE Ends(t)
    <3>1. NoTask \in WarnRecords /\ NoTask.doc <= issued /\ NoTask.pc = "idle"
      BY NoTaskRests, WarnConstants DEF WarnsTypes
    <3> QED
      BY <2>2, <3>1 DEF Ends
  <2> QED
    BY <2>1, <2>2 DEF FedReads
<1>2. \A c : /\ ~WorksOn(s, c) /\ Due(s, c) = Due(task[t], c) /\ ~Unsettled(task[t], c)
  BY <1>0, <1>1, AtRest
<1> QED
  BY <1>0, <1>1, <1>2, QuietChange

LEMMA AutoBanKeeps ==
  ASSUME WarnsTypes, MeetingInv, BooksInv, NEW t \in Tasks, AutoBan(t)
  PROVE  WarnsTypes' /\ MeetingInv' /\ BooksInv'
<1>0. /\ task[t].pc = "autoban" /\ task[t] \in WarnRecords
      /\ UNCHANGED <<issued, horizon, hist, counts, doubt>> /\ excused' \subseteq Limits
  BY ReachedAreLimits DEF AutoBan, ExemptsStaff, BanNotRecorded, NoChatReached, Enforced, WarnsTypes, Excuses
<1>1. CASE Ends(t)
  <2>1. NoTask.doc <= issued
    BY NoTaskRests, WarnConstants DEF WarnsTypes
  <2>2. \A c : Due(NoTask, c) = Due(task[t], c) /\ ~Unsettled(task[t], c) /\ ~WorksOn(NoTask, c)
    BY <1>0, NoTaskRests, AtRest
  <2> QED
    BY <1>0, <1>1, <2>1, <2>2, NoTaskRests, QuietChange DEF Ends
<1>2. CASE Enforced(t)
  <2> DEFINE r == [task[t] EXCEPT !.pc = "clear", !.doc = 0, !.todo = {"warns", "count"}]
  <2>1. /\ r \in WarnRecords /\ r.pc = "clear" /\ r.todo = {"warns", "count"} /\ r.doc = 0
    <3> DEFINE both == {"warns", "count"}
               s == [task[t] EXCEPT !.pc = "clear", !.doc = 0, !.todo = both]
    <3>2. both \in Halves /\ both # {}
      BY BothHalves
    <3> HIDE DEF both
    <3>3. s \in WarnRecords /\ s.pc = "clear" /\ s.todo = both /\ s.doc = 0
      BY <1>0, <3>2, BanClears
    <3> QED
      BY <3>3 DEF both
  <2>2. Enters(t, r)
    BY <1>2 DEF Enforced
  <2>3. r.doc <= issued
    BY <2>1, WarnConstants DEF WarnsTypes
  <2> HIDE DEF r
  <2> QED
    BY <1>0, <2>1, <2>2, <2>3, EntersToClear
<1> QED
  BY <1>1, <1>2 DEF AutoBan, ExemptsStaff, BanNotRecorded, NoChatReached

LEMMA UnwarnRereadsKeeps ==
  ASSUME WarnsTypes, MeetingInv, BooksInv, NEW t \in Tasks, UnwarnRereads(t)
  PROVE  WarnsTypes' /\ MeetingInv' /\ BooksInv'
<1> DEFINE c == task[t].chat
           n == Cardinality(hist[c])
<1>0. /\ task[t].pc = "reread" /\ task[t] \in WarnRecords
      /\ UNCHANGED <<issued, horizon, hist, counts, doubt>> /\ excused' \subseteq Limits
      /\ task[t].doc <= issued
  BY DEF UnwarnRereads, WarnsTypes
<1>1. c \in Chats /\ n \in 0..MaxWarns
  BY <1>0, OneChat, CardsAreNat
<1>2. PICK s \in WarnRecords :
        /\ task' = [task EXCEPT ![t] = s] /\ s.doc <= issued
        /\ s = NoTask \/ (s.pc = "backfill" /\ s.n = n /\ s.chat = c /\ s.shared = task[t].shared)
  <2>1. CASE Ends(t)
    <3>1. NoTask \in WarnRecords /\ NoTask.doc <= issued /\ NoTask.pc = "idle"
      BY NoTaskRests, WarnConstants DEF WarnsTypes
    <3> QED
      BY <2>1, <3>1 DEF Ends
  <2>2. CASE task' = [task EXCEPT ![t].pc = "backfill", ![t].n = n, ![t].gone = TRUE]
    <3> HIDE DEF n
    <3> DEFINE s == [task[t] EXCEPT !.pc = "backfill", !.n = n, !.gone = TRUE]
    <3>1. /\ s \in WarnRecords /\ s.pc = "backfill" /\ s.n = n /\ s.chat = c /\ s.doc = task[t].doc
          /\ s.shared = task[t].shared
      BY <1>0, <1>1 DEF WarnRecords, WarnPlaces, UnwarnPlaces
    <3>2. task' = [task EXCEPT ![t] = s]
      BY <2>2 DEF WarnsTypes
    <3> HIDE DEF s
    <3> QED
      BY <1>0, <3>1, <3>2
  <2> QED
    BY <2>1, <2>2 DEF UnwarnRereads
<1>3. ASSUME NEW d \in Chats
      PROVE  /\ Due(s, d) = 0 /\ Due(task[t], d) = 0 /\ ~Unsettled(task[t], d)
             /\ WorksOn(s, d) => WorksOn(task[t], d) /\ s.shared = task[t].shared
  <2>1. Due(s, d) = 0 /\ Due(task[t], d) = 0
    BY <1>0, <1>2, NothingDue, NoTaskRests
  <2>2. ~Unsettled(task[t], d)
    BY <1>0 DEF Unsettled
  <2>3. WorksOn(s, d) => WorksOn(task[t], d) /\ s.shared = task[t].shared
    BY <1>0, <1>2, NoTaskRests, OneChat
  <2> QED
    BY <2>1, <2>2, <2>3
<1>4. s.pc \in {"idle", "backfill"} /\ (s.pc = "backfill" => s.n = Cardinality(hist[s.chat]))
  BY <1>2, NoTaskRests
<1> QED
  BY <1>0, <1>2, <1>3, <1>4, QuietChange

LEMMA UnwarnPicksKeeps ==
  ASSUME WarnsTypes, MeetingInv, BooksInv, NEW t \in Tasks, UnwarnPicks(t)
  PROVE  WarnsTypes' /\ MeetingInv' /\ BooksInv'
<1> DEFINE c == task[t].chat
<1>0. /\ task[t].pc = "newest" /\ task[t] \in WarnRecords
      /\ UNCHANGED <<issued, horizon, hist, counts, doubt>> /\ excused' \subseteq Limits
  BY DEF UnwarnPicks, WarnsTypes
<1>1. c \in Chats /\ task[t].repair = FALSE
  BY <1>0, OneChat DEF WarnRecords
<1>2. PICK s \in WarnRecords :
        /\ task' = [task EXCEPT ![t] = s] /\ s.doc <= issued
        /\ \/ s = NoTask
           \/ /\ s.pc = "remove" /\ s.todo = {"warns", "count"} /\ s.chat = c
              /\ s.shared = task[t].shared
  <2>1. CASE Ends(t)
    <3>1. NoTask \in WarnRecords /\ NoTask.doc <= issued /\ NoTask.pc = "idle"
      BY NoTaskRests, WarnConstants DEF WarnsTypes
    <3> QED
      BY <2>1, <3>1 DEF Ends
  <2>2. CASE /\ hist[c] # {}
             /\ task' = [task EXCEPT ![t].pc = "remove", ![t].doc = Max(hist[c]),
                                     ![t].todo = {"warns", "count"}]
    <3>1. PICK m \in 0..MaxWarns : m = Max(hist[c]) /\ m <= issued
      <4>1. issued \in Nat /\ issued <= MaxWarns /\ hist[c] \in SUBSET (1..issued)
        BY <1>1, WarnConstants DEF WarnsTypes
      <4>2. Max(hist[c]) \in hist[c]
        BY <2>2, <4>1, NewestWarn
      <4> QED
        BY <4>1, <4>2, WarnConstants
    <3> DEFINE both == {"warns", "count"}
               s == [task[t] EXCEPT !.pc = "remove", !.doc = m, !.todo = both]
    <3>2. task' = [task EXCEPT ![t] = s]
      BY <2>2, <3>1 DEF WarnsTypes
    <3>3. both \in Halves /\ both # {}
      BY BothHalves
    <3> HIDE DEF both
    <3>4. s \in WarnRecords /\ s.pc = "remove" /\ s.todo = both /\ s.doc = m
      <4>1. task[t] \in WarnRecords /\ task[t].pc = "newest" /\ m \in 0..MaxWarns
        BY <1>0, <3>1
      <4> DEFINE f == task[t]
      <4> HIDE DEF f
      <4>2. [f EXCEPT !.pc = "remove", !.doc = m, !.todo = both] \in WarnRecords
        BY <3>3, <4>1, NewestGoes DEF f
      <4> QED
        BY <4>1, <4>2 DEF WarnRecords, f
    <3>6. s.chat = c /\ s.shared = task[t].shared
      BY <1>0 DEF WarnRecords
    <3>5. s.todo = {"warns", "count"}
      BY <3>4 DEF both
    <3> HIDE DEF s
    <3> QED
      BY <3>1, <3>2, <3>4, <3>5, <3>6
  <2> QED
    BY <2>1, <2>2 DEF UnwarnPicks
<1>3. ASSUME NEW d \in Chats
      PROVE  /\ Due(s, d) = 0 /\ Due(task[t], d) = 0 /\ ~Unsettled(task[t], d)
             /\ WorksOn(s, d) => WorksOn(task[t], d) /\ s.shared = task[t].shared
  <2>1. Due(s, d) = 0 /\ Due(task[t], d) = 0
    BY <1>0, <1>2, NothingDue, NoTaskRests
  <2>2. ~Unsettled(task[t], d)
    BY <1>0 DEF Unsettled
  <2>3. WorksOn(s, d) => WorksOn(task[t], d) /\ s.shared = task[t].shared
    BY <1>0, <1>2, NoTaskRests, OneChat
  <2> QED
    BY <2>1, <2>2, <2>3
<1>4. s.pc \in {"idle", "remove"}
  BY <1>2, NoTaskRests
<1> QED
  BY <1>0, <1>2, <1>3, <1>4, QuietChange


-----------------------------------------------------------------------------
(* The steps that write, in one chat. *)

\* t, at work on chat c, goes on to s and changes nothing of another chat.
ChatMove(t, s, c) ==
    /\ task[t].pc \notin {"idle", "clear", "fed", "autoban"} /\ c = task[t].chat
    /\ s \in WarnRecords /\ s.doc <= issued /\ task' = [task EXCEPT ![t] = s]
    /\ \/ s.pc \in {"idle", "fed", "autoban"}
       \/ s.pc # "clear" /\ s.chat = c /\ s.shared = task[t].shared
    /\ issued' = issued /\ horizon' = horizon
    /\ hist' \in [Chats -> SUBSET (1..issued)] /\ counts' \in [Chats -> Counters]
    /\ \A d \in Chats : ~counts'[d].there => counts'[d] = NoCounter
    /\ doubt' \subseteq Chats /\ excused' \subseteq Limits
    /\ \A d \in Chats \ {c} :
          hist'[d] = hist[d] /\ counts'[d] = counts[d] /\ (d \in doubt => d \in doubt')

LEMMA ChatStep ==
  ASSUME WarnsTypes, MeetingInv, BooksInv, NEW t \in Tasks, NEW s, NEW c, ChatMove(t, s, c)
  PROVE  /\ c \in Chats /\ WorksOn(task[t], c)
         /\ Others(task, task', t) /\ task'[t] = s /\ WarnsTypes' /\ MeetingInv'
         /\ Settled(c) /\ Dated(c)
         /\ ~task[t].shared => Knows(task[t], c)
         /\ /\ Settled(c)' /\ Dated(c)'
            /\ WorksOn(s, c) /\ ~s.shared => Knows(task[t], c)'
            => BooksInv'
<1> USE DEF ChatMove
<1>1. /\ Others(task, task', t) /\ task'[t] = s
      /\ task' \in [Tasks -> WarnRecords] /\ IsFiniteSet(Active')
  BY TaskChanges
<1>2. task[t] \in WarnRecords
  BY DEF WarnsTypes
<1>3. c \in Chats /\ \A d : WorksOn(task[t], d) <=> d = c
  BY <1>2, OneChat
<1>w. \A d : WorksOn(s, d) => d = c /\ s.shared = task[t].shared
  <2>1. CASE s.pc \in {"idle", "fed", "autoban"}
    BY <2>1, AtRest
  <2>2. CASE s.pc \notin {"idle", "fed", "autoban"}
    BY <2>2, OneChat
  <2> QED
    BY <2>1, <2>2
<1>4. MeetingInv'
  <2>1. \A d \in Chats : WorksOn(task'[t], d) => WorksOn(task[t], d) /\ task'[t].shared = task[t].shared
    BY <1>1, <1>3, <1>w
  <2> QED
    BY <1>1, <2>1, MeetingStays
<1>5. WarnsTypes'
  <2>1. issued' \in Nat /\ issued <= issued' /\ task'[t].doc <= issued'
    BY <1>1, WarnConstants DEF WarnsTypes
  <2>2. \A u \in Tasks : task'[u].doc <= issued'
    BY <1>1, <2>1, DocsStay
  <2> QED
    BY <1>1, <2>2 DEF WarnsTypes, Counters
<1>6. Settled(c) /\ Dated(c) /\ (~task[t].shared => Knows(task[t], c))
  BY <1>3 DEF BooksInv, BalanceInv, StaleInv, KnowsInv
<1>7. Minds(t)
  BY <1>3 DEF Minds, Works
<1>8. ASSUME Settled(c)', Dated(c)', WorksOn(s, c) /\ ~s.shared => Knows(task[t], c)'
      PROVE  BooksInv'
  <2>1. \A d \in Chats : Works(t, d) => d = c
    BY <1>1, <1>3, <1>w DEF Works
  <2>2. \A d \in Chats : Works(t, d) => Settled(d)' /\ Dated(d)'
    BY <1>8, <2>1
  <2>3. \A d \in Chats : WorksOn(task'[t], d) /\ ~task'[t].shared => Knows(task[t], d)'
    BY <1>1, <1>8, <1>w
  <2> QED
    BY <1>1, <1>4, <1>5, <1>7, <2>2, <2>3, HandlerStep
<1> QED
  BY <1>1, <1>3, <1>4, <1>5, <1>6, <1>8

LEMMA DoubtExcuses ==
  ASSUME NEW c, c \in doubt'
  PROVE  Settled(c)' /\ Dated(c)'
  BY DEF Settled, Dated

\* The counter after one more, one fewer, or as many as are given.
LEMMA CounterIs ==
  ASSUME NEW n \in Nat
  PROVE  /\ Counter(n) \in Counters /\ Counter(n).n = n /\ Counter(n).stale = FALSE
         /\ ~Counter(n).there => Counter(n) = NoCounter
<1>1. CASE n = 0
  BY <1>1 DEF Counter, NoCounter, Counters
<1>2. CASE n # 0
  BY <1>2 DEF Counter, NoCounter, Counters
<1> QED
  BY <1>1, <1>2

LEMMA SetsOne ==
  ASSUME WarnsTypes, NEW c \in Chats, NEW k \in Counters, ~k.there => k = NoCounter,
         counts' = [counts EXCEPT ![c] = k]
  PROVE  /\ counts' \in [Chats -> Counters] /\ counts'[c] = k
         /\ \A d \in Chats : ~counts'[d].there => counts'[d] = NoCounter
         /\ \A d \in Chats \ {c} : counts'[d] = counts[d]
  BY DEF WarnsTypes, Counters

LEMMA IncIs ==
  ASSUME WarnsTypes, NEW c \in Chats, counts' = Inc(c)
  PROVE  /\ counts' \in [Chats -> Counters]
         /\ counts'[c].n = counts[c].n + 1 /\ counts'[c].stale = FALSE
         /\ \A d \in Chats : ~counts'[d].there => counts'[d] = NoCounter
         /\ \A d \in Chats \ {c} : counts'[d] = counts[d]
<1>1. counts[c].n + 1 \in Nat
  BY CardsAreNat
<1>2. counts' = [counts EXCEPT ![c] = Counter(counts[c].n + 1)]
  BY DEF Inc
<1>3. /\ Counter(counts[c].n + 1) \in Counters
      /\ Counter(counts[c].n + 1).n = counts[c].n + 1
      /\ Counter(counts[c].n + 1).stale = FALSE
      /\ ~Counter(counts[c].n + 1).there => Counter(counts[c].n + 1) = NoCounter
  BY <1>1, CounterIs
<1> QED
  BY <1>2, <1>3, SetsOne

LEMMA DecIs ==
  ASSUME WarnsTypes, NEW c \in Chats, counts[c].n > 0, counts' = Dec(c)
  PROVE  /\ counts' \in [Chats -> Counters]
         /\ counts'[c].n = counts[c].n - 1 /\ counts'[c].stale = FALSE
         /\ \A d \in Chats : ~counts'[d].there => counts'[d] = NoCounter
         /\ \A d \in Chats \ {c} : counts'[d] = counts[d]
<1> DEFINE k == [there |-> TRUE, n |-> counts[c].n - 1, stale |-> FALSE]
<1>1. counts[c].n - 1 \in Nat
  BY CardsAreNat
<1>2. counts' = [counts EXCEPT ![c] = k]
  BY DEF Dec
<1>3. k \in Counters /\ k.there /\ k.n = counts[c].n - 1 /\ k.stale = FALSE
  BY <1>1 DEF Counters
<1> HIDE DEF k
<1> QED
  BY <1>2, <1>3, SetsOne

LEMMA WarnCountsRecords ==
  ASSUME NEW c \in Chats, NEW pc \in {"autoban", "fed"}
  PROVE  /\ Fresh("warn", c, pc) \in WarnRecords /\ Fresh("warn", c, pc).pc = pc
         /\ Fresh("warn", c, pc).doc = 0
  BY NoTaskIsRecord DEF Fresh, NoTask, WarnRecords, WarnPlaces, UnwarnPlaces, Halves

LEMMA WarnCountsKeeps ==
  ASSUME WarnsTypes, MeetingInv, BooksInv, NEW t \in Tasks, WarnCounts(t)
  PROVE  /\ WarnsTypes' /\ MeetingInv' /\ BooksInv'
<1> PICK c : c = task[t].chat
  OBVIOUS
<1>0. /\ task[t].pc = "inc" /\ task[t] \in WarnRecords /\ task[t].op = "warn" /\ c \in Chats
      /\ UNCHANGED <<issued, horizon, hist>> /\ hist \in [Chats -> SUBSET (1..issued)]
      /\ task[t].doc <= issued /\ doubt \subseteq Chats /\ excused \subseteq Limits
      /\ counts \in [Chats -> Counters] /\ \A d \in Chats : ~counts[d].there => counts[d] = NoCounter
  <2>1. task[t].pc = "inc" /\ task[t] \in WarnRecords
    BY DEF WarnCounts, WarnsTypes
  <2>2. task[t].op = "warn" /\ c \in Chats
    BY <2>1 DEF WarnRecords, WarnPlaces
  <2> QED
    BY <2>1, <2>2 DEF WarnCounts, WarnsTypes, Counters
<1>n. counts[c].n \in Nat /\ Cardinality(hist[c]) \in Nat
  BY <1>0, CardsAreNat
<1>w. WorksOn(task[t], c) /\ Due(task[t], c) = 1 /\ ~Unsettled(task[t], c)
  BY <1>0, OneChat DEF Due, Owes, Unsettled
<1>1. CASE counts' = Inc(c) /\ Proceeds(t, Decides(counts'[c].n)) /\ UNCHANGED doubt
           /\ excused' \subseteq Limits
  <2>1. PICK s \in WarnRecords : /\ task' = [task EXCEPT ![t] = s]
                                 /\ s.pc \in {"idle", "autoban", "fed"} /\ s.doc <= issued
    <3> DEFINE pc == Decides(counts'[c].n)
    <3>1. pc \in {"idle", "autoban", "fed"}
      BY DEF Decides
    <3>2. task' = [task EXCEPT ![t] = IF pc = "idle" THEN NoTask ELSE Fresh(task[t].op, task[t].chat, pc)]
      BY <1>1 DEF Proceeds
    <3>3. 0 <= issued
      BY WarnConstants DEF WarnsTypes
    <3> HIDE DEF pc
    <3>4. CASE pc = "idle"
      <4>1. NoTask \in WarnRecords /\ NoTask.pc = "idle" /\ NoTask.doc <= issued
        BY <3>3, NoTaskRests
      <4> QED
        BY <3>2, <3>4, <4>1
    <3>5. CASE pc # "idle"
      <4> DEFINE s == Fresh("warn", c, pc)
      <4>1. s \in WarnRecords /\ s.pc = pc /\ s.doc <= issued
        BY <1>0, <3>1, <3>3, <3>5, WarnCountsRecords
      <4>2. task' = [task EXCEPT ![t] = s]
        BY <1>0, <3>2, <3>5
      <4> HIDE DEF s
      <4> QED
        BY <3>1, <4>1, <4>2
    <3> QED
      BY <3>4, <3>5
  <2>2. \A d : ~WorksOn(s, d) /\ Due(s, d) = 0
    BY <2>1, AtRest
  <2>3. /\ counts' \in [Chats -> Counters]
        /\ counts'[c].n = counts[c].n + 1 /\ counts'[c].stale = FALSE
        /\ \A d \in Chats : ~counts'[d].there => counts'[d] = NoCounter
        /\ \A d \in Chats \ {c} : counts'[d] = counts[d]
    BY <1>0, <1>1, IncIs
  <2>4. /\ Others(task, task', t) /\ task'[t] = s /\ WarnsTypes' /\ MeetingInv' /\ Settled(c)
        /\ Settled(c)' /\ Dated(c)' => BooksInv'
    <3>1. ChatMove(t, s, c)
      BY <1>0, <1>1, <2>1, <2>3 DEF ChatMove
    <3> QED
      BY <2>2, <3>1, ChatStep
  <2>5. counts'[c].n - Cardinality(hist'[c]) + Due(task'[t], c) =
          counts[c].n - Cardinality(hist[c]) + Due(task[t], c)
    BY <1>0, <1>n, <1>w, <2>2, <2>3, <2>4
  <2>6. Settled(c)'
    BY <1>0, <1>1, <1>w, <2>4, <2>5, StaysSettled
  <2>7. Dated(c)'
    BY <2>3 DEF Dated
  <2> QED
    BY <2>4, <2>6, <2>7
<1>2. CASE Goes(t, "rollback") /\ counts' \in {counts, Inc(c)} /\ doubt' \subseteq Chats
           /\ doubt \subseteq doubt' /\ excused' \subseteq Limits
           /\ (c \in doubt' \/ counts' = counts)
  <2> DEFINE s == [task[t] EXCEPT !.pc = "rollback"]
  <2>1. /\ s \in WarnRecords /\ s.pc = "rollback" /\ s.doc = task[t].doc /\ s.chat = c
        /\ s.shared = task[t].shared
    BY <1>0 DEF WarnRecords, WarnPlaces, UnwarnPlaces
  <2>2. task' = [task EXCEPT ![t] = s]
    BY <1>2 DEF Goes
  <2> HIDE DEF s
  <2>3. \A d : (WorksOn(s, d) <=> d = c) /\ (d = c => Due(s, d) = 1)
    <3>1. \A d : WorksOn(s, d) <=> d = c
      BY <2>1, OneChat
    <3> QED
      BY <2>1, <3>1 DEF Due, Owes
  <2>4. /\ counts' \in [Chats -> Counters]
        /\ \A d \in Chats : ~counts'[d].there => counts'[d] = NoCounter
        /\ \A d \in Chats \ {c} : counts'[d] = counts[d]
    BY <1>0, <1>2, IncIs
  <2>5. /\ Others(task, task', t) /\ task'[t] = s /\ WarnsTypes' /\ MeetingInv'
        /\ Settled(c) /\ Dated(c) /\ (~task[t].shared => Knows(task[t], c))
        /\ Settled(c)' /\ Dated(c)' /\ (WorksOn(s, c) /\ ~s.shared => Knows(task[t], c)') => BooksInv'
    <3>1. ChatMove(t, s, c)
      BY <1>0, <1>2, <2>1, <2>2, <2>4 DEF ChatMove
    <3> QED
      BY <3>1, ChatStep
  <2>6. Settled(c)' /\ Dated(c)'
    <3>1. CASE c \in doubt'
      BY <3>1, DoubtExcuses
    <3>2. CASE c \notin doubt'
      <4>1. counts' = counts /\ hist' = hist /\ Due(task'[t], c) = Due(task[t], c)
        BY <1>0, <1>2, <1>w, <2>3, <2>5, <3>2
      <4>2. Settled(c)'
        BY <1>0, <1>2, <1>w, <2>5, <4>1, StaysSettled
      <4>3. \A i : Counts(task[t], c, i) => Counts(task'[t], c, i)
        BY <2>1, <2>5 DEF Counts
      <4>4. Dated(c)'
        BY <1>0, <1>2, <2>5, <4>1, <4>3, StaysDated
      <4> QED
        BY <4>2, <4>4
    <3> QED
      BY <3>1, <3>2
  <2>7. WorksOn(s, c) /\ ~s.shared => Knows(task[t], c)'
    BY <1>0, <2>1, <2>5 DEF Knows
  <2> QED
    BY <2>5, <2>6, <2>7
<1>3. excused' \subseteq Limits
  BY <1>0, ReachedAreLimits DEF WarnCounts, Excuses
<1> QED
  BY <1>0, <1>1, <1>2, <1>3 DEF WarnCounts, Doubts

LEMMA AtWork ==
  ASSUME WarnsTypes, NEW t \in Tasks, task[t].pc \notin {"idle", "clear", "fed", "autoban"},
         NEW c, c = task[t].chat
  PROVE  /\ c \in Chats /\ task[t] \in WarnRecords /\ task[t].doc <= issued
         /\ task[t].n \in 0..MaxWarns /\ task[t].n \in Nat
         /\ hist \in [Chats -> SUBSET (1..issued)] /\ counts \in [Chats -> Counters]
         /\ \A d \in Chats : ~counts[d].there => counts[d] = NoCounter
         /\ doubt \subseteq Chats /\ excused \subseteq Limits
         /\ counts[c].n \in Nat /\ Cardinality(hist[c]) \in Nat /\ IsFiniteSet(hist[c])
         /\ \A d : WorksOn(task[t], d) <=> d = c
         /\ NoTask \in WarnRecords /\ NoTask.doc <= issued
<1>1. task[t] \in WarnRecords
  BY DEF WarnsTypes
<1>2. c \in Chats /\ \A d : WorksOn(task[t], d) <=> d = c
  BY <1>1, OneChat
<1>3. task[t].n \in 0..MaxWarns
  BY <1>1 DEF WarnRecords
<1> QED
  BY <1>1, <1>2, <1>3, CardsAreNat, NoTaskRests, WarnConstants DEF WarnsTypes, Counters

\* What a handler leaves behind that has done with a chat.
LEMMA Leaves ==
  ASSUME NEW r, r = NoTask
  PROVE  /\ \A d : ~WorksOn(r, d) /\ Due(r, d) = 0 /\ ~Unsettled(r, d)
         /\ r.pc = "idle" /\ r.doc = 0
  BY NoTaskRests

LEMMA WarnRollsBackKeeps ==
  ASSUME WarnsTypes, MeetingInv, BooksInv, NEW t \in Tasks, WarnRollsBack(t)
  PROVE  WarnsTypes' /\ MeetingInv' /\ BooksInv'
<1> PICK c : c = task[t].chat
  OBVIOUS
<1>0. /\ task[t].pc = "rollback" /\ UNCHANGED <<issued, horizon, counts, excused>>
      /\ task' = [task EXCEPT ![t] = NoTask]
  BY DEF WarnRollsBack, Ends
<1>1. /\ c \in Chats /\ task[t] \in WarnRecords /\ hist \in [Chats -> SUBSET (1..issued)]
      /\ counts \in [Chats -> Counters] /\ \A d \in Chats : ~counts[d].there => counts[d] = NoCounter
      /\ doubt \subseteq Chats /\ excused \subseteq Limits
      /\ counts[c].n \in Nat /\ Cardinality(hist[c]) \in Nat /\ IsFiniteSet(hist[c])
      /\ WorksOn(task[t], c) /\ NoTask \in WarnRecords /\ NoTask.doc <= issued
  BY <1>0, AtWork
<1>2. \/ hist' = [hist EXCEPT ![c] = @ \ {task[t].doc}] /\ (task[t].shared => c \in doubt')
      \/ hist' = hist /\ c \in doubt'
  BY DEF WarnRollsBack, Doubts
<1>3. /\ hist' \in [Chats -> SUBSET (1..issued)] /\ doubt' \subseteq Chats /\ doubt \subseteq doubt'
      /\ \A d \in Chats \ {c} : hist'[d] = hist[d]
      /\ hist'[c] \in {hist[c], hist[c] \ {task[t].doc}}
  BY <1>1, <1>2 DEF WarnRollsBack, Doubts
<1>4. /\ Others(task, task', t) /\ task'[t] = NoTask /\ WarnsTypes' /\ MeetingInv'
      /\ Settled(c) /\ Dated(c) /\ (~task[t].shared => Knows(task[t], c))
      /\ Settled(c)' /\ Dated(c)' => BooksInv'
  <2>1. ChatMove(t, NoTask, c)
    BY <1>0, <1>1, <1>3, NoTaskRests DEF ChatMove
  <2>2. ~WorksOn(NoTask, c)
    BY NoTaskRests
  <2> QED
    BY <2>1, <2>2, ChatStep
<1>5. CASE c \in doubt'
  BY <1>4, <1>5, DoubtExcuses
<1>6. CASE c \notin doubt'
  <2>1. hist'[c] = hist[c] \ {task[t].doc} /\ ~task[t].shared
    BY <1>1, <1>2, <1>6
  <2>2. task[t].doc \in hist[c]
    BY <1>0, <1>4, <2>1 DEF Knows
  <2>3. Cardinality(hist'[c]) = Cardinality(hist[c]) - 1
    <3>1. PICK i \in hist[c] : i = task[t].doc
      BY <2>2
    <3>2. Cardinality(hist[c] \ {i}) = Cardinality(hist[c]) - 1
      BY <1>1, <3>1, FS_RemoveElement
    <3> QED
      BY <2>1, <3>1, <3>2
  <2>4. Due(task[t], c) = 1 /\ Due(NoTask, c) = 0 /\ ~Unsettled(task[t], c)
    BY <1>0, <1>1, NoTaskRests DEF Due, Owes, Unsettled
  <2>5. counts'[c].n - Cardinality(hist'[c]) + Due(task'[t], c) =
          counts[c].n - Cardinality(hist[c]) + Due(task[t], c)
    BY <1>0, <1>1, <1>4, <2>3, <2>4
  <2>6. Settled(c)'
    BY <1>1, <1>3, <1>4, <2>4, <2>5, StaysSettled
  <2>7. \A i \in hist'[c] : i \in hist[c] /\ ~Counts(task[t], c, i)
    BY <2>1 DEF Counts
  <2>8. Dated(c)'
    BY <1>0, <1>1, <1>3, <1>4, <2>7, StaysDated
  <2> QED
    BY <1>4, <2>6, <2>8
<1> QED
  BY <1>5, <1>6

LEMMA RecountsKeeps ==
  ASSUME WarnsTypes, MeetingInv, BooksInv, NEW t \in Tasks, Recounts(t)
  PROVE  WarnsTypes' /\ MeetingInv' /\ BooksInv'
<1> PICK c : c = task[t].chat
  OBVIOUS
<1>0. task[t].pc = "recount" /\ UNCHANGED <<issued, horizon, hist, counts, excused>>
  BY DEF Recounts
<1>1. /\ c \in Chats /\ task[t] \in WarnRecords /\ hist \in [Chats -> SUBSET (1..issued)]
      /\ counts \in [Chats -> Counters] /\ \A d \in Chats : ~counts[d].there => counts[d] = NoCounter
      /\ doubt \subseteq Chats /\ excused \subseteq Limits /\ task[t].doc <= issued
      /\ WorksOn(task[t], c) /\ NoTask \in WarnRecords /\ NoTask.doc <= issued
  BY <1>0, AtWork
<1>2. PICK s \in WarnRecords :
        /\ task' = [task EXCEPT ![t] = s] /\ s.doc <= issued
        /\ \/ /\ s.pc = "store" /\ s.n = Cardinality(hist[c]) /\ s.chat = c
              /\ s.shared = task[t].shared /\ doubt' = doubt
           \/ s = NoTask /\ doubt' = doubt \cup {c}
  <2>1. CASE Ends(t) /\ Doubts({c})
    BY <1>1, <2>1 DEF Ends, Doubts
  <2>2. CASE /\ task' = [task EXCEPT ![t].pc = "store", ![t].n = Cardinality(hist[c])]
             /\ UNCHANGED doubt
    <3>1. PICK n \in 0..MaxWarns : n = Cardinality(hist[c])
      BY <1>1, CardsAreNat
    <3> DEFINE s == [task[t] EXCEPT !.pc = "store", !.n = n]
    <3>2. /\ s \in WarnRecords /\ s.pc = "store" /\ s.n = n /\ s.chat = c /\ s.doc = task[t].doc
          /\ s.shared = task[t].shared
      BY <1>0, <1>1, <3>1 DEF WarnRecords, WarnPlaces, UnwarnPlaces
    <3>3. task' = [task EXCEPT ![t] = s]
      BY <2>2, <3>1 DEF WarnsTypes
    <3> HIDE DEF s
    <3> QED
      BY <1>1, <2>2, <3>1, <3>2, <3>3
  <2> QED
    BY <2>1, <2>2 DEF Recounts
<1>3. doubt' \subseteq Chats /\ doubt \subseteq doubt'
  BY <1>1, <1>2
<1>4. \A d : WorksOn(s, d) => /\ d = c /\ s.shared = task[t].shared /\ s.pc = "store"
                              /\ s.n = Cardinality(hist[c])
  <2>1. CASE s = NoTask
    BY <2>1, NoTaskRests
  <2>2. CASE s # NoTask
    BY <1>2, <2>2, OneChat
  <2> QED
    BY <2>1, <2>2
<1>5. /\ Others(task, task', t) /\ task'[t] = s /\ WarnsTypes' /\ MeetingInv'
      /\ Settled(c) /\ Dated(c)
      /\ Settled(c)' /\ Dated(c)' /\ (WorksOn(s, c) /\ ~s.shared => Knows(task[t], c)') => BooksInv'
  <2>1. ChatMove(t, s, c)
    BY <1>0, <1>1, <1>2, <1>3, NoTaskRests DEF ChatMove
  <2> QED
    BY <2>1, ChatStep
<1>6. CASE c \in doubt'
  <2>1. WorksOn(s, c) => Knows(task[t], c)'
    BY <1>0, <1>2, <1>4, <1>5 DEF Knows
  <2> QED
    BY <1>5, <1>6, <2>1, DoubtExcuses
<1>7. CASE c \notin doubt'
  <2>1. s.pc = "store" /\ s.n = Cardinality(hist[c]) /\ s.chat = c
    BY <1>2, <1>7
  <2>2. Unsettled(s, c)
    BY <1>1, <2>1, OneChat DEF Unsettled
  <2>3. Settled(c)'
    BY <1>1, <1>3, <1>5, <2>2, StaysSettled
  <2>4. \A i : ~Counts(task[t], c, i)
    BY <1>0 DEF Counts
  <2>5. Dated(c)'
    BY <1>0, <1>1, <1>3, <1>5, <2>4, StaysDated
  <2>6. Knows(task[t], c)'
    BY <1>0, <1>5, <2>1 DEF Knows
  <2> QED
    BY <1>5, <2>3, <2>5, <2>6
<1> QED
  BY <1>6, <1>7

\* What a handler at work on c with no debts there leaves behind.
LEMMA NextPlaceSteps ==
  ASSUME WarnsTypes, MeetingInv, BooksInv, NEW t \in Tasks, NEW s, NEW c,
         ChatMove(t, s, c), task[t].pc \in {"store", "backfill"},
         s.pc \in {"idle", "reread", "newest"}, hist'[c] = hist[c]
  PROVE  /\ c \in Chats /\ WorksOn(task[t], c)
         /\ Others(task, task', t) /\ task'[t] = s /\ WarnsTypes' /\ MeetingInv'
         /\ Settled(c) /\ Dated(c) /\ Due(s, c) = 0 /\ Due(task[t], c) = 0
         /\ ~task[t].shared => task[t].n = Cardinality(hist[c])
         /\ Settled(c)' /\ Dated(c)' => BooksInv'
<1>1. /\ c \in Chats /\ WorksOn(task[t], c)
      /\ Others(task, task', t) /\ task'[t] = s /\ WarnsTypes' /\ MeetingInv'
      /\ Settled(c) /\ Dated(c) /\ (~task[t].shared => Knows(task[t], c))
      /\ Settled(c)' /\ Dated(c)' /\ (WorksOn(s, c) /\ ~s.shared => Knows(task[t], c)') => BooksInv'
  BY ChatStep
<1>2. Due(s, c) = 0 /\ Due(task[t], c) = 0
  <2>1. s \in WarnRecords /\ task[t] \in WarnRecords
    BY DEF ChatMove, WarnsTypes
  <2> QED
    BY <2>1, NothingDue
<1>3. ~task[t].shared => task[t].n = Cardinality(hist[c])
  BY <1>1 DEF Knows
<1>4. Knows(task[t], c)'
  BY <1>1 DEF Knows
<1> QED
  BY <1>1, <1>2, <1>3, <1>4

\* The counter is set to what the handler has read.
LEMMA SetsCounter ==
  ASSUME WarnsTypes, MeetingInv, BooksInv, NEW t \in Tasks, NEW s \in WarnRecords, NEW c,
         c = task[t].chat, task[t].pc \in {"store", "backfill"},
         task' = [task EXCEPT ![t] = s], s.doc <= issued,
         s.pc \in {"idle", "reread", "newest"},
         s.pc # "idle" => s.chat = c /\ s.shared = task[t].shared,
         issued' = issued, horizon' = horizon, hist' = hist,
         counts' = [counts EXCEPT ![c] = Counter(task[t].n)],
         doubt' = IF task[t].shared THEN doubt \cup {c} ELSE doubt \ {c}, excused' \subseteq Limits
  PROVE  WarnsTypes' /\ MeetingInv' /\ BooksInv'
<1>1. /\ c \in Chats /\ task[t].n \in Nat /\ doubt \subseteq Chats
      /\ hist \in [Chats -> SUBSET (1..issued)]
  BY AtWork
<1>2. /\ Counter(task[t].n) \in Counters /\ Counter(task[t].n).n = task[t].n
      /\ Counter(task[t].n).stale = FALSE
      /\ ~Counter(task[t].n).there => Counter(task[t].n) = NoCounter
  BY <1>1, CounterIs
<1>3. /\ counts' \in [Chats -> Counters] /\ counts'[c].n = task[t].n /\ counts'[c].stale = FALSE
      /\ \A d \in Chats : ~counts'[d].there => counts'[d] = NoCounter
      /\ \A d \in Chats \ {c} : counts'[d] = counts[d]
  BY <1>1, <1>2, SetsOne
<1>4. doubt' \subseteq Chats /\ \A d \in Chats \ {c} : d \in doubt => d \in doubt'
  BY <1>1
<1>5. ChatMove(t, s, c)
  BY <1>1, <1>3, <1>4 DEF ChatMove
<1>6. /\ WorksOn(task[t], c) /\ Others(task, task', t) /\ task'[t] = s
      /\ WarnsTypes' /\ MeetingInv' /\ Due(s, c) = 0
      /\ ~task[t].shared => task[t].n = Cardinality(hist[c])
      /\ Settled(c)' /\ Dated(c)' => BooksInv'
  BY <1>5, NextPlaceSteps
<1>7. Dated(c)'
  BY <1>3 DEF Dated
<1>8. CASE task[t].shared
  BY <1>6, <1>7, <1>8, DoubtExcuses
<1>9. CASE ~task[t].shared
  <2>1. Settled(c)'
    BY <1>1, <1>3, <1>6, <1>9, LoneSettles
  <2> QED
    BY <1>6, <1>7, <2>1
<1> QED
  BY <1>8, <1>9

LEMMA StoresKeeps ==
  ASSUME WarnsTypes, MeetingInv, BooksInv, NEW t \in Tasks, Stores(t)
  PROVE  WarnsTypes' /\ MeetingInv' /\ BooksInv'
<1> PICK c : c = task[t].chat
  OBVIOUS
<1>0. task[t].pc = "store" /\ UNCHANGED <<issued, horizon, hist>>
  BY DEF Stores
<1>1. /\ c \in Chats /\ task[t] \in WarnRecords /\ task[t].doc <= issued
      /\ hist \in [Chats -> SUBSET (1..issued)] /\ counts \in [Chats -> Counters]
      /\ \A d \in Chats : ~counts[d].there => counts[d] = NoCounter
      /\ doubt \subseteq Chats /\ excused \subseteq Limits
      /\ NoTask \in WarnRecords /\ NoTask.doc <= issued
  BY <1>0, AtWork
<1>2. excused' \subseteq Limits
  BY <1>1, ReachedAreLimits DEF Stores, Rebuilt, Excuses
<1>3. CASE /\ counts' = [counts EXCEPT ![c] = Counter(task[t].n)]
           /\ doubt' = IF task[t].shared THEN doubt \cup {c} ELSE doubt \ {c}
           /\ Ends(t)
  BY <1>0, <1>1, <1>2, <1>3, NoTaskRests, SetsCounter DEF Ends
<1>4. CASE /\ counts' = [counts EXCEPT ![c] = Counter(task[t].n)]
           /\ doubt' = IF task[t].shared THEN doubt \cup {c} ELSE doubt \ {c}
           /\ task' = [task EXCEPT ![t].pc = "reread", ![t].n = 0, ![t].gone = FALSE]
  <2> DEFINE s == [task[t] EXCEPT !.pc = "reread", !.n = 0, !.gone = FALSE]
  <2>0. 0 \in 0..MaxWarns
    BY WarnConstants
  <2>1. /\ s \in WarnRecords /\ s.pc = "reread" /\ s.chat = c /\ s.doc = task[t].doc
        /\ s.shared = task[t].shared
    BY <1>0, <1>1, <2>0 DEF WarnRecords, WarnPlaces, UnwarnPlaces
  <2>2. task' = [task EXCEPT ![t] = s]
    BY <1>4 DEF WarnsTypes
  <2> HIDE DEF s
  <2> QED
    BY <1>0, <1>1, <1>2, <1>4, <2>1, <2>2, SetsCounter
<1>5. CASE UNCHANGED counts /\ Ends(t) /\ Doubts({c})
  <2>1. task' = [task EXCEPT ![t] = NoTask] /\ NoTask.pc = "idle"
    BY <1>5, NoTaskRests DEF Ends
  <2>2. doubt' = doubt \cup {c} /\ counts' = counts
    BY <1>5 DEF Doubts
  <2>3. ChatMove(t, NoTask, c)
    BY <1>0, <1>1, <1>2, <2>1, <2>2 DEF ChatMove
  <2>4. /\ WarnsTypes' /\ MeetingInv' /\ (Settled(c)' /\ Dated(c)' => BooksInv')
    BY <1>0, <2>1, <2>3, NextPlaceSteps
  <2> QED
    BY <2>2, <2>4, DoubtExcuses
<1> QED
  BY <1>3, <1>4, <1>5 DEF Stores

LEMMA BackfillsKeeps ==
  ASSUME WarnsTypes, MeetingInv, BooksInv, NEW t \in Tasks, Backfills(t)
  PROVE  WarnsTypes' /\ MeetingInv' /\ BooksInv'
<1> PICK c : c = task[t].chat
  OBVIOUS
<1>0. task[t].pc = "backfill" /\ UNCHANGED <<issued, horizon, hist>>
  BY DEF Backfills
<1>1. /\ c \in Chats /\ task[t] \in WarnRecords /\ task[t].doc <= issued
      /\ hist \in [Chats -> SUBSET (1..issued)] /\ counts \in [Chats -> Counters]
      /\ \A d \in Chats : ~counts[d].there => counts[d] = NoCounter
      /\ doubt \subseteq Chats /\ excused \subseteq Limits
      /\ NoTask \in WarnRecords /\ NoTask.doc <= issued
  BY <1>0, AtWork
<1>2. excused' \subseteq Limits
  BY <1>1, ReachedAreLimits DEF Backfills, Rebuilt, Excuses
<1>3. PICK s \in WarnRecords :
        /\ task' = [task EXCEPT ![t] = s] /\ s.doc <= issued
        /\ s.pc \in {"idle", "reread", "newest"}
        /\ s.pc # "idle" => s.chat = c /\ s.shared = task[t].shared
  <2>1. CASE Ends(t)
    BY <1>1, <2>1, NoTaskRests DEF Ends
  <2>2. CASE /\ task' = [task EXCEPT ![t].pc = "newest", ![t].n = 0]
    <3> DEFINE s == [task[t] EXCEPT !.pc = "newest", !.n = 0]
    <3>0. 0 \in 0..MaxWarns
      BY WarnConstants
    <3>1. /\ s \in WarnRecords /\ s.pc = "newest" /\ s.chat = c /\ s.doc = task[t].doc
          /\ s.shared = task[t].shared
      BY <1>0, <1>1, <3>0 DEF WarnRecords, WarnPlaces, UnwarnPlaces
    <3>2. task' = [task EXCEPT ![t] = s]
      BY <2>2 DEF WarnsTypes
    <3> HIDE DEF s
    <3> QED
      BY <1>1, <3>1, <3>2
  <2> QED
    BY <2>1, <2>2 DEF Backfills
<1>4. CASE counts' = counts /\ doubt' = doubt
  <2>1. /\ WarnsTypes' /\ MeetingInv' /\ (Settled(c)' /\ Dated(c)' => BooksInv')
        /\ Others(task, task', t) /\ task'[t] = s /\ Settled(c) /\ Dated(c)
        /\ Due(s, c) = 0 /\ Due(task[t], c) = 0
    <3>1. ChatMove(t, s, c)
      BY <1>0, <1>1, <1>2, <1>3, <1>4 DEF ChatMove
    <3> QED
      BY <1>0, <1>3, <3>1, NextPlaceSteps
  <2>2. ~Unsettled(task[t], c) /\ \A i : ~Counts(task[t], c, i)
    BY <1>0 DEF Unsettled, Counts
  <2>3. Settled(c)'
    BY <1>0, <1>1, <1>4, <2>1, <2>2, StaysSettled
  <2>4. Dated(c)'
    BY <1>0, <1>1, <1>4, <2>1, <2>2, StaysDated
  <2> QED
    BY <2>1, <2>3, <2>4
<1>5. CASE /\ counts' = [counts EXCEPT ![c] = Counter(task[t].n)]
           /\ doubt' = IF task[t].shared THEN doubt \cup {c} ELSE doubt \ {c}
  BY <1>0, <1>2, <1>3, <1>5, SetsCounter
<1> QED
  BY <1>4, <1>5 DEF Backfills

-----------------------------------------------------------------------------
(* remove_last_warn's gather. *)

LEMMA OtherHalf ==
  ASSUME NEW h \in Halves, NEW part \in {"warns", "count"}, NEW other \in {"warns", "count"},
         part # other, part \in h
  PROVE  h = {part} \/ (h = {"warns", "count"} /\ h \ {part} = {other})
<1>1. \A x \in h : x = part \/ x = other
  BY DEF Halves
<1>2. {"warns", "count"} = {part, other}
  <2>1. (part = "warns" /\ other = "count") \/ (part = "count" /\ other = "warns")
    OBVIOUS
  <2> QED
    BY <2>1
<1>3. CASE other \notin h
  BY <1>1, <1>3
<1>4. CASE other \in h
  <2>1. h = {part, other}
    BY <1>1, <1>4
  <2>2. h \ {part} = {other}
    BY <2>1
  <2> QED
    BY <1>2, <2>1, <2>2
<1> QED
  BY <1>3, <1>4

LEMMA RemovedIs ==
  ASSUME WarnsTypes, NEW t \in Tasks, task[t].pc = "remove", NEW part \in task[t].todo,
         NEW gone \in BOOLEAN, NEW repair \in BOOLEAN, Removed(t, part, gone, repair),
         task[t].repair => repair
  PROVE  \E s \in WarnRecords :
           /\ task' = [task EXCEPT ![t] = s] /\ s.doc <= issued /\ s.chat = task[t].chat
           /\ s.shared = task[t].shared
           /\ IF task[t].todo = {part} THEN s.pc = IF repair THEN "recount" ELSE "reread"
              ELSE s.pc = "remove" /\ s.todo = task[t].todo \ {part} /\ s.repair = repair
<1>1. task[t] \in WarnRecords /\ task[t].doc <= issued /\ task[t].todo \in Halves
  BY DEF WarnsTypes, WarnRecords
<1> PICK rest : rest = task[t].todo \ {part}
  OBVIOUS
<1>2. rest \in Halves /\ (rest = {} <=> task[t].todo = {part})
  BY <1>1 DEF Halves
<1> DEFINE r == [task[t] EXCEPT !.todo = rest, !.gone = gone, !.repair = repair]
<1>3. task' = [task EXCEPT ![t] =
         IF r.todo # {} THEN r
         ELSE [r EXCEPT !.doc = 0, !.pc = IF repair THEN "recount" ELSE "reread",
                        !.gone = repair /\ gone, !.repair = FALSE]]
  BY DEF Removed, WarnsTypes
<1>4. r.todo = rest /\ r.pc = "remove" /\ r.chat = task[t].chat /\ r.shared = task[t].shared
      /\ r.repair = repair /\ r.doc = task[t].doc
  BY <1>1 DEF WarnRecords
<1>5. CASE rest # {}
  <2>1. r \in WarnRecords
    BY <1>1, <1>2, <1>5 DEF WarnRecords, WarnPlaces, UnwarnPlaces
  <2>2. task' = [task EXCEPT ![t] = r]
    BY <1>3, <1>4, <1>5
  <2> HIDE DEF r
  <2> QED
    BY <1>1, <1>2, <1>4, <1>5, <2>1, <2>2
<1>6. CASE rest = {}
  <2> PICK pc : pc = IF repair THEN "recount" ELSE "reread"
    OBVIOUS
  <2> PICK both \in BOOLEAN : both = (repair /\ gone)
    OBVIOUS
  <2> DEFINE s == [task[t] EXCEPT !.todo = {}, !.gone = both, !.repair = FALSE,
                                  !.doc = 0, !.pc = pc]
  <2>1. 0 \in 0..MaxWarns /\ pc \in {"recount", "reread"} /\ {} \in Halves
    BY WarnConstants DEF Halves
  <2>2. /\ s \in WarnRecords /\ s.pc = pc /\ s.doc = 0 /\ s.chat = task[t].chat
        /\ s.shared = task[t].shared
    BY <1>1, <2>1 DEF WarnRecords, WarnPlaces, UnwarnPlaces
  <2>3. task' = [task EXCEPT ![t] = s]
    BY <1>3, <1>4, <1>6
  <2>4. s.doc <= issued
    BY <2>2, WarnConstants DEF WarnsTypes
  <2> HIDE DEF s
  <2> QED
    BY <1>2, <1>6, <2>2, <2>3, <2>4
<1> QED
  BY <1>5, <1>6

\* The half that comes back first moves the debt, the second one settles it;
\* or the counter is on its way to be recounted.
LEMMA RemovedDue ==
  ASSUME NEW r \in WarnRecords, r.pc = "remove", r.repair = FALSE, NEW s \in WarnRecords, NEW c,
         c = r.chat, s.chat = c,
         NEW part \in {"warns", "count"}, part \in r.todo,
         r.todo = {part} => s.pc = "reread",
         r.todo # {part} => s.pc = "remove" /\ s.todo = r.todo \ {part} /\ s.repair = FALSE
  PROVE  Due(s, c) = Due(r, c) + IF part = "warns" THEN -1 ELSE 1
<1>1. WorksOn(r, c) /\ WorksOn(s, c)
  BY OneChat
<1>2. r.todo \in Halves
  BY DEF WarnRecords
<1>3. {"warns"} # {"count"} /\ {"warns"} # {"warns", "count"} /\ {"count"} # {"warns", "count"}
  <2>1. "count" \notin {"warns"} /\ "warns" \notin {"count"}
    OBVIOUS
  <2>2. "count" \in {"warns", "count"} /\ "warns" \in {"warns", "count"} /\ "warns" \in {"warns"}
    OBVIOUS
  <2> QED
    BY <2>1, <2>2, Zenon
<1>4. CASE r.todo = {part}
  <2>1. Due(s, c) = 0
    BY <1>4, NothingDue
  <2>2. Due(r, c) = IF part = "warns" THEN 1 ELSE -1
    BY <1>1, <1>3, <1>4 DEF Due, Owes, Leads
  <2> QED
    BY <2>1, <2>2
<1>5. CASE r.todo # {part}
  <2>1. CASE part = "warns"
    <3>1. r.todo = {"warns", "count"} /\ s.todo = {"count"}
      BY <1>2, <1>5, <2>1, OtherHalf
    <3>2. Due(r, c) = 0 /\ Due(s, c) = -1
      BY <1>1, <1>3, <1>5, <3>1 DEF Due, Owes, Leads
    <3> QED
      BY <2>1, <3>2
  <2>2. CASE part = "count"
    <3>1. r.todo = {"warns", "count"} /\ s.todo = {"warns"}
      BY <1>2, <1>5, <2>2, OtherHalf
    <3>2. Due(r, c) = 0 /\ Due(s, c) = 1
      BY <1>1, <1>3, <1>5, <3>1 DEF Due, Owes, Leads
    <3> QED
      BY <2>2, <3>2
  <2> QED
    BY <2>1, <2>2
<1> QED
  BY <1>4, <1>5

LEMMA RemovedKeeps ==
  ASSUME WarnsTypes, MeetingInv, BooksInv, NEW t \in Tasks, task[t].pc = "remove",
         NEW c, c = task[t].chat, NEW part \in {"warns", "count"}, part \in task[t].todo,
         NEW gone \in BOOLEAN, NEW repair \in BOOLEAN, Removed(t, part, gone, repair),
         task[t].repair => repair,
         issued' = issued, horizon' = horizon, doubt' = doubt, excused' = excused,
         hist' \in [Chats -> SUBSET (1..issued)], counts' \in [Chats -> Counters],
         \A d \in Chats : ~counts'[d].there => counts'[d] = NoCounter,
         \A d \in Chats \ {c} : hist'[d] = hist[d] /\ counts'[d] = counts[d],
         hist'[c] \subseteq hist[c], counts'[c].stale => counts[c].stale,
         \/ repair
         \/ counts'[c].n - Cardinality(hist'[c]) =
              counts[c].n - Cardinality(hist[c]) + IF part = "warns" THEN 1 ELSE -1
  PROVE  WarnsTypes' /\ MeetingInv' /\ BooksInv'
<1>1. PICK s \in WarnRecords :
        /\ task' = [task EXCEPT ![t] = s] /\ s.doc <= issued /\ s.chat = task[t].chat
        /\ s.shared = task[t].shared
        /\ IF task[t].todo = {part} THEN s.pc = IF repair THEN "recount" ELSE "reread"
           ELSE s.pc = "remove" /\ s.todo = task[t].todo \ {part} /\ s.repair = repair
  BY RemovedIs
<1>2. s.pc \in {"recount", "reread", "remove"}
  BY <1>1
<1>3. doubt \subseteq Chats /\ excused \subseteq Limits /\ task[t] \in WarnRecords
  BY DEF WarnsTypes
<1>4. ChatMove(t, s, c)
  BY <1>1, <1>2, <1>3 DEF ChatMove
<1>5. /\ c \in Chats /\ WorksOn(task[t], c)
      /\ Others(task, task', t) /\ task'[t] = s /\ WarnsTypes' /\ MeetingInv'
      /\ Settled(c) /\ Dated(c)
      /\ Settled(c)' /\ Dated(c)' /\ (WorksOn(s, c) /\ ~s.shared => Knows(task[t], c)') => BooksInv'
  BY <1>4, ChatStep
<1>6. Knows(task[t], c)'
  BY <1>2, <1>5 DEF Knows
<1>7. Dated(c)'
  <2>1. \A i : ~Counts(task[t], c, i)
    BY DEF Counts
  <2> QED
    BY <1>5, <2>1, StaysDated
<1>8. Settled(c)'
  <2>1. CASE repair
    <3>1. Unsettled(s, c)
      <4>1. s.pc = "recount" \/ (s.pc = "remove" /\ s.repair)
        BY <1>1, <2>1
      <4>2. WorksOn(s, c)
        BY <1>1, <4>1, OneChat
      <4> QED
        BY <4>1, <4>2 DEF Unsettled
    <3> QED
      BY <1>5, <3>1, StaysSettled
  <2>2. CASE ~repair
    <3>1. task[t].repair = FALSE
      BY <1>3, <2>2 DEF WarnRecords
    <3>2. /\ task[t].todo = {part} => s.pc = "reread"
          /\ task[t].todo # {part} =>
               s.pc = "remove" /\ s.todo = task[t].todo \ {part} /\ s.repair = FALSE
          /\ s.chat = c
      BY <1>1, <2>2
    <3>3. Due(s, c) = Due(task[t], c) + IF part = "warns" THEN -1 ELSE 1
      BY <1>3, <3>1, <3>2, RemovedDue
    <3>4. ~Unsettled(task[t], c)
      BY <3>1 DEF Unsettled
    <3>5. counts'[c].n \in Int /\ counts[c].n \in Int /\ Cardinality(hist[c]) \in Int
          /\ Cardinality(hist'[c]) \in Int /\ Due(task[t], c) \in Int
      <4>1. issued \in 0..MaxWarns /\ hist'[c] \in SUBSET (1..issued)
        BY <1>5 DEF WarnsTypes
      <4>2. Cardinality(hist'[c]) \in Int
        BY <4>1, HistoryIsFinite
      <4>3. counts'[c].n \in Int
        BY <1>5 DEF Counters
      <4> QED
        BY <1>5, <4>2, <4>3, CardsAreNat DEF Due
    <3>6. counts'[c].n - Cardinality(hist'[c]) + Due(task'[t], c) =
            counts[c].n - Cardinality(hist[c]) + Due(task[t], c)
      BY <1>5, <2>2, <3>3, <3>5
    <3> QED
      BY <1>5, <3>4, <3>6, StaysSettled
  <2> QED
    BY <2>1, <2>2
<1> QED
  BY <1>5, <1>6, <1>7, <1>8

LEMMA RemovesWarnKeeps ==
  ASSUME WarnsTypes, MeetingInv, BooksInv, NEW t \in Tasks, RemovesWarn(t)
  PROVE  WarnsTypes' /\ MeetingInv' /\ BooksInv'
<1> PICK c : c = task[t].chat
  OBVIOUS
<1>0. /\ task[t].pc = "remove" /\ "warns" \in task[t].todo
      /\ issued' = issued /\ horizon' = horizon /\ doubt' = doubt /\ excused' = excused
      /\ counts' = counts
  BY DEF RemovesWarn
<1>1. /\ c \in Chats /\ task[t] \in WarnRecords /\ task[t].doc <= issued
      /\ hist \in [Chats -> SUBSET (1..issued)] /\ counts \in [Chats -> Counters]
      /\ \A d \in Chats : ~counts[d].there => counts[d] = NoCounter
      /\ counts[c].n \in Nat /\ Cardinality(hist[c]) \in Nat /\ IsFiniteSet(hist[c])
  BY <1>0, AtWork
<1>2. task[t].repair \in BOOLEAN
  BY <1>1 DEF WarnRecords
<1>3. hist' = hist \/ hist' = [hist EXCEPT ![c] = @ \ {task[t].doc}]
  BY DEF RemovesWarn
<1>4. /\ hist' \in [Chats -> SUBSET (1..issued)] /\ hist'[c] \subseteq hist[c]
      /\ \A d \in Chats \ {c} : hist'[d] = hist[d] /\ counts'[d] = counts[d]
  BY <1>0, <1>1, <1>3
<1>5. PICK gone \in BOOLEAN, repair \in BOOLEAN :
        /\ Removed(t, "warns", gone, repair) /\ (task[t].repair => repair)
        /\ repair \/ (task[t].doc \in hist[c] /\ hist' = [hist EXCEPT ![c] = @ \ {task[t].doc}])
  <2>1. CASE Removed(t, "warns", FALSE, TRUE)
    BY <2>1
  <2>2. CASE /\ hist' = [hist EXCEPT ![c] = @ \ {task[t].doc}]
             /\ Removed(t, "warns", task[t].doc \in hist[c], task[t].repair \/ ~(task[t].doc \in hist[c]))
    <3>1. PICK gone \in BOOLEAN : gone = (task[t].doc \in hist[c])
      <4>1. (task[t].doc \in hist[c]) \in BOOLEAN
        OBVIOUS
      <4> QED
        BY <4>1, Zenon
    <3>2. PICK repair \in BOOLEAN : repair = (task[t].repair \/ ~gone)
      OBVIOUS
    <3>3. Removed(t, "warns", gone, repair)
      BY <2>2, <3>1, <3>2
    <3> QED
      BY <2>2, <3>1, <3>2, <3>3
  <2> QED
    BY <2>1, <2>2 DEF RemovesWarn
<1>6. repair \/ counts'[c].n - Cardinality(hist'[c]) = counts[c].n - Cardinality(hist[c]) + 1
  <2> SUFFICES ASSUME ~repair
               PROVE  counts'[c].n - Cardinality(hist'[c]) = counts[c].n - Cardinality(hist[c]) + 1
    OBVIOUS
  <2>1. PICK i \in hist[c] : i = task[t].doc
    BY <1>5
  <2>2. Cardinality(hist[c] \ {i}) = Cardinality(hist[c]) - 1
    BY <1>1, <2>1, FS_RemoveElement
  <2>3. hist'[c] = hist[c] \ {i}
    BY <1>1, <1>5, <2>1
  <2> QED
    BY <1>0, <1>1, <2>2, <2>3
<1> QED
  BY <1>0, <1>1, <1>4, <1>5, <1>6, RemovedKeeps

LEMMA RemovesCountKeeps ==
  ASSUME WarnsTypes, MeetingInv, BooksInv, NEW t \in Tasks, RemovesCount(t)
  PROVE  WarnsTypes' /\ MeetingInv' /\ BooksInv'
<1> PICK c : c = task[t].chat
  OBVIOUS
<1>0. /\ task[t].pc = "remove" /\ "count" \in task[t].todo
      /\ issued' = issued /\ horizon' = horizon /\ doubt' = doubt /\ excused' = excused
      /\ hist' = hist
  BY DEF RemovesCount
<1>1. /\ c \in Chats /\ task[t] \in WarnRecords /\ task[t].doc <= issued
      /\ hist \in [Chats -> SUBSET (1..issued)] /\ counts \in [Chats -> Counters]
      /\ \A d \in Chats : ~counts[d].there => counts[d] = NoCounter
      /\ counts[c].n \in Nat /\ Cardinality(hist[c]) \in Nat /\ IsFiniteSet(hist[c])
  BY <1>0, AtWork
<1>2. task[t].repair \in BOOLEAN /\ task[t].gone \in BOOLEAN
  BY <1>1 DEF WarnRecords
<1>3. counts' = counts \/ (counts[c].n > 0 /\ counts' = Dec(c))
  BY DEF RemovesCount
<1>4. /\ counts' \in [Chats -> Counters] /\ (counts'[c].stale => counts[c].stale)
      /\ \A d \in Chats : ~counts'[d].there => counts'[d] = NoCounter
      /\ \A d \in Chats \ {c} : hist'[d] = hist[d] /\ counts'[d] = counts[d]
  <2>1. CASE counts' = counts
    BY <1>0, <1>1, <2>1
  <2>2. CASE counts[c].n > 0 /\ counts' = Dec(c)
    BY <1>0, <1>1, <2>2, DecIs
  <2> QED
    BY <1>3, <2>1, <2>2
<1>5. PICK repair \in BOOLEAN :
        /\ Removed(t, "count", task[t].gone, repair) /\ (task[t].repair => repair)
        /\ repair \/ (counts[c].n > 0 /\ counts' = Dec(c))
  <2>1. CASE Removed(t, "count", task[t].gone, TRUE)
    BY <2>1
  <2>2. CASE /\ counts' = IF counts[c].n > 0 THEN Dec(c) ELSE counts
             /\ Removed(t, "count", task[t].gone, task[t].repair \/ ~(counts[c].n > 0))
    <3>1. PICK repair \in BOOLEAN : repair = (task[t].repair \/ ~(counts[c].n > 0))
      OBVIOUS
    <3>2. Removed(t, "count", task[t].gone, repair)
      BY <2>2, <3>1
    <3> QED
      BY <2>2, <3>1, <3>2
  <2> QED
    BY <2>1, <2>2 DEF RemovesCount
<1>6. repair \/ counts'[c].n - Cardinality(hist'[c]) = counts[c].n - Cardinality(hist[c]) + -1
  <2> SUFFICES ASSUME ~repair
               PROVE  counts'[c].n - Cardinality(hist'[c]) = counts[c].n - Cardinality(hist[c]) + -1
    OBVIOUS
  <2>1. counts'[c].n = counts[c].n - 1
    BY <1>1, <1>5, DecIs
  <2> QED
    BY <1>0, <1>1, <2>1
<1> QED
  BY <1>0, <1>1, <1>2, <1>4, <1>5, <1>6, RemovedKeeps

-----------------------------------------------------------------------------
(* add_warn's insert. *)

LEMMA WarnInsertsRecord ==
  ASSUME NEW c \in Chats, NEW i \in 0..MaxWarns
  PROVE  LET r == [Fresh("warn", c, "inc") EXCEPT !.doc = i] IN
         r \in WarnRecords /\ r.pc = "inc" /\ r.doc = i /\ r.chat = c
  BY NoTaskIsRecord DEF Fresh, NoTask, WarnRecords, WarnPlaces, UnwarnPlaces, Halves

LEMMA HistoryGrows ==
  ASSUME WarnsTypes, NEW c \in Chats, NEW i, i = issued + 1, issued < MaxWarns,
         issued' = i, hist' = [hist EXCEPT ![c] = @ \cup {i}]
  PROVE  /\ i \in 0..MaxWarns /\ i \in Nat /\ issued <= i
         /\ hist' \in [Chats -> SUBSET (1..i)]
         /\ hist'[c] = hist[c] \cup {i} /\ i \notin hist[c]
         /\ Cardinality(hist'[c]) = Cardinality(hist[c]) + 1
         /\ \A d \in Chats \ {c} : hist'[d] = hist[d]
<1>1. /\ issued \in Nat /\ issued <= MaxWarns /\ MaxWarns \in Nat
      /\ hist \in [Chats -> SUBSET (1..issued)]
  BY WarnConstants DEF WarnsTypes
<1>2. i \in 1..i /\ 1..issued \subseteq 1..i /\ i \notin 1..issued
  BY <1>1
<1>3. i \notin hist[c] /\ IsFiniteSet(hist[c])
  BY <1>1, <1>2, CardsAreNat
<1>4. Cardinality(hist[c] \cup {i}) = Cardinality(hist[c]) + 1
  BY <1>3, FS_AddElement
<1> QED
  BY <1>1, <1>2, <1>3, <1>4

LEMMA WarnInsertsKeeps ==
  ASSUME WarnsTypes, MeetingInv, BooksInv, NEW t \in Tasks, NEW c \in Handled, WarnInserts(t, c)
  PROVE  WarnsTypes' /\ MeetingInv' /\ BooksInv'
<1> PICK i : i = issued + 1
  OBVIOUS
<1>0. /\ task[t].pc = "idle" /\ task[t] \in WarnRecords /\ c \in Chats
      /\ issued < MaxWarns /\ issued' = i /\ hist' = [hist EXCEPT ![c] = @ \cup {i}]
      /\ horizon' = horizon /\ counts' = counts /\ excused' = excused
      /\ counts \in [Chats -> [there : BOOLEAN, n : Nat, stale : BOOLEAN]]
      /\ \A d \in Chats : ~counts[d].there => counts[d] = NoCounter
      /\ horizon \in 0..issued /\ doubt \subseteq Chats /\ excused \subseteq Limits /\ issued \in Nat
  BY WarnConstants DEF WarnInserts, WarnsTypes
<1>1. /\ i \in 0..MaxWarns /\ i \in Nat /\ issued <= i
      /\ hist' \in [Chats -> SUBSET (1..i)]
      /\ hist'[c] = hist[c] \cup {i} /\ i \notin hist[c]
      /\ Cardinality(hist'[c]) = Cardinality(hist[c]) + 1
      /\ \A d \in Chats \ {c} : hist'[d] = hist[d]
  BY <1>0, HistoryGrows
<1>2. \A d \in Chats : Settled(d) /\ Dated(d)
  BY DEF BooksInv, BalanceInv, StaleInv
<1>3. \A d : ~WorksOn(task[t], d) /\ Due(task[t], d) = 0 /\ ~Unsettled(task[t], d)
  BY <1>0, AtRest
<1>4. CASE Enters(t, [Fresh("warn", c, "inc") EXCEPT !.doc = i]) /\ UNCHANGED doubt
  <2> DEFINE r == [Fresh("warn", c, "inc") EXCEPT !.doc = i]
  <2>1. r \in WarnRecords /\ r.pc = "inc" /\ r.doc = i /\ r.chat = c
    BY <1>0, <1>1, WarnInsertsRecord
  <2>2. Enters(t, r)
    BY <1>4
  <2> HIDE DEF r
  <2>3. /\ Others(task, task', t)
        /\ task'[t] = [r EXCEPT !.shared = Meeting(t, r) # {}] /\ task'[t] \in WarnRecords
        /\ task' \in [Tasks -> WarnRecords] /\ IsFiniteSet(Active')
    BY <2>1, <2>2, TaskEnters
  <2>4. task'[t].pc = "inc" /\ task'[t].doc = i /\ task'[t].chat = c
    BY <2>1, <2>3 DEF WarnRecords
  <2>5. MeetingInv'
    BY <2>1, <2>2, MeetingEnters
  <2>6. WarnsTypes'
    <3>1. \A u \in Tasks : task'[u].doc <= issued'
      <4>1. issued' \in Nat /\ issued <= issued' /\ task'[t].doc <= issued'
        BY <1>0, <1>1, <2>4
      <4> QED
        BY <2>3, <4>1, DocsStay
    <3>2. horizon' \in 0..issued' /\ issued' \in 0..MaxWarns /\ hist' \in [Chats -> SUBSET (1..issued')]
      BY <1>0, <1>1
    <3> QED
      BY <1>0, <1>4, <2>3, <3>1, <3>2 DEF WarnsTypes
  <2>7. /\ \A d : WorksOn(task'[t], d) <=> d = c
        /\ Due(task'[t], c) = 1
    <3>1. \A d : WorksOn(task'[t], d) <=> d = c
      BY <2>3, <2>4, OneChat
    <3> QED
      BY <2>4, <3>1 DEF Due, Owes
  <2>8. Settled(c)'
    <3>1. counts[c].n \in Nat /\ Cardinality(hist[c]) \in Nat
      BY <1>0, CardsAreNat
    <3>2. counts'[c].n - Cardinality(hist'[c]) + Due(task'[t], c) =
            counts[c].n - Cardinality(hist[c]) + Due(task[t], c)
      BY <1>0, <1>1, <1>3, <2>7, <3>1
    <3> QED
      BY <1>0, <1>2, <1>3, <1>4, <2>3, <2>6, <3>2, StaysSettled
  <2>9. Dated(c)'
    <3>1. Counts(task'[t], c, i) /\ \A j : ~Counts(task[t], c, j)
      BY <1>0, <2>4 DEF Counts
    <3>2. \A j \in hist'[c] : j \in hist[c] \/ Counts(task'[t], c, j)
      BY <1>1, <3>1
    <3> QED
      BY <1>0, <1>2, <1>4, <2>3, <3>1, <3>2, StaysDated
  <2>10. Knows(task[t], c)'
    BY <1>1, <2>4 DEF Knows
  <2>11. Minds(t)
    BY <1>0, <1>1, <1>4, <2>7 DEF Minds, Works
  <2>12. /\ \A d \in Chats : Works(t, d) => Settled(d)' /\ Dated(d)'
         /\ \A d \in Chats : WorksOn(task'[t], d) /\ ~task'[t].shared => Knows(task[t], d)'
    <3>1. \A d \in Chats : Works(t, d) => d = c
      BY <1>3, <2>7 DEF Works
    <3> QED
      BY <2>7, <2>8, <2>9, <2>10, <3>1
  <2>13. BooksInv'
    BY <1>0, <2>3, <2>5, <2>6, <2>11, <2>12, HandlerStep
  <2> QED
    BY <2>5, <2>6, <2>13
<1>5. CASE /\ Doubts({c})
           /\ task' = [u \in Tasks |-> IF Writing(u) /\ c \in Scope(task[u])
                                       THEN [task[u] EXCEPT !.shared = TRUE] ELSE task[u]]
  <2>1. doubt' = doubt \cup {c}
    BY <1>5 DEF Doubts
  <2>2. task \in [Tasks -> WarnRecords]
    BY DEF WarnsTypes
  <2>3. /\ task'[t] = task[t] /\ Others(task, task', t)
    BY <1>0, <1>5 DEF Others, Writing
  <2>4. task' \in [Tasks -> WarnRecords]
    <3>1. DOMAIN task' = Tasks /\ task' = [u \in Tasks |-> task'[u]]
      BY <1>5
    <3>2. \A u \in Tasks : task'[u] \in WarnRecords
      <4> SUFFICES ASSUME NEW u \in Tasks, u # t PROVE task'[u] \in WarnRecords
        BY <1>0, <2>3
      <4> QED
        BY <2>2, <2>3, OthersStay
    <3> QED
      BY <3>1, <3>2
  <2>5. IsFiniteSet(Active')
    BY <2>3, RunningIsFinite
  <2>6. WarnsTypes'
    <3>0. task[t].doc <= issued /\ task[t].doc \in Nat
      BY <1>0, WarnConstants DEF WarnsTypes, WarnRecords
    <3>1. \A u \in Tasks : task'[u].doc <= issued'
      <4>1. task'[t].doc <= issued'
        BY <1>0, <1>1, <2>3, <3>0
      <4> QED
        BY <1>0, <1>1, <2>3, <4>1, DocsStay
    <3>2. horizon' \in 0..issued' /\ issued' \in 0..MaxWarns /\ hist' \in [Chats -> SUBSET (1..issued')]
      BY <1>0, <1>1
    <3>3. doubt' \subseteq Chats
      BY <1>0, <2>1
    <3> QED
      BY <1>0, <2>4, <2>5, <3>1, <3>2, <3>3 DEF WarnsTypes
  <2>7. MeetingInv'
    BY <1>3, <2>3, MeetingStays
  <2>8. ASSUME NEW d \in Chats PROVE Settled(d)' /\ Dated(d)'
    <3>1. CASE d = c
      <4>1. d \in doubt'
        BY <2>1, <3>1
      <4> QED
        BY <4>1, DoubtExcuses
    <3>2. CASE d # c
      <4>1. hist'[d] = hist[d] /\ counts'[d] = counts[d] /\ (d \in doubt => d \in doubt')
        BY <1>0, <1>1, <2>1, <3>2
      <4>2. Settled(d)'
        BY <1>2, <1>3, <2>3, <2>6, <4>1, StaysSettled
      <4>3. \A j : ~Counts(task[t], d, j)
        BY <1>0 DEF Counts
      <4>4. Dated(d)'
        BY <1>0, <1>2, <2>3, <4>1, <4>3, StaysDated
      <4> QED
        BY <4>2, <4>4
    <3> QED
      BY <3>1, <3>2
  <2>9. KnowsInv'
    <3> SUFFICES ASSUME NEW u \in Tasks, NEW d \in Chats, WorksOn(task'[u], d), ~task'[u].shared
                 PROVE  Knows(task[u], d)'
      BY DEF KnowsInv
    <3>1. u # t
      BY <1>3, <2>3
    <3>2. WorksOn(task[u], d) /\ task'[u] = task[u] /\ ~task[u].shared
      BY <2>2, <2>3, <3>1, OthersWork
    <3>3. d # c
      <4> SUFFICES ASSUME d = c PROVE FALSE
        OBVIOUS
      <4>1. Writing(u) /\ c \in Scope(task[u])
        BY <3>2 DEF Writing, WorksOn
      <4>2. task'[u] = [task[u] EXCEPT !.shared = TRUE]
        BY <1>5, <4>1
      <4>3. task[u] \in WarnRecords
        BY <2>2
      <4>4. task'[u].shared = TRUE
        BY <4>2, <4>3, SharingIsNoWork
      <4> QED
        BY <4>4
    <3>4. Knows(task[u], d)
      BY <3>2 DEF BooksInv, KnowsInv
    <3>5. hist'[d] = hist[d] /\ counts'[d] = counts[d] /\ (d \in doubt => d \in doubt')
      BY <1>0, <1>1, <2>1, <3>3
    <3> QED
      BY <1>0, <3>2, <3>4, <3>5 DEF Knows
  <2> QED
    BY <2>6, <2>7, <2>8, <2>9 DEF BooksInv, BalanceInv, StaleInv
<1> QED
  BY <1>0, <1>4, <1>5 DEF WarnInserts

-----------------------------------------------------------------------------
(* _clear_warn_docs and the two deletions of the expiry. *)

LEMMA ClearScope ==
  ASSUME NEW r \in WarnRecords, r.pc = "clear"
  PROVE  /\ Scope(r) \subseteq Chats /\ r.op \in {"warn", "reset", "expire"} /\ r.todo \in Halves
         /\ \A c : (WorksOn(r, c) <=> c \in Scope(r)) /\ (Unsettled(r, c) <=> c \in Scope(r))
         /\ \A c : Due(r, c) = 0 /\ \A i : ~Counts(r, c, i)
  BY DEF WarnRecords, Scope, WorksOn, Unsettled, Due, Owes, Leads, Counts

\* t, at work on clearing, goes on to s.
ClearMove(t, s) ==
    /\ task[t].pc = "clear" /\ s \in WarnRecords /\ s.doc <= issued /\ task' = [task EXCEPT ![t] = s]
    /\ \/ s = NoTask
       \/ /\ s.pc = "clear" /\ s.op = task[t].op /\ s.chat = task[t].chat
          /\ s.shared = task[t].shared
    /\ issued' = issued /\ horizon' = horizon
    /\ hist' \in [Chats -> SUBSET (1..issued)] /\ counts' \in [Chats -> Counters]
    /\ \A d \in Chats : ~counts'[d].there => counts'[d] = NoCounter
    /\ doubt \subseteq doubt' /\ doubt' \subseteq Chats /\ excused' \subseteq Limits
    /\ \A d \in Chats \ Scope(task[t]) : hist'[d] = hist[d] /\ counts'[d] = counts[d]
    /\ \A d \in Chats : hist'[d] \subseteq hist[d] /\ (counts'[d].stale => counts[d].stale)
    /\ task[t].shared => Scope(task[t]) \subseteq doubt'

LEMMA ClearStep ==
  ASSUME WarnsTypes, MeetingInv, BooksInv, NEW t \in Tasks, NEW s, ClearMove(t, s),
         \A c \in Scope(task[t]) : ~task[t].shared /\ c \notin doubt' =>
            /\ s = NoTask => counts'[c].n = Cardinality(hist'[c])
            /\ s # NoTask => Knows(task[t], c)'
  PROVE  WarnsTypes' /\ MeetingInv' /\ BooksInv'
<1> PICK r : r = task[t]
  OBVIOUS
<1>0. /\ r \in WarnRecords /\ r.pc = "clear" /\ s \in WarnRecords
      /\ s = NoTask \/ (s.pc = "clear" /\ s.op = r.op /\ s.chat = r.chat /\ s.shared = r.shared)
  BY DEF ClearMove, WarnsTypes
<1>1. /\ Others(task, task', t) /\ task'[t] = s
      /\ task' \in [Tasks -> WarnRecords] /\ IsFiniteSet(Active')
  BY TaskChanges DEF ClearMove
<1>2. /\ Scope(r) \subseteq Chats
      /\ \A c : (WorksOn(r, c) <=> c \in Scope(r)) /\ (Unsettled(r, c) <=> c \in Scope(r))
      /\ \A c : Due(r, c) = 0 /\ \A i : ~Counts(r, c, i)
  BY <1>0, ClearScope
<1>3. /\ \A c : WorksOn(s, c) => c \in Scope(r) /\ s # NoTask
      /\ \A c : Due(s, c) = 0
      /\ s # NoTask => s.pc = "clear" /\ s.shared = r.shared /\ \A c \in Scope(r) : Unsettled(s, c)
  <2>1. CASE s = NoTask
    BY <2>1, NoTaskRests
  <2>2. CASE s # NoTask
    <3>1. s.pc = "clear" /\ s.op = r.op /\ s.chat = r.chat /\ s.shared = r.shared
      BY <1>0, <2>2
    <3>2. Scope(s) = Scope(r)
      BY <1>0, <3>1 DEF Scope
    <3> QED
      BY <1>0, <2>2, <3>1, <3>2, ClearScope
  <2> QED
    BY <2>1, <2>2
<1>4. MeetingInv'
  <2>1. \A c \in Chats : WorksOn(task'[t], c) => WorksOn(task[t], c) /\ task'[t].shared = task[t].shared
    BY <1>1, <1>2, <1>3
  <2> QED
    BY <1>1, <2>1, MeetingStays
<1>5. WarnsTypes'
  <2>1. issued' \in Nat /\ issued <= issued' /\ task'[t].doc <= issued'
    BY <1>1, WarnConstants DEF WarnsTypes, ClearMove
  <2>2. \A u \in Tasks : task'[u].doc <= issued'
    BY <1>1, <2>1, DocsStay
  <2> QED
    BY <1>1, <2>2 DEF WarnsTypes, Counters, ClearMove
<1>6. ASSUME NEW c \in Scope(r)
      PROVE  Settled(c)' /\ Dated(c)' /\ (WorksOn(s, c) /\ ~s.shared => Knows(task[t], c)')
  <2>0. c \in Chats /\ WorksOn(task[t], c)
    BY <1>2, <1>6
  <2>1. CASE c \in doubt'
    <3>1. WorksOn(s, c) => Knows(task[t], c)'
      BY <1>1, <1>3, <2>1 DEF Knows
    <3> QED
      BY <2>1, <3>1, DoubtExcuses
  <2>2. CASE c \notin doubt'
    <3>1. ~task[t].shared
      BY <1>6, <2>2 DEF ClearMove
    <3>2. /\ s = NoTask => counts'[c].n = Cardinality(hist'[c])
          /\ s # NoTask => Knows(task[t], c)'
      BY <1>6, <2>2, <3>1
    <3>3. Settled(c) /\ Dated(c)
      BY <2>0 DEF BooksInv, BalanceInv, StaleInv
    <3>4. c \in doubt => c \in doubt'
      BY DEF ClearMove
    <3>5. Settled(c)'
      <4>1. CASE s = NoTask
        <5>1. Due(task'[t], c) = 0
          BY <1>1, <1>3
        <5> QED
          BY <1>1, <2>0, <3>1, <3>2, <4>1, <5>1, LoneSettles
      <4>2. CASE s # NoTask
        <5>1. Unsettled(task'[t], c)
          BY <1>1, <1>3, <1>6, <4>2
        <5> QED
          BY <1>1, <1>5, <2>0, <3>3, <3>4, <5>1, StaysSettled
      <4> QED
        BY <4>1, <4>2
    <3>6. Dated(c)'
      <4>1. /\ horizon' = horizon /\ (counts'[c].stale => counts[c].stale)
            /\ \A i \in hist'[c] : i \in hist[c] /\ ~Counts(task[t], c, i)
        BY <1>2, <2>0 DEF ClearMove
      <4> QED
        BY <1>1, <2>0, <3>3, <3>4, <4>1, StaysDated
    <3> QED
      BY <1>3, <3>2, <3>5, <3>6
  <2> QED
    BY <2>1, <2>2
<1>7. Minds(t)
  <2>1. \A c \in Chats : ~Works(t, c) => c \notin Scope(task[t])
    BY <1>2 DEF Works
  <2> QED
    BY <2>1 DEF Minds, ClearMove
<1>8. \A c \in Chats : Works(t, c) => Settled(c)' /\ Dated(c)'
  <2>1. \A c \in Chats : Works(t, c) => c \in Scope(r)
    BY <1>1, <1>2, <1>3 DEF Works
  <2> QED
    BY <1>6, <2>1
<1>9. \A c \in Chats : WorksOn(task'[t], c) /\ ~task'[t].shared => Knows(task[t], c)'
  BY <1>1, <1>3, <1>6
<1>10. horizon' = horizon
  BY DEF ClearMove
<1> QED
  BY <1>1, <1>4, <1>5, <1>7, <1>8, <1>9, <1>10, HandlerStep

LEMMA DoneIs ==
  ASSUME WarnsTypes, NEW t \in Tasks, task[t].pc = "clear",
         NEW part \in {"warns", "count"}, NEW other \in {"warns", "count"}, part # other,
         part \in task[t].todo, Done(t, part)
  PROVE  \E s \in WarnRecords :
           /\ task' = [task EXCEPT ![t] = s] /\ s.doc <= issued
           /\ \/ s = NoTask /\ task[t].todo = {part}
              \/ /\ s # NoTask /\ task[t].todo = {"warns", "count"} /\ s.todo = {other}
                 /\ s.pc = "clear" /\ s.op = task[t].op /\ s.chat = task[t].chat
                 /\ s.shared = task[t].shared
<1>1. task[t] \in WarnRecords /\ task[t].doc <= issued /\ task[t].todo \in Halves
  BY DEF WarnsTypes, WarnRecords
<1>2. NoTask \in WarnRecords /\ NoTask.doc <= issued /\ NoTask.pc = "idle"
  BY NoTaskRests, WarnConstants DEF WarnsTypes
<1>3. CASE task[t].todo = {part}
  BY <1>2, <1>3 DEF Done, Ends
<1>4. CASE task[t].todo # {part}
  <2> PICK rest : rest = task[t].todo \ {part}
    OBVIOUS
  <2>1. task[t].todo = {"warns", "count"} /\ rest = {other}
    BY <1>1, <1>4, OtherHalf
  <2>2. rest \in Halves /\ rest # {}
    BY <2>1 DEF Halves
  <2> DEFINE s == [task[t] EXCEPT !.todo = rest]
  <2>3. /\ s \in WarnRecords /\ s.todo = rest /\ s.pc = "clear" /\ s.op = task[t].op
        /\ s.chat = task[t].chat /\ s.shared = task[t].shared /\ s.doc = task[t].doc
    BY <1>1, <2>2 DEF WarnRecords, WarnPlaces, UnwarnPlaces
  <2>4. task' = [task EXCEPT ![t] = s]
    BY <1>4 DEF Done, WarnsTypes
  <2> HIDE DEF s
  <2>5. s # NoTask
    BY <1>2, <2>3
  <2> QED
    BY <1>1, <2>1, <2>3, <2>4, <2>5
<1> QED
  BY <1>3, <1>4

\* What a handler that clears alone finds in a chat.
LEMMA ClearKnows ==
  ASSUME WarnsTypes, MeetingInv, BooksInv, NEW t \in Tasks, task[t].pc = "clear",
         ~task[t].shared, NEW c \in Scope(task[t]), c \notin doubt
  PROVE  /\ task[t].todo = {"warns"} =>
              \/ counts[c].n = 0 /\ (task[t].op = "expire" => \A i \in hist[c] : i <= horizon)
              \/ /\ task[t].op = "expire" /\ ~counts[c].stale
                 /\ counts[c].n = Cardinality(hist[c])
         /\ task[t].todo = {"count"} =>
              \/ hist[c] = {} /\ (task[t].op = "expire" => counts[c].stale \/ counts[c].n = 0)
              \/ /\ task[t].op = "expire" /\ ~counts[c].stale
                 /\ counts[c].n = Cardinality(hist[c])
         /\ task[t].todo = {"warns", "count"} => counts[c].n = Cardinality(hist[c])
         /\ counts[c].stale => \A i \in hist[c] : i <= horizon
<1>1. task[t] \in WarnRecords
  BY DEF WarnsTypes
<1>2. c \in Chats /\ WorksOn(task[t], c) /\ \A i : ~Counts(task[t], c, i)
  BY <1>1, ClearScope
<1>3. Knows(task[t], c)
  BY <1>2 DEF BooksInv, KnowsInv
<1>4. {"warns"} # {"count"} /\ {"warns"} # {"warns", "count"} /\ {"count"} # {"warns", "count"}
  <2>1. "count" \notin {"warns"} /\ "warns" \notin {"count"}
    OBVIOUS
  <2>2. "count" \in {"warns", "count"} /\ "warns" \in {"warns", "count"} /\ "warns" \in {"warns"}
    OBVIOUS
  <2> QED
    BY <2>1, <2>2, Zenon
<1>5. ASSUME counts[c].stale, NEW i \in hist[c] PROVE i <= horizon
  <2>1. Dated(c)
    BY <1>2 DEF BooksInv, StaleInv
  <2>2. CASE i <= horizon
    BY <2>2
  <2>3. CASE \E u \in Tasks : Counts(task[u], c, i)
    <3>1. PICK u \in Tasks : Counts(task[u], c, i)
      BY <2>3
    <3>2. u # t /\ task[u] \in WarnRecords
      BY <1>2, <3>1 DEF WarnsTypes
    <3>3. WorksOn(task[u], c)
      BY <1>2, <3>1, <3>2, CountsWorks
    <3> QED
      BY <1>2, <3>2, <3>3 DEF MeetingInv
  <2> QED
    BY <1>5, <2>1, <2>2, <2>3 DEF Dated
<1>6. task[t].todo = {"warns"} =>
              \/ counts[c].n = 0 /\ (task[t].op = "expire" => \A i \in hist[c] : i <= horizon)
              \/ /\ task[t].op = "expire" /\ ~counts[c].stale
                 /\ counts[c].n = Cardinality(hist[c])
  BY <1>3 DEF Knows
<1>7. task[t].todo = {"count"} =>
              \/ hist[c] = {} /\ (task[t].op = "expire" => counts[c].stale \/ counts[c].n = 0)
              \/ /\ task[t].op = "expire" /\ ~counts[c].stale
                 /\ counts[c].n = Cardinality(hist[c])
  BY <1>3, <1>4 DEF Knows
<1>8. task[t].todo = {"warns", "count"} => counts[c].n = Cardinality(hist[c])
  BY <1>3, <1>4 DEF Knows
<1> QED
  BY <1>5, <1>6, <1>7, <1>8

LEMMA ClearsWarnsKeeps ==
  ASSUME WarnsTypes, MeetingInv, BooksInv, NEW t \in Tasks, ClearsWarns(t)
  PROVE  WarnsTypes' /\ MeetingInv' /\ BooksInv'
<1> PICK r : r = task[t]
  OBVIOUS
<1>0. /\ r.pc = "clear" /\ "warns" \in r.todo /\ r \in WarnRecords
      /\ issued' = issued /\ horizon' = horizon /\ counts' = counts /\ excused' = excused
      /\ hist' = hist \/ hist' = Cleared(r)
      /\ doubt' = doubt \cup (Contended(r) \cup
                    IF hist' # hist THEN Outlived(r) ELSE {c \in Chats : Cleared(r)[c] # hist[c]})
  BY DEF ClearsWarns, Doubts, WarnsTypes
<1>1. /\ Scope(r) \subseteq Chats /\ r.op \in {"warn", "reset", "expire"}
  BY <1>0, ClearScope
<1>2. /\ hist \in [Chats -> SUBSET (1..issued)] /\ counts \in [Chats -> Counters]
      /\ \A d \in Chats : ~counts[d].there => counts[d] = NoCounter
      /\ doubt \subseteq Chats /\ excused \subseteq Limits
  BY DEF WarnsTypes, Counters
<1>3. PICK s \in WarnRecords :
           /\ task' = [task EXCEPT ![t] = s] /\ s.doc <= issued
           /\ \/ s = NoTask /\ task[t].todo = {"warns"}
              \/ /\ s # NoTask /\ task[t].todo = {"warns", "count"} /\ s.todo = {"count"}
                 /\ s.pc = "clear" /\ s.op = task[t].op /\ s.chat = task[t].chat
                 /\ s.shared = task[t].shared
  BY <1>0, DoneIs DEF ClearsWarns
<1>4. /\ \A d \in Chats : d \notin Scope(r) => Cleared(r)[d] = hist[d]
      /\ \A d \in Scope(r) : Cleared(r)[d] = IF r.op = "expire" THEN {i \in hist[d] : i > horizon} ELSE {}
      /\ DOMAIN Cleared(r) = Chats
  BY <1>1 DEF Cleared
<1>5. /\ hist' \in [Chats -> SUBSET (1..issued)]
      /\ \A d \in Chats : hist'[d] \subseteq hist[d]
      /\ \A d \in Chats \ Scope(r) : hist'[d] = hist[d]
  <2>1. CASE hist' = hist
    BY <1>2, <2>1
  <2>2. CASE hist' = Cleared(r)
    <3>1. Cleared(r) \in [Chats -> SUBSET (1..issued)]
      BY <1>2 DEF Cleared
    <3>2. \A d \in Chats : Cleared(r)[d] \subseteq hist[d]
      BY <1>4
    <3> QED
      BY <1>4, <2>2, <3>1, <3>2
  <2> QED
    BY <1>0, <2>1, <2>2
<1>6. /\ doubt \subseteq doubt' /\ doubt' \subseteq Chats
      /\ r.shared => Scope(r) \subseteq doubt'
      /\ \A c \in Chats : hist' # hist /\ c \in Outlived(r) => c \in doubt'
      /\ \A c \in Chats : hist' = hist /\ Cleared(r)[c] # hist[c] => c \in doubt'
  BY <1>0, <1>1, <1>2 DEF Contended, Outlived
<1>7. ClearMove(t, s)
  BY <1>0, <1>2, <1>3, <1>5, <1>6 DEF ClearMove
<1>8. ASSUME NEW c \in Scope(r), ~r.shared, c \notin doubt'
      PROVE  /\ s = NoTask => counts'[c].n = Cardinality(hist'[c])
             /\ s # NoTask => Knows(task[t], c)'
  <2>0. c \in Chats /\ c \notin doubt
    BY <1>1, <1>6, <1>8
  <2>1. /\ counts[c].n \in Nat /\ (Cardinality(hist[c]) = 0 <=> hist[c] = {}) /\ Cardinality({}) = 0
        /\ horizon \in Int /\ hist[c] \subseteq Int
        /\ counts[c].stale \in BOOLEAN /\ counts[c].there \in BOOLEAN
        /\ ~counts[c].there => counts[c].n = 0
    <3>1. Cardinality({}) = 0
      BY FS_EmptySet
    <3>2. horizon \in Int /\ hist[c] \subseteq Int
      BY <1>2, <2>0, WarnConstants DEF WarnsTypes
    <3>3. ~counts[c].there => counts[c].n = 0
      BY <1>2, <2>0 DEF NoCounter
    <3> QED
      BY <1>2, <2>0, <3>1, <3>2, <3>3, CardsAreNat DEF Counters
  \* Either nothing of the chat goes, or its counter goes too.
  <2>2. \/ Cleared(r)[c] = hist[c] /\ hist'[c] = hist[c]
        \/ hist'[c] = Cleared(r)[c] /\ (counts[c].there => ~Uncounted(r)[c].there)
    <3>1. CASE hist' = hist
      BY <1>6, <1>8, <2>0, <3>1
    <3>2. CASE hist' # hist
      <4>1. hist' = Cleared(r) /\ c \notin Outlived(r)
        BY <1>0, <1>6, <1>8, <2>0, <3>2
      <4> QED
        BY <1>8, <4>1 DEF Outlived
    <3> QED
      BY <3>1, <3>2
  <2>3. r.op = "expire" /\ counts[c].there /\ ~Uncounted(r)[c].there => counts[c].stale
    BY <2>0 DEF Uncounted
  <2>4. /\ r.op # "expire" => Cleared(r)[c] = {}
        /\ r.op = "expire" => Cleared(r)[c] = {i \in hist[c] : i > horizon}
    BY <1>4, <1>8
  <2>5. /\ r.todo = {"warns"} =>
              \/ counts[c].n = 0 /\ (r.op = "expire" => \A i \in hist[c] : i <= horizon)
              \/ r.op = "expire" /\ ~counts[c].stale /\ counts[c].n = Cardinality(hist[c])
        /\ r.todo = {"warns", "count"} => counts[c].n = Cardinality(hist[c])
        /\ counts[c].stale => \A i \in hist[c] : i <= horizon
    BY <1>0, <1>8, <2>0, ClearKnows
  <2>6. (\A i \in hist[c] : i <= horizon) => {i \in hist[c] : i > horizon} = {}
    BY <2>1
  <2>7. CASE s = NoTask
    <3>1. r.todo = {"warns"}
      BY <1>3, <2>7
    <3>2. counts[c].n = Cardinality(hist'[c])
      BY <2>1, <2>2, <2>3, <2>4, <2>5, <2>6, <3>1
    <3> QED
      BY <1>0, <2>7, <3>2
  <2>8. CASE s # NoTask
    <3>1. r.todo = {"warns", "count"} /\ s.todo = {"count"} /\ s.pc = "clear" /\ s.op = r.op
      BY <1>3, <2>8
    <3>2. \/ hist'[c] = {} /\ (r.op = "expire" => counts[c].stale \/ counts[c].n = 0)
          \/ r.op = "expire" /\ ~counts[c].stale /\ counts[c].n = Cardinality(hist'[c])
      BY <2>1, <2>2, <2>3, <2>4, <2>5, <2>6, <3>1
    <3>3. task'[t] = s
      BY <1>3 DEF WarnsTypes
    <3>4. {"count"} # {"warns"}
      <4>1. "count" \notin {"warns"} /\ "count" \in {"count"}
        OBVIOUS
      <4> QED
        BY <4>1, Zenon
    <3> QED
      BY <1>0, <2>8, <3>1, <3>2, <3>3, <3>4 DEF Knows
  <2> QED
    BY <2>7, <2>8
<1> QED
  BY <1>7, <1>8, ClearStep

LEMMA ClearsCountKeeps ==
  ASSUME WarnsTypes, MeetingInv, BooksInv, NEW t \in Tasks, ClearsCount(t)
  PROVE  WarnsTypes' /\ MeetingInv' /\ BooksInv'
<1> PICK r : r = task[t]
  OBVIOUS
<1>0. /\ r.pc = "clear" /\ "count" \in r.todo /\ r \in WarnRecords
      /\ issued' = issued /\ horizon' = horizon /\ hist' = hist
      /\ \/ counts' = Uncounted(r) /\ doubt' = doubt \cup Contended(r)
         \/ /\ counts' = counts
            /\ doubt' = doubt \cup (Contended(r) \cup {c \in Scope(r) : Uncounted(r)[c] # counts[c]})
  BY DEF ClearsCount, Doubts, WarnsTypes
<1>1. /\ Scope(r) \subseteq Chats /\ r.op \in {"warn", "reset", "expire"}
  BY <1>0, ClearScope
<1>2. /\ hist \in [Chats -> SUBSET (1..issued)] /\ counts \in [Chats -> Counters]
      /\ \A d \in Chats : ~counts[d].there => counts[d] = NoCounter
      /\ doubt \subseteq Chats /\ excused \subseteq Limits
  BY DEF WarnsTypes, Counters
<1>e. excused' \subseteq Limits
  BY <1>2, ReachedAreLimits DEF ClearsCount, Excuses
<1>3. PICK s \in WarnRecords :
           /\ task' = [task EXCEPT ![t] = s] /\ s.doc <= issued
           /\ \/ s = NoTask /\ task[t].todo = {"count"}
              \/ /\ s # NoTask /\ task[t].todo = {"warns", "count"} /\ s.todo = {"warns"}
                 /\ s.pc = "clear" /\ s.op = task[t].op /\ s.chat = task[t].chat
                 /\ s.shared = task[t].shared
  BY <1>0, DoneIs DEF ClearsCount
<1>4. /\ \A d \in Chats : Uncounted(r)[d] \in {counts[d], NoCounter}
      /\ \A d \in Chats \ Scope(r) : Uncounted(r)[d] = counts[d]
      /\ \A d \in Scope(r) : Uncounted(r)[d] =
             IF r.op = "expire" /\ ~counts[d].stale THEN counts[d] ELSE NoCounter
      /\ Uncounted(r) = [d \in Chats |-> Uncounted(r)[d]]
  BY <1>1 DEF Uncounted
<1>5. NoCounter \in Counters /\ NoCounter.stale = FALSE /\ NoCounter.there = FALSE /\ NoCounter.n = 0
  BY DEF NoCounter, Counters
<1>6. /\ counts' \in [Chats -> Counters]
      /\ \A d \in Chats : ~counts'[d].there => counts'[d] = NoCounter
      /\ \A d \in Chats : counts'[d].stale => counts[d].stale
      /\ \A d \in Chats \ Scope(r) : counts'[d] = counts[d]
  <2>1. CASE counts' = counts
    BY <1>2, <2>1
  <2>2. CASE counts' = Uncounted(r)
    <3>1. \A d \in Chats : Uncounted(r)[d] \in Counters
      BY <1>2, <1>4, <1>5
    <3>2. Uncounted(r) \in [Chats -> Counters]
      BY <1>4, <3>1
    <3>3. \A d \in Chats : ~counts'[d].there => counts'[d] = NoCounter
      BY <1>2, <1>4, <2>2
    <3>4. \A d \in Chats : counts'[d].stale => counts[d].stale
      BY <1>4, <1>5, <2>2
    <3> QED
      BY <1>4, <2>2, <3>2, <3>3, <3>4
  <2> QED
    BY <1>0, <2>1, <2>2
<1>7. /\ doubt \subseteq doubt' /\ doubt' \subseteq Chats
      /\ r.shared => Scope(r) \subseteq doubt'
      /\ \A c \in Scope(r) : c \notin doubt' => counts'[c] = Uncounted(r)[c]
  BY <1>0, <1>1, <1>2 DEF Contended
<1>8. ClearMove(t, s)
  BY <1>0, <1>2, <1>e, <1>3, <1>6, <1>7 DEF ClearMove
<1>9. ASSUME NEW c \in Scope(r), ~r.shared, c \notin doubt'
      PROVE  /\ s = NoTask => counts'[c].n = Cardinality(hist'[c])
             /\ s # NoTask => Knows(task[t], c)'
  <2>0. c \in Chats /\ c \notin doubt
    BY <1>1, <1>7, <1>9
  <2>1. /\ counts[c].n \in Nat /\ (Cardinality(hist[c]) = 0 <=> hist[c] = {})
    BY <2>0, CardsAreNat
  <2>2. counts'[c] = IF r.op = "expire" /\ ~counts[c].stale THEN counts[c] ELSE NoCounter
    BY <1>4, <1>7, <1>9
  <2>3. /\ r.todo = {"count"} =>
              \/ hist[c] = {} /\ (r.op = "expire" => counts[c].stale \/ counts[c].n = 0)
              \/ r.op = "expire" /\ ~counts[c].stale /\ counts[c].n = Cardinality(hist[c])
        /\ r.todo = {"warns", "count"} => counts[c].n = Cardinality(hist[c])
        /\ counts[c].stale => \A i \in hist[c] : i <= horizon
    BY <1>0, <1>9, <2>0, ClearKnows
  <2>4. CASE s = NoTask
    <3>1. r.todo = {"count"}
      BY <1>3, <2>4
    <3>2. counts'[c].n = Cardinality(hist[c])
      BY <1>5, <2>1, <2>2, <2>3, <3>1
    <3> QED
      BY <1>0, <2>4, <3>2
  <2>5. CASE s # NoTask
    <3>1. r.todo = {"warns", "count"} /\ s.todo = {"warns"} /\ s.pc = "clear" /\ s.op = r.op
      BY <1>3, <2>5
    <3>2. \/ counts'[c].n = 0 /\ (r.op = "expire" => \A i \in hist[c] : i <= horizon)
          \/ r.op = "expire" /\ ~counts'[c].stale /\ counts'[c].n = Cardinality(hist[c])
      BY <1>5, <2>1, <2>2, <2>3, <3>1
    <3>3. task'[t] = s
      BY <1>3 DEF WarnsTypes
    <3> QED
      BY <1>0, <2>5, <3>1, <3>2, <3>3 DEF Knows
  <2> QED
    BY <2>4, <2>5
<1> QED
  BY <1>8, <1>9, ClearStep

-----------------------------------------------------------------------------
(* Time, and a restart. *)

LEMMA TimePassesKeeps ==
  ASSUME WarnsTypes, MeetingInv, BooksInv, LimitInv, TimePasses
  PROVE  WarnsIInv'
<1>1. /\ ~Expiring /\ horizon' = issued /\ issued' = issued /\ hist' = hist /\ task' = task
      /\ doubt' = doubt /\ excused' = excused
      /\ counts' = [c \in Chats |-> [counts[c] EXCEPT !.stale = @ \/ counts[c].there]]
  BY DEF TimePasses
<1>2. counts \in [Chats -> Counters] /\ \A d \in Chats : ~counts[d].there => counts[d] = NoCounter
  BY DEF WarnsTypes, Counters
<1>3. /\ counts' \in [Chats -> Counters] /\ \A d \in Chats : counts'[d].n = counts[d].n
      /\ \A d \in Chats : ~counts'[d].there => counts'[d] = NoCounter
  <2>1. ASSUME NEW d \in Chats
        PROVE  /\ counts'[d] \in Counters /\ counts'[d].n = counts[d].n
               /\ counts'[d].there = counts[d].there
               /\ counts'[d].stale = (counts[d].stale \/ counts[d].there)
    BY <1>1, <1>2 DEF Counters
  <2>2. ASSUME NEW d \in Chats, ~counts'[d].there PROVE counts'[d] = NoCounter
    <3>1. counts[d] = NoCounter
      BY <1>2, <2>1, <2>2
    <3>2. counts[d].there = FALSE /\ counts[d].stale = FALSE /\ counts[d].n = 0
      BY <3>1 DEF NoCounter
    <3>3. /\ counts'[d].there = FALSE /\ counts'[d].stale = FALSE /\ counts'[d].n = 0
          /\ counts'[d] \in Counters
      BY <2>1, <3>2
    <3> QED
      BY <3>3 DEF NoCounter, Counters
  <2> QED
    BY <1>1, <2>1, <2>2
<1>4. WarnsTypes'
  <2>1. horizon' \in 0..issued'
    BY <1>1, WarnConstants DEF WarnsTypes
  <2>2. Active' = Active
    BY <1>1 DEF Active
  <2> QED
    BY <1>1, <1>3, <2>1, <2>2 DEF WarnsTypes, Counters
<1>5. BalanceInv'
  <2> SUFFICES ASSUME NEW c \in Chats PROVE Settled(c)'
    BY DEF BalanceInv
  <2>1. Settled(c)
    BY DEF BooksInv, BalanceInv
  <2> QED
    BY <1>1, <1>3, <2>1 DEF Settled, Balanced
<1>6. StaleInv'
  <2> SUFFICES ASSUME NEW c \in Chats, NEW i \in hist[c] PROVE i <= issued
    BY <1>1 DEF StaleInv, Dated
  <2> QED
    BY WarnConstants DEF WarnsTypes
<1>7. MeetingInv'
  BY <1>1 DEF MeetingInv
<1>8. KnowsInv'
  <2> SUFFICES ASSUME NEW t \in Tasks, NEW c \in Chats, WorksOn(task[t], c), ~task[t].shared
               PROVE  Knows(task[t], c)'
    BY <1>1 DEF KnowsInv
  <2>1. Knows(task[t], c) /\ task[t].op # "expire"
    BY <1>1 DEF BooksInv, KnowsInv, Expiring, Active, WorksOn
  <2> QED
    BY <1>1, <1>3, <2>1 DEF Knows
<1>9. FedTotal(counts') = FedTotal(counts)
  <2>1. \A c \in Chats : {c} \X (1..counts'[c].n) = {c} \X (1..counts[c].n)
    BY <1>3
  <2> QED
    BY <2>1 DEF FedTotal
<1>10. LimitInv'
  BY <1>1, <1>3, <1>9 DEF LimitInv, Reached
<1> QED
  BY <1>4, <1>5, <1>6, <1>7, <1>8, <1>10 DEF WarnsIInv

LEMMA BotRestartsKeeps ==
  ASSUME WarnsTypes, MeetingInv, BooksInv, BotRestarts
  PROVE  WarnsIInv'
<1>1. /\ issued' = issued /\ horizon' = horizon /\ hist' = hist /\ counts' = counts
      /\ task' = [t \in Tasks |-> NoTask] /\ excused' = excused \cup Reached(counts)
      /\ doubt' = doubt \cup UNION {Scope(task[t]) : t \in Active}
  BY ReachedAreLimits DEF BotRestarts, Doubts, Excuses
<1>2. ASSUME NEW t \in Tasks
      PROVE  task[t] \in WarnRecords /\ Scope(task[t]) \subseteq Chats
  <2>1. task[t] \in WarnRecords
    BY DEF WarnsTypes
  <2> QED
    BY <2>1 DEF Scope, WarnRecords, WarnPlaces, UnwarnPlaces
<1>3. \A t \in Tasks : \A c : WorksOn(task[t], c) => c \in doubt'
  BY <1>1 DEF WorksOn, Active
<1>4. \A t \in Tasks : task'[t] = NoTask
  BY <1>1
<1>5. WarnsTypes'
  <2>1. Active' = {}
    BY <1>4, NoTaskRests DEF Active
  <2>2. IsFiniteSet(Active')
    BY <2>1, FS_EmptySet
  <2>3. task' \in [Tasks -> WarnRecords] /\ \A t \in Tasks : task'[t].doc <= issued'
    BY <1>1, <1>4, NoTaskRests, WarnConstants DEF WarnsTypes
  <2>4. doubt' \subseteq Chats
    BY <1>1, <1>2 DEF WarnsTypes, Active
  <2>5. excused' \subseteq Limits
    BY <1>1, ReachedAreLimits DEF WarnsTypes
  <2> QED
    BY <1>1, <2>2, <2>3, <2>4, <2>5 DEF WarnsTypes
<1>6. MeetingInv' /\ KnowsInv'
  BY <1>4, NoTaskRests DEF MeetingInv, KnowsInv
<1>7. BalanceInv'
  <2> SUFFICES ASSUME NEW c \in Chats, c \notin doubt' PROVE Balanced(c)'
    BY DEF BalanceInv, Settled
  <2>1. Settled(c) /\ c \notin doubt /\ \A t \in Tasks : ~WorksOn(task[t], c)
    BY <1>1, <1>3 DEF BooksInv, BalanceInv
  <2>2. counts[c].n = Cardinality(hist[c])
    BY <2>1, FreeIsRight
  <2>3. Owing(task', c) = {} /\ Leading(task', c) = {}
    BY <1>4, NoTaskRests DEF Owing, Leading, Owes, Leads
  <2> QED
    BY <1>1, <2>2, <2>3 DEF Balanced
<1>8. StaleInv'
  <2> SUFFICES ASSUME NEW c \in Chats, c \notin doubt', counts[c].stale, NEW i \in hist[c]
               PROVE  i <= horizon
    BY <1>1 DEF StaleInv, Dated
  <2>1. Dated(c) /\ c \notin doubt /\ \A t \in Tasks : ~WorksOn(task[t], c)
    BY <1>1, <1>3 DEF BooksInv, StaleInv
  <2>2. \A t \in Tasks : ~Counts(task[t], c, i)
    BY <1>2, <2>1, CountsWorks
  <2> QED
    BY <2>1, <2>2 DEF Dated
<1>9. LimitInv'
  BY <1>1 DEF LimitInv
<1> QED
  BY <1>5, <1>6, <1>7, <1>8, <1>9 DEF WarnsIInv

-----------------------------------------------------------------------------
(* The limits, step by step. *)

LEMMA OnlyMine ==
  ASSUME WarnsTypes, NEW t \in Tasks, NEW s, task' = [task EXCEPT ![t] = s]
  PROVE  Others(task, task', t) /\ task'[t] = s
  BY DEF Others, WarnsTypes

LEMMA EntersOthers ==
  ASSUME WarnsTypes, NEW t \in Tasks, NEW r, Enters(t, r)
  PROVE  Others(task, task', t)
<1>1. ASSUME NEW u \in Tasks \ {t}, u \in Meeting(t, r)
      PROVE  task[u].pc # "idle" /\ task'[u] = [task[u] EXCEPT !.shared = TRUE]
  BY <1>1 DEF Meeting, Enters, Writing
<1>2. ASSUME NEW u \in Tasks \ {t}, u \notin Meeting(t, r)
      PROVE  task'[u] = task[u]
  BY <1>2 DEF Enters
<1> QED
  BY <1>1, <1>2 DEF Others

LEMMA SameCounts ==
  ASSUME WarnsTypes, counts' = counts
  PROVE  \A c \in Chats : counts'[c].n <= counts[c].n
  BY CardsAreNat

\* The steps that raise no counter and have nothing to do with a ban.
LEMMA LimitsRest ==
  ASSUME WarnsTypes, WarnsTypes', LimitInv, NEW t \in Tasks, Others(task, task', t),
         task[t].pc \notin {"autoban", "fed", "clear"}, excused \subseteq excused',
         \A c \in Chats : counts'[c].n <= counts[c].n
  PROVE  LimitInv'
<1>1. \A l : ~Acts(task[t], l)
  BY DEF Acts
<1>2. Reached(counts') \subseteq Reached(counts)
  BY FewerReached
<1>3. Answers(t)
  BY <1>1, <1>2 DEF Answers
<1> QED
  BY <1>3, LimitsKeep

\* The steps after which the only counter that may be higher is excused, and
\* so is the federation.
LEMMA LimitsRaised ==
  ASSUME WarnsTypes, WarnsTypes', LimitInv, NEW t \in Tasks, Others(task, task', t),
         task[t].pc \notin {"autoban", "fed", "clear"}, excused \subseteq excused', NEW c \in Chats,
         \A l \in {c, "federation"} : l \in Reached(counts') => l \in excused',
         \A d \in Chats \ {c} : counts'[d] = counts[d]
  PROVE  LimitInv'
<1>1. \A l : ~Acts(task[t], l)
  BY DEF Acts
<1>2. ASSUME NEW l \in Reached(counts') \ excused' PROVE l \in Reached(counts)
  <2>1. l \in Chats \ {c} /\ counts'[l].n >= WarnLimit
    BY <1>2 DEF Reached
  <2> QED
    BY <2>1 DEF Reached
<1>3. Answers(t)
  BY <1>1, <1>2 DEF Answers
<1> QED
  BY <1>3, LimitsKeep

LEMMA LimitsRebuilt ==
  ASSUME WarnsTypes, WarnsTypes', LimitInv, NEW t \in Tasks, Others(task, task', t),
         task[t].pc \in {"backfill", "store"}, NEW c \in Chats, Rebuilt(c),
         \A d \in Chats \ {c} : counts'[d] = counts[d]
  PROVE  LimitInv'
<1>1. task[t].pc \notin {"autoban", "fed", "clear"} /\ excused \subseteq excused'
  BY DEF Rebuilt, Excuses
<1>2. \A d \in Chats : counts[d].n \in Nat /\ counts'[d].n \in Nat
  BY DEF WarnsTypes
<1>3. CASE counts'[c].n > counts[c].n
  <2>1. \A l \in {c, "federation"} : l \in Reached(counts') => l \in excused'
    BY <1>3 DEF Rebuilt, Excuses
  <2> QED
    BY <1>1, <2>1, LimitsRaised
<1>4. CASE ~(counts'[c].n > counts[c].n)
  <2>1. \A d \in Chats : counts'[d].n <= counts[d].n
    BY <1>2, <1>4
  <2> QED
    BY <1>1, <2>1, LimitsRest
<1> QED
  BY <1>3, <1>4

LEMMA FedReadsLimits ==
  ASSUME WarnsTypes, WarnsTypes', LimitInv, NEW t \in Tasks, FedReads(t)
  PROVE  LimitInv'
<1>1. task[t].pc = "fed" /\ task[t] \in WarnRecords /\ counts' = counts
  BY DEF FedReads, WarnsTypes
<1>2. \A l : Acts(task[t], l) => l = "federation"
  BY <1>1 DEF Acts
<1>3. CASE Goes(t, "autoban") /\ UNCHANGED excused
  <2>1. Others(task, task', t) /\ task'[t] = [task[t] EXCEPT !.pc = "autoban"]
    BY <1>3, OnlyMine DEF Goes
  <2>2. Acts(task'[t], "federation")
    BY <1>1, <2>1 DEF Acts, WarnRecords
  <2>3. Answers(t)
    BY <1>1, <1>2, <1>3, <2>2 DEF Answers
  <2> QED
    BY <2>1, <2>3, LimitsKeep
<1>4. CASE FedTotal(counts) < FedLimit /\ Ends(t) /\ UNCHANGED excused
  <2>1. Others(task, task', t)
    BY <1>4, OnlyMine DEF Ends
  <2>2. "federation" \notin Reached(counts)
    <3>1. counts \in [Chats -> Counters]
      BY DEF WarnsTypes, Counters
    <3>2. FedTotal(counts) \in Nat
      BY <3>1, TotalIsNat
    <3>3. ~Adds(FedTotal(counts))
      BY <1>4, <3>2, WarnConstants DEF Adds
    <3> QED
      BY <3>3, WarnConstants DEF Reached
  <2>3. Answers(t)
    BY <1>1, <1>2, <1>4, <2>2 DEF Answers
  <2> QED
    BY <2>1, <2>3, LimitsKeep
<1>5. CASE Ends(t) /\ Excuses({"federation"})
  <2>1. Others(task, task', t)
    BY <1>5, OnlyMine DEF Ends
  <2>2. Answers(t)
    BY <1>1, <1>2, <1>5 DEF Answers, Excuses
  <2> QED
    BY <2>1, <2>2, LimitsKeep
<1> QED
  BY <1>3, <1>4, <1>5 DEF FedReads

LEMMA AutoBanLimits ==
  ASSUME WarnsTypes, WarnsTypes', LimitInv, NEW t \in Tasks, AutoBan(t)
  PROVE  LimitInv'
<1>1. task[t].pc = "autoban" /\ task[t] \in WarnRecords /\ counts' = counts
  BY DEF AutoBan, WarnsTypes
<1>2. CASE Ends(t) /\ Excuses({task[t].chat, "federation"})
  <2>1. Others(task, task', t)
    BY <1>2, OnlyMine DEF Ends
  <2>2. \A l : Acts(task[t], l) => l \in {task[t].chat, "federation"}
    BY <1>1 DEF Acts
  <2>3. Answers(t)
    BY <1>1, <1>2, <2>2 DEF Answers, Excuses
  <2> QED
    BY <2>1, <2>3, LimitsKeep
<1>3. CASE Enforced(t)
  <2> DEFINE both == {"warns", "count"}
             r == [task[t] EXCEPT !.pc = "clear", !.doc = 0, !.todo = both]
  <2>1. both \in Halves /\ both # {} /\ "count" \in both
    BY BothHalves
  <2>2. Enters(t, r)
    BY <1>3 DEF Enforced
  <2> HIDE DEF both
  <2>3. r \in WarnRecords /\ r.pc = "clear" /\ r.todo = both
    BY <1>1, <2>1, BanClears
  <2>4. r.op = "warn"
    BY <1>1 DEF WarnRecords, WarnPlaces, UnwarnPlaces
  <2> HIDE DEF r
  <2>5. /\ Others(task, task', t) /\ task'[t] = [r EXCEPT !.shared = Meeting(t, r) # {}]
    BY <2>2, <2>3, TaskEnters
  <2>6. \A l : Acts(task'[t], l)
    BY <2>1, <2>3, <2>4, <2>5 DEF Acts, WarnRecords
  <2>7. Answers(t)
    BY <2>6 DEF Answers
  <2> QED
    BY <2>5, <2>7, LimitsKeep
<1> QED
  BY <1>2, <1>3 DEF AutoBan, ExemptsStaff, BanNotRecorded, NoChatReached

LEMMA ClearsWarnsLimits ==
  ASSUME WarnsTypes, WarnsTypes', LimitInv, NEW t \in Tasks, ClearsWarns(t)
  PROVE  LimitInv'
<1>1. /\ task[t].pc = "clear" /\ counts' = counts /\ excused' = excused
      /\ "warns" \in task[t].todo /\ Done(t, "warns")
  BY DEF ClearsWarns
<1>2. PICK s \in WarnRecords :
           /\ task' = [task EXCEPT ![t] = s]
           /\ \/ s = NoTask /\ task[t].todo = {"warns"}
              \/ /\ task[t].todo = {"warns", "count"} /\ s.todo = {"count"}
                 /\ s.pc = "clear" /\ s.op = task[t].op
  BY <1>1, DoneIs
<1>3. Others(task, task', t) /\ task'[t] = s
  BY <1>2, OnlyMine
<1>4. \A l : Acts(task[t], l) => Acts(task'[t], l)
  BY <1>1, <1>2, <1>3 DEF Acts
<1>5. Answers(t)
  BY <1>1, <1>4 DEF Answers
<1> QED
  BY <1>3, <1>5, LimitsKeep

LEMMA ClearsCountLimits ==
  ASSUME WarnsTypes, WarnsTypes', LimitInv, NEW t \in Tasks, ClearsCount(t)
  PROVE  LimitInv'
<1>1. /\ task[t].pc = "clear" /\ "count" \in task[t].todo /\ Done(t, "count")
      /\ counts \in [Chats -> Counters] /\ counts' \in [Chats -> Counters]
  BY DEF ClearsCount, WarnsTypes, Counters
<1>2. PICK s \in WarnRecords : task' = [task EXCEPT ![t] = s]
  BY <1>1, DoneIs
<1>3. Others(task, task', t)
  BY <1>2, OnlyMine
<1>4. CASE counts' = Uncounted(task[t]) /\ UNCHANGED excused /\ task[t].op = "warn"
  <2>1. Scope(task[t]) = Chats
    BY <1>1, <1>4 DEF Scope
  <2>2. \A c \in Chats : counts'[c].n = 0
    BY <1>4, <2>1 DEF Uncounted, NoCounter
  <2>3. FedTotal(counts') = 0
    BY <1>1, <2>2, TotalOfNothing
  <2>4. ~Adds(FedTotal(counts'))
    BY <2>3, WarnConstants DEF Adds
  <2>5. Reached(counts') = {}
    BY <2>2, <2>4, WarnConstants DEF Reached
  <2> QED
    BY <2>5 DEF LimitInv
<1>5. CASE counts' = Uncounted(task[t]) /\ UNCHANGED excused /\ task[t].op # "warn"
  <2>1. \A c \in Chats : counts'[c].n <= counts[c].n
    <3> SUFFICES ASSUME NEW c \in Chats PROVE counts'[c].n <= counts[c].n
      OBVIOUS
    <3>1. counts'[c] \in {counts[c], NoCounter} /\ counts[c].n \in Nat /\ NoCounter.n = 0
      BY <1>1, <1>5 DEF Uncounted, NoCounter, Counters
    <3> QED
      BY <3>1
  <2>2. Reached(counts') \subseteq Reached(counts)
    BY <2>1, FewerReached
  <2>3. \A l : ~Acts(task[t], l)
    BY <1>1, <1>5 DEF Acts
  <2>4. Answers(t)
    BY <1>5, <2>2, <2>3 DEF Answers
  <2> QED
    BY <1>3, <2>4, LimitsKeep
<1>6. CASE counts' = counts /\ Excuses(Limits)
  <2>1. Reached(counts') \subseteq excused'
    BY <1>6, ReachedAreLimits DEF Excuses
  <2> QED
    BY <2>1 DEF LimitInv
<1>7. CASE counts' = counts /\ UNCHANGED excused /\ task[t].op # "warn"
  <2>1. \A l : ~Acts(task[t], l)
    BY <1>1, <1>7 DEF Acts
  <2>2. Answers(t)
    BY <1>7, <2>1 DEF Answers
  <2> QED
    BY <1>3, <2>2, LimitsKeep
<1> QED
  BY <1>4, <1>5, <1>6, <1>7 DEF ClearsCount

LEMMA WarnCountsLimits ==
  ASSUME WarnsTypes, WarnsTypes', LimitInv, NEW t \in Tasks, WarnCounts(t)
  PROVE  LimitInv'
<1> PICK c : c = task[t].chat
  OBVIOUS
<1>0. task[t].pc = "inc" /\ task[t].pc \notin {"autoban", "fed", "clear"}
  BY DEF WarnCounts
<1>1. c \in Chats /\ counts \in [Chats -> Counters] /\ task[t].op = "warn" /\ task[t] \in WarnRecords
  <2>1. c \in Chats /\ counts \in [Chats -> Counters] /\ task[t] \in WarnRecords
    BY <1>0, AtWork
  <2> QED
    BY <1>0, <2>1 DEF WarnRecords, WarnPlaces
<1>2. CASE /\ counts' = Inc(c) /\ Proceeds(t, Decides(counts'[c].n))
           /\ excused' = excused \ ({c} \cup (Reached(counts') \cap {"federation"}))
  <2> PICK pc : pc = Decides(counts'[c].n)
    OBVIOUS
  <2>1. Others(task, task', t) /\ task'[t] = IF pc = "idle" THEN NoTask ELSE Fresh("warn", c, pc)
    BY <1>1, <1>2, OnlyMine DEF Proceeds
  <2>2. \A d \in Chats \ {c} : counts'[d] = counts[d]
    BY <1>1, <1>2, IncIs
  <2>3. \A p \in {"autoban", "fed"} : Fresh("warn", c, p).pc = p /\ Fresh("warn", c, p).chat = c
    BY <1>1, WarnCountsRecords DEF Fresh, NoTask
  <2>4. counts'[c].n >= WarnLimit => \A l \in {c, "federation"} : Acts(task'[t], l)
    BY <2>1, <2>3 DEF Decides, Acts
  <2>5. FedLimit > 0 => Acts(task'[t], "federation")
    BY <2>1, <2>3 DEF Decides, Acts
  <2>6. ASSUME NEW l \in Reached(counts') \ excused', ~Acts(task'[t], l)
        PROVE  l \in Reached(counts) \ excused
    <3>1. l # "federation"
      BY <2>5, <2>6, WarnConstants DEF Reached, Adds
    <3>2. l \in Chats /\ counts'[l].n >= WarnLimit
      BY <2>6, <3>1 DEF Reached
    <3>3. l # c
      BY <2>4, <2>6, <3>2
    <3> QED
      BY <1>2, <2>2, <2>6, <3>1, <3>2, <3>3 DEF Reached
  <2>7. \A l : ~Acts(task[t], l)
    BY <1>0 DEF Acts
  <2>8. Answers(t)
    BY <2>6, <2>7 DEF Answers
  <2> QED
    BY <2>1, <2>8, LimitsKeep
<1>3. CASE counts' = Inc(c) /\ Goes(t, "rollback") /\ Excuses({c, "federation"})
  <2>1. Others(task, task', t)
    BY <1>3, OnlyMine DEF Goes
  <2>2. \A d \in Chats \ {c} : counts'[d] = counts[d]
    BY <1>1, <1>3, IncIs
  <2>3. /\ excused \subseteq excused'
        /\ \A l \in {c, "federation"} : l \in Reached(counts') => l \in excused'
    BY <1>3 DEF Excuses
  <2> QED
    BY <1>0, <1>1, <2>1, <2>2, <2>3, LimitsRaised
<1>4. CASE Goes(t, "rollback") /\ UNCHANGED <<counts, excused>>
  <2>1. Others(task, task', t)
    BY <1>4, OnlyMine DEF Goes
  <2>2. excused' = excused /\ \A d \in Chats : counts'[d].n <= counts[d].n
    BY <1>4, SameCounts
  <2> QED
    BY <1>0, <2>1, <2>2, LimitsRest
<1> QED
  BY <1>2, <1>3, <1>4 DEF WarnCounts

LEMMA WarnInsertsLimits ==
  ASSUME WarnsTypes, WarnsTypes', LimitInv, NEW t \in Tasks, NEW c \in Handled, WarnInserts(t, c)
  PROVE  LimitInv'
<1>1. task[t].pc = "idle" /\ counts' = counts /\ excused' = excused
  BY DEF WarnInserts
<1>2. \A d \in Chats : counts'[d].n <= counts[d].n
  BY <1>1, SameCounts
<1>3. Others(task, task', t)
  <2>1. CASE Enters(t, [Fresh("warn", c, "inc") EXCEPT !.doc = issued'])
    BY <2>1, EntersOthers
  <2>2. CASE task' = [u \in Tasks |-> IF Writing(u) /\ c \in Scope(task[u])
                                      THEN [task[u] EXCEPT !.shared = TRUE] ELSE task[u]]
    BY <2>2 DEF Others, Writing
  <2> QED
    BY <2>1, <2>2 DEF WarnInserts
<1> QED
  BY <1>1, <1>2, <1>3, LimitsRest

\* The other steps at the beginning of a handler.
LEMMA StartsLimits ==
  ASSUME WarnsTypes, WarnsTypes', LimitInv, NEW t \in Tasks,
         ExpiryStarts(t) \/ \E c \in Handled : ResetStarts(t, c) \/ UnwarnReads(t, c)
  PROVE  LimitInv'
<1>1. task[t].pc = "idle" /\ counts' = counts /\ excused' = excused
  BY DEF ExpiryStarts, ResetStarts, UnwarnReads
<1>2. \A d \in Chats : counts'[d].n <= counts[d].n
  BY <1>1, SameCounts
<1>3. \E r : Enters(t, r)
  BY DEF ExpiryStarts, ResetStarts, UnwarnReads
<1>4. Others(task, task', t)
  BY <1>3, EntersOthers
<1> QED
  BY <1>1, <1>2, <1>4, LimitsRest

\* The steps that read, or write only the history.
LEMMA QuietLimits ==
  ASSUME WarnsTypes, WarnsTypes', LimitInv, NEW t \in Tasks,
         \/ WarnRollsBack(t) \/ UnwarnRereads(t) \/ UnwarnPicks(t)
         \/ RemovesWarn(t) \/ Recounts(t)
  PROVE  LimitInv'
<1>1. /\ task[t].pc \in {"rollback", "reread", "newest", "remove", "recount"}
      /\ counts' = counts /\ excused' = excused
  BY DEF WarnRollsBack, UnwarnRereads, UnwarnPicks, RemovesWarn, Recounts
<1>2. \A d \in Chats : counts'[d].n <= counts[d].n
  BY <1>1, SameCounts
<1>3. \E s : task' = [task EXCEPT ![t] = s]
  <2>1. CASE WarnRollsBack(t)
    BY <2>1 DEF WarnRollsBack, Ends
  <2>2. CASE UnwarnRereads(t)
    BY <2>2 DEF UnwarnRereads, Ends
  <2>3. CASE UnwarnPicks(t)
    BY <2>3 DEF UnwarnPicks, Ends
  <2>4. CASE RemovesWarn(t)
    BY <2>4 DEF RemovesWarn, Removed
  <2>5. CASE Recounts(t)
    BY <2>5 DEF Recounts, Ends
  <2> QED
    BY <2>1, <2>2, <2>3, <2>4, <2>5
<1>4. Others(task, task', t)
  BY <1>3, OnlyMine
<1>5. task[t].pc \notin {"autoban", "fed", "clear"}
  BY <1>1
<1> QED
  BY <1>1, <1>2, <1>4, <1>5, LimitsRest

LEMMA RemovesCountLimits ==
  ASSUME WarnsTypes, WarnsTypes', LimitInv, NEW t \in Tasks, RemovesCount(t)
  PROVE  LimitInv'
<1> PICK c : c = task[t].chat
  OBVIOUS
<1>1. task[t].pc = "remove" /\ excused' = excused
  BY DEF RemovesCount
<1>2. task[t].pc \notin {"idle", "autoban", "fed", "clear"}
  BY <1>1
<1>3. c \in Chats /\ counts[c].n \in Nat
  BY <1>2, AtWork
<1>4. counts' = counts \/ (counts[c].n > 0 /\ counts' = Dec(c))
  BY DEF RemovesCount
<1>5. \A d \in Chats : counts'[d].n <= counts[d].n
  <2>1. CASE counts' = counts
    BY <2>1, SameCounts
  <2>2. CASE counts[c].n > 0 /\ counts' = Dec(c)
    <3>1. counts'[c].n = counts[c].n - 1 /\ \A d \in Chats \ {c} : counts'[d] = counts[d]
      BY <1>3, <2>2, DecIs
    <3>2. \A d \in Chats : counts[d].n \in Nat
      BY CardsAreNat
    <3> QED
      BY <1>3, <3>1, <3>2
  <2> QED
    BY <1>4, <2>1, <2>2
<1>6. \E s : task' = [task EXCEPT ![t] = s]
  BY DEF RemovesCount, Removed
<1>7. Others(task, task', t)
  BY <1>6, OnlyMine
<1> QED
  BY <1>1, <1>2, <1>5, <1>7, LimitsRest

\* The steps that rebuild a counter.
LEMMA RebuildsLimits ==
  ASSUME WarnsTypes, WarnsTypes', LimitInv, NEW t \in Tasks, Backfills(t) \/ Stores(t)
  PROVE  LimitInv'
<1> PICK c : c = task[t].chat
  OBVIOUS
<1>1. task[t].pc \in {"backfill", "store"} /\ Rebuilt(c)
  BY DEF Backfills, Stores
<1>2. task[t].pc \notin {"idle", "clear", "fed", "autoban"}
  BY <1>1
<1>3. c \in Chats /\ counts \in [Chats -> Counters]
  BY <1>2, AtWork
<1>4. \A d \in Chats \ {c} : counts'[d] = counts[d]
  <2>1. CASE Backfills(t)
    BY <1>3, <2>1 DEF Backfills
  <2>2. CASE Stores(t)
    BY <1>3, <2>2 DEF Stores
  <2> QED
    BY <2>1, <2>2
<1>5. \E s : task' = [task EXCEPT ![t] = s]
  <2>1. CASE Backfills(t)
    BY <2>1 DEF Backfills, Ends
  <2>2. CASE Stores(t)
    BY <2>2 DEF Stores, Ends
  <2> QED
    BY <2>1, <2>2
<1>6. Others(task, task', t)
  BY <1>5, OnlyMine
<1> QED
  BY <1>1, <1>3, <1>4, <1>6, LimitsRebuilt

-----------------------------------------------------------------------------
(* The theorems. *)

LEMMA WarnsInitially == WarnsInit => WarnsIInv
<1> SUFFICES ASSUME WarnsInit PROVE WarnsIInv
  OBVIOUS
<1>1. issued \in 0..MaxWarns /\ horizon = 0 /\ (Chats # Handled => issued = 1)
  BY WarnConstants DEF WarnsInit
<1>2. ASSUME NEW c \in Chats
      PROVE  /\ hist[c] \in SUBSET (1..issued) /\ counts[c] \in Counters
             /\ ~counts[c].there => counts[c] = NoCounter
             /\ counts[c].n = Cardinality(hist[c]) /\ counts[c].stale = FALSE
  <2>1. CASE c \in Handled
    <3>1. hist[c] = {} /\ counts[c] = NoCounter
      BY <1>2, <2>1 DEF WarnsInit
    <3> QED
      BY <3>1, FS_EmptySet DEF NoCounter, Counters
  <2>2. CASE c \notin Handled
    <3>1. hist[c] = {1} /\ counts[c] = Counter(1) /\ issued = 1
      BY <1>1, <1>2, <2>2 DEF WarnsInit
    <3>2. Cardinality({1}) = 1
      BY FS_Singleton
    <3>3. Counter(1) \in Counters /\ Counter(1).n = 1 /\ Counter(1).stale = FALSE
          /\ (~Counter(1).there => Counter(1) = NoCounter)
      BY CounterIs
    <3> QED
      BY <3>1, <3>2, <3>3
  <2> QED
    BY <2>1, <2>2
<1>3. \A t \in Tasks : task[t] = NoTask
  BY DEF WarnsInit
<1>4. WarnsTypes
  <2>1. hist \in [Chats -> SUBSET (1..issued)] /\ counts \in [Chats -> Counters]
    BY <1>2 DEF WarnsInit
  <2>2. Active = {}
    BY <1>3, NoTaskRests DEF Active
  <2>3. IsFiniteSet(Active)
    BY <2>2, FS_EmptySet
  <2>4. task \in [Tasks -> WarnRecords] /\ \A t \in Tasks : task[t].doc <= issued
    BY <1>1, <1>3, NoTaskRests, WarnConstants DEF WarnsInit
  <2>5. doubt \subseteq Chats /\ excused \subseteq Limits
    BY DEF WarnsInit, Reached, Limits
  <2>6. horizon \in 0..issued
    BY <1>1, WarnConstants
  <2> QED
    BY <1>1, <1>2, <2>1, <2>3, <2>4, <2>5, <2>6 DEF WarnsTypes, Counters
<1>5. MeetingInv /\ KnowsInv
  BY <1>3, NoTaskRests DEF MeetingInv, KnowsInv
<1>6. BalanceInv
  <2> SUFFICES ASSUME NEW c \in Chats PROVE Balanced(c)
    BY DEF BalanceInv, Settled
  <2>1. Owing(task, c) = {} /\ Leading(task, c) = {}
    BY <1>3, NoTaskRests DEF Owing, Leading, Owes, Leads
  <2> QED
    BY <1>2, <2>1 DEF Balanced
<1>7. StaleInv
  BY <1>2 DEF StaleInv, Dated
<1>8. LimitInv
  BY DEF WarnsInit, LimitInv
<1> QED
  BY <1>4, <1>5, <1>6, <1>7, <1>8 DEF WarnsIInv

LEMMA TaskStepKeeps ==
  ASSUME WarnsIInv, NEW t \in Tasks, TaskStep(t)
  PROVE  WarnsIInv'
<1>0. WarnsTypes /\ MeetingInv /\ BooksInv /\ LimitInv
  BY DEF WarnsIInv, BooksInv
<1>Q. ASSUME WarnsTypes', MeetingInv', BooksInv', LimitInv'
      PROVE  WarnsIInv'
  BY <1>Q DEF WarnsIInv, BooksInv
<1>1. CASE \E c \in Handled : WarnInserts(t, c)
  BY <1>0, <1>1, <1>Q, WarnInsertsKeeps, WarnInsertsLimits
<1>2. CASE \E c \in Handled : ResetStarts(t, c)
  BY <1>0, <1>2, <1>Q, ResetStartsKeeps, StartsLimits
<1>3. CASE \E c \in Handled : UnwarnReads(t, c)
  BY <1>0, <1>3, <1>Q, UnwarnReadsKeeps, StartsLimits
<1>4. CASE WarnCounts(t)
  BY <1>0, <1>4, <1>Q, WarnCountsKeeps, WarnCountsLimits
<1>5. CASE WarnRollsBack(t)
  BY <1>0, <1>5, <1>Q, WarnRollsBackKeeps, QuietLimits
<1>6. CASE FedReads(t)
  BY <1>0, <1>6, <1>Q, FedReadsKeeps, FedReadsLimits
<1>7. CASE AutoBan(t)
  BY <1>0, <1>7, <1>Q, AutoBanKeeps, AutoBanLimits
<1>8. CASE ClearsWarns(t)
  BY <1>0, <1>8, <1>Q, ClearsWarnsKeeps, ClearsWarnsLimits
<1>9. CASE ClearsCount(t)
  BY <1>0, <1>9, <1>Q, ClearsCountKeeps, ClearsCountLimits
<1>10. CASE ExpiryStarts(t)
  BY <1>0, <1>10, <1>Q, ExpiryStartsKeeps, StartsLimits
<1>11. CASE UnwarnRereads(t)
  BY <1>0, <1>11, <1>Q, UnwarnRereadsKeeps, QuietLimits
<1>12. CASE Backfills(t)
  BY <1>0, <1>12, <1>Q, BackfillsKeeps, RebuildsLimits
<1>13. CASE UnwarnPicks(t)
  BY <1>0, <1>13, <1>Q, UnwarnPicksKeeps, QuietLimits
<1>14. CASE RemovesWarn(t)
  BY <1>0, <1>14, <1>Q, RemovesWarnKeeps, QuietLimits
<1>15. CASE RemovesCount(t)
  BY <1>0, <1>15, <1>Q, RemovesCountKeeps, RemovesCountLimits
<1>16. CASE Recounts(t)
  BY <1>0, <1>16, <1>Q, RecountsKeeps, QuietLimits
<1>17. CASE Stores(t)
  BY <1>0, <1>17, <1>Q, StoresKeeps, RebuildsLimits
<1> QED
  BY <1>1, <1>2, <1>3, <1>4, <1>5, <1>6, <1>7, <1>8, <1>9, <1>10, <1>11, <1>12,
     <1>13, <1>14, <1>15, <1>16, <1>17 DEF TaskStep

LEMMA WarnsInductive == WarnsIInv /\ [WarnsNext]_warnsVars => WarnsIInv'
<1> SUFFICES ASSUME WarnsIInv, [WarnsNext]_warnsVars PROVE WarnsIInv'
  OBVIOUS
<1>0. WarnsTypes /\ MeetingInv /\ BooksInv /\ LimitInv
  BY DEF WarnsIInv, BooksInv
<1>1. CASE \E t \in Tasks : TaskStep(t)
  BY <1>1, TaskStepKeeps
<1>2. CASE TimePasses
  BY <1>0, <1>2, TimePassesKeeps
<1>3. CASE BotRestarts
  BY <1>0, <1>3, BotRestartsKeeps
<1>4. CASE UNCHANGED warnsVars
  <2>1. WarnsTypes' /\ MeetingInv' /\ LimitInv'
    BY <1>0, <1>4 DEF warnsVars, WarnsTypes, MeetingInv, LimitInv, Active
  <2>2. BalanceInv' /\ StaleInv' /\ KnowsInv'
    BY <1>0, <1>4 DEF warnsVars, BooksInv, BalanceInv, Settled, Balanced, StaleInv, Dated,
                      KnowsInv, Knows
  <2> QED
    BY <2>1, <2>2 DEF WarnsIInv
<1> QED
  BY <1>1, <1>2, <1>3, <1>4 DEF WarnsNext

LEMMA WarnsInvariant == WarnsSpec => []WarnsIInv
  BY WarnsInitially, WarnsInductive, PTL DEF WarnsSpec

(* The histories, counters and handlers of the warnings stay in their      *)
(* types: no counter falls below zero, and a handler that has ended leaves *)
(* nothing of its call behind (warning_flow.py, warnings_db.py).           *)
THEOREM WarnsTypeCorrect == WarnsSpec => []WarnsTypeOK
<1>1. WarnsIInv => WarnsTypeOK
  <2> SUFFICES ASSUME WarnsIInv PROVE WarnsTypeOK
    OBVIOUS
  <2>1. /\ issued \in Nat /\ task \in [Tasks -> WarnRecords]
        /\ \A t \in Tasks : task[t].doc <= issued
    BY WarnConstants DEF WarnsIInv, WarnsTypes
  <2>2. ASSUME NEW t \in Tasks
        PROVE  /\ task[t].doc \in 0..issued
               /\ task[t].pc = "idle" <=> task[t] = NoTask
    <3>1. task[t] \in WarnRecords /\ task[t].doc <= issued
      BY <2>1
    <3>2. task[t].doc \in 0..issued
      BY <2>1, <3>1, WarnConstants DEF WarnRecords
    <3> QED
      BY <3>1, <3>2, NoTaskRests DEF WarnRecords
  <2> DEFINE records == [op : {"none", "warn", "unwarn", "reset", "expire"},
          pc : {"idle", "inc", "rollback", "fed", "autoban",
                "clear", "backfill", "newest", "remove", "recount", "store", "reread"},
          chat : Chats \cup {"none"}, n : 0..MaxWarns, doc : 0..issued,
          todo : SUBSET {"warns", "count"},
          repair : BOOLEAN, gone : BOOLEAN, shared : BOOLEAN]
  <2>3. ASSUME NEW t \in Tasks PROVE task[t] \in records
    <3>1. task[t] \in WarnRecords /\ task[t].doc \in 0..issued
      BY <2>1, <2>2
    <3> QED
      BY <3>1 DEF WarnRecords, WarnPlaces, UnwarnPlaces, Halves
  <2>4. task \in [Tasks -> records]
    <3> HIDE DEF records
    <3> QED
      BY <2>1, <2>3
  <2> QED
    BY <2>2, <2>4 DEF WarnsTypeOK, WarnsIInv, WarnsTypes
<1> QED
  BY <1>1, WarnsInvariant, PTL

(* The counter that decides on a ban is the number of warnings on record,  *)
(* in every chat that no handler works on and that none of the causes of   *)
(* `doubt` has reached: the rollback of add_warn, the recount of           *)
(* remove_last_warn and the backfill of warn_count repair every other      *)
(* failure, whatever handlers run at the same time.                        *)
THEOREM CounterIsRight == WarnsSpec => []CounterAgrees
<1>1. WarnsIInv => CounterAgrees
  <2> SUFFICES ASSUME WarnsIInv, NEW c \in Chats, ~Busy(c), c \notin doubt
               PROVE  counts[c].n = Cardinality(hist[c])
    BY DEF CounterAgrees
  <2>1. WarnsTypes /\ Settled(c)
    BY DEF WarnsIInv, BalanceInv
  <2>2. \A t \in Tasks : ~WorksOn(task[t], c)
    BY DEF Busy, WorksOn, Active
  <2> QED
    BY <2>1, <2>2, FreeIsRight
<1> QED
  BY <1>1, WarnsInvariant, PTL

(* No limit is passed over: when no handler runs, a counter at the chat's  *)
(* limit, or counters that add up to the federation's, belong to a ban     *)
(* that a reported failure, an exemption or a restart left undone; every   *)
(* other one was acted on, and cleared (execute_warn, its auto-ban).       *)
THEOREM NoLimitPassedOver == WarnsSpec => []LimitIsActedOn
<1>1. WarnsIInv => LimitIsActedOn
  <2> SUFFICES ASSUME WarnsIInv, Active = {} PROVE Reached(counts) \subseteq excused
    BY DEF LimitIsActedOn
  <2>1. \A t \in Tasks : \A l : ~Acts(task[t], l)
    BY DEF Active, Acts
  <2> QED
    BY <2>1 DEF WarnsIInv, LimitInv
<1> QED
  BY <1>1, WarnsInvariant, PTL
=============================================================================
