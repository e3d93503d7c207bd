------------------------------- MODULE FanOut -------------------------------
(***************************************************************************)
(* tcbot/utils/dispatch.py: `fan_out` runs one Telegram call per target    *)
(* group, at most MaxConcurrent of a batch at a time, each slot guarded by *)
(* the process-wide `telegram` circuit breaker.  Several batches (a ban    *)
(* and an unban, a broadcast and a sync) share that breaker.               *)
(*                                                                         *)
(* A slot is one of the breaker's calls, so every slot step is a step of   *)
(* CircuitBreaker conjoined with what fan_out does around it; the last     *)
(* property states that the composition implements the breaker alone.      *)
(***************************************************************************)
EXTENDS Naturals, FiniteSets

CONSTANTS
    Batches,            \* concurrent fan_out calls
    Groups,             \* target groups of each
    MaxConcurrent,      \* the semaphore's cap, _MAX_CONCURRENT
    FailureThreshold

ASSUME ConcurrencyAssumption == MaxConcurrent \in Nat \ {0}
ASSUME FiniteAssumption == IsFiniteSet(Batches) /\ IsFiniteSet(Groups)
ASSUME CountAssumption == FailureThreshold \in Nat \ {0}

Slots == Batches \X Groups

VARIABLES
    circuit, failureCount, probeInFlight, cooled, call, healthSawOpen,
    slot,       \* what became of each slot
    batch       \* what became of each fan_out call

breakerVars == <<circuit, failureCount, probeInFlight, cooled, call, healthSawOpen>>
vars == <<breakerVars, slot, batch>>

Breaker == INSTANCE CircuitBreaker WITH Calls <- Slots

\* `refused`: a 403, a 400 or another error that is not the network's.
\* `benign`: a 400 that is_benign_telegram_error recognises.
Failures == {"benign", "refused", "network", "skipped"}
Ended == Failures \cup {"ok", "cancelled"}

TypeOK ==
    /\ Breaker!TypeOK
    /\ slot \in [Slots -> Ended \cup {"unborn", "queued", "calling"}]
    /\ batch \in [Batches -> {"idle", "running", "cancelling", "returned", "cancelled"}]

Init ==
    /\ Breaker!Init
    /\ slot = [s \in Slots |-> "unborn"]
    /\ batch = [b \in Batches |-> "idle"]

SlotsOf(b) == {b} \X Groups

Running(b) == {s \in SlotsOf(b) : slot[s] = "calling"}

Transient(s) == slot[s] \in Failures \ {"benign"}

\* count_transient_errors of the list fan_out returned.
TransientErrors(b) == Cardinality({s \in SlotsOf(b) : Transient(s)})

-----------------------------------------------------------------------------
(* fan_out is called: gather makes a task of every slot. *)
Start(b) ==
    /\ batch[b] = "idle"
    /\ batch' = [batch EXCEPT ![b] = "running"]
    /\ slot' = [s \in Slots |-> IF s \in SlotsOf(b) THEN "queued" ELSE slot[s]]
    /\ UNCHANGED breakerVars

(* A slot gets the semaphore and asks the breaker. *)
Enter(s) ==
    /\ slot[s] = "queued"
    /\ batch[s[1]] = "running"
    /\ Cardinality(Running(s[1])) < MaxConcurrent
    /\ \/ /\ Breaker!Admit(s)
          /\ slot' = [slot EXCEPT ![s] = "calling"]
       \/ /\ Breaker!Refuse(s)
          /\ slot' = [slot EXCEPT ![s] = "skipped"]
    /\ UNCHANGED batch

Succeed(s) ==
    /\ slot[s] = "calling" /\ batch[s[1]] = "running"
    /\ Breaker!RecordSuccess(s)
    /\ slot' = [slot EXCEPT ![s] = "ok"]
    /\ UNCHANGED batch

(* TimedOut, and NetworkError that is not a BadRequest. *)
FailNetwork(s) ==
    /\ slot[s] = "calling" /\ batch[s[1]] = "running"
    /\ Breaker!RecordFailure(s)
    /\ slot' = [slot EXCEPT ![s] = "network"]
    /\ UNCHANGED batch

RefusedCounted(s) ==
    /\ slot[s] = "calling" /\ batch[s[1]] = "running"
    /\ Breaker!RecordFailure(s)
    /\ \E r \in {"benign", "refused"} : slot' = [slot EXCEPT ![s] = r]
    /\ UNCHANGED batch

RefusedKeepsProbe(s) ==
    /\ slot[s] = "calling" /\ batch[s[1]] = "running"
    /\ Breaker!ReleaseForgotten(s)
    /\ \E r \in {"benign", "refused"} : slot' = [slot EXCEPT ![s] = r]
    /\ UNCHANGED batch

(* A BadRequest (which PTB derives from NetworkError), a Forbidden or any  *)
(* other exception: an answer of the API, which the breaker must not count.*)
FailRefused(s) ==
    /\ slot[s] = "calling" /\ batch[s[1]] = "running"
    /\ Breaker!ReleaseProbe(s)
    /\ \E r \in {"benign", "refused"} : slot' = [slot EXCEPT ![s] = r]
    /\ UNCHANGED batch

(* The task awaiting fan_out is cancelled (shutdown, or a proof flush that *)
(* the moderator cancels): gather cancels every slot.                      *)
Cancel(b) ==
    /\ batch[b] = "running"
    /\ batch' = [batch EXCEPT ![b] = "cancelling"]
    /\ UNCHANGED <<breakerVars, slot>>

CancelMissesQueued(s) ==
    /\ slot[s] = "calling"
    /\ batch[s[1]] \in {"running", "cancelling"}
    /\ Breaker!ReleaseProbe(s)
    /\ slot' = [slot EXCEPT ![s] = "cancelled"]
    /\ UNCHANGED batch

(* The CancelledError reaches a slot: in the semaphore's queue, in its     *)
(* call, or (one slot alone, its batch still running) out of the call      *)
(* itself.                                                                 *)
CancelSlot(s) ==
    /\ \/ slot[s] = "queued" /\ batch[s[1]] = "cancelling" /\ UNCHANGED breakerVars
       \/ /\ slot[s] = "calling"
          /\ batch[s[1]] \in {"running", "cancelling"}
          /\ Breaker!ReleaseProbe(s)
    /\ slot' = [slot EXCEPT ![s] = "cancelled"]
    /\ UNCHANGED batch

ReturnCoerced(b) ==
    /\ batch[b] \in {"running", "cancelling"}
    /\ \A s \in SlotsOf(b) : slot[s] \in Ended
    /\ batch' = [batch EXCEPT ![b] =
                   IF batch[b] = "running" THEN "returned" ELSE "cancelled"]
    /\ UNCHANGED <<breakerVars, slot>>

(* gather has every result.  throw_if_cancelled raises rather than return  *)
(* a list that holds a cancelled slot.                                     *)
Return(b) ==
    /\ batch[b] \in {"running", "cancelling"}
    /\ \A s \in SlotsOf(b) : slot[s] \in Ended
    /\ batch' = [batch EXCEPT ![b] =
                   IF /\ batch[b] = "running"
                      /\ \A s \in SlotsOf(b) : slot[s] # "cancelled"
                   THEN "returned"
                   ELSE "cancelled"]
    /\ UNCHANGED <<breakerVars, slot>>

SlotStep(s) == Enter(s) \/ Succeed(s) \/ FailNetwork(s) \/ FailRefused(s) \/ CancelSlot(s)

(* Time, and the Flask thread's health poll: the rest of the breaker. *)
Environment ==
    /\ Breaker!Elapse \/ Breaker!HealthTest \/ Breaker!HealthStore
    /\ UNCHANGED <<slot, batch>>

Finished ==
    /\ \A b \in Batches : batch[b] \in {"returned", "cancelled"}
    /\ UNCHANGED vars

Next ==
    \/ \E b \in Batches : Start(b) \/ Cancel(b) \/ Return(b)
    \/ \E s \in Slots : SlotStep(s)
    \/ Environment
    \/ Finished

(* The event loop runs every ready task; an awaited call ends. *)
Fairness ==
    /\ \A s \in Slots : WF_vars(SlotStep(s))
    /\ \A b \in Batches : WF_vars(Return(b))

Spec == Init /\ [][Next]_vars /\ Fairness

-----------------------------------------------------------------------------
(* Groups are skipped only after that many real network failures: API      *)
(* refusals, whatever their number and order, never open the circuit       *)
(* (dispatch.py:106-110, the bug fixed there).                             *)
SkipsNeedNetworkFailures ==
    (\E s \in Slots : slot[s] = "skipped")
        => Cardinality({s \in Slots : slot[s] = "network"}) >= FailureThreshold

(* A list returned to the caller accounts for every group: no slot was     *)
(* cancelled, and zero transient errors means that each group was enforced *)
(* or had nothing to enforce.  A skipped group is never taken for a        *)
(* success or a benign refusal.                                            *)
ReturnedListIsComplete ==
    \A b \in Batches : batch[b] = "returned" =>
        /\ \A s \in SlotsOf(b) : slot[s] \in Ended \ {"cancelled"}
        /\ TransientErrors(b) = 0
              => \A s \in SlotsOf(b) : slot[s] \in {"ok", "benign"}

(* When no slot is in its call the probe flag is down: a batch that ended, *)
(* was refused or was cancelled leaves no probe reserved, which would skip *)
(* every later batch.                                                      *)
IdleBreakerAdmitsProbe ==
    (\A s \in Slots : slot[s] # "calling") => ~probeInFlight

(* Every fan_out ends, though slots queue behind a semaphore and behind an *)
(* open circuit.                                                           *)
EveryBatchEnds ==
    \A b \in Batches : batch[b] = "running" ~> batch[b] \in {"returned", "cancelled"}

(* Every behaviour of the dispatcher is a behaviour of the breaker. *)
ImplementsBreaker == Breaker!Safety
=============================================================================
