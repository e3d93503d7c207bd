--------------------------- MODULE CircuitBreaker ---------------------------
(***************************************************************************)
(* tcbot/utils/circuit_breaker.py: the breaker that guards outbound        *)
(* Telegram calls and MongoDB operations.  Every method runs to completion *)
(* inside the asyncio event loop, so one method is one action; what        *)
(* interleaves is the calls, each of which is in flight between the        *)
(* `try_acquire` that admitted it and the outcome it reports.  A call may  *)
(* be admitted in one circuit state and report its outcome in another.     *)
(*                                                                         *)
(* The one reader outside the loop is tcbot/alive.py: `health` runs in the *)
(* Flask thread and reads the transitioning `state` property, whose test   *)
(* and assignment are two steps of that thread.                            *)
(***************************************************************************)
EXTENDS Naturals

CONSTANTS
    Calls,              \* identities of concurrent calls (an identity is reused)
    FailureThreshold    \* _failure_threshold

ASSUME ThresholdAssumption == FailureThreshold \in Nat \ {0}

VARIABLES
    circuit,        \* _state
    failureCount,   \* _failure_count, saturated: only compared with >= FailureThreshold
    probeInFlight,  \* _half_open_probe_in_flight
    cooled,         \* monotonic() - _opened_at >= _recovery_timeout
    call,           \* where each call stands, and whether it took the probe slot
    healthSawOpen   \* the Flask thread is between the test and the store of `state`

breakerVars == <<circuit, failureCount, probeInFlight, cooled, call, healthSawOpen>>

TypeOK ==
    /\ circuit \in {"closed", "open", "half_open"}
    /\ failureCount \in 0..FailureThreshold
    /\ probeInFlight \in BOOLEAN
    /\ cooled \in BOOLEAN
    /\ call \in [Calls -> {"idle", "normal", "probe"}]
    /\ healthSawOpen \in BOOLEAN

\* _opened_at starts at 0.0 on a clock of arbitrary origin.
Init ==
    /\ circuit = "closed"
    /\ failureCount = 0
    /\ probeInFlight = FALSE
    /\ cooled \in BOOLEAN
    /\ call = [c \in Calls |-> "idle"]
    /\ healthSawOpen = FALSE

-----------------------------------------------------------------------------
(* The `state` property, and the variant that never transitions. *)

PeekState == circuit

State == IF circuit = "open" /\ cooled THEN "half_open" ELSE circuit

InFlight(c) == call[c] # "idle"

(* try_acquire returning True: a closed circuit admits everybody, a half-  *)
(* open one whoever finds the probe flag down.                             *)
Admit(c) ==
    /\ call[c] = "idle"
    /\ \/ /\ State = "closed"
          /\ call' = [call EXCEPT ![c] = "normal"]
          /\ UNCHANGED probeInFlight
       \/ /\ State = "half_open"
          /\ ~probeInFlight
          /\ call' = [call EXCEPT ![c] = "probe"]
          /\ probeInFlight' = TRUE
    /\ circuit' = State
    /\ UNCHANGED <<failureCount, cooled, healthSawOpen>>

(* try_acquire returning False: the caller raises CircuitOpenError.  The   *)
(* read of `state` may still move the circuit to half-open.                *)
Refuse(c) ==
    /\ call[c] = "idle"
    /\ \/ State = "open"
       \/ State = "half_open" /\ probeInFlight
    /\ circuit' = State
    /\ UNCHANGED <<failureCount, probeInFlight, cooled, call, healthSawOpen>>

TryAcquire(c) == Admit(c) \/ Refuse(c)

-----------------------------------------------------------------------------
(* Outcomes.  None of the three looks at who is calling: a call admitted   *)
(* before the circuit opened reports to whatever state it finds.           *)

RecordSuccess(c) ==
    /\ InFlight(c)
    /\ circuit' = "closed"
    /\ failureCount' = 0
    /\ probeInFlight' = FALSE
    /\ call' = [call EXCEPT ![c] = "idle"]
    /\ UNCHANGED <<cooled, healthSawOpen>>

Saturated(n) == IF n > FailureThreshold THEN FailureThreshold ELSE n

TripsLate == circuit = "half_open" \/ failureCount + 1 > FailureThreshold

\* The failure being recorded opens the circuit (or stamps an open one anew).
Trips == circuit = "half_open" \/ failureCount + 1 >= FailureThreshold

(* OPEN is stored before _opened_at is stamped; a health read that falls   *)
(* between the two stores judges the new OPEN by the old stamp.            *)
RecordFailure(c) ==
    /\ InFlight(c)
    /\ failureCount' = Saturated(failureCount + 1)
    /\ \/ /\ Trips
          /\ circuit' = "open"
          /\ cooled' = FALSE
          /\ healthSawOpen' \in {healthSawOpen, healthSawOpen \/ cooled}
       \/ /\ ~Trips
          /\ UNCHANGED <<circuit, cooled, healthSawOpen>>
    /\ probeInFlight' = FALSE
    /\ call' = [call EXCEPT ![c] = "idle"]

ReleaseForgotten(c) ==
    /\ InFlight(c)
    /\ call' = [call EXCEPT ![c] = "idle"]
    /\ UNCHANGED <<circuit, failureCount, probeInFlight, cooled, healthSawOpen>>

(* A cancelled call, or an API refusal in fan_out: the flag is dropped and *)
(* the circuit stays as it is.                                             *)
ReleaseProbe(c) ==
    /\ InFlight(c)
    /\ probeInFlight' = FALSE
    /\ call' = [call EXCEPT ![c] = "idle"]
    /\ UNCHANGED <<circuit, failureCount, cooled, healthSawOpen>>

Settle(c) == RecordSuccess(c) \/ RecordFailure(c) \/ ReleaseProbe(c)

-----------------------------------------------------------------------------
(* _recovery_timeout seconds have passed since _opened_at. *)
Elapse ==
    /\ ~cooled
    /\ cooled' = TRUE
    /\ UNCHANGED <<circuit, failureCount, probeInFlight, call, healthSawOpen>>

(* reset(): an operator force-closes the circuit. *)
Reset ==
    /\ circuit' = "closed"
    /\ failureCount' = 0
    /\ probeInFlight' = FALSE
    /\ UNCHANGED <<cooled, call, healthSawOpen>>

(* alive.health in the Flask thread: the test of the `state` property ...  *)
HealthTest ==
    /\ circuit = "open" /\ cooled
    /\ ~healthSawOpen
    /\ healthSawOpen' = TRUE
    /\ UNCHANGED <<circuit, failureCount, probeInFlight, cooled, call>>

(* ... and its assignment, whatever the loop has done in between.          *)
HealthStore ==
    /\ healthSawOpen
    /\ circuit' = "half_open"
    /\ healthSawOpen' = FALSE
    /\ UNCHANGED <<failureCount, probeInFlight, cooled, call>>

Next ==
    \/ \E c \in Calls : TryAcquire(c) \/ Settle(c)
    \/ Elapse
    \/ Reset
    \/ HealthTest
    \/ HealthStore

(* Awaited calls end (client timeouts bound them), time passes, and some   *)
(* caller keeps asking: an unused breaker has no duty to recover.          *)
Fairness ==
    /\ \A c \in Calls : WF_breakerVars(Settle(c))
    /\ WF_breakerVars(Elapse)
    /\ WF_breakerVars(\E c \in Calls : TryAcquire(c))

Safety == Init /\ [][Next]_breakerVars

Spec == Safety /\ Fairness

-----------------------------------------------------------------------------
(* The probe flag is up only in a half-open circuit, and some call that    *)
(* took the probe slot is still in flight to lower it.  A flag nobody      *)
(* owns would reject every call for ever (the CRITICAL cases of `call` and *)
(* of fan_out's cancellation branch).                                      *)
ProbeHeldByCall ==
    probeInFlight => /\ circuit = "half_open"
                     /\ \E c \in Calls : call[c] = "probe"

(* A circuit that counted FailureThreshold consecutive failures is never   *)
(* found closed, however calls of different ages interleave.               *)
TripsAtThreshold == circuit = "closed" => failureCount < FailureThreshold

(* An open circuit is left again: late failures push the recovery time     *)
(* back, refused calls do not.                                             *)
OpenIsLeft == circuit = "open" ~> circuit # "open"
=============================================================================
