---------------------------- MODULE HealthState ----------------------------
(***************************************************************************)
(* The failure/recovery state machine: computeHealthTransition, a pure     *)
(* function of the target's row, of whether it has an active incident and  *)
(* of one check result.                                                    *)
(*                                                                         *)
(* The thresholds are what the environment gives (FAILURE_THRESHOLD,       *)
(* RECOVERY_THRESHOLD), before the function raises them to 1.              *)
(***************************************************************************)
EXTENDS Integers

CONSTANTS FailureThreshold, RecoveryThreshold

ASSUME ThresholdsAssumption ==
  /\ FailureThreshold \in Int
  /\ RecoveryThreshold \in Int

TargetStatus == {"UNKNOWN", "UP", "DEGRADED", "DOWN", "PAUSED"}
CheckResultStatus == {"SUCCESS", "FAILURE"}

AtLeastOne(n) == IF n < 1 THEN 1 ELSE n

failureThreshold == AtLeastOne(FailureThreshold)
recoveryThreshold == AtLeastOne(RecoveryThreshold)

\* A "faulty variant" of an operator, here and in the other modules, is a
\* bug its code could have: the runs' properties are shown to notice it.

\* Faulty variant: one success too many is asked for.
OnSuccessOffByOne(current) ==
  LET pending == /\ current.hasActiveIncident \/ current.status = "DOWN"
                 /\ current.consecutiveSuccesses + 1 <= recoveryThreshold
  IN  [ status                |-> IF pending THEN "DOWN" ELSE "UP",
        consecutiveFailures   |-> 0,
        consecutiveSuccesses  |-> current.consecutiveSuccesses + 1,
        shouldOpenIncident    |-> FALSE,
        shouldResolveIncident |-> ~pending /\ current.hasActiveIncident ]

\* Faulty variant: only a DOWN target recovers, and so resolves its incident.
OnSuccessForgetsIncident(current) ==
  LET pending == /\ current.status = "DOWN"
                 /\ current.consecutiveSuccesses + 1 < recoveryThreshold
  IN  [ status                |-> IF pending THEN "DOWN" ELSE "UP",
        consecutiveFailures   |-> 0,
        consecutiveSuccesses  |-> current.consecutiveSuccesses + 1,
        shouldOpenIncident    |-> FALSE,
        shouldResolveIncident |-> ~pending /\ current.status = "DOWN"
                                           /\ current.hasActiveIncident ]

\* Faulty variant: a success takes one failure off instead of all.
OnSuccessDecays(current) ==
  [ status                |-> "UP",
    consecutiveFailures   |-> current.consecutiveFailures - 1,
    consecutiveSuccesses  |-> current.consecutiveSuccesses + 1,
    shouldOpenIncident    |-> FALSE,
    shouldResolveIncident |-> current.hasActiveIncident ]

OnSuccess(current) ==
  LET successes  == current.consecutiveSuccesses + 1
      recovering == current.hasActiveIncident \/ current.status = "DOWN"
      pending    == recovering /\ successes < recoveryThreshold
  IN  [ status                |-> IF pending THEN "DOWN" ELSE "UP",
        consecutiveFailures   |-> 0,
        consecutiveSuccesses  |-> successes,
        shouldOpenIncident    |-> FALSE,
        shouldResolveIncident |-> ~pending /\ current.hasActiveIncident ]

\* Faulty variant: the threshold counts only when it is met exactly.
OnFailureExactly(current) ==
  LET failures == current.consecutiveFailures + 1
      reached  == failures = failureThreshold
  IN  [ status                |-> IF reached THEN "DOWN" ELSE "DEGRADED",
        consecutiveFailures   |-> failures,
        consecutiveSuccesses  |-> 0,
        shouldOpenIncident    |-> reached /\ ~current.hasActiveIncident,
        shouldResolveIncident |-> FALSE ]

\* Faulty variant: a failure leaves the successes standing.
OnFailureKeepsSuccesses(current) ==
  LET failures == current.consecutiveFailures + 1
      reached  == failures >= failureThreshold
  IN  [ status                |-> IF reached THEN "DOWN" ELSE "DEGRADED",
        consecutiveFailures   |-> failures,
        consecutiveSuccesses  |-> current.consecutiveSuccesses,
        shouldOpenIncident    |-> reached /\ ~current.hasActiveIncident,
        shouldResolveIncident |-> FALSE ]

OnFailure(current) ==
  LET failures == current.consecutiveFailures + 1
      reached  == failures >= failureThreshold
  IN  [ status                |-> IF reached THEN "DOWN" ELSE "DEGRADED",
        consecutiveFailures   |-> failures,
        consecutiveSuccesses  |-> 0,
        shouldOpenIncident    |-> reached /\ ~current.hasActiveIncident,
        shouldResolveIncident |-> FALSE ]

ComputeHealthTransition(current, result) ==
  IF result = "SUCCESS" THEN OnSuccess(current) ELSE OnFailure(current)
=============================================================================
