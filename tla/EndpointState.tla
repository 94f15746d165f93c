---------------------------- MODULE EndpointState ----------------------------
(***************************************************************************)
(* registry.State: the live lifecycle of one endpoint, and the three ways  *)
(* the control plane writes it (a new table, a health probe, an admin      *)
(* action).                                                                *)
(***************************************************************************)
EXTENDS Integers

CONSTANTS
    FailureThreshold,   \* health.failure_threshold
    RecoveryThreshold   \* health.recovery_threshold

\* config.Defaults replaces 0; the environment may still set any integer.
ASSUME ThresholdsAreInts ==
    FailureThreshold \in Int /\ RecoveryThreshold \in Int

Actions == {"drain", "undrain", "enable", "disable"}

States == [Enabled : BOOLEAN, Healthy : BOOLEAN, HealthyNow : BOOLEAN, Draining : BOOLEAN,
           HealthFailures : Nat, HealthSuccesses : Nat]

\* NewTable wires every endpoint to a State of its own.
FreshState(enabled) ==
    [Enabled |-> enabled, Healthy |-> TRUE, HealthyNow |-> FALSE, Draining |-> FALSE,
     HealthFailures |-> 0, HealthSuccesses |-> 0]

ApplySuccess(st) ==
    LET n == st.HealthSuccesses + 1
        recovers == ~st.Healthy /\ n >= RecoveryThreshold
    IN  [st EXCEPT !.HealthyNow = TRUE, !.HealthFailures = 0,
                   !.Healthy = IF recovers THEN TRUE ELSE @,
                   !.HealthSuccesses = IF recovers THEN 0 ELSE n]

ApplyFailure(st) ==
    LET n == st.HealthFailures + 1
        fails == st.Healthy /\ n >= FailureThreshold
    IN  [st EXCEPT !.HealthyNow = FALSE, !.HealthSuccesses = 0,
                   !.Healthy = IF fails THEN FALSE ELSE @,
                   !.HealthFailures = IF fails THEN 0 ELSE n]

\* A bug to be caught: the count goes below zero on a failure.
ApplyDecrementing(st, ok) ==
    IF ok THEN ApplySuccess(st)
          ELSE [ApplyFailure(st) EXCEPT !.HealthSuccesses = st.HealthSuccesses - 1]

\* A bug to be caught: the endpoint leaves service one failure late.
ApplyLate(st, ok) ==
    IF ok \/ ~st.Healthy \/ st.HealthFailures + 1 # FailureThreshold
    THEN IF ok THEN ApplySuccess(st) ELSE ApplyFailure(st)
    ELSE [st EXCEPT !.HealthyNow = FALSE, !.HealthSuccesses = 0, !.HealthFailures = @ + 1]

\* A bug to be caught: an endpoint that answers is put back in service.
ApplyReopening(st, ok) ==
    IF ok THEN [ApplySuccess(st) EXCEPT !.Draining = FALSE] ELSE ApplyFailure(st)

\* health.Worker.apply
Apply(st, ok) == IF ok THEN ApplySuccess(st) ELSE ApplyFailure(st)

\* The switch of api.handleEndpointAction.
AdminApply(st, action) ==
    CASE action = "drain"   -> [st EXCEPT !.Draining = TRUE]
      [] action = "undrain" -> [st EXCEPT !.Draining = FALSE]
      [] action = "enable"  -> [st EXCEPT !.Enabled = TRUE]
      [] action = "disable" -> [st EXCEPT !.Enabled = FALSE]

=============================================================================
