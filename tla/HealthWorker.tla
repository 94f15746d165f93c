---------------------------- MODULE HealthWorker ----------------------------
(***************************************************************************)
(* One endpoint under health.Worker within one table: probe after probe    *)
(* drives the counters and the Healthy flag of its registry.State.  The    *)
(* history of probes is kept so that the flag can be compared with what    *)
(* the thresholds promise.                                                 *)
(***************************************************************************)
EXTENDS EndpointState, Sequences

CONSTANT MaxProbes  \* bound on the probes of one behaviour

ASSUME MaxProbesIsNat == MaxProbes \in Nat

VARIABLES
    st,      \* the endpoint's registry.State
    probes   \* the results of the probes so far, oldest first

healthVars == <<st, probes>>

HealthInit ==
    /\ \E enabled \in BOOLEAN : st = FreshState(enabled)
    /\ probes = <<>>

\* One endpoint's turn in pollAll: probe it and apply the result.
Poll(ok) ==
    /\ Len(probes) < MaxProbes
    /\ st' = Apply(st, ok)
    /\ probes' = Append(probes, ok)

HealthNext == \E ok \in BOOLEAN : Poll(ok)

HealthSpec == HealthInit /\ [][HealthNext]_healthVars

-----------------------------------------------------------------------------
\* Properties

\* Every field stays in its type: the counters never go below zero.
HealthTypeOK ==
    /\ st \in States
    /\ probes \in Seq(BOOLEAN) /\ Len(probes) <= MaxProbes

\* A threshold below one acts like one.
AtLeastOne(n) == IF n < 1 THEN 1 ELSE n

\* The last n probes up to and including the i-th all ended in ok.
RunEndsAt(ok, n, i) == i >= n /\ \A j \in (i - n + 1) .. i : probes[j] = ok

\* The probe just before the last n ended the other way.
RunBroken(ok, n) == n < Len(probes) /\ probes[Len(probes) - n] = ok

\* The endpoint left service at probe i: FailureThreshold failures in a row.
Fails(i) == RunEndsAt(FALSE, AtLeastOne(FailureThreshold), i)

\* The endpoint may return at probe i: RecoveryThreshold successes in a row.
Recovers(i) == RunEndsAt(TRUE, AtLeastOne(RecoveryThreshold), i)

\* Healthy is exactly the hysteresis the thresholds describe: out of service
\* after a full run of failures until the next full run of successes; a run that
\* is interrupted counts for nothing.
HysteresisExact ==
    st.Healthy <=> \A i \in 1 .. Len(probes) :
                       Fails(i) => \E j \in (i + 1) .. Len(probes) : Recovers(j)

\* The counter that matters is the length of the current run: of failures while
\* in service, of successes while out of it, always short of its threshold.
CountersAreRuns ==
    LET n == Len(probes)
    IN  /\ st.Healthy =>
              /\ st.HealthFailures < AtLeastOne(FailureThreshold)
              /\ st.HealthFailures = n \/ RunBroken(TRUE, st.HealthFailures)
              /\ RunEndsAt(FALSE, st.HealthFailures, n)
        /\ ~st.Healthy =>
              /\ st.HealthSuccesses < AtLeastOne(RecoveryThreshold)
              /\ RunBroken(FALSE, st.HealthSuccesses)
              /\ RunEndsAt(TRUE, st.HealthSuccesses, n)

=============================================================================
