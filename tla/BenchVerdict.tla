---------------------------- MODULE BenchVerdict ----------------------------
(***************************************************************************)
(* llmbench/integrity/check.py: whether a cell, and a run, can be trusted. *)
(* Reasons are a set.                                                      *)
(***************************************************************************)
EXTENDS BenchProbe

CONSTANT MinSamples  \* MIN_SAMPLES and MIN_SAMPLES_FOR_VARIANCE, eight

ASSUME VerdictAssumption == MinSamples \in Nat \ {0}

\* The signals evaluate may be given that make a cell invalid; any other is a
\* warning.  run_cell gives none.
Hard == {"GPU_OOM", "SERVER_RESTART"}

\* Not looked at when half of the requests or more failed; no request at all
\* is an error rate of zero.
TooFew(m) == m.completed < MinSamples /\ (m.total = 0 \/ 2 * m.failed < m.total)

HighVariance(m) ==
    \E d \in {m.ttft, m.itl} :
        Varies(d) /\ d.count >= MinSamples /\ m.completed >= MinSamples

\* The mean output is below four fifths of the target.
TooShort(m, target) ==
    target > 0 /\ (m.completed = 0 \/ 5 * m.output < 4 * target * m.completed)

\* Mutant of Evaluate: a cell without a completed request is a warning.
EvaluateKindly(m, target, signals, discrepancies) ==
    LET reasons ==
          signals
            \cup (IF TooFew(m) \/ m.completed = 0 THEN {"INSUFFICIENT_SAMPLES"} ELSE {})
            \cup (IF HighVariance(m) THEN {"HIGH_VARIANCE"} ELSE {})
            \cup (IF TooShort(m, target) THEN {"OUTPUT_LENGTH_MISMATCH"} ELSE {})
            \cup (IF discrepancies # {} THEN {"METRIC_SOURCE_DISAGREEMENT"} ELSE {})
    IN [reasons |-> reasons,
        state |-> CASE signals \cap Hard # {} -> "INVALID"
                    [] signals \cap Hard = {} /\ reasons # {} -> "VALID_WITH_WARNINGS"
                    [] OTHER -> "VALID"]

Evaluate(m, target, signals, discrepancies) ==
    LET invalid == signals \cap Hard # {} \/ m.completed = 0
        reasons ==
          signals
            \cup (IF TooFew(m) \/ m.completed = 0 THEN {"INSUFFICIENT_SAMPLES"} ELSE {})
            \cup (IF HighVariance(m) THEN {"HIGH_VARIANCE"} ELSE {})
            \cup (IF TooShort(m, target) THEN {"OUTPUT_LENGTH_MISMATCH"} ELSE {})
            \cup (IF discrepancies # {} THEN {"METRIC_SOURCE_DISAGREEMENT"} ELSE {})
    IN [reasons |-> reasons,
        state |-> CASE invalid -> "INVALID"
                    [] ~invalid /\ reasons # {} -> "VALID_WITH_WARNINGS"
                    [] OTHER -> "VALID"]

IsValid(verdict) == verdict.state # "INVALID"

\* The state of a run: INVALID only when most of its cells are.
OverallState(verdicts) ==
    LET invalid == Cardinality({i \in DOMAIN verdicts : verdicts[i].state = "INVALID"})
    IN CASE 2 * invalid > Len(verdicts) -> "INVALID"
         [] 2 * invalid =< Len(verdicts)
              /\ \E i \in DOMAIN verdicts : verdicts[i].state # "VALID" -> "VALID_WITH_WARNINGS"
         [] OTHER -> "VALID"

ReasonCodes(verdicts) == UNION {verdicts[i].reasons : i \in DOMAIN verdicts}
=============================================================================
