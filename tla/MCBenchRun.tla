---------------------------- MODULE MCBenchRun ----------------------------
(* BenchRun with a flat and a rising outcome, so that knees are found.     *)
EXTENDS BenchRun

\* One client gets what it always gets; more of them may or may not get more.
\* The open loop always varies.
MCOutcomes(c) ==
    LET flat == [tps |-> 1, noisy |-> FALSE]
    IN CASE c.load # "closed_loop" -> {[flat EXCEPT !.noisy = TRUE]}
         [] c.conc = 1 -> {flat}
         [] OTHER -> {[flat EXCEPT !.noisy = TRUE], [flat EXCEPT !.tps = 2]}

MCHash(c) == c.isl + 10 * c.osl + c.conc
=============================================================================
