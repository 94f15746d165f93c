------------------------------ MODULE MCRouter ------------------------------
(***************************************************************************)
(* The router on small fleets.                                             *)
(***************************************************************************)
EXTENDS RouterCore, TLC

CONSTANTS r1, r2, r3, a, b, x, c1, c2

\* a and b are seeds inside their port contracts, a first; x is outside.
MCManifest ==
    [e \in Endpoints |->
        [Enabled |-> TRUE, StaticCapacity |-> IF e = a THEN 1 ELSE 0,
         Rank |-> IF e = a THEN 1 ELSE IF e = b THEN 2 ELSE 3,
         Runtime |-> IF e = a THEN "vllm" ELSE "llama.cpp",
         Port |-> IF e = a THEN 8201 ELSE IF e = b THEN 8101 ELSE 9000]]

MCContracts == [rt \in {"vllm", "llama.cpp"} |->
                   IF rt = "vllm" THEN [Start |-> 8200, End |-> 8299]
                                  ELSE [Start |-> 8100, End |-> 8199]]

\* Every request fits everywhere.
AllFit == [r \in Requests |-> Endpoints]

\* The second request needs what only a has.
SomeFit == [r \in Requests |-> IF r = r2 THEN {a} ELSE Endpoints]

Symmetry == Permutations(Requests)

=============================================================================
