-------------------------- MODULE MCRouteDecision --------------------------
(***************************************************************************)
(* Routing decisions over the deployed fleet and over tables with ties.    *)
(***************************************************************************)
EXTENDS RouteDecision

\* One chat message, unless a field says otherwise.
Body(bytes, maxTokens, maxCompletion, parts) ==
    [bytes |-> bytes, stream |-> TRUE, maxTokens |-> maxTokens,
     maxCompletion |-> maxCompletion, tools |-> "none", parts |-> parts]

Chat == Body(40, 0, 0, {"text"})

\* Sizes around the rounding of the percentage reserve (bytes * 25 / 400) and
\* around the context limits below (a body of 8 bytes with 12 tokens to come is stopped
\* by the fixed reserve alone), and one body of each capability.
MCBodies ==
    {Body(b, t, c, {"text"}) : b \in {0, 7, 8, 23, 24, 40, 160}, t \in {-1, 0, 12}, c \in {0, 3}}
    \cup {[Chat EXCEPT !.parts = {"text", p}] : p \in ImageParts}
    \cup {[Chat EXCEPT !.tools = t] : t \in {"empty", "nonempty"}}
    \cup {[Chat EXCEPT !.stream = FALSE]}

Entry(rank, prio, ctx, vision, tools) ==
    [Manifest |-> [rank |-> rank, Priority |-> prio, MaxContext |-> ctx, Vision |-> vision,
                   Tools |-> tools, Streaming |-> TRUE],
     State    |-> [Enabled |-> TRUE, Healthy |-> TRUE, Draining |-> FALSE]]

\* The deployed fleet: dgxspark, rtx3090, rtx5090 in string order, with the
\* priorities of config/router.yaml and contexts scaled down.
Fleet == {Entry(1, 30, 22, TRUE, TRUE), Entry(2, 20, 18, FALSE, TRUE), Entry(3, 10, 15, FALSE, TRUE)}

\* Ties on priority, and on priority and context.
Ties == {Entry(1, 10, 22, TRUE, TRUE), Entry(2, 10, 22, TRUE, FALSE), Entry(3, 10, 21, TRUE, TRUE)}

\* One entry stopped by each lifecycle gate, one that does not stream.
Gated == {[Entry(1, 10, 60, TRUE, TRUE) EXCEPT !.State.Enabled = FALSE],
          [Entry(2, 10, 60, TRUE, TRUE) EXCEPT !.State.Healthy = FALSE],
          [Entry(3, 10, 60, TRUE, TRUE) EXCEPT !.State.Draining = TRUE],
          [Entry(4, 10, 60, TRUE, TRUE) EXCEPT !.Manifest.Streaming = FALSE]}

MCTables == {Fleet, Ties, Gated}

============================================================================
