------------------------------- MODULE Routing -------------------------------
(***************************************************************************)
(* The pure part of request routing: router/internal/routing and the       *)
(* filter and sort of router/internal/proxy.                               *)
(*                                                                         *)
(* A manifest is a record; its id is represented by rank, its position     *)
(* among the ids in string order.  A body is a record of what Classify     *)
(* looks at in the JSON: a body that does not parse has every field at its *)
(* zero value.                                                             *)
(***************************************************************************)
EXTENDS Lists, SequencesExt

-----------------------------------------------------------------------------
\* routing.Classify and routing.RequiredContext

ImageParts == {"image", "image_url", "image_base64"}

\* A bug to be caught: only one of the image block types is recognised.
HasImageUrl(body) == "image_url" \in body.parts

\* Only the content arrays of messages are scanned; "input" is not.
detectImage(body) == body.parts \cap ImageParts # {}

Classify(body) ==
    [HasImages          |-> detectImage(body),
     RequiresTools      |-> body.tools = "nonempty",
     RequiresStreaming  |-> body.stream,
     InputTokenEstimate |-> body.bytes \div 4,
     RequestedMaxOutput |-> IF body.maxCompletion > 0 THEN body.maxCompletion
                                                      ELSE body.maxTokens]

\* math.Round(n / 400) for n >= 0.
RoundedQuarterPercent(n) == (2 * n + 400) \div 800

\* A bug to be caught: the percentage is used in place of the reserve.
PercentOnly(inputTokens, maxOutput, reserveTokens, reservePercentPct, bodyBytes) ==
    inputTokens + maxOutput + RoundedQuarterPercent(bodyBytes * reservePercentPct)

RequiredContext(inputTokens, maxOutput, reserveTokens, reservePercentPct, bodyBytes) ==
    LET pct == RoundedQuarterPercent(bodyBytes * reservePercentPct)
    IN  inputTokens + maxOutput + Max({reserveTokens, pct, 0})

-----------------------------------------------------------------------------
\* The candidate filter and the sort

\* The capability and context gates: what the manifest alone decides.
Compatible(m, req, reqCtx) ==
    /\ req.HasImages => m.Vision
    /\ req.RequiresTools => m.Tools
    /\ req.RequiresStreaming => m.Streaming
    /\ m.MaxContext >= reqCtx

\* The lifecycle gates: what the live state decides.
Routable(st) == st.Enabled /\ st.Healthy /\ ~st.Draining

\* A bug to be caught: ties on priority and context are left as they come.
BeforeNoTiebreak(a, b) ==
    \/ a.Priority < b.Priority
    \/ a.Priority = b.Priority /\ a.MaxContext < b.MaxContext

\* proxy.sortEntries: priority, then context, then id.
Before(a, b) ==
    \/ a.Priority < b.Priority
    \/ a.Priority = b.Priority /\ a.MaxContext < b.MaxContext
    \/ a.Priority = b.Priority /\ a.MaxContext = b.MaxContext /\ a.rank < b.rank

\* The positions of the entries that pass every gate.
Kept(entries, req, reqCtx) ==
    {i \in DOMAIN entries : /\ Compatible(entries[i].Manifest, req, reqCtx)
                            /\ Routable(entries[i].State)}

\* proxy.orderedCandidates over the entries in map iteration order.
orderedCandidates(entries, req, reqCtx) ==
    LET P == Kept(entries, req, reqCtx)
    IN  SliceStable(entries, P,
                    {p \in P \X P : Before(entries[p[1]].Manifest, entries[p[2]].Manifest)})

=============================================================================
