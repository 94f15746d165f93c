----------------------------- MODULE BenchSite -----------------------------
(***************************************************************************)
(* Runs of llmbench one after the other, on several configurations of a    *)
(* model: what each publishes of its cells when it comes to its end, and   *)
(* the site made of what all of them left on disk (cli/main.py).           *)
(***************************************************************************)
EXTENDS BenchReport

CONSTANTS Cells,    \* the cells that may be measured
          Configs,  \* configuration ids, in the order of their names
          MaxCells, \* bound: cells of a run
          MaxRuns   \* bound: runs

\* Names of configurations are compared, and measuring a cell takes time.
ASSUME ConfigsAssumption == Configs \subseteq Nat
ASSUME CellsAssumption ==
    \A c \in Cells : c.metrics.output_tps \in [num : Int, den : Nat \ {0}]

VARIABLES stage,    \* where the run is
          results,  \* its cells
          tree,     \* the runs on disk: [config, result], the last one under way
          site      \* the site as last generated

siteVars == <<stage, results, tree, site>>

SiteInit ==
    /\ stage = "idle"
    /\ results = <<>>
    /\ tree = <<>>
    /\ site = [cards |-> {}, history |-> <<>>]

Start ==
    /\ stage = "idle"
    /\ Len(tree) < MaxRuns
    /\ \E config \in Configs : tree' = Append(tree, [config |-> config, result |-> {}])
    /\ stage' = "measuring"
    /\ UNCHANGED <<results, site>>

CellDone ==
    /\ stage = "measuring"
    /\ Len(results) < MaxCells
    /\ \E c \in Cells : results' = Append(results, c)
    /\ UNCHANGED <<stage, tree, site>>

\* All is measured, or the budget is used up.
Publish ==
    /\ stage = "measuring"
    /\ tree' = [tree EXCEPT ![Len(tree)].result = {RunResult(results)}]
    /\ stage' = "site"
    /\ UNCHANGED <<results, site>>

RunEnds ==
    /\ stage' = "idle"
    /\ results' = <<>>

\* The site is made of what is on disk, unless the run skips it.
BuildSite ==
    /\ stage = "site"
    /\ site' \in {site, Site(tree)}
    /\ UNCHANGED tree
    /\ RunEnds

\* The process is killed: what it had not published is lost.
Crash ==
    /\ stage # "idle"
    /\ UNCHANGED <<tree, site>>
    /\ RunEnds

SiteNext == Start \/ CellDone \/ Publish \/ BuildSite \/ Crash

SiteSpec == SiteInit /\ [][SiteNext]_siteVars
-----------------------------------------------------------------------------
(* Properties *)

\* The runs of its configuration that a card counts.
Counted(card) ==
    {i \in DOMAIN tree :
        /\ tree[i].config = card.config
        /\ Cardinality({j \in 1 .. i : tree[j].config = card.config}) =< card.runs}

\* A number on the site is that of a run that ended, the best of those the
\* card counts, under that run's own badge; and unless the badge says INVALID
\* its peak and its stable concurrency were measured in cells that are valid.
\* The history tells of each configuration once, and the same as its card.
SiteIsHonest ==
    /\ Cardinality(site.cards) = Len(site.history)
    /\ \A card \in site.cards : \E h \in Elements(site.history) :
         h.config = card.config /\ h.peak = card.peak /\ h.badge = card.badge
    /\ \A card \in site.cards : \A peak \in card.peak :
        \E i \in Counted(card) : \E r \in tree[i].result :
            LET Shown(row) == card.badge # "INVALID" => row.integrity_state # "INVALID"
            IN /\ r.integrity_state = card.badge
               /\ \A j \in Counted(card) : \A q \in tree[j].result :
                    \A p \in q.summary.peak_aggregate_tps : ~Above(p, peak)
               /\ \E row \in Elements(r.rows) : row.output_tps = peak /\ Shown(row)
               /\ \A conc \in card.conc :
                    \E row \in Elements(r.rows) : row.workload.conc = conc /\ Shown(row)
=============================================================================
