--------------------------- MODULE MCBenchResults ---------------------------
(***************************************************************************)
(* The two ends of a result of llmbench, which share no state: the cell    *)
(* that is measured on a server, and the site that is made of the cells    *)
(* runs left on disk.  A behaviour is of one of them; the other stays in   *)
(* its initial state.                                                      *)
(***************************************************************************)
EXTENDS MCBenchCell, MCBenchSite

VARIABLE end  \* "cell" or "site"

resultsVars == <<end, vars, siteVars>>

ResultsInit == end \in {"cell", "site"} /\ Init /\ SiteInit

ResultsNext ==
    /\ UNCHANGED end
    /\ \/ end = "cell" /\ Next /\ UNCHANGED siteVars
       \/ end = "site" /\ SiteNext /\ UNCHANGED vars

ResultsSpec == ResultsInit /\ [][ResultsNext]_resultsVars
=============================================================================
