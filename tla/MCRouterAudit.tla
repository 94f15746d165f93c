---------------------------- MODULE MCRouterAudit ----------------------------
(***************************************************************************)
(* The observed router on the fleets of MCRouter.                          *)
(***************************************************************************)
EXTENDS MCRouter, RouterAudit

=============================================================================
