--------------------------- MODULE MCAdminService ---------------------------
(* Definitions for model checking AdminService. *)
EXTENDS AdminService

(* A plain environment, and one with a kill switch. *)
SwitchEnvs ==
  {[global |-> FALSE, killed |-> {}, osKey |-> TRUE],
   [global |-> FALSE, killed |-> {1}, osKey |-> TRUE]}
=============================================================================
