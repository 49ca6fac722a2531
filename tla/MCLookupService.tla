--------------------------- MODULE MCLookupService ---------------------------
(* Definitions for model checking LookupService. *)
EXTENDS LookupService

(* A plain environment with an OS Places key, one with a kill switch and   *)
(* without the key, and one with the global kill switch.                   *)
SomeEnvs ==
  {[global |-> FALSE, killed |-> {}, osKey |-> TRUE],
   [global |-> FALSE, killed |-> {1}, osKey |-> FALSE],
   [global |-> TRUE, killed |-> {}, osKey |-> TRUE]}
=============================================================================
