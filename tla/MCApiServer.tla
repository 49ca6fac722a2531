----------------------------- MODULE MCApiServer -----------------------------
(* Definitions for model checking ApiServer. *)
EXTENDS ApiServer

(* A plain environment. *)
PlainEnvs == {[global |-> FALSE, killed |-> {}, osKey |-> TRUE]}
=============================================================================
