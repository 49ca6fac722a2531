-------------------------- MODULE MCPropertyIdentity --------------------------
(* Definitions for model checking PropertyIdentity. *)
EXTENDS PropertyIdentity, FiniteSets

(* Every order of the addresses, and every choice of rows without a link. *)
MCListings ==
  {rows \in UNION {[1 .. n -> Row] : n \in 0 .. Cardinality(Address)} :
     \A i, j \in DOMAIN rows : rows[i].address = rows[j].address => i = j}
=============================================================================
