--------------------------- MODULE MCSiemForwarder ---------------------------
(* Definitions for model checking SiemForwarder. *)
EXTENDS SiemForwarder

(* Production: everything set. *)
FullConfig == [enabled |-> TRUE, configured |-> TRUE, webhook |-> TRUE]
OnlyFull == {FullConfig}

(* A process may also be started without credentials, without a webhook or *)
(* with SIEM_FORWARDER_ENABLED=false.                                      *)
MixedConfigs ==
  {FullConfig, [FullConfig EXCEPT !.configured = FALSE],
   [FullConfig EXCEPT !.webhook = FALSE], [FullConfig EXCEPT !.enabled = FALSE]}
=============================================================================
