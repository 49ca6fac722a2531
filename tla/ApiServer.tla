------------------------------ MODULE ApiServer ------------------------------
(***************************************************************************)
(* One process of api/server.ts: the public routes and the admin routes    *)
(* over one adapter registry.  Node runs one handler at a time; a step is  *)
(* what a handler does between two awaits.                                 *)
(***************************************************************************)
EXTENDS LookupService, AdminService

apiVars == <<registryVars, requestVars, adminVars>>

ApiServerInit == RegistryInit /\ RequestInit /\ AdminInit

PublicStep == (\E r \in Request : RequestNext(r)) /\ UNCHANGED adminVars

AdminStep == AdminNext /\ UNCHANGED requestVars

ConfigEdited == EditConfig /\ UNCHANGED <<requestVars, adminVars>>

(* gracefulShutdown and process.exit, or a crash, and then start(). *)
ProcessRestart == RegistryRestart /\ DropRequests /\ ForgetAll

ApiServerNext == PublicStep \/ AdminStep \/ ConfigEdited \/ ProcessRestart

ApiServerSpec == ApiServerInit /\ [][ApiServerNext]_apiVars

-----------------------------------------------------------------------------
(* Claims of documents that the code does not keep. *)

(* "All requests to that council will immediately return 503               *)
(* ADAPTER_DISABLED until re-enabled": no public request starts a call on  *)
(* the adapter of a council in disabledAdapters.                           *)
DisabledNotServed ==
  [][\A r \in Request : r \in busy' \ busy => council'[r] \notin disabledAdapters]_apiVars
=============================================================================
