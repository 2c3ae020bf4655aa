----------------------------- MODULE MCPipeline -----------------------------
(* Two servers, one of them listed twice, and a name that the configuration  *)
(* file does not have; every subset of these slots is a target list.         *)
EXTENDS Pipeline

CONSTANTS ns1, ns2, gone

MCSrvOf == <<ns1, ns2, ns1, gone>>

=============================================================================
