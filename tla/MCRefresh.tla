----------------------------- MODULE MCRefresh -----------------------------
(* Refresh for TLC. *)
EXTENDS Refresh

MCHandlers == HandlerNames \ {"ExportLog"}
=============================================================================
