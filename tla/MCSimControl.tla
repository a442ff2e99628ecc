---------------------------- MODULE MCSimControl ----------------------------
(* SimControl for TLC: everything is finite as it stands. *)
EXTENDS SimControl

MCButtons == HandlerNames \ {"Resume", "ExportLog"}
MCExports == {"Start", "Stop", "ExportLog"}
=============================================================================
