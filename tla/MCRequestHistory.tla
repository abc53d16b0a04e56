-------------------------- MODULE MCRequestHistory --------------------------
(* The instances of MCMonitor, with the history.                           *)
EXTENDS RequestHistory, MCMonitor
=============================================================================
