------------------------------ MODULE MCSandbox ------------------------------
(* One visitor, who does at most one thing beside the replay. *)
EXTENDS Sandbox
=============================================================================
