----------------------------- MODULE MCSubmission -----------------------------
(***************************************************************************)
(* Two submissions: both of the console, which share a connection as long  *)
(* as it stands, or one of the console beside one of the SDK.              *)
(***************************************************************************)
EXTENDS Submission

TwoAndOne == {<<"console", "console">>, <<"console", "rpc">>}
=============================================================================
