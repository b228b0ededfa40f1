--------------------------- MODULE MCStagedDeploy ---------------------------
(***************************************************************************)
(* Three of the ten maintenance circuits.                                  *)
(***************************************************************************)
EXTENDS StagedDeploy

CONSTANTS acceptBatch, release, certifyBorrowingBase

ThreeCircuits == <<acceptBatch, release, certifyBorrowingBase>>
=============================================================================
