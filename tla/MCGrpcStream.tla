---------------------------- MODULE MCGrpcStream ----------------------------
(* The instance of GrpcStream that TLC checks: see the .cfg files.            *)
EXTENDS GrpcStream
=============================================================================
