--------------------------- MODULE MCTcpBenchmark ---------------------------
(* The instances of TcpBenchmark that TLC checks: see the .cfg files.       *)
EXTENDS TcpBenchmark
=============================================================================
