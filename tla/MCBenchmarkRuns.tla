--------------------------- MODULE MCBenchmarkRuns ---------------------------
(* An empty file, one shorter than a chunk, and one more or less than whole   *)
(* chunks; chunks of three bytes, whose reversal takes a swap.                *)
EXTENDS BenchmarkRuns
MCSizes == {0, 2, 3, 4, 6, 10}
=============================================================================
