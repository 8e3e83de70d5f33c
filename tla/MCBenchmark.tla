---------------------------- MODULE MCBenchmark ----------------------------
(* An instance of Benchmark with two tunnel processes. *)
EXTENDS Benchmark

CONSTANTS t1, t2
=============================================================================
