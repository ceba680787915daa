---------------------------- MODULE MCFmpPipeline ---------------------------
(* A small instance of FmpPipeline: two wires' copies of one release and a   *)
(* release of a wire that is not ingested.                                  *)
EXTENDS FmpPipeline, TLC

CONSTANTS gnw, prn, other, w1, w2

Pool == Permutations(Workers)

MCSameText == {<<gnw, prn>>, <<prn, gnw>>}
MCRetryDelay == [n \in 1 .. MaxAttempts - 1 |-> n]
=============================================================================
