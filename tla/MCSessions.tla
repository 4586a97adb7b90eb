------------------------------ MODULE MCSessions ------------------------------
(* Sessions for TLC: the requests are interchangeable.                       *)
EXTENDS Sessions, TLC

RequestSymmetry == Permutations(Requests)

=============================================================================
