----------------------------- MODULE MCPrekeys -----------------------------
(* Instance of Prekeys: interchangeable requests.                          *)
EXTENDS Prekeys, TLC

RequestSymmetry == Permutations(Requests)
=============================================================================
