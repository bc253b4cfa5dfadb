--------------------------- MODULE MCTokenBucket ---------------------------
(* Small buckets for TokenBucket. *)
EXTENDS TokenBucket, TLC

CONSTANTS c1, c2

TwoCalls == {c1, c2}

CallSymmetry == Permutations(Calls)
=============================================================================
