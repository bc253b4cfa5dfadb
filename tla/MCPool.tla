------------------------------- MODULE MCPool -------------------------------
(* Instances of Pool for TLC.                                               *)
EXTENDS Pool, TLC

CONSTANTS u1, u2, p1, b1, q1, q2, c1, c2

OneRow   == {<<u1, p1>>}
OtherRow == {<<u2, p1>>}

ClientSymmetry == Permutations({q1, q2}) \cup Permutations({c1, c2})

MCCommands == {[kind |-> "decoy", decision |-> "approved", filter |-> "pending"],
               [kind |-> "bot", decision |-> "approved", filter |-> "pending"],
               [kind |-> "prelaunch", decision |-> "approved", filter |-> "pending"],
               [kind |-> "prelaunch", decision |-> "rejected", filter |-> ""]}

=============================================================================
