----------------------------- MODULE MCAccounts ----------------------------
(* Instances of Accounts for TLC: two browsers, one mailbox.                *)
EXTENDS Accounts, TLC

CONSTANTS alice, phone, laptop, q1, q2, goose

AllVerbs   == {"play", "request", "consume", "logout", "logout-all", "handle"}
MergeVerbs == {"play", "request", "consume"}
OneAll     == (q1 :> AllVerbs) @@ (q2 :> {"play", "consume"})
OnlyMerges == (q1 :> MergeVerbs)
Browsers   == Permutations({phone, laptop})
=============================================================================
