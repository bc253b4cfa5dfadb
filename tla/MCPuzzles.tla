----------------------------- MODULE MCPuzzles -----------------------------
(* Instances of Puzzles for TLC: two prompts with one bot and one decoy     *)
(* each.                                                                    *)
EXTENDS Puzzles, TLC

CONSTANTS p1, p2, b1, b2, d1, d2, o1, o2

MCPrompts  == {p1, p2}
MCBots      == {b1, b2}
MCDecoys    == {d1, d2}
MCPromptOf  == (b1 :> p1) @@ (d1 :> p1) @@ (b2 :> p2) @@ (d2 :> p2)

P12 == (0 :> p1) @@ (1 :> p2)
P22 == (0 :> p2) @@ (1 :> p2)
MCPlans == {P22}
MCFiles == {[number |-> 1, date |-> 1, plan |-> P12]}
MCSwaps == {[i |-> 0, slot |-> 0, in |-> d1], [i |-> 0, slot |-> 1, in |-> "none"]}
NoneBuilt == {}
OneBuilt  == {0 :> [prompt |-> p1, lines |-> (0 :> b1) @@ (1 :> d1), edition |-> 1, texts |-> 0]
              @@ 1 :> [prompt |-> p2, lines |-> (0 :> b2) @@ (1 :> d2), edition |-> 1, texts |-> 0]}

AllVerbs == {"create", "build", "schedule", "compose", "edit", "set-round", "set-answer",
             "delete", "replace", "import", "assemble"}
GapVerbs == (o1 :> {"assemble", "schedule", "compose"})
MCVerbs  == (o1 :> (AllVerbs \ {"compose"})) @@ (o2 :> {"compose"})

=============================================================================
