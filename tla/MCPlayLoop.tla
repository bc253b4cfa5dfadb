---------------------------- MODULE MCPlayLoop -----------------------------
(* Small boards for PlayLoop: the bot and one decoy, laid out by one or two *)
(* permutations that put the bot in different slots.                        *)
EXTENDS PlayLoop, Sequences, TLC

CONSTANTS d1, u1, q1, q2

Board(tuple) == [s \in 0..(Len(tuple) - 1) |-> tuple[s + 1]]

PairSlots   == 0..1
PairAnswers == {Bot, d1}
PairBoard   == {Board(<<d1, Bot>>)}
PairBoards  == {Board(<<d1, Bot>>), Board(<<Bot, d1>>)}

OneUser == {u1}
OneReq  == {q1}
TwoReqs == {q1, q2}

RequestSymmetry == Permutations(Reqs)
=============================================================================
