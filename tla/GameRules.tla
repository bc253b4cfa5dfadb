----------------------------- MODULE GameRules -----------------------------
(***************************************************************************)
(* The pure rules of the game: how a guess becomes an outcome, outcomes a  *)
(* score, and a finished puzzle a streak.  The abstract game (DailyPlay)   *)
(* and the server that runs it (PlayLoop) share them.                      *)
(***************************************************************************)
EXTENDS Integers, FiniteSets

CONSTANTS
  Users,        \* the players
  LastPuzzle,   \* puzzle numbers are 1..LastPuzzle
  NRounds,      \* rounds of a puzzle, indexed from 0 as in the code
  Null          \* SQL NULL

Puzzles  == 1..LastPuzzle
Rounds   == 0..(NRounds - 1)
Plays    == Users \X Puzzles     \* plays are unique per (user, puzzle)
Outcomes == {"green", "yellow", "red"}

ASSUME SizeAssumption ==
  /\ LastPuzzle \in Nat \ {0}
  /\ NRounds \in Nat \ {0}

ASSUME NullAssumption == Null \notin Outcomes /\ Null \notin 0..100

-----------------------------------------------------------------------------
Resolve(correct, hintUsed) ==
  IF ~correct THEN "red" ELSE IF hintUsed THEN "yellow" ELSE "green"

\* The outcomes of a play: a function on its rounds, Null where no guess has
\* been recorded.
OutcomeTable == [Rounds -> Outcomes \cup {Null}]

NoOutcomes == [r \in Rounds |-> Null]

Answered(outs) == {r \in Rounds : outs[r] # Null}

Caught(outs) == {r \in Rounds : outs[r] \in {"green", "yellow"}}

\* The Bot-Dar percentage, rounded down.
ScorePct(outs) ==
  IF Answered(outs) = {} THEN 0
  ELSE (Cardinality(Caught(outs)) * 100) \div Cardinality(Answered(outs))

-----------------------------------------------------------------------------
StreakRow == [current : Nat, longest : Nat, last : {0} \cup Puzzles]

\* A user who has no row in streaks.
NoStreak == [current |-> 0, longest |-> 0, last |-> 0]

\* Mutant of Advance: any finished puzzle extends the run.
AdvanceAlways(s, n) ==
  [current |-> s.current + 1,
   longest |-> IF s.longest > s.current THEN s.longest ELSE s.current + 1,
   last    |-> n]

\* The row after puzzle n is finished: one longer when the puzzle finished
\* last was n - 1, a new run otherwise.
Advance(s, n) ==
  LET run == IF s.last = n - 1 THEN s.current + 1 ELSE 1
  IN  [current |-> run,
       longest |-> IF s.longest > run THEN s.longest ELSE run,
       last    |-> n]
=============================================================================
