----------------------------- MODULE DailyPlay -----------------------------
(***************************************************************************)
(* What the daily game promises a player, with no request, token, hint or  *)
(* database statement in sight: the rounds of a play are answered once     *)
(* each and in order, a play whose rounds are all answered is finished at  *)
(* most once with the score of its outcomes, and finishing it, nothing     *)
(* else, advances the player's streak.  PlayLoop implements this module.   *)
(***************************************************************************)
EXTENDS GameRules

VARIABLES
  outs,     \* outs[p]: the outcomes of play p
  score,    \* score[p]: the final score of play p, Null while unfinished
  streak    \* streak[u]: the streak of user u

vars == <<outs, score, streak>>

Init ==
  /\ outs = [p \in Plays |-> NoOutcomes]
  /\ score = [p \in Plays |-> Null]
  /\ streak = [u \in Users |-> NoStreak]

\* The next unanswered round of play p gets its outcome.
Answer(p) ==
  \E r \in Rounds, o \in Outcomes :
    /\ Answered(outs[p]) = 0..(r - 1)
    /\ outs' = [outs EXCEPT ![p] = [@ EXCEPT ![r] = o]]
    /\ UNCHANGED <<score, streak>>

\* A fully answered play is finished.
Finish(p) ==
  /\ Answered(outs[p]) = Rounds
  /\ score[p] = Null
  /\ score' = [score EXCEPT ![p] = ScorePct(outs[p])]
  /\ streak' = [streak EXCEPT ![p[1]] = Advance(@, p[2])]
  /\ UNCHANGED outs

Next == \E p \in Plays : Answer(p) \/ Finish(p)

Spec == Init /\ [][Next]_vars
=============================================================================
