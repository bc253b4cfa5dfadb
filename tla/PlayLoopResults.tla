-------------------------- MODULE PlayLoopResults ---------------------------
(***************************************************************************)
(* What follows from the play loop's invariant: it implements the abstract *)
(* game, the streaks are earned, and each play and each vote is counted    *)
(* once.                                                                   *)
(***************************************************************************)
EXTENDS PlayLoopProofs

USE DEF HintOpen, GuessOpen, VoteOpen, Revealed, PlayOpen, StoredPerm

-----------------------------------------------------------------------------
(***************************************************************************)
(* The play loop implements the abstract game: each statement either       *)
(* answers the next round of a play, finishes a play, or changes nothing   *)
(* the abstract game shows.                                                *)
(***************************************************************************)

\* What the abstract game sees.
AbstractOuts  == [p \in Plays |-> Outs(p)]
AbstractScore == [p \in Plays |-> play[p].score]

\* Both modules play by the same rules.
LEMMA SameRules ==
  /\ Game!Plays = Plays /\ Game!Rounds = Rounds /\ Game!Outcomes = Outcomes
  /\ Game!NoOutcomes = NoOutcomes /\ Game!NoStreak = NoStreak
  /\ \A outs : Game!Answered(outs) = Answered(outs) /\ Game!ScorePct(outs) = ScorePct(outs)
  /\ \A s, n : Game!Advance(s, n) = Advance(s, n)
<1>1. /\ Game!Plays = Plays /\ Game!Rounds = Rounds /\ Game!Outcomes = Outcomes
      /\ Game!NoStreak = NoStreak
  BY DEF Game!Plays, Plays, Game!Puzzles, Puzzles, Game!Rounds, Rounds,
         Game!Outcomes, Outcomes, Game!NoStreak, NoStreak
<1>2. Game!NoOutcomes = NoOutcomes
  BY <1>1 DEF Game!NoOutcomes, NoOutcomes
<1>3. ASSUME NEW outs
      PROVE  Game!Answered(outs) = Answered(outs) /\ Game!Caught(outs) = Caught(outs)
  BY <1>1 DEF Game!Answered, Answered, Game!Caught, Caught
<1>4. ASSUME NEW outs PROVE Game!ScorePct(outs) = ScorePct(outs)
  <2>1. \A S : Game!Cardinality(S) = Cardinality(S)
    BY Zenon DEF Game!Cardinality, Cardinality, Game!IsFiniteSet, IsFiniteSet
  <2>2. QED
    BY <1>3, <2>1 DEF Game!ScorePct, ScorePct
<1>5. ASSUME NEW s, NEW n PROVE Game!Advance(s, n) = Advance(s, n)
  BY Zenon DEF Game!Advance, Advance
<1>6. QED
  BY <1>1, <1>2, <1>3, <1>4, <1>5

LEMMA InitRefines == Init => Game!Init
<1> SUFFICES ASSUME Init PROVE Game!Init
  OBVIOUS
<1>1. AbstractOuts = [p \in Plays |-> NoOutcomes]
  BY DEF Init, Outs, NoOutcomes, NoRow, AbstractOuts
<1>2. AbstractScore = [p \in Plays |-> Null]
  BY DEF Init, NoPlay, AbstractScore
<1>3. streak = [u \in Users |-> NoStreak]
  BY DEF Init
<1>4. QED
  BY <1>1, <1>2, <1>3, SameRules DEF Game!Init, AbstractOuts, AbstractScore

\* The abstract actions in the play loop's own words.
LEMMA AbstractAnswer ==
  ASSUME NEW p \in Plays, NEW r \in Rounds, NEW o \in Outcomes,
         Answered(Outs(p)) = 0..(r - 1),
         AbstractOuts' = [AbstractOuts EXCEPT ![p] = [@ EXCEPT ![r] = o]],
         AbstractScore' = AbstractScore, streak' = streak
  PROVE  Game!Answer(p)
<1>1. AbstractOuts[p] = Outs(p)
  BY DEF AbstractOuts
<1>2. QED
  BY <1>1, SameRules DEF Game!Answer, AbstractOuts, AbstractScore

LEMMA AbstractFinish ==
  ASSUME NEW p \in Plays, Answered(Outs(p)) = Rounds, play[p].score = Null,
         AbstractScore' = [AbstractScore EXCEPT ![p] = ScorePct(Outs(p))],
         streak' = [streak EXCEPT ![p[1]] = Advance(@, p[2])],
         AbstractOuts' = AbstractOuts
  PROVE  Game!Finish(p)
<1>1. AbstractOuts[p] = Outs(p) /\ AbstractScore[p] = play[p].score
  BY DEF AbstractOuts, AbstractScore
<1>2. QED
  BY <1>1, SameRules DEF Game!Finish, AbstractOuts, AbstractScore

\* The guess answers the round after those already answered.
LEMMA CommitRefines ==
  ASSUME IInv, NEW q \in Reqs, CommitGuess(q), round' # round
  PROVE  \E p \in Plays : Game!Answer(p)
<1>1. PICK p \in Plays, r \in Rounds, o \in Outcomes :
        /\ p = req[q].play /\ r = req[q].r /\ o = round'[p][r].outcome
        /\ OnlyRow(p, r) /\ round[p][r].outcome = Null
  BY CommitStep DEF IInv
<1>2. Answered(Outs(p)) = 0..(r - 1)
  <2>1. PICK n \in 0..NRounds : Answered(Outs(p)) = 0..(n - 1) /\ Opened(p) \subseteq 0..n
    BY <1>1 DEF IInv, PlayedInOrder
  <2>2. r \in Opened(p) /\ r \notin Answered(Outs(p))
    BY <1>1 DEF IInv, LocalsStayTrue, StillTrue, CommitGuess, Opened, Answered, Outs
  <2>3. r = n
    BY <2>1, <2>2, SizeAssumption DEF Rounds
  <2>4. QED
    BY <2>1, <2>3
<1>3. AbstractOuts' = [AbstractOuts EXCEPT ![p] = [@ EXCEPT ![r] = o]]
  <2>1. Outs(p)' = [Outs(p) EXCEPT ![r] = o]
    BY <1>1 DEF Outs, OnlyRow
  <2>2. \A x \in Plays : x # p => Outs(x)' = Outs(x)
    BY <1>1 DEF Outs, OnlyRow
  <2>3. QED
    BY <1>1, <2>1, <2>2 DEF AbstractOuts
<1>4. AbstractScore' = AbstractScore /\ streak' = streak
  BY DEF CommitGuess, AbstractScore
<1>5. QED
  BY <1>1, <1>2, <1>3, <1>4, AbstractAnswer

\* A successful CompletePlay finishes the play.
LEMMA CompleteRefines ==
  ASSUME IInv, NEW q \in Reqs, CompletePlay(q), play' # play
  PROVE  \E p \in Plays : Game!Finish(p)
<1> DEFINE p == req[q].play
           new == [status |-> "completed", score |-> ScorePct(req[q].outs)]
<1>1. p \in Plays
  <2>1. req[q] \in Request /\ req[q].pc = "complete"
    BY DEF CompletePlay, IInv, TypeOK
  <2>2. QED
    BY <2>1, RequestShape DEF CompleteReq
<1>2. Answered(Outs(p)) = Rounds /\ req[q].outs = Outs(p)
  BY DEF CompletePlay, IInv, LocalsStayTrue, StillTrue, AllAnswered
<1>3. /\ ~Completed(p) /\ round' = round
      /\ play' = [play EXCEPT ![p] = new]
      /\ streak' = [streak EXCEPT ![p[1]] = Advance(@, p[2])]
  BY DEF CompletePlay
<1>4. play[p].score = Null
  BY <1>1, <1>3 DEF IInv, ColumnsAgree
<1>5. new.score = ScorePct(Outs(p))
  BY <1>2
<1> HIDE DEF p, new
<1>6. AbstractScore' = [AbstractScore EXCEPT ![p] = ScorePct(Outs(p))]
  BY <1>1, <1>3, <1>5 DEF AbstractScore, IInv, TypeOK
<1>7. AbstractOuts' = AbstractOuts
  BY <1>3 DEF AbstractOuts, Outs
<1>8. QED
  BY <1>1, <1>2, <1>3, <1>4, <1>6, <1>7, AbstractFinish

\* Every other statement changes nothing the abstract game shows.
LEMMA OtherwiseStutters ==
  ASSUME IInv, [Next]_vars,
         ~(\E q \in Reqs : CommitGuess(q) /\ round' # round),
         ~(\E q \in Reqs : CompletePlay(q) /\ play' # play)
  PROVE  AbstractOuts' = AbstractOuts /\ AbstractScore' = AbstractScore /\ streak' = streak
<1>1. ASSUME NEW p \in Plays, NEW r \in Rounds
      PROVE  round'[p][r].outcome = round[p][r].outcome
  BY RowStep DEF IInv
<1>2. ASSUME NEW p \in Plays PROVE play'[p].score = play[p].score
  <2>1. play[p].status = "absent" => play[p].score = Null
    BY DEF IInv, ColumnsAgree, Completed
  <2>2. ASSUME NEW q \in Reqs, CompletePlay(q), ~Completed(p),
               play'[p] = [status |-> "completed", score |-> ScorePct(req[q].outs)]
        PROVE  FALSE
    BY <2>2 DEF Completed
  <2>3. TypeOK
    BY DEF IInv
  <2>4. \/ play'[p] = play[p]
        \/ play[p].status = "absent" /\ play'[p] = OpenPlay
    BY <2>2, <2>3, PlayStep, Zenon
  <2>5. QED
    BY <2>1, <2>4 DEF OpenPlay
<1>3. streak' = streak
  <2>1. \/ streak' = streak
        \/ \E q \in Reqs : CompletePlay(q)
    BY DEF Next, Begin, Continue, CreateOrGetPlay, LoadOutcomes, UpsertPlayRound, RequestHint,
         MarkHint, RequestGuess, CheckGuess, CommitGuess, RecountOutcomes, RequestVote,
         CastRealestVote, Cancel, ExpireToken, Midnight, vars
  <2>2. ASSUME NEW q \in Reqs, CompletePlay(q) PROVE streak' = streak
    <3>1. req[q].play \in Plays
      <4>1. req[q] \in Request /\ req[q].pc = "complete"
        BY <2>2 DEF CompletePlay, IInv, TypeOK
      <4>2. QED
        BY <4>1, RequestShape DEF CompleteReq
    <3>2. CASE streak' # streak
      <4>1. /\ ~Completed(req[q].play)
            /\ play' = [play EXCEPT ![req[q].play] = [status |-> "completed",
                                                     score |-> ScorePct(req[q].outs)]]
        BY <2>2, <3>2 DEF CompletePlay
      <4>2. play'[req[q].play].status = "completed"
        BY <3>1, <4>1 DEF IInv, TypeOK
      <4>3. QED
        BY <2>2, <4>1, <4>2 DEF Completed
    <3>3. QED
      BY <3>2
  <2>3. QED
    BY <2>1, <2>2
<1>4. QED
  BY <1>1, <1>2, <1>3 DEF AbstractOuts, AbstractScore, Outs

LEMMA StepRefines == IInv /\ [Next]_vars => [Game!Next]_(Game!vars)
<1> SUFFICES ASSUME IInv, [Next]_vars PROVE [Game!Next]_(Game!vars)
  OBVIOUS
<1>1. CASE \E q \in Reqs : CommitGuess(q) /\ round' # round
  BY <1>1, CommitRefines, SameRules DEF Game!Next
<1>2. CASE \E q \in Reqs : CompletePlay(q) /\ play' # play
  BY <1>2, CompleteRefines, SameRules DEF Game!Next
<1>3. CASE /\ ~(\E q \in Reqs : CommitGuess(q) /\ round' # round)
           /\ ~(\E q \in Reqs : CompletePlay(q) /\ play' # play)
  BY <1>3, OtherwiseStutters DEF Game!vars, AbstractOuts, AbstractScore
<1>4. QED
  BY <1>1, <1>2, <1>3

\* Whatever interleaving of requests, tokens, faults and midnights, a player
\* sees a game in which rounds are answered once each in order, and a play is
\* finished once, with the score of its answers and one advance of the streak.
THEOREM ImplementsTheGame == Spec => ImplementsDailyPlay
  BY InitRefines, StepRefines, Invariance, PTL DEF Spec, ImplementsDailyPlay, Game!Spec

-----------------------------------------------------------------------------
(***************************************************************************)
(* The streak is earned: what CompletePlay writes to streaks is backed by  *)
(* completed plays, in whatever order plays are finished around midnight.  *)
(***************************************************************************)

\* The puzzles user u has completed.
Done(u) == {n \in Puzzles : Completed(<<u, n>>)}

\* The `length` puzzles up to number e are all in the set done.
IsRun(done, e, length) == \A k \in 0..(length - 1) : e - k \in done

Earned(done, s) ==
  /\ IsRun(done, s.last, s.current)
  /\ \E e \in {0} \cup Puzzles : IsRun(done, e, s.longest)

LEMMA EarnedStreaks == StreakIsEarned <=> \A u \in Users : Earned(Done(u), streak[u])
  BY DEF StreakIsEarned, Earned, IsRun, Done

\* A completed play stays completed.
LEMMA DoneStays ==
  ASSUME TypeOK, [Next]_vars, NEW u \in Users
  PROVE  Done(u) \subseteq Done(u)'
<1>1. ASSUME NEW p \in Plays, Completed(p) PROVE Completed(p)'
  BY <1>1, PlayStep DEF Completed
<1>2. ASSUME NEW n \in Puzzles, Completed(<<u, n>>) PROVE Completed(<<u, n>>)'
  <2>1. <<u, n>> \in Plays
    BY DEF Plays
  <2>2. QED
    BY <1>1, <1>2, <2>1
<1>3. QED
  BY <1>2 DEF Done

\* Advancing an earned streak by a puzzle that is completed gives an earned one.
LEMMA AdvanceEarned ==
  ASSUME NEW done, NEW s \in StreakRow, NEW n \in Puzzles, n \in done, Earned(done, s)
  PROVE  Earned(done, Advance(s, n))
<1> DEFINE run == IF s.last = n - 1 THEN s.current + 1 ELSE 1
<1>1. /\ s.current \in Nat /\ s.longest \in Nat /\ s.last \in Nat /\ n \in Nat
      /\ run \in Nat
  BY SizeAssumption DEF StreakRow, Puzzles
<1>2. IsRun(done, n, run)
  <2>1. ASSUME NEW k \in 0..(run - 1) PROVE n - k \in done
    <3>1. CASE k = 0
      BY <1>1, <3>1
    <3>2. CASE k # 0
      <4>1. s.last = n - 1 /\ k - 1 \in 0..(s.current - 1)
        BY <1>1, <3>2
      <4>2. s.last - (k - 1) \in done
        BY <4>1 DEF Earned, IsRun
      <4>3. s.last - (k - 1) = n - k
        BY <1>1, <4>1
      <4>4. QED
        BY <4>2, <4>3
    <3>3. QED
      BY <3>1, <3>2
  <2>2. QED
    BY <2>1 DEF IsRun
<1>3. /\ Advance(s, n).last = n /\ Advance(s, n).current = run
      /\ Advance(s, n).longest = IF s.longest > run THEN s.longest ELSE run
  BY DEF Advance
<1> HIDE DEF run
<1>4. \E e \in {0} \cup Puzzles : IsRun(done, e, Advance(s, n).longest)
  BY <1>2, <1>3 DEF Earned
<1>5. QED
  BY <1>2, <1>3, <1>4 DEF Earned

\* The only statement that writes streaks is the update in CompletePlay.
LEMMA StreakWritten ==
  ASSUME TypeOK, [Next]_vars, NEW u \in Users, streak'[u] # streak[u]
  PROVE  \E n \in Puzzles : streak'[u] = Advance(streak[u], n) /\ Completed(<<u, n>>)'
<1>1. PICK q \in Reqs : CompletePlay(q)
  BY DEF Next, Begin, Continue, CreateOrGetPlay, LoadOutcomes, UpsertPlayRound, RequestHint,
         MarkHint, RequestGuess, CheckGuess, CommitGuess, RecountOutcomes, RequestVote,
         CastRealestVote, Cancel, ExpireToken, Midnight, vars
<1>2. PICK p \in Plays : p = req[q].play
  <2>1. req[q] \in Request /\ req[q].pc = "complete"
    BY <1>1 DEF CompletePlay, TypeOK
  <2>2. QED
    BY <2>1, RequestShape DEF CompleteReq
<1>3. p[1] \in Users /\ p[2] \in Puzzles /\ p = <<p[1], p[2]>>
  BY UsersPuzzles
<1>4. /\ play' = [play EXCEPT ![p] = [status |-> "completed", score |-> ScorePct(req[q].outs)]]
      /\ streak' = [streak EXCEPT ![p[1]] = Advance(@, p[2])]
  BY <1>1, <1>2 DEF CompletePlay
<1>5. u = p[1] /\ streak'[u] = Advance(streak[u], p[2])
  BY <1>3, <1>4 DEF TypeOK
<1>6. play'[p].status = "completed"
  BY <1>4 DEF TypeOK
<1>7. QED
  BY <1>3, <1>5, <1>6 DEF Completed

LEMMA StreakInit == Init => StreakIsEarned
<1> SUFFICES ASSUME Init, NEW u \in Users PROVE Earned(Done(u), streak[u])
  BY EarnedStreaks
<1>1. streak[u].current = 0 /\ streak[u].longest = 0
  BY DEF Init, NoStreak
<1>2. \A e : IsRun(Done(u), e, 0)
  BY DEF IsRun
<1>3. QED
  BY <1>1, <1>2 DEF Earned

LEMMA StreakStep == TypeOK /\ StreakIsEarned /\ [Next]_vars => StreakIsEarned'
<1> SUFFICES ASSUME TypeOK, StreakIsEarned, [Next]_vars, NEW u \in Users
             PROVE  Earned(Done(u)', streak'[u])
  BY DEF StreakIsEarned, Earned, IsRun, Done
<1>1. PICK old \in StreakRow : old = streak[u]
  BY DEF TypeOK
<1> PICK done : done = Done(u)'
  OBVIOUS
<1>2. Earned(done, old)
  <2>1. Earned(Done(u), old)
    BY <1>1, EarnedStreaks
  <2>2. QED
    BY <2>1, DoneStays DEF Earned, IsRun
<1>3. CASE streak'[u] = old
  BY <1>1, <1>2, <1>3
<1>4. CASE streak'[u] # old
  <2>1. PICK n \in Puzzles : streak'[u] = Advance(old, n) /\ Completed(<<u, n>>)'
    BY <1>1, <1>4, StreakWritten
  <2>2. n \in done
    BY <1>1, <2>1 DEF Done
  <2>3. QED
    BY <1>1, <1>2, <2>1, <2>2, AdvanceEarned
<1>5. QED
  BY <1>3, <1>4

\* At any moment the current streak is as long as an unbroken run of completed
\* puzzles that ends at the one finished last, and the longest one is a run.
THEOREM StreaksAreEarned == Spec => []StreakIsEarned
<1>1. IInv => TypeOK
  BY DEF IInv
<1>2. QED
  BY <1>1, StreakInit, StreakStep, Invariance, PTL DEF Spec

-----------------------------------------------------------------------------
(***************************************************************************)
(* Each play and each vote is counted once: the counters of a decoy are    *)
(* the sizes of four sets of players, and a statement that writes counters *)
(* puts one player into the sets they count.                               *)
(***************************************************************************)

Players(z)        == {u \in Users : Completed(<<u, z>>)}
Accusers(z, r, d) == {u \in Players(z) : round[<<u, z>>][r].perm[round[<<u, z>>][r].slot] = d}
Voters(z, r)      == {u \in Users : round[<<u, z>>][r].vote # Null}
Electors(z, r, d) == {u \in Voters(z, r) : round[<<u, z>>][r].vote = d}

Counted(z, r, d) ==
  LET c == stats[z][r][d]
  IN  /\ c.impressions = Cardinality(Players(z))
      /\ c.picked = Cardinality(Accusers(z, r, d))
      /\ c.realestImpressions = Cardinality(Voters(z, r))
      /\ c.realestVotes = Cardinality(Electors(z, r, d))

AllCounted == \A z \in Puzzles, r \in Rounds, d \in Decoys : Counted(z, r, d)

LEMMA CountedTogether == TypeOK => (EachPlayCountedOnce <=> AllCounted)
<1> SUFFICES ASSUME TypeOK, NEW z \in Puzzles, NEW r \in Rounds, NEW d \in Decoys
             PROVE  stats[z][r][d] = [impressions        |-> Cardinality(Players(z)),
                                      picked             |-> Cardinality(Accusers(z, r, d)),
                                      realestImpressions |-> Cardinality(Voters(z, r)),
                                      realestVotes       |-> Cardinality(Electors(z, r, d))]
                      <=> Counted(z, r, d)
  BY DEF EachPlayCountedOnce, AllCounted, Players, Accusers, Voters, Electors
<1>1. stats[z][r][d] \in Counters
  BY DEF TypeOK
<1>2. QED
  BY <1>1 DEF Counted, Counters

\* A guessed round's guess is not recorded again and its hint not taken.
LEMMA GuessStays ==
  ASSUME TypeOK, [Next]_vars, NEW p \in Plays, NEW r \in Rounds, round[p][r].outcome # Null
  PROVE  /\ round'[p][r].slot = round[p][r].slot
         /\ round'[p][r].removed = round[p][r].removed
<1>1. CASE round' = round
  BY <1>1
<1>2. ASSUME NEW q \in Reqs, UpsertPlayRound(q)
      PROVE  /\ round'[p][r].slot = round[p][r].slot
             /\ round'[p][r].removed = round[p][r].removed
  BY <1>2, UpsertStep DEF OnlyRow
<1>3. ASSUME NEW q \in Reqs, MarkHint(q), round' # round
      PROVE  /\ round'[p][r].slot = round[p][r].slot
             /\ round'[p][r].removed = round[p][r].removed
  BY <1>3, MarkStep DEF OnlyRow
<1>4. ASSUME NEW q \in Reqs, CommitGuess(q), round' # round
      PROVE  /\ round'[p][r].slot = round[p][r].slot
             /\ round'[p][r].removed = round[p][r].removed
  BY <1>4, CommitStep DEF OnlyRow
<1>5. ASSUME NEW q \in Reqs, CastRealestVote(q), round' # round
      PROVE  /\ round'[p][r].slot = round[p][r].slot
             /\ round'[p][r].removed = round[p][r].removed
  BY <1>5, VoteStep DEF OnlyRow
<1>6. QED
  BY <1>1, <1>2, <1>3, <1>4, <1>5, RowsOtherwiseUnchanged

\* What a completed play accused stays accused.
LEMMA AccusationStays ==
  ASSUME IInv, [Next]_vars, NEW p \in Plays, NEW r \in Rounds, Completed(p)
  PROVE  round'[p][r].perm = round[p][r].perm /\ round'[p][r].slot = round[p][r].slot
<1>1. round[p][r].outcome # Null
  BY DEF IInv, ScoreIsOfTheAnswers, AllAnswered, Answered, Outs
<1>2. round[p][r].perm # Null
  BY <1>1 DEF IInv, ColumnsAgree
<1>3. Kept(round[p][r].perm, round'[p][r].perm)
  BY RowStep DEF IInv
<1>4. QED
  BY <1>1, <1>2, <1>3, GuessStays DEF IInv, Kept

\* The play that CompletePlay completes.
LEMMA CompletionCounts ==
  ASSUME IInv, NEW q \in Reqs, CompletePlay(q), stats' # stats \/ play' # play
  PROVE  \E p \in Plays :
           /\ ~Completed(p) /\ AllAnswered(p)
           /\ stats' = CountAccusations(p) /\ round' = round
           /\ \A o \in Plays : Completed(o)' <=> Completed(o) \/ o = p
<1>1. PICK p \in Plays : p = req[q].play
  <2>1. req[q] \in Request /\ req[q].pc = "complete"
    BY DEF CompletePlay, TypeOK, IInv
  <2>2. QED
    BY <2>1, RequestShape DEF CompleteReq
<1>2. AllAnswered(p)
  BY <1>1 DEF CompletePlay, IInv, LocalsStayTrue, StillTrue
<1>3. PICK s : /\ ~Completed(p) /\ stats' = CountAccusations(p) /\ round' = round
               /\ play' = [play EXCEPT ![p] = [status |-> "completed", score |-> s]]
  BY <1>1 DEF CompletePlay
<1>4. \A o \in Plays : Completed(o)' <=> Completed(o) \/ o = p
  BY <1>3 DEF Completed, IInv, TypeOK
<1>5. QED
  BY <1>2, <1>3, <1>4

\* The vote that CastRealestVote stores.
LEMMA VoteCounts ==
  ASSUME IInv, NEW q \in Reqs, CastRealestVote(q), stats' # stats \/ round' # round
  PROVE  \E p \in Plays, n \in Rounds, d \in Decoys :
           /\ round[p][n].vote = Null /\ round'[p][n].vote = d
           /\ OnlyRow(p, n)
           /\ stats' = CountVote(p[2], n, d) /\ play' = play
<1>1. PICK p \in Plays, n \in Rounds, d \in Decoys :
        p = req[q].play /\ n = req[q].r /\ d = req[q].decoy
  <2>1. req[q] \in Request /\ req[q].pc = "vote"
    BY DEF CastRealestVote, TypeOK, IInv
  <2>2. QED
    BY <2>1, RequestShape DEF VoteReq
<1>2. /\ round[p][n].vote = Null
      /\ round' = [round EXCEPT ![p][n] = [@ EXCEPT !.vote = d]]
      /\ stats' = CountVote(p[2], n, d) /\ play' = play
  BY <1>1 DEF CastRealestVote
<1> DEFINE old == round[p][n]
           new == [old EXCEPT !.vote = d]
<1>3. old \in RoundRow
  BY DEF IInv, TypeOK
<1>4. new.vote = d
  <2> HIDE DEF old
  <2>1. QED
    BY <1>3 DEF RoundRow
<1>5. round' = [round EXCEPT ![p][n] = new]
  BY <1>2 DEF IInv, TypeOK
<1> HIDE DEF new
<1>6. round'[p][n] = new /\ OnlyRow(p, n)
  BY <1>5, OneRowWritten DEF IInv
<1>7. QED
  BY <1>2, <1>4, <1>6

\* Which steps write the counters.
LEMMA CountStep ==
  ASSUME IInv, [Next]_vars
  PROVE  \/ /\ stats' = stats
            /\ \A p \in Plays : Completed(p)' <=> Completed(p)
            /\ \A p \in Plays, r \in Rounds : round'[p][r].vote = round[p][r].vote
         \/ \E p \in Plays :
              /\ ~Completed(p) /\ AllAnswered(p)
              /\ stats' = CountAccusations(p) /\ round' = round
              /\ \A o \in Plays : Completed(o)' <=> Completed(o) \/ o = p
         \/ \E p \in Plays, n \in Rounds, d \in Decoys :
              /\ round[p][n].vote = Null /\ round'[p][n].vote = d
              /\ OnlyRow(p, n)
              /\ stats' = CountVote(p[2], n, d) /\ play' = play
<1>1. CASE \E q \in Reqs : CompletePlay(q) /\ (stats' # stats \/ play' # play)
  BY <1>1, CompletionCounts
<1>2. CASE \E q \in Reqs : CastRealestVote(q) /\ (stats' # stats \/ round' # round)
  BY <1>2, VoteCounts
<1>3. ASSUME ~\E q \in Reqs : CompletePlay(q) /\ (stats' # stats \/ play' # play),
             ~\E q \in Reqs : CastRealestVote(q) /\ (stats' # stats \/ round' # round)
      PROVE  /\ stats' = stats
             /\ \A p \in Plays : Completed(p)' <=> Completed(p)
             /\ \A p \in Plays, r \in Rounds : round'[p][r].vote = round[p][r].vote
  <2>1. stats' = stats
    BY <1>3 DEF Next, Begin, Continue, CreateOrGetPlay, LoadOutcomes, UpsertPlayRound,
       RequestHint, MarkHint, RequestGuess, CheckGuess, CommitGuess, RecountOutcomes,
       RequestVote, Cancel, ExpireToken, Midnight, vars
  <2>2. ASSUME NEW p \in Plays PROVE Completed(p)' <=> Completed(p)
    <3>1. CASE play'[p] = play[p]
      BY <3>1 DEF Completed
    <3>2. CASE ~Completed(p) /\ play'[p] = OpenPlay
      BY <3>2 DEF Completed, OpenPlay
    <3>3. CASE \E q \in Reqs : /\ CompletePlay(q) /\ ~Completed(p)
                               /\ play'[p] = [status |-> "completed",
                                              score |-> ScorePct(req[q].outs)]
      BY <1>3, <3>3 DEF Completed
    <3>4. QED
      BY <3>1, <3>2, <3>3, PlayStep DEF IInv
  <2>3. ASSUME NEW p \in Plays, NEW r \in Rounds PROVE round'[p][r].vote = round[p][r].vote
    <3>1. CASE round' = round
      BY <3>1
    <3>2. ASSUME NEW q \in Reqs, UpsertPlayRound(q) PROVE round'[p][r].vote = round[p][r].vote
      BY <3>2, UpsertStep DEF IInv, OnlyRow
    <3>3. ASSUME NEW q \in Reqs, MarkHint(q), round' # round
          PROVE  round'[p][r].vote = round[p][r].vote
      BY <3>3, MarkStep DEF IInv, OnlyRow
    <3>4. ASSUME NEW q \in Reqs, CommitGuess(q), round' # round
          PROVE  round'[p][r].vote = round[p][r].vote
      BY <3>4, CommitStep DEF IInv, OnlyRow
    <3>5. QED
      BY <1>3, <3>1, <3>2, <3>3, <3>4, RowsOtherwiseUnchanged
  <2>4. QED
    BY <2>1, <2>2, <2>3
<1>4. QED
  BY <1>1, <1>2, <1>3

\* One user more, and one more if chosen.
LEMMA OneMore ==
  ASSUME NEW S \in SUBSET Users, NEW u \in Users, u \notin S
  PROVE  Cardinality(S \cup {u}) = Cardinality(S) + 1
<1>1. IsFiniteSet(S)
  BY BoardAssumption, FS_Subset
<1>2. QED
  BY <1>1, FS_AddElement

LEMMA OneMoreIf ==
  ASSUME NEW S \in SUBSET Users, NEW u \in Users, u \notin S, NEW chosen \in BOOLEAN, NEW T,
         T = IF chosen THEN S \cup {u} ELSE S
  PROVE  Cardinality(T) = IF chosen THEN Cardinality(S) + 1 ELSE Cardinality(S)
  BY OneMore

\* What the two statements add to the counters of a decoy.
LEMMA AccuseAdds ==
  ASSUME NEW c \in Counters, NEW row, NEW d, row.outcome # Null
  PROVE  LET new == Accuse(c, row, d)
         IN  /\ new.impressions = c.impressions + 1
             /\ new.picked = IF row.perm[row.slot] = d THEN c.picked + 1 ELSE c.picked
             /\ new.realestImpressions = c.realestImpressions
             /\ new.realestVotes = c.realestVotes
<1> DEFINE i == c.impressions + 1
           k == IF row.perm[row.slot] = d THEN c.picked + 1 ELSE c.picked
<1>1. Accuse(c, row, d) = [c EXCEPT !.impressions = i, !.picked = k]
  BY DEF Accuse
<1> HIDE DEF i, k
<1>2. /\ Accuse(c, row, d).impressions = i /\ Accuse(c, row, d).picked = k
      /\ Accuse(c, row, d).realestImpressions = c.realestImpressions
      /\ Accuse(c, row, d).realestVotes = c.realestVotes
  BY <1>1 DEF Counters
<1>3. QED
  BY <1>2 DEF i, k

LEMMA ElectAdds ==
  ASSUME NEW c \in Counters, NEW chosen \in BOOLEAN
  PROVE  LET new == Elect(c, chosen)
         IN  /\ new.impressions = c.impressions
             /\ new.picked = c.picked
             /\ new.realestImpressions = c.realestImpressions + 1
             /\ new.realestVotes = IF chosen THEN c.realestVotes + 1 ELSE c.realestVotes
<1> DEFINE i == c.realestImpressions + 1
           k == IF chosen THEN c.realestVotes + 1 ELSE c.realestVotes
<1>1. Elect(c, chosen) = [c EXCEPT !.realestImpressions = i, !.realestVotes = k]
  BY DEF Elect
<1> HIDE DEF i, k
<1>2. /\ Elect(c, chosen).realestImpressions = i /\ Elect(c, chosen).realestVotes = k
      /\ Elect(c, chosen).impressions = c.impressions /\ Elect(c, chosen).picked = c.picked
  BY <1>1 DEF Counters
<1>3. QED
  BY <1>2 DEF i, k

\* A statement that leaves counters, completions and votes alone.
LEMMA NobodyCounted ==
  ASSUME IInv, [Next]_vars, NEW z \in Puzzles, NEW r \in Rounds, NEW d \in Decoys,
         Counted(z, r, d), stats'[z][r][d] = stats[z][r][d],
         \A u \in Users : Completed(<<u, z>>)' <=> Completed(<<u, z>>),
         \A u \in Users : round'[<<u, z>>][r].vote = round[<<u, z>>][r].vote
  PROVE  Counted(z, r, d)'
<1>1. \A u \in Users : <<u, z>> \in Plays
  BY DEF Plays
<1>2. Players(z)' = Players(z)
  BY DEF Players
<1>3. Accusers(z, r, d)' = Accusers(z, r, d)
  BY <1>1, <1>2, AccusationStays DEF Accusers, Players
<1>4. Voters(z, r)' = Voters(z, r)
  BY DEF Voters
<1>5. Electors(z, r, d)' = Electors(z, r, d)
  BY <1>4 DEF Electors, Voters
<1>6. QED
  BY <1>2, <1>3, <1>4, <1>5 DEF Counted

\* CompletePlay adds one player.
LEMMA PlayerCounted ==
  ASSUME IInv, [Next]_vars, NEW z \in Puzzles, NEW r \in Rounds, NEW d \in Decoys,
         Counted(z, r, d), NEW u \in Users, <<u, z>> \in Plays,
         ~Completed(<<u, z>>), AllAnswered(<<u, z>>),
         stats'[z][r][d] = Accuse(stats[z][r][d], round[<<u, z>>][r], d), round' = round,
         \A w \in Users : Completed(<<w, z>>)' <=> Completed(<<w, z>>) \/ w = u
  PROVE  Counted(z, r, d)'
<1> DEFINE row == round[<<u, z>>][r]
           hit == row.perm[row.slot] = d
<1>1. row.outcome # Null
  BY DEF AllAnswered, Answered, Outs
<1>2. u \notin Players(z) /\ Players(z)' = Players(z) \cup {u}
  BY DEF Players
<1>3. Accusers(z, r, d)' = IF hit THEN Accusers(z, r, d) \cup {u} ELSE Accusers(z, r, d)
  BY <1>2 DEF Accusers
<1>4. Voters(z, r)' = Voters(z, r) /\ Electors(z, r, d)' = Electors(z, r, d)
  BY DEF Voters, Electors
<1>5. stats[z][r][d] \in Counters
  BY DEF IInv, TypeOK
<1>6. Players(z) \in SUBSET Users /\ Accusers(z, r, d) \in SUBSET Users /\ u \notin Accusers(z, r, d)
  BY <1>2 DEF Players, Accusers
<1>7. Cardinality(Players(z)') = Cardinality(Players(z)) + 1
  BY <1>2, <1>6, OneMore
<1>8. hit \in BOOLEAN
  OBVIOUS
<1>9. /\ Accuse(stats[z][r][d], row, d).impressions = stats[z][r][d].impressions + 1
      /\ Accuse(stats[z][r][d], row, d).picked
           = IF hit THEN stats[z][r][d].picked + 1 ELSE stats[z][r][d].picked
      /\ Accuse(stats[z][r][d], row, d).realestImpressions = stats[z][r][d].realestImpressions
      /\ Accuse(stats[z][r][d], row, d).realestVotes = stats[z][r][d].realestVotes
  BY <1>1, <1>5, AccuseAdds
<1> HIDE DEF hit
<1>10. Cardinality(Accusers(z, r, d)')
         = IF hit THEN Cardinality(Accusers(z, r, d)) + 1 ELSE Cardinality(Accusers(z, r, d))
  BY <1>3, <1>6, <1>8, OneMoreIf
<1>11. QED
  BY <1>4, <1>7, <1>9, <1>10 DEF Counted

\* CastRealestVote adds one voter.
LEMMA VoterCounted ==
  ASSUME IInv, [Next]_vars, NEW z \in Puzzles, NEW r \in Rounds, NEW d \in Decoys,
         Counted(z, r, d), NEW u \in Users, <<u, z>> \in Plays, NEW chosen \in Decoys,
         round[<<u, z>>][r].vote = Null, round'[<<u, z>>][r].vote = chosen,
         OnlyRow(<<u, z>>, r), play' = play,
         stats'[z][r][d] = Elect(stats[z][r][d], d = chosen)
  PROVE  Counted(z, r, d)'
<1> DEFINE hit == d = chosen
<1>1. \A w \in Users : <<w, z>> \in Plays
  BY DEF Plays
<1>2. \A w \in Users : w # u => round'[<<w, z>>][r] = round[<<w, z>>][r]
  BY <1>1 DEF OnlyRow
<1>3. Players(z)' = Players(z) /\ Accusers(z, r, d)' = Accusers(z, r, d)
  <2>1. Players(z)' = Players(z)
    BY DEF Players, Completed
  <2>2. QED
    BY <1>1, <2>1, AccusationStays DEF Accusers, Players
<1>4. u \notin Voters(z, r) /\ Voters(z, r)' = Voters(z, r) \cup {u}
  BY <1>2, NullDistinct DEF Voters
<1>5. Electors(z, r, d)' = IF hit THEN Electors(z, r, d) \cup {u} ELSE Electors(z, r, d)
  BY <1>2, <1>4 DEF Electors, Voters
<1>6. stats[z][r][d] \in Counters /\ hit \in BOOLEAN
  BY DEF IInv, TypeOK
<1>7. Voters(z, r) \in SUBSET Users /\ Electors(z, r, d) \in SUBSET Users /\ u \notin Electors(z, r, d)
  BY <1>4 DEF Voters, Electors
<1>8. Cardinality(Voters(z, r)') = Cardinality(Voters(z, r)) + 1
  BY <1>4, <1>7, OneMore
<1> HIDE DEF hit
<1>9. Cardinality(Electors(z, r, d)')
        = IF hit THEN Cardinality(Electors(z, r, d)) + 1 ELSE Cardinality(Electors(z, r, d))
  BY <1>5, <1>6, <1>7, OneMoreIf
<1>10. stats'[z][r][d] = Elect(stats[z][r][d], hit)
  BY DEF hit
<1>11. QED
  BY <1>3, <1>6, <1>8, <1>9, <1>10, ElectAdds DEF Counted

LEMMA CountInit == Init => AllCounted
<1> SUFFICES ASSUME Init, NEW z \in Puzzles, NEW r \in Rounds, NEW d \in Decoys
             PROVE  Counted(z, r, d)
  BY DEF AllCounted
<1>1. \A u \in Users : <<u, z>> \in Plays
  BY DEF Plays
<1>2. Players(z) = {}
  BY <1>1 DEF Init, Players, Completed, NoPlay
<1>3. Voters(z, r) = {}
  BY <1>1 DEF Init, Voters, NoRow
<1>4. Accusers(z, r, d) = {} /\ Electors(z, r, d) = {}
  BY <1>2, <1>3 DEF Accusers, Electors
<1>5. stats[z][r][d] = Zero
  BY DEF Init
<1>6. QED
  BY <1>2, <1>3, <1>4, <1>5, FS_EmptySet DEF Counted, Zero

LEMMA CountedStep == IInv /\ AllCounted /\ [Next]_vars => AllCounted'
<1> SUFFICES ASSUME IInv, AllCounted, [Next]_vars,
                    NEW z \in Puzzles, NEW r \in Rounds, NEW d \in Decoys
             PROVE  Counted(z, r, d)'
  BY DEF AllCounted
<1>1. Counted(z, r, d)
  BY DEF AllCounted
<1>2. \A u \in Users : <<u, z>> \in Plays
  BY DEF Plays
<1>3. stats \in [Puzzles -> [Rounds -> [Decoys -> Counters]]]
  BY DEF IInv, TypeOK
<1>4. CASE /\ stats' = stats
           /\ \A p \in Plays : Completed(p)' <=> Completed(p)
           /\ \A p \in Plays, n \in Rounds : round'[p][n].vote = round[p][n].vote
  <2>1. \A u \in Users : Completed(<<u, z>>)' <=> Completed(<<u, z>>)
    BY <1>2, <1>4
  <2>2. \A u \in Users : round'[<<u, z>>][r].vote = round[<<u, z>>][r].vote
    BY <1>2, <1>4
  <2>3. QED
    BY <1>1, <1>4, <2>1, <2>2, NobodyCounted
<1>5. ASSUME NEW p \in Plays, ~Completed(p), AllAnswered(p),
             stats' = CountAccusations(p), round' = round,
             \A o \in Plays : Completed(o)' <=> Completed(o) \/ o = p
      PROVE  Counted(z, r, d)'
  <2>1. p[1] \in Users /\ p[2] \in Puzzles /\ p = <<p[1], p[2]>>
    BY UsersPuzzles
  <2>2. CASE p[2] = z
    <3>1. stats'[z][r][d] = Accuse(stats[z][r][d], round[p][r], d)
      BY <1>3, <1>5, <2>2 DEF CountAccusations
    <3>2. PICK u \in Users : p = <<u, z>>
      BY <2>1, <2>2
    <3>3. \A w \in Users : Completed(<<w, z>>)' <=> Completed(<<w, z>>) \/ w = u
      BY <1>2, <1>5, <3>2
    <3>4. /\ <<u, z>> \in Plays /\ ~Completed(<<u, z>>) /\ AllAnswered(<<u, z>>)
          /\ stats'[z][r][d] = Accuse(stats[z][r][d], round[<<u, z>>][r], d)
      BY <1>5, <3>1, <3>2
    <3>5. QED
      BY <1>1, <1>5, <3>3, <3>4, PlayerCounted
  <2>3. CASE p[2] # z
    <3>1. stats'[z][r][d] = stats[z][r][d]
      BY <1>3, <1>5, <2>3 DEF CountAccusations
    <3>2. \A u \in Users : <<u, z>> # p
      BY <2>1, <2>3
    <3>3. \A u \in Users : Completed(<<u, z>>)' <=> Completed(<<u, z>>)
      BY <1>2, <1>5, <3>2
    <3>4. QED
      BY <1>1, <1>5, <3>1, <3>3, NobodyCounted
  <2>4. QED
    BY <2>2, <2>3
<1>6. ASSUME NEW p \in Plays, NEW n \in Rounds, NEW e \in Decoys,
             round[p][n].vote = Null, round'[p][n].vote = e, OnlyRow(p, n),
             stats' = CountVote(p[2], n, e), play' = play
      PROVE  Counted(z, r, d)'
  <2>1. p[1] \in Users /\ p[2] \in Puzzles /\ p = <<p[1], p[2]>>
    BY UsersPuzzles
  <2>2. CASE p[2] = z /\ n = r
    <3>1. stats'[z][r][d] = Elect(stats[z][r][d], d = e)
      BY <1>3, <1>6, <2>2 DEF CountVote
    <3>2. PICK u \in Users : p = <<u, z>>
      BY <2>1, <2>2
    <3>3. /\ round[<<u, z>>][r].vote = Null /\ round'[<<u, z>>][r].vote = e
          /\ OnlyRow(<<u, z>>, r)
      BY <1>6, <2>2, <3>2
    <3>4. QED
      BY <1>1, <1>2, <1>6, <3>1, <3>3, VoterCounted
  <2>3. CASE p[2] # z \/ n # r
    <3>1. stats'[z][r][d] = stats[z][r][d]
      BY <1>3, <1>6, <2>1, <2>3 DEF CountVote
    <3>2. \A u \in Users : round'[<<u, z>>][r] = round[<<u, z>>][r]
      BY <1>2, <1>6, <2>1, <2>3 DEF OnlyRow
    <3>3. \A u \in Users : Completed(<<u, z>>)' <=> Completed(<<u, z>>)
      BY <1>6 DEF Completed
    <3>4. QED
      BY <1>1, <3>1, <3>2, <3>3, NobodyCounted
  <2>4. QED
    BY <2>2, <2>3
<1>7. QED
  BY <1>4, <1>5, <1>6, CountStep

\* For every decoy of every round of every puzzle, the counters are the number
\* of players who completed the puzzle, who took the decoy for the bot, who
\* voted in the round, and who voted for it: whatever requests overlap, are
\* repeated or fail, CompletePlay and CastRealestVote lose and repeat nothing.
THEOREM CountedExactlyOnce == Spec => []EachPlayCountedOnce
<1>1. IInv => TypeOK
  BY DEF IInv
<1>2. IInv /\ AllCounted => EachPlayCountedOnce
  BY <1>1, CountedTogether
<1>3. QED
  BY <1>2, CountInit, CountedStep, Invariance, PTL DEF Spec

-----------------------------------------------------------------------------
(***************************************************************************)
(* The labels fit the rows.  CommitGuess resolves the guess with the hint  *)
(* as loadVerified read it; a hint that was there then is still there, but *)
(* one may have been stored since.                                         *)
(***************************************************************************)

HintsStay ==
  \A q \in Reqs :
    LET x == req[q]
    IN  x.pc \in {"priorRounds", "commit"} /\ x.hint => round[x.play][x.r].hint

\* The guess and the outcome that CommitGuess stores.
LEMMA CommitWrites ==
  ASSUME TypeOK, NEW q \in Reqs, CommitGuess(q), round' # round
  PROVE  LET old == round[req[q].play][req[q].r]
             new == round'[req[q].play][req[q].r]
         IN  /\ new.slot = req[q].slot
             /\ new.outcome = Resolve(old.perm[req[q].slot] = Bot, req[q].hint)
<1>1. PICK p \in Plays, r \in Rounds : p = req[q].play /\ r = req[q].r
  <2>1. req[q] \in Request /\ req[q].pc = "commit"
    BY DEF CommitGuess, TypeOK
  <2>2. QED
    BY <2>1, RequestShape DEF GuessReq
<1> DEFINE old == round[p][r]
           o   == Resolve(old.perm[req[q].slot] = Bot, req[q].hint)
           new == [old EXCEPT !.slot = req[q].slot, !.outcome = o]
<1>2. old \in RoundRow
  BY DEF TypeOK
<1>3. round' = [round EXCEPT ![p][r] = new]
  BY <1>1 DEF CommitGuess, TypeOK
<1>4. new.slot = req[q].slot /\ new.outcome = o
  <2> HIDE DEF old, o
  <2>1. QED
    BY <1>2 DEF RoundRow
<1> HIDE DEF new, o
<1>5. round'[p][r] = new
  BY <1>3, OneRowWritten
<1>6. QED
  BY <1>1, <1>4, <1>5 DEF o

LEMMA HintsStayStep == IInv /\ HintsStay /\ [Next]_vars => HintsStay'
<1> SUFFICES ASSUME IInv, HintsStay, [Next]_vars PROVE HintsStay'
  OBVIOUS
<1> SUFFICES ASSUME NEW q \in Reqs, NEW x \in Request, x = req'[q],
                    x.pc \in {"priorRounds", "commit"}, x.hint
             PROVE  round'[x.play][x.r].hint
  <2>1. req' \in [Reqs -> Request]
    BY TypeStep DEF IInv, TypeOK
  <2>2. QED
    BY <2>1 DEF HintsStay
<1>1. x \in GuessReq /\ x.play \in Plays /\ x.r \in Rounds
  BY RequestShape DEF GuessReq
<1>2. round[x.play][x.r].hint => round'[x.play][x.r].hint
  BY <1>1, RowStep DEF IInv
<1>3. CASE x = req[q]
  BY <1>2, <1>3 DEF HintsStay
<1>4. ASSUME NEW t \in tokens, NEW s \in Slots, RequestGuess(q, t, s)
      PROVE  round[x.play][x.r].hint
  BY <1>4 DEF RequestGuess, IInv, TypeOK
<1>5. ASSUME CheckGuess(q), x # req[q]
      PROVE  round[x.play][x.r].hint
  <2>1. req[q] \in GuessReq
    BY <1>5, RequestShape DEF CheckGuess, IInv, TypeOK
  <2>2. x = [req[q] EXCEPT !.pc = "commit"]
    BY <1>5 DEF CheckGuess, Idle, IInv, TypeOK
  <2>3. x.play = req[q].play /\ x.r = req[q].r /\ x.hint = req[q].hint
    BY <2>1, <2>2 DEF GuessReq
  <2>4. QED
    BY <1>5, <2>3 DEF HintsStay, CheckGuess
<1>6. \/ x = req[q]
      \/ CheckGuess(q)
      \/ \E t \in tokens, s \in Slots : RequestGuess(q, t, s)
  <2>0. req \in [Reqs -> Request]
    BY DEF IInv, TypeOK
  <2>1. CASE req'[q] = req[q]
    BY <2>1
  <2>2. ASSUME NEW u \in Users, NEW page \in BOOLEAN, CreateOrGetPlay(q, u, page) PROVE FALSE
    BY <2>0, <2>2 DEF CreateOrGetPlay
  <2>3. ASSUME NEW t \in tokens, RequestHint(q, t) PROVE FALSE
    BY <2>0, <2>3 DEF RequestHint
  <2>4. ASSUME NEW t \in tokens, NEW s \in Slots, RequestVote(q, t, s) PROVE FALSE
    BY <2>0, <2>4 DEF RequestVote
  <2>5. ASSUME Return(q) PROVE FALSE
    BY <2>0, <2>5 DEF Return, Idle
  <2>6. ASSUME LoadOutcomes(q) PROVE FALSE
    BY <2>0, <2>6 DEF LoadOutcomes, LoadWith, Idle
  <2>7. ASSUME RecountOutcomes(q) PROVE FALSE
    BY <2>0, <2>7 DEF RecountOutcomes, RecountWith
  <2>8. ASSUME CommitGuess(q) PROVE FALSE
    BY <2>0, <2>5, <2>8 DEF CommitGuess
  <2>9. ASSUME NEW o \in Reqs, o # q, Begin(o) \/ Continue(o) \/ Cancel(o)
        PROVE  req'[q] = req[q]
    BY <2>0, <2>9
       DEF Begin, Continue, Cancel, CreateOrGetPlay, RequestHint, RequestGuess, RequestVote,
           LoadOutcomes, LoadWith, UpsertPlayRound, MarkHint, CheckGuess, CommitGuess,
           RecountOutcomes, RecountWith, CompletePlay, CastRealestVote, Return
  <2>10. \/ req'[q] = req[q]
         \/ Begin(q) \/ Continue(q) \/ Cancel(q)
    BY <2>9 DEF Next, ExpireToken, Midnight, vars
  <2>11. QED
    BY <2>1, <2>2, <2>3, <2>4, <2>5, <2>6, <2>7, <2>8, <2>10
       DEF Begin, Continue, Cancel, UpsertPlayRound, MarkHint, CompletePlay, CastRealestVote
<1>7. QED
  BY <1>2, <1>3, <1>4, <1>5, <1>6

LEMMA LabelsStep ==
  IInv /\ HintsStay /\ LabelsFitTheRow /\ [Next]_vars => LabelsFitTheRow'
<1> SUFFICES ASSUME IInv, HintsStay, LabelsFitTheRow, [Next]_vars,
                    NEW p \in Plays, NEW r \in Rounds, round'[p][r].outcome # Null
             PROVE  LET row == round'[p][r]
                    IN  /\ row.outcome = "red" <=> row.perm[row.slot] # Bot
                        /\ row.outcome = "yellow" => row.hint
  BY DEF LabelsFitTheRow
<1> DEFINE old == round[p][r]
           new == round'[p][r]
<1>1. /\ Kept(old.perm, new.perm) /\ Kept(old.outcome, new.outcome)
      /\ old.outcome # Null => new.hint = old.hint
      /\ new.outcome # old.outcome =>
           \E q \in Reqs : CommitGuess(q) /\ req[q].play = p /\ req[q].r = r
  BY RowStep DEF IInv
<1>2. CASE old.outcome # Null
  <2>1. new.outcome = old.outcome /\ new.hint = old.hint /\ new.slot = old.slot
    BY <1>1, <1>2, GuessStays DEF Kept, IInv
  <2>2. new.perm = old.perm
    BY <1>1, <1>2 DEF Kept, IInv, ColumnsAgree
  <2>3. /\ old.outcome = "red" <=> old.perm[old.slot] # Bot
        /\ old.outcome = "yellow" => old.hint
    BY <1>2 DEF LabelsFitTheRow
  <2> HIDE DEF old, new
  <2>4. QED
    BY <2>1, <2>2, <2>3 DEF new
<1>3. CASE old.outcome = Null
  <2>1. PICK q \in Reqs : CommitGuess(q) /\ req[q].play = p /\ req[q].r = r
    BY <1>1, <1>3
  <2>2. round' # round
    BY <1>3
  <2>3. /\ new.slot = req[q].slot
        /\ new.outcome = Resolve(old.perm[req[q].slot] = Bot, req[q].hint)
        /\ new.perm = old.perm /\ new.hint = old.hint
    BY <2>1, <2>2, CommitWrites, CommitStep DEF IInv
  <2>4. req[q].hint => old.hint
    BY <2>1 DEF HintsStay, CommitGuess
  <2> HIDE DEF old, new
  <2>5. QED
    BY <2>3, <2>4 DEF Resolve, new
<1>4. QED
  BY <1>2, <1>3

\* Whatever requests overlap, the label of a round agrees with the guess and
\* the permutation that are stored: red for a miss, green or yellow for a
\* catch, and yellow only where a hint is stored.
THEOREM LabelsFit == Spec => []LabelsFitTheRow
<1>1. Init => HintsStay /\ LabelsFitTheRow
  <2> SUFFICES ASSUME Init PROVE HintsStay /\ LabelsFitTheRow
    OBVIOUS
  <2>1. \A q \in Reqs : req[q].pc = "idle"
    BY DEF Init, Idle
  <2>2. \A p \in Plays, r \in Rounds : round[p][r].outcome = Null
    BY DEF Init, NoRow
  <2>3. QED
    BY <2>1, <2>2 DEF HintsStay, LabelsFitTheRow
<1>2. IInv /\ HintsStay /\ LabelsFitTheRow /\ [Next]_vars => HintsStay' /\ LabelsFitTheRow'
  BY HintsStayStep, LabelsStep
<1>3. QED
  BY <1>1, <1>2, Invariance, PTL DEF Spec
=============================================================================
