--------------------------- MODULE PlayLoopProofs ---------------------------
(***************************************************************************)
(* Theorems about the play loop, for any number of users, puzzles, rounds, *)
(* answers, concurrent requests and faults.                                *)
(***************************************************************************)
EXTENDS PlayLoop, FiniteSetTheorems, TLAPS

USE DEF HintOpen, GuessOpen, VoteOpen, Revealed, PlayOpen, StoredPerm

-----------------------------------------------------------------------------
(***************************************************************************)
(* Facts about the rules of the game.                                      *)
(***************************************************************************)
\* Counting the outcomes of a play, as every handler does, tells which round
\* comes next: the count is a round index or NRounds, it is NRounds only when
\* every round is answered, and for a prefix of the rounds it is its length.
LEMMA CountOfAnswered ==
  ASSUME NEW outs
  PROVE  /\ Cardinality(Answered(outs)) \in 0..NRounds
         /\ Cardinality(Answered(outs)) >= NRounds => Answered(outs) = Rounds
         /\ \A n \in 0..NRounds :
              Answered(outs) = 0..(n - 1) => Cardinality(Answered(outs)) = n
<1>1. NRounds \in Nat /\ NRounds - 1 \in Int
  BY SizeAssumption
<1>2. IsFiniteSet(Rounds) /\ Cardinality(Rounds) = NRounds
  BY <1>1, SizeAssumption, FS_Interval DEF Rounds
<1>3. Answered(outs) \in SUBSET Rounds
  BY DEF Answered
<1>4. /\ IsFiniteSet(Answered(outs))
      /\ Cardinality(Answered(outs)) <= NRounds
      /\ NRounds = Cardinality(Answered(outs)) => Rounds = Answered(outs)
  BY <1>2, <1>3, FS_Subset
<1>5. Cardinality(Answered(outs)) \in Nat
  BY <1>4, FS_CardinalityType
<1>6. ASSUME NEW n \in 0..NRounds, Answered(outs) = 0..(n - 1)
      PROVE  Cardinality(Answered(outs)) = n
  <2>1. n - 1 \in Int /\ (IF 0 > n - 1 THEN 0 ELSE (n - 1) - 0 + 1) = n
    BY <1>1
  <2>2. QED
    BY <2>1, <1>6, FS_Interval
<1>7. QED
  BY <1>1, <1>4, <1>5, <1>6

LEMMA NoneAnswered == NoOutcomes \in OutcomeTable /\ Answered(NoOutcomes) = {}
  BY DEF NoOutcomes, OutcomeTable, Answered

\* Dividing at most a hundred times a by a.
LEMMA PercentBound ==
  ASSUME NEW a \in Nat, a > 0, NEW c \in Nat, c <= a
  PROVE  (c * 100) \div a \in 0..100
<1>1. c * 100 \in Nat /\ c * 100 <= a * 100
  OBVIOUS
<1>2. QED
  BY <1>1, SMTT(30)

\* A score is a percentage.
LEMMA ScoreIsPercentage ==
  ASSUME NEW outs
  PROVE  ScorePct(outs) \in 0..100
<1>1. CASE Answered(outs) = {}
  BY <1>1 DEF ScorePct
<1>2. CASE Answered(outs) # {}
  <2>1. Caught(outs) \in SUBSET Answered(outs)
    BY NullAssumption DEF Caught, Answered, Outcomes
  <2>2. IsFiniteSet(Answered(outs))
    <3>1. IsFiniteSet(Rounds)
      BY SizeAssumption, FS_Interval DEF Rounds
    <3>2. QED
      BY <3>1, FS_Subset DEF Answered
  <2>3. /\ Cardinality(Answered(outs)) \in Nat
        /\ Cardinality(Answered(outs)) > 0
    BY <1>2, <2>2, FS_CardinalityType, FS_EmptySet
  <2>4. /\ Cardinality(Caught(outs)) \in Nat
        /\ Cardinality(Caught(outs)) <= Cardinality(Answered(outs))
    BY <2>1, <2>2, FS_Subset, FS_CardinalityType
  <2>5. QED
    BY <1>2, <2>3, <2>4, PercentBound DEF ScorePct
<1>3. QED
  BY <1>1, <1>2

\* A guess always resolves to an outcome.
LEMMA ResolveType ==
  ASSUME NEW correct \in BOOLEAN, NEW hintUsed \in BOOLEAN
  PROVE  Resolve(correct, hintUsed) \in Outcomes
  BY DEF Resolve, Outcomes

\* Advancing a streak gives a streak that ends at the puzzle just finished.
LEMMA AdvanceType ==
  ASSUME NEW s \in StreakRow, NEW n \in Puzzles
  PROVE  Advance(s, n) \in StreakRow
  BY SizeAssumption DEF Advance, StreakRow, Puzzles

-----------------------------------------------------------------------------
(***************************************************************************)
(* The shapes of requests and rows.                                        *)
(***************************************************************************)
\* What a request's pc says about its shape.
LEMMA RequestShape ==
  ASSUME NEW x \in Request
  PROVE  /\ x.pc = "outcomes"    => x \in LoadReq
         /\ x.pc = "open"        => x \in OpenReq
         /\ x.pc = "markHint"    => x \in HintReq
         /\ x.pc = "priorRounds" => x \in GuessReq
         /\ x.pc = "commit"      => x \in GuessReq
         /\ x.pc = "recount"     => x \in RecountReq
         /\ x.pc = "complete"    => x \in CompleteReq
         /\ x.pc = "vote"        => x \in VoteReq
  BY DEF Request, Idle, LoadReq, OpenReq, HintReq, GuessReq, RecountReq,
         CompleteReq, VoteReq

LEMMA RequestIntro ==
  /\ Idle \in Request
  /\ LoadReq \subseteq Request
  /\ OpenReq \subseteq Request
  /\ HintReq \subseteq Request
  /\ GuessReq \subseteq Request
  /\ RecountReq \subseteq Request
  /\ CompleteReq \subseteq Request
  /\ VoteReq \subseteq Request
  BY DEF Request

LEMMA OutsType ==
  ASSUME TypeOK, NEW p \in Plays
  PROVE  Outs(p) \in OutcomeTable
  BY DEF TypeOK, Outs, OutcomeTable, RoundRow

LEMMA UsersPuzzles ==
  ASSUME NEW p \in Plays
  PROVE  p[1] \in Users /\ p[2] \in Puzzles /\ p = <<p[1], p[2]>>
  BY DEF Plays

-----------------------------------------------------------------------------
(***************************************************************************)
(* Type correctness.                                                       *)
(***************************************************************************)
LEMMA TypeInit == Init => TypeOK
<1> SUFFICES ASSUME Init PROVE TypeOK
  OBVIOUS
<1>1. today \in Puzzles
  BY SizeAssumption DEF Init, Puzzles
<1>2. play \in [Plays -> PlayRow]
  BY DEF Init, PlayRow, NoPlay
<1>3. round \in [Plays -> [Rounds -> RoundRow]]
  BY DEF Init, NoRow, RoundRow
<1>4. streak \in [Users -> StreakRow]
  BY DEF Init, NoStreak, StreakRow
<1>5. stats \in [Puzzles -> [Rounds -> [Decoys -> Counters]]]
  BY DEF Init, Zero, Counters
<1>6. tokens \subseteq Token /\ req \in [Reqs -> Request] /\ faults \in 0..MaxFaults
  BY RequestIntro, BoardAssumption DEF Init
<1>7. QED
  BY <1>1, <1>2, <1>3, <1>4, <1>5, <1>6 DEF TypeOK

\* Replacing one row of a table of tables.
LEMMA RowUpdate ==
  ASSUME NEW A, NEW B, NEW R, NEW f \in [A -> [B -> R]], NEW a \in A, NEW b \in B, NEW v \in R
  PROVE  [f EXCEPT ![a][b] = v] \in [A -> [B -> R]]
  OBVIOUS

\* A statement that writes at most one play_rounds row, and writes a row there.
LEMMA RoundUpdate ==
  ASSUME TypeOK, NEW p \in Plays, NEW r \in Rounds, NEW new \in RoundRow,
         round' = round \/ round' = [round EXCEPT ![p][r] = new]
  PROVE  round' \in [Plays -> [Rounds -> RoundRow]]
<1>1. round \in [Plays -> [Rounds -> RoundRow]]
  BY DEF TypeOK
<1>2. QED
  BY <1>1

\* Updating a counter gives a counter.
LEMMA CountersType ==
  ASSUME NEW c \in Counters
  PROVE  /\ \A row, d : Accuse(c, row, d) \in Counters
         /\ \A chosen \in BOOLEAN : Elect(c, chosen) \in Counters
<1>1. ASSUME NEW i \in Nat, NEW k \in Nat
      PROVE  /\ [c EXCEPT !.impressions = i, !.picked = k] \in Counters
             /\ [c EXCEPT !.realestImpressions = i, !.realestVotes = k] \in Counters
  BY DEF Counters
<1>2. ASSUME NEW row, NEW d PROVE Accuse(c, row, d) \in Counters
  <2> DEFINE i == c.impressions + 1
             k == IF row.perm[row.slot] = d THEN c.picked + 1 ELSE c.picked
  <2>1. i \in Nat /\ k \in Nat
    BY DEF Counters
  <2>2. Accuse(c, row, d) = IF row.outcome = Null THEN c
                            ELSE [c EXCEPT !.impressions = i, !.picked = k]
    BY DEF Accuse
  <2> HIDE DEF i, k
  <2>3. QED
    BY <1>1, <2>1, <2>2
<1>3. ASSUME NEW chosen \in BOOLEAN PROVE Elect(c, chosen) \in Counters
  <2> DEFINE i == c.realestImpressions + 1
             k == IF chosen THEN c.realestVotes + 1 ELSE c.realestVotes
  <2>1. i \in Nat /\ k \in Nat
    BY DEF Counters
  <2>2. Elect(c, chosen) = [c EXCEPT !.realestImpressions = i, !.realestVotes = k]
    BY DEF Elect
  <2> HIDE DEF i, k
  <2>3. QED
    BY <1>1, <2>1, <2>2
<1>4. QED
  BY <1>2, <1>3

LEMMA StatsType ==
  ASSUME TypeOK, NEW p \in Plays, NEW r \in Rounds
  PROVE  /\ CountAccusations(p) \in [Puzzles -> [Rounds -> [Decoys -> Counters]]]
         /\ \A d : CountVote(p[2], r, d) \in [Puzzles -> [Rounds -> [Decoys -> Counters]]]
<1>1. p[2] \in Puzzles
  BY UsersPuzzles
<1>2. \A z \in Puzzles, n \in Rounds, d \in Decoys : stats[z][n][d] \in Counters
  BY DEF TypeOK
<1>3. [n \in Rounds |-> [d \in Decoys |-> Accuse(stats[p[2]][n][d], round[p][n], d)]]
        \in [Rounds -> [Decoys -> Counters]]
  BY <1>1, <1>2, CountersType
<1>4. CountAccusations(p) \in [Puzzles -> [Rounds -> [Decoys -> Counters]]]
  BY <1>1, <1>3 DEF CountAccusations, TypeOK
<1>5. ASSUME NEW d
      PROVE  CountVote(p[2], r, d) \in [Puzzles -> [Rounds -> [Decoys -> Counters]]]
  <2>1. [e \in Decoys |-> Elect(stats[p[2]][r][e], e = d)] \in [Decoys -> Counters]
    BY <1>1, <1>2, CountersType
  <2>2. QED
    BY <1>1, <2>1, RowUpdate DEF CountVote, TypeOK
<1>6. QED
  BY <1>4, <1>5

LEMMA ReturnType ==
  ASSUME req \in [Reqs -> Request], NEW q, Return(q)
  PROVE  req' \in [Reqs -> Request]
  BY RequestIntro DEF Return

LEMMA FaultType ==
  ASSUME faults \in 0..MaxFaults, Fault
  PROVE  faults' \in 0..MaxFaults
  BY BoardAssumption DEF Fault

LEMMA LoadType ==
  ASSUME TypeOK, NEW q \in Reqs, req[q].pc = "outcomes", NEW outs, LoadWith(q, outs)
  PROVE  req' \in [Reqs -> Request]
<1>1. req[q].play \in Plays
  BY RequestShape DEF TypeOK, LoadReq
<1>2. Cardinality(Answered(outs)) \in 0..NRounds
  BY CountOfAnswered
<1>3. ASSUME ~(Cardinality(Answered(outs)) >= NRounds)
      PROVE  [pc |-> "open", play |-> req[q].play, r |-> Cardinality(Answered(outs))] \in Request
  <2>1. Cardinality(Answered(outs)) \in Rounds
    BY <1>2, <1>3, SizeAssumption DEF Rounds
  <2>2. QED
    BY <1>1, <2>1, RequestIntro DEF OpenReq
<1>4. QED
  BY <1>3, RequestIntro DEF LoadWith, TypeOK

LEMMA RecountType ==
  ASSUME TypeOK, NEW q \in Reqs, req[q].pc = "recount",
         NEW outs \in OutcomeTable, RecountWith(q, outs)
  PROVE  req' \in [Reqs -> Request]
<1>1. req[q].play \in Plays
  BY RequestShape DEF TypeOK, RecountReq
<1>2. Cardinality(Answered(outs)) \in 0..NRounds
  BY CountOfAnswered
<1>3. ASSUME ~(Cardinality(Answered(outs)) >= NRounds)
      PROVE  [pc |-> "open", play |-> req[q].play, r |-> Cardinality(Answered(outs))] \in Request
  <2>1. Cardinality(Answered(outs)) \in Rounds
    BY <1>2, <1>3, SizeAssumption DEF Rounds
  <2>2. QED
    BY <1>1, <2>1, RequestIntro DEF OpenReq
<1>4. [pc |-> "complete", play |-> req[q].play, outs |-> outs] \in Request
  BY <1>1, RequestIntro DEF CompleteReq
<1>5. QED
  BY <1>3, <1>4 DEF RecountWith, TypeOK

LEMMA TypeStep == TypeOK /\ LocalsStayTrue /\ [Next]_vars => TypeOK'
<1> SUFFICES ASSUME TypeOK, LocalsStayTrue, [Next]_vars PROVE TypeOK'
  OBVIOUS
<1>1. ASSUME NEW q \in Reqs, NEW u \in Users, NEW page \in BOOLEAN, CreateOrGetPlay(q, u, page)
      PROVE  TypeOK'
  <2>1. <<u, today>> \in Plays
    BY DEF TypeOK, Plays
  <2>2. play' \in [Plays -> PlayRow]
    BY <1>1, <2>1 DEF CreateOrGetPlay, TypeOK, PlayRow, OpenPlay
  <2>3. Completed(<<u, today>>) \in BOOLEAN
    BY DEF Completed
  <2>4. [pc |-> "outcomes", play |-> <<u, today>>, page |-> page,
         completed |-> Completed(<<u, today>>)] \in Request
    BY <2>1, <2>3, RequestIntro DEF LoadReq
  <2>5. req' \in [Reqs -> Request]
    BY <1>1, <2>4 DEF CreateOrGetPlay, TypeOK
  <2>6. QED
    BY <1>1, <2>2, <2>5 DEF CreateOrGetPlay, TypeOK
<1>2. ASSUME NEW q \in Reqs, LoadOutcomes(q)
      PROVE  TypeOK'
  <2>1. req' \in [Reqs -> Request]
    BY <1>2, LoadType DEF LoadOutcomes
  <2>2. faults' \in 0..MaxFaults
    BY <1>2, FaultType DEF LoadOutcomes, TypeOK
  <2>3. QED
    BY <1>2, <2>1, <2>2 DEF LoadOutcomes, TypeOK
<1>3. ASSUME NEW q \in Reqs, UpsertPlayRound(q)
      PROVE  TypeOK'
  <2>1. req[q].play \in Plays /\ req[q].r \in Rounds
    BY <1>3, RequestShape DEF UpsertPlayRound, TypeOK, OpenReq
  <2>2. PICK fresh \in Perms :
          LET stored == IF round[req[q].play][req[q].r].perm = Null THEN fresh
                        ELSE round[req[q].play][req[q].r].perm
          IN /\ round' = [round EXCEPT ![req[q].play][req[q].r] = [@ EXCEPT !.perm = stored]]
             /\ tokens' = tokens \cup {[play |-> req[q].play, r |-> req[q].r, perm |-> stored]}
    BY <1>3 DEF UpsertPlayRound
  <2> DEFINE row == round[req[q].play][req[q].r]
             stored == IF row.perm = Null THEN fresh ELSE row.perm
  <2>7. row \in RoundRow
    BY <2>1 DEF TypeOK
  <2>8. stored \in Perms /\ [row EXCEPT !.perm = stored] \in RoundRow
    BY <2>7 DEF RoundRow
  <2> HIDE DEF stored
  <2>3. round' \in [Plays -> [Rounds -> RoundRow]]
    BY <2>1, <2>2, <2>8, RowUpdate DEF TypeOK, stored
  <2>4. tokens' \subseteq Token
    <3>1. [play |-> req[q].play, r |-> req[q].r, perm |-> stored] \in Token
      BY <2>1, <2>8 DEF Token
    <3>2. tokens' = tokens \cup {[play |-> req[q].play, r |-> req[q].r, perm |-> stored]}
      BY <2>2 DEF stored
    <3>3. tokens \subseteq Token
      BY DEF TypeOK
    <3>4. QED
      BY <3>1, <3>2, <3>3
  <2>5. req' \in [Reqs -> Request]
    BY <1>3, ReturnType DEF UpsertPlayRound, TypeOK
  <2>6. QED
    BY <1>3, <2>3, <2>4, <2>5 DEF UpsertPlayRound, TypeOK
<1>4. ASSUME NEW q \in Reqs, NEW t \in tokens, RequestHint(q, t)
      PROVE  TypeOK'
  <2>1. t.play \in Plays /\ t.r \in Rounds
    BY DEF TypeOK, Token
  <2>2. [pc |-> "markHint", play |-> t.play, r |-> t.r] \in Request
    BY <2>1, RequestIntro DEF HintReq
  <2>3. QED
    BY <1>4, <2>2 DEF RequestHint, TypeOK
<1>5. ASSUME NEW q \in Reqs, MarkHint(q)
      PROVE  TypeOK'
  <2>1. req' \in [Reqs -> Request]
    BY <1>5, ReturnType DEF MarkHint, TypeOK
  <2>2. req[q].play \in Plays /\ req[q].r \in Rounds
    <3>1. req[q] \in Request /\ req[q].pc = "markHint"
      BY <1>5 DEF MarkHint, TypeOK
    <3>2. QED
      BY <3>1, RequestShape DEF HintReq
  <2> DEFINE row == round[req[q].play][req[q].r]
             new(s) == [row EXCEPT !.hint = TRUE, !.removed = s]
  <2>3. row \in RoundRow
    BY <2>2 DEF TypeOK
  <2>4. ASSUME NEW s \in Slots PROVE new(s) \in RoundRow
    <3> HIDE DEF row
    <3>1. QED
      BY <2>3 DEF RoundRow
  <2>5. \/ round' = round
        \/ \E s \in Slots : round' = [round EXCEPT ![req[q].play][req[q].r] = new(s)]
    BY <1>5 DEF MarkHint
  <2> HIDE DEF new
  <2>6. round' \in [Plays -> [Rounds -> RoundRow]]
    <3>1. CASE round' = round
      BY <3>1 DEF TypeOK
    <3>2. CASE \E s \in Slots : round' = [round EXCEPT ![req[q].play][req[q].r] = new(s)]
      BY <2>2, <2>4, <3>2, RoundUpdate
    <3>3. QED
      BY <2>5, <3>1, <3>2
  <2>7. row.perm \in Perms
    <3>1. row.perm # Null
      BY <1>5 DEF MarkHint, LocalsStayTrue, StillTrue
    <3>2. QED
      BY <2>3, <3>1 DEF RoundRow
  <2>8. tokens' \subseteq Token
    <3>1. tokens' = tokens \/ tokens' = tokens \cup {[play |-> req[q].play, r |-> req[q].r, perm |-> row.perm]}
      BY <1>5 DEF MarkHint
    <3> HIDE DEF row
    <3>2. QED
      BY <2>2, <2>7, <3>1 DEF TypeOK, Token
  <2>9. QED
    BY <1>5, <2>1, <2>6, <2>8 DEF MarkHint, TypeOK
<1>6. ASSUME NEW q \in Reqs, NEW t \in tokens, NEW s \in Slots, RequestGuess(q, t, s)
      PROVE  TypeOK'
  <2>1. t.play \in Plays /\ t.r \in Rounds
    BY DEF TypeOK, Token
  <2>2. round[t.play][t.r] \in RoundRow
    BY <2>1 DEF TypeOK
  <2>3. [pc |-> "priorRounds", play |-> t.play, r |-> t.r, slot |-> s,
         hint |-> round[t.play][t.r].hint, removed |-> round[t.play][t.r].removed] \in Request
    BY <2>1, <2>2, RequestIntro DEF GuessReq, RoundRow
  <2>4. QED
    BY <1>6, <2>3 DEF RequestGuess, TypeOK
<1>7. ASSUME NEW q \in Reqs, CheckGuess(q)
      PROVE  TypeOK'
  <2>1. req[q] \in GuessReq
    BY <1>7, RequestShape DEF CheckGuess, TypeOK
  <2>2. [req[q] EXCEPT !.pc = "commit"] \in Request
    BY <2>1, RequestIntro DEF GuessReq
  <2>3. req' \in [Reqs -> Request]
    BY <1>7, <2>2, RequestIntro DEF CheckGuess, TypeOK
  <2>4. QED
    BY <1>7, <2>3 DEF CheckGuess, TypeOK
<1>8. ASSUME NEW q \in Reqs, CommitGuess(q)
      PROVE  TypeOK'
  <2>1. /\ req[q].play \in Plays /\ req[q].r \in Rounds
        /\ req[q].slot \in Slots /\ req[q].hint \in BOOLEAN
    BY <1>8, RequestShape DEF CommitGuess, TypeOK, GuessReq
  <2>2. [pc |-> "recount", play |-> req[q].play] \in Request
    BY <2>1, RequestIntro DEF RecountReq
  <2>3. req' \in [Reqs -> Request]
    BY <1>8, <2>2, ReturnType DEF CommitGuess, TypeOK
  <2>4. Resolve(round[req[q].play][req[q].r].perm[req[q].slot] = Bot, req[q].hint) \in Outcomes
    BY <2>1, ResolveType
  <2> DEFINE row == round[req[q].play][req[q].r]
             o   == Resolve(row.perm[req[q].slot] = Bot, req[q].hint)
             new == [row EXCEPT !.slot = req[q].slot, !.outcome = o]
  <2>7. row \in RoundRow /\ o \in Outcomes
    BY <2>1, <2>4 DEF TypeOK
  <2>8. round' = round \/ round' = [round EXCEPT ![req[q].play][req[q].r] = new]
    BY <1>8 DEF CommitGuess
  <2> HIDE DEF row, o
  <2>9. new \in RoundRow
    BY <2>1, <2>7 DEF RoundRow
  <2> HIDE DEF new
  <2>5. round' \in [Plays -> [Rounds -> RoundRow]]
    BY <2>1, <2>8, <2>9, RoundUpdate
  <2>6. QED
    BY <1>8, <2>3, <2>5 DEF CommitGuess, TypeOK
<1>9. ASSUME NEW q \in Reqs, RecountOutcomes(q)
      PROVE  TypeOK'
  <2>1. Outs(req[q].play) \in OutcomeTable
    BY <1>9, OutsType, RequestShape DEF RecountOutcomes, RecountReq, TypeOK
  <2>2. req' \in [Reqs -> Request]
    BY <1>9, <2>1, RecountType, NoneAnswered DEF RecountOutcomes
  <2>3. faults' \in 0..MaxFaults
    BY <1>9, FaultType DEF RecountOutcomes, TypeOK
  <2>4. QED
    BY <1>9, <2>2, <2>3 DEF RecountOutcomes, TypeOK
<1>10. ASSUME NEW q \in Reqs, CompletePlay(q)
       PROVE  TypeOK'
  <2>1. req[q].play \in Plays
    BY <1>10, RequestShape DEF CompletePlay, TypeOK, CompleteReq
  <2>2. req' \in [Reqs -> Request]
    BY <1>10, ReturnType DEF CompletePlay, TypeOK
  <2>3. play' \in [Plays -> PlayRow]
    BY <1>10, <2>1, ScoreIsPercentage DEF CompletePlay, TypeOK, PlayRow
  <2>4. streak' \in [Users -> StreakRow]
    <3> DEFINE u == req[q].play[1]
               new == Advance(streak[u], req[q].play[2])
    <3>1. u \in Users /\ new \in StreakRow
      BY <2>1, AdvanceType, UsersPuzzles DEF TypeOK
    <3>2. streak' = streak \/ streak' = [streak EXCEPT ![u] = new]
      BY <1>10 DEF CompletePlay
    <3> HIDE DEF u, new
    <3>3. QED
      BY <3>1, <3>2 DEF TypeOK
  <2>5. 0 \in Rounds
    BY SizeAssumption DEF Rounds
  <2>6. stats' \in [Puzzles -> [Rounds -> [Decoys -> Counters]]]
    BY <1>10, <2>1, <2>5, StatsType DEF CompletePlay, TypeOK
  <2>7. faults' \in 0..MaxFaults
    BY <1>10, FaultType DEF CompletePlay, TypeOK
  <2>8. QED
    BY <1>10, <2>2, <2>3, <2>4, <2>6, <2>7 DEF CompletePlay, TypeOK
<1>11. ASSUME NEW q \in Reqs, NEW t \in tokens, NEW s \in Slots, RequestVote(q, t, s)
       PROVE  TypeOK'
  <2>1. t.play \in Plays /\ t.r \in Rounds /\ t.perm[s] \in Answers
    BY BoardAssumption DEF TypeOK, Token
  <2>2. [pc |-> "vote", play |-> t.play, r |-> t.r, decoy |-> t.perm[s]] \in Request
    BY <1>11, <2>1, RequestIntro DEF RequestVote, VoteReq, Decoys
  <2>3. QED
    BY <1>11, <2>2 DEF RequestVote, TypeOK
<1>12. ASSUME NEW q \in Reqs, CastRealestVote(q)
       PROVE  TypeOK'
  <2>1. req[q].play \in Plays /\ req[q].r \in Rounds /\ req[q].decoy \in Decoys
    BY <1>12, RequestShape DEF CastRealestVote, TypeOK, VoteReq
  <2>2. req' \in [Reqs -> Request]
    BY <1>12, ReturnType DEF CastRealestVote, TypeOK
  <2> DEFINE row == round[req[q].play][req[q].r]
             new == [row EXCEPT !.vote = req[q].decoy]
  <2>6. row \in RoundRow
    BY <2>1 DEF TypeOK
  <2>7. round' = round \/ round' = [round EXCEPT ![req[q].play][req[q].r] = new]
    BY <1>12 DEF CastRealestVote
  <2> HIDE DEF row
  <2>8. new \in RoundRow
    BY <2>1, <2>6 DEF RoundRow
  <2> HIDE DEF new
  <2>3. round' \in [Plays -> [Rounds -> RoundRow]]
    BY <2>1, <2>7, <2>8, RoundUpdate
  <2>9. stats' = stats \/ stats' = CountVote(req[q].play[2], req[q].r, req[q].decoy)
    BY <1>12 DEF CastRealestVote
  <2>4. stats' \in [Puzzles -> [Rounds -> [Decoys -> Counters]]]
    <3>1. stats \in [Puzzles -> [Rounds -> [Decoys -> Counters]]]
      BY DEF TypeOK
    <3>2. CountVote(req[q].play[2], req[q].r, req[q].decoy)
            \in [Puzzles -> [Rounds -> [Decoys -> Counters]]]
      BY <2>1, StatsType, Zenon
    <3>3. QED
      BY <2>9, <3>1, <3>2
  <2>5. QED
    BY <1>12, <2>2, <2>3, <2>4 DEF CastRealestVote, TypeOK
<1>13. ASSUME NEW q \in Reqs, Cancel(q)
       PROVE  TypeOK'
  BY <1>13, ReturnType, FaultType DEF Cancel, TypeOK
<1>14. ASSUME NEW t \in tokens, ExpireToken(t)
       PROVE  TypeOK'
  BY <1>14 DEF ExpireToken, TypeOK
<1>15. CASE Midnight
  BY <1>15, SizeAssumption DEF Midnight, TypeOK, Puzzles
<1>16. CASE UNCHANGED vars
  BY <1>16 DEF vars, TypeOK
<1>17. QED
  BY <1>1, <1>2, <1>3, <1>4, <1>5, <1>6, <1>7, <1>8, <1>9, <1>10, <1>11, <1>12,
     <1>13, <1>14, <1>15, <1>16 DEF Next, Begin, Continue

-----------------------------------------------------------------------------
(***************************************************************************)
(* What one step does to the play_rounds rows.                             *)
(***************************************************************************)

\* The columns of a row that are written together agree.
ColumnsAgree ==
  /\ \A p \in Plays, r \in Rounds :
       LET row == round[p][r]
       IN  /\ row.slot # Null => row.outcome # Null
           /\ row.removed # Null => row.hint
           /\ row.outcome # Null => row.perm # Null
  /\ \A p \in Plays : play[p].score # Null <=> Completed(p)

\* Every row but one stays as it is.
OnlyRow(p, r) ==
  \A o \in Plays, n \in Rounds : (o # p \/ n # r) => round'[o][n] = round[o][n]

LEMMA OneRowWritten ==
  ASSUME TypeOK, NEW p \in Plays, NEW r \in Rounds, NEW new,
         round' = [round EXCEPT ![p][r] = new]
  PROVE  round'[p][r] = new /\ OnlyRow(p, r)
  BY DEF TypeOK, OnlyRow

\* The insert of openClientRound lays a permutation down where there is none.
LEMMA UpsertStep ==
  ASSUME TypeOK, NEW q \in Reqs, UpsertPlayRound(q)
  PROVE  LET p   == req[q].play
             r   == req[q].r
             old == round[p][r]
             new == round'[p][r]
         IN  /\ p \in Plays /\ r \in Rounds /\ OnlyRow(p, r)
             /\ Kept(old.perm, new.perm) /\ new.perm \in Perms
             /\ new.hint = old.hint /\ new.removed = old.removed /\ new.slot = old.slot
             /\ new.outcome = old.outcome /\ new.vote = old.vote
             /\ tokens' = tokens \cup {[play |-> p, r |-> r, perm |-> new.perm]}
<1> DEFINE p   == req[q].play
           r   == req[q].r
           old == round[p][r]
<1>1. p \in Plays /\ r \in Rounds
  <2>1. req[q] \in Request /\ req[q].pc = "open"
    BY DEF UpsertPlayRound, TypeOK
  <2>2. QED
    BY <2>1, RequestShape DEF OpenReq
<1>2. PICK fresh \in Perms :
        LET stored == IF old.perm = Null THEN fresh ELSE old.perm
        IN  /\ round' = [round EXCEPT ![p][r] = [@ EXCEPT !.perm = stored]]
            /\ tokens' = tokens \cup {[play |-> p, r |-> r, perm |-> stored]}
  BY DEF UpsertPlayRound
<1> DEFINE stored == IF old.perm = Null THEN fresh ELSE old.perm
           new    == [old EXCEPT !.perm = stored]
<1>3. old \in RoundRow
  BY <1>1 DEF TypeOK
<1>4. /\ Kept(old.perm, stored) /\ stored \in Perms
      /\ new.perm = stored /\ new.hint = old.hint /\ new.removed = old.removed
      /\ new.slot = old.slot /\ new.outcome = old.outcome /\ new.vote = old.vote
  <2> HIDE DEF old
  <2>1. stored \in Perms /\ Kept(old.perm, stored)
    BY <1>3 DEF RoundRow, Kept
  <2> HIDE DEF stored
  <2>2. QED
    BY <1>3, <2>1 DEF RoundRow
<1>5. round' = [round EXCEPT ![p][r] = new]
  BY <1>1, <1>2 DEF TypeOK
<1>6. tokens' = tokens \cup {[play |-> p, r |-> r, perm |-> stored]}
  BY <1>2
<1> HIDE DEF new, stored
<1>7. round'[p][r] = new /\ OnlyRow(p, r)
  BY <1>1, <1>5, OneRowWritten
<1>8. QED
  BY <1>1, <1>4, <1>6, <1>7

\* The hint's update touches an open round that has neither guess nor hint.
LEMMA MarkStep ==
  ASSUME TypeOK, NEW q \in Reqs, MarkHint(q), round' # round
  PROVE  LET p   == req[q].play
             r   == req[q].r
             old == round[p][r]
             new == round'[p][r]
         IN  /\ p \in Plays /\ r \in Rounds /\ OnlyRow(p, r)
             /\ old.outcome = Null /\ ~old.hint /\ new.hint
             /\ new.perm = old.perm /\ new.slot = old.slot
             /\ new.outcome = old.outcome /\ new.vote = old.vote
<1> DEFINE p   == req[q].play
           r   == req[q].r
           old == round[p][r]
<1>1. p \in Plays /\ r \in Rounds
  <2>1. req[q] \in Request /\ req[q].pc = "markHint"
    BY DEF MarkHint, TypeOK
  <2>2. QED
    BY <2>1, RequestShape DEF HintReq
<1>2. PICK s \in Slots :
        /\ old.outcome = Null /\ ~old.hint
        /\ round' = [round EXCEPT ![p][r] = [@ EXCEPT !.hint = TRUE, !.removed = s]]
  BY DEF MarkHint
<1> DEFINE new == [old EXCEPT !.hint = TRUE, !.removed = s]
<1>3. old \in RoundRow
  BY <1>1 DEF TypeOK
<1>4. /\ new.perm = old.perm /\ new.hint /\ new.slot = old.slot
      /\ new.outcome = old.outcome /\ new.vote = old.vote
  <2> HIDE DEF old
  <2>1. QED
    BY <1>3 DEF RoundRow
<1>5. round' = [round EXCEPT ![p][r] = new]
  BY <1>1, <1>2 DEF TypeOK
<1> HIDE DEF new
<1>6. round'[p][r] = new /\ OnlyRow(p, r)
  BY <1>1, <1>5, OneRowWritten
<1>7. QED
  BY <1>1, <1>2, <1>4, <1>6

\* The guess is recorded on a row that has none.
LEMMA CommitStep ==
  ASSUME TypeOK, NEW q \in Reqs, CommitGuess(q), round' # round
  PROVE  LET p   == req[q].play
             r   == req[q].r
             old == round[p][r]
             new == round'[p][r]
         IN  /\ p \in Plays /\ r \in Rounds /\ OnlyRow(p, r)
             /\ old.outcome = Null /\ new.outcome \in Outcomes
             /\ new.perm = old.perm /\ new.hint = old.hint
             /\ new.removed = old.removed /\ new.vote = old.vote
<1> DEFINE p   == req[q].play
           r   == req[q].r
           old == round[p][r]
           o   == Resolve(old.perm[req[q].slot] = Bot, req[q].hint)
           new == [old EXCEPT !.slot = req[q].slot, !.outcome = o]
<1>1. p \in Plays /\ r \in Rounds /\ req[q].hint \in BOOLEAN
  <2>1. req[q] \in Request /\ req[q].pc = "commit"
    BY DEF CommitGuess, TypeOK
  <2>2. QED
    BY <2>1, RequestShape DEF GuessReq
<1>2. old \in RoundRow /\ o \in Outcomes
  BY <1>1, ResolveType DEF TypeOK
<1>3. old.outcome = Null /\ round' = [round EXCEPT ![p][r] = new]
  BY <1>1 DEF CommitGuess, TypeOK
<1>4. /\ new.perm = old.perm /\ new.hint = old.hint /\ new.outcome = o
      /\ new.removed = old.removed /\ new.vote = old.vote
  <2> HIDE DEF old, o
  <2>1. QED
    BY <1>2 DEF RoundRow
<1> HIDE DEF new, o
<1>5. round'[p][r] = new /\ OnlyRow(p, r)
  BY <1>1, <1>3, OneRowWritten
<1>6. QED
  BY <1>1, <1>2, <1>3, <1>4, <1>5

\* The vote is stored on a row that has none.
LEMMA VoteStep ==
  ASSUME TypeOK, NEW q \in Reqs, CastRealestVote(q), round' # round
  PROVE  LET p   == req[q].play
             r   == req[q].r
             old == round[p][r]
             new == round'[p][r]
         IN  /\ p \in Plays /\ r \in Rounds /\ OnlyRow(p, r)
             /\ old.vote = Null
             /\ new.perm = old.perm /\ new.hint = old.hint /\ new.removed = old.removed
             /\ new.slot = old.slot /\ new.outcome = old.outcome
<1> DEFINE p   == req[q].play
           r   == req[q].r
           old == round[p][r]
           new == [old EXCEPT !.vote = req[q].decoy]
<1>1. p \in Plays /\ r \in Rounds
  <2>1. req[q] \in Request /\ req[q].pc = "vote"
    BY DEF CastRealestVote, TypeOK
  <2>2. QED
    BY <2>1, RequestShape DEF VoteReq
<1>2. old \in RoundRow
  BY <1>1 DEF TypeOK
<1>3. old.vote = Null /\ round' = [round EXCEPT ![p][r] = new]
  BY <1>1 DEF CastRealestVote, TypeOK
<1>4. /\ new.perm = old.perm /\ new.hint = old.hint /\ new.removed = old.removed
      /\ new.slot = old.slot /\ new.outcome = old.outcome
  <2> HIDE DEF old
  <2>1. QED
    BY <1>2 DEF RoundRow
<1> HIDE DEF new
<1>5. round'[p][r] = new /\ OnlyRow(p, r)
  BY <1>1, <1>3, OneRowWritten
<1>6. QED
  BY <1>1, <1>3, <1>4, <1>5

\* No other statement writes a row.
LEMMA RowsOtherwiseUnchanged ==
  ASSUME [Next]_vars, round' # round
  PROVE  \E q \in Reqs : \/ UpsertPlayRound(q) \/ MarkHint(q)
                         \/ CommitGuess(q) \/ CastRealestVote(q)
  BY DEF Next, Begin, Continue, CreateOrGetPlay, LoadOutcomes, RequestHint, RequestGuess,
         CheckGuess, RecountOutcomes, CompletePlay, RequestVote, Cancel, ExpireToken,
         Midnight, vars

\* What any step leaves of a row, and which statement changed what.
LEMMA RowStep ==
  ASSUME TypeOK, ColumnsAgree, LocalsStayTrue, [Next]_vars, NEW p \in Plays, NEW r \in Rounds
  PROVE  LET old == round[p][r]
             new == round'[p][r]
         IN  /\ Kept(old.perm, new.perm) /\ Kept(old.removed, new.removed)
             /\ Kept(old.slot, new.slot) /\ Kept(old.outcome, new.outcome)
             /\ Kept(old.vote, new.vote)
             /\ old.outcome # Null => new.hint = old.hint
             /\ old.hint => new.hint
             /\ new.slot # old.slot => new.outcome # Null
             /\ new.removed # old.removed => new.hint
             /\ new.outcome # old.outcome =>
                  new.perm # Null /\ \E q \in Reqs : CommitGuess(q) /\ req[q].play = p /\ req[q].r = r
             /\ new.perm # old.perm =>
                  \E q \in Reqs : UpsertPlayRound(q) /\ req[q].play = p /\ req[q].r = r
             /\ new.vote # old.vote => old.outcome # Null
<1> DEFINE old == round[p][r]
           new == round'[p][r]
<1>1. CASE new = old
  BY <1>1 DEF Kept
<1>2. ASSUME NEW q \in Reqs, UpsertPlayRound(q), new # old
      PROVE  /\ req[q].play = p /\ req[q].r = r
             /\ Kept(old.perm, new.perm)
             /\ new.hint = old.hint /\ new.removed = old.removed /\ new.slot = old.slot
             /\ new.outcome = old.outcome /\ new.vote = old.vote
  BY <1>2, UpsertStep DEF OnlyRow
<1>3. ASSUME NEW q \in Reqs, MarkHint(q), new # old
      PROVE  /\ old.outcome = Null /\ ~old.hint /\ new.hint
             /\ new.perm = old.perm /\ new.slot = old.slot
             /\ new.outcome = old.outcome /\ new.vote = old.vote
  BY <1>3, MarkStep DEF OnlyRow
<1>4. ASSUME NEW q \in Reqs, CommitGuess(q), new # old
      PROVE  /\ req[q].play = p /\ req[q].r = r
             /\ old.outcome = Null /\ new.outcome \in Outcomes
             /\ new.perm = old.perm /\ new.hint = old.hint
             /\ new.removed = old.removed /\ new.vote = old.vote /\ old.perm # Null
  <2>1. req[q].play = p /\ req[q].r = r
    BY <1>4, CommitStep DEF OnlyRow
  <2>2. old.perm # Null
    BY <1>4, <2>1 DEF LocalsStayTrue, StillTrue, CommitGuess
  <2>3. QED
    BY <1>4, <2>1, <2>2, CommitStep
<1>5. ASSUME NEW q \in Reqs, CastRealestVote(q), new # old
      PROVE  /\ old.vote = Null /\ old.outcome # Null
             /\ new.perm = old.perm /\ new.hint = old.hint /\ new.removed = old.removed
             /\ new.slot = old.slot /\ new.outcome = old.outcome
  <2>1. req[q].play = p /\ req[q].r = r
    BY <1>5, VoteStep DEF OnlyRow
  <2>2. old.outcome # Null
    BY <1>5, <2>1 DEF LocalsStayTrue, StillTrue, CastRealestVote
  <2>3. QED
    BY <1>5, <2>1, <2>2, VoteStep
<1>6. /\ old.slot # Null => old.outcome # Null
      /\ old.removed # Null => old.hint
  BY DEF ColumnsAgree
<1>7. Null \notin Outcomes
  BY NullAssumption
<1> HIDE DEF old, new
<1>8. CASE new # old
  <2>1. \E q \in Reqs : \/ UpsertPlayRound(q) \/ MarkHint(q)
                        \/ CommitGuess(q) \/ CastRealestVote(q)
    BY <1>8, RowsOtherwiseUnchanged DEF old, new
  <2>2. CASE \E q \in Reqs : UpsertPlayRound(q)
    BY <1>2, <1>8, <2>2 DEF Kept, old, new
  <2>3. CASE \E q \in Reqs : MarkHint(q)
    BY <1>3, <1>6, <1>8, <2>3 DEF Kept, old, new
  <2>4. CASE \E q \in Reqs : CommitGuess(q)
    BY <1>4, <1>6, <1>7, <1>8, <2>4 DEF Kept, old, new
  <2>5. CASE \E q \in Reqs : CastRealestVote(q)
    BY <1>5, <1>8, <2>5 DEF Kept, old, new
  <2>6. QED
    BY <2>1, <2>2, <2>3, <2>4, <2>5
<1>9. QED
  BY <1>1, <1>8 DEF old, new

\* What any step leaves of a plays row.
LEMMA PlayStep ==
  ASSUME TypeOK, [Next]_vars, NEW p \in Plays
  PROVE  \/ play'[p] = play[p]
         \/ ~Completed(p) /\ play[p].status = "absent" /\ play'[p] = OpenPlay
         \/ \E q \in Reqs : /\ CompletePlay(q) /\ req[q].play = p /\ ~Completed(p)
                            /\ play'[p] = [status |-> "completed",
                                           score |-> ScorePct(req[q].outs)]
<1>1. CASE play' = play
  BY <1>1
<1>2. ASSUME NEW q \in Reqs, NEW u \in Users, NEW page \in BOOLEAN, CreateOrGetPlay(q, u, page)
      PROVE  \/ play'[p] = play[p]
             \/ ~Completed(p) /\ play[p].status = "absent" /\ play'[p] = OpenPlay
  BY <1>2 DEF CreateOrGetPlay, TypeOK, Completed
<1>3. ASSUME NEW q \in Reqs, CompletePlay(q)
      PROVE  \/ play'[p] = play[p]
             \/ /\ req[q].play = p /\ ~Completed(p)
                /\ play'[p] = [status |-> "completed", score |-> ScorePct(req[q].outs)]
  BY <1>3 DEF CompletePlay, TypeOK, Completed
<1>4. \/ play' = play
      \/ \E q \in Reqs : CompletePlay(q)
      \/ \E q \in Reqs, u \in Users, page \in BOOLEAN : CreateOrGetPlay(q, u, page)
  BY DEF Next, Begin, Continue, LoadOutcomes, RequestHint, RequestGuess, MarkHint,
         UpsertPlayRound, CommitGuess, CastRealestVote,
         CheckGuess, RecountOutcomes, RequestVote, Cancel, ExpireToken, Midnight, vars
<1>5. QED
  BY <1>1, <1>2, <1>3, <1>4

\* Once every round of a play is answered its outcomes stay.
LEMMA AnsweredOutsStay ==
  ASSUME TypeOK, ColumnsAgree, LocalsStayTrue, [Next]_vars, NEW p \in Plays, AllAnswered(p)
  PROVE  Outs(p)' = Outs(p)
<1>1. ASSUME NEW r \in Rounds PROVE round'[p][r].outcome = round[p][r].outcome
  <2>1. round[p][r].outcome # Null
    BY DEF AllAnswered, Answered, Outs
  <2>2. QED
    BY <2>1, RowStep DEF Kept
<1>2. QED
  BY <1>1 DEF Outs

\* What a request has read stays true whatever happens.
LEMMA StaysTrue ==
  ASSUME TypeOK, ColumnsAgree, LocalsStayTrue, [Next]_vars, NEW x \in Request, StillTrue(x)
  PROVE  StillTrue(x)'
<1>1. ASSUME x.pc = "open" PROVE 0..(x.r - 1) \subseteq Answered(Outs(x.play))'
  <2>1. x.play \in Plays
    BY <1>1, RequestShape DEF OpenReq
  <2>2. 0..(x.r - 1) \subseteq Answered(Outs(x.play))
    BY <1>1 DEF StillTrue
  <2>3. \A r \in Rounds : round[x.play][r].outcome # Null => round'[x.play][r].outcome # Null
    BY <2>1, RowStep DEF Kept
  <2>4. QED
    BY <2>2, <2>3 DEF Answered, Outs
<1>2. ASSUME x.pc \in {"markHint", "priorRounds", "commit", "vote"}
      PROVE  round'[x.play][x.r].perm # Null
  <2>1. x.play \in Plays /\ x.r \in Rounds
    BY <1>2, RequestShape DEF HintReq, GuessReq, VoteReq
  <2>2. QED
    BY <1>2, <2>1, RowStep DEF Kept, StillTrue
<1>3. ASSUME x.pc = "vote" PROVE round'[x.play][x.r].outcome # Null
  <2>1. x.play \in Plays /\ x.r \in Rounds
    BY <1>3, RequestShape DEF VoteReq
  <2>2. QED
    BY <1>3, <2>1, RowStep DEF Kept, StillTrue
<1>4. ASSUME x.pc = "complete" PROVE AllAnswered(x.play)' /\ x.outs = Outs(x.play)'
  <2>1. x.play \in Plays
    BY <1>4, RequestShape DEF CompleteReq
  <2>2. AllAnswered(x.play) /\ x.outs = Outs(x.play)
    BY <1>4 DEF StillTrue
  <2>3. Outs(x.play)' = Outs(x.play)
    BY <2>1, <2>2, AnsweredOutsStay
  <2>4. QED
    BY <2>2, <2>3 DEF AllAnswered
<1>5. QED
  BY <1>1, <1>2, <1>3, <1>4 DEF StillTrue

-----------------------------------------------------------------------------
(***************************************************************************)
(* The inductive invariant.  The properties of the rows alone are not      *)
(* inductive: a guess keeps the rounds in order because of what the        *)
(* request checked before, so what the requests in flight know is part of  *)
(* it, and so are a few facts about the columns of a row.                  *)
(***************************************************************************)
IInv ==
  /\ TypeOK
  /\ ColumnsAgree
  /\ LocalsStayTrue
  /\ PlayedInOrder
  /\ TokensMatchRows
  /\ VoteAfterReveal
  /\ ScoreIsOfTheAnswers

LEMMA IInvInit == Init => IInv
<1> SUFFICES ASSUME Init PROVE IInv
  OBVIOUS
<1>1. /\ \A p \in Plays : play[p] = NoPlay
      /\ \A p \in Plays, r \in Rounds : round[p][r] = NoRow
      /\ \A q \in Reqs : req[q] = Idle
      /\ tokens = {}
  BY DEF Init
<1>2. ColumnsAgree /\ TokensMatchRows /\ VoteAfterReveal /\ LocalsStayTrue
  BY <1>1 DEF ColumnsAgree, TokensMatchRows, VoteAfterReveal, LocalsStayTrue, StillTrue,
              NoPlay, NoRow, Idle, Completed
<1>3. PlayedInOrder
  <2>1. \A p \in Plays : Answered(Outs(p)) = 0..(0 - 1) /\ Opened(p) \subseteq 0..0
    BY <1>1 DEF Answered, Outs, Opened, NoRow
  <2>2. 0 \in 0..NRounds
    BY SizeAssumption
  <2>3. QED
    BY <2>1, <2>2 DEF PlayedInOrder
<1>4. ScoreIsOfTheAnswers
  BY <1>1 DEF ScoreIsOfTheAnswers, Completed, NoPlay
<1>5. QED
  BY <1>2, <1>3, <1>4, TypeInit DEF IInv

LEMMA ColumnsStep == IInv /\ [Next]_vars => ColumnsAgree'
<1> SUFFICES ASSUME IInv, [Next]_vars PROVE ColumnsAgree'
  OBVIOUS
<1> USE DEF IInv
<1>1. ASSUME NEW p \in Plays, NEW r \in Rounds
      PROVE  /\ round'[p][r].slot # Null => round'[p][r].outcome # Null
             /\ round'[p][r].removed # Null => round'[p][r].hint
             /\ round'[p][r].outcome # Null => round'[p][r].perm # Null
  BY <1>1, RowStep DEF ColumnsAgree, Kept
<1>2. ASSUME NEW p \in Plays
      PROVE  play'[p].score # Null <=> Completed(p)'
  <2>1. \A q \in Reqs : ScorePct(req[q].outs) # Null
    BY ScoreIsPercentage, NullAssumption
  <2>2. CASE play'[p] = play[p]
    BY <2>2 DEF ColumnsAgree, Completed
  <2>3. CASE play'[p] = OpenPlay
    BY <2>3 DEF Completed, OpenPlay
  <2>4. CASE \E q \in Reqs : play'[p] = [status |-> "completed", score |-> ScorePct(req[q].outs)]
    BY <2>1, <2>4 DEF Completed
  <2>5. QED
    BY <2>2, <2>3, <2>4, PlayStep
<1>3. QED
  BY <1>1, <1>2 DEF ColumnsAgree

\* For the round to be opened the handlers take the count of the outcomes.
LEMMA CountIsNextRound ==
  ASSUME PlayedInOrder, NEW p \in Plays
  PROVE  0..(Cardinality(Answered(Outs(p))) - 1) \subseteq Answered(Outs(p))
<1>1. PICK n \in 0..NRounds : Answered(Outs(p)) = 0..(n - 1)
  BY DEF PlayedInOrder
<1>2. Cardinality(Answered(Outs(p))) = n
  BY <1>1, CountOfAnswered
<1>3. QED
  BY <1>1, <1>2

LEMMA CountOfNone == Cardinality(Answered(NoOutcomes)) = 0
  BY NoneAnswered, FS_EmptySet

LEMMA LocalsStep == IInv /\ [Next]_vars => LocalsStayTrue'
<1> SUFFICES ASSUME IInv, [Next]_vars, NEW q \in Reqs PROVE StillTrue(req[q])'
  BY DEF LocalsStayTrue
<1> USE DEF IInv
<1>1. CASE req'[q] = req[q]
  <2>1. req[q] \in Request /\ StillTrue(req[q])
    BY DEF LocalsStayTrue, TypeOK
  <2>2. QED
    BY <1>1, <2>1, StaysTrue DEF StillTrue, AllAnswered, Outs
<1>2. CASE req'[q].pc \in {"idle", "outcomes", "recount"}
  BY <1>2 DEF StillTrue
<1>3. CASE LoadOutcomes(q)
  <2>1. req[q].play \in Plays
    BY <1>3, RequestShape DEF LoadOutcomes, TypeOK, LoadReq
  <2>2. CASE req'[q] = Idle
    BY <1>2, <2>2 DEF Idle
  <2>3. PICK outs \in {Outs(req[q].play), NoOutcomes} : LoadWith(q, outs)
    BY <1>3 DEF LoadOutcomes
  <2> DEFINE n == Cardinality(Answered(outs))
  <2>4. \/ req'[q] = Idle
        \/ req'[q] = [pc |-> "open", play |-> req[q].play, r |-> n]
    BY <2>3 DEF LoadWith, TypeOK
  <2>5. 0..(n - 1) \subseteq Answered(Outs(req[q].play))
    BY <2>1, CountIsNextRound, CountOfNone
  <2>6. Outs(req[q].play)' = [r \in Rounds |-> round[req'[q].play][r].outcome]
    BY <1>3 DEF LoadOutcomes, Outs
  <2> HIDE DEF n
  <2>7. QED
    BY <2>2, <2>4, <2>5, <2>6 DEF StillTrue, Outs
<1>4. CASE RecountOutcomes(q)
  <2>1. req[q].play \in Plays
    BY <1>4, RequestShape DEF RecountOutcomes, TypeOK, RecountReq
  <2>2. PICK outs \in {Outs(req[q].play), NoOutcomes} : RecountWith(q, outs)
    BY <1>4 DEF RecountOutcomes
  <2> DEFINE n == Cardinality(Answered(outs))
  <2>3. CASE n >= NRounds
    <3>1. n # 0
      BY <2>3, SizeAssumption
    <3>2. outs = Outs(req[q].play) /\ AllAnswered(req[q].play)
      BY <2>2, <2>3, <3>1, CountOfNone, CountOfAnswered DEF AllAnswered
    <3>3. req'[q] = [pc |-> "complete", play |-> req[q].play, outs |-> outs] /\ round' = round
      BY <1>4, <2>2, <2>3 DEF RecountWith, RecountOutcomes, TypeOK
    <3>4. QED
      BY <3>2, <3>3 DEF StillTrue, AllAnswered, Outs
  <2>4. CASE ~(n >= NRounds)
    <3>1. req'[q] = [pc |-> "open", play |-> req[q].play, r |-> n] /\ round' = round
      BY <1>4, <2>2, <2>4 DEF RecountWith, RecountOutcomes, TypeOK
    <3>2. 0..(n - 1) \subseteq Answered(Outs(req[q].play))
      BY <2>1, <2>2, CountIsNextRound, CountOfNone
    <3> HIDE DEF n
    <3>3. QED
      BY <3>1, <3>2 DEF StillTrue, Outs
  <2>5. QED
    BY <2>3, <2>4
<1>5. CASE CheckGuess(q)
  <2>1. CASE req'[q] = Idle
    BY <1>2, <2>1 DEF Idle
  <2>2. CASE req'[q] = [req[q] EXCEPT !.pc = "commit"]
    <3>1. req[q] \in GuessReq
      BY <1>5, RequestShape DEF CheckGuess, TypeOK
    <3>2. req'[q].pc = "commit" /\ req'[q].play = req[q].play /\ req'[q].r = req[q].r
      BY <2>2, <3>1 DEF GuessReq
    <3>3. round[req[q].play][req[q].r].perm # Null /\ round' = round
      BY <1>5 DEF CheckGuess, LocalsStayTrue, StillTrue
    <3>4. QED
      BY <3>2, <3>3 DEF StillTrue
  <2>3. QED
    BY <1>5, <2>1, <2>2 DEF CheckGuess, TypeOK
<1>6. ASSUME NEW t \in tokens, NEW s \in Slots,
             RequestHint(q, t) \/ RequestGuess(q, t, s) \/ RequestVote(q, t, s)
      PROVE  StillTrue(req[q])'
  <2>1. round[t.play][t.r].perm # Null
    BY NullDistinct DEF TokensMatchRows, TypeOK, Token
  <2>2. /\ req'[q].pc \in {"markHint", "priorRounds", "vote"}
        /\ req'[q].play = t.play /\ req'[q].r = t.r /\ round' = round
    BY <1>6 DEF RequestHint, RequestGuess, RequestVote, TypeOK
  <2>3. req'[q].pc = "vote" => round[t.play][t.r].outcome # Null
    BY <1>6 DEF RequestHint, RequestGuess, RequestVote, TypeOK
  <2>4. QED
    BY <2>1, <2>2, <2>3 DEF StillTrue
<1>7. CASE \E t \in tokens, s \in Slots :
             RequestHint(q, t) \/ RequestGuess(q, t, s) \/ RequestVote(q, t, s)
  BY <1>6, <1>7
<1>8. Slots # {}
  BY BoardAssumption
<1>9. \/ req'[q] = req[q]
      \/ req'[q].pc \in {"idle", "outcomes", "recount"}
      \/ LoadOutcomes(q) \/ RecountOutcomes(q) \/ CheckGuess(q)
      \/ \E t \in tokens, s \in Slots :
           RequestHint(q, t) \/ RequestGuess(q, t, s) \/ RequestVote(q, t, s)
  <2>1. ASSUME NEW o \in Reqs, Begin(o) \/ Continue(o) \/ Cancel(o), o # q
        PROVE  req'[q] = req[q]
    <3>1. req \in [Reqs -> Request]
      BY DEF TypeOK
    <3>2. CASE Begin(o)
      BY <2>1, <3>1, <3>2 DEF Begin, CreateOrGetPlay, RequestHint, RequestGuess, RequestVote
    <3>3. CASE Continue(o)
      BY <2>1, <3>1, <3>3 DEF Continue, LoadOutcomes, LoadWith, UpsertPlayRound, MarkHint,
         CheckGuess, CommitGuess, RecountOutcomes, RecountWith, CompletePlay,
         CastRealestVote, Return
    <3>4. CASE Cancel(o)
      BY <2>1, <3>1, <3>4 DEF Cancel, Return
    <3>5. QED
      BY <2>1, <3>2, <3>3, <3>4
  <2>2. ASSUME NEW u \in Users, NEW page \in BOOLEAN, CreateOrGetPlay(q, u, page)
        PROVE  req'[q].pc = "outcomes"
    BY <2>2 DEF CreateOrGetPlay, TypeOK
  <2>3. ASSUME Return(q) PROVE req'[q].pc = "idle"
    BY <2>3 DEF Return, TypeOK, Idle
  <2>4. CASE CommitGuess(q)
    BY <2>3, <2>4 DEF CommitGuess, TypeOK
  <2>5. CASE Begin(q)
    BY <1>8, <2>2, <2>5 DEF Begin
  <2>6. CASE Continue(q)
    BY <2>3, <2>4, <2>6 DEF Continue, UpsertPlayRound, MarkHint, CompletePlay, CastRealestVote
  <2>7. CASE Cancel(q)
    BY <2>3, <2>7 DEF Cancel
  <2>8. CASE req' = req
    BY <2>8
  <2>9. \/ req' = req
        \/ \E o \in Reqs : Begin(o) \/ Continue(o) \/ Cancel(o)
    BY DEF Next, ExpireToken, Midnight, vars
  <2>10. QED
    BY <2>1, <2>5, <2>6, <2>7, <2>8, <2>9
<1>10. QED
  BY <1>1, <1>2, <1>3, <1>4, <1>5, <1>7, <1>9

LEMMA OrderStep == IInv /\ [Next]_vars => PlayedInOrder'
<1> SUFFICES ASSUME IInv, [Next]_vars, NEW p \in Plays
             PROVE  \E n \in 0..NRounds : /\ Answered(Outs(p)') = 0..(n - 1)
                                          /\ Opened(p)' \subseteq 0..n
  BY DEF PlayedInOrder
<1> USE DEF IInv
<1>1. PICK n \in 0..NRounds : Answered(Outs(p)) = 0..(n - 1) /\ Opened(p) \subseteq 0..n
  BY DEF PlayedInOrder
<1>2. \A r \in Rounds : r \in Nat /\ r < NRounds
  BY SizeAssumption DEF Rounds
<1>3. /\ \A r \in Rounds : r \in Answered(Outs(p)) <=> round[p][r].outcome # Null
      /\ \A r \in Rounds : r \in Opened(p) <=> round[p][r].perm # Null
      /\ \A r \in Rounds : r \in Answered(Outs(p)') <=> round'[p][r].outcome # Null
      /\ \A r \in Rounds : r \in Opened(p)' <=> round'[p][r].perm # Null
      /\ Answered(Outs(p)') \subseteq Rounds /\ Opened(p)' \subseteq Rounds
      /\ Answered(Outs(p)) \subseteq Rounds /\ Opened(p) \subseteq Rounds
  BY DEF Answered, Outs, Opened
<1>4. ASSUME NEW q \in Reqs, CommitGuess(q), req[q].play = p,
             round'[p][req[q].r].outcome # round[p][req[q].r].outcome
      PROVE  Answered(Outs(p)') = 0..((n + 1) - 1) /\ Opened(p)' \subseteq 0..(n + 1)
                /\ n + 1 \in 0..NRounds
  <2> DEFINE k == req[q].r
  <2>1. /\ k \in Rounds /\ round[p][k].outcome = Null /\ round'[p][k].outcome # Null
        /\ \A r \in Rounds : r # k => round'[p][r] = round[p][r]
        /\ round'[p][k].perm = round[p][k].perm
    BY <1>4, CommitStep, NullAssumption DEF OnlyRow
  <2>2. round[p][k].perm # Null
    BY <1>4 DEF CommitGuess, LocalsStayTrue, StillTrue
  <2> HIDE DEF k
  <2>3. k \in 0..n /\ k \notin 0..(n - 1)
    BY <1>1, <1>3, <2>1, <2>2
  <2>4. k = n
    BY <1>2, <2>1, <2>3
  <2>5. \A r \in Rounds : r \in Answered(Outs(p)') <=> r \in Answered(Outs(p)) \/ r = k
    BY <1>3, <2>1
  <2>6. \A r \in Rounds : r \in Opened(p)' <=> r \in Opened(p)
    BY <1>3, <2>1
  <2>7. Answered(Outs(p)') = Answered(Outs(p)) \cup {k} /\ Opened(p)' = Opened(p)
    BY <1>3, <2>1, <2>5, <2>6
  <2>8. n + 1 \in 0..NRounds
    BY <1>2, <2>1, <2>4, SizeAssumption
  <2>9. 0..(n - 1) \cup {n} = 0..((n + 1) - 1) /\ 0..n \subseteq 0..(n + 1)
    OBVIOUS
  <2>10. QED
    BY <1>1, <2>4, <2>7, <2>8, <2>9
<1>5. ASSUME NEW q \in Reqs, UpsertPlayRound(q), req[q].play = p
      PROVE  Answered(Outs(p)') = 0..(n - 1) /\ Opened(p)' \subseteq 0..n
  <2> DEFINE k == req[q].r
  <2>1. /\ k \in Rounds
        /\ \A r \in Rounds : r # k => round'[p][r] = round[p][r]
        /\ round'[p][k].outcome = round[p][k].outcome
    BY <1>5, UpsertStep DEF OnlyRow
  <2>2. 0..(k - 1) \subseteq 0..(n - 1)
    BY <1>1, <1>5 DEF UpsertPlayRound, LocalsStayTrue, StillTrue
  <2> HIDE DEF k
  <2>3. k \in 0..n
    BY <1>2, <2>1, <2>2
  <2>4. \A r \in Rounds : r \in Answered(Outs(p)') <=> r \in Answered(Outs(p))
    BY <1>3, <2>1
  <2>5. \A r \in Rounds : r \in Opened(p)' => r \in Opened(p) \/ r = k
    BY <1>3, <2>1
  <2>6. QED
    BY <1>1, <1>3, <2>3, <2>4, <2>5
<1>6. ASSUME \A r \in Rounds : /\ round'[p][r].outcome = round[p][r].outcome
                               /\ round'[p][r].perm = round[p][r].perm
      PROVE  Answered(Outs(p)') = 0..(n - 1) /\ Opened(p)' \subseteq 0..n
  BY <1>1, <1>3, <1>6
<1>7. \/ \A r \in Rounds : /\ round'[p][r].outcome = round[p][r].outcome
                           /\ round'[p][r].perm = round[p][r].perm
      \/ \E q \in Reqs : CommitGuess(q) /\ req[q].play = p
                         /\ round'[p][req[q].r].outcome # round[p][req[q].r].outcome
      \/ \E q \in Reqs : UpsertPlayRound(q) /\ req[q].play = p
  BY RowStep
<1>8. QED
  BY <1>1, <1>4, <1>5, <1>6, <1>7

LEMMA TokensStep == IInv /\ [Next]_vars => TokensMatchRows'
<1> SUFFICES ASSUME IInv, [Next]_vars, NEW t \in tokens'
             PROVE  round'[t.play][t.r].perm = t.perm
  BY DEF TokensMatchRows
<1> USE DEF IInv
<1>1. CASE t \in tokens
  <2>1. t.play \in Plays /\ t.r \in Rounds /\ t.perm # Null /\ round[t.play][t.r].perm = t.perm
    BY <1>1, NullDistinct DEF TokensMatchRows, TypeOK, Token
  <2>2. QED
    BY <2>1, RowStep DEF Kept
<1>2. CASE t \notin tokens
  <2>1. \/ \E q \in Reqs : UpsertPlayRound(q)
        \/ \E q \in Reqs : MarkHint(q)
    BY <1>2 DEF Next, Begin, Continue, CreateOrGetPlay, LoadOutcomes, RequestHint, RequestGuess,
         CheckGuess, CommitGuess, RecountOutcomes, CompletePlay, RequestVote, CastRealestVote,
         Cancel, ExpireToken, Midnight, vars
  <2>2. ASSUME NEW q \in Reqs, UpsertPlayRound(q)
        PROVE  round'[t.play][t.r].perm = t.perm
    BY <1>2, <2>2, UpsertStep
  <2>3. ASSUME NEW q \in Reqs, MarkHint(q)
        PROVE  round'[t.play][t.r].perm = t.perm
    <3>1. tokens' = tokens \cup {[play |-> req[q].play, r |-> req[q].r,
                                    perm |-> round[req[q].play][req[q].r].perm]}
      BY <1>2, <2>3 DEF MarkHint
    <3>2. /\ t.play = req[q].play /\ t.r = req[q].r
          /\ t.perm = round[req[q].play][req[q].r].perm
      BY <1>2, <3>1
    <3>3. round' # round => round'[t.play][t.r].perm = t.perm
      BY <2>3, <3>2, MarkStep
    <3>4. QED
      BY <3>2, <3>3
  <2>4. QED
    BY <2>1, <2>2, <2>3
<1>3. QED
  BY <1>1, <1>2

LEMMA RevealStep == IInv /\ [Next]_vars => VoteAfterReveal'
  BY RowStep DEF IInv, VoteAfterReveal, Kept

LEMMA ScoreStep == IInv /\ [Next]_vars => ScoreIsOfTheAnswers'
<1> SUFFICES ASSUME IInv, [Next]_vars, NEW p \in Plays, Completed(p)'
             PROVE  AllAnswered(p)' /\ play'[p].score = ScorePct(Outs(p)')
  BY DEF ScoreIsOfTheAnswers
<1> USE DEF IInv
<1>1. CASE play'[p] = play[p]
  <2>1. Completed(p)
    BY <1>1 DEF Completed
  <2>2. AllAnswered(p) /\ play[p].score = ScorePct(Outs(p))
    BY <2>1 DEF ScoreIsOfTheAnswers
  <2>3. Outs(p)' = Outs(p)
    BY <2>2, AnsweredOutsStay
  <2>4. QED
    BY <1>1, <2>2, <2>3 DEF AllAnswered
<1>2. ASSUME NEW q \in Reqs, CompletePlay(q), req[q].play = p,
             play'[p] = [status |-> "completed", score |-> ScorePct(req[q].outs)]
      PROVE  AllAnswered(p)' /\ play'[p].score = ScorePct(Outs(p)')
  <2>1. AllAnswered(p) /\ req[q].outs = Outs(p)
    BY <1>2 DEF CompletePlay, LocalsStayTrue, StillTrue
  <2>2. Outs(p)' = Outs(p)
    BY <2>1, AnsweredOutsStay
  <2>3. QED
    BY <1>2, <2>1, <2>2 DEF AllAnswered
<1>3. play'[p] # OpenPlay
  BY DEF OpenPlay, Completed
<1>4. QED
  BY <1>1, <1>2, <1>3, PlayStep

LEMMA IInvStep == IInv /\ [Next]_vars => IInv'
<1> SUFFICES ASSUME IInv, [Next]_vars PROVE IInv'
  OBVIOUS
<1>1. TypeOK'
  BY TypeStep DEF IInv
<1>2. QED
  BY <1>1, ColumnsStep, LocalsStep, OrderStep, TokensStep, RevealStep, ScoreStep DEF IInv

-----------------------------------------------------------------------------
(***************************************************************************)
(* Theorems.                                                               *)
(***************************************************************************)

LEMMA Invariance == Spec => []IInv
  BY IInvInit, IInvStep, PTL DEF Spec

\* The rows, the tokens and what the requests have read always have the types
\* the schema and the handlers give them.
THEOREM TypeCorrect == Spec => []TypeOK
<1>1. IInv => TypeOK
  BY DEF IInv
<1>2. QED
  BY <1>1, Invariance, PTL

\* Whatever requests overlap, the rounds of a play are answered in order and
\* only the next one is open.
THEOREM RoundsInOrder == Spec => []PlayedInOrder
<1>1. IInv => PlayedInOrder
  BY DEF IInv
<1>2. QED
  BY <1>1, Invariance, PTL

\* What a handler read and relies on has not become false by the time it is
\* used, although no statement locks anything for the next.
THEOREM ReadsStayTrue == Spec => []LocalsStayTrue
<1>1. IInv => LocalsStayTrue
  BY DEF IInv
<1>2. QED
  BY <1>1, Invariance, PTL

\* A completed play has every round answered and the score of those answers.
THEOREM ScoreIsRight == Spec => []ScoreIsOfTheAnswers
<1>1. IInv => ScoreIsOfTheAnswers
  BY DEF IInv
<1>2. QED
  BY <1>1, Invariance, PTL

\* No token a client holds is ever refused for a permutation that drifted.
THEOREM NoPermDrift == Spec => []TokensMatchRows
<1>1. IInv => TokensMatchRows
  BY DEF IInv
<1>2. QED
  BY <1>1, Invariance, PTL

\* No vote is recorded for a round whose bot has not been revealed.
THEOREM VotesFollowReveals == Spec => []VoteAfterReveal
<1>1. IInv => VoteAfterReveal
  BY DEF IInv
<1>2. QED
  BY <1>1, Invariance, PTL

\* No step changes a stored permutation, hint, guess, vote or final score.
THEOREM NeverRewritten == Spec => NothingRewritten
<1>1. ASSUME IInv, [Next]_vars, NEW p \in Plays, Completed(p)
      PROVE  play'[p] = play[p]
  BY <1>1, PlayStep DEF IInv
<1>2. ASSUME IInv, [Next]_vars, NEW p \in Plays, NEW r \in Rounds
      PROVE  LET old == round[p][r]
                 new == round'[p][r]
             IN  /\ Kept(old.perm, new.perm)
                 /\ Kept(old.removed, new.removed)
                 /\ Kept(old.slot, new.slot) /\ Kept(old.outcome, new.outcome)
                 /\ Kept(old.vote, new.vote)
                 /\ old.outcome # Null => new.hint = old.hint
  BY <1>2, RowStep DEF IInv
<1>3. IInv /\ [Next]_vars =>
        [\A p \in Plays :
           /\ \A r \in Rounds :
                LET old == round[p][r]
                    new == round'[p][r]
                IN  /\ Kept(old.perm, new.perm)
                    /\ Kept(old.removed, new.removed)
                    /\ Kept(old.slot, new.slot) /\ Kept(old.outcome, new.outcome)
                    /\ Kept(old.vote, new.vote)
                    /\ old.outcome # Null => new.hint = old.hint
           /\ Completed(p) => play'[p] = play[p]]_<<play, round>>
  BY <1>1, <1>2
<1>4. QED
  BY <1>3, Invariance, PTL DEF Spec, NothingRewritten
=============================================================================
