---------------------------- MODULE PuzzlesRounds ----------------------------
(***************************************************************************)
(* What commands that overlap do to the rounds of a puzzle, on top of the  *)
(* invariant of PuzzlesProofs: their answers and their order, a puzzle     *)
(* with plays, and a command that runs alone.                              *)
(***************************************************************************)
EXTENDS PuzzlesProofs

-----------------------------------------------------------------------------
(***************************************************************************)
(* Rounds and the lines in them.                                           *)
(***************************************************************************)
\* A command between the prompt of a round and its answers, ...
Between(c, id, i) == c.pc = "answers" /\ c.id = id /\ Min(DOMAIN c.plan) = i

\* ... and one about to put a line into answers that are still there.
Swapping(c, id, i, edition) ==
  /\ c.pc = "override" /\ c.line.in # None
  /\ c.id = id /\ c.line.i = i /\ c.line.edition = edition

SameAim(c, d) == d.pc = c.pc /\ d.id = c.id /\ d.plan = c.plan /\ d.line = c.line

OverridesRow(o, id, i) ==
  /\ OverrideAnswerContent(o) \/ OverrideAnswerText(o)
  /\ op[o].line.i = i /\ op[o].line.edition = round[id][i].edition
  /\ round'[id][i].prompt = round[id][i].prompt
  /\ round'[id][i].edition = round[id][i].edition
  /\ \/ round'[id][i].lines = round[id][i].lines
     \/ /\ op[o].line.in \in Lines /\ "overridden" \in marks'[id]
        /\ round'[id][i].lines = [round[id][i].lines EXCEPT ![op[o].line.slot] = op[o].line.in]

\* What wrote a round of a puzzle that stays.
LEMMA RowWriters ==
  ASSUME Typed, NumbersDiffer, [Next]_vars, NEW id \in Ids, NEW i \in Indices,
         puzzle'[id] # Gone, round'[id][i] # round[id][i]
  PROVE  \E o \in Ops :
           /\ op[o].id = id /\ op[o] \in CommandRow
           /\ \/ InsertPuzzleRound(o) /\ NextIndex(o) = i
              \/ ReplaceRoundAnswers(o) /\ NextIndex(o) = i
              \/ OverridesRow(o, id, i)
<1>1. PICK o \in Ops : \/ InsertPuzzleRound(o) \/ ReplaceRoundAnswers(o)
                       \/ OverrideAnswerContent(o) \/ OverrideAnswerText(o)
                       \/ DeleteDailyPuzzle(o) \/ DeleteDailyPuzzleAndPlays(o)
  BY RoundsMove
<1>2. CASE InsertPuzzleRound(o)
  <2>1. /\ op[o] \in CommandRow
        /\ \A d \in Ids, j \in Indices : d # op[o].id \/ j # NextIndex(o) => round'[d][j] = round[d][j]
    BY <1>2, InsertRoundWrites DEF OnlyRound
  <2>2. QED
    BY <1>2, <2>1
<1>3. CASE ReplaceRoundAnswers(o)
  <2>1. /\ op[o] \in CommandRow
        /\ \A d \in Ids, j \in Indices : d # op[o].id \/ j # NextIndex(o) => round'[d][j] = round[d][j]
    BY <1>3, ReplaceWrites DEF OnlyRound
  <2>2. QED
    BY <1>3, <2>1
<1>4. CASE OverrideAnswerContent(o) \/ OverrideAnswerText(o)
  <2>1. op[o] \in CommandRow /\ op[o].id = id /\ op[o].line.i = i
    BY <1>4, OverrideWrites DEF OnlyRound
  <2>2. /\ op[o].line.edition = round[id][i].edition
        /\ round'[id][i].prompt = round[id][i].prompt
        /\ round'[id][i].edition = round[id][i].edition
        /\ \/ round'[id][i].lines = round[id][i].lines
           \/ /\ op[o].line.in \in Lines /\ Mark(id, Edited(id) \cup {"overridden"})
              /\ round'[id][i].lines =
                   [round[id][i].lines EXCEPT ![op[o].line.slot] = op[o].line.in]
    BY <1>4, <2>1, OverrideWrites
  <2>3. Mark(id, Edited(id) \cup {"overridden"}) => "overridden" \in marks'[id]
    BY DEF Mark, Typed, TypeOK
  <2>4. QED
    BY <1>4, <2>1, <2>2, <2>3 DEF OverridesRow
<1>5. CASE DeleteDailyPuzzle(o) \/ DeleteDailyPuzzleAndPlays(o)
  <2>1. PICK d \in Present : /\ d \in Ids /\ puzzle' = [puzzle EXCEPT ![d] = Gone]
                             /\ round' = [round EXCEPT ![d] = EmptyBundle]
    BY <1>5, RemoveWrites
  <2>2. QED
    BY <2>1 DEF Typed, TypeOK
<1>6. QED
  BY <1>1, <1>2, <1>3, <1>4, <1>5

\* How a command comes to be about to write the lines of a round.
LEMMA Aiming ==
  ASSUME Typed, NumbersDiffer, [Next]_vars, NEW p \in Ops, op'[p].pc \in {"answers", "override"}
  PROVE  \/ op[p] \in CommandRow /\ SameAim(op[p], op'[p])
         \/ InsertPuzzleRound(p) /\ op'[p].pc = "answers"
         \/ /\ LocateAnswer(p) /\ op'[p].pc = "override" /\ op'[p].id \in Present
            /\ op'[p].line.edition = round[op'[p].id][op'[p].line.i].edition
            /\ \/ op'[p].line.in # None =>
                    PromptOf[op'[p].line.in] = round[op'[p].id][op'[p].line.i].prompt
               \/ "torn" \in marks'[op'[p].id]
            /\ UNCHANGED <<puzzle, round>>
<1>1. ASSUME op[p].pc \in {"answers", "override"}, op'[p] = op[p]
      PROVE  op[p] \in CommandRow /\ SameAim(op[p], op'[p])
  BY <1>1, IdleFields, CommandFields DEF SameAim, Typed
<1>2. ASSUME NEW o \in Ops, Start(o)
      PROVE  op[p] \in CommandRow /\ SameAim(op[p], op'[p])
  <2>1. PICK c : Opening(c) /\ Begin(o, c)
    BY <1>2, StartStep DEF Typed
  <2>2. c \in CommandRow
    BY <2>1 DEF Opening
  <2>3. /\ SameLocals(op'[o], c) /\ UNCHANGED <<puzzle, round, marks>>
        /\ \A other \in Ops \ {o} :
             \/ op'[other] = Idle
             \/ op[other] \in CommandRow /\ SameLocals(op'[other], op[other])
    BY <2>1, <2>2, BeginStep DEF Typed
  <2>4. CASE p = o
    <3>1. op'[o].pc = c.pc
      BY <2>3 DEF SameLocals
    <3>2. QED
      BY <2>1, <2>4, <3>1 DEF Opening
  <2>5. CASE p # o
    <3>1. op'[p] # Idle
      BY IdleFields
    <3>2. QED
      BY <2>3, <2>5, <3>1 DEF SameLocals, SameAim
  <2>6. QED
    BY <2>4, <2>5
<1>3. ASSUME NEW o \in Ops, Statement(o) \/ Die(o)
      PROVE  \/ op[p] \in CommandRow /\ SameAim(op[p], op'[p])
             \/ InsertPuzzleRound(p) /\ op'[p].pc = "answers"
             \/ /\ LocateAnswer(p) /\ op'[p].pc = "override" /\ op'[p].id \in Present
                /\ op'[p].line.edition = round[op'[p].id][op'[p].line.i].edition
                /\ \/ op'[p].line.in # None =>
                        PromptOf[op'[p].line.in] = round[op'[p].id][op'[p].line.i].prompt
                   \/ "torn" \in marks'[op'[p].id]
                /\ UNCHANGED <<puzzle, round>>
  <2>1. op[o] \in CommandRow /\ \A other \in Ops \ {o} : op'[other] = op[other]
    BY <1>3, StatementStep DEF Typed
  <2>2. CASE p # o
    BY <1>1, <2>1, <2>2
  <2>3. CASE p = o
    <3>1. op'[o] # Idle /\ op'[o].pc \notin {"date", "insert", "round", "evict", "locate"}
      BY <2>3, IdleFields
    <3>2. ~InsertDailyPuzzle(o)
      <4>1. ASSUME InsertDailyPuzzle(o) PROVE op'[o] = Idle \/ op'[o].pc = "round"
        BY <4>1, InsertPuzzleWrites
      <4>2. QED
        BY <3>1, <4>1
    <3>3. ~ReplaceRoundAnswers(o)
      BY <3>1, ReplaceGoesOn
    <3>4. ~(OverrideAnswerContent(o) \/ OverrideAnswerText(o))
      BY <3>1, OverrideWrites
    <3>5. ~UpdateDailyPuzzle(o)
      BY <3>1, UpdateWrites
    <3>6. ~(DeleteDailyPuzzle(o) \/ DeleteDailyPuzzleAndPlays(o))
      <4>1. ASSUME DeleteDailyPuzzle(o) \/ DeleteDailyPuzzleAndPlays(o)
            PROVE  op'[o] = Idle \/ op'[o] = [op[o] EXCEPT !.pc = "insert"]
        BY <4>1, RemoveWrites
      <4>2. op'[o] = [op[o] EXCEPT !.pc = "insert"] => op'[o].pc = "insert"
        BY <2>1 DEF CommandRow
      <4>3. QED
        BY <3>1, <4>1, <4>2
    <3>7. ~(\/ ReadNumber(o) \/ ReadDate(o) \/ RejectPicks(o) \/ RefusedByForeignKey(o)
            \/ InvalidateRoundsBundle(o) \/ Die(o))
      BY <3>1, QuietGoesOn
    <3>8. CASE LocateAnswer(o)
      BY <2>3, <3>1, <3>8, LocateGoesOn
    <3>9. CASE InsertPuzzleRound(o)
      BY <2>3, <3>9, InsertRoundWrites
    <3>10. ~CheckPlays(o)
      BY <3>1, CheckGoesOn
    <3>11. QED
      BY <1>3, <3>2, <3>3, <3>4, <3>5, <3>6, <3>7, <3>8, <3>9, <3>10 DEF Statement
  <2>4. QED
    BY <2>2, <2>3
<1>4. ASSUME NEW q \in Readers, CreateOrGetPlay(q)
      PROVE  op[p] \in CommandRow /\ SameAim(op[p], op'[p])
  <2>1. \/ op[p] = Idle /\ op'[p] = Idle
        \/ op[p] \in CommandRow /\ SameButLate(op'[p], op[p])
    BY <1>4, CreateWrites, Zenon
  <2>2. QED
    BY <2>1, IdleFields DEF SameButLate, SameAim
<1>5. ASSUME UNCHANGED op PROVE op[p] \in CommandRow /\ SameAim(op[p], op'[p])
  BY <1>1, <1>5
<1>6. QED
  BY <1>2, <1>3, <1>4, <1>5
     DEF Next, vars, Page, LoadRoundsBundle, SetBundle, Expire, Midnight

\* A command that has written a prompt goes on to the answers, or says so.
LEMMA Leaving ==
  ASSUME Typed, NumbersDiffer, [Next]_vars, NEW p \in Ops, op[p].pc = "answers",
         op[p].id \in Present, "torn" \notin marks'[op[p].id]
  PROVE  SameAim(op[p], op'[p]) \/ ReplaceRoundAnswers(p)
<1>1. op[p] \in CommandRow
  BY IdleFields, CommandFields DEF Typed
<1>2. ASSUME NEW o \in Ops, Start(o) PROVE SameAim(op[p], op'[p])
  <2>1. PICK c : Opening(c) /\ Begin(o, c)
    BY <1>2, StartStep DEF Typed
  <2>2. c \in CommandRow
    BY <2>1 DEF Opening
  <2>3. p # o /\ op[p] # Idle
    BY <1>1, <2>1, <2>2, BeginStep, IdleFields DEF Typed
  <2>4. SameLocals(op'[p], op[p])
    BY <2>1, <2>2, <2>3, BeginStep DEF Typed
  <2>5. QED
    BY <2>4 DEF SameLocals, SameAim
<1>3. ASSUME NEW o \in Ops, Statement(o) \/ Die(o)
      PROVE  SameAim(op[p], op'[p]) \/ ReplaceRoundAnswers(p)
  <2>1. op[o] \in CommandRow /\ \A other \in Ops \ {o} : op'[other] = op[other]
    BY <1>3, StatementStep DEF Typed
  <2>2. CASE p # o
    BY <2>1, <2>2 DEF SameAim
  <2>3. CASE p = o
    <3>1. \/ ReplaceRoundAnswers(o) \/ RejectPicks(o) \/ Die(o) \/ RefusedByForeignKey(o)
      BY <1>3, <2>3
         DEF Statement, ReadNumber, ReadDate, InsertDailyPuzzle, InsertPuzzleRound,
             UpdateDailyPuzzle, CheckPlays, LocateAnswer, OverrideAnswerContent, OverrideAnswerText,
             DeleteDailyPuzzle, DeleteDailyPuzzleAndPlays, InvalidateRoundsBundle
    <3>2. ~RefusedByForeignKey(o)
      BY <2>3 DEF RefusedByForeignKey
    <3>3. ASSUME Mark(op[o].id, {"torn"}) PROVE FALSE
      <4>1. op[o].id \in Ids
        BY <2>3 DEF Present
      <4>2. QED
        BY <2>3, <3>3, <4>1 DEF Mark, Typed, TypeOK
    <3>4. ~RejectPicks(o) /\ ~Die(o)
      BY <2>3, <3>3 DEF RejectPicks, Die
    <3>5. QED
      BY <2>3, <3>1, <3>2, <3>4
  <2>4. QED
    BY <2>2, <2>3
<1>4. ASSUME NEW q \in Readers, CreateOrGetPlay(q) PROVE SameAim(op[p], op'[p])
  <2>1. \/ op[p] = Idle /\ op'[p] = Idle
        \/ op[p] \in CommandRow /\ SameButLate(op'[p], op[p])
    BY <1>4, CreateWrites, Zenon
  <2>2. QED
    BY <1>1, <2>1, IdleFields DEF SameButLate, SameAim
<1>5. ASSUME UNCHANGED op PROVE SameAim(op[p], op'[p])
  BY <1>5 DEF SameAim
<1>6. QED
  BY <1>2, <1>3, <1>4, <1>5
     DEF Next, vars, Page, LoadRoundsBundle, SetBundle, Expire, Midnight

\* The answers of a round are a bot and decoys, or the operator's choice.
BotsFit ==
  \A id \in Present, i \in Indices :
    \/ "overridden" \in marks[id] \/ round[id][i].lines = NoAnswers
    \/ \E p \in Prompts : round[id][i].lines \in ComposeRoundAnswers(p)

\* A puzzle that was not there has empty rounds.
LEMMA NewPuzzle ==
  ASSUME Typed, NumbersDiffer, RowsFit, [Next]_vars,
         NEW id \in Ids, id \notin Present, puzzle'[id] # Gone
  PROVE  puzzle[id] = Absent /\ round[id] = EmptyBundle /\ round'[id] = EmptyBundle
<1>1. puzzle[id] = Absent
  <2>1. puzzle[id] \in PuzzleRow \cup {Absent, Gone} /\ puzzle[id] # Gone
    BY RowsStay DEF Typed, TypeOK
  <2>2. puzzle[id] \notin PuzzleRow
    BY DEF Present, PuzzleRow
  <2>3. QED
    BY <2>1, <2>2
<1>2. round[id] = EmptyBundle /\ ~(plays[id] > 0)
  BY <1>1 DEF RowsFit
<1>3. QED
  BY <1>1, <1>2, EditsAreMarked

LEMMA BotsFitStep ==
  ASSUME Typed, NumbersDiffer, RowsFit, BotsFit, [Next]_vars
  PROVE  BotsFit'
<1> SUFFICES ASSUME NEW id \in Ids, id \in Present', NEW i \in Indices,
                    "overridden" \notin marks'[id]
             PROVE  \/ round'[id][i].lines = NoAnswers
                    \/ \E p \in Prompts : round'[id][i].lines \in ComposeRoundAnswers(p)
  BY DEF BotsFit, Present, ComposeRoundAnswers, PickApprovedBots, PickApprovedDecoys
<1>1. puzzle'[id] # Gone /\ "overridden" \notin marks[id]
  BY MarksStay DEF Present, Gone
<1>2. CASE id \notin Present
  BY <1>1, <1>2, NewPuzzle DEF EmptyBundle, NoRound
<1>3. CASE id \in Present /\ round'[id][i] = round[id][i]
  BY <1>1, <1>3 DEF BotsFit
<1>4. CASE id \in Present /\ round'[id][i] # round[id][i]
  <2>1. PICK o \in Ops :
           /\ op[o].id = id /\ op[o] \in CommandRow
           /\ \/ InsertPuzzleRound(o) /\ NextIndex(o) = i
              \/ ReplaceRoundAnswers(o) /\ NextIndex(o) = i
              \/ OverridesRow(o, id, i)
    BY <1>1, <1>4, RowWriters
  <2>2. CASE InsertPuzzleRound(o) /\ NextIndex(o) = i
    <3>1. round'[id][i].lines = round[id][i].lines
      BY <2>1, <2>2, InsertRoundWrites
    <3>2. QED
      BY <1>1, <1>4, <3>1 DEF BotsFit
  <2>3. CASE ReplaceRoundAnswers(o) /\ NextIndex(o) = i
    BY <2>1, <2>3, ReplaceWrites
  <2>4. CASE OverridesRow(o, id, i)
    BY <1>1, <1>4, <2>4 DEF BotsFit, OverridesRow
  <2>5. QED
    BY <2>1, <2>2, <2>3, <2>4
<1>5. QED
  BY <1>2, <1>3, <1>4

LEMMA BotsFitInit == Init => BotsFit
<1> SUFFICES ASSUME Init, NEW id \in Present, NEW i \in Indices
             PROVE  \/ round[id][i].lines = NoAnswers
                    \/ \E p \in Prompts : round[id][i].lines \in ComposeRoundAnswers(p)
  BY DEF BotsFit
<1>1. CASE round = [d \in Ids |-> EmptyBundle]
  BY <1>1 DEF EmptyBundle, NoRound, Present
<1>2. CASE \E built \in Built : round = [d \in Ids |-> IF d = 1 THEN built ELSE EmptyBundle]
  <2>1. PICK built \in Built : round = [d \in Ids |-> IF d = 1 THEN built ELSE EmptyBundle]
    BY <1>2
  <2>2. built[i].prompt \in Prompts /\ built[i].lines \in ComposeRoundAnswers(built[i].prompt)
    BY BuiltAssumption
  <2>3. CASE id = 1
    BY <2>1, <2>2, <2>3 DEF Present
  <2>4. CASE id # 1
    BY <2>1, <2>4 DEF EmptyBundle, NoRound, Present
  <2>5. QED
    BY <2>3, <2>4
<1>3. QED
  BY <1>1, <1>2 DEF Init

-----------------------------------------------------------------------------
(***************************************************************************)
(* A round's lines and its prompt.                                         *)
(***************************************************************************)
Fits(id, i) ==
  \A s \in DOMAIN round[id][i].lines : PromptOf[round[id][i].lines[s]] = round[id][i].prompt

\* One command at a time is between a round's prompt and its answers, and
\* knows the prompt; if none is, then the answers fit, and so does every line
\* about to be put among them.
PromptsFit ==
  \A id \in Present, i \in Indices : "torn" \notin marks[id] =>
    /\ \A o \in Ops : Between(op[o], id, i) =>
         /\ op[o].plan[i] = round[id][i].prompt
         /\ \A other \in Ops : Between(op[other], id, i) => other = o
    /\ \/ \E o \in Ops : Between(op[o], id, i)
       \/ /\ Fits(id, i)
          /\ \A o \in Ops : Swapping(op[o], id, i, round[id][i].edition) =>
                              PromptOf[op[o].line.in] = round[id][i].prompt

\* No command has seen answers that are yet to come.
EditionsFit ==
  \A o \in Ops : op[o].pc = "override" /\ op[o].id \in Present =>
    op[o].line.edition <= round[op[o].id][op[o].line.i].edition

LEMMA ComposedFits ==
  ASSUME NEW p \in Prompts, NEW lines \in ComposeRoundAnswers(p)
  PROVE  \A s \in DOMAIN lines : PromptOf[lines[s]] = p
<1>1. lines \in [Slots -> PickApprovedBots(p) \cup PickApprovedDecoys(p)]
  BY DEF ComposeRoundAnswers
<1>2. QED
  BY <1>1 DEF PickApprovedBots, PickApprovedDecoys

LEMMA EditionsFitStep ==
  ASSUME Typed, NumbersDiffer, EditionsFit, [Next]_vars
  PROVE  EditionsFit'
<1>1. ASSUME NEW o \in Ops, op'[o].pc = "override", op'[o].id \in Ids, op'[o].id \in Present'
      PROVE  op'[o].line.edition <= round'[op'[o].id][op'[o].line.i].edition
  <2> DEFINE id == op'[o].id
             i  == op'[o].line.i
  <2>1. puzzle'[id] # Gone /\ puzzle[id] # Gone
    <3>1. puzzle'[id] # Gone
      BY <1>1 DEF Present, Gone
    <3>2. QED
      BY <1>1, <3>1, RowsStay
  <2>2. i \in Indices /\ op'[o].line.edition \in Nat
    <3>1. op'[o] \in CommandRow \cup {Idle}
      BY TypeStep DEF TypeOK
    <3>2. op'[o] \in CommandRow
      BY <1>1, <3>1, IdleFields
    <3>3. QED
      BY <3>2 DEF CommandRow
  <2>3. op'[o].line.edition <= round[id][i].edition
    <3>1. CASE op[o] \in CommandRow /\ SameAim(op[o], op'[o])
      <4>1. op[o].pc = "override" /\ op[o].id = id /\ op[o].line = op'[o].line
        BY <1>1, <3>1 DEF SameAim
      <4>2. id \in Present
        <5>1. puzzle[id] \in PuzzleRow \cup {Absent, Gone} /\ puzzle[id] # Absent
          BY <1>1, <4>1 DEF Typed, TypeOK, CommandsFit
        <5>2. QED
          BY <1>1, <2>1, <5>1 DEF Present, PuzzleRow
      <4>3. QED
        BY <4>1, <4>2 DEF EditionsFit
    <3>2. CASE op'[o].line.edition = round[id][i].edition
      BY <2>2, <3>2
    <3>3. QED
      BY <1>1, <3>1, <3>2, Aiming
  <2>4. round[id][i].edition \in Nat
    BY <1>1, <2>2, RoundFields DEF Typed
  <2>5. round'[id][i].edition = round[id][i].edition \/ round'[id][i].edition = round[id][i].edition + 1
    <3>1. CASE round'[id][i] # round[id][i]
      <4>1. PICK p \in Ops : /\ op[p].id = id
                             /\ \/ InsertPuzzleRound(p) /\ NextIndex(p) = i
                                \/ ReplaceRoundAnswers(p) /\ NextIndex(p) = i
                                \/ OverridesRow(p, id, i)
        <5> HIDE DEF id, i
        <5>1. id \in Ids
          BY <1>1 DEF id
        <5>2. QED
          BY <2>1, <2>2, <3>1, <5>1, RowWriters
      <4>2. CASE InsertPuzzleRound(p) /\ NextIndex(p) = i
        <5>1. round'[op[p].id][NextIndex(p)].edition = round[op[p].id][NextIndex(p)].edition
          BY <4>2, InsertRoundWrites
        <5>2. QED
          BY <4>1, <4>2, <5>1
      <4>3. CASE ReplaceRoundAnswers(p) /\ NextIndex(p) = i
        BY <4>1, <4>3, ReplaceWrites
      <4>4. QED
        BY <4>1, <4>2, <4>3 DEF OverridesRow
    <3>2. QED
      BY <3>1
  <2> HIDE DEF id, i
  <2>6. op'[o].line.edition <= round'[id][i].edition
    BY <2>2, <2>3, <2>4, <2>5
  <2>7. QED
    BY <2>6 DEF id, i
<1>2. QED
  BY <1>1 DEF EditionsFit, Present

LEMMA PromptsFitStep ==
  ASSUME Typed, NumbersDiffer, RowsFit, PromptsFit, EditionsFit, [Next]_vars
  PROVE  PromptsFit'
<1> SUFFICES ASSUME NEW id \in Ids, id \in Present', NEW i \in Indices, "torn" \notin marks'[id]
             PROVE  /\ \A o \in Ops : Between(op'[o], id, i) =>
                         /\ op'[o].plan[i] = round'[id][i].prompt
                         /\ \A other \in Ops : Between(op'[other], id, i) => other = o
                    /\ \/ \E o \in Ops : Between(op'[o], id, i)
                       \/ /\ Fits(id, i)'
                          /\ \A o \in Ops : Swapping(op'[o], id, i, round'[id][i].edition) =>
                                              PromptOf[op'[o].line.in] = round'[id][i].prompt
  BY DEF PromptsFit, Present, Between, Swapping, Fits
<1>1. puzzle'[id] # Gone /\ "torn" \notin marks[id]
  BY MarksStay DEF Present, Gone
<1> DEFINE Fit == \A s \in DOMAIN round'[id][i].lines :
                    PromptOf[round'[id][i].lines[s]] = round'[id][i].prompt
<1>2. ASSUME Fit, \A o \in Ops : ~Between(op'[o], id, i),
             \A o \in Ops : Swapping(op'[o], id, i, round'[id][i].edition) =>
                              PromptOf[op'[o].line.in] = round'[id][i].prompt
      PROVE  /\ \A o \in Ops : Between(op'[o], id, i) =>
                  /\ op'[o].plan[i] = round'[id][i].prompt
                  /\ \A other \in Ops : Between(op'[other], id, i) => other = o
             /\ \/ \E o \in Ops : Between(op'[o], id, i)
                \/ /\ Fits(id, i)'
                   /\ \A o \in Ops : Swapping(op'[o], id, i, round'[id][i].edition) =>
                                       PromptOf[op'[o].line.in] = round'[id][i].prompt
  BY <1>2 DEF Fits
<1> HIDE DEF Fit
<1>3. ASSUME NEW p \in Ops, Between(op'[p], id, i)
      PROVE  \/ Between(op[p], id, i) /\ op'[p].plan = op[p].plan
             \/ InsertPuzzleRound(p) /\ op[p].id = id /\ NextIndex(p) = i
                /\ op'[p].plan = op[p].plan
  <2>1. CASE op[p] \in CommandRow /\ SameAim(op[p], op'[p])
    BY <1>3, <2>1 DEF SameAim, Between
  <2>2. CASE InsertPuzzleRound(p)
    <3>1. op'[p].id = op[p].id /\ op'[p].plan = op[p].plan
      BY <2>2, InsertRoundWrites
    <3>2. QED
      BY <1>3, <2>2, <3>1 DEF Between, NextIndex
  <2>3. QED
    BY <1>3, <2>1, <2>2, Aiming DEF Between
<1>4. ASSUME NEW p \in Ops, Swapping(op'[p], id, i, round'[id][i].edition)
      PROVE  \/ /\ op[p] \in CommandRow /\ SameAim(op[p], op'[p])
                /\ Swapping(op[p], id, i, round'[id][i].edition)
             \/ /\ id \in Present /\ round' = round /\ puzzle' = puzzle
                /\ PromptOf[op'[p].line.in] = round[id][i].prompt
  <2>1. CASE op[p] \in CommandRow /\ SameAim(op[p], op'[p])
    BY <1>4, <2>1 DEF SameAim, Swapping
  <2>2. QED
    BY <1>4, <2>1, Aiming DEF Swapping
<1>5. CASE id \notin Present
  <2>1. puzzle[id] = Absent /\ round'[id] = EmptyBundle
    BY <1>1, <1>5, NewPuzzle
  <2>2. round'[id][i].lines = NoAnswers
    BY <2>1 DEF EmptyBundle, NoRound
  <2>3. Fit
    BY <2>2 DEF NoAnswers, Fit
  <2>4. \A p \in Ops : op[p].pc \in {"round", "answers", "override"} => op[p].id # id
    BY <2>1 DEF Typed, CommandsFit
  <2>5. \A o \in Ops : ~Between(op'[o], id, i)
    BY <1>3, <2>4 DEF Between, InsertPuzzleRound
  <2>6. \A o \in Ops : ~Swapping(op'[o], id, i, round'[id][i].edition)
    BY <1>4, <1>5, <2>4 DEF Swapping
  <2>7. QED
    BY <1>2, <2>3, <2>5, <2>6
<1>6. CASE id \in Present /\ \E o \in Ops : InsertPuzzleRound(o) /\ op[o].id = id /\ NextIndex(o) = i
  <2>1. PICK o \in Ops : InsertPuzzleRound(o) /\ op[o].id = id /\ NextIndex(o) = i
    BY <1>6
  <2>2. /\ op'[o].pc = "answers" /\ op'[o].id = id /\ op'[o].plan = op[o].plan
        /\ round'[id][i].prompt = op[o].plan[i]
    BY <2>1, InsertRoundWrites
  <2>3. Between(op'[o], id, i)
    BY <2>1, <2>2 DEF Between, NextIndex
  <2>4. ~\E other \in Ops \ {o} : Rewriting(other, id, i)
    <3>1. ASSUME \E other \in Ops \ {o} : Rewriting(other, id, i) PROVE FALSE
      <4>1. Mark(id, Edited(id) \cup {"torn"} \cup (IF op[o].verb = "set-round" THEN {"patched"} ELSE {}))
        BY <2>1, <3>1 DEF InsertPuzzleRound
      <4>2. "torn" \in marks'[id]
        BY <4>1 DEF Mark, Typed, TypeOK
      <4>3. QED
        BY <4>2
    <3>2. QED
      BY <3>1
  <2>5. \A other \in Ops \ {o} : op'[other] = op[other]
    BY <2>1, StatementStep DEF Statement, Typed
  <2>6. \A other \in Ops : Between(op'[other], id, i) => other = o
    BY <2>4, <2>5 DEF Between, Rewriting, NextIndex
  <2>7. QED
    BY <2>2, <2>3, <2>6
<1>7. CASE id \in Present /\ \E o \in Ops : ReplaceRoundAnswers(o) /\ op[o].id = id /\ NextIndex(o) = i
  <2>1. PICK o \in Ops : ReplaceRoundAnswers(o) /\ op[o].id = id /\ NextIndex(o) = i
    BY <1>7
  <2>2. /\ op[o].pc = "answers" /\ op[o].plan[i] \in Prompts
        /\ round'[id][i].prompt = round[id][i].prompt
        /\ round'[id][i].lines \in ComposeRoundAnswers(op[o].plan[i])
        /\ round'[id][i].edition = round[id][i].edition + 1
    BY <2>1, ReplaceWrites
  <2>3. Between(op[o], id, i)
    BY <2>1, <2>2 DEF Between, NextIndex
  <2>4. /\ op[o].plan[i] = round[id][i].prompt
        /\ \A other \in Ops : Between(op[other], id, i) => other = o
    BY <1>1, <1>7, <2>3 DEF PromptsFit
  <2>5. Fit
    BY <2>2, <2>4, ComposedFits DEF Fit
  <2>6. op'[o].pc # "answers" /\ op'[o].pc # "override"
    BY <2>1, ReplaceGoesOn, IdleFields
  <2>7. \A other \in Ops \ {o} : op'[other] = op[other]
    BY <2>1, StatementStep DEF Statement, Typed
  <2>8. \A p \in Ops : ~Between(op'[p], id, i)
    BY <2>4, <2>6, <2>7 DEF Between
  <2>9. round[id][i].edition \in Nat
    BY RoundFields DEF Typed
  <2>10. ASSUME NEW p \in Ops, Swapping(op'[p], id, i, round'[id][i].edition) PROVE FALSE
    <3>1. op[p] = op'[p]
      BY <2>6, <2>7, <2>10 DEF Swapping
    <3>2. op[p].line.edition = round[id][i].edition + 1 /\ op[p].line.edition <= round[id][i].edition
      BY <1>7, <2>2, <2>10, <3>1 DEF Swapping, EditionsFit
    <3>3. QED
      BY <2>9, <3>2
  <2>11. QED
    BY <1>2, <2>5, <2>8, <2>10
<1>8. CASE /\ id \in Present
           /\ ~\E o \in Ops : InsertPuzzleRound(o) /\ op[o].id = id /\ NextIndex(o) = i
           /\ ~\E o \in Ops : ReplaceRoundAnswers(o) /\ op[o].id = id /\ NextIndex(o) = i
  <2>1. /\ round'[id][i].prompt = round[id][i].prompt
        /\ round'[id][i].edition = round[id][i].edition
        /\ \/ round'[id][i].lines = round[id][i].lines
           \/ \E o \in Ops :
                /\ Swapping(op[o], id, i, round[id][i].edition)
                /\ round'[id][i].lines = [round[id][i].lines EXCEPT ![op[o].line.slot] = op[o].line.in]
    <3>1. CASE round'[id][i] = round[id][i]
      BY <3>1
    <3>2. CASE round'[id][i] # round[id][i]
      <4>1. PICK o \in Ops : op[o].id = id /\ op[o] \in CommandRow /\ OverridesRow(o, id, i)
        BY <1>1, <1>8, <3>2, RowWriters
      <4>2. op[o].pc = "override"
        BY <4>1 DEF OverridesRow, OverrideAnswerContent, OverrideAnswerText
      <4>3. op[o].line.in \in Lines => op[o].line.in # None
        BY Sizes
      <4>4. QED
        BY <4>1, <4>2, <4>3 DEF OverridesRow, Swapping
    <3>3. QED
      BY <3>1, <3>2
  <2>2. \A p \in Ops : Between(op'[p], id, i) => Between(op[p], id, i) /\ op'[p].plan = op[p].plan
    BY <1>3, <1>8
  <2>3. ASSUME NEW p \in Ops, Between(op[p], id, i) PROVE Between(op'[p], id, i)
    <3>1. op[p].pc = "answers" /\ op[p].id = id
      BY <2>3 DEF Between
    <3>2. ~ReplaceRoundAnswers(p)
      BY <1>8, <2>3, <3>1 DEF Between, NextIndex
    <3>3. SameAim(op[p], op'[p])
      BY <1>8, <3>1, <3>2, Leaving
    <3>4. QED
      BY <2>3, <3>3 DEF SameAim, Between
  <2>4. /\ \A o \in Ops : Between(op[o], id, i) =>
             /\ op[o].plan[i] = round[id][i].prompt
             /\ \A other \in Ops : Between(op[other], id, i) => other = o
        /\ \/ \E o \in Ops : Between(op[o], id, i)
           \/ /\ Fits(id, i)
              /\ \A o \in Ops : Swapping(op[o], id, i, round[id][i].edition) =>
                                  PromptOf[op[o].line.in] = round[id][i].prompt
    BY <1>1, <1>8 DEF PromptsFit
  <2>5. CASE \E o \in Ops : Between(op[o], id, i)
    BY <2>1, <2>2, <2>3, <2>4, <2>5
  <2>6. CASE ~\E o \in Ops : Between(op[o], id, i)
    <3>1. /\ Fits(id, i)
          /\ \A o \in Ops : Swapping(op[o], id, i, round[id][i].edition) =>
                              PromptOf[op[o].line.in] = round[id][i].prompt
      BY <2>4, <2>6
    <3>2. Fit
      <4>1. CASE round'[id][i].lines = round[id][i].lines
        BY <2>1, <3>1, <4>1 DEF Fit, Fits
      <4>2. ASSUME NEW o \in Ops, Swapping(op[o], id, i, round[id][i].edition),
                   round'[id][i].lines = [round[id][i].lines EXCEPT ![op[o].line.slot] = op[o].line.in]
            PROVE  Fit
        <5>1. PromptOf[op[o].line.in] = round[id][i].prompt
          BY <3>1, <4>2
        <5>2. round[id][i].lines \in [Slots -> Lines] \cup {NoAnswers}
          BY RoundFields DEF Typed
        <5>3. DOMAIN round'[id][i].lines = DOMAIN round[id][i].lines
          BY <4>2, <5>2 DEF NoAnswers
        <5>4. \A s \in DOMAIN round[id][i].lines :
                round'[id][i].lines[s] \in {round[id][i].lines[s], op[o].line.in}
          BY <4>2, <5>2 DEF NoAnswers
        <5>5. QED
          BY <2>1, <3>1, <5>1, <5>3, <5>4 DEF Fit, Fits
      <4>3. QED
        BY <2>1, <4>1, <4>2
    <3>3. \A o \in Ops : ~Between(op'[o], id, i)
      BY <2>2, <2>6
    <3>4. ASSUME NEW p \in Ops, Swapping(op'[p], id, i, round'[id][i].edition)
          PROVE  PromptOf[op'[p].line.in] = round'[id][i].prompt
      <4>1. CASE SameAim(op[p], op'[p]) /\ Swapping(op[p], id, i, round'[id][i].edition)
        BY <2>1, <3>1, <4>1 DEF SameAim
      <4>2. QED
        BY <1>4, <2>1, <3>4, <4>1
    <3>5. QED
      BY <1>2, <3>2, <3>3, <3>4
  <2>7. QED
    BY <2>5, <2>6
<1>9. QED
  BY <1>5, <1>6, <1>7, <1>8

LEMMA PromptsFitInit == Init => PromptsFit /\ EditionsFit
<1> SUFFICES ASSUME Init PROVE PromptsFit /\ EditionsFit
  OBVIOUS
<1>1. \A o \in Ops : op[o] = Idle
  BY DEF Init
<1>2. \A o \in Ops : op[o].pc = "idle"
  BY <1>1, IdleFields
<1>3. ASSUME NEW id \in Present, NEW i \in Indices PROVE Fits(id, i)
  <2>1. CASE round = [d \in Ids |-> EmptyBundle]
    BY <2>1 DEF Fits, EmptyBundle, NoRound, NoAnswers, Present
  <2>2. CASE \E built \in Built : round = [d \in Ids |-> IF d = 1 THEN built ELSE EmptyBundle]
    <3>1. PICK built \in Built : round = [d \in Ids |-> IF d = 1 THEN built ELSE EmptyBundle]
      BY <2>2
    <3>2. built[i].prompt \in Prompts /\ built[i].lines \in ComposeRoundAnswers(built[i].prompt)
      BY BuiltAssumption
    <3>3. CASE id = 1
      BY <3>1, <3>2, <3>3, ComposedFits DEF Present, Fits
    <3>4. CASE id # 1
      BY <3>1, <3>4 DEF Fits, EmptyBundle, NoRound, NoAnswers, Present
    <3>5. QED
      BY <3>3, <3>4
  <2>3. QED
    BY <2>1, <2>2 DEF Init
<1>4. QED
  BY <1>2, <1>3 DEF PromptsFit, EditionsFit, Between, Swapping

-----------------------------------------------------------------------------
(***************************************************************************)
(* A puzzle with plays.                                                    *)
(***************************************************************************)
\* What a statement makes of its command when the command goes on.
LEMMA CommandStep ==
  ASSUME Typed, NEW o \in Ops, Statement(o) \/ Die(o), op'[o] # Idle
  PROVE  /\ op[o] \in CommandRow /\ op'[o] \in CommandRow /\ GoesOn(op[o], op'[o])
         /\ \/ /\ op[o].pc = "number" /\ op'[o].pc \in {"date", "insert"}
               /\ op'[o].number = NextPuzzleNumber /\ op'[o].plan = op[o].plan
               /\ UNCHANGED <<puzzle, round, plays>>
            \/ /\ op[o].pc = "date" /\ op'[o].pc \in {"date", "insert"}
               /\ op'[o].number = op[o].number /\ op'[o].plan = op[o].plan
               /\ UNCHANGED <<puzzle, round, plays>>
            \/ InsertDailyPuzzle(o)
            \/ InsertPuzzleRound(o)
            \/ ReplaceRoundAnswers(o)
            \/ CheckPlays(o) /\ op'[o].pc = "locate" /\ plays[op'[o].id] = 0
            \/ /\ LocateAnswer(o) /\ op[o].pc = "locate" /\ op'[o].pc = "override"
               /\ op'[o].id = op[o].id
            \/ /\ DeleteDailyPuzzleAndPlays(o) /\ op[o].pc = "destroy" /\ op'[o].pc = "insert"
               /\ op'[o].number = op[o].number /\ op'[o].plan = op[o].plan
<1>1. op[o] \in CommandRow /\ op'[o] \in CommandRow /\ GoesOn(op[o], op'[o])
  BY StatementStep DEF Typed
<1>2. ASSUME OverrideAnswerContent(o) \/ OverrideAnswerText(o) PROVE FALSE
  BY <1>2, OverrideWrites
<1>3. ASSUME UpdateDailyPuzzle(o) PROVE FALSE
  BY <1>3, UpdateWrites
<1>4. ASSUME DeleteDailyPuzzle(o) PROVE FALSE
  BY <1>4 DEF DeleteDailyPuzzle, Finish, Typed, TypeOK
<1>5. CASE DeleteDailyPuzzleAndPlays(o)
  <2>1. op[o].pc = "destroy" /\ op'[o] = [op[o] EXCEPT !.pc = "insert"]
    BY <1>1, <1>5 DEF DeleteDailyPuzzleAndPlays, Goto, Typed, TypeOK
  <2>2. op'[o].pc = "insert" /\ op'[o].number = op[o].number /\ op'[o].plan = op[o].plan
    BY <1>1, <2>1 DEF CommandRow
  <2>3. QED
    BY <1>1, <1>5, <2>1, <2>2
<1>6. CASE \/ ReadNumber(o) \/ ReadDate(o) \/ RejectPicks(o) \/ RefusedByForeignKey(o)
           \/ InvalidateRoundsBundle(o) \/ Die(o)
  <2>1. UNCHANGED <<puzzle, round, plays>>
    BY <1>6 DEF ReadNumber, ReadDate, RejectPicks, RefusedByForeignKey, InvalidateRoundsBundle, Die
  <2>2. QED
    BY <1>1, <1>6, <2>1, QuietGoesOn
<1>7. CASE LocateAnswer(o)
  BY <1>1, <1>7, LocateGoesOn
<1>8. CASE CheckPlays(o)
  BY <1>1, <1>8, CheckGoesOn
<1>9. QED
  BY <1>1, <1>2, <1>3, <1>4, <1>5, <1>6, <1>7, <1>8 DEF Statement

\* A puzzle that has plays after a step was there before it.
LEMMA OldPlays ==
  ASSUME Typed, NumbersDiffer, RowsFit, [Next]_vars, NEW id \in Ids, plays'[id] > 0
  PROVE  /\ plays[id] > 0 \/ \E q \in Readers : CreateOrGetPlay(q) /\ plays' # plays
         /\ id \in Present /\ puzzle'[id].state = "present"
         /\ puzzle'[id].number = puzzle[id].number
<1>1. /\ plays[id] > 0 \/ \E q \in Readers : CreateOrGetPlay(q) /\ plays' # plays
      /\ id \in Present
  <2>1. CASE plays[id] > 0
    BY <2>1 DEF RowsFit
  <2>2. CASE ~(plays[id] > 0)
    <3>1. ASSUME NEW o \in Ops, DeleteDailyPuzzle(o) \/ DeleteDailyPuzzleAndPlays(o) PROVE FALSE
      <4>1. PICK d \in Present : /\ d \in Ids
                                 /\ plays' = plays \/ plays' = [plays EXCEPT ![d] = 0]
        BY <3>1, RemoveWrites
      <4>2. QED
        BY <2>2, <4>1 DEF Typed, TypeOK
    <3>2. ASSUME NEW o \in Ops, Start(o) PROVE plays' = plays
      BY <3>2, StartStep, BeginStep DEF Typed, Opening
    <3>3. ASSUME NEW o \in Ops, Statement(o) \/ Die(o) PROVE FALSE
      <4>1. plays' = plays
        BY <3>1, <3>3
           DEF Statement, ReadNumber, ReadDate, InsertDailyPuzzle, InsertPuzzleRound,
               ReplaceRoundAnswers, RejectPicks, RefusedByForeignKey, UpdateDailyPuzzle,
               CheckPlays, LocateAnswer, OverrideAnswerContent, OverrideAnswerText, InvalidateRoundsBundle, Die
      <4>2. QED
        BY <2>2, <4>1
    <3>4. PICK q \in Readers : CreateOrGetPlay(q)
      BY <2>2, <3>2, <3>3
         DEF Next, vars, Page, LoadRoundsBundle, SetBundle, Expire, Midnight
    <3>5. PICK d \in Present : d \in Ids /\ \A e \in Ids : e # d => plays'[e] = plays[e]
      BY <3>4, CreateWrites
    <3>6. d = id
      BY <2>2, <3>5
    <3>7. QED
      BY <2>2, <3>4, <3>5, <3>6
  <2>3. QED
    BY <2>1, <2>2
<1>2. puzzle'[id].state = "present"
  BY PlaysStay DEF RowsFit, Present
<1>3. puzzle'[id].number = puzzle[id].number
  <2>1. ASSUME NEW o \in Ops, InsertDailyPuzzle(o) PROVE puzzle'[id].number = puzzle[id].number
    <3>1. PICK d \in Ids :
            /\ puzzle'[d] = [state |-> "present", number |-> op[o].number, date |-> op[o].date]
            /\ \A e \in Ids : e # d => puzzle'[e] = puzzle[e]
            /\ (d \in Present /\ puzzle[d].number = op[o].number) \/ puzzle[d] = Absent
      BY <2>1, InsertPuzzleWrites
    <3>2. CASE d = id
      <4>1. puzzle[id] # Absent
        BY <1>1 DEF Present, Absent
      <4>2. QED
        BY <3>1, <3>2, <4>1
    <3>3. CASE d # id
      BY <3>1, <3>3
    <3>4. QED
      BY <3>2, <3>3
  <2>2. ASSUME NEW o \in Ops, UpdateDailyPuzzle(o) PROVE puzzle'[id].number = puzzle[id].number
    <3>1. PICK d \in Present : /\ d \in Ids /\ puzzle'[d].number = puzzle[d].number
                               /\ \A e \in Ids : e # d => puzzle'[e] = puzzle[e]
      BY <2>2, UpdateWrites
    <3>2. QED
      BY <3>1
  <2>3. ASSUME NEW o \in Ops, DeleteDailyPuzzle(o) \/ DeleteDailyPuzzleAndPlays(o)
        PROVE  puzzle'[id].number = puzzle[id].number
    <3>1. PICK d \in Present : d \in Ids /\ puzzle' = [puzzle EXCEPT ![d] = Gone]
      BY <2>3, RemoveWrites
    <3>2. d # id
      BY <1>2, <3>1 DEF Typed, TypeOK, Gone
    <3>3. QED
      BY <3>1, <3>2 DEF Typed, TypeOK
  <2>4. QED
    BY <2>1, <2>2, <2>3, PuzzleWriters
<1>4. QED
  BY <1>1, <1>2, <1>3

\* The puzzle whose row or rounds a command is about to write.
Targets(c, id, row) ==
  \/ c.pc \in {"round", "answers", "locate", "override"} /\ c.id = id
  \/ c.pc \in {"date", "insert", "update", "delete"} /\ row.state = "present" /\ row.number = c.number

\* The check a command made holds until a play is created.
LateFit ==
  \A o \in Ops, id \in Ids :
    op[o] \in CommandRow /\ op[o].verb \notin Careless /\ ~op[o].late /\ plays[id] > 0 =>
      ~Targets(op[o], id, puzzle[id])

LEMMA LateFitStep ==
  ASSUME Typed, NumbersDiffer, RowsFit, LateFit, [Next]_vars
  PROVE  LateFit'
<1> SUFFICES ASSUME NEW p \in Ops, NEW id \in Ids, op'[p] \in CommandRow,
                    op'[p].verb \notin Careless, ~op'[p].late, plays'[id] > 0,
                    Targets(op'[p], id, puzzle'[id])
             PROVE  FALSE
  BY DEF LateFit, Targets
<1>1. /\ plays[id] > 0 \/ \E q \in Readers : CreateOrGetPlay(q) /\ plays' # plays
      /\ id \in Present /\ puzzle'[id].state = "present" /\ puzzle'[id].number = puzzle[id].number
      /\ puzzle[id].state = "present"
  BY OldPlays DEF Present
<1>2. ASSUME op[p] \in CommandRow, op[p].verb = op'[p].verb, op[p].late = op'[p].late,
             plays[id] > 0, Targets(op[p], id, puzzle[id])
      PROVE  FALSE
  BY <1>2 DEF LateFit
<1>3. ASSUME op[p] \in CommandRow, op[p].verb = op'[p].verb, op[p].late = op'[p].late,
             plays[id] > 0,
             op[p].pc = op'[p].pc, op[p].id = op'[p].id, op[p].number = op'[p].number
      PROVE  FALSE
  BY <1>1, <1>2, <1>3 DEF Targets
<1>4. ASSUME NEW q \in Readers, CreateOrGetPlay(q) PROVE FALSE
  <2>1. /\ op[p] \in CommandRow /\ SameButLate(op'[p], op[p])
        /\ op'[p].late <=> op[p].late \/ plays' # plays
    <3>1. \/ op[p] = Idle /\ op'[p] = Idle
          \/ /\ op[p] \in CommandRow /\ SameButLate(op'[p], op[p])
             /\ op'[p].late <=> op[p].late \/ plays' # plays
      BY <1>4, CreateWrites, Zenon
    <3>2. QED
      BY <3>1, IdleFields
  <2>2. plays' = plays /\ ~op[p].late
    BY <2>1
  <2>3. op[p].late \in BOOLEAN /\ op'[p].late \in BOOLEAN
    BY <2>1 DEF CommandRow
  <2>4. QED
    BY <1>3, <2>1, <2>2, <2>3 DEF SameButLate
<1>5. ASSUME plays[id] > 0, op'[p] = op[p] PROVE FALSE
  BY <1>3, <1>5
<1>6. ASSUME NEW o \in Ops, Start(o), plays[id] > 0 PROVE FALSE
  <2>1. PICK c : Opening(c) /\ Begin(o, c)
    BY <1>6, StartStep DEF Typed
  <2>2. c \in CommandRow
    BY <2>1 DEF Opening
  <2>3. /\ SameLocals(op'[o], c) /\ UNCHANGED <<puzzle, plays>>
        /\ \A other \in Ops \ {o} :
             \/ op'[other] = Idle
             \/ op[other] \in CommandRow /\ SameLocals(op'[other], op[other])
    BY <2>1, <2>2, BeginStep DEF Typed
  <2>4. CASE p = o
    <3>1. /\ c.verb \notin Careless /\ Targets(c, id, puzzle[id])
      BY <2>3, <2>4 DEF SameLocals, Targets
    <3>2. plays[id] # 0
      BY <1>6
    <3>3. c.pc \in {"insert", "update", "delete"} => puzzle[id].number # c.number
      BY <1>1, <2>1, <3>1, <3>2 DEF Opening
    <3>4. c.pc = "round" => c.id # id
      BY <2>1, <3>1, <3>2 DEF Opening
    <3>5. c.pc \notin {"answers", "locate", "override", "date"}
      BY <2>1 DEF Opening
    <3>6. QED
      BY <3>1, <3>3, <3>4, <3>5 DEF Targets
  <2>5. CASE p # o
    <3>1. op[p] \in CommandRow /\ SameLocals(op'[p], op[p])
      BY <2>3, <2>5, IdleFields
    <3>2. QED
      BY <1>3, <1>6, <3>1 DEF SameLocals
  <2>6. QED
    BY <2>4, <2>5
<1>7. ASSUME NEW o \in Ops, Statement(o) \/ Die(o), plays[id] > 0 PROVE FALSE
  <2>1. CASE p # o
    BY <1>5, <1>7, <2>1, StatementStep DEF Typed
  <2>2. CASE p = o
    <3>1. /\ op[o] \in CommandRow /\ op[o].verb = op'[o].verb /\ op[o].late = op'[o].late
      BY <1>7, <2>2, IdleFields, CommandStep DEF GoesOn
    <3>2. ~Targets(op[o], id, puzzle[id])
      BY <1>2, <1>7, <2>2, <3>1
    <3>3. CASE op'[o].number = NextPuzzleNumber /\ op'[o].pc \in {"date", "insert"}
      <4>1. puzzle[id].number < NextPuzzleNumber /\ puzzle[id].number \in Nat /\ NextPuzzleNumber \in Nat
        BY <1>1, LastNumber, States DEF Typed
      <4>2. QED
        BY <1>1, <2>2, <3>3, <4>1 DEF Targets
    <3>4. CASE op[o].pc = "date" /\ op'[o].pc \in {"date", "insert"} /\ op'[o].number = op[o].number
      BY <1>1, <2>2, <3>2, <3>4 DEF Targets
    <3>5. CASE InsertDailyPuzzle(o)
      <4>1. op[o].pc = "insert"
        BY <3>5, InsertTarget
      <4>2. PICK d \in Ids :
              /\ (d \in Present /\ puzzle[d].number = op[o].number) \/ puzzle[d] = Absent
              /\ op'[o] = Idle \/ (op'[o].pc = "round" /\ op'[o].id = d /\ op'[o].plan # NoPlan)
        BY <3>5, InsertTarget
      <4>3. d = id
        BY <2>2, <4>2, IdleFields DEF Targets
      <4>4. puzzle[id].number = op[o].number
        BY <1>1, <4>2, <4>3 DEF Absent
      <4>5. QED
        BY <1>1, <3>2, <4>1, <4>4 DEF Targets
    <3>6. CASE InsertPuzzleRound(o)
      <4>1. op[o].pc = "round" /\ op'[o].pc = "answers" /\ op'[o].id = op[o].id
        BY <3>6, InsertRoundWrites
      <4>2. QED
        BY <2>2, <3>2, <4>1 DEF Targets
    <3>7. CASE ReplaceRoundAnswers(o)
      <4>1. op[o].pc = "answers"
        BY <3>7 DEF ReplaceRoundAnswers
      <4>2. op'[o].pc = "evict" \/ (op'[o].pc = "round" /\ op'[o].id = op[o].id)
        BY <2>2, <3>7, ReplaceGoesOn, IdleFields
      <4>3. QED
        BY <2>2, <3>2, <4>1, <4>2 DEF Targets
    <3>8. CASE DeleteDailyPuzzleAndPlays(o) /\ op'[o].pc = "insert" /\ op'[o].number = op[o].number
      <4>1. PICK d \in Present : /\ d \in Ids /\ puzzle[d].number = op[o].number
                                 /\ puzzle' = [puzzle EXCEPT ![d] = Gone]
        BY <3>8, RemoveWrites
      <4>2. d # id
        BY <1>1, <4>1 DEF Typed, TypeOK, Gone
      <4>3. QED
        BY <1>1, <2>2, <3>8, <4>1, <4>2 DEF NumbersDiffer, Targets
    <3>9. CASE op'[o].pc = "locate" /\ plays[op'[o].id] = 0
      BY <1>7, <2>2, <3>9 DEF Targets
    <3>10. CASE op[o].pc = "locate" /\ op'[o].pc = "override" /\ op'[o].id = op[o].id
      BY <2>2, <3>2, <3>10 DEF Targets
    <3>11. QED
      BY <1>7, <2>2, <3>3, <3>4, <3>5, <3>6, <3>7, <3>8, <3>9, <3>10, CommandStep, IdleFields
  <2>3. QED
    BY <2>1, <2>2
<1>8. QED
  BY <1>1, <1>4, <1>5, <1>6, <1>7
     DEF Next, vars, Page, LoadRoundsBundle, SetBundle, Expire, Midnight

\* What the step of PlayedPuzzleFixed says.
LEMMA PlayedStays ==
  ASSUME Typed, NumbersDiffer, RowsFit, LateFit, [Next]_vars,
         NEW id \in Ids, plays[id] > 0, plays'[id] > 0,
         puzzle'[id] # puzzle[id] \/ round'[id] # round[id]
  PROVE  \E o \in Running : op'[o] # op[o] /\ (op[o].late \/ op[o].verb \in Careless)
<1>1. id \in Present /\ puzzle[id].state = "present" /\ puzzle'[id] # Gone
  BY OldPlays DEF Present, Gone
<1>2. ASSUME NEW o \in Ops, op[o] \in CommandRow, Targets(op[o], id, puzzle[id]),
             op'[o] = Idle \/ op'[o].pc # op[o].pc
      PROVE  \E c \in Running : op'[c] # op[c] /\ (op[c].late \/ op[c].verb \in Careless)
  <2>1. op[o].late \/ op[o].verb \in Careless
    BY <1>2 DEF LateFit
  <2>2. o \in Running
    BY <1>2, IdleFields DEF Running
  <2>3. QED
    BY <1>2, <2>1, <2>2, IdleFields
<1>3. CASE puzzle'[id] # puzzle[id]
  <2>1. ASSUME NEW o \in Ops, InsertDailyPuzzle(o)
        PROVE  \E c \in Running : op'[c] # op[c] /\ (op[c].late \/ op[c].verb \in Careless)
    <3>1. op[o] \in CommandRow /\ op[o].pc = "insert"
      BY <2>1, InsertTarget
    <3>2. PICK d \in Ids :
            /\ puzzle'[d] \in PuzzleRow /\ \A e \in Ids : e # d => puzzle'[e] = puzzle[e]
            /\ (d \in Present /\ puzzle[d].number = op[o].number) \/ puzzle[d] = Absent
            /\ op'[o] = Idle \/ (op'[o].pc = "round" /\ op'[o].id = d /\ op'[o].plan # NoPlan)
      BY <2>1, InsertTarget
    <3>3. d = id
      BY <1>3, <3>2
    <3>4. puzzle[id].number = op[o].number
      BY <1>1, <3>2, <3>3 DEF Absent
    <3>5. QED
      BY <1>1, <1>2, <3>1, <3>2, <3>4 DEF Targets
  <2>2. ASSUME NEW o \in Ops, UpdateDailyPuzzle(o)
        PROVE  \E c \in Running : op'[c] # op[c] /\ (op[c].late \/ op[c].verb \in Careless)
    <3>1. PICK d \in Present : /\ d \in Ids /\ op[o] \in CommandRow /\ op[o].pc = "update"
                               /\ op'[o] = Idle /\ puzzle[d].number = op[o].number
                               /\ \A e \in Ids : e # d => puzzle'[e] = puzzle[e]
      BY <2>2, UpdateWrites
    <3>2. d = id
      BY <1>3, <3>1
    <3>3. QED
      BY <1>1, <1>2, <3>1, <3>2 DEF Targets
  <2>3. ASSUME NEW o \in Ops, DeleteDailyPuzzle(o) \/ DeleteDailyPuzzleAndPlays(o) PROVE FALSE
    <3>1. PICK d \in Present : d \in Ids /\ puzzle' = [puzzle EXCEPT ![d] = Gone]
      BY <2>3, RemoveWrites
    <3>2. QED
      BY <1>1, <1>3, <3>1 DEF Typed, TypeOK
  <2>4. QED
    BY <1>3, <2>1, <2>2, <2>3, PuzzleWriters
<1>4. CASE round'[id] # round[id]
  <2>1. PICK i \in Indices : round'[id][i] # round[id][i]
    <3>1. round[id] \in Bundle /\ round'[id] \in Bundle
      BY TypeStep DEF Typed, TypeOK
    <3>2. round[id] = [i \in Indices |-> round[id][i]] /\ round'[id] = [i \in Indices |-> round'[id][i]]
      BY <3>1 DEF Bundle
    <3>3. QED
      BY <1>4, <3>2
  <2>2. PICK o \in Ops : /\ op[o].id = id /\ op[o] \in CommandRow
                         /\ InsertPuzzleRound(o) \/ ReplaceRoundAnswers(o) \/ OverridesRow(o, id, i)
    BY <1>1, <2>1, RowWriters
  <2>3. /\ op[o].pc \in {"round", "answers", "override"}
        /\ op'[o] = Idle \/ op'[o].pc # op[o].pc
    <3>1. CASE InsertPuzzleRound(o)
      BY <3>1, InsertRoundWrites
    <3>2. CASE ReplaceRoundAnswers(o)
      BY <3>2, ReplaceGoesOn, ReplaceWrites
    <3>3. CASE OverridesRow(o, id, i)
      BY <3>3, OverrideWrites DEF OverridesRow
    <3>4. QED
      BY <2>2, <3>1, <3>2, <3>3
  <2>4. QED
    BY <1>2, <2>2, <2>3 DEF Targets
<1>5. QED
  BY <1>3, <1>4

-----------------------------------------------------------------------------
(***************************************************************************)
(* The rounds of a puzzle are filled from the first on.                    *)
(***************************************************************************)
\* A set of indices that holds those below its members is 0 .. its size - 1.
LEMMA Prefix ==
  ASSUME NEW S \in SUBSET Indices,
         \A k \in S : \A j \in Indices : j < k => j \in S
  PROVE  S = 0..(Cardinality(S) - 1)
<1>1. CASE S = {}
  <2>1. Cardinality(S) = 0
    BY <1>1, FS_EmptySet
  <2>2. QED
    BY <1>1, <2>1
<1>2. CASE S # {}
  <2>1. S \subseteq Nat /\ \A k \in S : k <= NumRounds
    BY Sizes DEF Indices
  <2>2. Max(S) \in S /\ \A k \in S : Max(S) >= k
    BY <1>2, <2>1, Sizes, MaxOfSet
  <2> DEFINE m == Max(S)
  <2> HIDE DEF m
  <2>3. m \in Nat /\ m \in S /\ \A k \in S : k <= m
    BY <2>1, <2>2 DEF m
  <2>4. S = 0..m
    <3>1. ASSUME NEW j \in 0..m PROVE j \in S
      <4>1. m \in Indices
        BY <2>3
      <4>2. j \in Indices
        BY <2>3, <4>1, PuzzlesAssumption DEF Indices
      <4>3. j = m \/ j < m
        BY <2>3
      <4>4. QED
        BY <2>3, <4>2, <4>3
    <3>2. ASSUME NEW j \in S PROVE j \in 0..m
      <4>1. j \in Nat /\ j <= m
        BY <2>1, <2>3
      <4>2. QED
        BY <2>3, <4>1
    <3>3. QED
      BY <3>1, <3>2
  <2>5. Cardinality(S) = m + 1
    BY <2>3, <2>4, FS_Interval
  <2>6. QED
    BY <2>3, <2>4, <2>5
<1>3. QED
  BY <1>1, <1>2

First(c) == Min(DOMAIN c.plan)

LEMMA FirstOfPlan ==
  ASSUME NEW c \in CommandRow, c.plan # NoPlan
  PROVE  /\ First(c) \in DOMAIN c.plan /\ First(c) \in Indices
         /\ \A j \in DOMAIN c.plan : First(c) <= j
<1>1. DOMAIN c.plan \subseteq Indices /\ DOMAIN c.plan # {}
  BY PlanFields
<1>2. QED
  BY <1>1, Sizes, MinOfSet DEF First

\* One round, or the rounds from some index on.
Upward(S) ==
  (\E k \in Indices : S = {k}) \/ \A j \in S : \A k \in Indices : j <= k => k \in S

\* The rounds before the next one of a command are filled.
Ahead(c, bundle) ==
  /\ Upward(DOMAIN c.plan)
  /\ \A j \in Indices : j < First(c) => bundle[j].prompt # None
  /\ c.pc = "answers" => bundle[First(c)].prompt # None

PlansFit ==
  \A o \in Ops : op[o] \in CommandRow =>
    /\ op[o].pc \in {"number", "date", "insert", "destroy"} =>
         op[o].plan = NoPlan \/ DOMAIN op[o].plan = Indices \/ DOMAIN op[o].plan = {0}
    /\ /\ op[o].pc \in {"round", "answers"} /\ op[o].verb # "set-round"
       /\ op[o].id \in Present /\ "patched" \notin marks[op[o].id]
       => Ahead(op[o], round[op[o].id])

PositionsFit ==
  \A id \in Present : "patched" \notin marks[id] =>
    \A k \in Indices : \A j \in Indices :
      round[id][k].prompt # None /\ j < k => round[id][j].prompt # None

\* A round that has a prompt keeps one.
LEMMA FilledStays ==
  ASSUME Typed, NumbersDiffer, [Next]_vars, NEW id \in Ids, NEW i \in Indices,
         puzzle'[id] # Gone, round[id][i].prompt # None
  PROVE  round'[id][i].prompt # None
<1>1. CASE round'[id][i] = round[id][i]
  BY <1>1
<1>2. CASE round'[id][i] # round[id][i]
  <2>1. PICK o \in Ops : /\ op[o].id = id
                         /\ \/ InsertPuzzleRound(o) /\ NextIndex(o) = i
                            \/ ReplaceRoundAnswers(o) /\ NextIndex(o) = i
                            \/ OverridesRow(o, id, i)
    BY <1>2, RowWriters
  <2>2. CASE InsertPuzzleRound(o) /\ NextIndex(o) = i
    <3>1. round'[id][i].prompt \in Prompts
      BY <2>1, <2>2, InsertRoundWrites
    <3>2. QED
      BY <3>1, Sizes
  <2>3. CASE ReplaceRoundAnswers(o) /\ NextIndex(o) = i
    BY <2>1, <2>3, ReplaceWrites
  <2>4. CASE OverridesRow(o, id, i)
    BY <2>4 DEF OverridesRow
  <2>5. QED
    BY <2>1, <2>2, <2>3, <2>4
<1>3. QED
  BY <1>1, <1>2

\* The only way to a prompt.
LEMMA FilledBy ==
  ASSUME Typed, NumbersDiffer, [Next]_vars, NEW id \in Ids, NEW i \in Indices,
         puzzle'[id] # Gone, round'[id][i].prompt # round[id][i].prompt
  PROVE  \E o \in Ops : InsertPuzzleRound(o) /\ op[o].id = id /\ NextIndex(o) = i
<1>1. PICK o \in Ops : /\ op[o].id = id
                       /\ \/ InsertPuzzleRound(o) /\ NextIndex(o) = i
                          \/ ReplaceRoundAnswers(o) /\ NextIndex(o) = i
                          \/ OverridesRow(o, id, i)
  BY RowWriters
<1>2. ~(ReplaceRoundAnswers(o) /\ NextIndex(o) = i)
  BY <1>1, ReplaceWrites
<1>3. ~OverridesRow(o, id, i)
  BY DEF OverridesRow
<1>4. QED
  BY <1>1, <1>2, <1>3

\* set-round leaves its mark.
LEMMA PatchMarks ==
  ASSUME Typed, NEW o \in Ops, InsertPuzzleRound(o), op[o].verb = "set-round"
  PROVE  "patched" \in marks'[op[o].id]
<1>1. op[o].id \in Ids
  BY InsertRoundWrites
<1>2. PICK clash \in BOOLEAN :
        Mark(op[o].id, Edited(op[o].id) \cup (IF clash THEN {"torn"} ELSE {}) \cup {"patched"})
  BY DEF InsertPuzzleRound
<1>3. QED
  BY <1>1, <1>2 DEF Mark, Typed, TypeOK

LEMMA PositionsFitStep ==
  ASSUME Typed, NumbersDiffer, RowsFit, PlansFit, PositionsFit, [Next]_vars
  PROVE  PositionsFit'
<1> SUFFICES ASSUME NEW id \in Ids, id \in Present', "patched" \notin marks'[id],
                    NEW k \in Indices, NEW j \in Indices, round'[id][k].prompt # None, j < k
             PROVE  round'[id][j].prompt # None
  BY DEF PositionsFit, Present
<1>1. puzzle'[id] # Gone /\ "patched" \notin marks[id]
  BY MarksStay DEF Present, Gone
<1>2. CASE id \notin Present
  BY <1>1, <1>2, NewPuzzle DEF EmptyBundle, NoRound
<1>3. CASE id \in Present /\ round[id][k].prompt # None
  BY <1>1, <1>3, FilledStays DEF PositionsFit
<1>4. CASE id \in Present /\ round[id][k].prompt = None
  <2>1. PICK o \in Ops : InsertPuzzleRound(o) /\ op[o].id = id /\ NextIndex(o) = k
    BY <1>1, <1>4, FilledBy
  <2>2. op[o] \in CommandRow /\ op[o].pc = "round"
    BY <2>1, InsertRoundWrites
  <2>3. op[o].verb # "set-round"
    BY <2>1, PatchMarks
  <2>4. Ahead(op[o], round[id])
    BY <1>1, <1>4, <2>1, <2>2, <2>3 DEF PlansFit
  <2>5. round[id][j].prompt # None
    BY <2>1, <2>4 DEF Ahead, First, NextIndex
  <2>6. QED
    BY <1>1, <2>5, FilledStays
<1>5. QED
  BY <1>2, <1>3, <1>4

LEMMA PlansFitStep ==
  ASSUME Typed, NumbersDiffer, RowsFit, PlansFit, PositionsFit, [Next]_vars
  PROVE  PlansFit'
<1> SUFFICES ASSUME NEW p \in Ops, op'[p] \in CommandRow
             PROVE  /\ op'[p].pc \in {"number", "date", "insert", "destroy"} =>
                         \/ op'[p].plan = NoPlan \/ DOMAIN op'[p].plan = Indices
                         \/ DOMAIN op'[p].plan = {0}
                    /\ /\ op'[p].pc \in {"round", "answers"} /\ op'[p].verb # "set-round"
                       /\ op'[p].id \in Ids /\ op'[p].id \in Present'
                       /\ "patched" \notin marks'[op'[p].id]
                       => Ahead(op'[p], round'[op'[p].id])
  BY DEF PlansFit, Ahead, Upward, First, Present
<1> DEFINE Plan(c) == c.plan = NoPlan \/ DOMAIN c.plan = Indices \/ DOMAIN c.plan = {0}
           Goal == /\ op'[p].pc \in {"number", "date", "insert", "destroy"} => Plan(op'[p])
                   /\ /\ op'[p].pc \in {"round", "answers"} /\ op'[p].verb # "set-round"
                      /\ op'[p].id \in Ids /\ op'[p].id \in Present'
                      /\ "patched" \notin marks'[op'[p].id]
                      => Ahead(op'[p], round'[op'[p].id])
<1> HIDE DEF Goal
<1>1. ASSUME op[p] \in CommandRow, op[p].verb = op'[p].verb, SameAim(op[p], op'[p])
      PROVE  Goal
  <2>1. op'[p].pc \in {"number", "date", "insert", "destroy"} => Plan(op'[p])
    BY <1>1 DEF SameAim, PlansFit
  <2>2. ASSUME op'[p].pc \in {"round", "answers"}, op'[p].verb # "set-round",
               op'[p].id \in Ids, op'[p].id \in Present', "patched" \notin marks'[op'[p].id]
        PROVE  Ahead(op'[p], round'[op'[p].id])
    <3> DEFINE id == op'[p].id
    <3>1. puzzle'[id] # Gone /\ "patched" \notin marks[id]
      BY <2>2, MarksStay DEF Present, Gone
    <3>2. id \in Present
      <4>1. puzzle[id] \in PuzzleRow \cup {Absent, Gone} /\ puzzle[id] # Absent
        BY <1>1, <2>2 DEF Typed, TypeOK, CommandsFit, SameAim
      <4>2. puzzle[id] # Gone
        BY <2>2, <3>1, RowsStay
      <4>3. QED
        BY <2>2, <4>1, <4>2 DEF Present, PuzzleRow
    <3>3. Ahead(op[p], round[id])
      BY <1>1, <2>2, <3>1, <3>2 DEF PlansFit, SameAim
    <3>4. op'[p].plan # NoPlan
      BY <1>1, <2>2 DEF Typed, CommandsFit, SameAim
    <3>5. First(op'[p]) = First(op[p]) /\ First(op'[p]) \in Indices
      BY <1>1, <3>4, FirstOfPlan DEF SameAim, First
    <3>6. \A j \in Indices : round[id][j].prompt # None => round'[id][j].prompt # None
      BY <2>2, <3>1, FilledStays
    <3> HIDE DEF id
    <3>7. Ahead(op'[p], round'[id])
      BY <1>1, <3>3, <3>5, <3>6 DEF Ahead, SameAim
    <3>8. QED
      BY <3>7 DEF id
  <2>3. QED
    BY <2>1, <2>2 DEF Goal
<1>2. ASSUME op'[p] = op[p] PROVE Goal
  BY <1>1, <1>2 DEF SameAim
<1>3. ASSUME NEW o \in Ops, Start(o) PROVE Goal
  <2>1. PICK c : Opening(c) /\ Begin(o, c)
    BY <1>3, StartStep DEF Typed
  <2>2. c \in CommandRow
    BY <2>1 DEF Opening
  <2>3. /\ SameLocals(op'[o], c) /\ UNCHANGED <<puzzle, round, marks>>
        /\ \A other \in Ops \ {o} :
             \/ op'[other] = Idle
             \/ op[other] \in CommandRow /\ SameLocals(op'[other], op[other])
    BY <2>1, <2>2, BeginStep DEF Typed
  <2>4. CASE p # o
    <3>1. op[p] \in CommandRow /\ SameLocals(op'[p], op[p])
      BY <2>3, <2>4, IdleFields
    <3>2. QED
      BY <1>1, <3>1 DEF SameLocals, SameAim
  <2>5. CASE p = o
    <3>1. op'[p].pc \in {"number", "date", "insert", "destroy"} => Plan(op'[p])
      BY <2>1, <2>3, <2>5 DEF Opening, SameLocals
    <3>2. ASSUME op'[p].pc \in {"round", "answers"}, op'[p].verb # "set-round",
                 op'[p].id \in Ids, "patched" \notin marks'[op'[p].id]
          PROVE  Ahead(op'[p], round'[op'[p].id])
      <4>1. c.pc = "round" /\ op'[p].pc = "round" /\ c.verb # "set-round"
        BY <2>1, <2>3, <2>5, <3>2 DEF Opening, SameLocals
      <4>2. PICK k \in Indices : DOMAIN c.plan = {k} /\ k = Cardinality(Filled(c.id))
        BY <2>1, <4>1 DEF Opening
      <4>3. c.id \in Present /\ "patched" \notin marks[c.id]
        BY <2>1, <2>3, <2>5, <3>2, <4>1 DEF Opening, SameLocals
      <4>4. Filled(c.id) = 0..(Cardinality(Filled(c.id)) - 1)
        <5>1. Filled(c.id) \in SUBSET Indices
          BY DEF Filled
        <5>2. \A m \in Filled(c.id) : \A j \in Indices : j < m => j \in Filled(c.id)
          BY <4>3 DEF PositionsFit, Filled
        <5>3. QED
          BY <5>1, <5>2, Prefix
      <4>5. DOMAIN op'[p].plan = {k} /\ op'[p].plan # NoPlan
        <5>1. DOMAIN op'[p].plan = {k}
          BY <2>3, <2>5, <4>2 DEF SameLocals
        <5>2. QED
          BY <5>1, PlanFields
      <4>6. First(op'[p]) = k
        BY <4>5, FirstOfPlan
      <4>7. \A j \in Indices : j < k => j \in Filled(c.id)
        BY <4>2, <4>4, Sizes DEF Indices
      <4>8. \A j \in Indices : j < k => round'[op'[p].id][j].prompt # None
        BY <2>3, <2>5, <4>7 DEF SameLocals, Filled
      <4>9. QED
        BY <4>1, <4>5, <4>6, <4>8 DEF Ahead, Upward
    <3>3. QED
      BY <3>1, <3>2 DEF Goal
  <2>6. QED
    BY <2>4, <2>5
<1>4. ASSUME NEW o \in Ops, Statement(o) \/ Die(o) PROVE Goal
  <2>1. CASE p # o
    BY <1>2, <1>4, <2>1, StatementStep DEF Typed
  <2>2. CASE p = o
    <3>1. op[o] \in CommandRow /\ op'[o] \in CommandRow /\ op'[o].verb = op[o].verb
      BY <1>4, <2>2, IdleFields, CommandStep DEF GoesOn
    <3>2. CASE /\ op[o].pc \in {"number", "date", "destroy"} /\ op'[o].pc \in {"date", "insert"}
               /\ op'[o].plan = op[o].plan
      BY <2>2, <3>1, <3>2 DEF PlansFit, Goal
    <3>3. CASE InsertDailyPuzzle(o)
      <4>1. op[o].pc = "insert" /\ op'[o].pc = "round" /\ op[o].plan # NoPlan /\ op'[o].plan = op[o].plan
        BY <2>2, <3>3, InsertPuzzleWrites, IdleFields
      <4>2. DOMAIN op'[o].plan = Indices \/ DOMAIN op'[o].plan = {0}
        BY <3>1, <4>1 DEF PlansFit
      <4>3. Upward(DOMAIN op'[o].plan)
        BY <4>2, Sizes DEF Upward
      <4>4. First(op'[o]) \in Indices /\ First(op'[o]) <= 0
        BY <3>1, <4>1, <4>2, FirstOfPlan, Sizes
      <4>5. \A j \in Indices : ~(j < First(op'[o]))
        BY <4>4, Sizes DEF Indices
      <4>6. QED
        BY <2>2, <4>1, <4>3, <4>5 DEF Goal, Ahead
    <3>4. CASE InsertPuzzleRound(o)
      <4>1. /\ op[o].pc = "round" /\ op'[o].pc = "answers" /\ op'[o].id = op[o].id
            /\ op'[o].plan = op[o].plan /\ op[o].id \in Present /\ op[o].id \in Ids
            /\ round'[op[o].id][NextIndex(o)].prompt = op[o].plan[NextIndex(o)]
            /\ op[o].plan[NextIndex(o)] \in Prompts
        BY <3>4, InsertRoundWrites
      <4>2. ASSUME op'[o].verb # "set-round", op'[o].id \in Present', "patched" \notin marks'[op'[o].id]
            PROVE  Ahead(op'[o], round'[op'[o].id])
        <5>1. puzzle'[op[o].id] # Gone /\ "patched" \notin marks[op[o].id]
          BY <4>1, <4>2, MarksStay DEF Present, Gone
        <5>2. Ahead(op[o], round[op[o].id])
          BY <3>1, <4>1, <4>2, <5>1 DEF PlansFit
        <5>3. \A j \in Indices : round[op[o].id][j].prompt # None => round'[op[o].id][j].prompt # None
          BY <4>1, <5>1, FilledStays
        <5>4. First(op'[o]) = First(op[o]) /\ NextIndex(o) = First(op[o])
          BY <4>1 DEF First, NextIndex
        <5>5. round'[op[o].id][First(op[o])].prompt # None
          BY <4>1, <5>4, Sizes
        <5>6. QED
          BY <4>1, <5>2, <5>3, <5>4, <5>5 DEF Ahead
      <4>3. QED
        BY <2>2, <4>1, <4>2 DEF Goal
    <3>5. CASE ReplaceRoundAnswers(o)
      <4>1. op[o].pc = "answers" /\ op[o].id \in Ids
        BY <3>5, ReplaceWrites
      <4>2. ASSUME op'[o].pc \in {"round", "answers"}, op'[o].verb # "set-round",
                   op'[o].id \in Present', "patched" \notin marks'[op'[o].id]
            PROVE  Ahead(op'[o], round'[op'[o].id])
        <5>1. /\ op'[o].pc = "round" /\ op'[o].id = op[o].id /\ op'[o].plan # NoPlan
              /\ DOMAIN op'[o].plan = DOMAIN op[o].plan \ {NextIndex(o)}
          BY <3>1, <3>5, <4>2, ReplaceGoesOn, IdleFields
        <5>2. puzzle'[op[o].id] # Gone /\ "patched" \notin marks[op[o].id]
          BY <4>1, <4>2, <5>1, MarksStay DEF Present, Gone
        <5>3. op[o].id \in Present
          BY <3>5 DEF ReplaceRoundAnswers
        <5>4. Ahead(op[o], round[op[o].id])
          BY <3>1, <4>1, <4>2, <5>2, <5>3 DEF PlansFit
        <5>5. /\ NextIndex(o) = First(op[o]) /\ DOMAIN op[o].plan \subseteq Indices
              /\ First(op[o]) \in DOMAIN op[o].plan
              /\ \A j \in DOMAIN op[o].plan : First(op[o]) <= j
          <6>1. op[o].plan # NoPlan
            BY <4>1 DEF Typed, CommandsFit
          <6>2. QED
            BY <3>1, <6>1, FirstOfPlan, PlanFields DEF First, NextIndex
        <5>6. /\ First(op'[o]) \in DOMAIN op'[o].plan
              /\ \A j \in DOMAIN op'[o].plan : First(op'[o]) <= j
          BY <3>1, <5>1, FirstOfPlan
        <5>7. \A j \in DOMAIN op[o].plan : \A k \in Indices : j <= k => k \in DOMAIN op[o].plan
          BY <5>1, <5>4, <5>5, <5>6 DEF Ahead, Upward
        <5> DEFINE D == DOMAIN op[o].plan
                   n == First(op[o])
                   E == DOMAIN op'[o].plan
        <5>8. /\ D \subseteq Indices /\ n \in D /\ \A j \in D : n <= j
              /\ E = D \ {n}
              /\ \A j \in D : \A k \in Indices : j <= k => k \in D
          BY <5>1, <5>5, <5>7
        <5> HIDE DEF D, n, E
        <5>9. \A j \in E : \A k \in Indices : j <= k => k \in E
          <6>1. ASSUME NEW j \in E, NEW k \in Indices, j <= k PROVE k \in E
            <7>1. j \in Nat /\ n \in Nat /\ k \in Nat
              BY <5>8, Sizes
            <7>2. n <= j /\ n # j
              BY <5>8
            <7>3. k # n
              BY <6>1, <7>1, <7>2
            <7>4. QED
              BY <5>8, <6>1, <7>3
          <6>2. QED
            BY <6>1
        <5>10. Upward(DOMAIN op'[o].plan)
          BY <5>9 DEF Upward, E
        <5>11. ASSUME NEW j \in Indices, j < First(op'[o]) PROVE round[op[o].id][j].prompt # None
          <6>1. CASE j < First(op[o])
            BY <5>4, <6>1 DEF Ahead
          <6>2. CASE j = First(op[o])
            BY <4>1, <5>4, <6>2 DEF Ahead
          <6>3. CASE First(op[o]) < j
            <7>1. j \in DOMAIN op'[o].plan
              <8>1. n \in Nat /\ j \in Nat /\ n < j
                BY <5>8, <6>3, Sizes DEF n
              <8>2. j \in D /\ j # n
                BY <5>8, <8>1
              <8>3. QED
                BY <5>8, <8>2 DEF E
            <7>2. First(op'[o]) <= j /\ First(op'[o]) \in Nat /\ j \in Nat
              BY <5>1, <5>5, <5>6, <7>1, Sizes
            <7>3. QED
              BY <5>11, <7>2
          <6>4. First(op[o]) \in Nat /\ j \in Nat
            BY <5>5, Sizes
          <6>5. QED
            BY <6>1, <6>2, <6>3, <6>4
        <5>12. \A j \in Indices : round[op[o].id][j].prompt # None => round'[op[o].id][j].prompt # None
          BY <4>1, <5>2, FilledStays
        <5>13. QED
          BY <5>1, <5>10, <5>11, <5>12 DEF Ahead
      <4>3. op'[o].pc \notin {"number", "date", "insert", "destroy"}
        BY <2>2, <3>1, <3>5, ReplaceGoesOn, IdleFields
      <4>4. QED
        BY <2>2, <4>2, <4>3 DEF Goal
    <3>6. CASE op'[o].pc \in {"locate", "override"}
      BY <2>2, <3>6 DEF Goal
    <3>7. QED
      BY <1>4, <2>2, <3>2, <3>3, <3>4, <3>5, <3>6, CommandStep, IdleFields
  <2>3. QED
    BY <2>1, <2>2
<1>5. ASSUME NEW q \in Readers, CreateOrGetPlay(q) PROVE Goal
  <2>1. \/ op[p] = Idle /\ op'[p] = Idle
        \/ op[p] \in CommandRow /\ SameButLate(op'[p], op[p])
    BY <1>5, CreateWrites, Zenon
  <2>2. QED
    BY <1>1, <2>1, IdleFields DEF SameButLate, SameAim
<1>6. Goal
  BY <1>2, <1>3, <1>4, <1>5
     DEF Next, vars, Page, LoadRoundsBundle, SetBundle, Expire, Midnight
<1>7. QED
  BY <1>6 DEF Goal

-----------------------------------------------------------------------------
(***************************************************************************)
(* A command that runs alone.                                              *)
(***************************************************************************)
\* The rounds a command has yet to write have no prompt, but for the one
\* whose answers are next.
Unwritten(c, bundle) ==
  \A j \in DOMAIN c.plan : bundle[j].prompt # None => c.pc = "answers" /\ j = First(c)

AloneFit ==
  \A o \in Ops : op[o] \in CommandRow /\ op[o].alone =>
    /\ \A other \in Ops : other # o => op[other] = Idle
    /\ op[o].verb \in Takers =>
         /\ op[o].pc \in {"number", "date", "insert", "round", "answers", "evict"}
         /\ op[o].pc \in {"date", "insert"} =>
              \A id \in Present : puzzle[id].number # op[o].number
         /\ /\ op[o].pc \in {"round", "answers"}
            /\ op[o].id \in Present /\ "patched" \notin marks[op[o].id]
            => Unwritten(op[o], round[op[o].id])

\* The step of a command that runs alone is a statement of its own.
LEMMA AloneActs ==
  ASSUME Typed, NumbersDiffer, AloneFit, [Next]_vars,
         NEW o \in Ops, op[o] \in CommandRow, op[o].alone
  PROVE  \/ Statement(o) \/ Die(o)
         \/ UNCHANGED <<puzzle, round, marks>> /\ op'[o] = op[o]
         \/ UNCHANGED <<puzzle, round, marks>> /\ SameButLate(op'[o], op[o])
         \/ UNCHANGED <<puzzle, round, marks>> /\ ~op'[o].alone
<1>1. ASSUME NEW other \in Ops, Start(other)
      PROVE  UNCHANGED <<puzzle, round, marks>> /\ ~op'[o].alone
  <2>1. PICK c : Opening(c) /\ Begin(other, c)
    BY <1>1, StartStep DEF Typed
  <2>2. c \in CommandRow
    BY <2>1 DEF Opening
  <2>3. op[other] = Idle /\ other # o
    BY <2>1, <2>2, BeginStep, IdleFields DEF Typed
  <2>4. QED
    BY <2>1, <2>2, <2>3, BeginStep, IdleFields DEF Typed
<1>2. ASSUME NEW other \in Ops, Statement(other) \/ Die(other) PROVE other = o
  <2>1. op[other] # Idle
    BY <1>2, StatementStep, IdleFields DEF Typed
  <2>2. QED
    BY <2>1 DEF AloneFit
<1>3. ASSUME NEW q \in Readers, CreateOrGetPlay(q)
      PROVE  UNCHANGED <<puzzle, round, marks>> /\ SameButLate(op'[o], op[o])
  <2>1. /\ UNCHANGED <<puzzle, round, marks>>
        /\ \/ op[o] = Idle /\ op'[o] = Idle
           \/ op[o] \in CommandRow /\ SameButLate(op'[o], op[o])
    BY <1>3, CreateWrites, Zenon
  <2>2. QED
    BY <2>1, IdleFields
<1>4. QED
  BY <1>1, <1>2, <1>3
     DEF Next, vars, Page, LoadRoundsBundle, SetBundle, Expire, Midnight

LEMMA AloneFitStep ==
  ASSUME Typed, NumbersDiffer, RowsFit, PositionsFit, AloneFit, [Next]_vars
  PROVE  AloneFit'
<1> SUFFICES ASSUME NEW p \in Ops, op'[p] \in CommandRow, op'[p].alone
             PROVE  /\ \A other \in Ops : other # p => op'[other] = Idle
                    /\ op'[p].verb \in Takers =>
                         /\ op'[p].pc \in {"number", "date", "insert", "round", "answers", "evict"}
                         /\ op'[p].pc \in {"date", "insert"} =>
                              \A id \in Ids : id \in Present' => puzzle'[id].number # op'[p].number
                         /\ /\ op'[p].pc \in {"round", "answers"}
                            /\ op'[p].id \in Ids /\ op'[p].id \in Present'
                            /\ "patched" \notin marks'[op'[p].id]
                            => Unwritten(op'[p], round'[op'[p].id])
  BY DEF AloneFit, Unwritten, First, Present
<1> DEFINE Alone == \A other \in Ops : other # p => op'[other] = Idle
           Taking == op'[p].verb \in Takers =>
                       /\ op'[p].pc \in {"number", "date", "insert", "round", "answers", "evict"}
                       /\ op'[p].pc \in {"date", "insert"} =>
                            \A id \in Ids : id \in Present' => puzzle'[id].number # op'[p].number
                       /\ /\ op'[p].pc \in {"round", "answers"}
                          /\ op'[p].id \in Ids /\ op'[p].id \in Present'
                          /\ "patched" \notin marks'[op'[p].id]
                          => Unwritten(op'[p], round'[op'[p].id])
<1> HIDE DEF Alone, Taking
<1>1. ASSUME NEW o \in Ops, Start(o) PROVE Alone /\ Taking
  <2>1. PICK c : Opening(c) /\ Begin(o, c)
    BY <1>1, StartStep DEF Typed
  <2>2. c \in CommandRow
    BY <2>1 DEF Opening
  <2>3. /\ SameLocals(op'[o], c) /\ UNCHANGED <<puzzle, round, marks>>
        /\ op'[o].alone => \A other \in Ops : op[other] = Idle
        /\ \A other \in Ops \ {o} :
             \/ op[other] = Idle /\ op'[other] = Idle
             \/ op[other] \in CommandRow /\ ~op'[other].alone
    BY <2>1, <2>2, BeginStep DEF Typed
  <2>4. p = o
    BY <2>3, IdleFields
  <2>5. Alone
    BY <2>3, <2>4, IdleFields DEF Alone
  <2>6. ASSUME op'[p].verb \in Takers
        PROVE  /\ op'[p].pc \in {"number", "round"}
               /\ op'[p].pc = "round" /\ "patched" \notin marks'[op'[p].id]
                  => Unwritten(op'[p], round'[op'[p].id])
    <3>1. c.pc \in {"number", "round"} /\ c.verb \in Takers
      BY <2>1, <2>3, <2>4, <2>6 DEF Opening, SameLocals
    <3>2. ASSUME c.pc = "round", "patched" \notin marks[c.id]
          PROVE  Unwritten(op'[p], round'[op'[p].id])
      <4>1. PICK k \in Indices : DOMAIN c.plan = {k} /\ k = Cardinality(Filled(c.id))
        BY <2>1, <3>1, <3>2 DEF Opening, Takers
      <4>2. c.id \in Present
        BY <2>1, <3>2 DEF Opening
      <4>3. Filled(c.id) = 0..(Cardinality(Filled(c.id)) - 1)
        <5>1. Filled(c.id) \in SUBSET Indices
          BY DEF Filled
        <5>2. \A m \in Filled(c.id) : \A j \in Indices : j < m => j \in Filled(c.id)
          BY <3>2, <4>2 DEF PositionsFit, Filled
        <5>3. QED
          BY <5>1, <5>2, Prefix
      <4>4. k \notin Filled(c.id)
        <5>1. k \in Nat
          BY Sizes
        <5>2. QED
          BY <4>1, <4>3, <5>1
      <4>5. QED
        BY <2>3, <2>4, <4>1, <4>4 DEF Filled, Unwritten, SameLocals
    <3>3. QED
      BY <2>3, <2>4, <3>1, <3>2 DEF SameLocals
  <2>7. QED
    BY <2>5, <2>6 DEF Taking
<1>2. ASSUME op[p] \in CommandRow, op[p].alone, UNCHANGED <<puzzle, round, marks>>,
             op'[p].verb = op[p].verb, op'[p].number = op[p].number, SameAim(op[p], op'[p])
      PROVE  Taking
  BY <1>2 DEF Taking, AloneFit, SameAim, Unwritten, First, Present
<1>3. ASSUME NEW o \in Ops, Statement(o) \/ Die(o) PROVE Alone /\ Taking
  <2>1. op[o] \in CommandRow /\ \A other \in Ops : other # o => op'[other] = op[other]
    BY <1>3, StatementStep DEF Typed
  <2>2. p = o
    <3>1. ASSUME p # o PROVE FALSE
      BY <2>1, <3>1, IdleFields DEF AloneFit
    <3>2. QED
      BY <3>1
  <2>3. op'[o] # Idle
    BY <2>2, IdleFields
  <2>4. op[o].alone /\ op'[o].verb = op[o].verb
    BY <1>3, <2>2, <2>3, CommandStep DEF GoesOn
  <2>5. Alone
    BY <2>1, <2>2, <2>4 DEF Alone, AloneFit
  <2>6. ASSUME op[o].verb \in Takers PROVE Taking
    <3>1. /\ op[o].pc \in {"number", "date", "insert", "round", "answers", "evict"}
          /\ op[o].pc \in {"date", "insert"} => \A id \in Present : puzzle[id].number # op[o].number
          /\ /\ op[o].pc \in {"round", "answers"}
             /\ op[o].id \in Present /\ "patched" \notin marks[op[o].id]
             => Unwritten(op[o], round[op[o].id])
      BY <2>1, <2>4, <2>6 DEF AloneFit
    <3>2. CASE /\ op[o].pc = "number" /\ op'[o].pc \in {"date", "insert"}
               /\ op'[o].number = NextPuzzleNumber /\ UNCHANGED <<puzzle, round, plays>>
      <4>1. \A id \in Present : puzzle[id].number # NextPuzzleNumber
        <5>1. /\ NextPuzzleNumber \in Nat
              /\ \A id \in Present : puzzle[id].number \in Nat /\ puzzle[id].number < NextPuzzleNumber
          BY LastNumber, States DEF Typed, Present
        <5>2. QED
          BY <5>1
      <4>2. QED
        BY <2>2, <3>2, <4>1 DEF Taking, Present
    <3>3. CASE /\ op[o].pc = "date" /\ op'[o].pc \in {"date", "insert"}
               /\ op'[o].number = op[o].number /\ UNCHANGED <<puzzle, round, plays>>
      BY <2>2, <3>1, <3>3 DEF Taking, Present
    <3>4. CASE InsertDailyPuzzle(o)
      <4>1. op[o].pc = "insert" /\ round' = round
        BY <3>4 DEF InsertDailyPuzzle
      <4>2. PICK d \in Ids :
              /\ (d \in Present /\ puzzle[d].number = op[o].number) \/ puzzle[d] = Absent
              /\ op'[o] = Idle \/ (op'[o].pc = "round" /\ op'[o].id = d /\ op'[o].plan # NoPlan)
        BY <3>4, InsertTarget
      <4>3. round[d] = EmptyBundle
        BY <3>1, <4>1, <4>2 DEF RowsFit
      <4>4. \A j \in Indices : round'[d][j].prompt = None
        BY <4>1, <4>3 DEF EmptyBundle, NoRound
      <4>5. DOMAIN op'[o].plan \subseteq Indices
        BY <2>2, PlanFields
      <4>6. QED
        BY <2>2, <2>3, <4>2, <4>4, <4>5 DEF Taking, Unwritten
    <3>5. CASE InsertPuzzleRound(o)
      <4>1. /\ op[o].pc = "round" /\ op'[o].pc = "answers" /\ op'[o].id = op[o].id
            /\ op'[o].plan = op[o].plan /\ op[o].id \in Ids /\ op[o].id \in Present
            /\ \A d \in Ids, j \in Indices : d # op[o].id \/ j # NextIndex(o) => round'[d][j] = round[d][j]
        BY <3>5, InsertRoundWrites DEF OnlyRound
      <4>2. DOMAIN op[o].plan \subseteq Indices /\ NextIndex(o) = First(op'[o])
        BY <2>1, <4>1, PlanFields DEF First, NextIndex
      <4>3. ASSUME "patched" \notin marks'[op'[o].id] PROVE Unwritten(op'[o], round'[op'[o].id])
        <5>1. "patched" \notin marks[op[o].id]
          BY <4>1, <4>3, MarksStay
        <5>2. Unwritten(op[o], round[op[o].id])
          BY <3>1, <4>1, <5>1
        <5>3. QED
          BY <4>1, <4>2, <5>2 DEF Unwritten
      <4>4. QED
        BY <2>2, <4>1, <4>3 DEF Taking
    <3>6. CASE ReplaceRoundAnswers(o)
      <4>1. /\ op[o].pc = "answers" /\ op[o].id \in Ids /\ op[o].id \in Present
            /\ \A d \in Ids, j \in Indices : d # op[o].id \/ j # NextIndex(o) => round'[d][j] = round[d][j]
        BY <3>6, ReplaceWrites DEF OnlyRound
      <4>2. \/ op'[o].pc = "evict"
            \/ /\ op'[o].pc = "round" /\ op'[o].id = op[o].id
               /\ DOMAIN op'[o].plan = DOMAIN op[o].plan \ {NextIndex(o)}
        BY <2>3, <3>6, ReplaceGoesOn
      <4>3. ASSUME op'[o].pc = "round", "patched" \notin marks'[op'[o].id]
            PROVE  Unwritten(op'[o], round'[op'[o].id])
        <5>1. /\ op'[o].id = op[o].id
              /\ DOMAIN op'[o].plan = DOMAIN op[o].plan \ {NextIndex(o)}
          BY <4>2, <4>3
        <5>2. "patched" \notin marks[op[o].id]
          BY <4>1, <4>3, <5>1, MarksStay
        <5>3. Unwritten(op[o], round[op[o].id])
          BY <3>1, <4>1, <5>2
        <5>4. DOMAIN op[o].plan \subseteq Indices /\ NextIndex(o) = First(op[o])
          BY <2>1, PlanFields DEF First, NextIndex
        <5>5. QED
          BY <4>1, <5>1, <5>3, <5>4 DEF Unwritten
      <4>4. QED
        BY <2>2, <4>2, <4>3 DEF Taking
    <3>7. ~CheckPlays(o)
      BY <3>1, CheckGoesOn
    <3>8. QED
      BY <1>3, <2>3, <3>1, <3>2, <3>3, <3>4, <3>5, <3>6, <3>7, CommandStep
  <2>7. QED
    BY <2>2, <2>4, <2>5, <2>6 DEF Taking
<1>4. ASSUME NEW q \in Readers, CreateOrGetPlay(q) PROVE Alone /\ Taking
  <2>1. \A o \in Ops : \/ op[o] = Idle /\ op'[o] = Idle
                       \/ op[o] \in CommandRow /\ SameButLate(op'[o], op[o])
    BY <1>4, CreateWrites, Zenon
  <2>2. op[p] \in CommandRow /\ SameButLate(op'[p], op[p])
    BY <2>1, IdleFields
  <2>3. op[p].alone
    BY <2>2 DEF SameButLate
  <2>4. Alone
    BY <2>1, <2>2, <2>3, IdleFields DEF Alone, AloneFit
  <2>5. UNCHANGED <<puzzle, round, marks>>
    BY <1>4 DEF CreateOrGetPlay
  <2>6. QED
    BY <1>2, <2>2, <2>3, <2>4, <2>5 DEF SameButLate, SameAim
<1>5. ASSUME UNCHANGED <<op, puzzle, round, marks>> PROVE Alone /\ Taking
  <2>1. op[p] \in CommandRow /\ op[p].alone
    BY <1>5
  <2>2. QED
    BY <1>2, <1>5, <2>1 DEF Alone, AloneFit, SameAim
<1>6. Alone /\ Taking
  BY <1>1, <1>3, <1>4, <1>5
     DEF Next, vars, Page, LoadRoundsBundle, SetBundle, Expire, Midnight
<1>7. QED
  BY <1>6 DEF Alone, Taking

\* What the step of AloneTakesNothingOver says.
LEMMA AloneStays ==
  ASSUME Typed, NumbersDiffer, AloneFit, [Next]_vars,
         NEW o \in Running, NEW id \in Present,
         op[o].alone, op[o].verb \in Takers, op'[o] # op[o]
  PROVE  /\ puzzle'[id] = puzzle[id]
         /\ \A i \in Filled(id) \ (IF op[o].pc = "answers" /\ op[o].id = id THEN {NextIndex(o)} ELSE {}) :
              "patched" \in marks[id] \/ round'[id][i] = round[id][i]
<1>1. o \in Ops /\ id \in Ids /\ op[o] \in CommandRow
  BY IdleFields, CommandFields DEF Running, Present, Typed
<1>2. CASE UNCHANGED <<puzzle, round>>
  BY <1>2
<1>3. CASE Statement(o) \/ Die(o)
  <2>1. /\ op[o].pc \in {"number", "date", "insert", "round", "answers", "evict"}
        /\ op[o].pc \in {"date", "insert"} => \A d \in Present : puzzle[d].number # op[o].number
        /\ /\ op[o].pc \in {"round", "answers"}
           /\ op[o].id \in Present /\ "patched" \notin marks[op[o].id]
           => Unwritten(op[o], round[op[o].id])
    BY <1>1 DEF AloneFit
  <2>2. CASE InsertDailyPuzzle(o)
    <3>1. round' = round /\ op[o].pc = "insert"
      BY <2>2 DEF InsertDailyPuzzle
    <3>2. PICK d \in Ids :
            /\ puzzle'[d] \in PuzzleRow /\ \A e \in Ids : e # d => puzzle'[e] = puzzle[e]
            /\ (d \in Present /\ puzzle[d].number = op[o].number) \/ puzzle[d] = Absent
            /\ op'[o] = Idle \/ (op'[o].pc = "round" /\ op'[o].id = d /\ op'[o].plan # NoPlan)
      BY <1>1, <2>2, InsertTarget
    <3>3. d # id
      BY <2>1, <3>1, <3>2 DEF Present, Absent
    <3>4. QED
      BY <1>1, <3>1, <3>2, <3>3
  <2>3. CASE InsertPuzzleRound(o)
    <3>1. /\ puzzle' = puzzle /\ op[o].pc = "round" /\ op[o].id \in Present
          /\ NextIndex(o) \in DOMAIN op[o].plan
          /\ \A d \in Ids, j \in Indices : d # op[o].id \/ j # NextIndex(o) => round'[d][j] = round[d][j]
      BY <1>1, <2>3, InsertRoundWrites DEF OnlyRound
    <3>2. ASSUME NEW i \in Filled(id), "patched" \notin marks[id], round'[id][i] # round[id][i]
          PROVE  FALSE
      <4>1. op[o].id = id /\ NextIndex(o) = i
        BY <1>1, <3>1, <3>2 DEF Filled
      <4>2. QED
        BY <2>1, <3>1, <3>2, <4>1 DEF Filled, Unwritten
    <3>3. QED
      BY <3>1, <3>2
  <2>4. CASE ReplaceRoundAnswers(o)
    <3>1. /\ puzzle' = puzzle /\ op[o].pc = "answers"
          /\ \A d \in Ids, j \in Indices : d # op[o].id \/ j # NextIndex(o) => round'[d][j] = round[d][j]
      BY <1>1, <2>4, ReplaceWrites DEF OnlyRound
    <3>2. QED
      BY <1>1, <3>1 DEF Filled
  <2>5. QED
    BY <1>2, <1>3, <2>1, <2>2, <2>3, <2>4
       DEF Statement, ReadNumber, ReadDate, RejectPicks, RefusedByForeignKey, UpdateDailyPuzzle,
           CheckPlays, LocateAnswer, OverrideAnswerContent, OverrideAnswerText, DeleteDailyPuzzle,
           DeleteDailyPuzzleAndPlays, InvalidateRoundsBundle, Die
<1>4. QED
  BY <1>1, <1>2, <1>3, AloneActs

-----------------------------------------------------------------------------
(***************************************************************************)
(* The inductive invariant and the theorems.                               *)
(***************************************************************************)
LEMMA IdleInit == Init => LateFit /\ PlansFit /\ AloneFit
BY IdleFields DEF Init, LateFit, PlansFit, AloneFit

LEMMA PositionsFitInit == Init => PositionsFit
<1> SUFFICES ASSUME Init, NEW id \in Present, NEW k \in Indices, NEW j \in Indices,
                    round[id][k].prompt # None
             PROVE  round[id][j].prompt # None
  BY DEF PositionsFit
<1>1. CASE round = [d \in Ids |-> EmptyBundle]
  BY <1>1 DEF EmptyBundle, NoRound, Present
<1>2. CASE \E built \in Built : round = [d \in Ids |-> IF d = 1 THEN built ELSE EmptyBundle]
  <2>1. PICK built \in Built : round = [d \in Ids |-> IF d = 1 THEN built ELSE EmptyBundle]
    BY <1>2
  <2>2. built[j].prompt \in Prompts
    BY BuiltAssumption
  <2>3. CASE id = 1
    BY <2>1, <2>2, <2>3, Sizes DEF Present
  <2>4. CASE id # 1
    BY <2>1, <2>4 DEF EmptyBundle, NoRound, Present
  <2>5. QED
    BY <2>3, <2>4
<1>3. QED
  BY <1>1, <1>2 DEF Init

RInv ==
  /\ BotsFit /\ PromptsFit /\ EditionsFit
  /\ LateFit /\ PlansFit /\ PositionsFit /\ AloneFit

LEMMA RoundsInductive == Spec => [](IInv /\ RInv)
<1>1. Init => RInv
  BY BotsFitInit, PromptsFitInit, IdleInit, PositionsFitInit DEF RInv
<1>2. IInv /\ RInv /\ [Next]_vars => RInv'
  <2> SUFFICES ASSUME IInv, RInv, [Next]_vars PROVE RInv'
    OBVIOUS
  <2>1. BotsFit' /\ PromptsFit' /\ EditionsFit'
    BY BotsFitStep, PromptsFitStep, EditionsFitStep DEF IInv, RInv
  <2>2. LateFit' /\ PlansFit' /\ PositionsFit' /\ AloneFit'
    BY LateFitStep, PlansFitStep, PositionsFitStep, AloneFitStep DEF IInv, RInv
  <2>3. QED
    BY <2>1, <2>2 DEF RInv
<1>3. QED
  BY <1>1, <1>2, Inductive, PTL DEF Spec

\* Every round is one bot and the rest decoys, all different, unless
\* set-answer put another line into it, whatever else edits the puzzle.
THEOREM OneBotInEachRound == Spec => []OneBotPerRound
<1>1. IInv /\ RInv => OneBotPerRound
  <2> SUFFICES ASSUME IInv, RInv, NEW id \in Present, NEW i \in Indices, "overridden" \notin marks[id],
                      NEW p \in Prompts, round[id][i].lines \in ComposeRoundAnswers(p)
               PROVE  /\ IsInjective(round[id][i].lines)
                      /\ Cardinality({s \in Slots : round[id][i].lines[s] \in Bots}) = 1
    BY DEF IInv, RInv, BotsFit, OneBotPerRound
  <2>1. {s \in Slots : round[id][i].lines[s] \in Bots} = {0}
    BY Sizes DEF ComposeRoundAnswers
  <2>2. QED
    BY <2>1, FS_Singleton DEF ComposeRoundAnswers
<1>2. QED
  BY <1>1, RoundsInductive, PTL

\* The answers of a round were written for its prompt, unless a command
\* stopped between the two statements, is between them, or two of them wrote
\* the round at once.
THEOREM AnswersAreForThePrompt == Spec => []AnswersFitPrompt
<1>1. IInv /\ RInv => AnswersFitPrompt
  BY DEF IInv, RInv, PromptsFit, Fits, Between, Rewriting, NextIndex, AnswersFitPrompt
<1>2. QED
  BY <1>1, RoundsInductive, PTL

\* A round is found by its place among the rounds read: for a puzzle on which
\* set-round was not used, that is its index at every moment.
THEOREM RoundsStayInPosition == Spec => []RoundsInPosition
<1>1. IInv /\ RInv => RoundsInPosition
  <2> SUFFICES ASSUME IInv, RInv, NEW id \in Present, "patched" \notin marks[id]
               PROVE  Filled(id) = 0..(Cardinality(Filled(id)) - 1)
    BY DEF RoundsInPosition
  <2>1. Filled(id) \in SUBSET Indices
    BY DEF Filled
  <2>2. \A k \in Filled(id) : \A j \in Indices : j < k => j \in Filled(id)
    BY DEF IInv, RInv, PositionsFit, Filled
  <2>3. QED
    BY <2>1, <2>2, Prefix
<1>2. QED
  BY <1>1, RoundsInductive, PTL

\* A puzzle that has plays keeps its rounds, its answers and its date, but for
\* a command that had begun before the latest play or that does not look.
THEOREM PlayedPuzzlesAreFixed == Spec => PlayedPuzzleFixed
<1>1. ASSUME IInv, RInv, [Next]_vars
      PROVE  \A id \in Ids :
               plays[id] > 0 /\ plays'[id] > 0 /\ <<puzzle[id], round[id]>>' # <<puzzle[id], round[id]>> =>
                 \E o \in Running : op'[o] # op[o] /\ (op[o].late \/ op[o].verb \in {"import", "assemble"})
  <2>1. Typed /\ NumbersDiffer /\ RowsFit /\ LateFit
    BY <1>1 DEF IInv, RInv
  <2>2. ASSUME NEW id \in Ids, plays[id] > 0, plays'[id] > 0,
               <<puzzle[id], round[id]>>' # <<puzzle[id], round[id]>>
        PROVE  \E o \in Running : op'[o] # op[o] /\ (op[o].late \/ op[o].verb \in Careless)
    <3>1. puzzle'[id] # puzzle[id] \/ round'[id] # round[id]
      BY <2>2
    <3>2. QED
      BY <1>1, <2>1, <2>2, <3>1, PlayedStays
  <2>3. QED
    BY <2>2 DEF Careless
<1>2. QED
  BY <1>1, RoundsInductive, PTL DEF Spec, PlayedPuzzleFixed

\* A command that took a free number, with no other command around, neither
\* takes over a puzzle that is there nor writes over a round of it.
THEOREM AloneIsSafe == Spec => AloneTakesNothingOver
<1>1. ASSUME IInv, RInv, [Next]_vars
      PROVE  \A o \in Running : \A id \in Present :
               op[o].alone /\ op[o].verb \in {"create", "build", "schedule", "assemble"} /\ op'[o] # op[o] =>
                 /\ puzzle'[id] = puzzle[id]
                 /\ \A i \in Filled(id) \ (IF op[o].pc = "answers" /\ op[o].id = id THEN {NextIndex(o)} ELSE {}) :
                      "patched" \in marks[id] \/ round'[id][i] = round[id][i]
  BY <1>1, AloneStays DEF IInv, RInv, Takers
<1>2. QED
  BY <1>1, RoundsInductive, PTL DEF Spec, AloneTakesNothingOver
=============================================================================
