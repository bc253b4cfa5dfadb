------------------------------ MODULE Puzzles ------------------------------
(***************************************************************************)
(* How a daily puzzle comes into being and what players are served: the    *)
(* commands of puzzle-build, of bbg-admin puzzle and import and of the     *)
(* review terminal, each a sequence of statements over daily_puzzles,      *)
(* puzzle_rounds and puzzle_round_answers without a transaction around     *)
(* them, and the requests that read the rounds through the cache.          *)
(*                                                                         *)
(* Commands that are refused before they write change nothing and are      *)
(* left out.  Reads that follow each other with no write of the command in *)
(* between are one step.                                                   *)
(***************************************************************************)
EXTENDS Integers, FiniteSets, FiniteSetsExt, Functions

CONSTANTS
  MaxPuzzles,   \* bound on puzzle rows ever inserted
  LastDay,      \* the last day of the instance
  NumRounds,    \* rounds of a puzzle (3 in the code)
  NumDecoys,    \* decoys of a round (3 in the code)
  Prompts,      \* prompts that are not retired
  Bots,         \* approved bot candidates
  Decoys,       \* approved decoys
  PromptOf,     \* the prompt a line was written for
  Ops,          \* commands that can run at once
  Readers,      \* page loads that can be in flight at once
  Verbs,        \* Verbs[o]: the commands that o runs
  Plans,        \* the lists of prompts they name
  Files,        \* the puzzles of the files they import: number, date and prompts
  Swaps,        \* the overrides they make: round, slot and line, None for text only
  Built,        \* bundles that a puzzle of the last day, already there at the start, may have
  MaxRuns,      \* bound on the commands started
  MaxPlays      \* bound on the plays of one puzzle

Ids     == 1..MaxPuzzles
Days    == 1..LastDay
Indices == 0..(NumRounds - 1)
Slots   == 0..NumDecoys
Lines   == Bots \cup Decoys
None    == "none"

ASSUME PuzzlesAssumption ==
  /\ MaxPuzzles \in Nat \ {0} /\ LastDay \in Nat \ {0}
  /\ NumRounds \in Nat \ {0} /\ NumDecoys \in Nat
  /\ PromptOf \in [Lines -> Prompts]
  /\ Bots \cap Decoys = {} /\ None \notin Prompts \cup Lines
  /\ Plans \subseteq [Indices -> Prompts]
  /\ Files \subseteq [number : Nat \ {0}, date : Nat \ {0}, plan : [Indices -> Prompts]]
  /\ Swaps \subseteq [i : Indices, slot : Slots, in : Lines \cup {None}]
  /\ MaxRuns \in Nat /\ MaxPlays \in Nat

VARIABLES
  today,    \* the date of the server
  puzzle,   \* puzzle[id]: the daily_puzzles row
  round,    \* round[id][i]: the puzzle_rounds row and its answers
  plays,    \* plays[id]: how many plays rows refer to the puzzle
  cache,    \* cache[id]: the bundle stored under rounds:<id>, if any, as a set
  op,       \* op[o]: a command between two of its statements
  reader,   \* reader[q]: a request between two of its statements
  marks,    \* marks[id]: what has happened to the puzzle, for the properties
  runs      \* commands started so far

vars == <<today, puzzle, round, plays, cache, op, reader, marks, runs>>

-----------------------------------------------------------------------------
(***************************************************************************)
(* Rows.  lines holds a round's answers; a slot names a row, not its place *)
(* in the canonical order.  edition counts the times the answers were      *)
(* rewritten, which gives them new ids and so a new canonical order; texts *)
(* counts text overrides.                                                  *)
(***************************************************************************)
Absent == [state |-> "absent", number |-> 0, date |-> 0]
Gone   == [state |-> "gone", number |-> 0, date |-> 0]

PuzzleRow == [state : {"present"}, number : Nat, date : Nat]

NoAnswers == [s \in {} |-> None]
NoRound   == [prompt |-> None, lines |-> NoAnswers, edition |-> 0, texts |-> 0]

RoundRow == [prompt : Prompts \cup {None}, lines : [Slots -> Lines] \cup {NoAnswers},
             edition : Nat, texts : Nat]
Bundle   == [Indices -> RoundRow]

Marks == {"edited", "patched", "overridden", "torn"}

Present     == {id \in Ids : puzzle[id].state = "present"}
Filled(id)  == {i \in Indices : round[id][i].prompt # None}
-----------------------------------------------------------------------------
(***************************************************************************)
(* Reads of internal/db/puzzle.go.                                         *)
(***************************************************************************)
\* LatestPuzzle: the puzzle to serve on day d, as a set of at most one id.
LatestPuzzle(d) ==
  LET due == {id \in Present : puzzle[id].date <= d}
  IN  {id \in due : \A other \in due : puzzle[other].number <= puzzle[id].number}

PuzzleByNumber(n) == {id \in Present : puzzle[id].number = n}

\* LIMIT 1 without an order: any puzzle of the date.
PuzzleByDate(d) == {id \in Present : puzzle[id].date = d}

PuzzleHasPlays(id) == plays[id] > 0

\* A broken form: the number of the newest puzzle again.
LatestPuzzleNumber == Max({1} \cup {puzzle[id].number : id \in Present})

NextPuzzleNumber == 1 + Max({0} \cup {puzzle[id].number : id \in Present})

\* What FindOrCreateOpenPuzzle gives a new puzzle as its date.
NextPuzzleDate ==
  IF Present = {} THEN today + 1 ELSE 1 + Max({puzzle[id].date : id \in Present})

\* A broken form: full puzzles count as open.
OpenOrFullPuzzle ==
  {id \in Present : \A other \in Present : puzzle[id].number <= puzzle[other].number}

\* The puzzle with a round missing that has the lowest number.
OpenPuzzle ==
  LET open == {id \in Present : Cardinality(Filled(id)) < NumRounds}
  IN  {id \in open : \A other \in open : puzzle[id].number <= puzzle[other].number}

-----------------------------------------------------------------------------
(***************************************************************************)
(* Picking content, internal/puzzle/build.go.                              *)
(***************************************************************************)
PickApprovedBots(p)   == {b \in Bots : PromptOf[b] = p}
PickApprovedDecoys(p) == {d \in Decoys : PromptOf[d] = p}

\* A broken form: any approved lines, whatever their kind, even one twice.
ComposeAnyLines(p) == [Slots -> PickApprovedBots(p) \cup PickApprovedDecoys(p)]

\* The answers a round of prompt p can get; none when the pool is too small.
ComposeRoundAnswers(p) ==
  {lines \in [Slots -> PickApprovedBots(p) \cup PickApprovedDecoys(p)] :
     /\ \A s \in Slots : lines[s] \in Bots <=> s = 0
     /\ IsInjective(lines)}

\* The puzzle that may be there at the start came out of a composition.
ASSUME BuiltAssumption ==
  \A built \in Built :
    built \in Bundle /\ \A i \in Indices : /\ built[i].prompt \in Prompts
                                           /\ built[i].lines \in ComposeRoundAnswers(built[i].prompt)

\* SelectPrompts takes any prompts, whether or not they have enough lines.
SelectPrompts == {plan \in [Indices -> Prompts] : IsInjective(plan)}

-----------------------------------------------------------------------------
(***************************************************************************)
(* A command between two of its statements.  pc names the next one, plan   *)
(* the prompts of the rounds still to write.  alone: no other command was  *)
(* under way at any time since this one began; late: a play was created    *)
(* since then.                                                             *)
(***************************************************************************)
Idle == [pc |-> "idle"]

NoPlan == [i \in {} |-> None]
NoLine == [i |-> 0, slot |-> 0, in |-> None, prompt |-> None, edition |-> 0]

\* A command that names its puzzle by number or date, ...
ByNumber(verb, pc, number, date, plan) ==
  [verb |-> verb, pc |-> pc, number |-> number, date |-> date, id |-> 0,
   plan |-> plan, line |-> NoLine, alone |-> TRUE, late |-> FALSE]

\* ... and one that has looked up its id.
ById(verb, pc, id, plan, line) ==
  [verb |-> verb, pc |-> pc, number |-> 0, date |-> 0, id |-> id,
   plan |-> plan, line |-> line, alone |-> TRUE, late |-> FALSE]

Running == {o \in Ops : op[o].pc # "idle"}

Begin(o, command) ==
  /\ op[o] = Idle
  /\ command.verb \in Verbs[o]
  /\ runs < MaxRuns
  /\ runs' = runs + 1
  /\ op' = [other \in Ops |->
              IF other = o THEN [command EXCEPT !.alone = (Running = {})]
              ELSE IF other \in Running THEN [op[other] EXCEPT !.alone = FALSE]
              ELSE Idle]
  /\ UNCHANGED <<today, puzzle, round, plays, cache, reader, marks>>

Finish(o)  == op' = [op EXCEPT ![o] = Idle]
Goto(o, pc) == op' = [op EXCEPT ![o].pc = pc]

\* A broken form: the rounds are written from the last to the first.
LastIndex(o) == Max(DOMAIN op[o].plan)

NextIndex(o) == Min(DOMAIN op[o].plan)

Mark(id, m) == marks' = [marks EXCEPT ![id] = @ \cup m]

Edited(id) == IF PuzzleHasPlays(id) THEN {"edited"} ELSE {}

\* The command has written the prompt of a round and not yet its answers.
Rewriting(o, id, i) == op[o].pc = "answers" /\ op[o].id = id /\ NextIndex(o) = i

-----------------------------------------------------------------------------
(***************************************************************************)
(* The commands, up to their first write.                                  *)
(***************************************************************************)
\* puzzle create: an empty puzzle for a date that has none.
PuzzleCreate(o, d) ==
  /\ PuzzleByDate(d) = {}
  /\ Begin(o, ByNumber("create", "number", 0, d, NoPlan))

\* puzzle-build: never looks whether the date has a puzzle.  It takes its
\* prompts after the insert; they are the same earlier.
RunBuild(o, d, plan) ==
  Begin(o, ByNumber("build", "number", 0, d, plan))

\* puzzle schedule, one day of its loop: ComposeOne for a date without a
\* puzzle, with any prompts.
ComposeOne(o, d) ==
  \E plan \in SelectPrompts : Begin(o, ByNumber("schedule", "number", 0, d, plan))

PuzzleSchedule(o, d) == PuzzleByDate(d) = {} /\ ComposeOne(o, d)

\* puzzle compose: the puzzle of the date again unless it has plays, else a
\* new one.  Named prompts may repeat.
PuzzleCompose(o, d, plan) ==
  \/ \E id \in PuzzleByDate(d) :
       /\ ~PuzzleHasPlays(id)
       /\ Begin(o, ByNumber("compose", "insert", puzzle[id].number, d, plan))
  \/ /\ PuzzleByDate(d) = {}
     /\ Begin(o, ByNumber("compose", "number", 0, d, plan))

\* A broken form: edit without the check for plays.
EditPlayedToo(o, n, d) ==
  \E id \in PuzzleByNumber(n) : Begin(o, ByNumber("edit", "update", n, d, NoPlan))

\* puzzle edit: UpdateDailyPuzzle reads, then updates by number.
PuzzleEdit(o, n, d) ==
  \E id \in PuzzleByNumber(n) :
    /\ ~PuzzleHasPlays(id)
    /\ Begin(o, ByNumber("edit", "update", n, d, NoPlan))

\* puzzle set-round: any index, whether or not the ones before it are filled.
PuzzleSetRound(o, n, i, p) ==
  \E id \in PuzzleByNumber(n) :
    /\ ~PuzzleHasPlays(id)
    /\ Begin(o, ById("set-round", "round", id, [j \in {i} |-> p], NoLine))

\* A broken form: a line that was written for any prompt.
SetAnyLine(o, n, i, s, in) ==
  \E id \in PuzzleByNumber(n) :
    /\ round[id][i].prompt # None
    /\ Begin(o, ById("set-answer", "check", id, NoPlan,
                     [i |-> i, slot |-> s, in |-> in, prompt |-> round[id][i].prompt, edition |-> 0]))

\* puzzle set-answer: a line of the prompt that the round has now, bot or
\* decoy, for the answer of one slot, or None to override its text alone.
PuzzleSetAnswer(o, n, i, s, in) ==
  \E id \in PuzzleByNumber(n) :
    /\ round[id][i].prompt # None
    /\ in # None => PromptOf[in] = round[id][i].prompt
    /\ Begin(o, ById("set-answer", "check", id, NoPlan,
                     [i |-> i, slot |-> s, in |-> in, prompt |-> round[id][i].prompt, edition |-> 0]))

\* puzzle delete.
PuzzleDelete(o, n) ==
  \E id \in PuzzleByNumber(n) :
    /\ ~PuzzleHasPlays(id)
    /\ Begin(o, ByNumber("delete", "delete", n, 0, NoPlan))

FromFile(file, verb, pc) == ByNumber(verb, pc, file.number, file.date, file.plan)

\* puzzle replace: the operator has confirmed the number of plays there are.
PuzzleReplace(o, file) ==
  /\ PuzzleByNumber(file.number) # {}
  /\ Begin(o, FromFile(file, "replace", "destroy"))

\* import: straight to the upsert of the file's number.
RunImport(o, file) == Begin(o, FromFile(file, "import", "insert"))

\* Make puzzle in the review terminal: the next round of the open puzzle, or
\* the first round of a new one.
AssembleRound(o, p) ==
  \/ \E id \in OpenPuzzle :
       Begin(o, ById("assemble", "round", id, [i \in {Cardinality(Filled(id))} |-> p], NoLine))
  \/ /\ OpenPuzzle = {}
     /\ Begin(o, ByNumber("assemble", "number", 0, 0, [i \in {0} |-> p]))

-----------------------------------------------------------------------------
(***************************************************************************)
(* The statements.                                                         *)
(***************************************************************************)
\* SELECT max(puzzle_number); make-puzzle then reads the date in another one.
ReadNumber(o) ==
  /\ op[o].pc = "number"
  /\ op' = [op EXCEPT ![o].number = NextPuzzleNumber,
                      ![o].pc = IF op[o].verb = "assemble" THEN "date" ELSE "insert"]
  /\ UNCHANGED <<today, puzzle, round, plays, cache, reader, marks, runs>>

ReadDate(o) ==
  /\ op[o].pc = "date"
  /\ op' = [op EXCEPT ![o].date = NextPuzzleDate, ![o].pc = "insert"]
  /\ UNCHANGED <<today, puzzle, round, plays, cache, reader, marks, runs>>

\* INSERT ... ON CONFLICT (puzzle_number) DO UPDATE puzzle_date.
InsertDailyPuzzle(o) ==
  LET fresh  == {id \in Ids : puzzle[id] = Absent}
      target == IF PuzzleByNumber(op[o].number) # {} THEN PuzzleByNumber(op[o].number)
                ELSE {id \in fresh : \A other \in fresh : id <= other}
  IN  /\ op[o].pc = "insert"
      /\ \E id \in target :
           /\ puzzle' = [puzzle EXCEPT ![id] =
                           [state |-> "present", number |-> op[o].number, date |-> op[o].date]]
           /\ op' = [op EXCEPT ![o] = IF op[o].plan = NoPlan THEN Idle
                                      ELSE [op[o] EXCEPT !.id = id, !.pc = "round"]]
      /\ UNCHANGED <<today, round, plays, cache, reader, marks, runs>>

\* INSERT ... ON CONFLICT (daily_puzzle_id, round_index) DO UPDATE prompt_id:
\* the answers of a round that is there already stay.
InsertPuzzleRound(o) ==
  LET id == op[o].id
      i  == NextIndex(o)
      clash == \E other \in Ops \ {o} : Rewriting(other, id, i)
  IN  /\ op[o].pc = "round"
      /\ id \in Present
      /\ round' = [round EXCEPT ![id][i].prompt = op[o].plan[i]]
      /\ Goto(o, "answers")
      /\ Mark(id, Edited(id) \cup (IF clash THEN {"torn"} ELSE {})
                             \cup (IF op[o].verb = "set-round" THEN {"patched"} ELSE {}))
      /\ UNCHANGED <<today, puzzle, plays, cache, reader, runs>>

\* DELETE and INSERT of the answers in one transaction: new ids, new order.
ReplaceRoundAnswers(o) ==
  LET id   == op[o].id
      i    == NextIndex(o)
      rest == Restrict(op[o].plan, DOMAIN op[o].plan \ {i})
  IN  /\ op[o].pc = "answers"
      /\ id \in Present
      /\ \E lines \in ComposeRoundAnswers(op[o].plan[i]) :
           round' = [round EXCEPT ![id][i].lines = lines, ![id][i].edition = @ + 1]
      /\ op' = [op EXCEPT ![o] = IF rest # NoPlan THEN [op[o] EXCEPT !.plan = rest, !.pc = "round"]
                                 ELSE IF op[o].verb = "build" THEN [op[o] EXCEPT !.pc = "evict"]
                                 ELSE Idle]
      /\ Mark(id, Edited(id))
      /\ UNCHANGED <<today, puzzle, plays, cache, reader, runs>>

\* No answers for the round: the pool is too small for random picks, or the
\* operator named a line that is not approved for the prompt.  A file brings
\* its own lines.
RejectPicks(o) ==
  /\ op[o].pc = "answers" /\ op[o].verb \notin {"import", "replace"}
  /\ op[o].verb \in {"build", "schedule"} => ComposeRoundAnswers(op[o].plan[NextIndex(o)]) = {}
  /\ Finish(o)
  /\ Mark(op[o].id, {"torn"})
  /\ UNCHANGED <<today, puzzle, round, plays, cache, reader, runs>>

\* A round or its puzzle that was deleted meanwhile: the foreign key refuses.
RefusedByForeignKey(o) ==
  /\ \/ op[o].pc \in {"round", "answers"} /\ op[o].id \notin Present
     \/ op[o].pc = "delete" /\ \E id \in PuzzleByNumber(op[o].number) : PuzzleHasPlays(id)
     \/ op[o].pc \in {"destroy", "delete", "update"} /\ PuzzleByNumber(op[o].number) = {}
  /\ Finish(o)
  /\ UNCHANGED <<today, puzzle, round, plays, cache, reader, marks, runs>>

\* The last statement of UpdateDailyPuzzle.
UpdateDailyPuzzle(o) ==
  /\ op[o].pc = "update"
  /\ \E id \in PuzzleByNumber(op[o].number) :
       puzzle' = [puzzle EXCEPT ![id].date = op[o].date]
  /\ Finish(o)
  /\ UNCHANGED <<today, round, plays, cache, reader, marks, runs>>

\* OverrideAnswerContent and OverrideAnswerText: the check for plays ...
CheckPlays(o) ==
  /\ op[o].pc = "check"
  /\ IF PuzzleHasPlays(op[o].id) THEN Finish(o) ELSE Goto(o, "locate")
  /\ UNCHANGED <<today, puzzle, round, plays, cache, reader, marks, runs>>

\* ... the ids of the answers, which nobody compares with the prompt that the
\* caller saw ...
LocateAnswer(o) ==
  LET id    == op[o].id
      line  == op[o].line
      row   == round[id][line.i]
      found == id \in Present /\ line.slot \in DOMAIN row.lines
  IN  /\ op[o].pc = "locate"
      /\ IF found
         THEN op' = [op EXCEPT ![o].line.edition = row.edition, ![o].pc = "override"]
         ELSE Finish(o)
      /\ IF found /\ line.in # None /\ line.prompt # row.prompt
         THEN Mark(id, {"torn"}) ELSE UNCHANGED marks
      /\ UNCHANGED <<today, puzzle, round, plays, cache, reader, runs>>

\* ... and the last statements, by the id of the answer row: they find nothing
\* when the answers were rewritten or deleted meanwhile.
AnswerRowIsThere(id, line) == id \in Present /\ line.edition = round[id][line.i].edition

OverrideAnswerContent(o) ==
  LET id   == op[o].id
      line == op[o].line
  IN  /\ op[o].pc = "override" /\ line.in # None
      /\ IF AnswerRowIsThere(id, line)
         THEN /\ round' = [round EXCEPT ![id][line.i].lines[line.slot] = line.in]
              /\ Mark(id, Edited(id) \cup {"overridden"})
         ELSE UNCHANGED <<round, marks>>
      /\ Finish(o)
      /\ UNCHANGED <<today, puzzle, plays, cache, reader, runs>>

OverrideAnswerText(o) ==
  LET id   == op[o].id
      line == op[o].line
  IN  /\ op[o].pc = "override" /\ line.in = None
      /\ IF AnswerRowIsThere(id, line)
         THEN /\ round' = [round EXCEPT ![id][line.i].texts = @ + 1]
              /\ Mark(id, Edited(id))
         ELSE UNCHANGED <<round, marks>>
      /\ Finish(o)
      /\ UNCHANGED <<today, puzzle, plays, cache, reader, runs>>

\* A deleted puzzle takes its rounds and answers with it.
Remove(id) ==
  /\ puzzle' = [puzzle EXCEPT ![id] = Gone]
  /\ round' = [round EXCEPT ![id] = [i \in Indices |-> NoRound]]

\* The last statement of DeleteDailyPuzzle; plays of the puzzle forbid it.
DeleteDailyPuzzle(o) ==
  /\ op[o].pc = "delete"
  /\ \E id \in PuzzleByNumber(op[o].number) : ~PuzzleHasPlays(id) /\ Remove(id)
  /\ Finish(o)
  /\ UNCHANGED <<today, plays, cache, reader, marks, runs>>

\* One transaction: the plays, those made since the count too, and the puzzle.
DeleteDailyPuzzleAndPlays(o) ==
  /\ op[o].pc = "destroy"
  /\ \E id \in PuzzleByNumber(op[o].number) :
       /\ Remove(id)
       /\ plays' = [plays EXCEPT ![id] = 0]
  /\ Goto(o, "insert")
  /\ UNCHANGED <<today, cache, reader, marks, runs>>

\* Only puzzle-build ends with this; the Del may be lost (cache.go).
InvalidateRoundsBundle(o) ==
  /\ op[o].pc = "evict"
  /\ cache' \in {cache, [cache EXCEPT ![op[o].id] = {}]}
  /\ Finish(o)
  /\ UNCHANGED <<today, puzzle, round, plays, reader, marks, runs>>

\* The process dies, or a statement fails, before its next statement.
Die(o) ==
  /\ op[o] # Idle
  /\ Finish(o)
  /\ IF op[o].pc = "answers" THEN Mark(op[o].id, {"torn"}) ELSE UNCHANGED marks
  /\ UNCHANGED <<today, puzzle, round, plays, cache, reader, runs>>

-----------------------------------------------------------------------------
(***************************************************************************)
(* Players and time.                                                       *)
(***************************************************************************)
NotReading == [pc |-> "idle"]

Read(id, pc, got) == [pc |-> pc, id |-> id, got |-> got]

EmptyBundle == [i \in Indices |-> NoRound]

\* A broken form: the rounds are read before there is a play.
ReadBeforePlay(q) ==
  /\ reader[q] = NotReading
  /\ \E id \in LatestPuzzle(today) :
       reader' = [reader EXCEPT ![q] = Read(id, "load", EmptyBundle)]
  /\ UNCHANGED <<today, puzzle, round, plays, cache, op, marks, runs>>

\* A page load creates or finds the player's play of the latest puzzle ...
CreateOrGetPlay(q) ==
  /\ reader[q] = NotReading
  /\ \E id \in LatestPuzzle(today) :
       /\ \/ plays[id] < MaxPlays /\ plays' = [plays EXCEPT ![id] = @ + 1]
          \/ plays[id] > 0 /\ UNCHANGED plays
       /\ reader' = [reader EXCEPT ![q] = Read(id, "load", EmptyBundle)]
       /\ op' = [o \in Ops |-> IF o \in Running /\ plays' # plays
                               THEN [op[o] EXCEPT !.late = TRUE] ELSE op[o]]
  /\ UNCHANGED <<today, puzzle, round, cache, marks, runs>>

\* ... then takes the bundle from the cache, or reads the rounds and their
\* answers from Postgres (one step: a write in between is a write to a puzzle
\* that has plays) ...
LoadRoundsBundle(q) ==
  LET id == reader[q].id
  IN  /\ reader[q].pc = "load"
      /\ reader' = [reader EXCEPT ![q] = IF cache[id] # {} THEN NotReading
                                         ELSE Read(id, "set", round[id])]
      /\ UNCHANGED <<today, puzzle, round, plays, cache, op, marks, runs>>

\* ... and stores what it has read.
SetBundle(q) ==
  /\ reader[q].pc = "set"
  /\ cache' = [cache EXCEPT ![reader[q].id] = {reader[q].got}]
  /\ reader' = [reader EXCEPT ![q] = NotReading]
  /\ UNCHANGED <<today, puzzle, round, plays, op, marks, runs>>

\* The hour of the entry is over.
Expire(id) ==
  /\ cache[id] # {}
  /\ cache' = [cache EXCEPT ![id] = {}]
  /\ UNCHANGED <<today, puzzle, round, plays, op, reader, marks, runs>>

Midnight ==
  /\ today < LastDay
  /\ today' = today + 1
  /\ UNCHANGED <<puzzle, round, plays, cache, op, reader, marks, runs>>

-----------------------------------------------------------------------------
Init ==
  /\ today = 1
  /\ \/ Built = {} /\ puzzle = [id \in Ids |-> Absent] /\ round = [id \in Ids |-> EmptyBundle]
     \/ \E built \in Built :
          /\ puzzle = [id \in Ids |-> IF id = 1 THEN [state |-> "present", number |-> 1, date |-> LastDay]
                                     ELSE Absent]
          /\ round = [id \in Ids |-> IF id = 1 THEN built ELSE EmptyBundle]
  /\ plays = [id \in Ids |-> 0]
  /\ cache = [id \in Ids |-> {}]
  /\ op = [o \in Ops |-> Idle]
  /\ reader = [q \in Readers |-> NotReading]
  /\ marks = [id \in Ids |-> {}]
  /\ runs = 0

\* The dates an operator names, today or later (a bound: the commands take
\* any), and the numbers.
Coming  == today..LastDay
Numbers == {puzzle[id].number : id \in Present}

Start(o) ==
  \/ \E d \in Coming : PuzzleCreate(o, d) \/ PuzzleSchedule(o, d)
  \/ \E plan \in SelectPrompts : RunBuild(o, today + 1, plan)   \* tomorrow, as the cron runs it
  \/ \E d \in Coming, plan \in Plans : PuzzleCompose(o, d, plan)
  \/ \E file \in Files : RunImport(o, file) \/ PuzzleReplace(o, file)
  \/ \E n \in Numbers :
       \/ PuzzleDelete(o, n)
       \/ \E d \in Coming : PuzzleEdit(o, n, d)
       \/ \E i \in Indices : \/ \E p \in Prompts : PuzzleSetRound(o, n, i, p)
       \/ \E swap \in Swaps : PuzzleSetAnswer(o, n, swap.i, swap.slot, swap.in)
  \/ \E p \in Prompts : AssembleRound(o, p)

Statement(o) ==
  \/ ReadNumber(o) \/ ReadDate(o) \/ InsertDailyPuzzle(o)
  \/ InsertPuzzleRound(o) \/ ReplaceRoundAnswers(o) \/ RejectPicks(o)
  \/ RefusedByForeignKey(o) \/ UpdateDailyPuzzle(o)
  \/ CheckPlays(o) \/ LocateAnswer(o) \/ OverrideAnswerContent(o) \/ OverrideAnswerText(o)
  \/ DeleteDailyPuzzle(o) \/ DeleteDailyPuzzleAndPlays(o)
  \/ InvalidateRoundsBundle(o)

Page(q) == CreateOrGetPlay(q) \/ LoadRoundsBundle(q) \/ SetBundle(q)

Next ==
  \/ \E o \in Ops : Start(o) \/ Statement(o) \/ Die(o)
  \/ \E q \in Readers : Page(q)
  \/ \E id \in Ids : Expire(id)
  \/ Midnight

Spec == Init /\ [][Next]_vars

-----------------------------------------------------------------------------
(***************************************************************************)
(* Properties.                                                             *)
(***************************************************************************)
CommandRow ==
  [verb : {"create", "build", "schedule", "compose", "edit", "set-round", "set-answer",
           "delete", "replace", "import", "assemble"},
   pc : {"number", "date", "insert", "round", "answers", "evict", "update", "check", "locate", "override",
         "delete", "destroy"},
   number : Nat, date : Nat, id : Ids \cup {0},
   plan : UNION {[S -> Prompts] : S \in SUBSET Indices},
   line : [i : Indices, slot : Slots, in : Lines \cup {None}, prompt : Prompts \cup {None},
           edition : Nat],
   alone : BOOLEAN, late : BOOLEAN]

ReaderRow == [pc : {"load", "set"}, id : Ids, got : Bundle]

\* Types of the rows, of the cache and of the locals of commands and requests.
TypeOK ==
  /\ today \in Days
  /\ puzzle \in [Ids -> PuzzleRow \cup {Absent, Gone}]
  /\ round \in [Ids -> Bundle]
  /\ plays \in [Ids -> 0..MaxPlays]
  /\ cache \in [Ids -> SUBSET Bundle] /\ \A id \in Ids : Cardinality(cache[id]) <= 1
  /\ op \in [Ops -> CommandRow \cup {Idle}]
  /\ reader \in [Readers -> ReaderRow \cup {NotReading}]
  /\ marks \in [Ids -> SUBSET Marks]
  /\ runs \in 0..MaxRuns

\* A page load creates its play before it reads the rounds, and the commands
\* refuse a puzzle with plays: a cached bundle is what Postgres holds, unless
\* some command wrote a round of a puzzle that already had plays.
BundleCurrent ==
  \A id \in Present : "edited" \notin marks[id] => cache[id] \subseteq {round[id]}

\* A puzzle that has plays keeps its rounds, its answers and its date: only a
\* command that had begun before the latest play was created gets past its
\* own check, or one that has no check: an import and Make puzzle.
PlayedPuzzleFixed ==
  [][\A id \in Ids :
       plays[id] > 0 /\ plays'[id] > 0 /\ <<puzzle[id], round[id]>>' # <<puzzle[id], round[id]>> =>
         \E o \in Running : op'[o] # op[o] /\ (op[o].late \/ op[o].verb \in {"import", "assemble"})]_vars

\* The answers of a round were written for its prompt, unless a command
\* stopped between the two statements, is between them, two of them wrote the
\* round at once, or one did while set-answer looked for its slot.
AnswersFitPrompt ==
  \A id \in Present : \A i \in Indices :
    \/ "torn" \in marks[id]
    \/ \E o \in Ops : Rewriting(o, id, i)
    \/ \A s \in DOMAIN round[id][i].lines : PromptOf[round[id][i].lines[s]] = round[id][i].prompt

\* The play handlers find a round by its place among the rounds read, not by
\* its index (play_handlers.go:260, :688): the two agree for a puzzle on which
\* set-round was not used, at every moment of its composition.
RoundsInPosition ==
  \A id \in Present : "patched" \in marks[id] \/ Filled(id) = 0..(Cardinality(Filled(id)) - 1)

\* Every round is one bot and the rest decoys, all different, unless
\* set-answer put another line into it.
OneBotPerRound ==
  \A id \in Present : \A i \in Indices :
    LET lines == round[id][i].lines
    IN  \/ lines = NoAnswers \/ "overridden" \in marks[id]
        \/ IsInjective(lines) /\ Cardinality({s \in Slots : lines[s] \in Bots}) = 1

\* A command that took a free number, with no other command around, neither
\* takes over a puzzle that is there nor writes over a round of it.
AloneTakesNothingOver ==
  [][\A o \in Running : \A id \in Present :
       op[o].alone /\ op[o].verb \in {"create", "build", "schedule", "assemble"} /\ op'[o] # op[o] =>
         /\ puzzle'[id] = puzzle[id]
         /\ \A i \in Filled(id) \ (IF op[o].pc = "answers" /\ op[o].id = id THEN {NextIndex(o)} ELSE {}) :
              "patched" \in marks[id] \/ round'[id][i] = round[id][i]]_vars

\* What the review terminal promises of a sealed puzzle: a puzzle of a date
\* is served on that date, if there is one.
ServedOnItsDay ==
  \A id \in Present : puzzle[id].date = today /\ Filled(id) = Indices =>
    \E served \in LatestPuzzle(today) : puzzle[served].date = today
=============================================================================
