--------------------------- MODULE PuzzlesProofs ---------------------------
(***************************************************************************)
(* Puzzles stay well formed whichever commands, page loads and crashes     *)
(* overlap, for any numbers of puzzles, rounds, lines, commands and        *)
(* readers.                                                                *)
(***************************************************************************)
EXTENDS Puzzles, FiniteSetTheorems, WellFoundedInduction, TLAPS

-----------------------------------------------------------------------------
(***************************************************************************)
(* Least and greatest numbers.                                             *)
(***************************************************************************)
Before == {pair \in Nat \X Nat : pair[1] < pair[2]}

LEMMA BeforeIsWellFounded == IsWellFoundedOn(Before, Nat)
BY NatLessThanWellFounded DEF OpToRel, Before

LEMMA MinOfSet ==
  ASSUME NEW S, S \subseteq Nat, S # {}
  PROVE  Min(S) \in S /\ \A y \in S : Min(S) <= y
<1>1. PICK x \in S : \A y \in S : ~(<<y, x>> \in Before)
  BY BeforeIsWellFounded, WFMin
<1>2. \A m, n \in Nat : m < n => <<m, n>> \in Before
  BY DEF Before
<1>3. \A y \in S : ~(y < x)
  BY <1>1, <1>2
<1>4. \A y \in S : x <= y
  BY <1>3
<1>5. QED
  BY <1>4, Zenon DEF Min

LEMMA MaxOfSet ==
  ASSUME NEW S, S \subseteq Nat, S # {}, NEW bound \in Nat, \A x \in S : x <= bound
  PROVE  Max(S) \in S /\ \A y \in S : Max(S) >= y
<1> DEFINE Below == {bound - x : x \in S}
<1>1. \A x \in S : bound - x \in Nat
  OBVIOUS
<1>2. Below \subseteq Nat /\ Below # {}
  BY <1>1
<1>3. Min(Below) \in Below /\ \A y \in Below : Min(Below) <= y
  BY <1>2, MinOfSet
<1>4. PICK x \in S : Min(Below) = bound - x
  BY <1>3
<1>5. \A y \in S : x >= y
  <2> TAKE y \in S
  <2>1. bound - x <= bound - y
    BY <1>3, <1>4
  <2>2. QED
    BY <2>1
<1>6. QED
  BY <1>5, Zenon DEF Max

\* Numbers given to the members of a finite set have a bound: a smallest set
\* without one would have a member whose removal leaves one.
LEMMA FiniteBound ==
  ASSUME NEW D, IsFiniteSet(D), NEW f \in [D -> Nat]
  PROVE  \E bound \in Nat : \A x \in D : f[x] <= bound
<1> DEFINE Unbounded == {T \in SUBSET D : ~ \E bound \in Nat : \A x \in T : f[x] <= bound}
<1>1. IsWellFoundedOn(StrictSubsetOrdering(D), SUBSET D)
  BY FS_StrictSubsetOrderingWellFounded, FS_FiniteSubsetsOfFinite
<1>2. SUFFICES ASSUME Unbounded # {} PROVE FALSE
  BY <1>2, D \in SUBSET D
<1>3. PICK T \in Unbounded : \A U \in Unbounded : ~(<<U, T>> \in StrictSubsetOrdering(D))
  BY <1>1, <1>2, WFMin
<1>4. PICK x \in T : TRUE
  <2>1. T # {}
    OBVIOUS
  <2>2. QED
    BY <2>1
<1>5. T \ {x} \notin Unbounded
  BY <1>3, <1>4 DEF StrictSubsetOrdering
<1>6. PICK bound \in Nat : \A y \in T \ {x} : f[y] <= bound
  BY <1>5
<1>7. \A y \in T : f[y] <= bound + f[x]
  BY <1>6
<1>8. bound + f[x] \in Nat
  OBVIOUS
<1>9. QED
  BY <1>7, <1>8
-----------------------------------------------------------------------------
(***************************************************************************)
(* Types.                                                                  *)
(***************************************************************************)
\* The locals that a command's next statement relies on.
CommandsFit ==
  \A o \in Ops :
    /\ op[o].pc \in {"round", "answers", "evict", "check", "locate", "override"} =>
         op[o].id \in Ids /\ puzzle[op[o].id] # Absent
    /\ op[o].pc \in {"round", "answers"} => op[o].plan # NoPlan
    /\ op[o].pc \in {"check", "locate"} /\ op[o].line.in # None =>
         PromptOf[op[o].line.in] = op[o].line.prompt

Typed == TypeOK /\ CommandsFit

LEMMA Sizes ==
  /\ MaxPuzzles \in Nat /\ Ids \subseteq Nat /\ 0 \notin Ids /\ Days \subseteq Nat /\ 1 \in Days
  /\ NumRounds \in Nat /\ Indices \subseteq Nat /\ 0 \in Indices
  /\ IsFiniteSet(Ids) /\ IsFiniteSet(Indices)
  /\ None \notin Prompts /\ None \notin Lines /\ Lines = Bots \cup Decoys
  /\ 0 \in Slots
  /\ \A n \in Nat : n < NumRounds <=> n \in Indices
BY PuzzlesAssumption, FS_Interval DEF Ids, Days, Indices, Slots, Lines

LEMMA States ==
  /\ Absent \notin PuzzleRow /\ Gone \notin PuzzleRow /\ Absent # Gone
  /\ TypeOK => \A id \in Ids : /\ id \in Present <=> puzzle[id] \in PuzzleRow
                               /\ id \in Present => /\ puzzle[id].number \in Nat
                                                    /\ puzzle[id].date \in Nat
                                                    /\ puzzle[id] # Absent /\ puzzle[id] # Gone
BY DEF TypeOK, PuzzleRow, Absent, Gone, Present

LEMMA RoundFields ==
  ASSUME TypeOK, NEW id \in Ids, NEW i \in Indices
  PROVE  /\ round[id][i] \in RoundRow /\ round[id][i].edition \in Nat
         /\ round[id][i].prompt \in Prompts \cup {None}
         /\ round[id][i].lines \in [Slots -> Lines] \cup {NoAnswers}
<1>1. round[id] \in Bundle
  BY DEF TypeOK
<1>2. round[id][i] \in RoundRow
  BY <1>1 DEF Bundle
<1>3. QED
  BY <1>2 DEF RoundRow

LEMMA Unplayed ==
  ASSUME TypeOK, NEW id \in Ids
  PROVE  plays[id] \in Nat /\ (~PuzzleHasPlays(id) <=> plays[id] = 0)
<1>1. plays[id] \in 0..MaxPlays /\ 0..MaxPlays \subseteq Nat
  BY PuzzlesAssumption DEF TypeOK
<1>2. plays[id] \in Nat
  BY <1>1
<1>3. QED
  BY <1>2 DEF PuzzleHasPlays

LEMMA CommandFields ==
  ASSUME TypeOK, NEW o \in Ops, op[o] # Idle
  PROVE  op[o] \in CommandRow
BY DEF TypeOK

LEMMA IdleFields == Idle.pc = "idle" /\ \A c \in CommandRow : c.pc # "idle" /\ c # Idle
BY DEF Idle, CommandRow

\* A plan is a partial assignment of prompts to rounds.
LEMMA PlanFields ==
  ASSUME NEW c \in CommandRow
  PROVE  /\ DOMAIN c.plan \subseteq Indices /\ c.plan \in [DOMAIN c.plan -> Prompts]
         /\ c.plan # NoPlan <=> DOMAIN c.plan # {}
<1>1. PICK S \in SUBSET Indices : c.plan \in [S -> Prompts]
  BY DEF CommandRow
<1>2. DOMAIN NoPlan = {}
  BY DEF NoPlan
<1>3. ASSUME S = {} PROVE c.plan = NoPlan
  BY <1>1, <1>3 DEF NoPlan
<1>4. QED
  BY <1>1, <1>2, <1>3

LEMMA NextOfPlan ==
  ASSUME NEW o \in Ops, op[o] \in CommandRow, op[o].plan # NoPlan
  PROVE  /\ NextIndex(o) \in DOMAIN op[o].plan /\ NextIndex(o) \in Indices
         /\ op[o].plan[NextIndex(o)] \in Prompts
         /\ \A j \in DOMAIN op[o].plan : NextIndex(o) <= j
<1>1. /\ DOMAIN op[o].plan \subseteq Indices /\ DOMAIN op[o].plan # {}
      /\ op[o].plan \in [DOMAIN op[o].plan -> Prompts]
  BY PlanFields
<1>2. DOMAIN op[o].plan \subseteq Nat
  BY <1>1, Sizes
<1>3. NextIndex(o) \in DOMAIN op[o].plan /\ \A j \in DOMAIN op[o].plan : NextIndex(o) <= j
  BY <1>1, <1>2, MinOfSet DEF NextIndex
<1>4. QED
  BY <1>1, <1>3

LEMMA LastNumber ==
  ASSUME TypeOK
  PROVE  /\ NextPuzzleNumber \in Nat
         /\ \A id \in Present : puzzle[id].number < NextPuzzleNumber
         /\ NextPuzzleDate \in Nat
<1> DEFINE number == [id \in Present |-> puzzle[id].number]
           date   == [id \in Present |-> puzzle[id].date]
           numbers == {puzzle[id].number : id \in Present}
           dates   == {puzzle[id].date : id \in Present}
<1>1. IsFiniteSet(Present)
  <2>1. Present \in SUBSET Ids
    BY DEF Present
  <2>2. QED
    BY <2>1, Sizes, FS_Subset
<1>2. number \in [Present -> Nat] /\ date \in [Present -> Nat]
  <2>1. \A id \in Present : puzzle[id].number \in Nat /\ puzzle[id].date \in Nat
    BY States DEF Present
  <2>2. QED
    BY <2>1
<1>3. PICK bound \in Nat : \A id \in Present : puzzle[id].number <= bound
  <2> HIDE DEF number
  <2>1. PICK bound \in Nat : \A id \in Present : number[id] <= bound
    BY <1>1, <1>2, FiniteBound
  <2>2. QED
    BY <2>1 DEF number
<1>4. PICK last \in Nat : \A id \in Present : puzzle[id].date <= last
  <2> HIDE DEF date
  <2>1. PICK last \in Nat : \A id \in Present : date[id] <= last
    BY <1>1, <1>2, FiniteBound
  <2>2. QED
    BY <2>1 DEF date
<1>5. {0} \cup numbers \subseteq Nat /\ dates \subseteq Nat
  BY States DEF Present
<1>6. Max({0} \cup numbers) \in Nat /\ \A n \in {0} \cup numbers : Max({0} \cup numbers) >= n
  <2>1. \A n \in {0} \cup numbers : n <= bound
    BY <1>3
  <2>2. QED
    BY <1>5, <2>1, MaxOfSet
<1>7. ASSUME Present # {} PROVE Max(dates) \in Nat
  <2>1. dates # {} /\ \A d \in dates : d <= last
    BY <1>4, <1>7
  <2>2. QED
    BY <1>5, <2>1, MaxOfSet
<1>8. NextPuzzleNumber \in Nat /\ \A id \in Present : puzzle[id].number < NextPuzzleNumber
  <2>1. \A id \in Present : puzzle[id].number \in {0} \cup numbers
    OBVIOUS
  <2>2. NextPuzzleNumber = 1 + Max({0} \cup numbers)
    BY DEF NextPuzzleNumber
  <2> HIDE DEF numbers
  <2>3. \A id \in Present : puzzle[id].number \in Nat
    BY States DEF Present
  <2>4. QED
    BY <1>6, <2>1, <2>2, <2>3
<1>9. NextPuzzleDate \in Nat
  <2>1. today \in Nat
    BY Sizes DEF TypeOK
  <2>2. QED
    BY <1>7, <2>1 DEF NextPuzzleDate
<1>10. QED
  BY <1>8, <1>9
-----------------------------------------------------------------------------
(***************************************************************************)
(* A command that begins.                                                  *)
(***************************************************************************)
\* Numbers are unique, as the index on puzzle_number demands.
NumbersDiffer ==
  \A id \in Present : \A other \in Present : puzzle[id].number = puzzle[other].number => id = other

\* The commands that take a free number when they make a puzzle.
Takers == {"create", "build", "schedule", "assemble"}

\* The commands that do not look whether a puzzle has plays.
Careless == {"import", "assemble"}

\* What a command knows when it begins.
Opening(c) ==
  /\ c \in CommandRow /\ ~c.late
  /\ c.pc \in {"number", "insert", "round", "update", "check", "delete", "destroy"}
  /\ c.pc \in {"number", "insert", "destroy"} =>
       c.plan = NoPlan \/ DOMAIN c.plan = Indices \/ DOMAIN c.plan = {0}
  /\ c.pc = "round" =>
       /\ c.id \in Present
       /\ \E k \in Indices : /\ DOMAIN c.plan = {k}
                             /\ c.verb # "set-round" => k = Cardinality(Filled(c.id))
  /\ c.pc = "check" =>
       c.id \in Present /\ (c.line.in # None => PromptOf[c.line.in] = c.line.prompt)
  /\ c.verb \notin Careless =>
       /\ c.pc \in {"insert", "update", "delete"} =>
            \A id \in Present : puzzle[id].number = c.number => plays[id] = 0
       /\ c.pc = "round" => plays[c.id] = 0
  /\ c.verb \in Takers => c.pc \in {"number", "round"}

LineRow == [i : Indices, slot : Slots, in : Lines \cup {None}, prompt : Prompts \cup {None},
            edition : Nat]

LEMMA CommandIsTyped ==
  ASSUME NEW verb \in {"create", "build", "schedule", "compose", "edit", "set-round",
                       "set-answer", "delete", "replace", "import", "assemble"},
         NEW pc \in {"number", "insert", "round", "update", "check", "delete", "destroy"},
         NEW number \in Nat, NEW date \in Nat, NEW id \in Ids \cup {0},
         NEW S \in SUBSET Indices, NEW plan \in [S -> Prompts],
         NEW line \in LineRow
  PROVE  [verb |-> verb, pc |-> pc, number |-> number, date |-> date, id |-> id,
          plan |-> plan, line |-> line, alone |-> TRUE, late |-> FALSE] \in CommandRow
<1>1. plan \in UNION {[T -> Prompts] : T \in SUBSET Indices}
  OBVIOUS
<1>2. QED
  BY <1>1 DEF CommandRow, LineRow

LEMMA EmptyLocals ==
  /\ NoPlan \in [{} -> Prompts] /\ {} \in SUBSET Indices /\ Indices \in SUBSET Indices
  /\ NoLine \in LineRow
  /\ 0 \in Nat /\ 0 \in Ids \cup {0}
BY Sizes DEF NoPlan, NoLine, LineRow

\* A new command opens with what its checks have found.
LEMMA StartStep ==
  ASSUME TypeOK, NumbersDiffer, NEW o \in Ops, Start(o)
  PROVE  \E c : Opening(c) /\ Begin(o, c)
<1>1. \A d \in Coming : d \in Nat
  <2>1. today \in Nat /\ LastDay \in Nat
    BY PuzzlesAssumption, Sizes DEF TypeOK
  <2>2. QED
    BY <2>1 DEF Coming
<1>2. CASE \E d \in Coming : PuzzleCreate(o, d) \/ PuzzleSchedule(o, d)
  <2>1. PICK d \in Coming : PuzzleCreate(o, d) \/ PuzzleSchedule(o, d)
    BY <1>2
  <2>2. CASE PuzzleCreate(o, d)
    <3> DEFINE c == ByNumber("create", "number", 0, d, NoPlan)
    <3>1. Opening(c)
      BY <1>1, EmptyLocals, CommandIsTyped
         DEF Opening, ByNumber, ById, Careless, Takers
    <3>2. QED
      BY <2>2, <3>1 DEF PuzzleCreate
  <2>3. CASE PuzzleSchedule(o, d)
    <3>1. PICK plan \in SelectPrompts :
            Begin(o, ByNumber("schedule", "number", 0, d, plan))
      BY <2>3 DEF PuzzleSchedule, ComposeOne
    <3> DEFINE c == ByNumber("schedule", "number", 0, d, plan)
    <3>2. plan \in [Indices -> Prompts]
      BY DEF SelectPrompts
    <3>3. Opening(c)
      BY <1>1, <3>2, EmptyLocals, CommandIsTyped
         DEF Opening, ByNumber, ById, Careless, Takers
    <3>4. QED
      BY <3>1, <3>3
  <2>4. QED
    BY <2>1, <2>2, <2>3
<1>3. CASE \E plan \in SelectPrompts : RunBuild(o, today + 1, plan)
  <2>1. PICK plan \in SelectPrompts : RunBuild(o, today + 1, plan)
    BY <1>3
  <2> DEFINE c == ByNumber("build", "number", 0, today + 1, plan)
  <2>2. plan \in [Indices -> Prompts] /\ today + 1 \in Nat
    <3>1. today \in Nat
      BY Sizes DEF TypeOK
    <3>2. plan \in [Indices -> Prompts]
      BY DEF SelectPrompts
    <3>3. QED
      BY <3>1, <3>2
  <2>3. Opening(c)
    BY <2>2, EmptyLocals, CommandIsTyped
         DEF Opening, ByNumber, ById, Careless, Takers
  <2>4. QED
    BY <2>1, <2>3 DEF RunBuild
<1>4. CASE \E d \in Coming, plan \in Plans : PuzzleCompose(o, d, plan)
  <2>1. PICK d \in Coming, plan \in Plans : PuzzleCompose(o, d, plan)
    BY <1>4
  <2>2. plan \in [Indices -> Prompts]
    BY PuzzlesAssumption
  <2>3. ASSUME NEW id \in PuzzleByDate(d), ~PuzzleHasPlays(id),
               Begin(o, ByNumber("compose", "insert", puzzle[id].number, d, plan))
        PROVE  \E c : Opening(c) /\ Begin(o, c)
    <3> DEFINE c == ByNumber("compose", "insert", puzzle[id].number, d, plan)
    <3>1. id \in Present /\ id \in Ids
      BY DEF PuzzleByDate, Present
    <3>2. puzzle[id].number \in Nat
      BY <3>1, States
    <3>3. \A other \in Present : puzzle[other].number = puzzle[id].number => plays[other] = 0
      <4>1. plays[id] = 0
        BY <2>3, <3>1, Unplayed
      <4>2. QED
        BY <3>1, <4>1 DEF NumbersDiffer
    <3>4. Opening(c)
      BY <1>1, <2>2, <3>2, <3>3, EmptyLocals, CommandIsTyped
         DEF Opening, ByNumber, ById, Careless, Takers
    <3>5. QED
      BY <2>3, <3>4
  <2>4. ASSUME Begin(o, ByNumber("compose", "number", 0, d, plan))
        PROVE  \E c : Opening(c) /\ Begin(o, c)
    <3> DEFINE c == ByNumber("compose", "number", 0, d, plan)
    <3>1. Opening(c)
      BY <1>1, <2>2, EmptyLocals, CommandIsTyped
         DEF Opening, ByNumber, ById, Careless, Takers
    <3>2. QED
      BY <2>4, <3>1
  <2>5. QED
    BY <2>1, <2>3, <2>4 DEF PuzzleCompose
<1>5. CASE \E file \in Files : RunImport(o, file) \/ PuzzleReplace(o, file)
  <2>1. PICK file \in Files : RunImport(o, file) \/ PuzzleReplace(o, file)
    BY <1>5
  <2>2. file.number \in Nat /\ file.date \in Nat /\ file.plan \in [Indices -> Prompts]
    BY PuzzlesAssumption
  <2>3. Opening(FromFile(file, "import", "insert")) /\ Opening(FromFile(file, "replace", "destroy"))
    BY <2>2, EmptyLocals, CommandIsTyped
         DEF Opening, FromFile, ByNumber, ById, Careless, Takers
  <2>4. QED
    BY <2>1, <2>3 DEF RunImport, PuzzleReplace
<1>6. CASE \E n \in Numbers : PuzzleDelete(o, n) \/ \E d \in Coming : PuzzleEdit(o, n, d)
  <2>1. PICK n \in Numbers : PuzzleDelete(o, n) \/ \E d \in Coming : PuzzleEdit(o, n, d)
    BY <1>6
  <2>2. PICK id \in PuzzleByNumber(n) :
          \/ ~PuzzleHasPlays(id) /\ Begin(o, ByNumber("delete", "delete", n, 0, NoPlan))
          \/ \E d \in Coming :
               /\ ~PuzzleHasPlays(id)
               /\ Begin(o, ByNumber("edit", "update", n, d, NoPlan))
    BY <2>1 DEF PuzzleDelete, PuzzleEdit
  <2>3. id \in Present /\ id \in Ids /\ puzzle[id].number = n
    BY DEF PuzzleByNumber, Present
  <2>4. n \in Nat
    BY <2>3, States
  <2>5. \A other \in Present : puzzle[other].number = n => plays[other] = 0
    <3>1. plays[id] = 0
      BY <2>2, <2>3, Unplayed
    <3>2. QED
      BY <2>3, <3>1 DEF NumbersDiffer
  <2>6. Opening(ByNumber("delete", "delete", n, 0, NoPlan))
    BY <2>4, <2>5, EmptyLocals, CommandIsTyped
         DEF Opening, ByNumber, ById, Careless, Takers
  <2>7. \A d \in Coming : Opening(ByNumber("edit", "update", n, d, NoPlan))
    BY <1>1, <2>4, <2>5, EmptyLocals, CommandIsTyped
         DEF Opening, ByNumber, ById, Careless, Takers
  <2>8. QED
    BY <2>2, <2>6, <2>7
<1>7. CASE \E n \in Numbers, i \in Indices, p \in Prompts : PuzzleSetRound(o, n, i, p)
  <2>1. PICK n \in Numbers, i \in Indices, p \in Prompts : PuzzleSetRound(o, n, i, p)
    BY <1>7
  <2>2. PICK id \in PuzzleByNumber(n) :
          /\ ~PuzzleHasPlays(id)
          /\ Begin(o, ById("set-round", "round", id, [j \in {i} |-> p], NoLine))
    BY <2>1 DEF PuzzleSetRound
  <2> DEFINE c == ById("set-round", "round", id, [j \in {i} |-> p], NoLine)
  <2>3. id \in Present /\ id \in Ids /\ plays[id] = 0
    BY <2>2, Unplayed DEF PuzzleByNumber, Present
  <2>4. [j \in {i} |-> p] \in [{i} -> Prompts] /\ {i} \in SUBSET Indices
    OBVIOUS
  <2>5. Opening(c)
    BY <2>3, <2>4, EmptyLocals, CommandIsTyped
         DEF Opening, ByNumber, ById, Careless, Takers
  <2>6. QED
    BY <2>2, <2>5
<1>8. CASE \E n \in Numbers, swap \in Swaps : PuzzleSetAnswer(o, n, swap.i, swap.slot, swap.in)
  <2>1. PICK n \in Numbers, swap \in Swaps : PuzzleSetAnswer(o, n, swap.i, swap.slot, swap.in)
    BY <1>8
  <2> DEFINE line(id) == [i |-> swap.i, slot |-> swap.slot, in |-> swap.in,
                          prompt |-> round[id][swap.i].prompt, edition |-> 0]
  <2>2. PICK id \in PuzzleByNumber(n) :
          /\ swap.in # None => PromptOf[swap.in] = round[id][swap.i].prompt
          /\ Begin(o, ById("set-answer", "check", id, NoPlan, line(id)))
    BY <2>1 DEF PuzzleSetAnswer
  <2> DEFINE c == ById("set-answer", "check", id, NoPlan, line(id))
  <2>3. id \in Present /\ id \in Ids
    BY <2>2 DEF PuzzleByNumber, Present
  <2>4. swap.i \in Indices /\ swap.slot \in Slots /\ swap.in \in Lines \cup {None}
    BY PuzzlesAssumption
  <2>5. round[id][swap.i].prompt \in Prompts \cup {None}
    BY <2>3, <2>4, RoundFields
  <2>6. line(id) \in LineRow
    BY <2>4, <2>5 DEF LineRow
  <2>7. c \in CommandRow
    <3> HIDE DEF line
    <3>1. /\ id \in Ids \cup {0} /\ 0 \in Nat
          /\ {} \in SUBSET Indices /\ NoPlan \in [{} -> Prompts]
      BY <2>3, EmptyLocals
    <3>2. QED
      BY <2>6, <3>1, CommandIsTyped DEF ById
  <2>8. c.line.in # None => PromptOf[c.line.in] = c.line.prompt
    BY <2>2 DEF ById
  <2>9. c.verb = "set-answer" /\ c.pc = "check" /\ c.id = id /\ ~c.late
    BY DEF ById
  <2> HIDE DEF c
  <2>10. Opening(c)
    BY <2>3, <2>7, <2>8, <2>9 DEF Opening, Careless, Takers
  <2>11. QED
    BY <2>2, <2>10 DEF c
<1>9. CASE \E p \in Prompts : AssembleRound(o, p)
  <2>1. PICK p \in Prompts : AssembleRound(o, p)
    BY <1>9
  <2>2. ASSUME NEW id \in OpenPuzzle,
               Begin(o, ById("assemble", "round", id, [i \in {Cardinality(Filled(id))} |-> p], NoLine))
        PROVE  \E c : Opening(c) /\ Begin(o, c)
    <3> DEFINE k == Cardinality(Filled(id))
               c == ById("assemble", "round", id, [i \in {k} |-> p], NoLine)
    <3>1. id \in Present /\ id \in Ids /\ k < NumRounds
      BY DEF OpenPuzzle, Present
    <3>2. k \in Indices
      <4>1. Filled(id) \in SUBSET Indices
        BY DEF Filled
      <4>2. k \in Nat
        BY <4>1, Sizes, FS_Subset, FS_CardinalityType
      <4>3. QED
        BY <3>1, <4>2, Sizes
    <3>3. [i \in {k} |-> p] \in [{k} -> Prompts] /\ {k} \in SUBSET Indices
      BY <3>2
    <3> HIDE DEF k
    <3>4. Opening(c)
      BY <3>1, <3>2, <3>3, EmptyLocals, CommandIsTyped
         DEF Opening, ByNumber, ById, Careless, Takers, k
    <3>5. QED
      BY <2>2, <3>4 DEF k
  <2>3. ASSUME Begin(o, ByNumber("assemble", "number", 0, 0, [i \in {0} |-> p]))
        PROVE  \E c : Opening(c) /\ Begin(o, c)
    <3> DEFINE c == ByNumber("assemble", "number", 0, 0, [i \in {0} |-> p])
    <3>1. [i \in {0} |-> p] \in [{0} -> Prompts] /\ {0} \in SUBSET Indices
      BY Sizes
    <3>2. Opening(c)
      BY <3>1, EmptyLocals, CommandIsTyped
         DEF Opening, ByNumber, ById, Careless, Takers
    <3>3. QED
      BY <2>3, <3>2
  <2>4. QED
    BY <2>1, <2>2, <2>3 DEF AssembleRound
<1>10. QED
  BY <1>2, <1>3, <1>4, <1>5, <1>6, <1>7, <1>8, <1>9 DEF Start
-----------------------------------------------------------------------------
(***************************************************************************)
(* What a step does to the commands.                                       *)
(***************************************************************************)
\* All but alone.
SameLocals(c, d) ==
  /\ c.verb = d.verb /\ c.pc = d.pc /\ c.number = d.number /\ c.date = d.date /\ c.id = d.id
  /\ c.plan = d.plan /\ c.line = d.line /\ c.late = d.late

LEMMA AloneRow ==
  ASSUME NEW c \in CommandRow, NEW b \in BOOLEAN
  PROVE  LET d == [c EXCEPT !.alone = b]
         IN  d \in CommandRow /\ SameLocals(d, c) /\ d.alone = b
BY DEF CommandRow, SameLocals

LEMMA LateRow ==
  ASSUME NEW c \in CommandRow
  PROVE  LET d == [c EXCEPT !.late = TRUE]
         IN  /\ d \in CommandRow /\ d.late
             /\ d.verb = c.verb /\ d.pc = c.pc /\ d.number = c.number /\ d.date = c.date
             /\ d.id = c.id /\ d.plan = c.plan /\ d.line = c.line /\ d.alone = c.alone
BY DEF CommandRow

LEMMA RunningCommands ==
  ASSUME TypeOK
  PROVE  Running = {o \in Ops : op[o] # Idle}
<1>1. \A o \in Ops : op[o] = Idle \/ op[o] \in CommandRow
  BY DEF TypeOK
<1>2. QED
  BY <1>1, IdleFields DEF Running

LEMMA BeginStep ==
  ASSUME TypeOK, NEW o \in Ops, NEW c \in CommandRow, Begin(o, c)
  PROVE  /\ op[o] = Idle
         /\ op' \in [Ops -> CommandRow \cup {Idle}]
         /\ op'[o] \in CommandRow /\ SameLocals(op'[o], c)
         /\ op'[o].alone => \A other \in Ops : op[other] = Idle
         /\ \A other \in Ops \ {o} :
              \/ op[other] = Idle /\ op'[other] = Idle
              \/ /\ op[other] \in CommandRow /\ op'[other] \in CommandRow
                 /\ SameLocals(op'[other], op[other]) /\ ~op'[other].alone
         /\ UNCHANGED <<today, puzzle, round, plays, cache, reader, marks>>
<1>1. /\ op[o] = Idle
      /\ op' = [other \in Ops |->
                  IF other = o THEN [c EXCEPT !.alone = (Running = {})]
                  ELSE IF other \in Running THEN [op[other] EXCEPT !.alone = FALSE]
                  ELSE Idle]
      /\ UNCHANGED <<today, puzzle, round, plays, cache, reader, marks>>
  BY DEF Begin
<1>2. op'[o] \in CommandRow /\ SameLocals(op'[o], c) /\ op'[o].alone = (Running = {})
  BY <1>1, AloneRow
<1>3. ASSUME NEW other \in Ops \ {o}
      PROVE  \/ op[other] = Idle /\ op'[other] = Idle
             \/ /\ op[other] \in CommandRow /\ op'[other] \in CommandRow
                /\ SameLocals(op'[other], op[other]) /\ ~op'[other].alone
  <2>1. CASE op[other] = Idle
    BY <1>1, <2>1, RunningCommands
  <2>2. CASE op[other] # Idle
    <3>1. op[other] \in CommandRow /\ op'[other] = [op[other] EXCEPT !.alone = FALSE]
      BY <1>1, <2>2, RunningCommands, CommandFields
    <3>2. QED
      BY <3>1, AloneRow
  <2>3. QED
    BY <2>1, <2>2
<1>4. op' \in [Ops -> CommandRow \cup {Idle}]
  <2>1. \A other \in Ops : op'[other] \in CommandRow \cup {Idle}
    BY <1>2, <1>3
  <2>2. op' = [other \in Ops |-> op'[other]]
    BY <1>1
  <2>3. QED
    BY <2>1, <2>2
<1>5. op'[o].alone => \A other \in Ops : op[other] = Idle
  BY <1>2, RunningCommands
<1>6. QED
  BY <1>1, <1>2, <1>3, <1>4, <1>5

Pcs == {"number", "date", "insert", "round", "answers", "evict", "update", "check", "locate",
        "override", "delete", "destroy"}

LEMMA Rewritten ==
  ASSUME NEW c \in CommandRow, NEW pc \in Pcs, NEW number \in Nat, NEW date \in Nat,
         NEW id \in Ids \cup {0}, NEW S \in SUBSET Indices, NEW plan \in [S -> Prompts]
  PROVE  /\ [c EXCEPT !.pc = pc] \in CommandRow
         /\ [c EXCEPT !.number = number, !.pc = pc] \in CommandRow
         /\ [c EXCEPT !.date = date, !.pc = pc] \in CommandRow
         /\ [c EXCEPT !.id = id, !.pc = pc] \in CommandRow
         /\ [c EXCEPT !.plan = plan, !.pc = pc] \in CommandRow
<1>1. plan \in UNION {[T -> Prompts] : T \in SUBSET Indices}
  OBVIOUS
<1>2. [c EXCEPT !.pc = pc] \in CommandRow
  BY DEF CommandRow, Pcs
<1>3. [c EXCEPT !.number = number, !.pc = pc] \in CommandRow
  BY DEF CommandRow, Pcs
<1>4. [c EXCEPT !.date = date, !.pc = pc] \in CommandRow
  BY DEF CommandRow, Pcs
<1>5. [c EXCEPT !.id = id, !.pc = pc] \in CommandRow
  BY DEF CommandRow, Pcs
<1>6. [c EXCEPT !.plan = plan, !.pc = pc] \in CommandRow
  BY <1>1 DEF CommandRow, Pcs
<1>7. QED
  BY <1>2, <1>3, <1>4, <1>5, <1>6

\* A command that goes on changes its next statement and keeps what it is.
GoesOn(c, d) ==
  /\ d.pc # c.pc /\ d.pc \in {"date", "insert", "round", "answers", "evict", "locate", "override"}
  /\ d.verb = c.verb /\ d.alone = c.alone /\ d.late = c.late
  /\ d.pc = "locate" => c.pc = "check" /\ d.id = c.id
  /\ d.pc = "override" => c.pc = "locate" /\ d.id = c.id
  /\ d.pc # "override" => d.line = c.line

LEMMA StatementStep ==
  ASSUME TypeOK, CommandsFit, NEW o \in Ops, Statement(o) \/ Die(o)
  PROVE  /\ op[o] \in CommandRow
         /\ op' \in [Ops -> CommandRow \cup {Idle}]
         /\ \A other \in Ops \ {o} : op'[other] = op[other]
         /\ \/ op'[o] = Idle
            \/ op'[o] \in CommandRow /\ GoesOn(op[o], op'[o])
<1>1. op[o] # Idle
  <2>1. op[o] # Idle \/ op[o].pc \in Pcs
    BY DEF Statement, Die, ReadNumber, ReadDate, InsertDailyPuzzle, InsertPuzzleRound,
           ReplaceRoundAnswers, RejectPicks, RefusedByForeignKey, UpdateDailyPuzzle,
           CheckPlays, LocateAnswer, OverrideAnswerContent, OverrideAnswerText, DeleteDailyPuzzle,
           DeleteDailyPuzzleAndPlays, InvalidateRoundsBundle, Pcs
  <2>2. QED
    BY <2>1, IdleFields DEF Pcs
<1>2. op[o] \in CommandRow
  BY <1>1, CommandFields
<1> DEFINE c == op[o]
<1>3. /\ c.number \in Nat /\ c.date \in Nat /\ c.id \in Ids \cup {0} /\ c.pc \in Pcs
      /\ DOMAIN c.plan \in SUBSET Indices /\ c.plan \in [DOMAIN c.plan -> Prompts]
  <2>1. c.number \in Nat /\ c.date \in Nat /\ c.id \in Ids \cup {0} /\ c.pc \in Pcs
    BY <1>2 DEF CommandRow, Pcs
  <2>2. QED
    BY <1>2, <2>1, PlanFields
<1>4. \E d \in CommandRow \cup {Idle} :
        op' = [op EXCEPT ![o] = d] /\ (d = Idle \/ GoesOn(c, d))
  <2>1. CASE op' = [op EXCEPT ![o] = Idle]
    BY <2>1
  <2>2. CASE ReadNumber(o)
    <3> DEFINE pc == IF c.verb = "assemble" THEN "date" ELSE "insert"
               d  == [c EXCEPT !.number = NextPuzzleNumber, !.pc = pc]
    <3>1. d \in CommandRow
      <4>1. pc \in Pcs /\ NextPuzzleNumber \in Nat
        BY LastNumber DEF Pcs
      <4> HIDE DEF c, pc
      <4>2. QED
        BY <1>2, <1>3, <4>1, Rewritten DEF c
    <3>2. op' = [op EXCEPT ![o] = d] /\ c.pc = "number"
      BY <2>2 DEF ReadNumber
    <3>3. GoesOn(c, d)
      BY <1>2, <3>2 DEF GoesOn, CommandRow
    <3>4. QED
      BY <3>1, <3>2, <3>3
  <2>3. CASE ReadDate(o)
    <3> DEFINE d == [c EXCEPT !.date = NextPuzzleDate, !.pc = "insert"]
    <3>1. d \in CommandRow
      BY <1>2, <1>3, LastNumber, Rewritten DEF Pcs
    <3>2. op' = [op EXCEPT ![o] = d] /\ c.pc = "date"
      BY <2>3 DEF ReadDate
    <3>3. GoesOn(c, d)
      BY <1>2, <3>2 DEF GoesOn, CommandRow
    <3>4. QED
      BY <3>1, <3>2, <3>3
  <2>4. CASE InsertDailyPuzzle(o)
    <3>1. PICK id \in Ids : /\ c.pc = "insert"
                            /\ op' = [op EXCEPT ![o] = IF c.plan = NoPlan THEN Idle
                                                       ELSE [c EXCEPT !.id = id, !.pc = "round"]]
      BY <2>4 DEF InsertDailyPuzzle, PuzzleByNumber, Present
    <3> DEFINE d == [c EXCEPT !.id = id, !.pc = "round"]
    <3>2. d \in CommandRow
      BY <1>2, <1>3, Rewritten DEF Pcs
    <3>3. GoesOn(c, d)
      BY <1>2, <3>1 DEF GoesOn, CommandRow
    <3>4. QED
      BY <3>1, <3>2, <3>3
  <2>5. CASE InsertPuzzleRound(o)
    <3> DEFINE d == [c EXCEPT !.pc = "answers"]
    <3>1. d \in CommandRow
      BY <1>2, <1>3, Rewritten DEF Pcs
    <3>2. op' = [op EXCEPT ![o] = d] /\ c.pc = "round"
      BY <2>5 DEF InsertPuzzleRound, Goto
    <3>3. GoesOn(c, d)
      BY <1>2, <3>2 DEF GoesOn, CommandRow
    <3>4. QED
      BY <3>1, <3>2, <3>3
  <2>6. CASE ReplaceRoundAnswers(o)
    <3> DEFINE i    == NextIndex(o)
               rest == Restrict(c.plan, DOMAIN c.plan \ {i})
               on   == [c EXCEPT !.plan = rest, !.pc = "round"]
               end  == [c EXCEPT !.pc = "evict"]
    <3>1. rest \in [DOMAIN c.plan \ {i} -> Prompts] /\ DOMAIN c.plan \ {i} \in SUBSET Indices
      BY <1>3 DEF Restrict
    <3> HIDE DEF rest
    <3>2. on \in CommandRow /\ end \in CommandRow
      BY <1>2, <1>3, <3>1, Rewritten DEF Pcs
    <3>3. c.pc = "answers" /\ (\/ op' = [op EXCEPT ![o] = on]
                               \/ op' = [op EXCEPT ![o] = end]
                               \/ op' = [op EXCEPT ![o] = Idle])
      BY <2>6 DEF ReplaceRoundAnswers, rest
    <3>4. GoesOn(c, on) /\ GoesOn(c, end)
      BY <1>2, <3>3 DEF GoesOn, CommandRow
    <3>5. QED
      BY <3>2, <3>3, <3>4
  <2>7. CASE DeleteDailyPuzzleAndPlays(o)
    <3> DEFINE d == [c EXCEPT !.pc = "insert"]
    <3>1. d \in CommandRow
      BY <1>2, <1>3, Rewritten DEF Pcs
    <3>2. op' = [op EXCEPT ![o] = d] /\ c.pc = "destroy"
      BY <2>7 DEF DeleteDailyPuzzleAndPlays, Goto
    <3>3. GoesOn(c, d)
      BY <1>2, <3>2 DEF GoesOn, CommandRow
    <3>4. QED
      BY <3>1, <3>2, <3>3
  <2>8. CASE LocateAnswer(o)
    <3> DEFINE line == [c.line EXCEPT !.edition = round[c.id][c.line.i].edition]
               d    == [c EXCEPT !.line = line, !.pc = "override"]
    <3>1. c.pc = "locate" /\ c.id \in Ids /\ c.line \in LineRow
      BY <1>2, <2>8 DEF LocateAnswer, CommandsFit, CommandRow, LineRow
    <3>2. c.line.i \in Indices
      BY <3>1 DEF LineRow
    <3>3. round[c.id][c.line.i].edition \in Nat
      BY <3>1, <3>2, RoundFields
    <3>4. line \in LineRow
      BY <3>1, <3>3 DEF LineRow
    <3>5. op' = [op EXCEPT ![o] = d] \/ op' = [op EXCEPT ![o] = Idle]
      BY <1>2, <2>8 DEF LocateAnswer, Finish, TypeOK
    <3> HIDE DEF line
    <3>6. d \in CommandRow
      BY <1>2, <3>4 DEF CommandRow, LineRow
    <3>7. GoesOn(c, d)
      BY <1>2, <3>1 DEF GoesOn, CommandRow
    <3>8. QED
      BY <3>5, <3>6, <3>7
  <2>9. CASE CheckPlays(o)
    <3> DEFINE d == [c EXCEPT !.pc = "locate"]
    <3>1. d \in CommandRow
      BY <1>2, <1>3, Rewritten DEF Pcs
    <3>2. (op' = [op EXCEPT ![o] = d] \/ op' = [op EXCEPT ![o] = Idle]) /\ c.pc = "check"
      BY <2>9 DEF CheckPlays, Goto, Finish
    <3>3. GoesOn(c, d)
      BY <1>2, <3>2 DEF GoesOn, CommandRow
    <3>4. QED
      BY <3>1, <3>2, <3>3
  <2>10. QED
    BY <2>1, <2>2, <2>3, <2>4, <2>5, <2>6, <2>7, <2>8, <2>9
       DEF Statement, Die, Finish, RejectPicks, RefusedByForeignKey, UpdateDailyPuzzle,
           OverrideAnswerContent, OverrideAnswerText, DeleteDailyPuzzle, InvalidateRoundsBundle
<1>5. QED
  BY <1>2, <1>4 DEF TypeOK
-----------------------------------------------------------------------------
(***************************************************************************)
(* The type invariant.                                                     *)
(***************************************************************************)
LEMMA TypeInit == Init => Typed
<1> SUFFICES ASSUME Init PROVE Typed
  OBVIOUS
<1>1. EmptyBundle \in Bundle
  BY DEF EmptyBundle, Bundle, NoRound, RoundRow
<1>2. round \in [Ids -> Bundle]
  <2>1. CASE round = [id \in Ids |-> EmptyBundle]
    BY <1>1, <2>1
  <2>2. CASE \E built \in Built : round = [id \in Ids |-> IF id = 1 THEN built ELSE EmptyBundle]
    BY <1>1, <2>2, BuiltAssumption
  <2>3. QED
    BY <2>1, <2>2 DEF Init
<1>3. puzzle \in [Ids -> PuzzleRow \cup {Absent, Gone}]
  <2>1. CASE puzzle = [id \in Ids |-> Absent]
    BY <2>1
  <2>2. CASE puzzle = [id \in Ids |-> IF id = 1 THEN [state |-> "present", number |-> 1, date |-> LastDay]
                                     ELSE Absent]
    <3>1. [state |-> "present", number |-> 1, date |-> LastDay] \in PuzzleRow
      BY PuzzlesAssumption DEF PuzzleRow
    <3>2. QED
      BY <2>2, <3>1
  <2>3. QED
    BY <2>1, <2>2 DEF Init
<1>4. today \in Days /\ plays \in [Ids -> 0..MaxPlays] /\ runs \in 0..MaxRuns
  BY Sizes, PuzzlesAssumption DEF Init
<1>5. cache \in [Ids -> SUBSET Bundle] /\ \A id \in Ids : Cardinality(cache[id]) <= 1
  BY FS_EmptySet DEF Init
<1>6. /\ op = [o \in Ops |-> Idle] /\ reader = [q \in Readers |-> NotReading]
      /\ marks = [id \in Ids |-> {}]
  BY DEF Init
<1>7. CommandsFit
  BY <1>6, IdleFields DEF CommandsFit
<1>8. TypeOK
  BY <1>2, <1>3, <1>4, <1>5, <1>6 DEF TypeOK
<1>9. QED
  BY <1>7, <1>8 DEF Typed

LEMMA MarksWrite ==
  ASSUME TypeOK, NEW id, NEW m \in SUBSET Marks, Mark(id, m)
  PROVE  marks' \in [Ids -> SUBSET Marks]
BY DEF TypeOK, Mark

LEMMA EditedIsMark == \A id : Edited(id) \in SUBSET Marks
BY DEF Edited, Marks


\* The statements that change no puzzle.
Quiet(o) ==
  /\ UNCHANGED <<today, puzzle, round, plays, reader, runs>>
  /\ cache' \in {cache, [cache EXCEPT ![op[o].id] = {}]}
  /\ marks' = marks \/ Mark(op[o].id, {"torn"})

LEMMA Quietly ==
  ASSUME NEW o \in Ops,
         \/ ReadNumber(o) \/ ReadDate(o) \/ RejectPicks(o) \/ RefusedByForeignKey(o)
         \/ CheckPlays(o) \/ LocateAnswer(o) \/ InvalidateRoundsBundle(o) \/ Die(o)
  PROVE  Quiet(o)
BY DEF Quiet, ReadNumber, ReadDate, RejectPicks, RefusedByForeignKey, CheckPlays, LocateAnswer,
       InvalidateRoundsBundle, Die

\* The columns of a round after each write, as one row.
LEMMA RoundRows ==
  ASSUME NEW row \in RoundRow
  PROVE  /\ \A p \in Prompts : [row EXCEPT !.prompt = p] \in RoundRow
         /\ \A lines \in [Slots -> Lines] :
              [row EXCEPT !.lines = lines, !.edition = row.edition + 1] \in RoundRow
         /\ \A slot : \A in \in Lines :
              [row EXCEPT !.lines = [row.lines EXCEPT ![slot] = in]] \in RoundRow
         /\ [row EXCEPT !.texts = row.texts + 1] \in RoundRow
<1>1. row.lines \in [Slots -> Lines] \cup {NoAnswers}
  BY DEF RoundRow
<1>2. ASSUME NEW slot, NEW in \in Lines
      PROVE  [row EXCEPT !.lines = [row.lines EXCEPT ![slot] = in]] \in RoundRow
  <2>1. CASE row.lines \in [Slots -> Lines]
    BY <2>1 DEF RoundRow
  <2>2. CASE row.lines = NoAnswers
    <3>1. [NoAnswers EXCEPT ![slot] = in] = NoAnswers
      BY DEF NoAnswers
    <3>2. QED
      BY <2>2, <3>1 DEF RoundRow
  <2>3. QED
    BY <1>1, <2>1, <2>2
<1>3. row.edition + 1 \in Nat /\ row.texts + 1 \in Nat
  BY DEF RoundRow
<1>4. ASSUME NEW lines \in [Slots -> Lines]
      PROVE  [row EXCEPT !.lines = lines, !.edition = row.edition + 1] \in RoundRow
  BY <1>3 DEF RoundRow
<1>5. \A p \in Prompts : [row EXCEPT !.prompt = p] \in RoundRow
  BY DEF RoundRow
<1>6. [row EXCEPT !.texts = row.texts + 1] \in RoundRow
  BY <1>3 DEF RoundRow
<1>7. QED
  BY <1>2, <1>4, <1>5, <1>6

OnlyRound(id, i) ==
  \A d \in Ids, j \in Indices : d # id \/ j # i => round'[d][j] = round[d][j]

\* A write to a round is a write to one row of it.
LEMMA RoundWrites ==
  ASSUME TypeOK, NEW id \in Ids, NEW i \in Indices, NEW row \in RoundRow,
         round' = [round EXCEPT ![id][i] = row]
  PROVE  /\ round' \in [Ids -> Bundle] /\ round'[id][i] = row /\ OnlyRound(id, i)
         /\ \A d \in Ids : d # id => round'[d] = round[d]
<1>1. round[id] \in Bundle /\ round \in [Ids -> Bundle]
  BY DEF TypeOK
<1>2. round' \in [Ids -> Bundle]
  BY <1>1 DEF Bundle
<1>3. QED
  BY <1>1, <1>2 DEF OnlyRound, Bundle

LEMMA InsertRoundWrites ==
  ASSUME Typed, NEW o \in Ops, InsertPuzzleRound(o)
  PROVE  LET id == op[o].id
             i  == NextIndex(o)
         IN  /\ id \in Ids /\ id \in Present /\ i \in Indices /\ i \in DOMAIN op[o].plan
             /\ op[o].plan[i] \in Prompts
             /\ round' \in [Ids -> Bundle] /\ OnlyRound(id, i)
             /\ \A d \in Ids : d # id => round'[d] = round[d]
             /\ round'[id][i].prompt = op[o].plan[i]
             /\ round'[id][i].lines = round[id][i].lines
             /\ round'[id][i].edition = round[id][i].edition
             /\ UNCHANGED <<today, puzzle, plays, cache, reader, runs>>
             /\ op[o] \in CommandRow /\ op[o].pc = "round"
             /\ op'[o] = [op[o] EXCEPT !.pc = "answers"] /\ op'[o] \in CommandRow
             /\ op'[o].pc = "answers" /\ op'[o].id = id /\ op'[o].plan = op[o].plan
<1> DEFINE id == op[o].id
           i  == NextIndex(o)
           row == [round[id][i] EXCEPT !.prompt = op[o].plan[i]]
<1>1. op[o].pc = "round" /\ id \in Present /\ id \in Ids /\ op[o].plan # NoPlan
  BY DEF InsertPuzzleRound, Typed, CommandsFit
<1>2. op[o] \in CommandRow
  BY StatementStep DEF Statement, Typed
<1>3. i \in Indices /\ i \in DOMAIN op[o].plan /\ op[o].plan[i] \in Prompts
  BY <1>1, <1>2, NextOfPlan
<1>4. round[id][i] \in RoundRow
  BY <1>1, <1>3, RoundFields DEF Typed
<1>5. row \in RoundRow
  BY <1>3, <1>4, RoundRows
<1>6. round' = [round EXCEPT ![id][i] = row]
  BY <1>1, <1>3 DEF InsertPuzzleRound, Typed, TypeOK, Bundle
<1>7. row.prompt = op[o].plan[i] /\ row.lines = round[id][i].lines /\ row.edition = round[id][i].edition
  BY <1>4 DEF RoundRow
<1>8. op'[o] = [op[o] EXCEPT !.pc = "answers"]
  BY DEF InsertPuzzleRound, Goto, Typed, TypeOK
<1>9. /\ op'[o].pc = "answers" /\ op'[o].id = id /\ op'[o].plan = op[o].plan /\ op'[o] \in CommandRow
  BY <1>2, <1>8 DEF CommandRow
<1> HIDE DEF row
<1>10. round' \in [Ids -> Bundle] /\ round'[id][i] = row /\ OnlyRound(id, i)
       /\ \A d \in Ids : d # id => round'[d] = round[d]
  BY <1>1, <1>3, <1>5, <1>6, RoundWrites DEF Typed
<1>11. UNCHANGED <<today, puzzle, plays, cache, reader, runs>>
  BY DEF InsertPuzzleRound
<1>12. QED
  BY <1>1, <1>2, <1>3, <1>7, <1>8, <1>9, <1>10, <1>11

LEMMA ReplaceWrites ==
  ASSUME Typed, NEW o \in Ops, ReplaceRoundAnswers(o)
  PROVE  LET id == op[o].id
             i  == NextIndex(o)
         IN  /\ id \in Ids /\ id \in Present /\ i \in Indices /\ i \in DOMAIN op[o].plan
             /\ op[o].plan[i] \in Prompts
             /\ round' \in [Ids -> Bundle] /\ OnlyRound(id, i)
             /\ \A d \in Ids : d # id => round'[d] = round[d]
             /\ round'[id][i].prompt = round[id][i].prompt
             /\ round'[id][i].lines \in ComposeRoundAnswers(op[o].plan[i])
             /\ round'[id][i].edition = round[id][i].edition + 1
             /\ Mark(id, Edited(id))
             /\ UNCHANGED <<today, puzzle, plays, cache, reader, runs>>
             /\ op[o] \in CommandRow /\ op[o].pc = "answers"
<1> DEFINE id == op[o].id
           i  == NextIndex(o)
<1>1. op[o].pc = "answers" /\ id \in Present /\ id \in Ids /\ op[o].plan # NoPlan
  BY DEF ReplaceRoundAnswers, Typed, CommandsFit
<1>2. op[o] \in CommandRow
  BY StatementStep DEF Statement, Typed
<1>3. i \in Indices /\ i \in DOMAIN op[o].plan /\ op[o].plan[i] \in Prompts
  BY <1>1, <1>2, NextOfPlan
<1>4. round[id][i] \in RoundRow
  BY <1>1, <1>3, RoundFields DEF Typed
<1>5. PICK lines \in ComposeRoundAnswers(op[o].plan[i]) :
        round' = [round EXCEPT ![id][i].lines = lines, ![id][i].edition = @ + 1]
  BY DEF ReplaceRoundAnswers
<1>6. lines \in [Slots -> Lines]
  BY <1>5 DEF ComposeRoundAnswers, PickApprovedBots, PickApprovedDecoys, Lines
<1> DEFINE row == [round[id][i] EXCEPT !.lines = lines, !.edition = round[id][i].edition + 1]
<1>7. row \in RoundRow
  BY <1>3, <1>4, <1>6, RoundRows
<1>8. round' = [round EXCEPT ![id][i] = row]
  BY <1>1, <1>3, <1>5 DEF Typed, TypeOK, Bundle
<1>9. row.prompt = round[id][i].prompt /\ row.lines = lines /\ row.edition = round[id][i].edition + 1
  BY <1>4 DEF RoundRow
<1> HIDE DEF row
<1>10. round' \in [Ids -> Bundle] /\ round'[id][i] = row /\ OnlyRound(id, i)
       /\ \A d \in Ids : d # id => round'[d] = round[d]
  BY <1>1, <1>3, <1>7, <1>8, RoundWrites DEF Typed
<1>11. UNCHANGED <<today, puzzle, plays, cache, reader, runs>> /\ Mark(id, Edited(id))
  BY DEF ReplaceRoundAnswers
<1>12. QED
  BY <1>1, <1>2, <1>3, <1>5, <1>9, <1>10, <1>11
LEMMA OverrideWrites ==
  ASSUME Typed, NEW o \in Ops, OverrideAnswerContent(o) \/ OverrideAnswerText(o)
  PROVE  LET id == op[o].id
             line == op[o].line
         IN  /\ op[o] \in CommandRow /\ op[o].pc = "override" /\ op'[o] = Idle
             /\ id \in Ids /\ line.i \in Indices
             /\ UNCHANGED <<today, puzzle, plays, cache, reader, runs>>
             /\ \/ round' = round /\ marks' = marks
                \/ /\ id \in Present /\ line.edition = round[id][line.i].edition
                   /\ round' \in [Ids -> Bundle] /\ OnlyRound(id, line.i)
                   /\ \A d \in Ids : d # id => round'[d] = round[d]
                   /\ round'[id][line.i].prompt = round[id][line.i].prompt
                   /\ round'[id][line.i].edition = round[id][line.i].edition
                   /\ \/ /\ round'[id][line.i].lines = round[id][line.i].lines
                         /\ Mark(id, Edited(id))
                      \/ /\ line.in \in Lines
                         /\ round'[id][line.i].lines =
                              [round[id][line.i].lines EXCEPT ![line.slot] = line.in]
                         /\ Mark(id, Edited(id) \cup {"overridden"})
<1> DEFINE id == op[o].id
           line == op[o].line
           i == op[o].line.i
<1>1. op[o] \in CommandRow /\ op[o].pc = "override" /\ op'[o] = Idle
  <2>1. op[o] \in CommandRow
    BY StatementStep DEF Statement, Typed
  <2>2. QED
    BY <2>1 DEF OverrideAnswerContent, OverrideAnswerText, Finish, Typed, TypeOK
<1>2. id \in Ids
  BY <1>1 DEF Typed, CommandsFit
<1>3. i \in Indices /\ (line.in = None \/ line.in \in Lines)
  <2>1. line \in LineRow
    BY <1>1 DEF CommandRow, LineRow
  <2>2. QED
    BY <2>1 DEF LineRow
<1>4. UNCHANGED <<today, puzzle, plays, cache, reader, runs>>
  BY DEF OverrideAnswerContent, OverrideAnswerText
<1>5. CASE round' = round /\ marks' = marks
  BY <1>1, <1>2, <1>3, <1>4, <1>5
<1>6. round[id][i] \in RoundRow
  BY <1>2, <1>3, RoundFields DEF Typed
<1>7. CASE OverrideAnswerText(o) /\ ~(round' = round /\ marks' = marks)
  <2> DEFINE row == [round[id][i] EXCEPT !.texts = round[id][i].texts + 1]
  <2>1. /\ AnswerRowIsThere(id, line) /\ Mark(id, Edited(id))
        /\ round' = [round EXCEPT ![id][i].texts = @ + 1]
    BY <1>7 DEF OverrideAnswerText
  <2>2. round' = [round EXCEPT ![id][i] = row]
    BY <1>2, <1>3, <2>1 DEF Typed, TypeOK, Bundle
  <2>3. row \in RoundRow
    BY <1>6, RoundRows
  <2>4. /\ row.prompt = round[id][i].prompt /\ row.lines = round[id][i].lines
        /\ row.edition = round[id][i].edition
    BY <1>6 DEF RoundRow
  <2> HIDE DEF row
  <2>5. round' \in [Ids -> Bundle] /\ round'[id][i] = row /\ OnlyRound(id, i)
        /\ \A d \in Ids : d # id => round'[d] = round[d]
    BY <1>2, <1>3, <2>2, <2>3, RoundWrites DEF Typed
  <2>6. id \in Present /\ line.edition = round[id][i].edition
    BY <2>1 DEF AnswerRowIsThere
  <2>7. QED
    BY <1>1, <1>2, <1>3, <1>4, <2>1, <2>4, <2>5, <2>6
<1>8. CASE OverrideAnswerContent(o) /\ ~(round' = round /\ marks' = marks)
  <2> DEFINE lines == [round[id][i].lines EXCEPT ![line.slot] = line.in]
             row == [round[id][i] EXCEPT !.lines = lines]
  <2>1. /\ AnswerRowIsThere(id, line) /\ Mark(id, Edited(id) \cup {"overridden"}) /\ line.in # None
        /\ round' = [round EXCEPT ![id][i].lines[line.slot] = line.in]
    BY <1>8 DEF OverrideAnswerContent
  <2>2. line.in \in Lines
    BY <1>3, <2>1
  <2>3. round' = [round EXCEPT ![id][i] = row]
    BY <1>2, <1>3, <2>1 DEF Typed, TypeOK, Bundle
  <2>4. row \in RoundRow
    BY <1>6, <2>2, RoundRows
  <2>5. /\ row.prompt = round[id][i].prompt /\ row.lines = lines
        /\ row.edition = round[id][i].edition
    BY <1>6 DEF RoundRow
  <2> HIDE DEF row
  <2>6. round' \in [Ids -> Bundle] /\ round'[id][i] = row /\ OnlyRound(id, i)
        /\ \A d \in Ids : d # id => round'[d] = round[d]
    BY <1>2, <1>3, <2>3, <2>4, RoundWrites DEF Typed
  <2>7. id \in Present /\ line.edition = round[id][i].edition
    BY <2>1 DEF AnswerRowIsThere
  <2>8. QED
    BY <1>1, <1>2, <1>3, <1>4, <2>1, <2>2, <2>5, <2>6, <2>7
<1>9. QED
  BY <1>5, <1>7, <1>8

LEMMA InsertPuzzleWrites ==
  ASSUME Typed, NEW o \in Ops, InsertDailyPuzzle(o)
  PROVE  \E id \in Ids :
           /\ op[o] \in CommandRow /\ op[o].pc = "insert"
           /\ puzzle'[id] = [state |-> "present", number |-> op[o].number, date |-> op[o].date]
           /\ puzzle'[id] \in PuzzleRow /\ puzzle' \in [Ids -> PuzzleRow \cup {Absent, Gone}]
           /\ \A d \in Ids : d # id => puzzle'[d] = puzzle[d]
           /\ \/ id \in Present /\ puzzle[id].number = op[o].number
              \/ puzzle[id] = Absent /\ \A d \in Present : puzzle[d].number # op[o].number
           /\ \/ op[o].plan = NoPlan /\ op'[o] = Idle
              \/ /\ op[o].plan # NoPlan /\ op'[o] \in CommandRow
                 /\ op'[o].pc = "round" /\ op'[o].id = id /\ op'[o].plan = op[o].plan
           /\ UNCHANGED <<today, round, plays, cache, reader, marks, runs>>
<1>1. op[o] \in CommandRow /\ op[o].pc = "insert"
  <2>1. op[o] \in CommandRow
    BY StatementStep DEF Statement, Typed
  <2>2. QED
    BY <2>1 DEF InsertDailyPuzzle
<1>2. op[o].number \in Nat /\ op[o].date \in Nat
  BY <1>1 DEF CommandRow
<1> DEFINE row == [state |-> "present", number |-> op[o].number, date |-> op[o].date]
<1>3. row \in PuzzleRow
  BY <1>2 DEF PuzzleRow
<1>4. PICK id \in Ids :
        /\ \/ id \in PuzzleByNumber(op[o].number)
           \/ puzzle[id] = Absent /\ PuzzleByNumber(op[o].number) = {}
        /\ puzzle' = [puzzle EXCEPT ![id] = row]
        /\ op' = [op EXCEPT ![o] = IF op[o].plan = NoPlan THEN Idle
                                   ELSE [op[o] EXCEPT !.id = id, !.pc = "round"]]
  <2>1. PuzzleByNumber(op[o].number) \subseteq Ids
    BY DEF PuzzleByNumber, Present
  <2>2. QED
    BY <2>1 DEF InsertDailyPuzzle
<1>5. \/ id \in Present /\ puzzle[id].number = op[o].number
      \/ puzzle[id] = Absent /\ \A d \in Present : puzzle[d].number # op[o].number
  BY <1>4 DEF PuzzleByNumber
<1>6. /\ puzzle'[id] = row /\ puzzle' \in [Ids -> PuzzleRow \cup {Absent, Gone}]
      /\ \A d \in Ids : d # id => puzzle'[d] = puzzle[d]
  BY <1>3, <1>4 DEF Typed, TypeOK
<1>7. \/ op[o].plan = NoPlan /\ op'[o] = Idle
      \/ /\ op[o].plan # NoPlan /\ op'[o] = [op[o] EXCEPT !.id = id, !.pc = "round"]
  BY <1>4 DEF Typed, TypeOK
<1>8. ASSUME op'[o] = [op[o] EXCEPT !.id = id, !.pc = "round"]
      PROVE  /\ op'[o] \in CommandRow
             /\ op'[o].pc = "round" /\ op'[o].id = id /\ op'[o].plan = op[o].plan
  <2>1. op'[o] \in CommandRow \cup {Idle}
    BY StatementStep DEF Statement, Typed
  <2>2. op'[o].pc = "round" /\ op'[o].id = id /\ op'[o].plan = op[o].plan
    BY <1>1, <1>8 DEF CommandRow
  <2>3. QED
    BY <2>1, <2>2, IdleFields
<1>9. UNCHANGED <<today, round, plays, cache, reader, marks, runs>>
  BY DEF InsertDailyPuzzle
<1> HIDE DEF row
<1>10. QED
  BY <1>1, <1>3, <1>5, <1>6, <1>7, <1>8, <1>9 DEF row

\* Where an insert ends.
LEMMA InsertTarget ==
  ASSUME Typed, NEW o \in Ops, InsertDailyPuzzle(o)
  PROVE  /\ op[o] \in CommandRow /\ op[o].pc = "insert"
         /\ \E d \in Ids :
              /\ puzzle'[d] \in PuzzleRow /\ \A e \in Ids : e # d => puzzle'[e] = puzzle[e]
              /\ (d \in Present /\ puzzle[d].number = op[o].number) \/ puzzle[d] = Absent
              /\ op'[o] = Idle \/ (op'[o].pc = "round" /\ op'[o].id = d /\ op'[o].plan # NoPlan)
<1>1. PICK id \in Ids :
           /\ op[o] \in CommandRow /\ op[o].pc = "insert"
           /\ puzzle'[id] = [state |-> "present", number |-> op[o].number, date |-> op[o].date]
           /\ puzzle'[id] \in PuzzleRow /\ puzzle' \in [Ids -> PuzzleRow \cup {Absent, Gone}]
           /\ \A d \in Ids : d # id => puzzle'[d] = puzzle[d]
           /\ \/ id \in Present /\ puzzle[id].number = op[o].number
              \/ puzzle[id] = Absent /\ \A d \in Present : puzzle[d].number # op[o].number
           /\ \/ op[o].plan = NoPlan /\ op'[o] = Idle
              \/ /\ op[o].plan # NoPlan /\ op'[o] \in CommandRow
                 /\ op'[o].pc = "round" /\ op'[o].id = id /\ op'[o].plan = op[o].plan
           /\ UNCHANGED <<today, round, plays, cache, reader, marks, runs>>
  BY InsertPuzzleWrites
<1>2. QED
  BY <1>1

LEMMA UpdateWrites ==
  ASSUME Typed, NEW o \in Ops, UpdateDailyPuzzle(o)
  PROVE  \E id \in Present :
           /\ id \in Ids
           /\ op[o] \in CommandRow /\ op[o].pc = "update" /\ op'[o] = Idle
           /\ puzzle[id].number = op[o].number
           /\ puzzle' \in [Ids -> PuzzleRow \cup {Absent, Gone}]
           /\ puzzle'[id] \in PuzzleRow /\ puzzle'[id].number = puzzle[id].number
           /\ \A d \in Ids : d # id => puzzle'[d] = puzzle[d]
           /\ UNCHANGED <<today, round, plays, cache, reader, marks, runs>>
<1>1. op[o] \in CommandRow /\ op[o].pc = "update" /\ op'[o] = Idle
  <2>1. op[o] \in CommandRow
    BY StatementStep DEF Statement, Typed
  <2>2. QED
    BY <2>1 DEF UpdateDailyPuzzle, Finish, Typed, TypeOK
<1>2. PICK id \in PuzzleByNumber(op[o].number) : puzzle' = [puzzle EXCEPT ![id].date = op[o].date]
  BY DEF UpdateDailyPuzzle
<1>3. id \in Present /\ id \in Ids /\ puzzle[id].number = op[o].number /\ puzzle[id] \in PuzzleRow
  BY <1>2, States DEF PuzzleByNumber, Present, Typed
<1>4. op[o].date \in Nat
  BY <1>1 DEF CommandRow
<1> DEFINE row == [puzzle[id] EXCEPT !.date = op[o].date]
<1>5. row \in PuzzleRow /\ row.number = puzzle[id].number
  BY <1>3, <1>4 DEF PuzzleRow
<1>6. puzzle' = [puzzle EXCEPT ![id] = row]
  BY <1>2
<1> HIDE DEF row
<1>7. /\ puzzle'[id] = row /\ puzzle' \in [Ids -> PuzzleRow \cup {Absent, Gone}]
      /\ \A d \in Ids : d # id => puzzle'[d] = puzzle[d]
  BY <1>3, <1>5, <1>6 DEF Typed, TypeOK
<1>8. UNCHANGED <<today, round, plays, cache, reader, marks, runs>>
  BY DEF UpdateDailyPuzzle
<1>9. QED
  BY <1>1, <1>3, <1>5, <1>7, <1>8

LEMMA RemoveWrites ==
  ASSUME Typed, NEW o \in Ops, DeleteDailyPuzzle(o) \/ DeleteDailyPuzzleAndPlays(o)
  PROVE  \E id \in Present :
           /\ id \in Ids /\ op[o] \in CommandRow /\ puzzle[id].number = op[o].number
           /\ puzzle' = [puzzle EXCEPT ![id] = Gone]
           /\ round' = [round EXCEPT ![id] = EmptyBundle]
           /\ \/ op[o].pc = "delete" /\ plays' = plays /\ plays[id] = 0 /\ op'[o] = Idle
              \/ /\ op[o].pc = "destroy" /\ plays' = [plays EXCEPT ![id] = 0]
                 /\ op'[o] = [op[o] EXCEPT !.pc = "insert"]
           /\ UNCHANGED <<today, cache, reader, marks, runs>>
<1>1. op[o] \in CommandRow
  BY StatementStep DEF Statement, Typed
<1>2. CASE DeleteDailyPuzzle(o)
  <2>1. PICK id \in PuzzleByNumber(op[o].number) : ~PuzzleHasPlays(id) /\ Remove(id)
    BY <1>2 DEF DeleteDailyPuzzle
  <2>2. id \in Present /\ id \in Ids /\ puzzle[id].number = op[o].number
    BY DEF PuzzleByNumber, Present
  <2>3. plays[id] = 0
    BY <2>1, <2>2, Unplayed DEF Typed
  <2>4. op[o].pc = "delete" /\ plays' = plays /\ op'[o] = Idle
        /\ UNCHANGED <<today, cache, reader, marks, runs>>
    BY <1>2 DEF DeleteDailyPuzzle, Finish, Typed, TypeOK
  <2>5. QED
    BY <1>1, <2>1, <2>2, <2>3, <2>4 DEF Remove, EmptyBundle
<1>3. CASE DeleteDailyPuzzleAndPlays(o)
  <2>1. PICK id \in PuzzleByNumber(op[o].number) :
          Remove(id) /\ plays' = [plays EXCEPT ![id] = 0]
    BY <1>3 DEF DeleteDailyPuzzleAndPlays
  <2>2. id \in Present /\ id \in Ids /\ puzzle[id].number = op[o].number
    BY DEF PuzzleByNumber, Present
  <2>3. op[o].pc = "destroy" /\ op'[o] = [op[o] EXCEPT !.pc = "insert"]
        /\ UNCHANGED <<today, cache, reader, marks, runs>>
    BY <1>3 DEF DeleteDailyPuzzleAndPlays, Goto, Typed, TypeOK
  <2>4. QED
    BY <1>1, <2>1, <2>2, <2>3 DEF Remove, EmptyBundle
<1>4. QED
  BY <1>2, <1>3
-----------------------------------------------------------------------------
(***************************************************************************)
(* Page loads.                                                             *)
(***************************************************************************)
\* All but late.
SameButLate(c, d) ==
  /\ c.verb = d.verb /\ c.pc = d.pc /\ c.number = d.number /\ c.date = d.date /\ c.id = d.id
  /\ c.plan = d.plan /\ c.line = d.line /\ c.alone = d.alone

LEMMA ReaderFields ==
  /\ NotReading.pc = "idle" /\ NotReading \notin ReaderRow
  /\ \A id \in Ids : \A pc \in {"load", "set"} : \A got \in Bundle :
       Read(id, pc, got) \in ReaderRow
  /\ \A id, pc, got : /\ Read(id, pc, got).pc = pc /\ Read(id, pc, got).id = id
                      /\ Read(id, pc, got).got = got
  /\ \A r \in ReaderRow : r.pc \in {"load", "set"} /\ r.id \in Ids /\ r.got \in Bundle
BY DEF NotReading, ReaderRow, Read

LEMMA CreateWrites ==
  ASSUME Typed, NEW q \in Readers, CreateOrGetPlay(q)
  PROVE  \E id \in Present :
           /\ id \in Ids /\ reader[q] = NotReading
           /\ reader' = [reader EXCEPT ![q] = Read(id, "load", EmptyBundle)]
           /\ plays' \in [Ids -> 0..MaxPlays] /\ plays'[id] > 0
           /\ \A d \in Ids : d # id => plays'[d] = plays[d]
           /\ op' \in [Ops -> CommandRow \cup {Idle}]
           /\ \A o \in Ops : \/ op[o] = Idle /\ op'[o] = Idle
                             \/ /\ op[o] \in CommandRow /\ op'[o] \in CommandRow
                                /\ SameButLate(op'[o], op[o])
                                /\ op'[o].late <=> op[o].late \/ plays' # plays
           /\ UNCHANGED <<today, puzzle, round, cache, marks, runs>>
<1>1. PICK id \in LatestPuzzle(today) :
        /\ \/ plays[id] < MaxPlays /\ plays' = [plays EXCEPT ![id] = @ + 1]
           \/ plays[id] > 0 /\ UNCHANGED plays
        /\ reader' = [reader EXCEPT ![q] = Read(id, "load", EmptyBundle)]
        /\ op' = [o \in Ops |-> IF o \in Running /\ plays' # plays
                                THEN [op[o] EXCEPT !.late = TRUE] ELSE op[o]]
  BY DEF CreateOrGetPlay
<1>2. id \in Present /\ id \in Ids
  BY <1>1 DEF LatestPuzzle, Present
<1>3. plays[id] \in 0..MaxPlays /\ plays[id] \in Nat
  BY <1>2, Unplayed DEF Typed, TypeOK
<1>4. /\ plays' \in [Ids -> 0..MaxPlays] /\ plays'[id] > 0
      /\ \A d \in Ids : d # id => plays'[d] = plays[d]
  <2>1. plays \in [Ids -> 0..MaxPlays]
    BY DEF Typed, TypeOK
  <2>2. CASE UNCHANGED plays /\ plays[id] > 0
    BY <2>1, <2>2
  <2>3. CASE plays[id] < MaxPlays /\ plays' = [plays EXCEPT ![id] = @ + 1]
    <3>1. plays[id] + 1 \in 0..MaxPlays /\ plays[id] + 1 > 0
      BY <1>3, <2>3, PuzzlesAssumption
    <3>2. QED
      BY <1>2, <2>1, <2>3, <3>1
  <2>4. QED
    BY <1>1, <2>2, <2>3
<1>5. ASSUME NEW o \in Ops
      PROVE  \/ op[o] = Idle /\ op'[o] = Idle
             \/ /\ op[o] \in CommandRow /\ op'[o] \in CommandRow
                /\ SameButLate(op'[o], op[o])
                /\ op'[o].late <=> op[o].late \/ plays' # plays
  <2>1. CASE op[o] = Idle
    BY <1>1, <2>1, RunningCommands DEF Typed
  <2>2. CASE op[o] # Idle
    <3>1. op[o] \in CommandRow /\ o \in Running
      BY <2>2, RunningCommands, CommandFields DEF Typed
    <3>2. CASE plays' # plays
      <4>1. op'[o] = [op[o] EXCEPT !.late = TRUE]
        BY <1>1, <3>1, <3>2
      <4>2. QED
        BY <3>1, <3>2, <4>1, LateRow DEF SameButLate
    <3>3. CASE plays' = plays
      BY <1>1, <3>1, <3>3 DEF SameButLate
    <3>4. QED
      BY <3>2, <3>3
  <2>3. QED
    BY <2>1, <2>2
<1>6. op' \in [Ops -> CommandRow \cup {Idle}]
  <2>1. \A o \in Ops : op'[o] \in CommandRow \cup {Idle}
    BY <1>5
  <2>2. op' = [o \in Ops |-> op'[o]]
    BY <1>1
  <2>3. QED
    BY <2>1, <2>2
<1>7. reader[q] = NotReading /\ UNCHANGED <<today, puzzle, round, cache, marks, runs>>
  BY DEF CreateOrGetPlay
<1>8. QED
  BY <1>1, <1>2, <1>4, <1>5, <1>6, <1>7

LEMMA TypeStep ==
  ASSUME Typed, NumbersDiffer, [Next]_vars
  PROVE  TypeOK'
<1>1. CASE UNCHANGED vars
  BY <1>1 DEF vars, Typed, TypeOK
<1>2. ASSUME NEW o \in Ops, Start(o) PROVE TypeOK'
  <2>1. PICK c : Opening(c) /\ Begin(o, c)
    BY <1>2, StartStep DEF Typed
  <2>2. c \in CommandRow
    BY <2>1 DEF Opening
  <2>3. op' \in [Ops -> CommandRow \cup {Idle}]
        /\ UNCHANGED <<today, puzzle, round, plays, cache, reader, marks>>
    BY <2>1, <2>2, BeginStep DEF Typed
  <2>4. runs' \in 0..MaxRuns
    <3>1. runs \in 0..MaxRuns /\ runs < MaxRuns /\ runs' = runs + 1
      BY <2>1 DEF Begin, Typed, TypeOK
    <3>2. QED
      BY <3>1, PuzzlesAssumption
  <2>5. QED
    BY <2>3, <2>4 DEF Typed, TypeOK
<1>3. ASSUME NEW o \in Ops, Statement(o) \/ Die(o) PROVE TypeOK'
  <2>1. op' \in [Ops -> CommandRow \cup {Idle}]
    BY <1>3, StatementStep DEF Typed
  <2>2. CASE Quiet(o)
    <3>1. marks' \in [Ids -> SUBSET Marks]
      <4>1. {"torn"} \in SUBSET Marks
        BY DEF Marks
      <4>2. QED
        BY <2>2, <4>1, MarksWrite DEF Quiet, Typed, TypeOK
    <3>2. cache' \in [Ids -> SUBSET Bundle] /\ \A id \in Ids : Cardinality(cache'[id]) <= 1
      <4>1. CASE cache' = cache
        BY <4>1 DEF Typed, TypeOK
      <4>2. CASE cache' = [cache EXCEPT ![op[o].id] = {}]
        <5>1. Cardinality({}) = 0 /\ {} \in SUBSET Bundle
          BY FS_EmptySet
        <5>2. cache \in [Ids -> SUBSET Bundle] /\ \A id \in Ids : Cardinality(cache[id]) <= 1
          BY DEF Typed, TypeOK
        <5>3. \A id \in Ids : cache'[id] = cache[id] \/ cache'[id] = {}
          BY <4>2, <5>2
        <5>4. cache' \in [Ids -> SUBSET Bundle]
          BY <4>2, <5>1, <5>2
        <5>5. ASSUME NEW id \in Ids PROVE Cardinality(cache'[id]) <= 1
          BY <5>1, <5>2, <5>3
        <5>6. QED
          BY <5>4, <5>5
      <4>3. QED
        BY <2>2, <4>1, <4>2 DEF Quiet
    <3>3. QED
      BY <2>1, <2>2, <3>1, <3>2 DEF Quiet, Typed, TypeOK
  <2>3. CASE InsertPuzzleRound(o)
    <3>1. round' \in [Ids -> Bundle] /\ UNCHANGED <<today, puzzle, plays, cache, reader, runs>>
      BY <2>3, InsertRoundWrites
    <3>2. \E m \in SUBSET Marks : Mark(op[o].id, m)
      <4>1. PICK clash \in BOOLEAN :
              Mark(op[o].id, Edited(op[o].id) \cup (IF clash THEN {"torn"} ELSE {})
                             \cup (IF op[o].verb = "set-round" THEN {"patched"} ELSE {}))
        BY <2>3 DEF InsertPuzzleRound
      <4>2. Edited(op[o].id) \cup (IF clash THEN {"torn"} ELSE {})
              \cup (IF op[o].verb = "set-round" THEN {"patched"} ELSE {}) \in SUBSET Marks
        BY EditedIsMark DEF Marks
      <4>3. QED
        BY <4>1, <4>2
    <3>3. marks' \in [Ids -> SUBSET Marks]
      BY <3>2, MarksWrite DEF Typed
    <3>4. QED
      BY <2>1, <3>1, <3>3 DEF Typed, TypeOK
  <2>4. CASE ReplaceRoundAnswers(o)
    <3>1. /\ round' \in [Ids -> Bundle] /\ UNCHANGED <<today, puzzle, plays, cache, reader, runs>>
          /\ Mark(op[o].id, Edited(op[o].id))
      BY <2>4, ReplaceWrites
    <3>2. marks' \in [Ids -> SUBSET Marks]
      BY <3>1, EditedIsMark, MarksWrite DEF Typed
    <3>3. QED
      BY <2>1, <3>1, <3>2 DEF Typed, TypeOK
  <2>5. CASE OverrideAnswerContent(o) \/ OverrideAnswerText(o)
    <3>1. UNCHANGED <<today, puzzle, plays, cache, reader, runs>>
      BY <2>5, OverrideWrites
    <3>2. \/ round' = round /\ marks' = marks
          \/ /\ round' \in [Ids -> Bundle]
             /\ \E m \in {Edited(op[o].id), Edited(op[o].id) \cup {"overridden"}} : Mark(op[o].id, m)
      BY <2>5, OverrideWrites
    <3>3. Edited(op[o].id) \in SUBSET Marks /\ Edited(op[o].id) \cup {"overridden"} \in SUBSET Marks
      BY EditedIsMark DEF Marks
    <3>4. round' \in [Ids -> Bundle] /\ marks' \in [Ids -> SUBSET Marks]
      BY <3>2, <3>3, MarksWrite DEF Typed, TypeOK
    <3>5. QED
      BY <2>1, <3>1, <3>4 DEF Typed, TypeOK
  <2>6. CASE InsertDailyPuzzle(o)
    <3>1. /\ puzzle' \in [Ids -> PuzzleRow \cup {Absent, Gone}]
          /\ UNCHANGED <<today, round, plays, cache, reader, marks, runs>>
      BY <2>6, InsertPuzzleWrites
    <3>2. QED
      BY <2>1, <3>1 DEF Typed, TypeOK
  <2>7. CASE UpdateDailyPuzzle(o)
    <3>1. /\ puzzle' \in [Ids -> PuzzleRow \cup {Absent, Gone}]
          /\ UNCHANGED <<today, round, plays, cache, reader, marks, runs>>
      BY <2>7, UpdateWrites
    <3>2. QED
      BY <2>1, <3>1 DEF Typed, TypeOK
  <2>8. CASE DeleteDailyPuzzle(o) \/ DeleteDailyPuzzleAndPlays(o)
    <3>1. PICK id \in Present :
            /\ puzzle' = [puzzle EXCEPT ![id] = Gone]
            /\ round' = [round EXCEPT ![id] = EmptyBundle]
            /\ plays' = plays \/ plays' = [plays EXCEPT ![id] = 0]
            /\ UNCHANGED <<today, cache, reader, marks, runs>>
      BY <2>8, RemoveWrites
    <3>2. EmptyBundle \in Bundle /\ 0 \in 0..MaxPlays
      BY PuzzlesAssumption DEF EmptyBundle, Bundle, NoRound, RoundRow
    <3>3. QED
      BY <2>1, <3>1, <3>2 DEF Typed, TypeOK
  <2>9. QED
    BY <1>3, <2>2, <2>3, <2>4, <2>5, <2>6, <2>7, <2>8, Quietly DEF Statement
<1>4. ASSUME NEW q \in Readers, Page(q) PROVE TypeOK'
  <2>1. CASE CreateOrGetPlay(q)
    <3>1. PICK id \in Present :
            /\ id \in Ids /\ reader' = [reader EXCEPT ![q] = Read(id, "load", EmptyBundle)]
            /\ plays' \in [Ids -> 0..MaxPlays] /\ op' \in [Ops -> CommandRow \cup {Idle}]
            /\ UNCHANGED <<today, puzzle, round, cache, marks, runs>>
      BY <2>1, CreateWrites
    <3>2. EmptyBundle \in Bundle
      BY DEF EmptyBundle, Bundle, NoRound, RoundRow
    <3>3. Read(id, "load", EmptyBundle) \in ReaderRow
      BY <3>1, <3>2, ReaderFields
    <3>4. QED
      BY <3>1, <3>3 DEF Typed, TypeOK
  <2>2. CASE LoadRoundsBundle(q)
    <3>1. reader[q] \in ReaderRow
      BY <2>2, ReaderFields DEF LoadRoundsBundle, Typed, TypeOK
    <3>2. reader[q].id \in Ids
      BY <3>1, ReaderFields
    <3>3. Read(reader[q].id, "set", round[reader[q].id]) \in ReaderRow
      BY <3>2, ReaderFields DEF Typed, TypeOK
    <3>4. QED
      BY <2>2, <3>3 DEF LoadRoundsBundle, Typed, TypeOK
  <2>3. CASE SetBundle(q)
    <3>1. reader[q] \in ReaderRow
      BY <2>3, ReaderFields DEF SetBundle, Typed, TypeOK
    <3>2. reader[q].id \in Ids /\ reader[q].got \in Bundle
      BY <3>1, ReaderFields
    <3>3. Cardinality({reader[q].got}) = 1
      BY FS_Singleton
    <3>4. QED
      BY <2>3, <3>2, <3>3 DEF SetBundle, Typed, TypeOK
  <2>4. QED
    BY <1>4, <2>1, <2>2, <2>3 DEF Page
<1>5. ASSUME NEW id \in Ids, Expire(id) PROVE TypeOK'
  BY <1>5, FS_EmptySet DEF Expire, Typed, TypeOK
<1>6. CASE Midnight
  <2>1. today' \in Days
    BY <1>6, PuzzlesAssumption DEF Midnight, Typed, TypeOK, Days
  <2>2. QED
    BY <1>6, <2>1 DEF Midnight, Typed, TypeOK
<1>7. QED
  BY <1>1, <1>2, <1>3, <1>4, <1>5, <1>6 DEF Next
-----------------------------------------------------------------------------
(***************************************************************************)
(* Where a command goes on, and that a row once made stays made.           *)
(***************************************************************************)
LEMMA QuietGoesOn ==
  ASSUME Typed, NEW o \in Ops,
         \/ ReadNumber(o) \/ ReadDate(o) \/ RejectPicks(o) \/ RefusedByForeignKey(o)
         \/ InvalidateRoundsBundle(o) \/ Die(o)
  PROVE  /\ op[o] \in CommandRow
         /\ \/ op'[o] = Idle
            \/ /\ op'[o] \in CommandRow /\ op'[o].pc \in {"date", "insert"}
               /\ op'[o].plan = op[o].plan
               /\ \/ op[o].pc = "number" /\ op'[o].number = NextPuzzleNumber
                  \/ op[o].pc = "date" /\ op'[o].number = op[o].number
<1>1. op[o] \in CommandRow /\ (op'[o] = Idle \/ op'[o] \in CommandRow)
  BY StatementStep DEF Statement, Typed
<1>2. CASE ReadNumber(o)
  <2>1. /\ op[o].pc = "number"
        /\ op'[o] = [op[o] EXCEPT !.number = NextPuzzleNumber,
                                  !.pc = IF op[o].verb = "assemble" THEN "date" ELSE "insert"]
    BY <1>2 DEF ReadNumber, Typed, TypeOK
  <2>2. /\ op'[o].pc \in {"date", "insert"} /\ op'[o].plan = op[o].plan
        /\ op'[o].number = NextPuzzleNumber
    BY <1>1, <2>1 DEF CommandRow
  <2>3. op'[o] # Idle
    BY <2>2, IdleFields
  <2>4. QED
    BY <1>1, <2>1, <2>2, <2>3
<1>3. CASE ReadDate(o)
  <2>1. /\ op[o].pc = "date"
        /\ op'[o] = [op[o] EXCEPT !.date = NextPuzzleDate, !.pc = "insert"]
    BY <1>3 DEF ReadDate, Typed, TypeOK
  <2>2. /\ op'[o].pc = "insert" /\ op'[o].plan = op[o].plan /\ op'[o].number = op[o].number
    BY <1>1, <2>1 DEF CommandRow
  <2>3. op'[o] # Idle
    BY <2>2, IdleFields
  <2>4. QED
    BY <1>1, <2>1, <2>2, <2>3
<1>4. CASE RejectPicks(o) \/ RefusedByForeignKey(o) \/ InvalidateRoundsBundle(o) \/ Die(o)
  BY <1>1, <1>4 DEF RejectPicks, RefusedByForeignKey, InvalidateRoundsBundle, Die, Finish, Typed, TypeOK
<1>5. QED
  BY <1>2, <1>3, <1>4

\* set-answer has seen no plays.
LEMMA CheckGoesOn ==
  ASSUME Typed, NEW o \in Ops, CheckPlays(o)
  PROVE  /\ op[o] \in CommandRow /\ op[o].pc = "check" /\ UNCHANGED <<puzzle, round, plays>>
         /\ \/ op'[o] = Idle
            \/ /\ op'[o] \in CommandRow /\ op'[o].pc = "locate" /\ op'[o].id = op[o].id
               /\ op'[o].line = op[o].line /\ plays[op[o].id] = 0
<1>1. op[o] \in CommandRow /\ op[o].pc = "check" /\ (op'[o] = Idle \/ op'[o] \in CommandRow)
  BY StatementStep DEF Statement, Typed, CheckPlays
<1>2. UNCHANGED <<puzzle, round, plays>>
  BY DEF CheckPlays
<1>3. CASE PuzzleHasPlays(op[o].id)
  <2>1. op'[o] = Idle
    BY <1>1, <1>3 DEF CheckPlays, Finish, Typed, TypeOK
  <2>2. QED
    BY <1>1, <1>2, <2>1
<1>4. CASE ~PuzzleHasPlays(op[o].id)
  <2>1. op'[o] = [op[o] EXCEPT !.pc = "locate"]
    BY <1>1, <1>4 DEF CheckPlays, Goto, Typed, TypeOK
  <2>2. op'[o].pc = "locate" /\ op'[o].id = op[o].id /\ op'[o].line = op[o].line
    BY <1>1, <2>1 DEF CommandRow
  <2>3. op'[o] # Idle
    BY <2>2, IdleFields
  <2>4. op[o].id \in Ids
    BY <1>1 DEF Typed, CommandsFit
  <2>5. plays[op[o].id] = 0
    BY <1>4, <2>4, Unplayed DEF Typed
  <2>6. QED
    BY <1>1, <1>2, <2>2, <2>3, <2>5
<1>5. QED
  BY <1>3, <1>4

\* set-answer has found its slot in answers that are there now, of a round
\* that has the prompt of its line, unless it has been given another one.
LEMMA LocateGoesOn ==
  ASSUME Typed, NEW o \in Ops, LocateAnswer(o)
  PROVE  LET id   == op'[o].id
             line == op'[o].line
         IN  /\ op[o] \in CommandRow /\ op[o].pc = "locate"
             /\ UNCHANGED <<puzzle, round, plays>>
             /\ \/ op'[o] = Idle
                \/ /\ op'[o] \in CommandRow /\ op'[o].pc = "override" /\ id \in Present
                   /\ id = op[o].id
                   /\ line.i = op[o].line.i /\ line.edition = round[id][line.i].edition
                   /\ \/ line.in # None => PromptOf[line.in] = round[id][line.i].prompt
                      \/ "torn" \in marks'[id]
<1> DEFINE c == op[o]
           row == round[c.id][c.line.i]
           line == [c.line EXCEPT !.edition = row.edition]
           d == [c EXCEPT !.line = line, !.pc = "override"]
<1>1. c \in CommandRow /\ c.pc = "locate" /\ (op'[o] = Idle \/ op'[o] \in CommandRow)
  BY StatementStep DEF Statement, Typed, LocateAnswer
<1>2. c.id \in Ids /\ (c.line.in # None => PromptOf[c.line.in] = c.line.prompt)
  BY <1>1 DEF Typed, CommandsFit
<1>3. c.line \in LineRow
  BY <1>1 DEF CommandRow, LineRow
<1>4. UNCHANGED <<puzzle, round, plays>>
  BY DEF LocateAnswer
<1>5. CASE c.id \in Present /\ c.line.slot \in DOMAIN row.lines
  <2>1. op'[o] = d
    BY <1>1, <1>5 DEF LocateAnswer, Typed, TypeOK
  <2>2. d.id = c.id /\ d.pc = "override" /\ d.line = line
    BY <1>1 DEF CommandRow
  <2>3. line.i = c.line.i /\ line.in = c.line.in /\ line.edition = row.edition
    BY <1>3 DEF LineRow
  <2>4. line.in # None /\ c.line.prompt # row.prompt => "torn" \in marks'[c.id]
    <3>1. line.in # None /\ c.line.prompt # row.prompt => Mark(c.id, {"torn"})
      BY <1>5, <2>3 DEF LocateAnswer
    <3>2. QED
      BY <1>2, <3>1 DEF Mark, Typed, TypeOK
  <2>5. op'[o] # Idle
    BY <2>1, <2>2, IdleFields
  <2> HIDE DEF d, line
  <2>6. QED
    BY <1>1, <1>2, <1>4, <1>5, <2>1, <2>2, <2>3, <2>4, <2>5
<1>6. CASE ~(c.id \in Present /\ c.line.slot \in DOMAIN row.lines)
  <2>1. op'[o] = Idle
    BY <1>1, <1>6 DEF LocateAnswer, Finish, Typed, TypeOK
  <2>2. QED
    BY <1>1, <1>4, <2>1
<1>7. QED
  BY <1>5, <1>6

LEMMA ReplaceGoesOn ==
  ASSUME Typed, NEW o \in Ops, ReplaceRoundAnswers(o)
  PROVE  \/ op'[o] = Idle
         \/ op'[o].pc = "evict" /\ op'[o].id = op[o].id
         \/ /\ op'[o] \in CommandRow /\ op'[o].pc = "round" /\ op'[o].id = op[o].id
            /\ op'[o].plan # NoPlan
            /\ DOMAIN op'[o].plan = DOMAIN op[o].plan \ {NextIndex(o)}
<1> DEFINE rest == Restrict(op[o].plan, DOMAIN op[o].plan \ {NextIndex(o)})
<1>1. op[o] \in CommandRow /\ (op'[o] = Idle \/ op'[o] \in CommandRow)
  BY StatementStep DEF Statement, Typed
<1>2. DOMAIN rest = DOMAIN op[o].plan \ {NextIndex(o)}
  BY DEF Restrict
<1> HIDE DEF rest
<1>3. op'[o] = IF rest # NoPlan THEN [op[o] EXCEPT !.plan = rest, !.pc = "round"]
               ELSE IF op[o].verb = "build" THEN [op[o] EXCEPT !.pc = "evict"]
               ELSE Idle
  BY DEF ReplaceRoundAnswers, Typed, TypeOK, rest
<1>4. CASE rest # NoPlan
  <2>1. op'[o] = [op[o] EXCEPT !.plan = rest, !.pc = "round"]
    BY <1>3, <1>4
  <2>2. op'[o].pc = "round" /\ op'[o].id = op[o].id /\ op'[o].plan = rest
    BY <1>1, <2>1 DEF CommandRow
  <2>3. op'[o] # Idle
    BY <2>2, IdleFields
  <2>4. QED
    BY <1>1, <1>2, <1>4, <2>2, <2>3
<1>5. CASE rest = NoPlan
  BY <1>1, <1>3, <1>5 DEF CommandRow
<1>6. QED
  BY <1>4, <1>5

\* Only four statements write to daily_puzzles.
LEMMA PuzzleWriters ==
  ASSUME Typed, NumbersDiffer, [Next]_vars
  PROVE  \/ puzzle' = puzzle
         \/ \E o \in Ops : \/ InsertDailyPuzzle(o) \/ UpdateDailyPuzzle(o)
                           \/ DeleteDailyPuzzle(o) \/ DeleteDailyPuzzleAndPlays(o)
<1>1. ASSUME NEW o \in Ops, Start(o) PROVE puzzle' = puzzle
  BY <1>1, StartStep, BeginStep DEF Typed, Opening
<1>2. QED
  BY <1>1 DEF Next, vars, Statement, Page, ReadNumber, ReadDate, InsertPuzzleRound,
     ReplaceRoundAnswers, RejectPicks, RefusedByForeignKey, CheckPlays, LocateAnswer, OverrideAnswerContent,
     OverrideAnswerText, InvalidateRoundsBundle, Die, CreateOrGetPlay, LoadRoundsBundle,
     SetBundle, Expire, Midnight

LEMMA RowsStay ==
  ASSUME Typed, NumbersDiffer, [Next]_vars, NEW id \in Ids
  PROVE  /\ puzzle[id] # Absent => puzzle'[id] # Absent
         /\ puzzle[id] = Gone => puzzle'[id] = Gone
<1>1. ASSUME NEW o \in Ops, InsertDailyPuzzle(o)
      PROVE  /\ puzzle[id] # Absent => puzzle'[id] # Absent
             /\ puzzle[id] = Gone => puzzle'[id] = Gone
  <2>1. PICK d \in Ids : /\ puzzle'[d] \in PuzzleRow
                         /\ \A e \in Ids : e # d => puzzle'[e] = puzzle[e]
                         /\ d \in Present \/ puzzle[d] = Absent
    BY <1>1, InsertPuzzleWrites
  <2>2. QED
    BY <2>1, States DEF Typed
<1>2. ASSUME NEW o \in Ops, UpdateDailyPuzzle(o)
      PROVE  /\ puzzle[id] # Absent => puzzle'[id] # Absent
             /\ puzzle[id] = Gone => puzzle'[id] = Gone
  <2>1. PICK d \in Present : /\ d \in Ids /\ puzzle'[d] \in PuzzleRow
                             /\ \A e \in Ids : e # d => puzzle'[e] = puzzle[e]
    BY <1>2, UpdateWrites
  <2>2. QED
    BY <2>1, States DEF Typed
<1>3. ASSUME NEW o \in Ops, DeleteDailyPuzzle(o) \/ DeleteDailyPuzzleAndPlays(o)
      PROVE  /\ puzzle[id] # Absent => puzzle'[id] # Absent
             /\ puzzle[id] = Gone => puzzle'[id] = Gone
  <2>1. PICK d \in Present : d \in Ids /\ puzzle' = [puzzle EXCEPT ![d] = Gone]
    BY <1>3, RemoveWrites
  <2>2. QED
    BY <2>1, States DEF Typed, TypeOK
<1>4. QED
  BY <1>1, <1>2, <1>3, PuzzleWriters
LEMMA CommandsFitStep ==
  ASSUME Typed, NumbersDiffer, [Next]_vars
  PROVE  CommandsFit'
<1> DEFINE Fit(c) == /\ c.pc \in {"round", "answers", "evict", "check", "locate", "override"} =>
                          c.id \in Ids /\ puzzle'[c.id] # Absent
                     /\ c.pc \in {"round", "answers"} => c.plan # NoPlan
                     /\ c.pc \in {"check", "locate"} /\ c.line.in # None =>
                          PromptOf[c.line.in] = c.line.prompt
<1>1. ASSUME NEW c, c.pc \in {"round", "answers", "evict", "check", "locate", "override"} =>
                      c.id \in Ids /\ puzzle[c.id] # Absent
      PROVE  c.pc \in {"round", "answers", "evict", "check", "locate", "override"} =>
               c.id \in Ids /\ puzzle'[c.id] # Absent
  BY <1>1, RowsStay
<1>2. ASSUME NEW o \in Ops, \/ op'[o] = op[o]
                            \/ op[o] \in CommandRow /\ SameLocals(op'[o], op[o])
                            \/ op[o] \in CommandRow /\ SameButLate(op'[o], op[o])
      PROVE  Fit(op'[o])
  <2>1. /\ op'[o].pc = op[o].pc /\ op'[o].id = op[o].id /\ op'[o].plan = op[o].plan
        /\ op'[o].line = op[o].line
    BY <1>2 DEF SameLocals, SameButLate
  <2>2. Fit(op[o])
    BY <1>1 DEF Typed, CommandsFit
  <2>3. QED
    BY <2>1, <2>2
<1>3. Fit(Idle)
  BY IdleFields
<1> HIDE DEF Fit
<1>4. ASSUME NEW o \in Ops, Start(o), NEW p \in Ops PROVE Fit(op'[p])
  <2>1. PICK c : Opening(c) /\ Begin(o, c)
    BY <1>4, StartStep DEF Typed
  <2>2. c \in CommandRow
    BY <2>1 DEF Opening
  <2>3. /\ op[o] = Idle /\ SameLocals(op'[o], c) /\ UNCHANGED puzzle
        /\ \A other \in Ops \ {o} : \/ op'[other] = Idle
                                    \/ op[other] \in CommandRow /\ SameLocals(op'[other], op[other])
    BY <2>1, <2>2, BeginStep DEF Typed
  <2>4. CASE p = o
    <3>1. c.pc \in {"round", "check"} => c.id \in Ids /\ puzzle[c.id] # Absent
      BY <2>1, States DEF Opening, Present, Typed
    <3>2. /\ c.pc \notin {"answers", "evict", "locate", "override"}
          /\ c.pc = "check" /\ c.line.in # None => PromptOf[c.line.in] = c.line.prompt
      BY <2>1 DEF Opening
    <3>3. c.pc = "round" => c.plan # NoPlan
      <4>1. c.pc = "round" => DOMAIN c.plan # {}
        BY <2>1 DEF Opening
      <4>2. QED
        BY <2>2, <4>1, PlanFields
    <3>4. QED
      BY <2>3, <2>4, <3>1, <3>2, <3>3 DEF SameLocals, Fit
  <2>5. CASE p # o
    BY <1>2, <1>3, <2>3, <2>5
  <2>6. QED
    BY <2>4, <2>5
<1>5. ASSUME NEW o \in Ops, Statement(o) \/ Die(o), NEW p \in Ops PROVE Fit(op'[p])
  <2>1. op[o] \in CommandRow /\ \A other \in Ops \ {o} : op'[other] = op[other]
    BY <1>5, StatementStep DEF Typed
  <2>2. CASE p # o
    BY <1>2, <2>1, <2>2
  <2>3. CASE p = o /\ op'[o] = Idle
    BY <1>3, <2>3
  <2>4. CASE p = o /\ op'[o].pc \in {"date", "insert"}
    BY <2>4 DEF Fit
  <2>5. CASE p = o /\ InsertDailyPuzzle(o) /\ op'[o] # Idle
    <3>1. PICK d \in Ids :
            /\ puzzle'[d] \in PuzzleRow /\ \A e \in Ids : e # d => puzzle'[e] = puzzle[e]
            /\ (d \in Present /\ puzzle[d].number = op[o].number) \/ puzzle[d] = Absent
            /\ op'[o] = Idle \/ (op'[o].pc = "round" /\ op'[o].id = d /\ op'[o].plan # NoPlan)
      BY <2>5, InsertTarget
    <3>2. QED
      BY <2>5, <3>1, States DEF Fit
  <2>6. CASE p = o /\ InsertPuzzleRound(o)
    <3>1. /\ op'[o].pc = "answers" /\ op'[o].id = op[o].id /\ op'[o].plan = op[o].plan
          /\ op[o].pc = "round"
      BY <2>6, InsertRoundWrites
    <3>2. op[o].id \in Ids /\ puzzle[op[o].id] # Absent /\ op[o].plan # NoPlan
      BY <3>1 DEF Typed, CommandsFit
    <3>3. QED
      BY <2>6, <3>1, <3>2, RowsStay DEF Fit
  <2>7. CASE p = o /\ ReplaceRoundAnswers(o) /\ op'[o] # Idle
    <3>1. /\ op'[o].pc \in {"evict", "round"} /\ op'[o].id = op[o].id
          /\ op'[o].pc = "round" => op'[o].plan # NoPlan
      BY <2>7, ReplaceGoesOn
    <3>2. op[o].id \in Ids /\ puzzle[op[o].id] # Absent
      BY <2>7 DEF ReplaceRoundAnswers, Typed, CommandsFit
    <3>3. QED
      BY <2>7, <3>1, <3>2, RowsStay DEF Fit
  <2>8. CASE OverrideAnswerContent(o) \/ OverrideAnswerText(o)
    BY <2>2, <2>3, <2>8, OverrideWrites
  <2>9. CASE UpdateDailyPuzzle(o)
    BY <2>2, <2>3, <2>9, UpdateWrites
  <2>10. CASE DeleteDailyPuzzle(o) \/ DeleteDailyPuzzleAndPlays(o)
    <3>1. op'[o] = Idle \/ op'[o] = [op[o] EXCEPT !.pc = "insert"]
      BY <2>10, RemoveWrites
    <3>2. op'[o] = [op[o] EXCEPT !.pc = "insert"] => op'[o].pc = "insert"
      BY <2>1 DEF CommandRow
    <3>3. QED
      BY <2>2, <2>3, <2>4, <3>1, <3>2
  <2>11. CASE \/ ReadNumber(o) \/ ReadDate(o) \/ RejectPicks(o) \/ RefusedByForeignKey(o)
              \/ InvalidateRoundsBundle(o) \/ Die(o)
    BY <2>2, <2>3, <2>4, <2>11, QuietGoesOn
  <2>12. CASE LocateAnswer(o)
    <3>1. /\ UNCHANGED puzzle
          /\ \/ op'[o] = Idle
             \/ op'[o].pc = "override" /\ op'[o].id \in Present
      BY <2>12, LocateGoesOn
    <3>2. \A id \in Present : id \in Ids /\ puzzle[id] # Absent
      BY States DEF Present, Typed
    <3>3. op'[o].pc = "override" /\ op'[o].id \in Present => Fit(op'[o])
      BY <3>1, <3>2 DEF Fit
    <3>4. QED
      BY <2>2, <2>3, <3>1, <3>3
  <2>13. CASE CheckPlays(o)
    <3>1. /\ UNCHANGED puzzle /\ op[o].pc = "check"
          /\ \/ op'[o] = Idle
             \/ op'[o].pc = "locate" /\ op'[o].id = op[o].id /\ op'[o].line = op[o].line
      BY <2>13, CheckGoesOn
    <3>2. /\ op[o].id \in Ids /\ puzzle[op[o].id] # Absent
          /\ op[o].line.in # None => PromptOf[op[o].line.in] = op[o].line.prompt
      BY <3>1 DEF Typed, CommandsFit
    <3>3. op'[o].pc = "locate" /\ op'[o].id = op[o].id /\ op'[o].line = op[o].line => Fit(op'[o])
      BY <3>1, <3>2 DEF Fit
    <3>4. QED
      BY <2>2, <2>3, <3>1, <3>3
  <2>14. QED
    BY <1>5, <2>2, <2>3, <2>5, <2>6, <2>7, <2>8, <2>9, <2>10, <2>11, <2>12, <2>13 DEF Statement
<1>6. ASSUME NEW q \in Readers, CreateOrGetPlay(q), NEW p \in Ops PROVE Fit(op'[p])
  <2>1. \/ op[p] = Idle /\ op'[p] = Idle
        \/ op[p] \in CommandRow /\ SameButLate(op'[p], op[p])
    BY <1>6, CreateWrites, Zenon
  <2>2. QED
    BY <1>2, <1>3, <2>1
<1>7. ASSUME UNCHANGED op, NEW p \in Ops PROVE Fit(op'[p])
  BY <1>2, <1>7
<1>8. \A p \in Ops : Fit(op'[p])
  BY <1>4, <1>5, <1>6, <1>7
     DEF Next, vars, Page, LoadRoundsBundle, SetBundle, Expire, Midnight
<1>9. QED
  BY <1>8 DEF Fit, CommandsFit

LEMMA NumbersStep ==
  ASSUME Typed, NumbersDiffer, [Next]_vars
  PROVE  NumbersDiffer'
<1>1. ASSUME NEW o \in Ops, InsertDailyPuzzle(o) PROVE NumbersDiffer'
  <2>1. PICK id \in Ids :
          /\ puzzle'[id] = [state |-> "present", number |-> op[o].number, date |-> op[o].date]
          /\ \A d \in Ids : d # id => puzzle'[d] = puzzle[d]
          /\ \/ id \in Present /\ puzzle[id].number = op[o].number
             \/ \A d \in Present : puzzle[d].number # op[o].number
    BY <1>1, InsertPuzzleWrites
  <2>2. puzzle'[id].number = op[o].number
    BY <2>1
  <2>3. QED
    BY <2>1, <2>2 DEF NumbersDiffer, Present
<1>2. ASSUME NEW o \in Ops, UpdateDailyPuzzle(o) PROVE NumbersDiffer'
  <2>1. PICK id \in Present : /\ puzzle'[id].number = puzzle[id].number
                              /\ \A d \in Ids : d # id => puzzle'[d] = puzzle[d]
    BY <1>2, UpdateWrites
  <2>2. QED
    BY <2>1 DEF NumbersDiffer, Present
<1>3. ASSUME NEW o \in Ops, DeleteDailyPuzzle(o) \/ DeleteDailyPuzzleAndPlays(o)
      PROVE  NumbersDiffer'
  <2>1. PICK id \in Present : puzzle' = [puzzle EXCEPT ![id] = Gone]
    BY <1>3, RemoveWrites
  <2>2. \A d \in Ids : d # id => puzzle'[d] = puzzle[d]
    BY <2>1 DEF Typed, TypeOK
  <2>3. id \notin Present'
    BY <2>1 DEF Typed, TypeOK, Present, Gone
  <2>4. QED
    BY <2>2, <2>3 DEF NumbersDiffer, Present
<1>4. QED
  BY <1>1, <1>2, <1>3, PuzzleWriters DEF NumbersDiffer, Present
-----------------------------------------------------------------------------
(***************************************************************************)
(* The cached bundle is current.                                           *)
(***************************************************************************)
\* There are plays only of puzzles that are there, and a bundle is read only
\* once there is a play.
Played(id) == plays[id] > 0 \/ puzzle[id] = Gone

RowsFit ==
  /\ \A id \in Ids : puzzle[id] = Absent => round[id] = EmptyBundle
  /\ \A id \in Ids : plays[id] > 0 => id \in Present
  /\ \A id \in Ids : cache[id] # {} => Played(id)
  /\ \A q \in Readers : reader[q] # NotReading => Played(reader[q].id)

\* What a page load has in hand is current like what is cached.
BundlesFit ==
  \A id \in Present : "edited" \notin marks[id] =>
    /\ cache[id] \subseteq {round[id]}
    /\ \A q \in Readers : reader[q].pc = "set" /\ reader[q].id = id => reader[q].got = round[id]

\* No edit makes an unedited puzzle current again.
LEMMA MarksStay ==
  ASSUME Typed, NumbersDiffer, [Next]_vars, NEW id \in Ids
  PROVE  marks[id] \subseteq marks'[id]
<1>1. ASSUME NEW d, NEW m, Mark(d, m) PROVE marks[id] \subseteq marks'[id]
  BY <1>1 DEF Mark, Typed, TypeOK
<1>2. ASSUME marks' = marks PROVE marks[id] \subseteq marks'[id]
  BY <1>2
<1>3. ASSUME NEW o \in Ops, Statement(o) \/ Die(o) PROVE marks[id] \subseteq marks'[id]
  BY <1>1, <1>2, <1>3
     DEF Statement, Die, ReadNumber, ReadDate, InsertDailyPuzzle, InsertPuzzleRound,
         ReplaceRoundAnswers, RejectPicks, RefusedByForeignKey, UpdateDailyPuzzle,
         CheckPlays, LocateAnswer, OverrideAnswerContent, OverrideAnswerText, DeleteDailyPuzzle,
         DeleteDailyPuzzleAndPlays, InvalidateRoundsBundle
<1>4. ASSUME NEW o \in Ops, Start(o) PROVE marks' = marks
  BY <1>4, StartStep, BeginStep DEF Typed, Opening
<1>5. QED
  BY <1>2, <1>3, <1>4
     DEF Next, vars, Page, CreateOrGetPlay, LoadRoundsBundle, SetBundle, Expire, Midnight

\* Six statements write to rounds.
LEMMA RoundsMove ==
  ASSUME Typed, NumbersDiffer, [Next]_vars, round' # round
  PROVE  \E o \in Ops : \/ InsertPuzzleRound(o) \/ ReplaceRoundAnswers(o)
                        \/ OverrideAnswerContent(o) \/ OverrideAnswerText(o)
                        \/ DeleteDailyPuzzle(o) \/ DeleteDailyPuzzleAndPlays(o)
<1>1. ASSUME NEW o \in Ops, Start(o) PROVE round' = round
  BY <1>1, StartStep, BeginStep DEF Typed, Opening
<1>2. QED
  BY <1>1 DEF Next, vars, Statement, Page, ReadNumber, ReadDate, InsertDailyPuzzle, RejectPicks,
     RefusedByForeignKey, UpdateDailyPuzzle, CheckPlays, LocateAnswer, InvalidateRoundsBundle, Die,
     CreateOrGetPlay, LoadRoundsBundle, SetBundle, Expire, Midnight

\* A write to a round of a puzzle with plays marks the puzzle edited.
LEMMA EditsAreMarked ==
  ASSUME Typed, NumbersDiffer, [Next]_vars, NEW id \in Ids, round'[id] # round[id]
  PROVE  \/ plays[id] > 0 /\ "edited" \in marks'[id]
         \/ ~(plays[id] > 0) /\ id \in Present
         \/ puzzle'[id] = Gone
<1>1. ASSUME NEW m, Mark(id, m), Edited(id) \subseteq m, id \in Present
      PROVE  \/ plays[id] > 0 /\ "edited" \in marks'[id]
             \/ ~(plays[id] > 0) /\ id \in Present
  BY <1>1 DEF Mark, Edited, PuzzleHasPlays, Typed, TypeOK
<1>2. ASSUME NEW o \in Ops, InsertPuzzleRound(o)
      PROVE  \/ plays[id] > 0 /\ "edited" \in marks'[id]
             \/ ~(plays[id] > 0) /\ id \in Present
  <2>1. op[o].id = id /\ id \in Present
    BY <1>2, InsertRoundWrites
  <2>2. PICK clash \in BOOLEAN :
          Mark(op[o].id, Edited(op[o].id) \cup (IF clash THEN {"torn"} ELSE {})
                         \cup (IF op[o].verb = "set-round" THEN {"patched"} ELSE {}))
    BY <1>2 DEF InsertPuzzleRound
  <2>3. QED
    BY <1>1, <2>1, <2>2
<1>3. ASSUME NEW o \in Ops, ReplaceRoundAnswers(o)
      PROVE  \/ plays[id] > 0 /\ "edited" \in marks'[id]
             \/ ~(plays[id] > 0) /\ id \in Present
  <2>1. op[o].id = id /\ id \in Present /\ Mark(op[o].id, Edited(op[o].id))
    BY <1>3, ReplaceWrites
  <2>2. QED
    BY <1>1, <2>1
<1>4. ASSUME NEW o \in Ops, OverrideAnswerContent(o) \/ OverrideAnswerText(o)
      PROVE  \/ plays[id] > 0 /\ "edited" \in marks'[id]
             \/ ~(plays[id] > 0) /\ id \in Present
  <2>1. /\ op[o].id = id /\ id \in Present
        /\ \/ Mark(op[o].id, Edited(op[o].id))
           \/ Mark(op[o].id, Edited(op[o].id) \cup {"overridden"})
    BY <1>4, OverrideWrites
  <2>2. QED
    BY <1>1, <2>1
<1>5. ASSUME NEW o \in Ops, DeleteDailyPuzzle(o) \/ DeleteDailyPuzzleAndPlays(o)
      PROVE  puzzle'[id] = Gone
  <2>1. PICK d \in Present : /\ d \in Ids /\ puzzle' = [puzzle EXCEPT ![d] = Gone]
                             /\ round' = [round EXCEPT ![d] = EmptyBundle]
    BY <1>5, RemoveWrites
  <2>2. d = id
    BY <2>1 DEF Typed, TypeOK
  <2>3. QED
    BY <2>1, <2>2 DEF Typed, TypeOK
<1>6. QED
  BY <1>2, <1>3, <1>4, <1>5, RoundsMove

\* A puzzle that goes is removed by one of two statements, with its plays.
LEMMA GoneWithoutPlays ==
  ASSUME Typed, NumbersDiffer, [Next]_vars, NEW id \in Ids,
         puzzle[id] # Gone, puzzle'[id] = Gone
  PROVE  ~(plays'[id] > 0)
<1>1. ASSUME NEW o \in Ops, InsertDailyPuzzle(o) PROVE FALSE
  <2>1. PICK d \in Ids :
          /\ puzzle'[d] \in PuzzleRow /\ \A e \in Ids : e # d => puzzle'[e] = puzzle[e]
          /\ (d \in Present /\ puzzle[d].number = op[o].number) \/ puzzle[d] = Absent
          /\ op'[o] = Idle \/ (op'[o].pc = "round" /\ op'[o].id = d /\ op'[o].plan # NoPlan)
    BY <1>1, InsertTarget
  <2>2. QED
    BY <2>1, States
<1>2. ASSUME NEW o \in Ops, UpdateDailyPuzzle(o) PROVE FALSE
  <2>1. \E d \in Ids : /\ puzzle'[d] \in PuzzleRow
                       /\ \A e \in Ids : e # d => puzzle'[e] = puzzle[e]
    BY <1>2, UpdateWrites
  <2>2. QED
    BY <2>1, States
<1>3. ASSUME NEW o \in Ops, DeleteDailyPuzzle(o) \/ DeleteDailyPuzzleAndPlays(o)
      PROVE  ~(plays'[id] > 0)
  <2>1. PICK d \in Present :
          /\ d \in Ids /\ puzzle' = [puzzle EXCEPT ![d] = Gone]
          /\ \/ plays' = plays /\ plays[d] = 0
             \/ plays' = [plays EXCEPT ![d] = 0]
    BY <1>3, RemoveWrites
  <2>2. d = id
    BY <2>1 DEF Typed, TypeOK
  <2>3. QED
    BY <2>1, <2>2 DEF Typed, TypeOK
<1>4. QED
  BY <1>1, <1>2, <1>3, PuzzleWriters

\* A play is of the latest puzzle, and disappears only with it.
LEMMA PlaysStay ==
  ASSUME Typed, NumbersDiffer, [Next]_vars, NEW id \in Ids, plays[id] > 0 => id \in Present
  PROVE  /\ Played(id) => Played(id)'
         /\ plays'[id] > 0 => id \in Present'
<1>1. ASSUME NEW o \in Ops, DeleteDailyPuzzle(o) \/ DeleteDailyPuzzleAndPlays(o)
      PROVE  /\ plays'[id] > 0 => plays[id] > 0
             /\ plays[id] > 0 => plays'[id] > 0 \/ puzzle'[id] = Gone
  <2>1. PICK d \in Present :
          /\ d \in Ids /\ puzzle' = [puzzle EXCEPT ![d] = Gone]
          /\ \/ plays' = plays /\ plays[d] = 0
             \/ plays' = [plays EXCEPT ![d] = 0]
    BY <1>1, RemoveWrites
  <2>2. QED
    BY <2>1 DEF Typed, TypeOK
<1>2. ASSUME NEW q \in Readers, CreateOrGetPlay(q)
      PROVE  /\ plays'[id] > 0 => plays[id] > 0 \/ id \in Present
             /\ plays[id] > 0 => plays'[id] > 0
  <2>1. PICK d \in Present : /\ d \in Ids /\ plays'[d] > 0
                             /\ \A e \in Ids : e # d => plays'[e] = plays[e]
    BY <1>2, CreateWrites
  <2>2. QED
    BY <2>1
<1>3. \/ plays' = plays
      \/ \E o \in Ops : DeleteDailyPuzzle(o) \/ DeleteDailyPuzzleAndPlays(o)
      \/ \E q \in Readers : CreateOrGetPlay(q)
  <2>1. ASSUME NEW o \in Ops, Start(o) PROVE plays' = plays
    BY <2>1, StartStep, BeginStep DEF Typed, Opening
  <2>2. QED
    BY <2>1 DEF Next, vars, Statement, Page, ReadNumber, ReadDate, InsertDailyPuzzle,
       InsertPuzzleRound, ReplaceRoundAnswers, RejectPicks, RefusedByForeignKey,
       UpdateDailyPuzzle, CheckPlays, LocateAnswer, OverrideAnswerContent, OverrideAnswerText,
       InvalidateRoundsBundle, Die, LoadRoundsBundle, SetBundle, Expire, Midnight
<1>4. /\ plays'[id] > 0 => id \in Present
      /\ plays[id] > 0 => plays'[id] > 0 \/ puzzle'[id] = Gone
  BY <1>1, <1>2, <1>3
<1>5. plays'[id] > 0 => id \in Present'
  <2>1. ASSUME plays'[id] > 0 PROVE id \in Present'
    <3>1. puzzle[id] # Absent /\ puzzle[id] # Gone
      BY <1>4, <2>1, States DEF Typed
    <3>2. puzzle'[id] # Absent /\ puzzle'[id] # Gone
      BY <2>1, <3>1, RowsStay, GoneWithoutPlays
    <3>3. puzzle'[id] \in PuzzleRow
      BY <3>2, TypeStep DEF TypeOK
    <3>4. QED
      BY <3>3 DEF Present, PuzzleRow
  <2>2. QED
    BY <2>1
<1>6. QED
  BY <1>4, <1>5, RowsStay DEF Played

LEMMA StatementsLeave ==
  ASSUME NEW o \in Ops, Statement(o) \/ Die(o)
  PROVE  UNCHANGED <<today, reader>>
BY DEF Statement, ReadNumber, ReadDate, InsertDailyPuzzle, InsertPuzzleRound,
       ReplaceRoundAnswers, RejectPicks, RefusedByForeignKey, UpdateDailyPuzzle,
       CheckPlays, LocateAnswer, OverrideAnswerContent, OverrideAnswerText, DeleteDailyPuzzle,
       DeleteDailyPuzzleAndPlays, InvalidateRoundsBundle, Die

\* Only page loads move page loads.
LEMMA ReadersMove ==
  ASSUME Typed, NumbersDiffer, [Next]_vars, reader' # reader
  PROVE  \E q \in Readers : CreateOrGetPlay(q) \/ LoadRoundsBundle(q) \/ SetBundle(q)
<1>1. ASSUME NEW o \in Ops, Start(o) PROVE reader' = reader
  BY <1>1, StartStep, BeginStep DEF Typed, Opening
<1>2. QED
  BY <1>1, StatementsLeave DEF Next, vars, Page, Expire, Midnight

\* No statement writes a round and touches what was read from it.
LEMMA RoundWriters ==
  ASSUME Typed, NumbersDiffer, [Next]_vars, round' # round
  PROVE  cache' = cache /\ reader' = reader
<1>1. PICK o \in Ops : \/ InsertPuzzleRound(o) \/ ReplaceRoundAnswers(o)
                       \/ OverrideAnswerContent(o) \/ OverrideAnswerText(o)
                       \/ DeleteDailyPuzzle(o) \/ DeleteDailyPuzzleAndPlays(o)
  BY RoundsMove
<1>2. QED
  BY <1>1 DEF InsertPuzzleRound, ReplaceRoundAnswers, OverrideAnswerContent, OverrideAnswerText,
              DeleteDailyPuzzle, DeleteDailyPuzzleAndPlays

LEMMA RowsFitStep ==
  ASSUME Typed, NumbersDiffer, RowsFit, [Next]_vars
  PROVE  RowsFit'
<1>1. ASSUME NEW id \in Ids, puzzle'[id] = Absent PROVE round'[id] = EmptyBundle
  <2>1. puzzle[id] = Absent
    BY <1>1, RowsStay
  <2>2. round[id] = EmptyBundle /\ ~(plays[id] > 0) /\ id \notin Present
    BY <2>1, States DEF RowsFit, Typed
  <2>3. Gone # Absent
    BY States
  <2>4. QED
    BY <1>1, <2>2, <2>3, EditsAreMarked
<1>2. \A id \in Ids : plays'[id] > 0 => id \in Present'
  BY PlaysStay DEF RowsFit
<1>3. \A id \in Ids : Played(id) => plays'[id] > 0 \/ puzzle'[id] = Gone
  BY PlaysStay DEF RowsFit, Played
<1>4. ASSUME NEW q \in Readers, reader'[q] # NotReading
      PROVE  /\ reader'[q].id \in Ids
             /\ plays'[reader'[q].id] > 0 \/ puzzle'[reader'[q].id] = Gone
  <2>1. CASE reader'[q] = reader[q]
    <3>1. reader[q].id \in Ids
      BY <1>4, <2>1, ReaderFields DEF Typed, TypeOK
    <3>2. QED
      BY <1>3, <1>4, <2>1, <3>1 DEF RowsFit
  <2>2. ASSUME NEW p \in Readers, CreateOrGetPlay(p), reader'[q] # reader[q]
        PROVE  /\ reader'[q].id \in Ids
               /\ plays'[reader'[q].id] > 0 \/ puzzle'[reader'[q].id] = Gone
    <3>1. PICK id \in Present :
            /\ id \in Ids /\ reader' = [reader EXCEPT ![p] = Read(id, "load", EmptyBundle)]
            /\ plays'[id] > 0
      BY <2>2, CreateWrites
    <3>2. reader'[q] = Read(id, "load", EmptyBundle)
      BY <2>2, <3>1 DEF Typed, TypeOK
    <3>3. reader'[q].id = id
      BY <3>2, ReaderFields
    <3>4. QED
      BY <3>1, <3>3
  <2>3. ASSUME NEW p \in Readers, LoadRoundsBundle(p), reader'[q] # reader[q]
        PROVE  /\ reader'[q].id \in Ids
               /\ plays'[reader'[q].id] > 0 \/ puzzle'[reader'[q].id] = Gone
    <3>1. p = q /\ reader'[q] = Read(reader[q].id, "set", round[reader[q].id])
      BY <1>4, <2>3 DEF LoadRoundsBundle, Typed, TypeOK
    <3>2. reader[q] # NotReading
      BY <2>3, <3>1, ReaderFields DEF LoadRoundsBundle
    <3>3. reader[q].id \in Ids /\ reader'[q].id = reader[q].id
      BY <3>1, <3>2, ReaderFields DEF Typed, TypeOK
    <3>4. QED
      BY <1>3, <3>2, <3>3 DEF RowsFit
  <2>4. ASSUME NEW p \in Readers, SetBundle(p), reader'[q] # reader[q] PROVE FALSE
    BY <1>4, <2>4 DEF SetBundle, Typed, TypeOK
  <2>5. CASE reader'[q] # reader[q]
    <3>1. reader' # reader
      BY <2>5
    <3>2. PICK p \in Readers : CreateOrGetPlay(p) \/ LoadRoundsBundle(p) \/ SetBundle(p)
      BY <3>1, ReadersMove
    <3>3. CASE CreateOrGetPlay(p)
      BY <2>2, <2>5, <3>3
    <3>4. CASE LoadRoundsBundle(p)
      BY <2>3, <2>5, <3>4
    <3>5. CASE SetBundle(p)
      BY <2>4, <2>5, <3>5
    <3>6. QED
      BY <3>2, <3>3, <3>4, <3>5
  <2>6. QED
    BY <2>1, <2>5
<1>5. ASSUME NEW id \in Ids, cache'[id] # {} PROVE plays'[id] > 0 \/ puzzle'[id] = Gone
  <2>1. CASE cache[id] # {}
    BY <1>3, <2>1 DEF RowsFit
  <2>2. CASE cache[id] = {}
    <3>1. PICK q \in Readers : SetBundle(q)
      <4>1. ASSUME NEW o \in Ops, Start(o) PROVE cache' = cache
        BY <4>1, StartStep, BeginStep DEF Typed, Opening
      <4>2. \/ cache' = cache
            \/ \E o \in Ops : InvalidateRoundsBundle(o)
            \/ \E q \in Readers : SetBundle(q)
            \/ \E d \in Ids : Expire(d)
        BY <4>1 DEF Next, vars, Statement, Page, ReadNumber, ReadDate, InsertDailyPuzzle,
         InsertPuzzleRound, ReplaceRoundAnswers, RejectPicks, RefusedByForeignKey,
         UpdateDailyPuzzle, CheckPlays, LocateAnswer, OverrideAnswerContent, OverrideAnswerText, CreateOrGetPlay,
         LoadRoundsBundle, Die, Midnight, DeleteDailyPuzzle, DeleteDailyPuzzleAndPlays
      <4>3. ASSUME NEW d, cache' = [cache EXCEPT ![d] = {}] PROVE FALSE
        BY <1>5, <2>2, <4>3 DEF Typed, TypeOK
      <4>4. QED
        BY <1>5, <2>2, <4>2, <4>3 DEF InvalidateRoundsBundle, Expire
    <3>2. reader[q].id = id /\ reader[q] # NotReading
      BY <1>5, <2>2, <3>1, ReaderFields DEF SetBundle, Typed, TypeOK
    <3>3. QED
      BY <1>3, <3>2 DEF RowsFit
  <2>3. QED
    BY <2>1, <2>2
<1>6. QED
  BY <1>1, <1>2, <1>4, <1>5 DEF RowsFit, Played

\* A round of a puzzle that has plays is written only as "edited".
LEMMA BundlesFitStep ==
  ASSUME Typed, NumbersDiffer, RowsFit, BundlesFit, [Next]_vars
  PROVE  BundlesFit'
<1> SUFFICES ASSUME NEW id \in Ids, id \in Present', "edited" \notin marks'[id]
             PROVE  /\ cache'[id] \subseteq {round'[id]}
                    /\ \A q \in Readers :
                         reader'[q].pc = "set" /\ reader'[q].id = id => reader'[q].got = round'[id]
  BY DEF BundlesFit, Present
<1>1. puzzle'[id] # Gone /\ puzzle'[id] # Absent
  BY DEF Present, Gone, Absent
<1>2. puzzle[id] # Gone
  BY <1>1, RowsStay
<1>3. "edited" \notin marks[id]
  BY MarksStay
<1>4. /\ cache[id] \subseteq {round[id]}
      /\ \A q \in Readers : reader[q].pc = "set" /\ reader[q].id = id => reader[q].got = round[id]
  <2>1. CASE id \in Present
    BY <1>3, <2>1 DEF BundlesFit
  <2>2. CASE id \notin Present
    <3>1. ~(plays[id] > 0)
      BY <2>2 DEF RowsFit
    <3>2. ~Played(id)
      BY <1>2, <3>1 DEF Played
    <3>3. cache[id] = {}
      BY <3>2 DEF RowsFit
    <3>4. \A q \in Readers : ~(reader[q].pc = "set" /\ reader[q].id = id)
      BY <3>2, ReaderFields DEF RowsFit
    <3>5. QED
      BY <3>3, <3>4
  <2>3. QED
    BY <2>1, <2>2
<1>5. CASE round'[id] = round[id]
  <2>1. cache'[id] \subseteq {round[id]}
    <3>1. ASSUME NEW q \in Readers, SetBundle(q) PROVE cache'[id] \subseteq {round[id]}
      BY <1>4, <3>1 DEF SetBundle, Typed, TypeOK
    <3>2. ASSUME NEW o \in Ops, Start(o) PROVE cache' = cache
      BY <3>2, StartStep, BeginStep DEF Typed, Opening
    <3>3. \/ cache' = cache
          \/ \E o \in Ops : InvalidateRoundsBundle(o)
          \/ \E q \in Readers : SetBundle(q)
          \/ \E d \in Ids : Expire(d)
      BY <3>2 DEF Next, vars, Statement, Page, ReadNumber, ReadDate, InsertDailyPuzzle,
       InsertPuzzleRound, ReplaceRoundAnswers, RejectPicks, RefusedByForeignKey,
       UpdateDailyPuzzle, CheckPlays, LocateAnswer, OverrideAnswerContent, OverrideAnswerText, CreateOrGetPlay,
       LoadRoundsBundle, Die, Midnight, DeleteDailyPuzzle, DeleteDailyPuzzleAndPlays
    <3>4. ASSUME NEW d, cache' = [cache EXCEPT ![d] = {}] PROVE cache'[id] \subseteq {round[id]}
      BY <1>4, <3>4 DEF Typed, TypeOK
    <3>5. QED
      BY <1>4, <3>1, <3>3, <3>4 DEF InvalidateRoundsBundle, Expire
  <2>2. ASSUME NEW q \in Readers, reader'[q].pc = "set", reader'[q].id = id
        PROVE  reader'[q].got = round[id]
    <3>1. CASE reader'[q] = reader[q]
      BY <1>4, <2>2, <3>1
    <3>2. CASE reader'[q] # reader[q]
      <4>1. reader' # reader
        BY <3>2
      <4>2. PICK p \in Readers : CreateOrGetPlay(p) \/ LoadRoundsBundle(p) \/ SetBundle(p)
        BY <4>1, ReadersMove
      <4>3. CASE CreateOrGetPlay(p)
        <5>1. PICK d \in Present :
                d \in Ids /\ reader' = [reader EXCEPT ![p] = Read(d, "load", EmptyBundle)]
          BY <4>3, CreateWrites
        <5>2. reader'[q] = Read(d, "load", EmptyBundle)
          BY <3>2, <5>1 DEF Typed, TypeOK
        <5>3. QED
          BY <2>2, <5>2, ReaderFields
      <4>4. CASE LoadRoundsBundle(p)
        <5>1. reader'[q] = NotReading \/ reader'[q] = Read(reader[q].id, "set", round[reader[q].id])
          BY <3>2, <4>4 DEF LoadRoundsBundle, Typed, TypeOK
        <5>2. reader'[q] = Read(reader[q].id, "set", round[reader[q].id])
          BY <2>2, <5>1, ReaderFields
        <5>3. QED
          BY <2>2, <5>2, ReaderFields
      <4>5. CASE SetBundle(p)
        <5>1. reader'[q] = NotReading
          BY <3>2, <4>5 DEF SetBundle, Typed, TypeOK
        <5>2. QED
          BY <2>2, <5>1, ReaderFields
      <4>6. QED
        BY <4>2, <4>3, <4>4, <4>5
    <3>3. QED
      BY <3>1, <3>2
  <2>3. QED
    BY <1>5, <2>1, <2>2
<1>6. CASE round'[id] # round[id]
  <2>1. ~(plays[id] > 0)
    BY <1>1, <1>6, EditsAreMarked
  <2>2. ~Played(id)
    BY <1>2, <2>1 DEF Played
  <2>3. cache[id] = {} /\ \A q \in Readers : reader[q] # NotReading => reader[q].id # id
    BY <2>2 DEF RowsFit
  <2>4. cache' = cache /\ reader' = reader
    BY <1>6, RoundWriters
  <2>5. \A q \in Readers : ~(reader[q].pc = "set" /\ reader[q].id = id)
    BY <2>3, ReaderFields
  <2>6. QED
    BY <2>3, <2>4, <2>5
<1>7. QED
  BY <1>5, <1>6

LEMMA FitInit ==
  ASSUME Init
  PROVE  NumbersDiffer /\ RowsFit /\ BundlesFit
<1>1. Present \subseteq {1}
  BY DEF Init, Present, Absent
<1>2. \A id \in Ids : plays[id] = 0 /\ cache[id] = {}
  BY DEF Init
<1>3. \A q \in Readers : reader[q] = NotReading
  BY DEF Init
<1>4. \A id \in Ids : puzzle[id] = Absent => round[id] = EmptyBundle
  BY DEF Init, Absent
<1>5. RowsFit
  BY <1>2, <1>3, <1>4 DEF RowsFit
<1>6. BundlesFit
  BY <1>2, <1>3, ReaderFields DEF BundlesFit, Present
<1>7. QED
  BY <1>1, <1>5, <1>6 DEF NumbersDiffer

-----------------------------------------------------------------------------
(***************************************************************************)
(* The inductive invariant and the theorems.                               *)
(***************************************************************************)
IInv == Typed /\ NumbersDiffer /\ RowsFit /\ BundlesFit

LEMMA InvStep ==
  ASSUME IInv, [Next]_vars
  PROVE  IInv'
<1>1. Typed'
  BY TypeStep, CommandsFitStep DEF IInv, Typed
<1>2. NumbersDiffer'
  BY NumbersStep DEF IInv
<1>3. RowsFit' /\ BundlesFit'
  BY RowsFitStep, BundlesFitStep DEF IInv
<1>4. QED
  BY <1>1, <1>2, <1>3 DEF IInv

LEMMA Inductive == Spec => []IInv
<1>1. Init => IInv
  BY TypeInit, FitInit DEF IInv, Typed
<1>2. IInv /\ [Next]_vars => IInv'
  BY InvStep
<1>3. QED
  BY <1>1, <1>2, PTL DEF Spec

\* Types of the rows, of the cache and of the locals of commands and requests.
THEOREM PuzzlesTypeCorrect == Spec => []TypeOK
<1>1. IInv => TypeOK
  BY DEF IInv, Typed
<1>2. QED
  BY <1>1, Inductive, PTL

\* A page load creates its play before it reads the rounds, and the commands
\* refuse a puzzle with plays: a cached bundle is what Postgres holds, unless
\* some command wrote a round of a puzzle that already had plays.
THEOREM BundlesAreCurrent == Spec => []BundleCurrent
<1>1. IInv => BundleCurrent
  BY DEF IInv, BundlesFit, BundleCurrent
<1>2. QED
  BY <1>1, Inductive, PTL
=============================================================================
