----------------------------- MODULE PoolProofs -----------------------------
(***************************************************************************)
(* The content pool stays reviewed, whichever requests, campaign cards and *)
(* commands of bbg-admin run at once, for any number of each.              *)
(***************************************************************************)
EXTENDS Pool, FiniteSetTheorems, TLAPS

-----------------------------------------------------------------------------
(***************************************************************************)
(* The inductive invariant.                                                *)
(***************************************************************************)
\* A running command works on lines, and deletes a prompt, that were there when
\* it began: a line is never removed, and a prompt is not forgotten.
TargetsThere ==
  \A c \in Clis :
    /\ op[c].kind \in {"decoy", "bot", "prelaunch"} => op[c].decision \in Decisions
    /\ op[c].kind \in {"decoy", "bot"} =>
         op[c].todo \subseteq Lines /\ \A l \in op[c].todo : status[l] # "absent"
    /\ op[c].kind = "prelaunch" =>
         op[c].todo \subseteq Rows /\ \A r \in op[c].todo : IsThere(r)
    /\ op[c].kind = "delete" => \A p \in Prompts : op[c].at = p => prompt[p] # "absent"

\* Between its two statements a decision holds the lock of its row, and the
\* row is still undecided.
LocksHeld ==
  \A c \in Clis : \A r \in Rows :
    op[c].kind = "prelaunch" /\ op[c].at = r => lock[r] = c /\ IsThere(r) /\ ~Decided(r)

\* ReviewedOnce, with the count of the decisions spelled out.
DecidedOnce ==
  \A r \in Rows :
    /\ \/ ~Decided(r) /\ reviews[r] = 0
       \/ "ingested" \in pre[r] /\ "rejected" \notin pre[r] /\ reviews[r] = 1
       \/ "rejected" \in pre[r] /\ "ingested" \notin pre[r] /\ reviews[r] = 1
    /\ "ingested" \in pre[r] => status[r] # "absent"

\* A line is approved, and gets into a round, after it was cleared.
ClearedFirst ==
  /\ \A l \in Lines : status[l] = "approved" => l \in cleared
  /\ \A i \in Indices : round[i].decoys \subseteq cleared /\ round[i].bot \in cleared \cup {None}

\* A submission that runs, or was answered, is of a row, and it is answered once.
RequestsOfRows ==
  \A q \in Reqs :
    /\ req[q].at # "idle" => req[q].row \in Rows
    /\ req[q].answer # "none" => req[q].row \in Rows /\ req[q].at = "answered"

-----------------------------------------------------------------------------
(***************************************************************************)
(* Types.                                                                  *)
(***************************************************************************)
LEMMA RowsAndLines ==
  /\ Rows \subseteq Lines /\ Bots \subseteq Lines
  /\ None \notin Rows
  /\ \A r \in Rows : r[1] \in Users /\ r[2] \in Prompts /\ r = <<r[1], r[2]>>
  /\ \A u \in Users, p \in Prompts : <<u, p>> \in Rows /\ <<u, p>>[2] = p
BY PoolAssumption DEF Rows, Lines

LEMMA TypeInit == PoolInit => PoolTypeOK /\ TargetsThere
<1> SUFFICES ASSUME PoolInit PROVE PoolTypeOK /\ TargetsThere
  OBVIOUS
<1>1. PICK p \in Prompts :
        LET drafts == IF prompt[p] = "live" THEN Drafts ELSE {}
        IN  /\ status = [l \in Lines |-> IF l \in drafts THEN "pending" ELSE "absent"]
            /\ bot = [b \in Bots |-> IF b \in drafts THEN [prompt |-> p, written |-> p] ELSE NoBot]
  BY DEF PoolInit
<1>2. prompt \in [Prompts -> {"absent", "live", "retired", "gone"}]
  BY DEF PoolInit
<1>3. status \in [Lines -> {"absent", "pending"} \cup Decisions]
  BY <1>1
<1>4. bot \in [Bots -> [prompt : Prompts \cup {None}, written : Prompts \cup {None}]]
  BY <1>1 DEF NoBot
<1>5. pre \in [Rows -> SUBSET {"sent", "ingested", "rejected"}]
  BY DEF PoolInit
<1>6. round \in [Indices -> [prompt : Prompts \cup {None}, bot : Bots \cup {None}, decoys : SUBSET Rows]]
  BY DEF PoolInit, NoRound
<1>7. /\ reviews \in [Rows -> Nat]
      /\ cleared \subseteq Lines
      /\ lock \in [Rows -> Clis \cup Slots \cup {None}]
  BY DEF PoolInit
<1>8. req \in [Reqs -> [at : {"idle", "check", "insert", "recheck", "answered"},
                       row : Rows \cup {<<>>},
                       answer : {"none", "ok", "already_submitted", "submit_failed", "db"}]]
  BY DEF PoolInit
<1>9. op \in [Clis -> [kind : {"none", "decoy", "bot", "prelaunch", "delete"},
                      decision : Decisions \cup {"none"},
                      todo : SUBSET (Lines \cup Prompts), at : Rows \cup Prompts \cup {None}]]
  BY DEF PoolInit, NoCommand
<1>10. TargetsThere
  BY DEF PoolInit, NoCommand, TargetsThere
<1>11. QED
  BY <1>2, <1>3, <1>4, <1>5, <1>6, <1>7, <1>8, <1>9, <1>10 DEF PoolTypeOK

-----------------------------------------------------------------------------
(***************************************************************************)
(* The steps.                                                              *)
(***************************************************************************)
\* A line, a column of a campaign row, an approval and a deletion stay.
Kept ==
  /\ \A l \in Lines : status[l] # "absent" => status'[l] # "absent"
  /\ \A r \in Rows : pre[r] \subseteq pre'[r]
  /\ cleared \subseteq cleared'
  /\ \A p \in Prompts : /\ prompt[p] = "gone" => prompt'[p] = "gone"
                        /\ prompt[p] # "absent" => prompt'[p] # "absent"

\* What a bulk command, or a named line, is about is listed.
LEMMA TargetsAreListed ==
  ASSUME NEW kind, NEW filter, NEW todo \in Targets(kind, filter)
  PROVE  todo \subseteq Listed(kind, filter)
BY DEF Targets, kSubset

LEMMA Starts ==
  ASSUME NEW c \in Clis, Review(c) \/ BulkReview(c)
  PROVE  \E m \in Commands : \E filter : \E todo \in SUBSET Listed(m.kind, filter) :
           StartReview(c, m.kind, m.decision, todo)
<1>1. CASE Review(c)
  BY <1>1 DEF Review
<1>2. CASE BulkReview(c)
  BY <1>2, TargetsAreListed DEF BulkReview
<1>3. QED
  BY <1>1, <1>2

LEMMA CommandTypes ==
  \A m \in Commands : m.kind \in {"decoy", "bot", "prelaunch"} /\ m.decision \in Decisions
BY PoolAssumption DEF Decisions

LEMMA ListedLines ==
  ASSUME NEW kind \in {"decoy", "bot", "prelaunch"}, NEW filter
  PROVE  /\ Listed(kind, filter) \subseteq Lines
         /\ kind \in {"decoy", "bot"} => \A l \in Listed(kind, filter) : status[l] # "absent"
         /\ kind = "prelaunch" =>
              Listed(kind, filter) \subseteq Rows /\ \A r \in Listed(kind, filter) : IsThere(r)
<1>1. CASE kind = "decoy"
  BY <1>1, RowsAndLines DEF Listed
<1>2. CASE kind = "bot"
  BY <1>2, RowsAndLines DEF Listed
<1>3. CASE kind = "prelaunch"
  BY <1>3, RowsAndLines DEF Listed
<1>4. QED
  BY <1>1, <1>2, <1>3

\* The records of a submission, a command and a round.
Answers     == {"none", "ok", "already_submitted", "submit_failed", "db"}
Submissions == [at : {"idle", "check", "insert", "recheck", "answered"},
                row : Rows \cup {<<>>},
                answer : {"none", "ok", "already_submitted", "submit_failed", "db"}]
Running     == [kind : {"none", "decoy", "bot", "prelaunch", "delete"},
                decision : Decisions \cup {"none"},
                todo : SUBSET (Lines \cup Prompts), at : Rows \cup Prompts \cup {None}]
RoundRows   == [prompt : Prompts \cup {None}, bot : Bots \cup {None}, decoys : SUBSET Rows]

LEMMA Updates ==
  /\ \A x \in Submissions, at \in {"idle", "check", "insert", "recheck", "answered"} :
       [x EXCEPT !.at = at] \in Submissions
  /\ \A x \in Submissions, answer \in Answers :
       [x EXCEPT !.at = "answered", !.answer = answer] \in Submissions
  /\ \A x \in Running : \A l : [x EXCEPT !.todo = x.todo \ {l}, !.at = None] \in Running
  /\ \A x \in Running, r \in Rows : [x EXCEPT !.at = r] \in Running
  /\ \A x \in RoundRows, p \in Prompts : [x EXCEPT !.prompt = p] \in RoundRows
  /\ NoCommand \in Running
BY DEF Submissions, Answers, Running, RoundRows, NoCommand

LEMMA DoneType ==
  ASSUME op \in [Clis -> Running], NEW c \in Clis, NEW l, Done(c, l)
  PROVE  op' \in [Clis -> Running]
<1>1. [op[c] EXCEPT !.todo = op[c].todo \ {l}, !.at = None] \in Running
  BY Updates
<1>2. QED
  BY <1>1, Updates DEF Done

LEMMA AnswerType ==
  ASSUME req \in [Reqs -> Submissions], NEW q \in Reqs,
         NEW answer \in Answers, Answer(q, answer)
  PROVE  req' \in [Reqs -> Submissions]
<1>1. req[q] \in Submissions
  OBVIOUS
<1>2. [req[q] EXCEPT !.at = "answered", !.answer = answer] \in Submissions
  BY <1>1, Updates
<1>3. req' = [req EXCEPT ![q] = [req[q] EXCEPT !.at = "answered", !.answer = answer]]
  BY DEF Answer
<1>4. QED
  BY <1>2, <1>3

LEMMA TypeStep == PoolTypeOK /\ TargetsThere /\ [PoolNext]_poolVars => PoolTypeOK' /\ Kept
<1> SUFFICES ASSUME PoolTypeOK, TargetsThere, [PoolNext]_poolVars PROVE PoolTypeOK' /\ Kept
  OBVIOUS
<1> USE RowsAndLines
<1>0. /\ req \in [Reqs -> Submissions] /\ op \in [Clis -> Running]
      /\ round \in [Indices -> RoundRows]
  BY DEF PoolTypeOK, Submissions, Running, RoundRows
<1>1. ASSUME NEW q \in Reqs, NEW u \in Users, NEW p \in Prompts, Solicit(q, u, p)
      PROVE  PoolTypeOK' /\ Kept
  BY <1>1 DEF Solicit, PoolTypeOK, Kept, Lines, Rows
<1>2. ASSUME NEW q \in Reqs, NEW at \in {"insert", "recheck"}, Proceed(q, at)
      PROVE  req' \in [Reqs -> Submissions]
  <2>1. [req[q] EXCEPT !.at = at] \in Submissions
    BY <1>0, Updates
  <2>2. req' = [req EXCEPT ![q] = [req[q] EXCEPT !.at = at]]
    BY <1>2 DEF Proceed
  <2>3. QED
    BY <1>0, <2>1, <2>2
<1>3. ASSUME NEW q \in Reqs, DecoyForUserAndPrompt(q) \/ SubmitDecoy(q) \/ RecheckDecoy(q)
      PROVE  PoolTypeOK' /\ Kept
  <2>1. \/ \E at \in {"insert", "recheck"} : Proceed(q, at)
        \/ \E answer \in Answers : Answer(q, answer)
    BY <1>3 DEF DecoyForUserAndPrompt, SubmitDecoy, RecheckDecoy, AfterFailedInsert, Answers
  <2>2. req' \in [Reqs -> Submissions]
    BY <1>0, <1>2, <2>1, AnswerType
  <2>3. /\ status' = status \/ status' = [status EXCEPT ![req[q].row] = "pending"]
        /\ UNCHANGED <<prompt, bot, pre, reviews, cleared, round, lock, op>>
    BY <1>3 DEF DecoyForUserAndPrompt, SubmitDecoy, RecheckDecoy, Submitted
  <2>4. /\ status' \in [Lines -> {"absent", "pending"} \cup Decisions]
        /\ \A l \in Lines : status[l] # "absent" => status'[l] # "absent"
    BY <2>3 DEF PoolTypeOK
  <2>5. QED
    BY <2>2, <2>3, <2>4 DEF PoolTypeOK, Submissions, Answers, Kept
<1>4. ASSUME NEW r \in Arrivals, InsertPrelaunchSubmission(r) PROVE PoolTypeOK' /\ Kept
  BY <1>4, PoolAssumption DEF InsertPrelaunchSubmission, PoolTypeOK, Kept
<1>5. ASSUME NEW c \in Clis, Review(c) \/ BulkReview(c) PROVE PoolTypeOK' /\ Kept
  <2>1. PICK m \in Commands : \E filter : \E todo \in SUBSET Listed(m.kind, filter) :
               StartReview(c, m.kind, m.decision, todo)
    BY <1>5, Starts
  <2>2. PICK filter : \E todo \in SUBSET Listed(m.kind, filter) :
               StartReview(c, m.kind, m.decision, todo)
    BY <2>1
  <2>3. PICK todo \in SUBSET Lines : StartReview(c, m.kind, m.decision, todo)
    BY <2>2, ListedLines, CommandTypes
  <2>4. QED
    BY <2>3, CommandTypes DEF StartReview, PoolTypeOK, Kept
<1>6. ASSUME NEW c \in Clis, NEW l \in op[c].todo, ReviewOne(c, l) PROVE PoolTypeOK' /\ Kept
  <2>1. l \in Lines /\ op[c].decision \in Decisions
    BY <1>6 DEF ReviewOne, TargetsThere
  <2>2. QED
    <3>1. op' \in [Clis -> Running]
      BY <1>0, <1>6, DoneType DEF ReviewOne
    <3>2. /\ status' = [status EXCEPT ![l] = op[c].decision]
          /\ cleared' \in {cleared, cleared \cup {l}}
          /\ UNCHANGED <<prompt, bot, pre, reviews, round, lock, req>>
      BY <1>6 DEF ReviewOne, ReviewLine
    <3>3. op[c].decision # "absent"
      BY <2>1 DEF Decisions
    <3>4. QED
      BY <2>1, <3>1, <3>2, <3>3 DEF PoolTypeOK, Running, Kept
<1>7. ASSUME NEW c \in Clis, NEW r \in op[c].todo, LockPrelaunch(c, r) PROVE PoolTypeOK' /\ Kept
  <2>1. r \in Rows
    BY <1>7 DEF LockPrelaunch, TargetsThere
  <2>2. QED
    <3>1. op' \in [Clis -> Running]
      <4>1. [op[c] EXCEPT !.at = r] \in Running
        BY <1>0, <2>1, Updates
      <4>2. CASE Done(c, r)
        BY <1>0, <4>2, DoneType
      <4>3. CASE op' = [op EXCEPT ![c] = [op[c] EXCEPT !.at = r]]
        BY <1>0, <4>1, <4>3
      <4>4. QED
        BY <1>7, <4>2, <4>3 DEF LockPrelaunch
    <3>2. lock' \in {lock, [lock EXCEPT ![r] = c]}
      BY <1>7 DEF LockPrelaunch
    <3>3. UNCHANGED <<prompt, status, bot, pre, reviews, cleared, round, req>>
      BY <1>7 DEF LockPrelaunch
    <3>4. QED
      <4>1. lock' \in [Rows -> Clis \cup Slots \cup {None}]
        BY <2>1, <3>2 DEF PoolTypeOK
      <4>2. QED
        BY <3>1, <3>3, <4>1 DEF PoolTypeOK, Running, Kept
<1>8. ASSUME NEW c \in Clis, NEW r \in op[c].todo, DecidePrelaunch(c, r)
      PROVE  PoolTypeOK' /\ Kept
  <2>1. r \in Rows
    BY <1>8 DEF DecidePrelaunch, TargetsThere
  <2>2. QED
    <3>1. op' \in [Clis -> Running]
      BY <1>0, <1>8, DoneType DEF DecidePrelaunch
    <3>2. \/ UNCHANGED <<status, pre, reviews, cleared>>
          \/ /\ status' = [status EXCEPT ![r] = "approved"]
             /\ pre' = [pre EXCEPT ![r] = @ \cup {"ingested"}]
             /\ reviews' = [reviews EXCEPT ![r] = @ + 1]
             /\ cleared' = cleared \cup {r}
          \/ /\ pre' = [pre EXCEPT ![r] = @ \cup {"rejected"}]
             /\ reviews' = [reviews EXCEPT ![r] = @ + 1]
             /\ UNCHANGED <<status, cleared>>
      BY <1>8 DEF DecidePrelaunch, ApprovePrelaunch, RejectPrelaunch
    <3>3. /\ lock' = [lock EXCEPT ![r] = None]
          /\ UNCHANGED <<prompt, bot, round, req>>
      BY <1>8 DEF DecidePrelaunch
    <3>4. /\ status' \in [Lines -> {"absent", "pending"} \cup Decisions]
          /\ \A l \in Lines : status[l] # "absent" => status'[l] # "absent"
      <4>1. status' = status \/ status' = [status EXCEPT ![r] = "approved"]
        BY <3>2
      <4>2. status' \in [Lines -> {"absent", "pending"} \cup Decisions]
        BY <4>1 DEF PoolTypeOK, Decisions
      <4>3. \A l \in Lines : status[l] # "absent" => status'[l] # "absent"
        BY <4>1 DEF PoolTypeOK
      <4>4. QED
        BY <4>2, <4>3
    <3>5. /\ pre' \in [Rows -> SUBSET {"sent", "ingested", "rejected"}]
          /\ \A k \in Rows : pre[k] \subseteq pre'[k]
      <4>1. pre[r] \in SUBSET {"sent", "ingested", "rejected"}
        BY <2>1 DEF PoolTypeOK
      <4>2. CASE pre' = pre
        BY <4>2 DEF PoolTypeOK
      <4>3. ASSUME NEW column \in {"ingested", "rejected"},
                   pre' = [pre EXCEPT ![r] = pre[r] \cup {column}]
            PROVE  /\ pre' \in [Rows -> SUBSET {"sent", "ingested", "rejected"}]
                   /\ \A k \in Rows : pre[k] \subseteq pre'[k]
        <5>1. pre[r] \cup {column} \in SUBSET {"sent", "ingested", "rejected"}
          BY <4>1
        <5>2. QED
          BY <2>1, <4>3, <5>1 DEF PoolTypeOK
      <4>4. QED
        BY <3>2, <4>2, <4>3
    <3>6. reviews' \in [Rows -> Nat] /\ cleared' \subseteq Lines /\ cleared \subseteq cleared'
      <4>1. reviews[r] + 1 \in Nat /\ r \in Lines
        BY <2>1 DEF PoolTypeOK
      <4>2. reviews' \in {reviews, [reviews EXCEPT ![r] = reviews[r] + 1]}
        BY <3>2
      <4>3. cleared' \in {cleared, cleared \cup {r}}
        BY <3>2
      <4>4. reviews' \in [Rows -> Nat]
        BY <4>1, <4>2 DEF PoolTypeOK
      <4>5. cleared' \subseteq Lines /\ cleared \subseteq cleared'
        BY <4>1, <4>3 DEF PoolTypeOK
      <4>6. QED
        BY <4>4, <4>5
    <3>7. QED
      BY <3>1, <3>3, <3>4, <3>5, <3>6 DEF PoolTypeOK, Running, Kept
<1>9. ASSUME NEW c \in Clis, Interrupt(c) PROVE PoolTypeOK' /\ Kept
  BY <1>9 DEF Interrupt, NoCommand, PoolTypeOK, Kept
<1>10. ASSUME NEW c \in Clis, NEW p \in Prompts,
              InsertPrompt(c, p) \/ RetirePrompt(c, p) \/ CountRounds(c, p) \/ DeletePrompt(c, p)
       PROVE  PoolTypeOK' /\ Kept
  <2>1. /\ prompt' \in [Prompts -> {"absent", "live", "retired", "gone"}]
        /\ \A k \in Prompts : /\ prompt[k] = "gone" => prompt'[k] = "gone"
                              /\ prompt[k] # "absent" => prompt'[k] # "absent"
        /\ UNCHANGED <<status, bot, pre, reviews, cleared, round, lock, req>>
    BY <1>10 DEF InsertPrompt, RetirePrompt, CountRounds, DeletePrompt, PoolTypeOK
  <2>2. op' \in [Clis -> Running]
    <3>1. [kind |-> "delete", decision |-> "none", todo |-> {p}, at |-> p] \in Running
      BY DEF Running
    <3>2. QED
      BY <1>0, <1>10, <3>1, Updates DEF InsertPrompt, RetirePrompt, CountRounds, DeletePrompt
  <2>3. QED
    BY <2>1, <2>2 DEF PoolTypeOK, Running, Kept
<1>11. ASSUME NEW p \in Prompts, AddRound(p) PROVE PoolTypeOK' /\ Kept
  <2>1. round' = [round EXCEPT ![Cardinality(Filled)] = [@ EXCEPT !.prompt = p]]
    BY <1>11 DEF AddRound
  <2>2. \A i \in Indices : [round[i] EXCEPT !.prompt = p] \in RoundRows
    BY <1>0, Updates
  <2>3. round' \in [Indices -> RoundRows]
    BY <1>0, <2>1, <2>2
  <2>4. UNCHANGED <<prompt, status, bot, pre, reviews, cleared, lock, req, op>>
    BY <1>11 DEF AddRound
  <2>5. QED
    BY <2>3, <2>4 DEF PoolTypeOK, RoundRows, Kept
<1>12. CASE UNCHANGED poolVars
  BY <1>12 DEF poolVars, PoolTypeOK, Kept
<1>13. QED
  BY <1>1, <1>2, <1>3, <1>4, <1>5, <1>6, <1>7, <1>8, <1>9, <1>10, <1>11, <1>12
     DEF PoolNext, Player, Admin

LEMMA TargetsStep ==
  PoolTypeOK /\ TargetsThere /\ [PoolNext]_poolVars => TargetsThere'
<1> SUFFICES ASSUME PoolTypeOK, TargetsThere, [PoolNext]_poolVars PROVE TargetsThere'
  OBVIOUS
<1>0. Kept
  BY TypeStep
<1> DEFINE Works(o, st, pr, ps) ==
  /\ o.kind \in {"decoy", "bot", "prelaunch"} => o.decision \in Decisions
  /\ o.kind \in {"decoy", "bot"} => o.todo \subseteq Lines /\ \A l \in o.todo : st[l] # "absent"
  /\ o.kind = "prelaunch" => o.todo \subseteq Rows /\ \A r \in o.todo : pr[r] # {}
  /\ o.kind = "delete" => \A p \in Prompts : o.at = p => ps[p] # "absent"
<1>1. TargetsThere <=> \A c \in Clis : Works(op[c], status, pre, prompt)
  BY DEF TargetsThere, IsThere
<1>2. TargetsThere' <=> \A c \in Clis : Works(op'[c], status', pre', prompt')
  BY DEF TargetsThere, IsThere
\* What is there stays, so that an unfinished command is as it was.
<1>3. \A o : Works(o, status, pre, prompt) => Works(o, status', pre', prompt')
  BY <1>0 DEF Kept
<1>4. \A c \in Clis : \A l : Works(op[c], status, pre, prompt) =>
        Works([op[c] EXCEPT !.todo = op[c].todo \ {l}, !.at = None], status', pre', prompt')
  <2> SUFFICES ASSUME NEW c \in Clis, NEW l, Works(op[c], status, pre, prompt)
               PROVE  Works([op[c] EXCEPT !.todo = op[c].todo \ {l}, !.at = None], status', pre', prompt')
    OBVIOUS
  <2> DEFINE o == [op[c] EXCEPT !.todo = op[c].todo \ {l}, !.at = None]
  <2>1. /\ o.kind = op[c].kind /\ o.decision = op[c].decision /\ o.todo = op[c].todo \ {l}
        /\ o.at \notin Prompts
    BY PoolAssumption DEF PoolTypeOK
  <2>2. Works(op[c], status', pre', prompt')
    BY <1>3
  <2> HIDE DEF o
  <2>3. Works(o, status', pre', prompt')
    BY <2>1, <2>2
  <2>4. QED
    BY <2>3 DEF o
<1>5. Works(NoCommand, status', pre', prompt')
  BY DEF NoCommand
<1>6. \A c \in Clis, r \in Rows : op[c].kind = "prelaunch" /\ Works(op[c], status, pre, prompt) => Works([op[c] EXCEPT !.at = r], status', pre', prompt')
  <2> SUFFICES ASSUME NEW c \in Clis, NEW r \in Rows, op[c].kind = "prelaunch", Works(op[c], status, pre, prompt)
               PROVE  Works([op[c] EXCEPT !.at = r], status', pre', prompt')
    OBVIOUS
  <2> DEFINE o == [op[c] EXCEPT !.at = r]
  <2>1. o.kind = op[c].kind /\ o.decision = op[c].decision /\ o.todo = op[c].todo
    BY DEF PoolTypeOK
  <2>2. Works(op[c], status', pre', prompt')
    BY <1>3
  <2> HIDE DEF o
  <2>3. Works(o, status', pre', prompt')
    BY <2>1, <2>2
  <2>4. QED
    BY <2>3 DEF o
\* No step does anything else to a command that is running.
<1>7. \A c \in Clis : op'[c] = op[c] \/ Works(op'[c], status', pre', prompt')
  <2> SUFFICES ASSUME NEW c \in Clis PROVE op'[c] = op[c] \/ Works(op'[c], status', pre', prompt')
    OBVIOUS
  <2>0. op \in [Clis -> Running] /\ Works(op[c], status, pre, prompt)
    BY <1>1 DEF PoolTypeOK, Running
  <2> HIDE DEF Works
  <2>1. ASSUME NEW d \in Clis, NEW l, Done(d, l) PROVE op'[c] = op[c] \/ Works(op'[c], status', pre', prompt')
    <3>1. CASE c = d
      <4>1. op'[c] = NoCommand \/ op'[c] = [op[c] EXCEPT !.todo = op[c].todo \ {l}, !.at = None]
        BY <2>0, <2>1, <3>1 DEF Done
      <4>2. QED
        BY <1>4, <1>5, <2>0, <4>1
    <3>2. CASE c # d
      BY <2>0, <2>1, <3>2 DEF Done
    <3>3. QED
      BY <3>1, <3>2
  <2>2. ASSUME NEW d \in Clis, Review(d) \/ BulkReview(d)
        PROVE  op'[c] = op[c] \/ Works(op'[c], status', pre', prompt')
    <3>1. PICK m \in Commands : \E filter : \E todo \in SUBSET Listed(m.kind, filter) :
                 StartReview(d, m.kind, m.decision, todo)
      BY <2>2, Starts
    <3>2. PICK filter : \E todo \in SUBSET Listed(m.kind, filter) :
                 StartReview(d, m.kind, m.decision, todo)
      BY <3>1
    <3>3. PICK todo \in SUBSET Listed(m.kind, filter) : StartReview(d, m.kind, m.decision, todo)
      BY <3>2
    <3> DEFINE new == [kind |-> m.kind, decision |-> m.decision, todo |-> todo, at |-> None]
    <3>4. Works(new, status, pre, prompt)
      BY CommandTypes, ListedLines, RowsAndLines, <3>3 DEF IsThere, Works
    <3>5. op' = [op EXCEPT ![d] = new]
      BY <3>3 DEF StartReview
    <3> HIDE DEF new
    <3>6. QED
      BY <1>3, <2>0, <3>4, <3>5
  <2>3. ASSUME NEW d \in Clis, NEW r \in op[d].todo, LockPrelaunch(d, r)
        PROVE  op'[c] = op[c] \/ Works(op'[c], status', pre', prompt')
    <3>1. CASE Decided(r)
      BY <2>1, <2>3, <3>1 DEF LockPrelaunch
    <3>2. CASE ~Decided(r)
      <4>1. op' = [op EXCEPT ![d] = [op[d] EXCEPT !.at = r]] /\ r \in Rows /\ op[d].kind = "prelaunch"
        BY <2>3, <3>2 DEF LockPrelaunch, TargetsThere
      <4>2. QED
        BY <1>6, <2>0, <4>1
    <3>3. QED
      BY <3>1, <3>2
  <2>4. ASSUME NEW d \in Clis, NEW p \in Prompts, CountRounds(d, p)
        PROVE  op'[c] = op[c] \/ Works(op'[c], status', pre', prompt')
    <3>1. Works([kind |-> "delete", decision |-> "none", todo |-> {p}, at |-> p], status', pre', prompt')
      <4>1. prompt[p] # "absent" /\ prompt' = prompt
        BY <2>4 DEF CountRounds
      <4>2. QED
        BY <4>1 DEF Works
    <3>2. QED
      BY <2>0, <2>4, <3>1 DEF CountRounds
  <2>5. ASSUME NEW d \in Clis, op' = [op EXCEPT ![d] = NoCommand]
        PROVE  op'[c] = op[c] \/ Works(op'[c], status', pre', prompt')
    BY <1>5, <2>0, <2>5
  <2>6. CASE UNCHANGED op
    BY <2>6
  <2>7. QED
    BY <2>1, <2>2, <2>3, <2>4, <2>5, <2>6
       DEF PoolNext, Player, Admin, poolVars, Solicit, DecoyForUserAndPrompt, SubmitDecoy,
           RecheckDecoy, InsertPrelaunchSubmission, ReviewOne, DecidePrelaunch, Interrupt,
           InsertPrompt, RetirePrompt, DeletePrompt, AddRound
<1>8. QED
  BY <1>1, <1>2, <1>3, <1>7

\* A decision holds the lock of its row from its first statement to its second.
LEMMA LocksStep ==
  PoolTypeOK /\ TargetsThere /\ LocksHeld /\ [PoolNext]_poolVars => LocksHeld'
<1> SUFFICES ASSUME PoolTypeOK, TargetsThere, LocksHeld, [PoolNext]_poolVars,
                    NEW c \in Clis, NEW r \in Rows, (op[c].kind = "prelaunch" /\ op[c].at = r)'
             PROVE  (lock[r] = c /\ IsThere(r) /\ ~Decided(r))'
  BY DEF LocksHeld
<1> USE RowsAndLines
<1>0. /\ Kept /\ c # None /\ r # None
      /\ op \in [Clis -> Running] /\ pre \in [Rows -> SUBSET {"sent", "ingested", "rejected"}]
      /\ lock \in [Rows -> Clis \cup Slots \cup {None}]
  BY TypeStep, PoolAssumption DEF PoolTypeOK, Running
<1>1. op[c].kind = "prelaunch" /\ op[c].at = r => lock[r] = c /\ IsThere(r) /\ ~Decided(r)
  BY DEF LocksHeld
<1>2. ASSUME NEW d \in Clis, NEW l, Done(d, l)
      PROVE  c # d /\ op'[c] = op[c]
  <2>1. CASE c = d
    <3>1. op'[c].at = None
      BY <1>0, <1>2, <2>1 DEF Done, NoCommand, Running
    <3>2. QED
      BY <1>0, <3>1
  <2>2. CASE c # d
    BY <1>0, <1>2, <2>2 DEF Done
  <2>3. QED
    BY <2>1, <2>2
<1>3. ASSUME NEW d \in Clis, Review(d) \/ BulkReview(d)
      PROVE  op'[c] = op[c] /\ UNCHANGED <<lock, pre>>
  <2>1. PICK m \in Commands : \E filter : \E todo \in SUBSET Listed(m.kind, filter) :
               StartReview(d, m.kind, m.decision, todo)
    BY <1>3, Starts
  <2>2. PICK filter : \E todo \in SUBSET Listed(m.kind, filter) :
               StartReview(d, m.kind, m.decision, todo)
    BY <2>1
  <2>3. PICK todo : StartReview(d, m.kind, m.decision, todo)
    BY <2>2
  <2>4. /\ op' = [op EXCEPT ![d] = [kind |-> m.kind, decision |-> m.decision, todo |-> todo, at |-> None]]
        /\ UNCHANGED <<lock, pre>>
    BY <2>3 DEF StartReview
  <2>5. QED
    BY <1>0, <2>4
<1>4. CASE op'[c] = op[c] /\ UNCHANGED <<lock, pre>>
  BY <1>1, <1>4 DEF IsThere, Decided
<1>5. ASSUME NEW k \in Arrivals, InsertPrelaunchSubmission(k)
      PROVE  (lock[r] = c /\ IsThere(r) /\ ~Decided(r))'
  <2>1. /\ pre[k] = {} /\ pre' = [pre EXCEPT ![k] = {"sent"}] /\ UNCHANGED <<lock, op>>
    BY <1>5 DEF InsertPrelaunchSubmission
  <2>2. k # r
    BY <1>1, <2>1 DEF IsThere
  <2>3. QED
    BY <1>0, <1>1, <2>1, <2>2 DEF IsThere, Decided
<1>6. ASSUME NEW d \in Clis, NEW k \in op[d].todo, LockPrelaunch(d, k)
      PROVE  (lock[r] = c /\ IsThere(r) /\ ~Decided(r))'
  <2>1. k \in Rows /\ IsThere(k) /\ lock[k] = None /\ UNCHANGED pre
    BY <1>6 DEF LockPrelaunch, TargetsThere, CanLock
  <2>2. CASE Decided(k)
    <3>1. Done(d, k) /\ UNCHANGED lock
      BY <1>6, <2>2 DEF LockPrelaunch
    <3>2. QED
      BY <1>1, <1>2, <2>1, <3>1 DEF IsThere, Decided
  <2>3. CASE ~Decided(k)
    <3>1. op' = [op EXCEPT ![d].at = k] /\ lock' = [lock EXCEPT ![k] = d]
      BY <1>6, <2>3 DEF LockPrelaunch
    <3>2. CASE c = d
      <4>1. r = k
        BY <1>0, <3>1, <3>2 DEF Running
      <4>2. lock'[r] = c
        BY <1>0, <3>1, <3>2, <4>1
      <4>3. QED
        BY <2>1, <2>3, <4>1, <4>2 DEF IsThere, Decided
    <3>3. CASE c # d
      <4>1. op'[c] = op[c]
        BY <1>0, <3>1, <3>3
      <4>2. r # k
        BY <1>0, <1>1, <2>1, <4>1
      <4>3. QED
        BY <1>0, <1>1, <2>1, <3>1, <4>1, <4>2 DEF IsThere, Decided
    <3>4. QED
      BY <3>2, <3>3
  <2>4. QED
    BY <2>2, <2>3
<1>7. ASSUME NEW d \in Clis, NEW k \in op[d].todo, DecidePrelaunch(d, k)
      PROVE  (lock[r] = c /\ IsThere(r) /\ ~Decided(r))'
  <2>1. k \in Rows /\ op[d].kind = "prelaunch" /\ op[d].at = k
    BY <1>7 DEF DecidePrelaunch, TargetsThere
  <2>2. lock[k] = d
    BY <2>1 DEF LocksHeld
  <2>3. c # d /\ op'[c] = op[c]
    BY <1>2, <1>7 DEF DecidePrelaunch
  <2>4. r # k
    BY <1>1, <2>2, <2>3
  <2>5. lock'[r] = lock[r]
    BY <1>0, <1>7, <2>4 DEF DecidePrelaunch
  <2>6. pre'[r] = pre[r]
    BY <1>0, <1>7, <2>4 DEF DecidePrelaunch, ApprovePrelaunch, RejectPrelaunch
  <2>7. QED
    BY <1>1, <2>3, <2>5, <2>6 DEF IsThere, Decided
<1>8. ASSUME NEW d \in Clis, Interrupt(d)
      PROVE  (lock[r] = c /\ IsThere(r) /\ ~Decided(r))'
  <2>1. op' = [op EXCEPT ![d] = NoCommand] /\ UNCHANGED pre
    BY <1>8 DEF Interrupt
  <2>2. c # d
    BY <1>0, <2>1 DEF NoCommand
  <2>3. op'[c] = op[c]
    BY <1>0, <2>1, <2>2
  <2>4. lock'[r] = c
    BY <1>1, <1>8, <2>2, <2>3 DEF Interrupt
  <2>5. QED
    BY <1>1, <2>1, <2>3, <2>4 DEF IsThere, Decided
<1>9. ASSUME NEW d \in Clis, NEW p \in Prompts, CountRounds(d, p) \/ DeletePrompt(d, p)
      PROVE  op'[c] = op[c] /\ UNCHANGED <<lock, pre>>
  <2>1. UNCHANGED <<lock, pre>>
    BY <1>9 DEF CountRounds, DeletePrompt
  <2>2. \E new : op' = [op EXCEPT ![d] = new] /\ new.kind # "prelaunch"
    BY <1>9 DEF CountRounds, DeletePrompt, NoCommand
  <2>3. QED
    BY <1>0, <2>1, <2>2
<1>10. ASSUME NEW d \in Clis, NEW l \in op[d].todo, ReviewOne(d, l)
       PROVE  op'[c] = op[c] /\ UNCHANGED <<lock, pre>>
  BY <1>2, <1>10 DEF ReviewOne
<1>11. QED
  BY <1>3, <1>4, <1>5, <1>6, <1>7, <1>8, <1>9, <1>10
     DEF PoolNext, Player, Admin, poolVars, Solicit, DecoyForUserAndPrompt, SubmitDecoy,
         RecheckDecoy, InsertPrompt, RetirePrompt, AddRound

\* One decision for a row: the second statement finds it as the first left it.
LEMMA DecidedOnceStep ==
  PoolTypeOK /\ TargetsThere /\ LocksHeld /\ DecidedOnce /\ [PoolNext]_poolVars => DecidedOnce'
<1> SUFFICES ASSUME PoolTypeOK, TargetsThere, LocksHeld, DecidedOnce, [PoolNext]_poolVars
             PROVE  DecidedOnce'
  OBVIOUS
<1> USE RowsAndLines
<1>0. /\ Kept /\ pre \in [Rows -> SUBSET {"sent", "ingested", "rejected"}]
      /\ reviews \in [Rows -> Nat] /\ status \in [Lines -> {"absent", "pending"} \cup Decisions]
  BY TypeStep DEF PoolTypeOK
<1>1. CASE UNCHANGED <<pre, reviews>>
  BY <1>0, <1>1 DEF DecidedOnce, Decided, Kept
<1>2. ASSUME NEW k \in Arrivals, InsertPrelaunchSubmission(k) PROVE DecidedOnce'
  <2>1. pre[k] = {} /\ pre' = [pre EXCEPT ![k] = {"sent"}] /\ UNCHANGED <<reviews, status>>
    BY <1>2 DEF InsertPrelaunchSubmission
  <2>2. QED
    BY <1>0, <2>1 DEF DecidedOnce, Decided
<1>3. ASSUME NEW c \in Clis, NEW k \in op[c].todo, DecidePrelaunch(c, k) PROVE DecidedOnce'
  <2>1. k \in Rows /\ ~Decided(k)
    BY <1>3 DEF DecidePrelaunch, TargetsThere, LocksHeld
  <2>2. reviews[k] = 0
    BY <2>1 DEF DecidedOnce, Decided
  <2>3. CASE op[c].decision = "approved" /\ status[k] = "absent"
    <3>1. /\ pre' = [pre EXCEPT ![k] = @ \cup {"ingested"}]
          /\ reviews' = [reviews EXCEPT ![k] = @ + 1]
          /\ status' = [status EXCEPT ![k] = "approved"]
      BY <1>3, <2>3 DEF DecidePrelaunch, ApprovePrelaunch
    <3>2. QED
      BY <1>0, <2>1, <2>2, <3>1 DEF DecidedOnce, Decided
  <2>4. CASE op[c].decision = "approved" /\ status[k] # "absent"
    BY <1>1, <1>3, <2>4 DEF DecidePrelaunch, ApprovePrelaunch
  <2>5. CASE op[c].decision # "approved"
    <3>1. /\ pre' = [pre EXCEPT ![k] = @ \cup {"rejected"}]
          /\ reviews' = [reviews EXCEPT ![k] = @ + 1]
          /\ UNCHANGED status
      BY <1>3, <2>5 DEF DecidePrelaunch, RejectPrelaunch
    <3>2. QED
      BY <1>0, <2>1, <2>2, <3>1 DEF DecidedOnce, Decided
  <2>6. QED
    BY <2>3, <2>4, <2>5
<1>4. ASSUME NEW c \in Clis, Review(c) \/ BulkReview(c) PROVE UNCHANGED <<pre, reviews>>
  BY <1>4, Starts DEF StartReview
<1>5. QED
  BY <1>1, <1>2, <1>3, <1>4
     DEF PoolNext, Player, Admin, poolVars, Solicit, DecoyForUserAndPrompt, SubmitDecoy,
         RecheckDecoy, ReviewOne, LockPrelaunch, Interrupt, InsertPrompt, RetirePrompt,
         CountRounds, DeletePrompt, AddRound

\* A line becomes approved in the step that puts it among the cleared ones.
LEMMA ReviewedStep ==
  PoolTypeOK /\ TargetsThere /\ ClearedFirst /\ [PoolNext]_poolVars => ClearedFirst'
<1> SUFFICES ASSUME PoolTypeOK, TargetsThere, ClearedFirst, [PoolNext]_poolVars
             PROVE  ClearedFirst'
  OBVIOUS
<1> USE RowsAndLines
<1>0. /\ Kept /\ PoolTypeOK'
      /\ status \in [Lines -> {"absent", "pending"} \cup Decisions]
      /\ round \in [Indices -> RoundRows]
  BY TypeStep DEF PoolTypeOK, RoundRows
<1>1. /\ \A l \in Lines : status[l] = "approved" => l \in cleared
      /\ \A i \in Indices : round[i].decoys \subseteq cleared /\ round[i].bot \in cleared \cup {None}
  BY DEF ClearedFirst
<1>2. \A i \in Indices : round'[i].decoys \subseteq cleared /\ round'[i].bot \in cleared \cup {None}
  <2>1. ASSUME NEW p \in Prompts, AddRound(p)
        PROVE  \A i \in Indices : round'[i].decoys = round[i].decoys /\ round'[i].bot = round[i].bot
    BY <1>0, <2>1 DEF AddRound, RoundRows
  <2>2. ASSUME NEW c \in Clis, Review(c) \/ BulkReview(c) PROVE UNCHANGED round
    BY <2>2, Starts DEF StartReview
  <2>3. CASE UNCHANGED round
    BY <1>1, <2>3
  <2>4. QED
    BY <1>1, <2>1, <2>2, <2>3
       DEF PoolNext, Player, Admin, poolVars, Solicit, DecoyForUserAndPrompt, SubmitDecoy,
           RecheckDecoy, InsertPrelaunchSubmission, ReviewOne, LockPrelaunch, DecidePrelaunch,
           Interrupt, InsertPrompt, RetirePrompt, CountRounds, DeletePrompt
<1>3. \A l \in Lines : status'[l] = "approved" => l \in cleared'
  <2>1. ASSUME NEW q \in Reqs, SubmitDecoy(q)
        PROVE  \A l \in Lines : status'[l] = "approved" => status[l] = "approved"
    BY <1>0, <2>1 DEF SubmitDecoy, Submitted
  <2>2. ASSUME NEW c \in Clis, NEW k \in op[c].todo, ReviewOne(c, k)
        PROVE  \A l \in Lines : status'[l] = "approved" => l \in cleared'
    <3>1. /\ status' = [status EXCEPT ![k] = op[c].decision]
          /\ cleared' = IF op[c].decision = "approved" THEN cleared \cup {k} ELSE cleared
      BY <2>2 DEF ReviewOne, ReviewLine
    <3>2. QED
      BY <1>0, <1>1, <3>1
  <2>3. ASSUME NEW c \in Clis, NEW k \in op[c].todo, DecidePrelaunch(c, k)
        PROVE  \A l \in Lines : status'[l] = "approved" => l \in cleared'
    <3>1. \/ UNCHANGED <<status, cleared>>
          \/ status' = [status EXCEPT ![k] = "approved"] /\ cleared' = cleared \cup {k}
      BY <2>3 DEF DecidePrelaunch, ApprovePrelaunch, RejectPrelaunch
    <3>2. QED
      BY <1>0, <1>1, <3>1
  <2>4. ASSUME NEW c \in Clis, Review(c) \/ BulkReview(c) PROVE UNCHANGED status
    BY <2>4, Starts DEF StartReview
  <2>5. CASE UNCHANGED status
    BY <1>0, <1>1, <2>5 DEF Kept
  <2>6. QED
    BY <1>0, <1>1, <2>1, <2>2, <2>3, <2>4, <2>5
       DEF Kept, PoolNext, Player, Admin, poolVars, Solicit, DecoyForUserAndPrompt,
           RecheckDecoy, InsertPrelaunchSubmission, LockPrelaunch,
           Interrupt, InsertPrompt, RetirePrompt, CountRounds, DeletePrompt, AddRound
<1>4. QED
  BY <1>0, <1>2, <1>3 DEF Kept, ClearedFirst

\* Nothing comes to refer to a prompt that is gone, and one that goes is
\* referred to by nothing.
LEMMA UnusedStep ==
  PoolTypeOK /\ TargetsThere /\ LocksHeld /\ DeletedPromptUnused /\ [PoolNext]_poolVars
    => DeletedPromptUnused'
<1> SUFFICES ASSUME PoolTypeOK, TargetsThere, LocksHeld, DeletedPromptUnused, [PoolNext]_poolVars,
                    NEW p \in Prompts, prompt'[p] = "gone"
             PROVE  ~Referred(p)'
  BY DEF DeletedPromptUnused
<1> USE RowsAndLines
<1>0. /\ PoolTypeOK' /\ Kept
      /\ prompt \in [Prompts -> {"absent", "live", "retired", "gone"}]
      /\ pre \in [Rows -> SUBSET {"sent", "ingested", "rejected"}]
      /\ status \in [Lines -> {"absent", "pending"} \cup Decisions]
      /\ round \in [Indices -> RoundRows]
  BY TypeStep DEF PoolTypeOK, RoundRows
\* Without a primed variable hidden in Referred.
<1> DEFINE Free(st, pr, rd) ==
  /\ \A i \in Indices : rd[i].prompt # p
  /\ \A r \in Rows : r[2] = p => st[r] = "absent" /\ pr[r] = {}
  /\ \A b \in Bots : bot[b].prompt # p
<1>1. ~Referred(p) <=> Free(status, pre, round)
  BY DEF Referred, Locked, IsThere
<1>2. UNCHANGED bot => (~Referred(p)' <=> Free(status', pre', round'))
  BY DEF Referred, Locked, IsThere
<1>3. ASSUME NEW c \in Clis, NEW k \in Prompts, DeletePrompt(c, k) PROVE ~Referred(p)'
  <2>1. UNCHANGED <<status, bot, pre, round>>
    BY <1>3 DEF DeletePrompt
  <2>2. ~Referred(p)
    BY <1>0, <1>3 DEF DeletePrompt, Deletable, DeletedPromptUnused
  <2>3. QED
    BY <1>1, <1>2, <2>1, <2>2
<1>4. ASSUME NEW c \in Clis, Review(c) \/ BulkReview(c)
      PROVE  UNCHANGED <<prompt, bot, status, pre, round>>
  BY <1>4, Starts DEF StartReview
<1>5. CASE prompt[p] = "gone"
  <2>0. ~Referred(p) /\ Free(status, pre, round)
    BY <1>1, <1>5 DEF DeletedPromptUnused
  <2>1. CASE UNCHANGED <<bot, status, pre, round>>
    BY <1>1, <1>2, <2>0, <2>1
  <2>2. ASSUME NEW q \in Reqs, SubmitDecoy(q) PROVE ~Referred(p)'
    <3>1. CASE UNCHANGED status
      BY <2>1, <2>2, <3>1 DEF SubmitDecoy
    <3>2. CASE Insertable(req[q].row) /\ status' = [status EXCEPT ![req[q].row] = "pending"]
      <4>1. UNCHANGED <<bot, pre, round>> /\ prompt[req[q].row[2]] # "gone"
        BY <2>2, <3>2 DEF SubmitDecoy, Insertable
      <4>2. \A r \in Rows : r[2] = p => status'[r] = status[r]
        BY <1>0, <1>5, <3>2, <4>1
      <4>3. QED
        BY <1>2, <2>0, <4>1, <4>2
    <3>3. QED
      BY <2>2, <3>1, <3>2 DEF SubmitDecoy, Submitted
  <2>3. ASSUME NEW r \in Arrivals, InsertPrelaunchSubmission(r) PROVE ~Referred(p)'
    <3>1. /\ pre' = [pre EXCEPT ![r] = {"sent"}] /\ prompt[r[2]] \in {"live", "retired"}
          /\ UNCHANGED <<bot, status, round>>
      BY <2>3 DEF InsertPrelaunchSubmission
    <3>2. \A k \in Rows : k[2] = p => pre'[k] = pre[k]
      BY <1>0, <1>5, <3>1
    <3>3. QED
      BY <1>2, <2>0, <3>1, <3>2
  <2>4. ASSUME NEW c \in Clis, NEW l \in op[c].todo, ReviewOne(c, l) PROVE ~Referred(p)'
    <3>1. status[l] # "absent" /\ l \in Lines
      BY <2>4 DEF ReviewOne, TargetsThere
    <3>2. status' = [status EXCEPT ![l] = op[c].decision] /\ UNCHANGED <<bot, pre, round>>
      BY <2>4 DEF ReviewOne, ReviewLine
    <3>3. \A r \in Rows : r[2] = p => status'[r] = status[r]
      BY <1>0, <2>0, <3>1, <3>2
    <3>4. QED
      BY <1>2, <2>0, <3>2, <3>3
  <2>5. ASSUME NEW c \in Clis, NEW r \in op[c].todo, DecidePrelaunch(c, r) PROVE ~Referred(p)'
    <3>1. r \in Rows /\ pre[r] # {}
      BY <2>5 DEF DecidePrelaunch, TargetsThere, LocksHeld, IsThere
    <3>2. r[2] # p
      BY <2>0, <3>1
    <3>3. \/ UNCHANGED <<status, pre>>
          \/ /\ status' = [status EXCEPT ![r] = "approved"]
             /\ pre' = [pre EXCEPT ![r] = @ \cup {"ingested"}]
          \/ /\ pre' = [pre EXCEPT ![r] = @ \cup {"rejected"}]
             /\ UNCHANGED status
      BY <2>5 DEF DecidePrelaunch, ApprovePrelaunch, RejectPrelaunch
    <3>4. \A k \in Rows : k # r => status'[k] = status[k] /\ pre'[k] = pre[k]
      <4>1. \A k \in Rows : k # r => status'[k] = status[k]
        BY <1>0, <3>3
      <4>2. \A k \in Rows : k # r => pre'[k] = pre[k]
        BY <1>0, <3>3
      <4>3. QED
        BY <4>1, <4>2
    <3>5. UNCHANGED <<bot, round>>
      BY <2>5 DEF DecidePrelaunch
    <3>6. \A k \in Rows : k[2] = p => status'[k] = status[k] /\ pre'[k] = pre[k]
      BY <3>2, <3>4
    <3>7. QED
      BY <1>2, <2>0, <3>5, <3>6
  <2>6. ASSUME NEW k \in Prompts, AddRound(k) PROVE ~Referred(p)'
    <3>1. k # p /\ UNCHANGED <<bot, status, pre>>
      BY <1>5, <2>6 DEF AddRound, Solicited
    <3>2. \A i \in Indices : round'[i].prompt \in {round[i].prompt, k}
      BY <1>0, <2>6 DEF AddRound, RoundRows
    <3>3. QED
      BY <1>2, <2>0, <3>1, <3>2
  <2>7. QED
    BY <1>3, <1>4, <2>1, <2>2, <2>3, <2>4, <2>5, <2>6
       DEF PoolNext, Player, Admin, poolVars, Solicit, DecoyForUserAndPrompt, RecheckDecoy,
           LockPrelaunch, Interrupt, InsertPrompt, RetirePrompt, CountRounds
<1>6. CASE prompt[p] # "gone"
  <2>1. ASSUME NEW c \in Clis, NEW k \in Prompts, InsertPrompt(c, k) \/ RetirePrompt(c, k)
        PROVE  FALSE
    BY <1>0, <1>6, <2>1 DEF InsertPrompt, RetirePrompt
  <2>2. CASE UNCHANGED prompt
    BY <1>6, <2>2
  <2>3. QED
    BY <1>3, <1>4, <1>6, <2>1, <2>2
       DEF PoolNext, Player, Admin, poolVars, Solicit, DecoyForUserAndPrompt, SubmitDecoy,
           RecheckDecoy, InsertPrelaunchSubmission, ReviewOne, LockPrelaunch, DecidePrelaunch,
           Interrupt, CountRounds, AddRound
<1>7. QED
  BY <1>5, <1>6

\* Rows of submissions, and what they are told.
LEMMA AnsweredStep ==
  PoolTypeOK /\ TargetsThere /\ DecidedOnce /\ RequestsOfRows /\ SubmissionsAnswered
    /\ [PoolNext]_poolVars
    => RequestsOfRows' /\ SubmissionsAnswered'
<1> SUFFICES ASSUME PoolTypeOK, TargetsThere, DecidedOnce, RequestsOfRows, SubmissionsAnswered,
                    [PoolNext]_poolVars
             PROVE  RequestsOfRows' /\ SubmissionsAnswered'
  OBVIOUS
<1> USE RowsAndLines
<1>0. /\ Kept /\ req \in [Reqs -> Submissions]
      /\ status \in [Lines -> {"absent", "pending"} \cup Decisions]
      /\ pre \in [Rows -> SUBSET {"sent", "ingested", "rejected"}]
  BY TypeStep DEF PoolTypeOK, Submissions, Answers
\* No approval of a campaign row gets by a line that is there.
<1>1. ASSUME NEW r \in Rows, status[r] # "absent", "ingested" \in pre'[r]
      PROVE  "ingested" \in pre[r]
  <2>1. ASSUME NEW c \in Clis, NEW k \in op[c].todo, DecidePrelaunch(c, k)
        PROVE  "ingested" \in pre[r]
    BY <1>0, <1>1, <2>1 DEF DecidePrelaunch, ApprovePrelaunch, RejectPrelaunch
  <2>2. ASSUME NEW k \in Arrivals, InsertPrelaunchSubmission(k) PROVE "ingested" \in pre[r]
    BY <1>0, <1>1, <2>2 DEF InsertPrelaunchSubmission
  <2>3. ASSUME NEW c \in Clis, Review(c) \/ BulkReview(c) PROVE UNCHANGED pre
    BY <2>3, Starts DEF StartReview
  <2>4. CASE UNCHANGED pre
    BY <1>1, <2>4
  <2>5. QED
    BY <2>1, <2>2, <2>3, <2>4
       DEF PoolNext, Player, Admin, poolVars, Solicit, DecoyForUserAndPrompt, SubmitDecoy,
           RecheckDecoy, ReviewOne, LockPrelaunch, Interrupt, InsertPrompt, RetirePrompt,
           CountRounds, DeletePrompt, AddRound
\* What was told stays true.
<1>2. ASSUME NEW k \in Reqs, req'[k] = req[k]
      PROVE  /\ req'[k].at # "idle" \/ req'[k].answer # "none" => req'[k].row \in Rows
             /\ req'[k].answer # "none" => req'[k].at = "answered"
             /\ req'[k].answer \in {"ok", "already_submitted"} => status'[req'[k].row] # "absent"
             /\ req'[k].answer = "ok" => "ingested" \notin pre'[req'[k].row]
  <2>1. /\ req[k].at # "idle" \/ req[k].answer # "none" => req[k].row \in Rows
        /\ req[k].answer # "none" => req[k].at = "answered"
        /\ req[k].answer \in {"ok", "already_submitted"} => status[req[k].row] # "absent"
        /\ req[k].answer = "ok" => "ingested" \notin pre[req[k].row]
    BY DEF RequestsOfRows, SubmissionsAnswered
  <2>2. QED
    BY <1>0, <1>1, <1>2, <2>1 DEF Kept
<1>3. CASE UNCHANGED req
  BY <1>2, <1>3 DEF RequestsOfRows, SubmissionsAnswered
\* One request moves on.
<1>4. ASSUME NEW q \in Reqs, \A k \in Reqs \ {q} : req'[k] = req[k], req'[q].row \in Rows,
             req'[q].answer # "none" => req'[q].at = "answered",
             req'[q].answer \in {"ok", "already_submitted"} => status'[req'[q].row] # "absent",
             req'[q].answer = "ok" =>
               "ingested" \notin pre'[req'[q].row] /\ status[req'[q].row] = "absent"
      PROVE  RequestsOfRows' /\ SubmissionsAnswered'
  <2>1. RequestsOfRows'
    BY <1>2, <1>4 DEF RequestsOfRows
  <2>2. \A k \in Reqs \ {q} : req'[k].answer = "ok" => status[req'[k].row] # "absent"
    BY <1>4 DEF SubmissionsAnswered
  <2>3. ASSUME NEW j \in Reqs, NEW k \in Reqs \ {j}, req'[j].answer = "ok", req'[k].answer = "ok"
        PROVE  req'[j].row # req'[k].row
    <3>1. CASE j = q \/ k = q
      BY <1>4, <2>2, <2>3, <3>1
    <3>2. CASE j # q /\ k # q
      BY <1>4, <2>3, <3>2 DEF SubmissionsAnswered
    <3>3. QED
      BY <3>1, <3>2
  <2>4. QED
    BY <1>2, <1>4, <2>1, <2>3 DEF SubmissionsAnswered
<1>5. ASSUME NEW q \in Reqs, NEW u \in Users, NEW p \in Prompts, Solicit(q, u, p)
      PROVE  RequestsOfRows' /\ SubmissionsAnswered'
  <2>1. /\ req'[q].row = <<u, p>> /\ req'[q].answer = "none"
        /\ \A k \in Reqs \ {q} : req'[k] = req[k]
    BY <1>0, <1>5 DEF Solicit
  <2>2. QED
    BY <1>4, <2>1
<1>6. ASSUME NEW q \in Reqs, DecoyForUserAndPrompt(q) \/ SubmitDecoy(q) \/ RecheckDecoy(q)
      PROVE  RequestsOfRows' /\ SubmissionsAnswered'
  <2>1. /\ req[q].row \in Rows /\ UNCHANGED pre
        /\ req[q].answer \in {"ok", "already_submitted"} => status[req[q].row] # "absent"
        /\ req[q].answer = "ok" => "ingested" \notin pre[req[q].row]
    BY <1>6 DEF DecoyForUserAndPrompt, SubmitDecoy, RecheckDecoy, RequestsOfRows,
       SubmissionsAnswered
  <2>2. PICK x \in Submissions : x = req[q]
    BY <1>0
  <2>3. ASSUME NEW at, Proceed(q, at), req[q].answer = "none"
        PROVE  RequestsOfRows' /\ SubmissionsAnswered'
    <3>1. /\ req'[q].row = req[q].row /\ req'[q].answer = "none"
          /\ \A k \in Reqs \ {q} : req'[k] = req[k]
      BY <1>0, <2>2, <2>3 DEF Proceed, Submissions
    <3>2. QED
      BY <1>4, <2>1, <3>1
  <2>4. ASSUME NEW answer, Answer(q, answer),
               answer \in {"ok", "already_submitted"} => status'[req[q].row] # "absent",
               answer = "ok" => status[req[q].row] = "absent"
        PROVE  RequestsOfRows' /\ SubmissionsAnswered'
    <3>1. /\ req'[q].row = req[q].row /\ req'[q].answer = answer /\ req'[q].at = "answered"
          /\ \A k \in Reqs \ {q} : req'[k] = req[k]
      BY <1>0, <2>2, <2>4 DEF Answer, Submissions
    <3>2. answer = "ok" => "ingested" \notin pre'[req[q].row]
      BY <2>1, <2>4 DEF DecidedOnce
    <3>3. QED
      BY <1>4, <2>1, <2>4, <3>1, <3>2
  <2>5. req[q].answer = "none"
    BY <1>6 DEF DecoyForUserAndPrompt, SubmitDecoy, RecheckDecoy, RequestsOfRows
  <2>6. CASE DecoyForUserAndPrompt(q)
    BY <2>3, <2>4, <2>5, <2>6 DEF DecoyForUserAndPrompt
  <2>7. CASE SubmitDecoy(q)
    <3>1. CASE Insertable(req[q].row) /\ status' = [status EXCEPT ![req[q].row] = "pending"]
               /\ Answer(q, "ok")
      BY <1>0, <2>1, <2>4, <3>1 DEF Insertable
    <3>2. CASE Proceed(q, "recheck")
      BY <2>3, <2>5, <3>2
    <3>3. QED
      BY <2>7, <3>1, <3>2 DEF SubmitDecoy, Submitted
  <2>8. CASE RecheckDecoy(q)
    <3>1. UNCHANGED status /\ \E answer \in AfterFailedInsert(req[q].row) : Answer(q, answer)
      BY <2>8 DEF RecheckDecoy
    <3>2. QED
      BY <2>4, <3>1 DEF AfterFailedInsert
  <2>9. QED
    BY <1>6, <2>6, <2>7, <2>8
<1>7. ASSUME NEW c \in Clis, Review(c) \/ BulkReview(c) PROVE UNCHANGED req
  BY <1>7, Starts DEF StartReview
<1>8. QED
  BY <1>3, <1>5, <1>6, <1>7
     DEF PoolNext, Player, Admin, poolVars, InsertPrelaunchSubmission, ReviewOne, LockPrelaunch,
         DecidePrelaunch, Interrupt, InsertPrompt, RetirePrompt, CountRounds, DeletePrompt, AddRound

-----------------------------------------------------------------------------
(***************************************************************************)
(* The theorems.                                                           *)
(***************************************************************************)
PoolInv ==
  /\ PoolTypeOK /\ TargetsThere /\ LocksHeld /\ DecidedOnce
  /\ ClearedFirst /\ DeletedPromptUnused
  /\ RequestsOfRows /\ SubmissionsAnswered

LEMMA InitInv == PoolInit => PoolInv
<1> SUFFICES ASSUME PoolInit PROVE PoolInv
  OBVIOUS
<1> USE RowsAndLines
<1>1. PoolTypeOK /\ TargetsThere
  BY TypeInit
<1>2. LocksHeld
  BY DEF PoolInit, NoCommand, LocksHeld
<1>3. /\ pre \in [Rows -> {{}, {"sent"}}] /\ reviews = [r \in Rows |-> 0]
      /\ status \in [Lines -> {"absent", "pending"}] /\ cleared = {}
      /\ round = [i \in Indices |-> NoRound]
      /\ req = [q \in Reqs |-> [at |-> "idle", row |-> <<>>, answer |-> "none"]]
      /\ \A p \in Prompts : prompt[p] # "gone"
  BY DEF PoolInit
<1>4. DecidedOnce
  BY <1>3 DEF DecidedOnce, Decided
<1>5. ClearedFirst
  BY <1>3 DEF ClearedFirst, NoRound
<1>6. DeletedPromptUnused
  BY <1>3 DEF DeletedPromptUnused
<1>7. RequestsOfRows /\ SubmissionsAnswered
  BY <1>3 DEF RequestsOfRows, SubmissionsAnswered
<1>8. QED
  BY <1>1, <1>2, <1>4, <1>5, <1>6, <1>7 DEF PoolInv

LEMMA NextInv == PoolInv /\ [PoolNext]_poolVars => PoolInv'
BY TypeStep, TargetsStep, LocksStep, DecidedOnceStep, ReviewedStep, UnusedStep, AnsweredStep
   DEF PoolInv

\* The invariant holds for any users, prompts, shells, commands and bounds.
THEOREM PoolInvariant == PoolSpec => []PoolInv
<1>1. PoolInv /\ UNCHANGED poolVars => PoolInv'
  BY NextInv
<1>2. QED
  BY InitInv, NextInv, PTL DEF PoolSpec

\* Every reachable state of the pool is well typed (PoolTypeOK).
THEOREM PoolTypeCorrect == PoolSpec => []PoolTypeOK
<1>1. PoolInv => PoolTypeOK
  BY DEF PoolInv
<1>2. QED
  BY <1>1, PoolInvariant, PTL

LEMMA InvReviewedOnce == PoolInv => ReviewedOnce
<1> SUFFICES ASSUME PoolInv, NEW r \in Rows
             PROVE  /\ reviews[r] = Cardinality(pre[r] \cap {"ingested", "rejected"})
                    /\ reviews[r] <= 1
                    /\ "ingested" \in pre[r] => status[r] # "absent"
  BY DEF ReviewedOnce
<1>1. CASE ~Decided(r) /\ reviews[r] = 0
  BY <1>1, FS_EmptySet DEF PoolInv, DecidedOnce, Decided
<1>2. ASSUME NEW column \in {"ingested", "rejected"}, reviews[r] = 1,
             pre[r] \cap {"ingested", "rejected"} = {column}
      PROVE  reviews[r] = Cardinality(pre[r] \cap {"ingested", "rejected"}) /\ reviews[r] <= 1
  <2>1. Cardinality({column}) = 1
    BY FS_Singleton, Zenon
  <2>2. Cardinality(pre[r] \cap {"ingested", "rejected"}) = 1
    BY <1>2, <2>1, Zenon
  <2>3. QED
    BY <1>2, <2>2
<1>3. QED
  BY <1>1, <1>2 DEF PoolInv, DecidedOnce

\* Whichever commands of bbg-admin decide on a campaign row at once, one of
\* them does, with one review on record and a line if it approved (ReviewedOnce).
THEOREM EachRowReviewedOnce == PoolSpec => []ReviewedOnce
  BY InvReviewedOnce, PoolInvariant, PTL

\* A player is told what became of the submission, however many submissions
\* and approvals of the player's campaign row run at once (SubmissionsAnswered).
THEOREM SubmissionsAreAnswered == PoolSpec => []SubmissionsAnswered
<1>1. PoolInv => SubmissionsAnswered
  BY DEF PoolInv
<1>2. QED
  BY <1>1, PoolInvariant, PTL

\* Nothing refers to a deleted prompt (DeletedPromptUnused), although the
\* rounds are counted in an earlier statement.
THEOREM NothingRefersToDeleted == PoolSpec => []DeletedPromptUnused
<1>1. PoolInv => DeletedPromptUnused
  BY DEF PoolInv
<1>2. QED
  BY <1>1, PoolInvariant, PTL


-----------------------------------------------------------------------------
(***************************************************************************)
(* The rows change as Moderation allows.                                   *)
(***************************************************************************)
\* What Moderation sees of the bot lines and of the campaign rows.
AbstractFiled    == [b \in Bots |-> bot[b].prompt]
AbstractDecision == [r \in Rows |-> DecisionOn(r)]

LEMMA SameRows == Abstract!Rows = Rows /\ Abstract!Lines = Lines
BY DEF Abstract!Rows, Rows, Abstract!Lines, Lines

LEMMA FiledSame == UNCHANGED bot => AbstractFiled' = AbstractFiled
BY DEF AbstractFiled

LEMMA DecisionSame == UNCHANGED pre => AbstractDecision' = AbstractDecision
BY DEF AbstractDecision, DecisionOn, IsThere, PrelaunchStatus

\* The campaign row r, and no other, has another decision.
LEMMA DecisionChanges ==
  ASSUME NEW r \in Rows, NEW verdict, \A k \in Rows \ {r} : pre'[k] = pre[k], DecisionOn(r)' = verdict
  PROVE  AbstractDecision' = [AbstractDecision EXCEPT ![r] = verdict]
<1>1. ASSUME NEW k \in Rows, k # r PROVE DecisionOn(k)' = DecisionOn(k)
  BY <1>1 DEF DecisionOn, IsThere, PrelaunchStatus
<1>2. AbstractDecision' = [k \in Rows |-> DecisionOn(k)']
  BY DEF AbstractDecision
<1>3. QED
  BY <1>1, <1>2 DEF AbstractDecision

\* The actions of Moderation in the pool's own words.
LEMMA StutterRefines ==
  UNCHANGED <<prompt, status, bot, pre, reviews, cleared, round>> => UNCHANGED Abstract!vars
BY FiledSame, DecisionSame DEF Abstract!vars, AbstractFiled, AbstractDecision

LEMMA PromptRefines ==
  ASSUME UNCHANGED <<status, bot, pre, reviews, cleared, round>>, NEW p \in Prompts,
         \/ prompt[p] = "absent" /\ prompt' = [prompt EXCEPT ![p] = "live"]
         \/ prompt[p] = "live" /\ prompt' = [prompt EXCEPT ![p] = "retired"]
         \/ /\ prompt[p] \in {"live", "retired"} /\ ~Referred(p)
            /\ prompt' = [prompt EXCEPT ![p] = "gone"]
  PROVE  Abstract!Next
<1>0. AbstractFiled' = AbstractFiled /\ AbstractDecision' = AbstractDecision
  BY FiledSame, DecisionSame
<1>1. CASE prompt[p] = "absent" /\ prompt' = [prompt EXCEPT ![p] = "live"]
  <2>1. Abstract!Create(p)
    BY <1>0, <1>1 DEF Abstract!Create, AbstractFiled, AbstractDecision
  <2>2. QED
    BY <2>1 DEF Abstract!Next
<1>2. CASE prompt[p] = "live" /\ prompt' = [prompt EXCEPT ![p] = "retired"]
  <2>1. Abstract!Retire(p)
    BY <1>0, <1>2 DEF Abstract!Retire, AbstractFiled, AbstractDecision
  <2>2. QED
    BY <2>1 DEF Abstract!Next
<1>3. CASE prompt[p] \in {"live", "retired"} /\ ~Referred(p) /\ prompt' = [prompt EXCEPT ![p] = "gone"]
  <2>1. /\ \A i \in Indices : round[i].prompt # p
        /\ \A b \in Bots : AbstractFiled[b] # p
    BY <1>3 DEF Referred, Locked, AbstractFiled
  <2>2. \A u \in Users : status[<<u, p>>] = "absent" /\ AbstractDecision[<<u, p>>] = "none"
    BY <1>3, RowsAndLines DEF Referred, AbstractDecision, DecisionOn
  <2>3. Abstract!Delete(p)
    BY <1>0, <1>3, <2>1, <2>2 DEF Abstract!Delete, AbstractFiled, AbstractDecision
  <2>4. QED
    BY <2>3 DEF Abstract!Next
<1>4. QED
  BY <1>1, <1>2, <1>3

LEMMA SubmitRefines ==
  ASSUME UNCHANGED <<prompt, bot, pre, reviews, cleared, round>>, NEW r \in Rows,
         status[r] = "absent", prompt[r[2]] # "gone", status' = [status EXCEPT ![r] = "pending"]
  PROVE  Abstract!Next
<1>1. AbstractFiled' = AbstractFiled /\ AbstractDecision' = AbstractDecision
  BY FiledSame, DecisionSame
<1>2. Abstract!Submit(r)
  BY <1>1 DEF Abstract!Submit, AbstractFiled, AbstractDecision
<1>3. QED
  BY <1>2, SameRows DEF Abstract!Next

LEMMA JudgeRefines ==
  ASSUME UNCHANGED <<prompt, bot, pre, reviews, round>>, NEW l \in Lines, NEW verdict \in Decisions,
         status[l] # "absent", ReviewLine(l, verdict)
  PROVE  Abstract!Next
<1>1. AbstractFiled' = AbstractFiled /\ AbstractDecision' = AbstractDecision
  BY FiledSame, DecisionSame
<1>2. Abstract!Judge(l, verdict)
  BY <1>1 DEF Abstract!Judge, ReviewLine, AbstractFiled, AbstractDecision
<1>3. QED
  BY <1>2, SameRows DEF Abstract!Next, Decisions

LEMMA ArriveRefines ==
  ASSUME PoolTypeOK, NEW r \in Rows, InsertPrelaunchSubmission(r)
  PROVE  Abstract!Next
<1>1. /\ pre[r] = {} /\ pre' = [pre EXCEPT ![r] = {"sent"}] /\ prompt[r[2]] # "gone"
      /\ UNCHANGED <<prompt, status, bot, reviews, cleared, round>>
  BY DEF InsertPrelaunchSubmission
<1>2. AbstractDecision[r] = "none"
  BY <1>1 DEF AbstractDecision, DecisionOn, IsThere
<1>3. AbstractDecision' = [AbstractDecision EXCEPT ![r] = "pending"]
  <2>1. pre'[r] = {"sent"} /\ \A k \in Rows \ {r} : pre'[k] = pre[k]
    BY <1>1 DEF PoolTypeOK
  <2>2. DecisionOn(r)' = "pending"
    BY <2>1 DEF DecisionOn, IsThere, PrelaunchStatus
  <2>3. QED
    BY <2>1, <2>2, DecisionChanges
<1>4. AbstractFiled' = AbstractFiled
  BY <1>1, FiledSame
<1>5. Abstract!Arrive(r)
  BY <1>1, <1>2, <1>3, <1>4 DEF Abstract!Arrive, AbstractFiled, AbstractDecision
<1>6. QED
  BY <1>5, SameRows DEF Abstract!Next

\* A transaction that holds the lock of an undecided row decides on it, or is
\* rolled back.
LEMMA DecisionRefines ==
  ASSUME PoolInv, NEW r \in Rows, IsThere(r), ~Decided(r), UNCHANGED <<prompt, bot, round>>,
         ApprovePrelaunch(r) \/ RejectPrelaunch(r)
  PROVE  Abstract!Next \/ UNCHANGED Abstract!vars
<1>1. /\ pre \in [Rows -> SUBSET {"sent", "ingested", "rejected"}]
      /\ reviews \in [Rows -> Nat] /\ reviews[r] = 0
      /\ pre[r] # {} /\ "ingested" \notin pre[r] /\ "rejected" \notin pre[r]
  BY DEF PoolInv, PoolTypeOK, DecidedOnce, Decided, IsThere
<1>2. AbstractDecision[r] = "pending"
  BY <1>1 DEF AbstractDecision, DecisionOn, IsThere, PrelaunchStatus
<1>3. AbstractFiled' = AbstractFiled
  BY FiledSame
<1>4. reviews' = [reviews EXCEPT ![r] = @ + 1] => reviews' = [reviews EXCEPT ![r] = 1]
  BY <1>1
<1>5. CASE /\ status[r] = "absent" /\ status' = [status EXCEPT ![r] = "approved"]
           /\ pre' = [pre EXCEPT ![r] = @ \cup {"ingested"}]
           /\ reviews' = [reviews EXCEPT ![r] = @ + 1]
           /\ cleared' = cleared \cup {r}
  <2>1. pre'[r] = pre[r] \cup {"ingested"} /\ \A k \in Rows \ {r} : pre'[k] = pre[k]
    BY <1>1, <1>5
  <2>2. DecisionOn(r)' = "approved"
    BY <2>1 DEF DecisionOn, IsThere, PrelaunchStatus
  <2>3. AbstractDecision' = [AbstractDecision EXCEPT ![r] = "approved"]
    BY <2>1, <2>2, DecisionChanges
  <2>4. Abstract!Decide(r, "approved")
    BY <1>2, <1>3, <1>4, <1>5, <2>3 DEF Abstract!Decide, AbstractFiled, AbstractDecision
  <2>5. QED
    BY <2>4, SameRows DEF Abstract!Next
<1>6. CASE /\ pre' = [pre EXCEPT ![r] = @ \cup {"rejected"}]
           /\ reviews' = [reviews EXCEPT ![r] = @ + 1]
           /\ UNCHANGED <<status, cleared>>
  <2>1. pre'[r] = pre[r] \cup {"rejected"} /\ \A k \in Rows \ {r} : pre'[k] = pre[k]
    BY <1>1, <1>6
  <2>2. DecisionOn(r)' = "rejected"
    BY <1>1, <2>1 DEF DecisionOn, IsThere, PrelaunchStatus
  <2>3. AbstractDecision' = [AbstractDecision EXCEPT ![r] = "rejected"]
    BY <2>1, <2>2, DecisionChanges
  <2>4. Abstract!Decide(r, "rejected")
    BY <1>2, <1>3, <1>4, <1>6, <2>3 DEF Abstract!Decide, AbstractFiled, AbstractDecision
  <2>5. QED
    BY <2>4, SameRows DEF Abstract!Next
<1>7. CASE UNCHANGED <<status, pre, reviews, cleared>>
  BY <1>7, StutterRefines
<1>8. QED
  BY <1>5, <1>6, <1>7 DEF ApprovePrelaunch, RejectPrelaunch

\* While a round is left to be filled, the number of filled ones is an index.
LEMMA FreeIndex == Filled # Indices => Cardinality(Filled) \in Indices
<1> SUFFICES ASSUME Filled # Indices PROVE Cardinality(Filled) \in Indices
  OBVIOUS
<1>1. IsFiniteSet(Indices) /\ Cardinality(Indices) = IF MaxRounds > 0 THEN MaxRounds ELSE 0
  <2>1. MaxRounds \in Nat /\ 0 \in Int /\ MaxRounds - 1 \in Int
    BY PoolAssumption
  <2>2. IsFiniteSet(Indices)
    BY <2>1, FS_Interval DEF Indices
  <2>3. Cardinality(Indices) = IF 0 > MaxRounds - 1 THEN 0 ELSE (MaxRounds - 1) - 0 + 1
    BY <2>1, FS_Interval DEF Indices
  <2>4. QED
    BY <2>1, <2>2, <2>3
<1>2. Filled \subseteq Indices
  BY DEF Filled
<1>3. Cardinality(Filled) \in Nat /\ Cardinality(Filled) < Cardinality(Indices)
  BY <1>1, <1>2, FS_Subset, FS_CardinalityType
<1>4. QED
  BY <1>1, <1>3, PoolAssumption DEF Indices

LEMMA PlaceRefines ==
  ASSUME UNCHANGED <<prompt, status, bot, pre, reviews, cleared>>, NEW i \in Indices,
         NEW p \in Prompts, prompt[p] # "gone", round' = [round EXCEPT ![i].prompt = p]
  PROVE  Abstract!Next
<1>1. AbstractFiled' = AbstractFiled /\ AbstractDecision' = AbstractDecision
  BY FiledSame, DecisionSame
<1>2. Abstract!Place(i, p)
  BY <1>1 DEF Abstract!Place, AbstractFiled, AbstractDecision
<1>3. QED
  BY <1>2 DEF Abstract!Next

LEMMA InitRefines == PoolInit => Abstract!Init
<1> SUFFICES ASSUME PoolInit PROVE Abstract!Init
  OBVIOUS
<1>1. PICK p \in Prompts :
        LET drafts == IF prompt[p] = "live" THEN Drafts ELSE {}
        IN  /\ status = [l \in Lines |-> IF l \in drafts THEN "pending" ELSE "absent"]
            /\ bot = [b \in Bots |-> IF b \in drafts THEN [prompt |-> p, written |-> p] ELSE NoBot]
  BY DEF PoolInit
<1>2. status \in [Lines -> {"absent", "pending"}]
  BY <1>1
<1>3. AbstractFiled \in [Bots -> Prompts \cup {None}]
  BY <1>1 DEF AbstractFiled, NoBot
<1>4. AbstractDecision \in [Rows -> {"none", "pending"}]
  <2>1. \A r \in Rows : pre[r] = {} \/ pre[r] = {"sent"}
    BY DEF PoolInit
  <2>2. QED
    BY <2>1 DEF AbstractDecision, DecisionOn, IsThere, PrelaunchStatus
<1>5. /\ prompt \in [Prompts -> {"absent", "live"}]
      /\ reviews = [r \in Rows |-> 0] /\ cleared = {}
      /\ round = [i \in Indices |-> [prompt |-> None, bot |-> None, decoys |-> {}]]
  BY DEF PoolInit, NoRound
<1>6. QED
  BY <1>2, <1>3, <1>4, <1>5, SameRows DEF Abstract!Init, AbstractFiled, AbstractDecision

LEMMA StepRefines == PoolInv /\ [PoolNext]_poolVars => [Abstract!Next]_(Abstract!vars)
<1> SUFFICES ASSUME PoolInv, [PoolNext]_poolVars PROVE Abstract!Next \/ UNCHANGED Abstract!vars
  OBVIOUS
<1>1. ASSUME NEW q \in Reqs,
             \/ \E u \in Users, p \in Prompts : Solicit(q, u, p)
             \/ DecoyForUserAndPrompt(q) \/ RecheckDecoy(q)
      PROVE  UNCHANGED Abstract!vars
  BY <1>1, StutterRefines DEF Solicit, DecoyForUserAndPrompt, RecheckDecoy
<1>2. ASSUME NEW q \in Reqs, SubmitDecoy(q) PROVE Abstract!Next \/ UNCHANGED Abstract!vars
  <2>1. PICK r \in Rows : r = req[q].row
    BY <1>2 DEF SubmitDecoy, PoolInv, RequestsOfRows
  <2>2. CASE Insertable(r) /\ status' = [status EXCEPT ![r] = "pending"]
    BY <1>2, <2>1, <2>2, SubmitRefines DEF SubmitDecoy, Insertable
  <2>3. CASE UNCHANGED status
    BY <1>2, <2>3, StutterRefines DEF SubmitDecoy
  <2>4. QED
    BY <1>2, <2>1, <2>2, <2>3 DEF SubmitDecoy, Submitted
<1>3. ASSUME NEW r \in Arrivals, InsertPrelaunchSubmission(r) PROVE Abstract!Next
  BY <1>3, ArriveRefines, PoolAssumption DEF PoolInv, Rows
<1>4. ASSUME NEW c \in Clis, Review(c) \/ BulkReview(c) PROVE UNCHANGED Abstract!vars
  <2>1. PICK m \in Commands : \E filter : \E todo \in SUBSET Listed(m.kind, filter) :
               StartReview(c, m.kind, m.decision, todo)
    BY <1>4, Starts
  <2>2. UNCHANGED <<prompt, status, bot, pre, reviews, cleared, round>>
    BY <2>1 DEF StartReview
  <2>3. QED
    BY <2>2, StutterRefines
<1>5. ASSUME NEW c \in Clis, NEW l \in op[c].todo, ReviewOne(c, l) PROVE Abstract!Next
  BY <1>5, JudgeRefines DEF ReviewOne, PoolInv, TargetsThere
<1>6. ASSUME NEW c \in Clis, NEW r \in op[c].todo, LockPrelaunch(c, r)
      PROVE  UNCHANGED Abstract!vars
  BY <1>6, StutterRefines DEF LockPrelaunch
<1>7. ASSUME NEW c \in Clis, NEW r \in op[c].todo, DecidePrelaunch(c, r)
      PROVE  Abstract!Next \/ UNCHANGED Abstract!vars
  <2>1. r \in Rows /\ IsThere(r) /\ ~Decided(r)
    BY <1>7 DEF DecidePrelaunch, PoolInv, TargetsThere, LocksHeld
  <2>2. QED
    BY <1>7, <2>1, DecisionRefines DEF DecidePrelaunch
<1>8. ASSUME NEW c \in Clis, Interrupt(c) PROVE UNCHANGED Abstract!vars
  BY <1>8, StutterRefines DEF Interrupt
<1>9. ASSUME NEW c \in Clis, NEW p \in Prompts,
             InsertPrompt(c, p) \/ RetirePrompt(c, p) \/ CountRounds(c, p) \/ DeletePrompt(c, p)
      PROVE  Abstract!Next \/ UNCHANGED Abstract!vars
  <2>1. CASE InsertPrompt(c, p) \/ RetirePrompt(c, p) \/ CountRounds(c, p)
    BY <2>1, PromptRefines, StutterRefines DEF InsertPrompt, RetirePrompt, CountRounds
  <2>2. CASE DeletePrompt(c, p)
    <3>1. prompt \in [Prompts -> {"absent", "live", "retired", "gone"}] /\ prompt[p] # "absent"
      BY <2>2 DEF DeletePrompt, PoolInv, PoolTypeOK, TargetsThere
    <3>2. prompt[p] \in {"live", "retired"} \/ [prompt EXCEPT ![p] = "gone"] = prompt
      BY <3>1
    <3>3. QED
      BY <2>2, <3>2, PromptRefines, StutterRefines DEF DeletePrompt, Deletable
  <2>3. QED
    BY <1>9, <2>1, <2>2
<1>10. ASSUME NEW p \in Prompts, AddRound(p) PROVE Abstract!Next
  <2>1. PICK i \in Indices : i = Cardinality(Filled)
    BY <1>10, FreeIndex DEF AddRound
  <2>2. QED
    BY <1>10, <2>1, PlaceRefines DEF AddRound, Solicited
<1>11. CASE UNCHANGED poolVars
  BY <1>11, StutterRefines DEF poolVars
<1>12. QED
  BY <1>1, <1>2, <1>3, <1>4, <1>5, <1>6, <1>7, <1>8, <1>9, <1>10, <1>11 DEF PoolNext, Player, Admin

\* Requests, campaign cards and commands of bbg-admin change the pool only as
\* Moderation allows (ImplementsModeration).
THEOREM PoolImplementsModeration == PoolSpec => ImplementsModeration
<1>1. PoolInv /\ [PoolNext]_poolVars => [Abstract!Next]_(Abstract!vars)
  BY StepRefines
<1>2. QED
  BY <1>1, InitRefines, PoolInvariant, PTL DEF PoolSpec, ImplementsModeration, Abstract!Spec
=============================================================================
