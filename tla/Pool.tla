-------------------------------- MODULE Pool --------------------------------
(***************************************************************************)
(* The content pool that puzzles are made of: prompts, the lines that      *)
(* players write for them (in the campaign before launch, or after a       *)
(* finished puzzle), bot lines, and the decisions of reviewers.  Here are  *)
(* the requests of players and the commands of bbg-admin; the review       *)
(* terminal, which works on the same rows, is in Terminal.                 *)
(*                                                                         *)
(* A statement is one action.  The transaction that decides on a campaign  *)
(* row is two: it takes the row's lock and reads it, and then writes.      *)
(*                                                                         *)
(* Left out: bbg-admin import, which puts bot lines and decoys of no user  *)
(* into rounds as approved ones, without a review; and the merge of two    *)
(* users, which moves the lines of one to the other, or deletes them.      *)
(***************************************************************************)
EXTENDS FiniteSets, FiniteSetsExt, Integers

CONSTANTS
  Users,
  Prompts,
  Bots,         \* bot lines there can be
  None,
  Reqs,         \* submissions of decoys, each made once
  Clis,         \* shells that run bbg-admin
  Slots,        \* commands of the review terminal that can be in flight
  Commands,     \* the bulk commands that are run: kind, decision and filter
  Limit,        \* their --limit
  Inbox,        \* campaign rows of live prompts that are there at the start
  Arrivals,     \* campaign rows that may be sent later
  Drafts,       \* bot lines that are there with a live prompt, not yet reviewed
  MaxRounds     \* bound on the rounds that the terminal fills

Decisions == {"approved", "rejected", "retired"}

ASSUME PoolAssumption ==
  /\ Limit \in Nat /\ MaxRounds \in Nat
  /\ Inbox \cup Arrivals \subseteq Users \X Prompts /\ Drafts \subseteq Bots
  /\ None \notin Users \cup Prompts \cup Bots \cup Clis \cup Slots \cup (Users \X Prompts)
  /\ Clis \cap Slots = {} /\ Bots \cap (Users \X Prompts) = {}
  /\ IsFiniteSet(Users) /\ IsFiniteSet(Prompts) /\ IsFiniteSet(Bots)
  /\ Commands \subseteq [kind : {"decoy", "bot"}, decision : Decisions, filter : STRING]
                   \cup [kind : {"prelaunch"}, decision : {"approved", "rejected"}, filter : STRING]

VARIABLES
  prompt,   \* prompt[p]: absent, live, retired or gone
  status,   \* status[l]: of the line of a user for a prompt, and of a bot line
  bot,      \* bot[b]: the prompt the line is filed under and the one it was written for
  pre,      \* pre[r]: a campaign row, as the set of columns that are set
  reviews,  \* reviews[r]: how many moderation_reviews rows the campaign row has
  cleared,  \* the lines that a reviewer has approved at some time
  round,    \* round[i]: the rounds that the terminal fills, in order
  lock,     \* lock[r]: whose transaction has locked the campaign row
  req,      \* req[q]: a submission of a player
  op        \* op[c]: a command of bbg-admin between two of its statements

poolVars == <<prompt, status, bot, pre, reviews, cleared, round, lock, req, op>>

-----------------------------------------------------------------------------
(***************************************************************************)
(* Rows.  A unique index lets a user have one line and one campaign row    *)
(* for a prompt, so that the pair names both.                              *)
(***************************************************************************)
Rows  == Users \X Prompts
Lines == Rows \cup Bots

NoBot   == [prompt |-> None, written |-> None]
NoRound == [prompt |-> None, bot |-> None, decoys |-> {}]
Indices == 0..(MaxRounds - 1)

IsThere(r) == pre[r] # {}
Decided(r) == pre[r] \cap {"ingested", "rejected"} # {}
Filled     == {i \in Indices : round[i] # NoRound}
Locked(p)  == \E i \in Indices : round[i].prompt = p

\* Foreign keys without ON DELETE: what keeps a prompt from being deleted.
Referred(p) == \/ Locked(p)
               \/ \E r \in Rows : r[2] = p /\ (status[r] # "absent" \/ IsThere(r))
               \/ \E b \in Bots : bot[b].prompt = p

\* Mutant of PrelaunchStatus: the column's name for an approved row.
ColumnOf(r) ==
  IF "ingested" \in pre[r] THEN "ingested" ELSE IF "rejected" \in pre[r] THEN "rejected" ELSE "pending"

PrelaunchStatus(r) ==
  IF "ingested" \in pre[r] THEN "approved" ELSE IF "rejected" \in pre[r] THEN "rejected" ELSE "pending"

-----------------------------------------------------------------------------
(***************************************************************************)
(* Decisions on a campaign row, by a worker w (a shell or a command of the *)
(* terminal).                                                              *)
(***************************************************************************)
\* Mutant of CanLock: a SELECT without FOR UPDATE.
ReadOnly(r) == TRUE

\* SELECT ... FOR UPDATE waits for the lock of another transaction.
CanLock(r) == lock[r] = None

\* The rest of ApprovePrelaunch; the insert fails if the user has a line for
\* the prompt, which rolls the transaction back.
ApprovePrelaunch(r) ==
  IF status[r] = "absent"
  THEN /\ status' = [status EXCEPT ![r] = "approved"]
       /\ pre' = [pre EXCEPT ![r] = @ \cup {"ingested"}]
       /\ reviews' = [reviews EXCEPT ![r] = @ + 1]
       /\ cleared' = cleared \cup {r}
  ELSE UNCHANGED <<status, pre, reviews, cleared>>

RejectPrelaunch(r) ==
  /\ pre' = [pre EXCEPT ![r] = @ \cup {"rejected"}]
  /\ reviews' = [reviews EXCEPT ![r] = @ + 1]
  /\ UNCHANGED <<status, cleared>>

\* ReviewDecoy and ReviewBot: the status changes whatever it was.
ReviewLine(l, decision) ==
  /\ status' = [status EXCEPT ![l] = decision]
  /\ cleared' = IF decision = "approved" THEN cleared \cup {l} ELSE cleared

-----------------------------------------------------------------------------
(***************************************************************************)
(* Players.                                                                *)
(***************************************************************************)
\* NextSolicitPrompt: what the result page asks for.
Solicited == {p \in Prompts : prompt[p] = "live" /\ ~Locked(p)}

\* Player u sends a line for p: the result page asks for a solicited prompt,
\* but the request may name any.
Solicit(q, u, p) ==
  /\ req[q].at = "idle"
  /\ req' = [req EXCEPT ![q] = [at |-> "check", row |-> <<u, p>>, answer |-> "none"]]
  /\ UNCHANGED <<prompt, status, bot, pre, reviews, cleared, round, lock, op>>

Proceed(q, at)    == req' = [req EXCEPT ![q].at = at]
Answer(q, answer) == req' = [req EXCEPT ![q].at = "answered", ![q].answer = answer]

\* handleAPIDecoySubmit looks for a line of the player before it inserts; the
\* read may fail.
DecoyForUserAndPrompt(q) ==
  /\ req[q].at = "check"
  /\ \/ status[req[q].row] # "absent" /\ Answer(q, "already_submitted")
     \/ status[req[q].row] = "absent" /\ Proceed(q, "insert")
     \/ Answer(q, "db")
  /\ UNCHANGED <<prompt, status, bot, pre, reviews, cleared, round, lock, op>>

\* Mutant of Insertable: no unique index on user and prompt.
Referable(r) == prompt[r[2]] \in {"live", "retired"}

\* The unique index and the foreign key to prompts let the row in.
Insertable(r) == status[r] = "absent" /\ prompt[r[2]] \in {"live", "retired"}

\* Mutant of Submitted: a status that no reader of the table knows.
Unreviewed == "unreviewed"

\* What a line has when it is inserted.
Submitted == "pending"

\* The insert.  Its answer may get lost after the row is in; and it may be
\* refused, or fail, for whatever reason (the player's row may be gone with a
\* merge).  Either is an error to the handler.
SubmitDecoy(q) ==
  /\ req[q].at = "insert"
  /\ \/ /\ Insertable(req[q].row)
        /\ status' = [status EXCEPT ![req[q].row] = Submitted]
        /\ Answer(q, "ok") \/ Proceed(q, "recheck")
     \/ Proceed(q, "recheck") /\ UNCHANGED status
  /\ UNCHANGED <<prompt, bot, pre, reviews, cleared, round, lock, op>>

\* What the handler may answer after a failed insert: it looks for a line once
\* more, and that read may fail, too.
AfterFailedInsert(r) ==
  {"submit_failed"} \cup IF status[r] # "absent" THEN {"already_submitted"} ELSE {}

RecheckDecoy(q) ==
  /\ req[q].at = "recheck"
  /\ \E answer \in AfterFailedInsert(req[q].row) : Answer(q, answer)
  /\ UNCHANGED <<prompt, status, bot, pre, reviews, cleared, round, lock, op>>

\* A card of the campaign page; the page may be as old as the cached pool it
\* was made from, so nothing but the rows themselves is checked.
InsertPrelaunchSubmission(r) ==
  /\ pre[r] = {} /\ prompt[r[2]] \in {"live", "retired"}
  /\ pre' = [pre EXCEPT ![r] = {"sent"}]
  /\ UNCHANGED <<prompt, status, bot, reviews, cleared, round, lock, req, op>>

-----------------------------------------------------------------------------
(***************************************************************************)
(* bbg-admin decoy, bot and prelaunch: review and bulk-review.             *)
(***************************************************************************)
NoCommand == [kind |-> "none", decision |-> "none", todo |-> {}, at |-> None]

\* The lines that a filter lists; the empty string is no filter.
Listed(kind, filter) ==
  CASE kind = "decoy"     -> {r \in Rows : status[r] # "absent" /\ filter \in {"", status[r]}}
    [] kind = "bot"       -> {b \in Bots : status[b] # "absent" /\ filter \in {"", status[b]}}
    [] kind = "prelaunch" -> {r \in Rows : IsThere(r) /\ filter \in {"", PrelaunchStatus(r)}}

\* What a bulk command goes on with: bots and campaign rows are listed up to
\* one more than the limit and refused if there are that many; decoys are
\* listed up to the limit, so that the rest is left out.
Targets(kind, filter) ==
  LET found == Listed(kind, filter)
  IN  IF Cardinality(found) <= Limit THEN {found}
      ELSE IF kind = "decoy" THEN kSubset(Limit, found) ELSE {}

StartReview(c, kind, decision, todo) ==
  /\ op[c] = NoCommand /\ todo # {}
  /\ op' = [op EXCEPT ![c] = [kind |-> kind, decision |-> decision, todo |-> todo, at |-> None]]
  /\ UNCHANGED <<prompt, status, bot, pre, reviews, cleared, round, lock, req>>

\* review, or bulk-review --ids, names a line.
Review(c) ==
  \E m \in Commands : \E l \in Listed(m.kind, "") : StartReview(c, m.kind, m.decision, {l})

BulkReview(c) ==
  \E m \in Commands : \E todo \in Targets(m.kind, m.filter) :
    StartReview(c, m.kind, m.decision, todo)

\* op[c] without target l, and idle after the last one.
Done(c, l) ==
  op' = [op EXCEPT ![c] = IF op[c].todo = {l} THEN NoCommand
                          ELSE [op[c] EXCEPT !.todo = op[c].todo \ {l}, !.at = None]]

ReviewOne(c, l) ==
  /\ op[c].kind \in {"decoy", "bot"} /\ l \in op[c].todo
  /\ ReviewLine(l, op[c].decision)
  /\ Done(c, l)
  /\ UNCHANGED <<prompt, bot, pre, reviews, round, lock, req>>

LockPrelaunch(c, r) ==
  /\ op[c].kind = "prelaunch" /\ op[c].at = None /\ r \in op[c].todo
  /\ CanLock(r)
  /\ IF Decided(r)
     THEN Done(c, r) /\ UNCHANGED lock
     ELSE /\ op' = [op EXCEPT ![c].at = r]
          /\ lock' = [lock EXCEPT ![r] = c]
  /\ UNCHANGED <<prompt, status, bot, pre, reviews, cleared, round, req>>

DecidePrelaunch(c, r) ==
  /\ op[c].kind = "prelaunch" /\ op[c].at = r
  /\ IF op[c].decision = "approved" THEN ApprovePrelaunch(r) ELSE RejectPrelaunch(r)
  /\ lock' = [lock EXCEPT ![r] = None]
  /\ Done(c, r)
  /\ UNCHANGED <<prompt, bot, round, req>>

\* The shell is interrupted; Postgres rolls its transaction back.
Interrupt(c) ==
  /\ op[c] # NoCommand
  /\ op' = [op EXCEPT ![c] = NoCommand]
  /\ lock' = [r \in Rows |-> IF lock[r] = c THEN None ELSE lock[r]]
  /\ UNCHANGED <<prompt, status, bot, pre, reviews, cleared, round, req>>

-----------------------------------------------------------------------------
(***************************************************************************)
(* bbg-admin prompt: create, retire and delete.                            *)
(***************************************************************************)
InsertPrompt(c, p) ==
  /\ op[c] = NoCommand /\ prompt[p] = "absent"
  /\ prompt' = [prompt EXCEPT ![p] = "live"]
  /\ UNCHANGED <<status, bot, pre, reviews, cleared, round, lock, req, op>>

RetirePrompt(c, p) ==
  /\ op[c] = NoCommand /\ prompt[p] = "live"
  /\ prompt' = [prompt EXCEPT ![p] = "retired"]
  /\ UNCHANGED <<status, bot, pre, reviews, cleared, round, lock, req, op>>

\* DeletePrompt counts the rounds first,
CountRounds(c, p) ==
  /\ op[c] = NoCommand /\ prompt[p] \in {"live", "retired"} /\ ~Locked(p)
  /\ op' = [op EXCEPT ![c] = [kind |-> "delete", decision |-> "none", todo |-> {p}, at |-> p]]
  /\ UNCHANGED <<prompt, status, bot, pre, reviews, cleared, round, lock, req>>

\* Mutant of Deletable: ON DELETE CASCADE, with the count alone to protect a
\* prompt that is in use.
Cascading(p) == TRUE

\* what a DELETE of a prompt must not find,
Deletable(p) == ~Referred(p)

\* and deletes in another statement.
DeletePrompt(c, p) ==
  /\ op[c].kind = "delete" /\ op[c].at = p
  /\ prompt' = IF Deletable(p) THEN [prompt EXCEPT ![p] = "gone"] ELSE prompt
  /\ op' = [op EXCEPT ![c] = NoCommand]
  /\ UNCHANGED <<status, bot, pre, reviews, cleared, round, lock, req>>

\* puzzle-build and puzzle compose, which are in Puzzles, take a prompt that
\* is in no round for the next one.
AddRound(p) ==
  /\ p \in Solicited /\ Filled # Indices
  /\ round' = [round EXCEPT ![Cardinality(Filled)].prompt = p]
  /\ UNCHANGED <<prompt, status, bot, pre, reviews, cleared, lock, req, op>>

-----------------------------------------------------------------------------
PoolInit ==
  /\ prompt \in [Prompts -> {"absent", "live"}]
  /\ \E p \in Prompts :
       LET drafts == IF prompt[p] = "live" THEN Drafts ELSE {}
       IN  /\ status = [l \in Lines |-> IF l \in drafts THEN "pending" ELSE "absent"]
           /\ bot = [b \in Bots |-> IF b \in drafts THEN [prompt |-> p, written |-> p] ELSE NoBot]
  /\ pre = [r \in Rows |-> IF r \in Inbox /\ prompt[r[2]] = "live" THEN {"sent"} ELSE {}]
  /\ reviews = [r \in Rows |-> 0]
  /\ cleared = {}
  /\ round = [i \in Indices |-> NoRound]
  /\ lock = [r \in Rows |-> None]
  /\ req = [q \in Reqs |-> [at |-> "idle", row |-> <<>>, answer |-> "none"]]
  /\ op = [c \in Clis |-> NoCommand]

Player ==
  \/ \E q \in Reqs : \/ \E u \in Users, p \in Prompts : Solicit(q, u, p)
                     \/ DecoyForUserAndPrompt(q)
                     \/ SubmitDecoy(q)
                     \/ RecheckDecoy(q)
  \/ \E r \in Arrivals : InsertPrelaunchSubmission(r)

Admin ==
  \E c \in Clis : \/ Review(c)
                  \/ BulkReview(c)
                  \/ \E l \in op[c].todo : ReviewOne(c, l)
                  \/ \E r \in op[c].todo : LockPrelaunch(c, r) \/ DecidePrelaunch(c, r)
                  \/ Interrupt(c)
                  \/ \E p \in Prompts : \/ InsertPrompt(c, p) \/ RetirePrompt(c, p)
                                        \/ CountRounds(c, p) \/ DeletePrompt(c, p)

PoolNext == Player \/ Admin \/ \E p \in Prompts : AddRound(p)

PoolSpec == PoolInit /\ [][PoolNext]_poolVars

-----------------------------------------------------------------------------
(***************************************************************************)
(* Properties.                                                             *)
(***************************************************************************)
\* The types of the variables.
PoolTypeOK ==
  /\ prompt \in [Prompts -> {"absent", "live", "retired", "gone"}]
  /\ status \in [Lines -> {"absent", "pending"} \cup Decisions]
  /\ bot \in [Bots -> [prompt : Prompts \cup {None}, written : Prompts \cup {None}]]
  /\ pre \in [Rows -> SUBSET {"sent", "ingested", "rejected"}]
  /\ reviews \in [Rows -> Nat]
  /\ cleared \subseteq Lines
  /\ round \in [Indices -> [prompt : Prompts \cup {None}, bot : Bots \cup {None}, decoys : SUBSET Rows]]
  /\ lock \in [Rows -> Clis \cup Slots \cup {None}]
  /\ req \in [Reqs -> [at : {"idle", "check", "insert", "recheck", "answered"},
                       row : Rows \cup {<<>>},
                       answer : {"none", "ok", "already_submitted", "submit_failed", "db"}]]
  /\ op \in [Clis -> [kind : {"none", "decoy", "bot", "prelaunch", "delete"},
                      decision : Decisions \cup {"none"},
                      todo : SUBSET (Lines \cup Prompts), at : Rows \cup Prompts \cup {None}]]

\* A campaign row is decided once, with one review on record, and a line
\* comes of it exactly when it was approved, whichever shells and terminals
\* work on it at once (prelaunch_review.go:188, "refuse if already decided").
ReviewedOnce ==
  \A r \in Rows :
    /\ reviews[r] = Cardinality(pre[r] \cap {"ingested", "rejected"})
    /\ reviews[r] <= 1
    /\ "ingested" \in pre[r] => status[r] # "absent"

\* A player has one line for a prompt, and is told the truth about it: whoever
\* is told that it was stored, or was there already, has one; and of two
\* submissions and the approval of a campaign row at once, all of which insert
\* that line, one alone is told that it did, and the others that it is there
\* or that they failed (play_handlers.go:843, prelaunch_review.go:236).
SubmissionsAnswered ==
  \A q \in Reqs :
    /\ req[q].answer \in {"ok", "already_submitted"} => status[req[q].row] # "absent"
    /\ req[q].answer = "ok" => /\ "ingested" \notin pre[req[q].row]
                               /\ \A k \in Reqs \ {q} : req[k].answer = "ok" => req[q].row # req[k].row

\* A prompt that is deleted has no line, no campaign row and no round, although
\* they may come after its rounds were counted (puzzle.go:763).
DeletedPromptUnused == \A p \in Prompts : prompt[p] = "gone" => ~Referred(p)

\* What Moderation shows of the rows.
DecisionOn(r) == IF IsThere(r) THEN PrelaunchStatus(r) ELSE "none"

Abstract == INSTANCE Moderation WITH
  line     <- status,
  filed    <- [b \in Bots |-> bot[b].prompt],
  decision <- [r \in Rows |-> DecisionOn(r)]

\* Whatever interleaves, and wherever it is interrupted, each line, campaign
\* row and prompt changes as Moderation allows: a decision is taken once and
\* never taken back, its review, its line and the row change together
\* (prelaunch_review.go:188), and nothing is about a prompt that has gone.
ImplementsModeration == Abstract!Spec

=============================================================================
