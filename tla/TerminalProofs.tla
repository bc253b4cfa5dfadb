--------------------------- MODULE TerminalProofs ---------------------------
(***************************************************************************)
(* The review terminal: whatever order the messages of its commands come   *)
(* back in, and whatever other shells and players do meanwhile, the pool   *)
(* stays as Pool promises and the screen shows what is stored.             *)
(***************************************************************************)
EXTENDS Terminal, PoolProofs

-----------------------------------------------------------------------------
(***************************************************************************)
(* What the terminal's statements do to the pool.                          *)
(***************************************************************************)
\* A prompt with a campaign row is not deleted.
LEMMA RowsKeepPrompts ==
  ASSUME PoolInv, NEW r \in Rows, IsThere(r)
  PROVE  prompt[r[2]] # "gone"
  BY RowsAndLines DEF PoolInv, DeletedPromptUnused, Referred

LEMMA StaysUnused ==
  ASSUME DeletedPromptUnused, UNCHANGED prompt,
         \A p \in Prompts : prompt[p] = "gone" =>
           /\ \A i \in Indices : round'[i].prompt = p => round[i].prompt = p
           /\ \A r \in Rows : r[2] = p => /\ status[r] = "absent" => status'[r] = "absent"
                                          /\ pre[r] = {} => pre'[r] = {}
           /\ \A b \in Bots : bot'[b].prompt = p => bot[b].prompt = p
  PROVE  DeletedPromptUnused'
<1> SUFFICES ASSUME NEW p \in Prompts, prompt[p] = "gone" PROVE ~Referred(p)'
  BY DEF DeletedPromptUnused
<1>1. /\ \A i \in Indices : round[i].prompt # p
      /\ \A r \in Rows : r[2] = p => status[r] = "absent" /\ pre[r] = {}
      /\ \A b \in Bots : bot[b].prompt # p
  BY DEF DeletedPromptUnused, Referred, Locked, IsThere
<1>2. /\ \A i \in Indices : round'[i].prompt # p
      /\ \A r \in Rows : r[2] = p => status'[r] = "absent" /\ pre'[r] = {}
      /\ \A b \in Bots : bot'[b].prompt # p
  BY <1>1
<1>3. QED
  BY <1>2 DEF Referred, Locked, IsThere

\* Locks come and go, those of the shells excepted.
LEMMA LocksMove ==
  ASSUME PoolInv, UNCHANGED <<prompt, status, bot, pre, reviews, cleared, round, req, op>>,
         lock' \in [Rows -> Clis \cup Slots \cup {None}],
         \A r \in Rows : lock[r] \in Clis => lock'[r] = lock[r]
  PROVE  PoolInv' /\ Kept
<1> USE DEF PoolInv
<1>1. PoolTypeOK' /\ TargetsThere'
  BY DEF PoolTypeOK, TargetsThere, IsThere
<1>2. LocksHeld'
  BY DEF LocksHeld, IsThere, Decided
<1>3. DecidedOnce' /\ RequestsOfRows'
  BY DEF DecidedOnce, Decided, RequestsOfRows
<1>4. ClearedFirst' /\ SubmissionsAnswered'
  BY DEF ClearedFirst, SubmissionsAnswered
<1>5. DeletedPromptUnused'
  BY StaysUnused
<1>6. QED
  BY <1>1, <1>2, <1>3, <1>4, <1>5 DEF Kept

\* A round is filled with a prompt that is there and lines that are reviewed.
LEMMA RoundsFilled ==
  ASSUME PoolInv, UNCHANGED <<prompt, status, bot, pre, reviews, cleared, lock, req, op>>,
         NEW i \in Indices, NEW new \in RoundRows, round' = [round EXCEPT ![i] = new],
         new.decoys \subseteq cleared, new.bot \in cleared \cup {None},
         new.prompt = round[i].prompt \/ prompt[new.prompt] # "gone"
  PROVE  PoolInv' /\ Kept
<1> USE DEF PoolInv
<1>1. /\ round \in [Indices -> RoundRows] /\ round' \in [Indices -> RoundRows]
      /\ \A j \in Indices : round'[j] = IF j = i THEN new ELSE round[j]
  BY DEF PoolTypeOK, RoundRows
<1>2. PoolTypeOK' /\ TargetsThere'
  BY <1>1 DEF PoolTypeOK, TargetsThere, IsThere, RoundRows
<1>3. LocksHeld'
  BY DEF LocksHeld, IsThere, Decided
<1>4. DecidedOnce' /\ RequestsOfRows'
  BY DEF DecidedOnce, Decided, RequestsOfRows
<1>5. ClearedFirst' /\ SubmissionsAnswered'
  BY <1>1 DEF ClearedFirst, SubmissionsAnswered
<1>6. DeletedPromptUnused'
  BY <1>1, StaysUnused
<1>7. QED
  BY <1>2, <1>3, <1>4, <1>5, <1>6 DEF Kept

\* A bot line is inserted as an approved one, for a prompt that is there.
LEMMA LineAccepted ==
  ASSUME PoolInv, NEW b \in Bots, NEW p \in Prompts, prompt[p] # "gone", status[b] = "absent",
         status' = [status EXCEPT ![b] = "approved"],
         bot' = [bot EXCEPT ![b] = [prompt |-> p, written |-> p]],
         cleared' = cleared \cup {b},
         UNCHANGED <<prompt, pre, reviews, round, lock, req, op>>
  PROVE  PoolInv' /\ Kept
<1> USE RowsAndLines DEF PoolInv
<1>1. /\ status \in [Lines -> {"absent", "pending"} \cup Decisions]
      /\ bot \in [Bots -> [prompt : Prompts \cup {None}, written : Prompts \cup {None}]]
  BY DEF PoolTypeOK
<1>2. /\ status' \in [Lines -> {"absent", "pending"} \cup Decisions]
      /\ \A l \in Lines : l # b => status'[l] = status[l]
      /\ status'[b] = "approved"
      /\ \A l \in Lines : status[l] # "absent" => status'[l] # "absent"
  BY <1>1 DEF Decisions
<1>3. /\ bot' \in [Bots -> [prompt : Prompts \cup {None}, written : Prompts \cup {None}]]
      /\ \A c \in Bots : c # b => bot'[c] = bot[c]
      /\ bot'[b].prompt = p
  BY <1>1
<1>4. PoolTypeOK'
  BY <1>2, <1>3 DEF PoolTypeOK
<1>5. TargetsThere'
  BY <1>2 DEF TargetsThere, IsThere
<1>6. LocksHeld'
  BY DEF LocksHeld, IsThere, Decided
<1>7. DecidedOnce'
  BY <1>2 DEF DecidedOnce, Decided
<1>8. RequestsOfRows' /\ SubmissionsAnswered'
  BY <1>2 DEF RequestsOfRows, SubmissionsAnswered
<1>9. ClearedFirst'
  BY <1>2 DEF ClearedFirst
<1>10. DeletedPromptUnused'
  <2>1. \A r \in Rows : status[r] = "absent" => status'[r] = "absent"
    BY <1>2, PoolAssumption DEF Rows
  <2>2. QED
    BY <1>3, <2>1, StaysUnused
<1>11. QED
  BY <1>2, <1>4, <1>5, <1>6, <1>7, <1>8, <1>9, <1>10 DEF Kept

\* A terminal that holds the lock of an undecided row decides on it.
LEMMA DecisionMade ==
  ASSUME PoolInv, NEW r \in Rows, IsThere(r), ~Decided(r), NEW s \in Slots, lock[r] = s,
         ApprovePrelaunch(r) \/ RejectPrelaunch(r),
         lock' = [lock EXCEPT ![r] = None],
         UNCHANGED <<prompt, bot, round, req, op>>
  PROVE  PoolInv' /\ Kept
<1> USE RowsAndLines DEF PoolInv
<1>1. /\ status \in [Lines -> {"absent", "pending"} \cup Decisions]
      /\ pre \in [Rows -> SUBSET {"sent", "ingested", "rejected"}]
      /\ reviews \in [Rows -> Nat] /\ cleared \subseteq Lines
      /\ lock \in [Rows -> Clis \cup Slots \cup {None}]
  BY DEF PoolTypeOK
<1>2. \/ UNCHANGED <<status, pre, reviews, cleared>>
      \/ /\ status[r] = "absent"
         /\ status' = [status EXCEPT ![r] = "approved"]
         /\ pre' = [pre EXCEPT ![r] = @ \cup {"ingested"}]
         /\ reviews' = [reviews EXCEPT ![r] = @ + 1]
         /\ cleared' = cleared \cup {r}
      \/ /\ pre' = [pre EXCEPT ![r] = @ \cup {"rejected"}]
         /\ reviews' = [reviews EXCEPT ![r] = @ + 1]
         /\ UNCHANGED <<status, cleared>>
  BY DEF ApprovePrelaunch, RejectPrelaunch
<1>3. /\ status' \in [Lines -> {"absent", "pending"} \cup Decisions]
      /\ \A l \in Lines : status[l] # "absent" => status'[l] # "absent"
      /\ \A l \in Lines : l # r => status'[l] = status[l]
      /\ \A l \in Lines : status'[l] = "approved" => l \in cleared'
      /\ cleared \subseteq cleared' /\ cleared' \subseteq Lines
  <2>1. \A l \in Lines : status[l] = "approved" => l \in cleared
    BY DEF ClearedFirst
  <2>2. CASE UNCHANGED <<status, cleared>>
    BY <1>1, <2>1, <2>2
  <2>3. CASE status' = [status EXCEPT ![r] = "approved"] /\ cleared' = cleared \cup {r}
    BY <1>1, <2>1, <2>3 DEF Decisions
  <2>4. QED
    BY <1>2, <2>2, <2>3
<1>4. /\ pre' \in [Rows -> SUBSET {"sent", "ingested", "rejected"}]
      /\ \A k \in Rows : pre[k] \subseteq pre'[k]
      /\ \A k \in Rows : k # r => pre'[k] = pre[k]
  <2>1. ASSUME NEW column \in {"ingested", "rejected"}, pre' = [pre EXCEPT ![r] = @ \cup {column}]
        PROVE  /\ pre' \in [Rows -> SUBSET {"sent", "ingested", "rejected"}]
               /\ \A k \in Rows : pre[k] \subseteq pre'[k]
               /\ \A k \in Rows : k # r => pre'[k] = pre[k]
    <3>1. pre[r] \cup {column} \in SUBSET {"sent", "ingested", "rejected"}
      BY <1>1
    <3>2. pre' = [pre EXCEPT ![r] = pre[r] \cup {column}]
      BY <2>1
    <3>3. QED
      BY <1>1, <3>1, <3>2
  <2>2. QED
    BY <1>1, <1>2, <2>1
<1>5. reviews' \in [Rows -> Nat] /\ \A k \in Rows : k # r => reviews'[k] = reviews[k]
  <2>1. reviews[r] + 1 \in Nat
    BY <1>1
  <2>2. reviews' = reviews \/ reviews' = [reviews EXCEPT ![r] = reviews[r] + 1]
    BY <1>2
  <2>3. QED
    BY <1>1, <2>1, <2>2
<1>6. PoolTypeOK'
  <2>1. lock' \in [Rows -> Clis \cup Slots \cup {None}]
    BY <1>1
  <2>2. QED
    BY <1>3, <1>4, <1>5, <2>1 DEF PoolTypeOK
<1>7. \A k \in Rows : IsThere(k) => IsThere(k)'
  BY <1>4 DEF IsThere
<1>8. TargetsThere'
  BY <1>3, <1>7 DEF TargetsThere
<1>9. LocksHeld'
  <2>1. ASSUME NEW c \in Clis, NEW k \in Rows, op[c].kind = "prelaunch", op[c].at = k
        PROVE  lock'[k] = c /\ IsThere(k)' /\ ~Decided(k)'
    <3>1. lock[k] = c /\ IsThere(k) /\ ~Decided(k)
      BY <2>1 DEF LocksHeld
    <3>2. k # r
      BY <3>1, PoolAssumption
    <3>3. QED
      BY <1>1, <1>4, <1>7, <3>1, <3>2 DEF Decided
  <2>2. QED
    BY <2>1 DEF LocksHeld
<1>10. DecidedOnce'
  <2>1. reviews[r] = 0 /\ "ingested" \notin pre[r] /\ "rejected" \notin pre[r]
    BY DEF DecidedOnce, Decided
  <2>2. \/ pre'[r] = pre[r] /\ reviews'[r] = 0
        \/ pre'[r] = pre[r] \cup {"ingested"} /\ reviews'[r] = 1 /\ status'[r] = "approved"
        \/ pre'[r] = pre[r] \cup {"rejected"} /\ reviews'[r] = 1
    BY <1>1, <1>2, <2>1
  <2>3. ASSUME NEW k \in Rows, k # r
        PROVE  pre'[k] = pre[k] /\ reviews'[k] = reviews[k] /\ (status[k] # "absent" => status'[k] # "absent")
    BY <1>3, <1>4, <1>5, <2>3
  <2>4. QED
    BY <2>1, <2>2, <2>3 DEF DecidedOnce, Decided
<1>11. RequestsOfRows' /\ SubmissionsAnswered'
  <2>1. ASSUME NEW k \in Rows, status[k] # "absent", "ingested" \in pre'[k]
        PROVE  "ingested" \in pre[k]
    BY <1>1, <1>2, <1>4, <2>1
  <2>2. QED
    BY <1>3, <2>1 DEF RequestsOfRows, SubmissionsAnswered
<1>12. ClearedFirst'
  BY <1>3 DEF ClearedFirst
<1>13. DeletedPromptUnused'
  <2>1. \A k \in Rows : prompt[k[2]] = "gone" => status'[k] = status[k] /\ pre'[k] = pre[k]
    BY <1>3, <1>4, RowsKeepPrompts
  <2>2. QED
    BY <2>1, StaysUnused
<1>14. QED
  BY <1>3, <1>4, <1>6, <1>8, <1>9, <1>10, <1>11, <1>12, <1>13 DEF Kept

-----------------------------------------------------------------------------
(***************************************************************************)
(* The inductive invariant.  A command carries the prompt and the row it   *)
(* was sent for, which are there and stay there; what it reports stays     *)
(* true, as a decision is never taken back; and a decision under way holds *)
(* the lock of its row.  The screen is about rows that are there.          *)
(***************************************************************************)
Shown   == {"pending", "approved", "rejected"}
Reviews == {"approved", "rejected"}

\* What the message of a command that has not failed says.
Reports(x) ==
  /\ x.kind = "prompts" => x.got \subseteq Prompts
  /\ x.kind = "subs" =>
       \A m \in x.got :
         /\ m \in Users \X Shown /\ IsThere(<<m[1], x.prompt>>)
         /\ m[2] # "pending" => PrelaunchStatus(<<m[1], x.prompt>>) = m[2]
  /\ x.kind \in Reviews => PrelaunchStatus(<<x.user, x.prompt>>) = x.kind
  /\ x.kind = "accept" => \E b \in Bots : x.got = {b}

Fits(x) ==
  /\ x.kind # "prompts" => x.prompt \in Prompts
  /\ x.kind \in Reviews => x.user \in Users /\ IsThere(<<x.user, x.prompt>>)
  /\ x.kind \in {"generate", "accept", "assemble"} => \E u \in Users : IsThere(<<u, x.prompt>>)
  /\ x.kind = "accept" => x.line.written = x.prompt
  /\ x.kind = "assemble" => x.line.id \in Bots
  /\ x.at = "locked" => x.kind \in Reviews
  /\ x.at \in {"found", "inserted", "composed"} => x.kind = "assemble" /\ x.index \in Indices
  /\ x.at = "composed" => x.line.id \in cleared /\ x.decoys \subseteq cleared
  /\ x.at = "done" /\ x.err = "none" => Reports(x)

CommandsFit == \A s \in Slots, x \in Command : flight[s] = x => Fits(x)

Holds(s, x) == lock[<<x.user, x.prompt>>] = s /\ ~Decided(<<x.user, x.prompt>>)

SlotLocks ==
  \A s \in Slots, x \in Command : flight[s] = x /\ x.at = "locked" => Holds(s, x)

ScreenFits ==
  /\ subs = NoSubs \/ DOMAIN subs # {}
  /\ \A u \in DOMAIN subs : current \in Prompts /\ IsThere(<<u, current>>)
  /\ botPending # NoLine => botPending.written = current /\ current \in Prompts

TerminalInv ==
  /\ PoolInv /\ TypeOK
  /\ CommandsFit /\ SlotLocks /\ ScreenFits
  /\ ShownDecisionsAreStored /\ LinesFitTheirPrompt

-----------------------------------------------------------------------------
(***************************************************************************)
(* What stays true of commands and of the screen.                          *)
(***************************************************************************)
LEMMA ThereStays ==
  ASSUME Kept, NEW r \in Rows, IsThere(r)
  PROVE  IsThere(r)'
  BY DEF Kept, IsThere

LEMMA StatusStays ==
  ASSUME Kept, DecidedOnce', NEW r \in Rows, PrelaunchStatus(r) # "pending"
  PROVE  PrelaunchStatus(r)' = PrelaunchStatus(r)
  BY DEF Kept, DecidedOnce, PrelaunchStatus, Decided

LEMMA FitsStays ==
  ASSUME Kept, DecidedOnce', NEW x \in Command, Fits(x)
  PROVE  Fits(x)'
<1>1. \A u \in Users, p \in Prompts : IsThere(<<u, p>>) => IsThere(<<u, p>>)'
  BY ThereStays, RowsAndLines
<1>2. \A u \in Users, p \in Prompts :
        PrelaunchStatus(<<u, p>>) # "pending" => PrelaunchStatus(<<u, p>>)' = PrelaunchStatus(<<u, p>>)
  BY StatusStays, RowsAndLines
<1>3. cleared \subseteq cleared'
  BY DEF Kept
<1>4. Reports(x) /\ Fits(x) => Reports(x)'
  <2> SUFFICES ASSUME Reports(x), Fits(x) PROVE Reports(x)'
    OBVIOUS
  <2>1. ASSUME x.kind = "subs", NEW m \in x.got
        PROVE  /\ m \in Users \X Shown /\ IsThere(<<m[1], x.prompt>>)'
               /\ m[2] # "pending" => PrelaunchStatus(<<m[1], x.prompt>>)' = m[2]
    <3>1. m[1] \in Users /\ x.prompt \in Prompts
      BY <2>1 DEF Reports, Fits
    <3>2. /\ m \in Users \X Shown /\ IsThere(<<m[1], x.prompt>>)
          /\ m[2] # "pending" => PrelaunchStatus(<<m[1], x.prompt>>) = m[2]
      BY <2>1 DEF Reports
    <3>3. QED
      BY <1>1, <1>2, <3>1, <3>2
  <2>2. x.kind \in Reviews => PrelaunchStatus(<<x.user, x.prompt>>)' = x.kind
    <3> SUFFICES ASSUME x.kind \in Reviews PROVE PrelaunchStatus(<<x.user, x.prompt>>)' = x.kind
      OBVIOUS
    <3>1. x.user \in Users /\ x.prompt \in Prompts /\ x.kind # "pending"
      BY DEF Fits, Reviews
    <3>2. PrelaunchStatus(<<x.user, x.prompt>>) = x.kind
      BY DEF Reports
    <3>3. QED
      BY <1>2, <3>1, <3>2
  <2>3. QED
    BY <2>1, <2>2 DEF Reports
<1>5. x.kind \in Reviews => x.user \in Users /\ x.prompt \in Prompts /\ IsThere(<<x.user, x.prompt>>)'
  BY <1>1 DEF Fits, Reviews
<1>6. x.kind \in {"generate", "accept", "assemble"} => \E u \in Users : IsThere(<<u, x.prompt>>)'
  BY <1>1 DEF Fits
<1>7. QED
  BY <1>3, <1>4, <1>5, <1>6 DEF Fits

\* A command changes in one slot.
LEMMA CommandMoves ==
  ASSUME TerminalInv, PoolInv', Kept, NEW t \in Slots, NEW x \in Command \cup {Idle},
         flight' = [flight EXCEPT ![t] = x], x = Idle \/ Fits(x)'
  PROVE  flight' \in [Slots -> Command \cup {Idle}] /\ CommandsFit'
<1>1. flight \in [Slots -> Command \cup {Idle}]
  BY DEF TerminalInv, TypeOK
<1>2. flight' \in [Slots -> Command \cup {Idle}]
  BY <1>1
<1>3. Idle \notin Command
  BY DEF Idle, Command
<1>4. ASSUME NEW s \in Slots, NEW y \in Command, flight'[s] = y PROVE Fits(y)'
  <2>1. CASE s = t
    <3>1. y = x
      BY <1>1, <1>4, <2>1
    <3>2. QED
      BY <1>3, <3>1
  <2>2. CASE s # t
    <3>1. flight[s] = y
      BY <1>1, <1>4, <2>2
    <3>2. Fits(y)
      BY <3>1 DEF TerminalInv, CommandsFit
    <3>3. QED
      BY <3>2, FitsStays DEF PoolInv
  <2>3. QED
    BY <2>1, <2>2
<1>5. QED
  BY <1>2, <1>4 DEF CommandsFit

LEMMA CommandsStay ==
  ASSUME TerminalInv, PoolInv', Kept, UNCHANGED flight
  PROVE  CommandsFit'
<1>1. ASSUME NEW s \in Slots, NEW y \in Command, flight'[s] = y PROVE Fits(y)'
  <2>1. Fits(y)
    BY <1>1 DEF TerminalInv, CommandsFit
  <2>2. QED
    BY <2>1, FitsStays DEF PoolInv
<1>2. QED
  BY <1>1 DEF CommandsFit

\* The program ends.
LEMMA CommandsEnd ==
  ASSUME flight' = [s \in Slots |-> Idle]
  PROVE  flight' \in [Slots -> Command \cup {Idle}] /\ CommandsFit' /\ SlotLocks'
<1>1. Idle \notin Command
  BY DEF Idle, Command
<1>2. QED
  BY <1>1 DEF CommandsFit, SlotLocks

\* The screen stays true while it shows the same rows.
LEMMA RowsStayShown ==
  ASSUME TerminalInv, PoolInv', Kept, UNCHANGED <<current, subs>>
  PROVE  /\ \A u \in DOMAIN subs' : current' \in Prompts /\ IsThere(<<u, current>>)'
         /\ ShownDecisionsAreStored'
<1>1. PICK p : p = current
  OBVIOUS
<1>2. ASSUME NEW u \in DOMAIN subs
      PROVE  /\ p \in Prompts /\ IsThere(<<u, p>>)'
             /\ subs[u] # "pending" => PrelaunchStatus(<<u, p>>)' = subs[u]
  <2>1. p \in Prompts /\ u \in Users /\ IsThere(<<u, p>>)
    BY <1>1 DEF TerminalInv, TypeOK, ScreenFits
  <2>2. <<u, p>> \in Rows
    BY <2>1, RowsAndLines
  <2>3. subs[u] # "pending" => PrelaunchStatus(<<u, p>>) = subs[u]
    BY <1>1 DEF TerminalInv, ShownDecisionsAreStored
  <2>4. QED
    BY <2>1, <2>2, <2>3, ThereStays, StatusStays DEF PoolInv
<1>3. p = current' /\ subs' = subs
  BY <1>1
<1>4. QED
  BY <1>2, <1>3 DEF ShownDecisionsAreStored, PrelaunchStatus, IsThere

LEMMA ScreenStays ==
  ASSUME TerminalInv, PoolInv', Kept, UNCHANGED <<current, subs, botPending>>
  PROVE  ScreenFits' /\ ShownDecisionsAreStored'
  BY RowsStayShown DEF TerminalInv, ScreenFits, NoSubs, NoLine

LEMMA ScreenCleared ==
  ASSUME TerminalInv, PoolInv', Kept, UNCHANGED <<current, subs>>, botPending' = NoLine
  PROVE  ScreenFits' /\ ShownDecisionsAreStored'
  BY RowsStayShown DEF TerminalInv, ScreenFits, NoSubs, NoLine

\* Locks of decisions under way, when a command changes in one slot.
LEMMA LocksStay ==
  ASSUME TerminalInv, NEW t \in Slots, NEW x \in Command \cup {Idle},
         flight' = [flight EXCEPT ![t] = x], x = Idle \/ x.at # "locked" \/ Holds(t, x)',
         \A s \in Slots \ {t}, r \in Rows :
           lock[r] = s /\ ~Decided(r) => lock'[r] = s /\ ~Decided(r)'
  PROVE  SlotLocks'
<1>1. flight \in [Slots -> Command \cup {Idle}] /\ Idle \notin Command
  BY DEF TerminalInv, TypeOK, Idle, Command
<1>2. ASSUME NEW s \in Slots, NEW y \in Command, flight'[s] = y, y.at = "locked"
      PROVE  Holds(s, y)'
  <2>1. CASE s = t
    <3>1. y = x
      BY <1>1, <1>2, <2>1
    <3>2. QED
      BY <1>1, <1>2, <2>1, <3>1
  <2>2. CASE s # t
    <3>1. flight[s] = y
      BY <1>1, <1>2, <2>2
    <3>2. Holds(s, y) /\ Fits(y)
      BY <1>2, <3>1 DEF TerminalInv, SlotLocks, CommandsFit
    <3>3. y.user \in Users /\ y.prompt \in Prompts
      BY <1>2, <3>2 DEF Fits, Reviews
    <3>4. <<y.user, y.prompt>> \in Rows
      BY <3>3, RowsAndLines
    <3>5. QED
      BY <2>2, <3>2, <3>4 DEF Holds
  <2>3. QED
    BY <2>1, <2>2
<1>3. QED
  BY <1>2 DEF SlotLocks

LineType == [written : Prompts \cup {None}, id : Bots \cup {None}]
GotType  == SUBSET (Prompts \cup Bots \cup (Users \X Shown))
Errors   == {"none", "already_decided", "refused", "failed"}

LEMMA CmdType ==
  ASSUME NEW kind \in {"prompts", "subs", "approved", "rejected", "generate", "accept", "assemble"},
         NEW p \in Prompts \cup {None}, NEW u \in Users \cup {None}, NEW line \in LineType,
         NEW decoys \in SUBSET Rows
  PROVE  LET c == Cmd(kind, p, u, line, decoys)
         IN  /\ c \in Command /\ c.kind = kind /\ c.at = "sent" /\ c.prompt = p /\ c.user = u
             /\ c.line = line /\ c.decoys = decoys /\ c.err = "none"
  BY DEF Cmd, Command, LineType

\* A command whose message is there, and one that has moved on.
Ended(x, err, got) == [x EXCEPT !.at = "done", !.err = err, !.got = got]
Moved(x, at)       == [x EXCEPT !.at = at]

LEMMA EndedType ==
  ASSUME NEW x \in Command, NEW err \in Errors, NEW got \in GotType
  PROVE  LET y == Ended(x, err, got)
         IN  /\ y \in Command /\ y.kind = x.kind /\ y.prompt = x.prompt /\ y.user = x.user
             /\ y.line = x.line /\ y.decoys = x.decoys /\ y.index = x.index
             /\ y.at = "done" /\ y.err = err /\ y.got = got
  BY DEF Ended, Command, Errors, GotType, Shown

LEMMA MovedType ==
  ASSUME NEW x \in Command, NEW at \in {"sent", "locked", "found", "inserted", "composed", "done"}
  PROVE  LET y == Moved(x, at)
         IN  /\ y \in Command /\ y.kind = x.kind /\ y.prompt = x.prompt /\ y.user = x.user
             /\ y.line = x.line /\ y.decoys = x.decoys /\ y.index = x.index
             /\ y.at = at /\ y.err = x.err /\ y.got = x.got
  BY DEF Moved, Command

\* A command in a slot.
LEMMA InSlot ==
  ASSUME TerminalInv, NEW s \in Slots, flight[s] # Idle
  PROVE  \E x \in Command :
           /\ flight[s] = x /\ Fits(x)
           /\ x.at = "locked" => Holds(s, x)
           /\ \A err, got : Finish(s, err, got) => flight' = [flight EXCEPT ![s] = Ended(x, err, got)]
           /\ \A at : Goto(s, at) => flight' = [flight EXCEPT ![s] = Moved(x, at)]
<1>1. flight \in [Slots -> Command \cup {Idle}]
  BY DEF TerminalInv, TypeOK
<1>2. PICK x \in Command : flight[s] = x
  BY <1>1
<1>3. Fits(x) /\ (x.at = "locked" => Holds(s, x))
  BY <1>2 DEF TerminalInv, CommandsFit, SlotLocks
<1>4. ASSUME NEW err, NEW got, Finish(s, err, got)
      PROVE  flight' = [flight EXCEPT ![s] = Ended(x, err, got)]
  BY <1>1, <1>2, <1>4 DEF Finish, Ended
<1>5. ASSUME NEW at, Goto(s, at) PROVE flight' = [flight EXCEPT ![s] = Moved(x, at)]
  BY <1>1, <1>2, <1>5 DEF Goto, Moved
<1>6. QED
  BY <1>2, <1>3, <1>4, <1>5

\* What the terminal makes a round of is not deleted: it has a campaign row.
LEMMA PromptKept ==
  ASSUME TerminalInv, NEW x \in Command, Fits(x), x.kind \in {"accept", "assemble"}
  PROVE  x.prompt \in Prompts /\ prompt[x.prompt] # "gone"
<1>1. PICK p \in Prompts : p = x.prompt
  BY DEF Fits
<1>2. PICK u \in Users : IsThere(<<u, p>>)
  BY <1>1 DEF Fits
<1>3. <<u, p>> \in Rows /\ <<u, p>>[2] = p
  BY RowsAndLines
<1>4. QED
  BY <1>1, <1>2, <1>3, RowsKeepPrompts DEF TerminalInv

\* A message fits when it says what is so.
LEMMA EndedFits ==
  ASSUME NEW x \in Command, Fits(x)', NEW err \in Errors, NEW got \in GotType,
         err = "none" => Reports(Ended(x, err, got))'
  PROVE  Fits(Ended(x, err, got))'
<1>1. PICK y \in Command : /\ y = Ended(x, err, got)
                           /\ y.kind = x.kind /\ y.prompt = x.prompt /\ y.user = x.user
                           /\ y.line = x.line /\ y.decoys = x.decoys /\ y.index = x.index
                           /\ y.at = "done" /\ y.err = err /\ y.got = got
  BY EndedType
<1>2. err = "none" => Reports(y)'
  BY <1>1
<1>3. Fits(y)'
  BY <1>1, <1>2 DEF Fits
<1>4. QED
  BY <1>1, <1>3

-----------------------------------------------------------------------------
(***************************************************************************)
(* Steps that leave the pool alone, and the steps of the others.           *)
(***************************************************************************)
FlightType == flight \in [Slots -> Command \cup {Idle}]

ScreenType ==
  /\ screen \in {"prompts", "review", "quit"}
  /\ listed \subseteq Prompts
  /\ current \in Prompts \cup {None}
  /\ DOMAIN subs \subseteq Users
  /\ \A u \in DOMAIN subs : subs[u] \in Shown
  /\ botPending \in LineType
  /\ botAccepted \in BOOLEAN /\ generating \in BOOLEAN

BotsFit == \A b \in Bots : bot[b].prompt = bot[b].written

PoolPart    == PoolInv /\ BotsFit
CommandPart == FlightType /\ CommandsFit /\ SlotLocks
ScreenPart  == ScreenType /\ ScreenFits /\ ShownDecisionsAreStored

LEMMA Parts ==
  /\ TerminalInv => PoolPart /\ CommandPart /\ ScreenPart
  /\ PoolPart /\ CommandPart /\ ScreenPart => TerminalInv
<1>1. TerminalInv => PoolPart /\ CommandPart /\ ScreenPart
  BY DEF TerminalInv, PoolPart, CommandPart, ScreenPart, TypeOK, ScreenType, FlightType, BotsFit,
         LinesFitTheirPrompt, LineType, Shown
<1>2. ASSUME PoolPart, CommandPart, ScreenPart PROVE TerminalInv
  <2>1. TypeOK
    BY <1>2 DEF PoolPart, PoolInv, CommandPart, ScreenPart, TypeOK, ScreenType, FlightType,
                LineType, Shown
  <2>2. LinesFitTheirPrompt
    <3>1. botPending.written # None => botPending # NoLine
      BY DEF NoLine
    <3>2. QED
      BY <1>2, <3>1 DEF PoolPart, BotsFit, ScreenPart, ScreenFits, LinesFitTheirPrompt
  <2>3. QED
    BY <1>2, <2>1, <2>2 DEF PoolPart, CommandPart, ScreenPart, TerminalInv
<1>3. QED
  BY <1>1, <1>2

LEMMA PartsNext == PoolPart' /\ CommandPart' /\ ScreenPart' => TerminalInv'
  BY Parts, PTL

LEMMA PoolSame ==
  ASSUME TerminalInv, UNCHANGED poolVars
  PROVE  PoolPart' /\ Kept
<1>1. PoolInv' /\ Kept
  BY NextInv, TypeStep DEF TerminalInv, PoolInv
<1>2. BotsFit'
  BY Parts DEF PoolPart, BotsFit, poolVars
<1>3. QED
  BY <1>1, <1>2 DEF PoolPart

LEMMA ScreenSame ==
  ASSUME TerminalInv, PoolPart', Kept, UNCHANGED screenVars
  PROVE  ScreenPart'
<1>1. ScreenFits' /\ ShownDecisionsAreStored'
  BY ScreenStays DEF PoolPart, screenVars
<1>2. ScreenType'
  BY Parts DEF ScreenPart, ScreenType, screenVars
<1>3. QED
  BY <1>1, <1>2 DEF ScreenPart

\* A slot gets a command, or becomes free, in a step that leaves the pool alone.
LEMMA SlotFilled ==
  ASSUME TerminalInv, UNCHANGED poolVars, NEW t \in Slots, NEW x \in Command \cup {Idle},
         flight' = [flight EXCEPT ![t] = x], x = Idle \/ (Fits(x) /\ x.at # "locked")
  PROVE  CommandPart'
<1>1. PoolInv' /\ Kept
  BY PoolSame DEF PoolPart
<1>2. x = Idle \/ Fits(x)'
  <2>1. CASE x = Idle
    BY <2>1
  <2>2. CASE x # Idle
    BY <1>1, <2>2, FitsStays DEF PoolInv
  <2>3. QED
    BY <2>1, <2>2
<1>3. FlightType' /\ CommandsFit'
  BY <1>1, <1>2, CommandMoves DEF FlightType
<1>4. SlotLocks'
  <2>1. \A s \in Slots \ {t}, r \in Rows : lock[r] = s /\ ~Decided(r) => lock'[r] = s /\ ~Decided(r)'
    BY DEF poolVars, Decided
  <2>2. x = Idle \/ x.at # "locked"
    OBVIOUS
  <2>3. QED
    BY <2>1, <2>2, LocksStay
<1>5. QED
  BY <1>3, <1>4 DEF CommandPart

LEMMA Sends ==
  ASSUME TerminalInv, UNCHANGED poolVars, NEW c \in Command, c.at = "sent", Fits(c), Send(c)
  PROVE  CommandPart'
<1>1. PICK s \in Slots : flight' = [flight EXCEPT ![s] = c]
  BY DEF Send
<1>2. QED
  BY <1>1, SlotFilled

\* What a player or a shell does to a row that the terminal has locked.
LEMMA OthersLeaveLocks ==
  ASSUME PoolInv, Player \/ Admin, NEW s \in Slots, NEW r \in Rows, lock[r] = s, ~Decided(r)
  PROVE  lock'[r] = s /\ ~Decided(r)'
<1> USE RowsAndLines
<1>1. /\ pre \in [Rows -> SUBSET {"sent", "ingested", "rejected"}]
      /\ lock \in [Rows -> Clis \cup Slots \cup {None}]
      /\ s # None /\ s \notin Clis
  BY PoolAssumption DEF PoolInv, PoolTypeOK
<1>2. CASE UNCHANGED <<pre, lock>>
  BY <1>2 DEF Decided
<1>3. ASSUME NEW k \in Arrivals, InsertPrelaunchSubmission(k)
      PROVE  lock'[r] = s /\ ~Decided(r)'
  BY <1>1, <1>3 DEF InsertPrelaunchSubmission, Decided
<1>4. ASSUME NEW c \in Clis, Review(c) \/ BulkReview(c) PROVE UNCHANGED <<pre, lock>>
  BY <1>4, Starts DEF StartReview
<1>5. ASSUME NEW c \in Clis, NEW k \in op[c].todo, LockPrelaunch(c, k)
      PROVE  lock'[r] = s /\ ~Decided(r)'
  <2>1. lock[k] = None /\ (lock' = lock \/ lock' = [lock EXCEPT ![k] = c]) /\ pre' = pre
    BY <1>5 DEF LockPrelaunch, CanLock
  <2>2. k # r
    BY <1>1, <2>1
  <2>3. QED
    BY <1>1, <2>1, <2>2 DEF Decided
<1>6. ASSUME NEW c \in Clis, NEW k \in op[c].todo, DecidePrelaunch(c, k)
      PROVE  lock'[r] = s /\ ~Decided(r)'
  <2>1. k \in Rows /\ lock[k] = c
    BY <1>6 DEF DecidePrelaunch, PoolInv, TargetsThere, LocksHeld
  <2>2. k # r
    BY <1>1, <2>1
  <2>3. lock' = [lock EXCEPT ![k] = None]
    BY <1>6 DEF DecidePrelaunch
  <2>4. \/ pre' = pre
        \/ pre' = [pre EXCEPT ![k] = @ \cup {"ingested"}]
        \/ pre' = [pre EXCEPT ![k] = @ \cup {"rejected"}]
    BY <1>6 DEF DecidePrelaunch, ApprovePrelaunch, RejectPrelaunch
  <2>5. pre'[r] = pre[r]
    BY <1>1, <2>2, <2>4
  <2>6. QED
    BY <1>1, <2>2, <2>3, <2>5 DEF Decided
<1>7. ASSUME NEW c \in Clis, Interrupt(c) PROVE lock'[r] = s /\ ~Decided(r)'
  BY <1>1, <1>7 DEF Interrupt, Decided
<1>8. QED
  BY <1>2, <1>3, <1>4, <1>5, <1>6, <1>7
     DEF Player, Admin, Solicit, DecoyForUserAndPrompt, SubmitDecoy, RecheckDecoy, ReviewOne,
         InsertPrompt, RetirePrompt, CountRounds, DeletePrompt

LEMMA OthersStep ==
  ASSUME TerminalInv, Player \/ Admin, UNCHANGED <<screenVars, flight>>
  PROVE  TerminalInv'
<1>1. PoolInv' /\ Kept
  BY NextInv, TypeStep DEF PoolNext, TerminalInv, PoolInv
<1>2. PoolPart'
  <2>1. \A c \in Clis : Review(c) \/ BulkReview(c) => UNCHANGED bot
    BY Starts DEF StartReview
  <2>2. UNCHANGED bot
    BY <2>1 DEF Player, Admin, Solicit, DecoyForUserAndPrompt, SubmitDecoy, RecheckDecoy,
       InsertPrelaunchSubmission, ReviewOne, LockPrelaunch, DecidePrelaunch, Interrupt,
       InsertPrompt, RetirePrompt, CountRounds, DeletePrompt
  <2>3. QED
    BY <1>1, <2>2, Parts DEF PoolPart, BotsFit
<1>3. CommandPart'
  <2>1. CommandsFit'
    BY <1>1, CommandsStay
  <2>2. FlightType'
    BY Parts DEF CommandPart, FlightType
  <2>3. ASSUME NEW s \in Slots, NEW y \in Command, flight[s] = y, y.at = "locked"
        PROVE  Holds(s, y)'
    <3>1. Holds(s, y) /\ Fits(y)
      BY <2>3 DEF TerminalInv, SlotLocks, CommandsFit
    <3>2. <<y.user, y.prompt>> \in Rows
      BY <2>3, <3>1, RowsAndLines DEF Fits, Reviews
    <3>3. QED
      BY <3>1, <3>2, OthersLeaveLocks DEF Holds, TerminalInv
  <2>4. SlotLocks'
    BY <2>3 DEF SlotLocks
  <2>5. QED
    BY <2>1, <2>2, <2>4 DEF CommandPart
<1>4. ScreenPart'
  BY <1>1, <1>2, ScreenSame DEF screenVars
<1>5. QED
  BY <1>2, <1>3, <1>4, PartsNext

-----------------------------------------------------------------------------
(***************************************************************************)
(* Keys.                                                                   *)
(***************************************************************************)
\* The rows of the screen are there, and their prompt.
LEMMA OnScreen ==
  ASSUME TerminalInv
  PROVE  /\ subs # NoSubs => current \in Prompts /\ \E u \in Users : IsThere(<<u, current>>)
         /\ \A u \in DOMAIN subs : /\ u \in Users /\ current \in Prompts
                                   /\ <<u, current>> \in Rows /\ IsThere(<<u, current>>)
         /\ botPending # NoLine => botPending.written = current
         /\ botPending \in LineType
<1>1. \A u \in DOMAIN subs : u \in Users /\ current \in Prompts /\ IsThere(<<u, current>>)
  BY DEF TerminalInv, TypeOK, ScreenFits
<1>2. subs # NoSubs => DOMAIN subs # {}
  BY DEF TerminalInv, ScreenFits
<1>3. QED
  BY <1>1, <1>2, RowsAndLines DEF TerminalInv, ScreenFits, TypeOK, LineType

LEMMA NoLineType == NoLine \in LineType
  BY DEF NoLine, LineType

\* The commands that keys send.
LEMMA LoadPromptsFits ==
  LoadPrompts \in Command /\ LoadPrompts.at = "sent" /\ Fits(LoadPrompts)
<1>1. PICK c : c = LoadPrompts
  OBVIOUS
<1>2. c \in Command /\ c.kind = "prompts" /\ c.at = "sent"
  BY <1>1, CmdType, NoLineType DEF LoadPrompts
<1>3. Fits(c)
  BY <1>2 DEF Fits, Reviews
<1>4. QED
  BY <1>1, <1>2, <1>3

LEMMA LoadSubsFits ==
  ASSUME NEW p \in Prompts
  PROVE  LoadSubs(p) \in Command /\ LoadSubs(p).at = "sent" /\ Fits(LoadSubs(p))
<1>1. PICK c : c = LoadSubs(p)
  OBVIOUS
<1>2. c \in Command /\ c.kind = "subs" /\ c.at = "sent" /\ c.prompt = p
  BY <1>1, CmdType, NoLineType DEF LoadSubs
<1>3. Fits(c)
  BY <1>2 DEF Fits, Reviews
<1>4. QED
  BY <1>1, <1>2, <1>3

LEMMA DecideFits ==
  ASSUME TerminalInv, NEW u \in DOMAIN subs, NEW kind \in Reviews
  PROVE  LET c == Decide(kind, u) IN c \in Command /\ c.at = "sent" /\ Fits(c)
<1>1. PICK p \in Prompts : p = current
  BY OnScreen
<1>2. u \in Users /\ IsThere(<<u, p>>)
  BY <1>1, OnScreen
<1>3. PICK c : c = Decide(kind, u)
  OBVIOUS
<1>4. c \in Command /\ c.kind = kind /\ c.at = "sent" /\ c.prompt = p /\ c.user = u
  BY <1>1, <1>2, <1>3, CmdType, NoLineType DEF Decide, Reviews
<1>5. Fits(c)
  BY <1>2, <1>4 DEF Fits, Reviews
<1>6. QED
  BY <1>3, <1>4, <1>5

LEMMA BuildFits ==
  ASSUME TerminalInv, subs # NoSubs
  PROVE  /\ GenerateBot \in Command /\ GenerateBot.at = "sent" /\ Fits(GenerateBot)
         /\ botPending # NoLine => AcceptBot \in Command /\ AcceptBot.at = "sent" /\ Fits(AcceptBot)
         /\ botPending.id # None =>
              \A ds \in SUBSET Rows :
                /\ AssembleRound(ds) \in Command /\ AssembleRound(ds).at = "sent"
                /\ Fits(AssembleRound(ds))
<1>1. PICK p \in Prompts : p = current
  BY OnScreen
<1>2. \E u \in Users : IsThere(<<u, p>>)
  BY <1>1, OnScreen
<1>3. PICK line \in LineType : line = botPending
  BY OnScreen
<1>4. GenerateBot \in Command /\ GenerateBot.at = "sent" /\ Fits(GenerateBot)
  <2>1. PICK c : c = GenerateBot
    OBVIOUS
  <2>2. c \in Command /\ c.kind = "generate" /\ c.at = "sent" /\ c.prompt = p
    BY <1>1, <2>1, CmdType, NoLineType DEF GenerateBot
  <2>3. Fits(c)
    BY <1>2, <2>2 DEF Fits, Reviews
  <2>4. QED
    BY <2>1, <2>2, <2>3
<1>5. ASSUME botPending # NoLine
      PROVE  AcceptBot \in Command /\ AcceptBot.at = "sent" /\ Fits(AcceptBot)
  <2>1. PICK c : c = AcceptBot
    OBVIOUS
  <2>2. c \in Command /\ c.kind = "accept" /\ c.at = "sent" /\ c.prompt = p /\ c.line = line
    BY <1>1, <1>3, <2>1, CmdType DEF AcceptBot
  <2>3. line.written = p
    BY <1>1, <1>3, <1>5, OnScreen
  <2>4. Fits(c)
    BY <1>2, <2>2, <2>3 DEF Fits, Reviews
  <2>5. QED
    BY <2>1, <2>2, <2>4
<1>6. ASSUME botPending.id # None, NEW ds \in SUBSET Rows
      PROVE  /\ AssembleRound(ds) \in Command /\ AssembleRound(ds).at = "sent"
             /\ Fits(AssembleRound(ds))
  <2>1. PICK c : c = AssembleRound(ds)
    OBVIOUS
  <2>2. c \in Command /\ c.kind = "assemble" /\ c.at = "sent" /\ c.prompt = p /\ c.line = line
    BY <1>1, <1>3, <2>1, CmdType DEF AssembleRound
  <2>3. line.id \in Bots
    BY <1>3, <1>6 DEF LineType
  <2>4. Fits(c)
    BY <1>2, <2>2, <2>3 DEF Fits, Reviews
  <2>5. QED
    BY <2>1, <2>2, <2>4
<1>7. QED
  BY <1>4, <1>5, <1>6

\* The end of the program takes its commands and their transactions with it.
LEMMA QuitStep ==
  ASSUME TerminalInv, Quit
  PROVE  TerminalInv'
<1>1. /\ lock \in [Rows -> Clis \cup Slots \cup {None}] /\ Clis \cap Slots = {}
      /\ lock' = [r \in Rows |-> IF lock[r] \in Slots THEN None ELSE lock[r]]
  BY PoolAssumption DEF Quit, TerminalInv, PoolInv, PoolTypeOK
<1>2. PoolInv'
  BY <1>1, LocksMove DEF Quit, TerminalInv
<1>3. PoolPart'
  BY <1>2, Parts DEF PoolPart, BotsFit, Quit
<1>4. CommandPart'
  BY CommandsEnd DEF CommandPart, FlightType, Quit
<1>5. ScreenPart'
  BY NoLineType DEF Quit, ScreenPart, ScreenType, ScreenFits, ShownDecisionsAreStored, NoSubs
<1>6. QED
  BY <1>3, <1>4, <1>5, PartsNext

LEMMA KeyStep ==
  ASSUME TerminalInv, Key
  PROVE  TerminalInv'
<1>1. ASSUME UNCHANGED poolVars, CommandPart', UNCHANGED screenVars PROVE TerminalInv'
  BY <1>1, PoolSame, ScreenSame, PartsNext
<1>2. CASE Launch
  <2>1. PoolPart' /\ Kept /\ CommandPart'
    BY <1>2, PoolSame, Sends, LoadPromptsFits DEF Launch
  <2>2. ScreenFits' /\ ShownDecisionsAreStored'
    BY <1>2, <2>1, ScreenStays DEF Launch, PoolPart
  <2>3. ScreenType'
    BY <1>2, Parts DEF Launch, ScreenPart, ScreenType
  <2>4. QED
    BY <2>1, <2>2, <2>3, PartsNext DEF ScreenPart
<1>3. CASE KeyQuit
  BY <1>3, QuitStep DEF KeyQuit
<1>4. CASE KeyRefresh
  BY <1>1, <1>4, Sends, LoadPromptsFits DEF KeyRefresh
<1>5. ASSUME NEW p \in Prompts, KeyOpen(p) PROVE TerminalInv'
  BY <1>1, <1>5, Sends, LoadSubsFits DEF KeyOpen
<1>6. CASE KeyEsc
  <2>1. PoolPart' /\ Kept /\ CommandPart'
    BY <1>6, PoolSame, Sends, LoadPromptsFits DEF KeyEsc
  <2>2. ScreenPart'
    BY <1>6, Parts DEF KeyEsc, ScreenPart, ScreenType, ScreenFits, ShownDecisionsAreStored,
       NoSubs, NoLine
  <2>3. QED
    BY <2>1, <2>2, PartsNext
<1>7. ASSUME NEW kind \in Reviews, NEW u \in Users, KeyDecide(kind, u) PROVE TerminalInv'
  <2>1. u \in DOMAIN subs /\ Send(Decide(kind, u)) /\ UNCHANGED <<poolVars, screenVars>>
    BY <1>7 DEF KeyDecide
  <2>2. QED
    BY <1>1, <2>1, Sends, DecideFits
<1>8. CASE KeyGenerate
  <2>1. PoolPart' /\ Kept /\ CommandPart'
    BY <1>8, PoolSame, Sends, BuildFits DEF KeyGenerate
  <2>2. UNCHANGED <<current, subs>> /\ botPending' = NoLine
    BY <1>8 DEF KeyGenerate
  <2>3. ScreenPart'
    <3>1. ScreenType'
      BY <1>8, Parts, NoLineType DEF KeyGenerate, ScreenPart, ScreenType
    <3>2. ScreenFits' /\ ShownDecisionsAreStored'
      BY <2>1, <2>2, ScreenCleared DEF PoolPart
    <3>3. QED
      BY <3>1, <3>2 DEF ScreenPart
  <2>4. QED
    BY <2>1, <2>3, PartsNext
<1>9. CASE KeyAccept
  BY <1>1, <1>9, Sends, BuildFits DEF KeyAccept
<1>10. CASE KeyMake
  <2>1. PICK us \in kSubset(NumDecoys, Approved) : Send(AssembleRound({<<u, current>> : u \in us}))
    BY <1>10 DEF KeyMake
  <2>2. us \subseteq DOMAIN subs
    BY <2>1 DEF kSubset, Approved
  <2>3. {<<u, current>> : u \in us} \in SUBSET Rows
    BY <2>2, OnScreen
  <2>4. QED
    BY <1>1, <1>10, <2>1, <2>3, Sends, BuildFits DEF KeyMake
<1>11. QED
  BY <1>2, <1>3, <1>4, <1>5, <1>6, <1>7, <1>8, <1>9, <1>10 DEF Key, Reviews

-----------------------------------------------------------------------------
(***************************************************************************)
(* What the commands do.                                                   *)
(***************************************************************************)
\* A statement that changes no row.
LEMMA ReadStep ==
  ASSUME TerminalInv, UNCHANGED <<poolVars, screenVars>>, NEW s \in Slots, NEW y \in Command,
         flight' = [flight EXCEPT ![s] = y], Fits(y), y.at # "locked"
  PROVE  TerminalInv'
<1>1. PoolPart' /\ Kept /\ CommandPart'
  BY PoolSame, SlotFilled
<1>2. QED
  BY <1>1, ScreenSame, PartsNext

\* The end of a command that has found or made got.
LEMMA EndedNow ==
  ASSUME NEW x \in Command, Fits(x), NEW err \in Errors, NEW got \in GotType,
         err = "none" => Reports(Ended(x, err, got))
  PROVE  Fits(Ended(x, err, got))
<1>1. PICK y \in Command : /\ y = Ended(x, err, got)
                           /\ y.kind = x.kind /\ y.prompt = x.prompt /\ y.user = x.user
                           /\ y.line = x.line /\ y.decoys = x.decoys /\ y.index = x.index
                           /\ y.at = "done" /\ y.err = err /\ y.got = got
  BY EndedType
<1>2. err = "none" => Reports(y)
  BY <1>1
<1>3. Fits(y)
  BY <1>1, <1>2 DEF Fits
<1>4. QED
  BY <1>1, <1>3

LEMMA ErrorTypes == {"none", "already_decided", "refused", "failed"} = Errors /\ {} \in GotType
  BY DEF Errors, GotType

\* A statement that ends its command and changes no row.
LEMMA ReadEnds ==
  ASSUME TerminalInv, UNCHANGED <<poolVars, screenVars>>, NEW s \in Slots, NEW x \in Command,
         Fits(x), NEW err \in Errors, NEW got \in GotType,
         flight' = [flight EXCEPT ![s] = Ended(x, err, got)],
         err = "none" => Reports(Ended(x, err, got))
  PROVE  TerminalInv'
<1>1. PICK y \in Command : y = Ended(x, err, got) /\ y.at = "done"
  BY EndedType
<1>2. Fits(y)
  BY <1>1, EndedNow
<1>3. QED
  BY <1>1, <1>2, ReadStep

LEMMA RunLoadPromptsStep ==
  ASSUME TerminalInv, NEW s \in Slots, RunLoadPrompts(s)
  PROVE  TerminalInv'
<1>1. flight[s] # Idle /\ flight[s].kind = "prompts" /\ UNCHANGED <<poolVars, screenVars>>
  BY DEF RunLoadPrompts, At
<1>2. PICK got \in GotType : got = Solicited /\ got \subseteq Prompts
  BY DEF Solicited, GotType
<1>3. PICK x \in Command : /\ x.kind = "prompts" /\ Fits(x)
                           /\ flight' = [flight EXCEPT ![s] = Ended(x, "none", got)]
  BY <1>1, <1>2, InSlot DEF RunLoadPrompts
<1>4. PICK y \in Command : y = Ended(x, "none", got) /\ y.kind = "prompts" /\ y.got = got
  <2>1. "none" \in Errors
    BY ErrorTypes
  <2>2. QED
    BY <1>2, <1>3, <2>1, EndedType
<1>5. Reports(y)
  BY <1>2, <1>4 DEF Reports, Reviews
<1>6. QED
  BY <1>1, <1>2, <1>3, <1>4, <1>5, ReadEnds DEF Errors

LEMMA RunLoadSubsStep ==
  ASSUME TerminalInv, NEW s \in Slots, RunLoadSubs(s)
  PROVE  TerminalInv'
<1>1. flight[s] # Idle /\ flight[s].kind = "subs" /\ UNCHANGED <<poolVars, screenVars>>
  BY DEF RunLoadSubs, At
<1>2. PICK x \in Command :
        /\ flight[s] = x /\ Fits(x)
        /\ \A err, got : Finish(s, err, got) => flight' = [flight EXCEPT ![s] = Ended(x, err, got)]
  BY <1>1, InSlot
<1>3. PICK p \in Prompts : x.prompt = p
  BY <1>1, <1>2 DEF Fits
<1> DEFINE there == {v \in Users : IsThere(<<v, p>>)}
<1>4. PICK got : got = {<<u, PrelaunchStatus(<<u, p>>)>> : u \in there}
  OBVIOUS
<1>5. \A m \in got : /\ m \in Users \X Shown /\ IsThere(<<m[1], p>>)
                     /\ PrelaunchStatus(<<m[1], p>>) = m[2]
  <2>1. \A u \in Users : PrelaunchStatus(<<u, p>>) \in Shown
    BY DEF Shown, PrelaunchStatus
  <2>2. ASSUME NEW m \in got PROVE \E u \in there : m = <<u, PrelaunchStatus(<<u, p>>)>>
    BY <1>4
  <2>3. ASSUME NEW m \in got
        PROVE  /\ m \in Users \X Shown /\ IsThere(<<m[1], p>>)
               /\ PrelaunchStatus(<<m[1], p>>) = m[2]
    <3>1. PICK u \in there, st \in Shown : m = <<u, st>> /\ st = PrelaunchStatus(<<u, p>>)
      BY <2>1, <2>2
    <3>2. m[1] = u /\ m[2] = st
      BY <3>1
    <3>3. QED
      BY <3>1, <3>2
  <2>4. QED
    BY <2>3
<1>6. got \in GotType
  BY <1>5 DEF GotType
<1>7. Finish(s, "none", got)
  BY <1>2, <1>3, <1>4 DEF RunLoadSubs
<1>8. PICK y \in Command : /\ y = Ended(x, "none", got) /\ y.kind = "subs" /\ y.got = got
                           /\ y.prompt = p
  <2>1. x.kind = "subs"
    BY <1>1, <1>2
  <2>2. "none" \in Errors
    BY DEF Errors
  <2>3. QED
    BY <1>3, <1>6, <2>1, <2>2, EndedType
<1>9. Reports(y)
  BY <1>5, <1>8 DEF Reports, Reviews
<1>10. QED
  BY <1>1, <1>2, <1>6, <1>7, <1>8, <1>9, ReadEnds DEF Errors

LEMMA RunGenerateStep ==
  ASSUME TerminalInv, NEW s \in Slots, RunGenerate(s)
  PROVE  TerminalInv'
<1>1. flight[s] # Idle /\ flight[s].kind = "generate" /\ UNCHANGED <<poolVars, screenVars>>
  BY DEF RunGenerate, At
<1>2. PICK x \in Command : /\ x.kind = "generate" /\ Fits(x)
                           /\ flight' = [flight EXCEPT ![s] = Ended(x, "none", {})]
  BY <1>1, InSlot DEF RunGenerate
<1>3. PICK y \in Command : y = Ended(x, "none", {}) /\ y.kind = "generate"
  BY <1>2, EndedType DEF Errors, GotType
<1>4. Reports(y)
  BY <1>3 DEF Reports, Reviews
<1>5. QED
  BY <1>1, <1>2, <1>3, <1>4, ReadEnds DEF Errors, GotType

LEMMA ComposeExplicitStep ==
  ASSUME TerminalInv, NEW s \in Slots, ComposeExplicit(s)
  PROVE  TerminalInv'
<1>1. /\ flight[s] # Idle /\ flight[s].kind = "assemble" /\ flight[s].at = "inserted"
      /\ UNCHANGED <<poolVars, screenVars>>
  BY DEF ComposeExplicit, At
<1>2. PICK x \in Command :
        /\ flight[s] = x /\ Fits(x)
        /\ \A err, got : Finish(s, err, got) => flight' = [flight EXCEPT ![s] = Ended(x, err, got)]
        /\ \A at : Goto(s, at) => flight' = [flight EXCEPT ![s] = Moved(x, at)]
  BY <1>1, InSlot
<1>3. CASE Finish(s, "refused", {})
  BY <1>1, <1>2, <1>3, ReadEnds DEF Errors, GotType
<1>4. ASSUME /\ status[x.line.id] = "approved"
             /\ \A r \in x.decoys : status[r] = "approved" /\ r[2] = x.prompt
             /\ Goto(s, "composed")
      PROVE  TerminalInv'
  <2>1. x.line.id \in Bots /\ x.decoys \subseteq Rows /\ x.index \in Indices
    BY <1>1, <1>2 DEF Fits, Command
  <2>2. x.line.id \in cleared /\ x.decoys \subseteq cleared
    BY <1>4, <2>1, RowsAndLines DEF TerminalInv, PoolInv, ClearedFirst
  <2>3. PICK y \in Command : /\ y = Moved(x, "composed") /\ y.kind = x.kind /\ y.prompt = x.prompt
                             /\ y.line = x.line /\ y.decoys = x.decoys /\ y.index = x.index
                             /\ y.at = "composed"
    BY MovedType
  <2>4. Fits(y)
    BY <1>1, <1>2, <2>1, <2>2, <2>3 DEF Fits, Reviews
  <2>5. QED
    BY <1>1, <1>2, <1>4, <2>3, <2>4, ReadStep
<1>5. QED
  BY <1>2, <1>3, <1>4 DEF ComposeExplicit

\* A statement that changes rows.
LEMMA WriteStep ==
  ASSUME TerminalInv, PoolInv', Kept, BotsFit', UNCHANGED screenVars,
         NEW s \in Slots, NEW y \in Command, flight' = [flight EXCEPT ![s] = y], Fits(y)',
         y.at # "locked" \/ Holds(s, y)',
         \A t \in Slots \ {s}, r \in Rows : lock[r] = t /\ ~Decided(r) => lock'[r] = t /\ ~Decided(r)'
  PROVE  TerminalInv'
<1>1. PoolPart'
  BY DEF PoolPart
<1>2. CommandPart'
  BY CommandMoves, LocksStay DEF CommandPart, FlightType
<1>3. QED
  BY <1>1, <1>2, ScreenSame, PartsNext

LEMMA FindOpenRoundStep ==
  ASSUME TerminalInv, NEW s \in Slots, FindOpenRound(s)
  PROVE  TerminalInv'
<1>1. /\ flight[s] # Idle /\ flight[s].kind = "assemble" /\ flight[s].at = "sent"
      /\ Filled # Indices /\ UNCHANGED <<poolVars, screenVars>>
      /\ flight' = [flight EXCEPT ![s].at = "found", ![s].index = Cardinality(Filled)]
  BY DEF FindOpenRound, At
<1>2. PICK i \in Indices : i = Cardinality(Filled)
  BY <1>1, FreeIndex
<1>3. PICK x \in Command : flight[s] = x /\ Fits(x)
  BY <1>1, InSlot
<1>4. PICK y : y = [x EXCEPT !.at = "found", !.index = i]
  OBVIOUS
<1>5. /\ y \in Command /\ y.kind = x.kind /\ y.prompt = x.prompt /\ y.user = x.user
      /\ y.line = x.line /\ y.at = "found" /\ y.index = i
  BY <1>4 DEF Command
<1>6. flight' = [flight EXCEPT ![s] = y]
  <2>1. flight \in [Slots -> Command \cup {Idle}]
    BY DEF TerminalInv, TypeOK
  <2>2. QED
    BY <1>1, <1>2, <1>3, <1>4, <2>1
<1>7. Fits(y)
  BY <1>1, <1>3, <1>5 DEF Fits, Reviews
<1>8. QED
  BY <1>1, <1>5, <1>6, <1>7, ReadStep

\* A command that goes on, or ends without a report, in a step that keeps rows.
LEMMA MovedFits ==
  ASSUME TerminalInv, DecidedOnce', Kept, NEW x \in Command, Fits(x),
         NEW at \in {"inserted"}, x.at = "found"
  PROVE  Moved(x, at) \in Command /\ Moved(x, at).at = at /\ Fits(Moved(x, at))'
<1>1. PICK y \in Command : /\ y = Moved(x, at) /\ y.kind = x.kind /\ y.prompt = x.prompt
                           /\ y.user = x.user /\ y.line = x.line /\ y.index = x.index /\ y.at = at
  BY MovedType
<1>2. Fits(y)
  BY <1>1 DEF Fits, Reviews
<1>3. Fits(y)'
  BY <1>2, FitsStays
<1>4. QED
  BY <1>1, <1>3

LEMMA RoundPrompt ==
  ASSUME NEW x \in RoundRows, NEW p \in Prompts
  PROVE  \E y \in RoundRows : /\ y = [x EXCEPT !.prompt = p]
                              /\ y.prompt = p /\ y.decoys = x.decoys /\ y.bot = x.bot
<1>1. PICK y : y = [x EXCEPT !.prompt = p]
  OBVIOUS
<1>2. y \in RoundRows /\ y.prompt = p /\ y.decoys = x.decoys /\ y.bot = x.bot
  BY <1>1 DEF RoundRows
<1>3. QED
  BY <1>1, <1>2

LEMMA InsertPuzzleRoundStep ==
  ASSUME TerminalInv, NEW s \in Slots, InsertPuzzleRound(s)
  PROVE  TerminalInv'
<1>1. /\ flight[s] # Idle /\ flight[s].kind = "assemble" /\ flight[s].at = "found"
      /\ UNCHANGED <<prompt, status, bot, pre, reviews, cleared, lock, req, op, screenVars>>
  BY DEF InsertPuzzleRound, At
<1>2. PICK x \in Command : /\ flight[s] = x /\ Fits(x)
                           /\ flight' = [flight EXCEPT ![s] = Moved(x, "inserted")]
  BY <1>1, InSlot DEF InsertPuzzleRound
<1>3. PICK i \in Indices : i = x.index
  BY <1>1, <1>2 DEF Fits
<1>4. PICK p \in Prompts : p = x.prompt
  BY <1>1, <1>2 DEF Fits
<1>5. prompt[p] # "gone"
  BY <1>1, <1>2, <1>4, PromptKept
<1>6. round \in [Indices -> RoundRows] /\ round[i].decoys \subseteq cleared
      /\ round[i].bot \in cleared \cup {None}
  BY DEF TerminalInv, PoolInv, PoolTypeOK, ClearedFirst, RoundRows
<1>7. PICK new \in RoundRows : /\ new = [round[i] EXCEPT !.prompt = p] /\ new.prompt = p
                               /\ new.decoys = round[i].decoys /\ new.bot = round[i].bot
  BY <1>6, RoundPrompt
<1>8. round' = [round EXCEPT ![i] = new]
  BY <1>1, <1>2, <1>3, <1>4, <1>6, <1>7 DEF InsertPuzzleRound
<1>9. PoolInv' /\ Kept
  BY <1>1, <1>5, <1>6, <1>7, <1>8, RoundsFilled DEF TerminalInv
<1>10. BotsFit'
  BY <1>1, Parts DEF PoolPart, BotsFit
<1>11. PICK y \in Command : y = Moved(x, "inserted") /\ y.at = "inserted" /\ Fits(y)'
  BY <1>1, <1>2, <1>9, MovedFits DEF PoolInv
<1>12. QED
  BY <1>1, <1>2, <1>9, <1>10, <1>11, WriteStep DEF Decided

LEMMA ReplaceRoundAnswersStep ==
  ASSUME TerminalInv, NEW s \in Slots, ReplaceRoundAnswers(s)
  PROVE  TerminalInv'
<1>1. /\ flight[s] # Idle /\ flight[s].kind = "assemble" /\ flight[s].at = "composed"
      /\ UNCHANGED <<prompt, status, bot, pre, reviews, cleared, lock, req, op, screenVars>>
  BY DEF ReplaceRoundAnswers, At
<1>2. PICK x \in Command : /\ flight[s] = x /\ Fits(x)
                           /\ flight' = [flight EXCEPT ![s] = Ended(x, "none", {})]
  BY <1>1, InSlot DEF ReplaceRoundAnswers
<1>3. PICK i \in Indices : i = x.index
  BY <1>1, <1>2 DEF Fits
<1>4. /\ x.line.id \in Bots /\ x.decoys \in SUBSET Rows
      /\ x.line.id \in cleared /\ x.decoys \subseteq cleared
  BY <1>1, <1>2 DEF Fits, Command
<1>5. round \in [Indices -> RoundRows]
  BY DEF TerminalInv, PoolInv, PoolTypeOK, RoundRows
<1>6. PICK new \in RoundRows :
        /\ new = [round[i] EXCEPT !.bot = x.line.id, !.decoys = x.decoys]
        /\ new.prompt = round[i].prompt /\ new.decoys = x.decoys /\ new.bot = x.line.id
  <2>1. PICK b \in Bots, ds \in SUBSET Rows : b = x.line.id /\ ds = x.decoys
    BY <1>4
  <2>2. PICK row \in RoundRows : row = round[i]
    BY <1>5
  <2>3. PICK new : new = [row EXCEPT !.bot = b, !.decoys = ds]
    OBVIOUS
  <2>4. new \in RoundRows /\ new.prompt = row.prompt /\ new.decoys = ds /\ new.bot = b
    BY <2>3 DEF RoundRows
  <2>5. QED
    BY <2>1, <2>2, <2>3, <2>4
<1>7. round' = [round EXCEPT ![i] = new]
  BY <1>1, <1>2, <1>3, <1>5, <1>6 DEF ReplaceRoundAnswers
<1>8. PoolInv' /\ Kept
  BY <1>1, <1>4, <1>6, <1>7, RoundsFilled DEF TerminalInv
<1>9. BotsFit'
  BY <1>1, Parts DEF PoolPart, BotsFit
<1>10. PICK y \in Command : y = Ended(x, "none", {}) /\ y.kind = "assemble" /\ y.at = "done"
  <2>1. "none" \in Errors /\ {} \in GotType /\ x.kind = "assemble"
    BY <1>1, <1>2, ErrorTypes
  <2>2. QED
    BY <2>1, EndedType
<1>11. Reports(y)'
  BY <1>10 DEF Reports, Reviews
<1>12. Fits(y)'
  <2>1. Fits(x)'
    BY <1>2, <1>8, FitsStays DEF PoolInv
  <2>2. "none" \in Errors /\ {} \in GotType
    BY ErrorTypes
  <2>3. QED
    BY <1>10, <1>11, <2>1, <2>2, EndedFits
<1>13. QED
  BY <1>1, <1>2, <1>8, <1>9, <1>10, <1>12, WriteStep DEF Decided

\* A decision takes the lock of its row, or finds that it came too late.
LEMMA RunDecideStep ==
  ASSUME TerminalInv, NEW s \in Slots, RunDecide(s)
  PROVE  TerminalInv'
<1>1. /\ flight[s] # Idle /\ flight[s].kind \in Reviews /\ flight[s].at = "sent"
      /\ UNCHANGED <<prompt, status, bot, pre, reviews, cleared, round, req, op, screenVars>>
  BY DEF RunDecide, At, Reviews
<1>2. PICK x \in Command :
        /\ flight[s] = x /\ Fits(x)
        /\ \A err, got : Finish(s, err, got) => flight' = [flight EXCEPT ![s] = Ended(x, err, got)]
        /\ \A at : Goto(s, at) => flight' = [flight EXCEPT ![s] = Moved(x, at)]
  BY <1>1, InSlot
<1>3. PICK r \in Rows : r = <<x.user, x.prompt>>
  BY <1>1, <1>2, RowsAndLines DEF Fits, Reviews
<1>4. /\ lock[r] = None
      /\ \/ Finish(s, "already_decided", {}) /\ UNCHANGED lock
         \/ ~Decided(r) /\ Goto(s, "locked") /\ lock' = [lock EXCEPT ![r] = s]
  BY <1>2, <1>3 DEF RunDecide, CanLock
<1>5. CASE Finish(s, "already_decided", {}) /\ UNCHANGED lock
  <2>1. UNCHANGED <<poolVars, screenVars>>
    BY <1>1, <1>5 DEF poolVars
  <2>2. "already_decided" \in Errors /\ {} \in GotType /\ "already_decided" # "none"
    BY ErrorTypes
  <2>3. QED
    BY <1>2, <1>5, <2>1, <2>2, ReadEnds
<1>6. CASE ~Decided(r) /\ Goto(s, "locked") /\ lock' = [lock EXCEPT ![r] = s]
  <2>1. /\ lock \in [Rows -> Clis \cup Slots \cup {None}]
        /\ None \notin Clis \cup Slots
    BY PoolAssumption DEF TerminalInv, PoolInv, PoolTypeOK
  <2>2. /\ lock' \in [Rows -> Clis \cup Slots \cup {None}]
        /\ lock'[r] = s /\ \A k \in Rows : lock[k] # None => lock'[k] = lock[k]
    BY <1>4, <1>6, <2>1
  <2>3. PoolInv' /\ Kept
    BY <1>1, <2>1, <2>2, LocksMove DEF TerminalInv
  <2>4. BotsFit'
    BY <1>1, Parts DEF PoolPart, BotsFit
  <2>5. PICK y \in Command : /\ y = Moved(x, "locked") /\ y.kind = x.kind /\ y.prompt = x.prompt
                             /\ y.user = x.user /\ y.line = x.line /\ y.at = "locked"
    BY MovedType
  <2>6. Fits(y)'
    <3>1. Fits(y)
      BY <1>1, <1>2, <2>5 DEF Fits, Reviews
    <3>2. QED
      BY <2>3, <3>1, FitsStays DEF PoolInv
  <2>7. Holds(s, y)'
    BY <1>1, <1>3, <1>6, <2>2, <2>5 DEF Holds, Decided
  <2>8. \A t \in Slots \ {s}, k \in Rows : lock[k] = t /\ ~Decided(k) => lock'[k] = t /\ ~Decided(k)'
    BY <1>1, <2>1, <2>2 DEF Decided
  <2>9. QED
    BY <1>1, <1>2, <1>6, <2>3, <2>4, <2>5, <2>6, <2>7, <2>8, WriteStep
<1>7. QED
  BY <1>4, <1>5, <1>6

\* A decision that has been taken is the status of its row.
LEMMA DecisionReported ==
  ASSUME PoolTypeOK, NEW r \in Rows, ~Decided(r), NEW kind \in Reviews,
         IF kind = "approved" THEN ApprovePrelaunch(r) ELSE RejectPrelaunch(r),
         kind = "approved" => status[r] = "absent"
  PROVE  PrelaunchStatus(r)' = kind
<1>1. pre \in [Rows -> SUBSET {"sent", "ingested", "rejected"}]
  BY DEF PoolTypeOK
<1>2. kind = "approved" => "ingested" \in pre'[r]
  BY <1>1 DEF ApprovePrelaunch
<1>3. kind = "rejected" => "rejected" \in pre'[r] /\ "ingested" \notin pre'[r]
  BY <1>1 DEF RejectPrelaunch, Decided
<1>4. QED
  BY <1>2, <1>3 DEF Reviews, PrelaunchStatus

LEMMA RunDecisionStep ==
  ASSUME TerminalInv, NEW s \in Slots, RunDecision(s)
  PROVE  TerminalInv'
<1>1. /\ flight[s] # Idle /\ flight[s].kind \in Reviews /\ flight[s].at = "locked"
      /\ UNCHANGED <<prompt, bot, round, req, op, screenVars>>
  BY DEF RunDecision, At, Reviews
<1>2. PICK x \in Command :
        /\ flight[s] = x /\ Fits(x) /\ (x.at = "locked" => Holds(s, x))
        /\ \A err, got : Finish(s, err, got) => flight' = [flight EXCEPT ![s] = Ended(x, err, got)]
  BY <1>1, InSlot
<1>3. PICK r \in Rows : r = <<x.user, x.prompt>>
  BY <1>1, <1>2, RowsAndLines DEF Fits, Reviews
<1>4. lock[r] = s /\ ~Decided(r) /\ IsThere(r) /\ x.kind \in Reviews
  BY <1>1, <1>2, <1>3 DEF Holds, Fits
<1>5. PICK err \in Errors : err = IF x.kind = "approved" /\ status[r] # "absent" THEN "failed" ELSE "none"
  BY ErrorTypes
<1>6. /\ IF x.kind = "approved" THEN ApprovePrelaunch(r) ELSE RejectPrelaunch(r)
      /\ Finish(s, err, {})
      /\ lock' = [lock EXCEPT ![r] = None]
  BY <1>2, <1>3, <1>5 DEF RunDecision
<1>7. PoolInv' /\ Kept
  BY <1>1, <1>4, <1>6, DecisionMade DEF TerminalInv
<1>8. BotsFit'
  BY <1>1, Parts DEF PoolPart, BotsFit
<1>9. PICK y \in Command : /\ y = Ended(x, err, {}) /\ y.kind = x.kind /\ y.prompt = x.prompt
                           /\ y.user = x.user /\ y.at = "done"
  BY ErrorTypes, EndedType
<1>10. Fits(y)'
  <2>1. Fits(x)'
    BY <1>2, <1>7, FitsStays DEF PoolInv
  <2>2. ASSUME err = "none" PROVE Reports(y)'
    <3>1. x.kind = "approved" => status[r] = "absent"
      BY <1>5, <2>2
    <3>2. PrelaunchStatus(r)' = x.kind
      BY <1>4, <1>6, <3>1, DecisionReported DEF TerminalInv, PoolInv
    <3>3. y.user = r[1] /\ y.prompt = r[2] /\ r = <<r[1], r[2]>>
      BY <1>3, <1>9, RowsAndLines
    <3>4. PrelaunchStatus(<<y.user, y.prompt>>)' = y.kind
      BY <1>9, <3>2, <3>3
    <3>5. y.kind \in Reviews
      BY <1>4, <1>9
    <3>6. QED
      BY <3>4, <3>5 DEF Reports, Reviews
  <2>3. QED
    BY <1>9, <2>1, <2>2, ErrorTypes, EndedFits
<1>11. \A t \in Slots \ {s}, k \in Rows : lock[k] = t /\ ~Decided(k) => lock'[k] = t /\ ~Decided(k)'
  <2>1. /\ lock \in [Rows -> Clis \cup Slots \cup {None}]
        /\ pre \in [Rows -> SUBSET {"sent", "ingested", "rejected"}]
    BY DEF TerminalInv, PoolInv, PoolTypeOK
  <2>2. ASSUME NEW k \in Rows, k # r PROVE pre'[k] = pre[k] /\ lock'[k] = lock[k]
    BY <1>6, <2>1, <2>2 DEF ApprovePrelaunch, RejectPrelaunch
  <2>3. QED
    BY <1>4, <2>2 DEF Decided
<1>12. QED
  BY <1>1, <1>2, <1>6, <1>7, <1>8, <1>9, <1>10, <1>11, WriteStep

LEMMA RunAcceptStep ==
  ASSUME TerminalInv, NEW s \in Slots, RunAccept(s)
  PROVE  TerminalInv'
<1>1. /\ flight[s] # Idle /\ flight[s].kind = "accept"
      /\ UNCHANGED <<prompt, pre, reviews, round, lock, req, op, screenVars>>
  BY DEF RunAccept, At
<1>2. PICK x \in Command :
        /\ flight[s] = x /\ Fits(x)
        /\ \A err, got : Finish(s, err, got) => flight' = [flight EXCEPT ![s] = Ended(x, err, got)]
  BY <1>1, InSlot
<1>3. PICK p \in Prompts : p = x.prompt /\ x.line.written = p
  BY <1>1, <1>2 DEF Fits
<1>4. prompt[p] # "gone"
  BY <1>1, <1>2, <1>3, PromptKept
<1>5. PICK b \in Bots :
        /\ status[b] = "absent"
        /\ status' = [status EXCEPT ![b] = "approved"]
        /\ bot' = [bot EXCEPT ![b] = [prompt |-> p, written |-> p]]
        /\ cleared' = cleared \cup {b}
        /\ Finish(s, "none", {b})
  BY <1>2, <1>3 DEF RunAccept
<1>6. PoolInv' /\ Kept
  BY <1>1, <1>4, <1>5, LineAccepted DEF TerminalInv
<1>7. BotsFit'
  <2>1. bot \in [Bots -> [prompt : Prompts \cup {None}, written : Prompts \cup {None}]]
    BY DEF TerminalInv, PoolInv, PoolTypeOK
  <2>2. ASSUME NEW c \in Bots PROVE bot'[c].prompt = bot'[c].written
    BY <1>5, <2>1, Parts DEF PoolPart, BotsFit
  <2>3. QED
    BY <2>2 DEF BotsFit
<1>8. {b} \in GotType /\ "none" \in Errors
  BY ErrorTypes DEF GotType
<1>9. PICK y \in Command : /\ y = Ended(x, "none", {b}) /\ y.kind = "accept" /\ y.got = {b}
                           /\ y.at = "done"
  BY <1>1, <1>2, <1>8, EndedType
<1>10. Fits(y)'
  <2>1. Fits(x)'
    BY <1>2, <1>6, FitsStays DEF PoolInv
  <2>2. Reports(y)'
    BY <1>9 DEF Reports, Reviews
  <2>3. QED
    BY <1>8, <1>9, <2>1, <2>2, EndedFits
<1>11. \A t \in Slots \ {s}, k \in Rows : lock[k] = t /\ ~Decided(k) => lock'[k] = t /\ ~Decided(k)'
  BY <1>1 DEF Decided
<1>12. flight' = [flight EXCEPT ![s] = y] /\ y.at # "locked"
  BY <1>2, <1>5, <1>9
<1>13. UNCHANGED screenVars
  BY <1>1
<1>14. QED
  BY <1>6, <1>7, <1>10, <1>11, <1>12, <1>13, WriteStep

\* A command that fails gives back the lock that it holds.
LEMMA FailStep ==
  ASSUME TerminalInv, NEW s \in Slots, Fail(s)
  PROVE  TerminalInv'
<1>1. /\ flight[s] # Idle /\ Finish(s, "failed", {})
      /\ lock' = [r \in Rows |-> IF lock[r] = s THEN None ELSE lock[r]]
      /\ UNCHANGED <<prompt, status, bot, pre, reviews, cleared, round, req, op, screenVars>>
  BY DEF Fail
<1>2. PICK x \in Command : /\ flight[s] = x /\ Fits(x)
                           /\ flight' = [flight EXCEPT ![s] = Ended(x, "failed", {})]
  BY <1>1, InSlot
<1>3. /\ lock' \in [Rows -> Clis \cup Slots \cup {None}]
      /\ \A r \in Rows : lock[r] # s => lock'[r] = lock[r]
      /\ s \notin Clis
  BY <1>1, PoolAssumption DEF TerminalInv, PoolInv, PoolTypeOK
<1>4. PoolInv' /\ Kept
  BY <1>1, <1>3, LocksMove DEF TerminalInv
<1>5. BotsFit'
  BY <1>1, Parts DEF PoolPart, BotsFit
<1>6. "failed" \in Errors /\ {} \in GotType
  BY ErrorTypes
<1>7. PICK y \in Command : y = Ended(x, "failed", {}) /\ y.at = "done"
  BY <1>6, EndedType
<1>8. Fits(y)'
  <2>1. Fits(x)'
    BY <1>2, <1>4, FitsStays DEF PoolInv
  <2>2. QED
    BY <1>6, <1>7, <2>1, EndedFits
<1>9. \A t \in Slots \ {s}, k \in Rows : lock[k] = t /\ ~Decided(k) => lock'[k] = t /\ ~Decided(k)'
  BY <1>1, <1>3 DEF Decided
<1>10. QED
  BY <1>1, <1>2, <1>4, <1>5, <1>7, <1>8, <1>9, WriteStep

LEMMA RunStep ==
  ASSUME TerminalInv, NEW s \in Slots, Run(s)
  PROVE  TerminalInv'
BY RunLoadPromptsStep, RunLoadSubsStep, RunDecideStep, RunDecisionStep, RunGenerateStep, RunAcceptStep,
   FindOpenRoundStep, InsertPuzzleRoundStep, ComposeExplicitStep, ReplaceRoundAnswersStep DEF Run

-----------------------------------------------------------------------------
(***************************************************************************)
(* Messages.                                                               *)
(***************************************************************************)
\* The message of s is handled.
LEMMA HandledStep ==
  ASSUME TerminalInv, UNCHANGED poolVars, NEW s \in Slots, Handled(s) \/ HandledThen(s, LoadPrompts)
  PROVE  PoolPart' /\ Kept /\ CommandPart'
<1>1. PICK x \in Command \cup {Idle} : /\ flight' = [flight EXCEPT ![s] = x]
                                       /\ x = Idle \/ (Fits(x) /\ x.at # "locked")
  BY LoadPromptsFits DEF Handled, HandledThen
<1>2. QED
  BY <1>1, PoolSame, SlotFilled

\* A message that has not failed reports what is so.
LEMMA Message ==
  ASSUME TerminalInv, NEW s \in Slots, flight[s] # Idle, flight[s].at = "done"
  PROVE  \E x \in Command : flight[s] = x /\ Fits(x) /\ (x.err = "none" => Reports(x))
  BY InSlot DEF Fits

LEMMA PromptsLoadedStep ==
  ASSUME TerminalInv, NEW s \in Slots, PromptsLoaded(s)
  PROVE  TerminalInv'
<1>1. /\ flight[s] # Idle /\ flight[s].kind = "prompts" /\ flight[s].at = "done"
      /\ flight[s].err = "none" /\ Handled(s) /\ listed' = flight[s].got
      /\ UNCHANGED <<poolVars, screen, current, subs, botPending, botAccepted, generating>>
  BY DEF PromptsLoaded, At
<1>2. PICK x \in Command : flight[s] = x /\ Reports(x)
  BY <1>1, Message
<1>3. listed' \subseteq Prompts
  BY <1>1, <1>2 DEF Reports
<1>4. PoolPart' /\ Kept /\ CommandPart'
  BY <1>1, HandledStep
<1>5. ScreenType'
  BY <1>1, <1>3, Parts DEF ScreenPart, ScreenType
<1>6. ScreenFits' /\ ShownDecisionsAreStored'
  BY <1>1, <1>4, ScreenStays DEF PoolPart
<1>7. QED
  BY <1>4, <1>5, <1>6, PartsNext DEF ScreenPart

LEMMA SubsLoadedStep ==
  ASSUME TerminalInv, NEW s \in Slots, SubsLoaded(s)
  PROVE  TerminalInv'
<1>1. /\ flight[s] # Idle /\ flight[s].kind = "subs" /\ flight[s].at = "done"
      /\ flight[s].err = "none" /\ current' = flight[s].prompt
      /\ botPending' = NoLine /\ botAccepted' = FALSE /\ generating' = FALSE
      /\ UNCHANGED <<poolVars, listed>>
  BY DEF SubsLoaded, At, ClearBuild
<1>2. PICK x \in Command : flight[s] = x /\ Reports(x) /\ Fits(x)
  BY <1>1, Message
<1>3. PICK p \in Prompts : p = x.prompt
  BY <1>1, <1>2 DEF Fits
<1>4. PICK rows : rows = x.got
  OBVIOUS
<1>5. \A m \in rows : /\ m[1] \in Users /\ m[2] \in Shown /\ IsThere(<<m[1], p>>)
                      /\ m[2] # "pending" => PrelaunchStatus(<<m[1], p>>) = m[2]
  BY <1>1, <1>2, <1>3, <1>4 DEF Reports
<1>6. /\ subs' = [u \in {m[1] : m \in rows} |-> (CHOOSE m \in rows : m[1] = u)[2]]
      /\ \/ rows = {} /\ screen' = "prompts" /\ HandledThen(s, LoadPrompts)
         \/ rows # {} /\ screen' = "review" /\ Handled(s)
  BY <1>2, <1>4 DEF SubsLoaded
<1>7. \A u \in DOMAIN subs' :
        /\ u \in Users /\ subs'[u] \in Shown /\ IsThere(<<u, p>>)
        /\ subs'[u] # "pending" => PrelaunchStatus(<<u, p>>) = subs'[u]
  <2>1. ASSUME NEW u \in DOMAIN subs'
        PROVE  \E m \in rows : m[1] = u /\ subs'[u] = m[2]
    <3>1. PICK n \in rows : n[1] = u
      BY <1>6, <2>1
    <3>2. (CHOOSE m \in rows : m[1] = u) \in rows /\ (CHOOSE m \in rows : m[1] = u)[1] = u
      BY <3>1
    <3>3. QED
      BY <1>6, <2>1, <3>2
  <2>2. QED
    BY <1>5, <2>1
<1>8. subs' = NoSubs \/ DOMAIN subs' # {}
  <2>1. CASE rows = {}
    BY <1>6, <2>1 DEF NoSubs
  <2>2. CASE rows # {}
    BY <1>6, <2>2
  <2>3. QED
    BY <2>1, <2>2
<1>9. PoolPart' /\ Kept /\ CommandPart'
  BY <1>1, <1>6, HandledStep
<1>10. ScreenType'
  BY <1>1, <1>2, <1>3, <1>6, <1>7, NoLineType, Parts DEF ScreenPart, ScreenType
<1>11. \A u \in DOMAIN subs' :
         /\ IsThere(<<u, p>>)'
         /\ subs'[u] # "pending" => PrelaunchStatus(<<u, p>>)' = subs'[u]
  BY <1>1, <1>7 DEF poolVars, IsThere, PrelaunchStatus
<1>12. current' = p
  BY <1>1, <1>2, <1>3
<1>13. ScreenFits' /\ ShownDecisionsAreStored'
  BY <1>1, <1>8, <1>11, <1>12
     DEF ScreenFits, ShownDecisionsAreStored, IsThere, PrelaunchStatus, NoSubs, NoLine
<1>14. QED
  BY <1>9, <1>10, <1>13, PartsNext DEF ScreenPart

LEMMA BotGeneratedStep ==
  ASSUME TerminalInv, NEW s \in Slots, BotGenerated(s)
  PROVE  TerminalInv'
<1>1. /\ flight[s] # Idle /\ flight[s].kind = "generate" /\ flight[s].at = "done" /\ Handled(s)
      /\ UNCHANGED <<poolVars, screen, listed, current, subs>>
  BY DEF BotGenerated, At
<1>2. PICK x \in Command : flight[s] = x /\ Fits(x)
  BY <1>1, Message
<1>3. PICK p \in Prompts : p = x.prompt
  BY <1>1, <1>2 DEF Fits
<1>4. \/ UNCHANGED <<generating, botPending, botAccepted>>
      \/ generating' = FALSE /\ UNCHANGED <<botPending, botAccepted>>
      \/ /\ generating' = FALSE /\ botAccepted' = FALSE
         /\ p = current /\ botPending' = [written |-> p, id |-> None]
  BY <1>2, <1>3 DEF BotGenerated, StillOn
<1>5. PoolPart' /\ Kept /\ CommandPart'
  BY <1>1, HandledStep
<1>6. ScreenType'
  <2>1. [written |-> p, id |-> None] \in LineType
    BY <1>3 DEF LineType
  <2>2. botPending \in LineType /\ botAccepted \in BOOLEAN /\ generating \in BOOLEAN
    BY Parts DEF ScreenPart, ScreenType
  <2>3. botPending' \in LineType /\ botAccepted' \in BOOLEAN /\ generating' \in BOOLEAN
    BY <1>4, <2>1, <2>2
  <2>4. QED
    BY <1>1, <2>3, Parts DEF ScreenPart, ScreenType
<1>7. ScreenFits' /\ ShownDecisionsAreStored'
  <2>1. CASE UNCHANGED botPending
    BY <1>1, <1>5, <2>1, ScreenStays DEF PoolPart
  <2>2. CASE p = current /\ botPending' = [written |-> p, id |-> None]
    <3>1. botPending'.written = current' /\ current' \in Prompts
      BY <1>1, <2>2
    <3>2. QED
      BY <1>1, <1>5, <3>1, RowsStayShown DEF PoolPart, TerminalInv, ScreenFits, NoSubs, NoLine
  <2>3. QED
    BY <1>4, <2>1, <2>2
<1>8. QED
  BY <1>5, <1>6, <1>7, PartsNext DEF ScreenPart

LEMMA BotAcceptedStep ==
  ASSUME TerminalInv, NEW s \in Slots, BotAccepted(s)
  PROVE  TerminalInv'
<1>1. /\ flight[s] # Idle /\ flight[s].kind = "accept" /\ flight[s].at = "done" /\ Handled(s)
      /\ UNCHANGED <<poolVars, screen, listed, current, subs, generating>>
  BY DEF BotAccepted, At
<1>2. PICK x \in Command : flight[s] = x /\ (x.err = "none" => Reports(x))
  BY <1>1, Message
<1>3. \/ UNCHANGED <<botPending, botAccepted>>
      \/ /\ botAccepted' = TRUE /\ x.err = "none"
         /\ botPending' = IF botPending = NoLine THEN NoLine
                          ELSE [botPending EXCEPT !.id = CHOOSE b \in x.got : TRUE]
  BY <1>2 DEF BotAccepted
<1>4. PICK line \in LineType : line = botPending
  BY OnScreen
<1>5. \/ botPending' = line
      \/ botPending' = NoLine
      \/ line # NoLine /\ \E b \in Bots : botPending' = [line EXCEPT !.id = b]
  <2>1. ASSUME x.err = "none" PROVE (CHOOSE b \in x.got : TRUE) \in Bots
    BY <1>1, <1>2, <2>1 DEF Reports
  <2>2. QED
    BY <1>3, <1>4, <2>1
<1>6. /\ botPending' \in LineType
      /\ botPending' # NoLine => line # NoLine /\ botPending'.written = line.written
  BY <1>4, <1>5, NoLineType DEF LineType
<1>7. PoolPart' /\ Kept /\ CommandPart'
  BY <1>1, HandledStep
<1>8. ScreenType'
  BY <1>1, <1>3, <1>6, Parts DEF ScreenPart, ScreenType
<1>9. ScreenFits' /\ ShownDecisionsAreStored'
  <2>1. botPending' # NoLine => botPending'.written = current' /\ current' \in Prompts
    BY <1>1, <1>4, <1>6 DEF TerminalInv, ScreenFits
  <2>2. QED
    BY <1>1, <1>7, <2>1, RowsStayShown DEF PoolPart, TerminalInv, ScreenFits, NoSubs, NoLine
<1>10. QED
  BY <1>7, <1>8, <1>9, PartsNext DEF ScreenPart

LEMMA AssembledStep ==
  ASSUME TerminalInv, NEW s \in Slots, Assembled(s)
  PROVE  TerminalInv'
<1>1. /\ Handled(s) \/ HandledThen(s, LoadPrompts)
      /\ UNCHANGED <<poolVars, listed, current>>
      /\ \/ /\ botPending' = NoLine /\ botAccepted' = FALSE /\ generating' = FALSE
            /\ subs' = NoSubs /\ screen' = "prompts"
         \/ UNCHANGED <<botPending, botAccepted, generating, subs, screen>>
  BY DEF Assembled, ClearBuild
<1>2. PoolPart' /\ Kept /\ CommandPart'
  BY <1>1, HandledStep
<1>3. ScreenType'
  BY <1>1, NoLineType, Parts DEF ScreenPart, ScreenType, NoSubs
<1>4. ScreenFits' /\ ShownDecisionsAreStored'
  <2>1. CASE UNCHANGED <<botPending, subs>>
    BY <1>1, <1>2, <2>1, ScreenStays DEF PoolPart
  <2>2. CASE botPending' = NoLine /\ subs' = NoSubs
    BY <2>2 DEF ScreenFits, ShownDecisionsAreStored, NoSubs, NoLine
  <2>3. QED
    BY <1>1, <2>1, <2>2
<1>5. QED
  BY <1>2, <1>3, <1>4, PartsNext DEF ScreenPart

LEMMA DecisionDoneStep ==
  ASSUME TerminalInv, NEW s \in Slots, DecisionDone(s)
  PROVE  TerminalInv'
<1>1. flight[s] # Idle /\ flight[s].kind \in Reviews /\ flight[s].at = "done"
  BY DEF DecisionDone, At, Reviews
<1>2. PICK x \in Command : flight[s] = x /\ Fits(x) /\ (x.err = "none" => Reports(x))
  BY <1>1, Message
<1>3. CASE Quit
  BY <1>3, QuitStep
<1>4. ASSUME /\ subs' = IF x.prompt = current /\ x.err = "none"
                        THEN [u \in DOMAIN subs |-> IF u = x.user THEN x.kind ELSE subs[u]]
                        ELSE subs
             /\ Handled(s)
             /\ UNCHANGED <<poolVars, screen, listed, current, botPending, botAccepted, generating>>
      PROVE  TerminalInv'
  <2>1. PoolPart' /\ Kept /\ CommandPart'
    BY <1>4, HandledStep
  <2>2. CASE subs' = subs
    <3>1. UNCHANGED screenVars
      BY <1>4, <2>2 DEF screenVars
    <3>2. QED
      BY <2>1, <3>1, ScreenSame, PartsNext
  <2>3. CASE /\ x.prompt = current /\ x.err = "none"
             /\ subs' = [u \in DOMAIN subs |-> IF u = x.user THEN x.kind ELSE subs[u]]
    <3>1. PrelaunchStatus(<<x.user, x.prompt>>) = x.kind /\ x.kind \in Reviews
      BY <1>1, <1>2, <2>3 DEF Reports
    <3>2. PICK p : p = current
      OBVIOUS
    <3>3. \A u \in DOMAIN subs :
            /\ u \in Users /\ subs[u] \in Shown /\ p \in Prompts /\ IsThere(<<u, p>>)
            /\ subs[u] # "pending" => PrelaunchStatus(<<u, p>>) = subs[u]
      BY <3>2, OnScreen DEF TerminalInv, TypeOK, ShownDecisionsAreStored, Shown
    <3>4. \A u \in DOMAIN subs' :
            /\ u \in DOMAIN subs /\ subs'[u] \in Shown
            /\ subs'[u] # "pending" => PrelaunchStatus(<<u, p>>) = subs'[u]
      BY <2>3, <3>1, <3>2, <3>3 DEF Reviews, Shown
    <3>5. subs' = NoSubs \/ DOMAIN subs' # {}
      BY <2>3 DEF TerminalInv, ScreenFits, NoSubs
    <3>6. ScreenType'
      BY <1>4, <3>3, <3>4, Parts DEF ScreenPart, ScreenType
    <3>7. \A u \in DOMAIN subs' :
            /\ p \in Prompts /\ IsThere(<<u, p>>)'
            /\ subs'[u] # "pending" => PrelaunchStatus(<<u, p>>)' = subs'[u]
      BY <1>4, <3>3, <3>4 DEF poolVars, IsThere, PrelaunchStatus
    <3>8. current' = p
      BY <1>4, <3>2
    <3>9. botPending' # NoLine => botPending'.written = current' /\ current' \in Prompts
      BY <1>4 DEF TerminalInv, ScreenFits
    <3>10. ScreenFits' /\ ShownDecisionsAreStored'
      BY <3>5, <3>7, <3>8, <3>9
         DEF ScreenFits, ShownDecisionsAreStored, IsThere, PrelaunchStatus, NoSubs, NoLine
    <3>11. QED
      BY <2>1, <3>6, <3>10, PartsNext DEF ScreenPart
  <2>4. QED
    BY <1>4, <2>2, <2>3
<1>5. QED
  BY <1>2, <1>3, <1>4 DEF DecisionDone, StillOn

LEMMA UpdateStep ==
  ASSUME TerminalInv, NEW s \in Slots, Update(s)
  PROVE  TerminalInv'
<1>1. CASE LoadFailed(s)
  BY <1>1, QuitStep DEF LoadFailed
<1>2. QED
  BY <1>1, PromptsLoadedStep, SubsLoadedStep, BotGeneratedStep, BotAcceptedStep, AssembledStep,
     DecisionDoneStep DEF Update

-----------------------------------------------------------------------------
(***************************************************************************)
(* The theorems.                                                           *)
(***************************************************************************)
LEMMA TerminalInit == Init => TerminalInv
<1> SUFFICES ASSUME Init PROVE TerminalInv
  OBVIOUS
<1>1. PoolInv
  BY InitInv DEF Init
<1>2. BotsFit
  <2>1. PICK p \in Prompts :
          LET drafts == IF prompt[p] = "live" THEN Drafts ELSE {}
          IN  bot = [b \in Bots |-> IF b \in drafts THEN [prompt |-> p, written |-> p] ELSE NoBot]
    BY DEF Init, PoolInit
  <2>2. QED
    BY <2>1 DEF BotsFit, NoBot
<1>3. Idle \notin Command
  BY DEF Idle, Command
<1>4. CommandPart
  BY <1>3 DEF Init, CommandPart, FlightType, CommandsFit, SlotLocks
<1>5. ScreenPart
  BY NoLineType DEF Init, ScreenPart, ScreenType, ScreenFits, ShownDecisionsAreStored, NoSubs
<1>6. QED
  BY <1>1, <1>2, <1>4, <1>5, Parts DEF PoolPart

LEMMA TerminalStep == TerminalInv /\ [Next]_vars => TerminalInv'
<1> SUFFICES ASSUME TerminalInv, [Next]_vars PROVE TerminalInv'
  OBVIOUS
<1>1. CASE UNCHANGED vars
  <2>1. UNCHANGED poolVars /\ UNCHANGED screenVars /\ UNCHANGED flight
    BY <1>1 DEF vars
  <2>2. PoolPart' /\ Kept /\ ScreenPart'
    BY <2>1, PoolSame, ScreenSame
  <2>3. CommandsFit' /\ FlightType'
    BY <2>1, <2>2, CommandsStay, Parts DEF PoolPart, CommandPart, FlightType
  <2>4. SlotLocks'
    BY <2>1, Parts DEF CommandPart, SlotLocks, Holds, poolVars, Decided
  <2>5. QED
    BY <2>2, <2>3, <2>4, PartsNext DEF CommandPart
<1>2. CASE (Player \/ Admin) /\ UNCHANGED <<screenVars, flight>>
  BY <1>2, OthersStep
<1>3. CASE Key
  BY <1>3, KeyStep
<1>4. ASSUME NEW s \in Slots, Run(s) \/ Update(s) \/ Fail(s) PROVE TerminalInv'
  BY <1>4, RunStep, UpdateStep, FailStep
<1>5. QED
  BY <1>1, <1>2, <1>3, <1>4 DEF Next

LEMMA TerminalInvariant == Spec => []TerminalInv
  BY TerminalInit, TerminalStep, PTL DEF Spec

\* Every variable of the terminal and of the pool under it has its type (TypeOK).
THEOREM TerminalTyped == Spec => []TypeOK
<1>1. TerminalInv => TypeOK
  BY DEF TerminalInv
<1>2. QED
  BY <1>1, TerminalInvariant, PTL

\* A row that the screen shows as decided is stored that way
\* (ShownDecisionsAreStored): what a message reports stays true while it is
\* under way, as a decision is never taken back, and it changes the row that
\* the decision was about, whichever prompt the reviewer looks at by then.
THEOREM ScreenShowsWhatIsStored == Spec => []ShownDecisionsAreStored
<1>1. TerminalInv => ShownDecisionsAreStored
  BY DEF TerminalInv
<1>2. QED
  BY <1>1, TerminalInvariant, PTL

\* A bot line is shown and filed under the prompt that it was written for
\* (LinesFitTheirPrompt), however late it arrives.
THEOREM LinesAreFiledRight == Spec => []LinesFitTheirPrompt
<1>1. TerminalInv => LinesFitTheirPrompt
  BY DEF TerminalInv
<1>2. QED
  BY <1>1, TerminalInvariant, PTL

\* Commands of the terminal, of several shells and of players at once: one of
\* them decides on a campaign row, with one review on record (ReviewedOnce).
THEOREM TerminalReviewsOnce == Spec => []ReviewedOnce
<1>1. TerminalInv => ReviewedOnce
  BY InvReviewedOnce DEF TerminalInv
<1>2. QED
  BY <1>1, TerminalInvariant, PTL

\* The terminal, too, leaves nothing under a prompt that is gone, although it
\* inserts lines and rounds for prompts of a list that may be out of date
\* (DeletedPromptUnused).
THEOREM TerminalKeepsThePool == Spec => []DeletedPromptUnused
<1>1. TerminalInv => DeletedPromptUnused
  BY DEF TerminalInv, PoolInv
<1>2. QED
  BY <1>1, TerminalInvariant, PTL

-----------------------------------------------------------------------------
(***************************************************************************)
(* The terminal changes the pool as Moderation allows.                     *)
(***************************************************************************)
LEMMA AcceptRefines ==
  ASSUME UNCHANGED <<prompt, pre, reviews, round>>, NEW b \in Bots, NEW p \in Prompts,
         prompt[p] # "gone", status[b] = "absent", status' = [status EXCEPT ![b] = "approved"],
         PoolTypeOK, bot' = [bot EXCEPT ![b] = [prompt |-> p, written |-> p]],
         cleared' = cleared \cup {b}
  PROVE  Abstract!Next
<1>1. AbstractFiled' = [AbstractFiled EXCEPT ![b] = p]
  BY DEF AbstractFiled, PoolTypeOK
<1>2. AbstractDecision' = AbstractDecision
  BY DecisionSame
<1>3. Abstract!Accept(b, p)
  BY <1>1, <1>2 DEF Abstract!Accept, AbstractFiled, AbstractDecision
<1>4. QED
  BY <1>3 DEF Abstract!Next

LEMMA FillRefines ==
  ASSUME UNCHANGED <<prompt, status, bot, pre, reviews, cleared>>, NEW i \in Indices,
         NEW b \in Bots, NEW decoys \in SUBSET Rows, b \in cleared, decoys \subseteq cleared,
         round' = [round EXCEPT ![i].bot = b, ![i].decoys = decoys]
  PROVE  Abstract!Next
<1>1. AbstractFiled' = AbstractFiled /\ AbstractDecision' = AbstractDecision
  BY FiledSame, DecisionSame
<1>2. Abstract!Fill(i, b, decoys)
  BY <1>1 DEF Abstract!Fill, AbstractFiled, AbstractDecision
<1>3. QED
  BY <1>2, SameRows DEF Abstract!Next

LEMMA RunRefines ==
  ASSUME TerminalInv, NEW s \in Slots, Run(s)
  PROVE  Abstract!Next \/ UNCHANGED Abstract!vars
<1>1. CASE UNCHANGED <<prompt, status, bot, pre, reviews, cleared, round>>
  BY <1>1, StutterRefines
<1>2. CASE RunDecision(s)
  <2>1. flight[s] # Idle /\ flight[s].kind \in Reviews /\ flight[s].at = "locked"
    BY <1>2 DEF RunDecision, At, Reviews
  <2>2. PICK x \in Command : flight[s] = x /\ Fits(x) /\ (x.at = "locked" => Holds(s, x))
    BY <2>1, InSlot
  <2>3. PICK r \in Rows : r = <<x.user, x.prompt>>
    BY <2>1, <2>2, RowsAndLines DEF Fits, Reviews
  <2>4. ~Decided(r) /\ IsThere(r)
    BY <2>1, <2>2, <2>3 DEF Holds, Fits
  <2>5. /\ ApprovePrelaunch(r) \/ RejectPrelaunch(r)
        /\ UNCHANGED <<prompt, bot, round>>
    BY <1>2, <2>2, <2>3 DEF RunDecision
  <2>6. QED
    BY <2>4, <2>5, DecisionRefines DEF TerminalInv
<1>3. CASE RunAccept(s)
  <2>1. /\ flight[s] # Idle /\ flight[s].kind = "accept"
        /\ UNCHANGED <<prompt, pre, reviews, round>>
    BY <1>3 DEF RunAccept, At
  <2>2. PICK x \in Command : flight[s] = x /\ Fits(x)
    BY <2>1, InSlot
  <2>3. PICK p \in Prompts : p = x.prompt /\ x.line.written = p
    BY <2>1, <2>2 DEF Fits
  <2>4. prompt[p] # "gone"
    BY <2>1, <2>2, <2>3, PromptKept
  <2>5. PICK b \in Bots :
          /\ status[b] = "absent"
          /\ status' = [status EXCEPT ![b] = "approved"]
          /\ bot' = [bot EXCEPT ![b] = [prompt |-> p, written |-> p]]
          /\ cleared' = cleared \cup {b}
    BY <1>3, <2>2, <2>3 DEF RunAccept
  <2>6. QED
    BY <2>1, <2>4, <2>5, AcceptRefines DEF TerminalInv, PoolInv
<1>4. CASE InsertPuzzleRound(s)
  <2>1. /\ flight[s] # Idle /\ flight[s].kind = "assemble" /\ flight[s].at = "found"
        /\ UNCHANGED <<prompt, status, bot, pre, reviews, cleared>>
    BY <1>4 DEF InsertPuzzleRound, At
  <2>2. PICK x \in Command : flight[s] = x /\ Fits(x)
    BY <2>1, InSlot
  <2>3. PICK p \in Prompts : p = x.prompt /\ prompt[p] # "gone"
    BY <2>1, <2>2, PromptKept
  <2>4. PICK i \in Indices : i = x.index
    BY <2>1, <2>2 DEF Fits
  <2>5. round' = [round EXCEPT ![i].prompt = p]
    BY <1>4, <2>2, <2>3, <2>4 DEF InsertPuzzleRound
  <2>6. QED
    BY <2>1, <2>3, <2>5, PlaceRefines
<1>5. CASE ReplaceRoundAnswers(s)
  <2>1. /\ flight[s] # Idle /\ flight[s].kind = "assemble" /\ flight[s].at = "composed"
        /\ UNCHANGED <<prompt, status, bot, pre, reviews, cleared>>
    BY <1>5 DEF ReplaceRoundAnswers, At
  <2>2. PICK x \in Command : flight[s] = x /\ Fits(x)
    BY <2>1, InSlot
  <2>3. PICK i \in Indices : i = x.index
    BY <2>1, <2>2 DEF Fits
  <2>4. PICK b \in Bots : b = x.line.id /\ b \in cleared
    BY <2>1, <2>2 DEF Fits
  <2>5. PICK decoys \in SUBSET Rows : decoys = x.decoys /\ decoys \subseteq cleared
    BY <2>1, <2>2 DEF Fits, Command
  <2>6. round' = [round EXCEPT ![i].bot = b, ![i].decoys = decoys]
    BY <1>5, <2>2, <2>3, <2>4, <2>5 DEF ReplaceRoundAnswers
  <2>7. QED
    BY <2>1, <2>4, <2>5, <2>6, FillRefines
<1>6. QED
  BY <1>1, <1>2, <1>3, <1>4, <1>5
     DEF Run, RunLoadPrompts, RunLoadSubs, RunDecide, RunGenerate, FindOpenRound, ComposeExplicit, poolVars

LEMMA ScreenRefines ==
  ASSUME Key \/ \E s \in Slots : Update(s) \/ Fail(s)
  PROVE  UNCHANGED Abstract!vars
<1>1. CASE Key
  BY <1>1, StutterRefines
     DEF Key, Launch, KeyQuit, Quit, KeyRefresh, KeyEsc, KeyGenerate, KeyAccept, KeyMake, KeyOpen,
         KeyDecide, poolVars
<1>2. ASSUME NEW s \in Slots, Update(s) PROVE UNCHANGED Abstract!vars
  BY <1>2, StutterRefines
     DEF Update, LoadFailed, Quit, PromptsLoaded, SubsLoaded, BotGenerated, BotAccepted, Assembled,
         DecisionDone, poolVars
<1>3. ASSUME NEW s \in Slots, Fail(s) PROVE UNCHANGED Abstract!vars
  BY <1>3, StutterRefines DEF Fail
<1>4. QED
  BY <1>1, <1>2, <1>3

\* With the terminal at work as well, the pool changes only as Moderation
\* allows (ImplementsModeration).
THEOREM TerminalImplementsModeration == Spec => ImplementsModeration
<1>1. TerminalInv /\ [Next]_vars => [Abstract!Next]_(Abstract!vars)
  <2> SUFFICES ASSUME TerminalInv, [Next]_vars PROVE Abstract!Next \/ UNCHANGED Abstract!vars
    OBVIOUS
  <2>1. CASE (Player \/ Admin) /\ UNCHANGED <<screenVars, flight>>
    <3>1. PoolInv /\ [PoolNext]_poolVars
      BY <2>1 DEF TerminalInv, PoolNext
    <3>2. QED
      BY <3>1, StepRefines
  <2>2. CASE UNCHANGED vars
    BY <2>2, StutterRefines DEF vars, poolVars
  <2>3. QED
    BY <2>1, <2>2, RunRefines, ScreenRefines DEF Next
<1>2. Init => Abstract!Init
  BY InitRefines DEF Init
<1>3. QED
  BY <1>1, <1>2, TerminalInvariant, PTL DEF Spec, ImplementsModeration, Abstract!Spec
=============================================================================
