------------------------------ MODULE Terminal ------------------------------
(***************************************************************************)
(* The review terminal, bbg-admin tui, over the rows of Pool.  Every key   *)
(* changes the model of the screen and may send a command, which runs on   *)
(* its own and whose message comes back in any order: what the screen      *)
(* shows, and what the next key acts on, may be about another prompt by    *)
(* then.                                                                   *)
(*                                                                         *)
(* Cursors are left out, so that a key that acts on the row under the      *)
(* cursor acts on any row, and so are notes, sort orders and the counts of *)
(* a session.                                                              *)
(***************************************************************************)
EXTENDS Pool

CONSTANT NumDecoys    \* decoys of a round (3 in the code)

ASSUME TerminalAssumption == NumDecoys \in Nat

VARIABLES
  screen,      \* what is shown; "quit" when the program has ended
  listed,      \* the prompts of the prompt list
  current,     \* currentPromptID
  subs,        \* subs[u]: the shown status of the row of user u for current
  botPending,  \* the prompt the shown bot line was written for and its row, once accepted
  botAccepted,
  generating,
  flight       \* flight[s]: a command sent whose message has not been handled

screenVars == <<screen, listed, current, subs, botPending, botAccepted, generating>>
vars == <<poolVars, screenVars, flight>>

NoLine == [written |-> None, id |-> None]
NoSubs == [u \in {} |-> "pending"]

Approved == {u \in DOMAIN subs : subs[u] = "approved"}

-----------------------------------------------------------------------------
(***************************************************************************)
(* Commands.  A command is sent, runs one statement after another and is   *)
(* done when its message is there; err is the error in the message, got    *)
(* what it has read or made, and index the round it fills.                 *)
(***************************************************************************)
Idle == [kind |-> "none"]

Cmd(kind, p, u, line, decoys) ==
  [kind |-> kind, at |-> "sent", prompt |-> p, user |-> u, line |-> line, decoys |-> decoys,
   err |-> "none", got |-> {}, index |-> None]

LoadPrompts    == Cmd("prompts", None, None, NoLine, {})
LoadSubs(p)    == Cmd("subs", p, None, NoLine, {})
Decide(k, u)   == Cmd(k, current, u, NoLine, {})
GenerateBot    == Cmd("generate", current, None, NoLine, {})
AcceptBot      == Cmd("accept", current, None, botPending, {})
AssembleRound(ds) == Cmd("assemble", current, None, botPending, ds)

\* Commands are numbered from the first slot that is free.
Send(c) ==
  \E s \in Slots : /\ flight[s] = Idle
                   /\ flight' = [flight EXCEPT ![s] = c]

At(s, kinds, at) == flight[s] # Idle /\ flight[s].kind \in kinds /\ flight[s].at = at

Goto(s, at) == flight' = [flight EXCEPT ![s].at = at]

Finish(s, err, got) ==
  flight' = [flight EXCEPT ![s].at = "done", ![s].err = err, ![s].got = got]

\* A statement, or the model that writes the line, fails.
Fail(s) ==
  /\ flight[s] # Idle /\ flight[s].at # "done"
  /\ Finish(s, "failed", {})
  /\ lock' = [r \in Rows |-> IF lock[r] = s THEN None ELSE lock[r]]
  /\ UNCHANGED <<prompt, status, bot, pre, reviews, cleared, round, req, op, screenVars>>

\* PrelaunchPromptCounts lists the prompts that are not retired and in no round.
RunLoadPrompts(s) ==
  /\ At(s, {"prompts"}, "sent")
  /\ Finish(s, "none", Solicited)
  /\ UNCHANGED <<poolVars, screenVars>>

RunLoadSubs(s) ==
  /\ At(s, {"subs"}, "sent")
  /\ Finish(s, "none", {<<u, PrelaunchStatus(<<u, flight[s].prompt>>)>> :
                          u \in {v \in Users : IsThere(<<v, flight[s].prompt>>)}})
  /\ UNCHANGED <<poolVars, screenVars>>

RunDecide(s) ==
  /\ At(s, {"approved", "rejected"}, "sent")
  /\ LET r == <<flight[s].user, flight[s].prompt>>
     IN  /\ CanLock(r)
         /\ IF Decided(r)
            THEN Finish(s, "already_decided", {}) /\ UNCHANGED lock
            ELSE Goto(s, "locked") /\ lock' = [lock EXCEPT ![r] = s]
  /\ UNCHANGED <<prompt, status, bot, pre, reviews, cleared, round, req, op, screenVars>>

RunDecision(s) ==
  /\ At(s, {"approved", "rejected"}, "locked")
  /\ LET r == <<flight[s].user, flight[s].prompt>>
     IN  /\ IF flight[s].kind = "approved" THEN ApprovePrelaunch(r) ELSE RejectPrelaunch(r)
         /\ Finish(s, IF flight[s].kind = "approved" /\ status[r] # "absent"
                      THEN "failed" ELSE "none", {})
         /\ lock' = [lock EXCEPT ![r] = None]
  /\ UNCHANGED <<prompt, bot, round, req, op, screenVars>>

RunGenerate(s) ==
  /\ At(s, {"generate"}, "sent")
  /\ Finish(s, "none", {})
  /\ UNCHANGED <<poolVars, screenVars>>

\* InsertApprovedBotLine: the reviewer is the approval gate.
RunAccept(s) ==
  /\ At(s, {"accept"}, "sent")
  /\ \E b \in Bots :
       /\ status[b] = "absent"
       /\ status' = [status EXCEPT ![b] = "approved"]
       /\ bot' = [bot EXCEPT ![b] = [prompt |-> flight[s].prompt, written |-> flight[s].line.written]]
       /\ cleared' = cleared \cup {b}
       /\ Finish(s, "none", {b})
  /\ UNCHANGED <<prompt, pre, reviews, round, lock, req, op, screenVars>>

\* assembleRoundCmd finds the next open round; the puzzles that the terminal
\* opens are filled one after the other, so that it is the first free index.
FindOpenRound(s) ==
  /\ At(s, {"assemble"}, "sent") /\ Filled # Indices
  /\ flight' = [flight EXCEPT ![s].at = "found", ![s].index = Cardinality(Filled)]
  /\ UNCHANGED <<poolVars, screenVars>>

\* It writes the round, over the one that another command has put there,
InsertPuzzleRound(s) ==
  /\ At(s, {"assemble"}, "found")
  /\ round' = [round EXCEPT ![flight[s].index].prompt = flight[s].prompt]
  /\ Goto(s, "inserted")
  /\ UNCHANGED <<prompt, status, bot, pre, reviews, cleared, lock, req, op, screenVars>>

\* validates the lines against the approved pool,
ComposeExplicit(s) ==
  /\ At(s, {"assemble"}, "inserted")
  /\ IF /\ status[flight[s].line.id] = "approved" /\ bot[flight[s].line.id].prompt = flight[s].prompt
        /\ \A r \in flight[s].decoys : status[r] = "approved" /\ r[2] = flight[s].prompt
     THEN Goto(s, "composed")
     ELSE Finish(s, "refused", {})
  /\ UNCHANGED <<poolVars, screenVars>>

\* and writes them.
ReplaceRoundAnswers(s) ==
  /\ At(s, {"assemble"}, "composed")
  /\ round' = [round EXCEPT ![flight[s].index].bot = flight[s].line.id,
                            ![flight[s].index].decoys = flight[s].decoys]
  /\ Finish(s, "none", {})
  /\ UNCHANGED <<prompt, status, bot, pre, reviews, cleared, lock, req, op, screenVars>>

-----------------------------------------------------------------------------
(***************************************************************************)
(* Messages, tuiModel.Update.                                              *)
(***************************************************************************)
\* The message of s is handled, and sends no command, or one.
Handled(s) == flight' = [flight EXCEPT ![s] = Idle]
HandledThen(s, c) == flight' = [flight EXCEPT ![s] = c]

\* The program ends, and what it was running with it.
Quit ==
  /\ screen' = "quit"
  /\ flight' = [s \in Slots |-> Idle]
  /\ lock' = [r \in Rows |-> IF lock[r] \in Slots THEN None ELSE lock[r]]
  /\ listed' = {} /\ current' = None /\ subs' = NoSubs
  /\ botPending' = NoLine /\ botAccepted' = FALSE /\ generating' = FALSE
  /\ UNCHANGED <<prompt, status, bot, pre, reviews, cleared, round, req, op>>

LoadFailed(s) ==
  /\ At(s, {"prompts", "subs"}, "done") /\ flight[s].err # "none"
  /\ Quit

PromptsLoaded(s) ==
  /\ At(s, {"prompts"}, "done") /\ flight[s].err = "none"
  /\ listed' = flight[s].got
  /\ Handled(s)
  /\ UNCHANGED <<poolVars, screen, current, subs, botPending, botAccepted, generating>>

\* Mutant of ClearBuild: the wait for a line goes on.
KeepWaiting == botPending' = NoLine /\ botAccepted' = FALSE /\ UNCHANGED generating

\* What a prompt that has just been opened starts with.
ClearBuild == botPending' = NoLine /\ botAccepted' = FALSE /\ generating' = FALSE

SubsLoaded(s) ==
  /\ At(s, {"subs"}, "done") /\ flight[s].err = "none"
  /\ LET rows == flight[s].got
     IN  /\ subs' = [u \in {x[1] : x \in rows} |-> (CHOOSE x \in rows : x[1] = u)[2]]
         /\ IF rows = {} THEN screen' = "prompts" /\ HandledThen(s, LoadPrompts)
                         ELSE screen' = "review" /\ Handled(s)
  /\ current' = flight[s].prompt
  /\ ClearBuild
  /\ UNCHANGED <<poolVars, listed>>

\* Mutant of StillOn: no guard.
OnAnyPrompt(p) == TRUE

\* The guard against results for a prompt that the reviewer has left.
StillOn(p) == p = current

BotGenerated(s) ==
  /\ At(s, {"generate"}, "done")
  /\ Handled(s)
  /\ IF StillOn(flight[s].prompt)
     THEN /\ generating' = FALSE
          /\ IF flight[s].err # "none" THEN UNCHANGED <<botPending, botAccepted>>
             ELSE /\ botPending' = [written |-> flight[s].prompt, id |-> None]
                  /\ botAccepted' = FALSE
     ELSE UNCHANGED <<generating, botPending, botAccepted>>
  /\ UNCHANGED <<poolVars, screen, listed, current, subs>>

BotAccepted(s) ==
  /\ At(s, {"accept"}, "done")
  /\ Handled(s)
  /\ IF StillOn(flight[s].prompt) /\ flight[s].err = "none"
     THEN /\ botPending' = IF botPending = NoLine THEN NoLine
                           ELSE [botPending EXCEPT !.id = CHOOSE b \in flight[s].got : TRUE]
          /\ botAccepted' = TRUE
     ELSE UNCHANGED <<botPending, botAccepted>>
  /\ UNCHANGED <<poolVars, screen, listed, current, subs, generating>>

Assembled(s) ==
  /\ At(s, {"assemble"}, "done")
  /\ IF flight[s].err = "none"
     THEN /\ ClearBuild
          /\ subs' = NoSubs
          /\ screen' = "prompts"
          /\ HandledThen(s, LoadPrompts)
     ELSE Handled(s) /\ UNCHANGED <<botPending, botAccepted, generating, subs, screen>>
  /\ UNCHANGED <<poolVars, listed, current>>

\* A decision changes the row it is about, if that is on the screen.
DecisionDone(s) ==
  /\ At(s, {"approved", "rejected"}, "done")
  /\ IF StillOn(flight[s].prompt) /\ flight[s].err = "failed" THEN Quit
     ELSE /\ subs' = IF StillOn(flight[s].prompt) /\ flight[s].err = "none"
                     THEN [u \in DOMAIN subs |-> IF u = flight[s].user
                                                 THEN flight[s].kind ELSE subs[u]]
                     ELSE subs
          /\ Handled(s)
          /\ UNCHANGED <<poolVars, screen, listed, current, botPending, botAccepted, generating>>

-----------------------------------------------------------------------------
(***************************************************************************)
(* Keys, tuiModel.handleKey and what it calls.                             *)
(***************************************************************************)
Launch ==
  /\ screen = "quit"
  /\ screen' = "prompts"
  /\ Send(LoadPrompts)
  /\ UNCHANGED <<poolVars, listed, current, subs, botPending, botAccepted, generating>>

KeyQuit == screen # "quit" /\ Quit

KeyRefresh ==
  /\ screen = "prompts"
  /\ Send(LoadPrompts)
  /\ UNCHANGED <<poolVars, screenVars>>

\* enter on the prompt list.
KeyOpen(p) ==
  /\ screen = "prompts" /\ p \in listed
  /\ Send(LoadSubs(p))
  /\ UNCHANGED <<poolVars, screenVars>>

KeyEsc ==
  /\ screen = "review"
  /\ screen' = "prompts" /\ subs' = NoSubs
  /\ Send(LoadPrompts)
  /\ UNCHANGED <<poolVars, listed, current, botPending, botAccepted, generating>>

\* a and r, on a row that is shown as pending.
KeyDecide(decision, u) ==
  /\ screen = "review" /\ u \in DOMAIN subs /\ subs[u] = "pending"
  /\ Send(Decide(decision, u))
  /\ UNCHANGED <<poolVars, screenVars>>

\* g: a line is shown, or asked for, while enough rows are shown as approved.
KeyGenerate ==
  /\ screen = "review" /\ subs # NoSubs
  /\ Cardinality(Approved) >= NumDecoys /\ ~generating
  /\ botPending' = NoLine /\ botAccepted' = FALSE /\ generating' = TRUE
  /\ Send(GenerateBot)
  /\ UNCHANGED <<poolVars, screen, listed, current, subs>>

KeyAccept ==
  /\ screen = "review" /\ subs # NoSubs
  /\ botPending # NoLine /\ ~botAccepted
  /\ Send(AcceptBot)
  /\ UNCHANGED <<poolVars, screenVars>>

\* m
KeyMake ==
  /\ screen = "review" /\ subs # NoSubs
  /\ botAccepted /\ botPending.id # None
  /\ \E us \in kSubset(NumDecoys, Approved) : Send(AssembleRound({<<u, current>> : u \in us}))
  /\ UNCHANGED <<poolVars, screenVars>>

-----------------------------------------------------------------------------
Init ==
  /\ PoolInit
  /\ screen = "quit" /\ listed = {} /\ current = None /\ subs = NoSubs
  /\ botPending = NoLine /\ botAccepted = FALSE /\ generating = FALSE
  /\ flight = [s \in Slots |-> Idle]

Run(s) == \/ RunLoadPrompts(s) \/ RunLoadSubs(s)
          \/ RunDecide(s) \/ RunDecision(s)
          \/ RunGenerate(s) \/ RunAccept(s)
          \/ FindOpenRound(s) \/ InsertPuzzleRound(s) \/ ComposeExplicit(s) \/ ReplaceRoundAnswers(s)

Update(s) == \/ LoadFailed(s) \/ PromptsLoaded(s) \/ SubsLoaded(s)
             \/ BotGenerated(s) \/ BotAccepted(s) \/ Assembled(s) \/ DecisionDone(s)

Key == \/ Launch \/ KeyQuit \/ KeyRefresh \/ KeyEsc
       \/ KeyGenerate \/ KeyAccept \/ KeyMake
       \/ \E p \in Prompts : KeyOpen(p)
       \/ \E d \in {"approved", "rejected"}, u \in Users : KeyDecide(d, u)

Next == \/ (Player \/ Admin) /\ UNCHANGED <<screenVars, flight>>
        \/ Key
        \/ \E s \in Slots : Run(s) \/ Update(s) \/ Fail(s)

Spec == Init /\ [][Next]_vars

\* A command's goroutine runs, its HTTP client gives up after a minute, and
\* the program handles the messages there are.
FairSpec == Spec /\ \A s \in Slots : WF_vars(Run(s)) /\ WF_vars(Update(s))

-----------------------------------------------------------------------------
(***************************************************************************)
(* Properties.                                                             *)
(***************************************************************************)
\* The types of the variables.
Command ==
  [kind : {"prompts", "subs", "approved", "rejected", "generate", "accept", "assemble"},
   at : {"sent", "locked", "found", "inserted", "composed", "done"},
   prompt : Prompts \cup {None}, user : Users \cup {None},
   line : [written : Prompts \cup {None}, id : Bots \cup {None}], decoys : SUBSET Rows,
   err : {"none", "already_decided", "refused", "failed"},
   got : SUBSET (Prompts \cup Bots \cup (Users \X {"pending", "approved", "rejected"})),
   index : Indices \cup {None}]

TypeOK ==
  /\ PoolTypeOK
  /\ screen \in {"prompts", "review", "quit"}
  /\ listed \subseteq Prompts
  /\ current \in Prompts \cup {None}
  /\ DOMAIN subs \subseteq Users
  /\ \A u \in DOMAIN subs : subs[u] \in {"pending", "approved", "rejected"}
  /\ botPending \in [written : Prompts \cup {None}, id : Bots \cup {None}]
  /\ botAccepted \in BOOLEAN /\ generating \in BOOLEAN
  /\ flight \in [Slots -> Command \cup {Idle}]

\* A row that the screen shows as decided was decided that way: whatever the
\* cursor and the prompt on the screen did while the decision was under way,
\* its message changes the row it is about (tui.go:811).
ShownDecisionsAreStored ==
  \A u \in DOMAIN subs :
    subs[u] # "pending" => PrelaunchStatus(<<u, current>>) = subs[u]

\* A bot line is shown, and filed, under the prompt that the model was asked
\* to write it for, although lines arrive after the reviewer has moved on
\* (tui.go:712).
LinesFitTheirPrompt ==
  /\ botPending.written # None => botPending.written = current
  /\ \A b \in Bots : bot[b].prompt = bot[b].written

\* The terminal puts a prompt into one round (tui.go:20, "locks the prompt").
MakesEachPromptOnce ==
  \A i, j \in Filled : round[i].prompt = round[j].prompt => i = j

\* The reviewer does not wait for a line for ever: g works again.
GeneratingEnds == generating ~> ~generating

=============================================================================
