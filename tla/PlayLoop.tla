------------------------------ MODULE PlayLoop ------------------------------
(***************************************************************************)
(* The server-authoritative play loop: the handlers of play_handlers.go    *)
(* over the rows kept by internal/db/play.go.  A handler is a sequence of  *)
(* database statements with no transaction around them, so each request    *)
(* is a process whose steps are those statements; what it has read so far  *)
(* is kept in req[q] and may be stale when it is used.                     *)
(*                                                                         *)
(* A request whose checks refuse it before its first write changes nothing *)
(* and is not modelled; a request refused later goes back to Idle.         *)
(***************************************************************************)
EXTENDS GameRules

CONSTANTS
  Slots,      \* client slots of a round
  Answers,    \* canonical answers of a round: one bot, the rest decoys
  Bot,        \* the bot's answer
  Perms,      \* slot permutations NewPermutation may return
  Reqs,       \* requests that can be in flight at once
  MaxFaults   \* bound on cancelled requests and failed statements

Decoys == Answers \ {Bot}

ASSUME BoardAssumption ==
  /\ Bot \in Answers
  /\ Perms \subseteq [Slots -> Answers]
  /\ Perms # {}
  /\ \A perm \in Perms : \A a \in Answers : \E s \in Slots : perm[s] = a
  /\ \A perm \in Perms : \A s, t \in Slots : perm[s] = perm[t] => s = t
  /\ IsFiniteSet(Users)
  /\ MaxFaults \in Nat

ASSUME NullDistinct == Null \notin Slots /\ Null \notin Decoys /\ Null \notin Perms

VARIABLES
  today,     \* number of the puzzle LatestPuzzle returns
  play,      \* play[p]: the plays row of (user, puzzle)
  round,     \* round[p][r]: the play_rounds row and its play_guesses row
  streak,    \* streak[u]: the streaks row
  stats,     \* stats[z][r][d]: counters of the decoy shown as d in round r of z
  tokens,    \* play tokens clients hold that have not expired
  req,       \* req[q]: what request q is doing and has read
  faults     \* cancelled requests and failed statements so far

vars == <<today, play, round, streak, stats, tokens, req, faults>>

-----------------------------------------------------------------------------
(***************************************************************************)
(* Rows.                                                                   *)
(***************************************************************************)
PlayRow == [status : {"absent", "open", "completed"}, score : (0..100) \cup {Null}]

NoPlay   == [status |-> "absent", score |-> Null]
OpenPlay == [status |-> "open", score |-> Null]

\* perm is Null while the round has not been opened; slot and outcome are the
\* play_guesses row, written in the transaction that sets committed_at, so
\* the row is committed exactly when outcome is set.
RoundRow ==
  [perm    : Perms \cup {Null},
   hint    : BOOLEAN,
   removed : Slots \cup {Null},
   slot    : Slots \cup {Null},
   outcome : Outcomes \cup {Null},
   vote    : Decoys \cup {Null}]

NoRow == [perm |-> Null, hint |-> FALSE, removed |-> Null,
          slot |-> Null, outcome |-> Null, vote |-> Null]

Counters == [impressions : Nat, picked : Nat, realestImpressions : Nat, realestVotes : Nat]

Zero == [impressions |-> 0, picked |-> 0, realestImpressions |-> 0, realestVotes |-> 0]

\* A token is bound to the play, the round and the hash of its permutation.
Token == [play : Plays, r : Rounds, perm : Perms]

Opened(p)    == {r \in Rounds : round[p][r].perm # Null}
Outs(p)      == [r \in Rounds |-> round[p][r].outcome]
Completed(p) == play[p].status = "completed"

(***************************************************************************)
(* A request between two of its statements: pc names the next one, the     *)
(* other fields are the locals that statement and the later ones use.      *)
(***************************************************************************)
Idle == [pc |-> "idle"]

LoadReq     == [pc : {"outcomes"}, play : Plays, page : BOOLEAN, completed : BOOLEAN]
OpenReq     == [pc : {"open"}, play : Plays, r : Rounds]
HintReq     == [pc : {"markHint"}, play : Plays, r : Rounds]
GuessReq    == [pc : {"priorRounds", "commit"}, play : Plays, r : Rounds, slot : Slots,
                hint : BOOLEAN, removed : Slots \cup {Null}]
RecountReq  == [pc : {"recount"}, play : Plays]
CompleteReq == [pc : {"complete"}, play : Plays, outs : OutcomeTable]
VoteReq     == [pc : {"vote"}, play : Plays, r : Rounds, decoy : Decoys]

Request == {Idle} \cup LoadReq \cup OpenReq \cup HintReq \cup GuessReq
             \cup RecountReq \cup CompleteReq \cup VoteReq

TypeOK ==
  /\ today \in Puzzles
  /\ play \in [Plays -> PlayRow]
  /\ round \in [Plays -> [Rounds -> RoundRow]]
  /\ streak \in [Users -> StreakRow]
  /\ stats \in [Puzzles -> [Rounds -> [Decoys -> Counters]]]
  /\ tokens \subseteq Token
  /\ req \in [Reqs -> Request]
  /\ faults \in 0..MaxFaults

Init ==
  /\ today = 1
  /\ play = [p \in Plays |-> NoPlay]
  /\ round = [p \in Plays |-> [r \in Rounds |-> NoRow]]
  /\ streak = [u \in Users |-> NoStreak]
  /\ stats = [z \in Puzzles |-> [r \in Rounds |-> [d \in Decoys |-> Zero]]]
  /\ tokens = {}
  /\ req = [q \in Reqs |-> Idle]
  /\ faults = 0

Return(q) == req' = [req EXCEPT ![q] = Idle]

\* The request context is cancelled, or a statement fails: both are bounded.
Fault == faults < MaxFaults /\ faults' = faults + 1

(***************************************************************************)
(* The conditions under which the statements write.                        *)
(***************************************************************************)

\* Mutant of each of them: the WHERE clause, or the check, is missing.
Unconditional(x) == TRUE

HintOpen(row)  == row.outcome = Null /\ ~row.hint
GuessOpen(row) == row.outcome = Null
VoteOpen(row)  == row.vote = Null
Revealed(row)  == row.outcome # Null
PlayOpen(p)    == ~Completed(p)

\* Mutant of StoredPerm: the upsert overwrites the permutation.
FreshPerm(row, fresh) == fresh

\* The permutation laid down first is kept.
StoredPerm(row, fresh) == IF row.perm = Null THEN fresh ELSE row.perm

-----------------------------------------------------------------------------
(***************************************************************************)
(* Loading the page (composePlayState) and POST /api/play/start.  The page *)
(* trusts completed_at as CreateOrGetPlay returned it; start looks at the  *)
(* outcomes only, and takes a failed LastOutcomes for "none yet".          *)
(***************************************************************************)
CreateOrGetPlay(q, u, page) ==
  LET p == <<u, today>>
  IN  /\ req[q] = Idle
      /\ play' = [play EXCEPT ![p] = IF @.status = "absent" THEN OpenPlay ELSE @]
      /\ req' = [req EXCEPT ![q] = [pc |-> "outcomes", play |-> p, page |-> page,
                                    completed |-> Completed(p)]]
      /\ UNCHANGED <<today, round, streak, stats, tokens, faults>>

\* Mutant of LoadWith: a fully answered play is not recognised.
LoadPastEnd(q, outs) ==
  req' = [req EXCEPT ![q] = [pc |-> "open", play |-> req[q].play,
                             r |-> Cardinality(Answered(outs))]]

\* Mutant of LoadWith: the next round is counted from the rounds opened.
LoadByOpened(q, outs) ==
  LET n == Cardinality(Opened(req[q].play))
  IN  req' = [req EXCEPT ![q] = IF n >= NRounds THEN Idle
                                ELSE [pc |-> "open", play |-> req[q].play, r |-> n]]

LoadWith(q, outs) ==
  LET n == Cardinality(Answered(outs))
      nothingToOpen == (req[q].page /\ req[q].completed) \/ n >= NRounds
  IN  req' = [req EXCEPT ![q] = IF nothingToOpen THEN Idle
                                ELSE [pc |-> "open", play |-> req[q].play, r |-> n]]

LoadOutcomes(q) ==
  /\ req[q].pc = "outcomes"
  /\ \/ LoadWith(q, Outs(req[q].play)) /\ UNCHANGED faults
     \/ ~req[q].page /\ LoadWith(q, NoOutcomes) /\ Fault
  /\ UNCHANGED <<today, play, round, streak, stats, tokens>>

\* openClientRound, the last statement of a load and of a guess that is not
\* the last: the token is bound to the permutation that is stored.
UpsertPlayRound(q) ==
  /\ req[q].pc = "open"
  /\ \E fresh \in Perms :
       LET p      == req[q].play
           r      == req[q].r
           stored == StoredPerm(round[p][r], fresh)
       IN  /\ round' = [round EXCEPT ![p][r] = [@ EXCEPT !.perm = stored]]
           /\ tokens' = tokens \cup {[play |-> p, r |-> r, perm |-> stored]}
  /\ Return(q)
  /\ UNCHANGED <<today, play, streak, stats, faults>>

-----------------------------------------------------------------------------
(***************************************************************************)
(* loadVerified: a token that has not expired, presented by its owner for  *)
(* its round, with the permutation the round's row has.                    *)
(***************************************************************************)
Verified(t) ==
  /\ t \in tokens
  /\ round[t.play][t.r].perm = t.perm

\* POST /api/play/round/{n}/hint.
RequestHint(q, t) ==
  /\ req[q] = Idle
  /\ Verified(t)
  /\ HintOpen(round[t.play][t.r])
  /\ req' = [req EXCEPT ![q] = [pc |-> "markHint", play |-> t.play, r |-> t.r]]
  /\ UNCHANGED <<today, play, round, streak, stats, tokens, faults>>

\* The update applies only while the row is uncommitted and has no hint; the
\* answer carries a fresh token.
MarkHint(q) ==
  /\ req[q].pc = "markHint"
  /\ LET p   == req[q].play
         r   == req[q].r
         row == round[p][r]
     IN  \/ /\ HintOpen(row)
            /\ \E s \in Slots :
                 /\ row.perm[s] # Bot
                 /\ round' = [round EXCEPT ![p][r] = [@ EXCEPT !.hint = TRUE, !.removed = s]]
            /\ tokens' = tokens \cup {[play |-> p, r |-> r, perm |-> row.perm]}
         \/ /\ ~HintOpen(row)
            /\ UNCHANGED <<round, tokens>>
  /\ Return(q)
  /\ UNCHANGED <<today, play, streak, stats, faults>>

-----------------------------------------------------------------------------
(***************************************************************************)
(* POST /api/play/round/{n}/guess.  hint_used and removed_slot are those   *)
(* of the row as loadVerified read it.                                     *)
(***************************************************************************)
RequestGuess(q, t, s) ==
  LET row == round[t.play][t.r]
  IN  /\ req[q] = Idle
      /\ Verified(t)
      /\ GuessOpen(row)
      /\ req' = [req EXCEPT ![q] = [pc |-> "priorRounds", play |-> t.play, r |-> t.r,
                                    slot |-> s, hint |-> row.hint, removed |-> row.removed]]
      /\ UNCHANGED <<today, play, round, streak, stats, tokens, faults>>

\* Mutant of PriorRoundsAllCommitted: the round itself is held against the guess.
ThisRoundToo(p, n) ==
  \A r \in Opened(p) : r <= n => round[p][r].outcome # Null

PriorRoundsAllCommitted(p, n) ==
  \A r \in Opened(p) : r < n => round[p][r].outcome # Null

CheckGuess(q) ==
  LET g == req[q]
  IN  /\ g.pc = "priorRounds"
      /\ req' = [req EXCEPT ![q] =
           IF PriorRoundsAllCommitted(g.play, g.r) /\ g.slot # g.removed
           THEN [g EXCEPT !.pc = "commit"] ELSE Idle]
      /\ UNCHANGED <<today, play, round, streak, stats, tokens, faults>>

CommitGuess(q) ==
  LET g   == req[q]
      row == round[g.play][g.r]
  IN  /\ g.pc = "commit"
      /\ \/ /\ GuessOpen(row)
            /\ round' = [round EXCEPT ![g.play][g.r] =
                 [@ EXCEPT !.slot = g.slot,
                           !.outcome = Resolve(row.perm[g.slot] = Bot, g.hint)]]
            /\ req' = [req EXCEPT ![q] = [pc |-> "recount", play |-> g.play]]
         \/ /\ ~GuessOpen(row)
            /\ Return(q)
            /\ UNCHANGED round
      /\ UNCHANGED <<today, play, streak, stats, tokens, faults>>

\* Mutants of RecountWith: the last round but one is taken for the last, and
\* only the rounds that were caught are counted.
RecountEarly(q, outs) ==
  LET n == Cardinality(Answered(outs))
  IN  req' = [req EXCEPT ![q] =
        IF n >= NRounds - 1 THEN [pc |-> "complete", play |-> req[q].play, outs |-> outs]
        ELSE [pc |-> "open", play |-> req[q].play, r |-> n]]

RecountCaught(q, outs) ==
  LET n == Cardinality(Caught(outs))
  IN  req' = [req EXCEPT ![q] =
        IF n >= NRounds THEN [pc |-> "complete", play |-> req[q].play, outs |-> outs]
        ELSE [pc |-> "open", play |-> req[q].play, r |-> n]]

\* After the commit the handler counts the outcomes again to learn whether
\* this was the last round; a failure to read them counts as none.
RecountWith(q, outs) ==
  LET n == Cardinality(Answered(outs))
  IN  req' = [req EXCEPT ![q] =
        IF n >= NRounds THEN [pc |-> "complete", play |-> req[q].play, outs |-> outs]
        ELSE [pc |-> "open", play |-> req[q].play, r |-> n]]

RecountOutcomes(q) ==
  /\ req[q].pc = "recount"
  /\ \/ RecountWith(q, Outs(req[q].play)) /\ UNCHANGED faults
     \/ RecountWith(q, NoOutcomes) /\ Fault
  /\ UNCHANGED <<today, play, round, streak, stats, tokens>>

\* What CompletePlay adds to the counters c of decoy d of a guessed round:
\* an impression, and an accusation when d was taken for the bot.
Accuse(c, row, d) ==
  IF row.outcome = Null THEN c
  ELSE [c EXCEPT !.impressions = @ + 1,
                 !.picked = IF row.perm[row.slot] = d THEN @ + 1 ELSE @]

CountAccusations(p) ==
  [stats EXCEPT ![p[2]] = [r \in Rounds |-> [d \in Decoys |->
     Accuse(stats[p[2]][r][d], round[p][r], d)]]]

\* One transaction; a failure is logged and the player still told the play
\* is complete.
CompletePlay(q) ==
  LET p == req[q].play
  IN  /\ req[q].pc = "complete"
      /\ \/ /\ PlayOpen(p)
            /\ play' = [play EXCEPT ![p] = [status |-> "completed",
                                            score |-> ScorePct(req[q].outs)]]
            /\ streak' = [streak EXCEPT ![p[1]] = Advance(@, p[2])]
            /\ stats' = CountAccusations(p)
            /\ UNCHANGED faults
         \/ ~PlayOpen(p) /\ UNCHANGED <<play, streak, stats, faults>>
         \/ Fault /\ UNCHANGED <<play, streak, stats>>
      /\ Return(q)
      /\ UNCHANGED <<today, round, tokens>>

-----------------------------------------------------------------------------
(***************************************************************************)
(* POST /api/play/round/{n}/realest: the vote for the most human answer.   *)
(***************************************************************************)
RequestVote(q, t, s) ==
  /\ req[q] = Idle
  /\ Verified(t)
  /\ Revealed(round[t.play][t.r])
  /\ t.perm[s] # Bot
  /\ req' = [req EXCEPT ![q] = [pc |-> "vote", play |-> t.play, r |-> t.r,
                                decoy |-> t.perm[s]]]
  /\ UNCHANGED <<today, play, round, streak, stats, tokens, faults>>

\* Every decoy of the round was in the running; one of them got the vote.
Elect(c, chosen) ==
  [c EXCEPT !.realestImpressions = @ + 1,
            !.realestVotes = IF chosen THEN @ + 1 ELSE @]

CountVote(z, r, chosen) ==
  [stats EXCEPT ![z][r] = [d \in Decoys |-> Elect(stats[z][r][d], d = chosen)]]

CastRealestVote(q) ==
  LET v == req[q]
  IN  /\ v.pc = "vote"
      /\ \/ /\ VoteOpen(round[v.play][v.r])
            /\ round' = [round EXCEPT ![v.play][v.r] = [@ EXCEPT !.vote = v.decoy]]
            /\ stats' = CountVote(v.play[2], v.r, v.decoy)
         \/ /\ ~VoteOpen(round[v.play][v.r])
            /\ UNCHANGED <<round, stats>>
      /\ Return(q)
      /\ UNCHANGED <<today, play, streak, tokens, faults>>

-----------------------------------------------------------------------------
\* The client goes away: the request's context is cancelled and every later
\* statement of the handler fails.
Cancel(q) ==
  /\ req[q] # Idle
  /\ Fault
  /\ Return(q)
  /\ UNCHANGED <<today, play, round, streak, stats, tokens>>

\* A token reaches TokenMaxAge, or the tab holding it is closed.
ExpireToken(t) ==
  /\ t \in tokens
  /\ tokens' = tokens \ {t}
  /\ UNCHANGED <<today, play, round, streak, stats, req, faults>>

\* Midnight UTC: the next puzzle becomes the latest.  Plays of the old one
\* go on with the tokens their clients hold.
Midnight ==
  /\ today < LastPuzzle
  /\ today' = today + 1
  /\ UNCHANGED <<play, round, streak, stats, tokens, req, faults>>

Begin(q) ==
  \/ \E u \in Users, page \in BOOLEAN : CreateOrGetPlay(q, u, page)
  \/ \E t \in tokens : RequestHint(q, t)
  \/ \E t \in tokens, s \in Slots : RequestGuess(q, t, s)
  \/ \E t \in tokens, s \in Slots : RequestVote(q, t, s)

\* The handler's next statement.
Continue(q) ==
  \/ LoadOutcomes(q)
  \/ UpsertPlayRound(q)
  \/ MarkHint(q)
  \/ CheckGuess(q)
  \/ CommitGuess(q)
  \/ RecountOutcomes(q)
  \/ CompletePlay(q)
  \/ CastRealestVote(q)

Next ==
  \/ \E q \in Reqs : Begin(q) \/ Continue(q) \/ Cancel(q)
  \/ \E t \in tokens : ExpireToken(t)
  \/ Midnight

Spec == Init /\ [][Next]_vars

\* A handler that is running keeps running: the server imposes no timeout on
\* one and its statements return.
FairSpec == Spec /\ \A q \in Reqs : WF_vars(Continue(q))

\* A player who does not give up: again and again able to, user u sooner or
\* later reloads the page, and taps an answer the hint has not removed.
Reload(u) == \E q \in Reqs : CreateOrGetPlay(q, u, TRUE)

Tap(u) ==
  \E q \in Reqs : \E t \in tokens, s \in Slots :
    /\ t.play[1] = u
    /\ s # round[t.play][t.r].removed
    /\ RequestGuess(q, t, s)

PersistentSpec ==
  FairSpec /\ \A u \in Users : SF_vars(Reload(u)) /\ SF_vars(Tap(u))

-----------------------------------------------------------------------------
(***************************************************************************)
(* Properties.                                                             *)
(***************************************************************************)

AllAnswered(p) == Answered(Outs(p)) = Rounds

\* Rounds are played in order whatever requests overlap: the answered rounds
\* are a prefix, and only the round after it can be open.  (The handlers
\* choose the round to open from a count of outcomes that may be stale.)
PlayedInOrder ==
  \A p \in Plays : \E n \in 0..NRounds :
    /\ Answered(Outs(p)) = 0..(n - 1)
    /\ Opened(p) \subseteq 0..n

\* A completed play has all its rounds answered and carries the score of
\* exactly those answers, although the outcomes were read in one statement
\* and written as a score in another.
ScoreIsOfTheAnswers ==
  \A p \in Plays : Completed(p) =>
    AllAnswered(p) /\ play[p].score = ScorePct(Outs(p))

\* The token a client holds matches the permutation stored for its round, so
\* loadVerified's perm_drift refusal ("should never happen") never does, even
\* when two loads race to open the round.
TokensMatchRows ==
  \A t \in tokens : round[t.play][t.r].perm = t.perm

\* A vote is cast on a round whose answer was revealed before, for a decoy.
VoteAfterReveal ==
  \A p \in Plays, r \in Rounds :
    round[p][r].vote # Null => round[p][r].outcome # Null

\* The streak never promises more than was played: the `current` puzzles up
\* to the one finished last are all completed, and the longest run is a run
\* of completed puzzles, in whatever order plays were finished.
StreakIsEarned ==
  \A u \in Users :
    /\ \A k \in 0..(streak[u].current - 1) :
         streak[u].last - k \in Puzzles /\ Completed(<<u, streak[u].last - k>>)
    /\ \E e \in {0} \cup Puzzles : \A k \in 0..(streak[u].longest - 1) :
         e - k \in Puzzles /\ Completed(<<u, e - k>>)

\* Every completed play, and every vote, is counted once for each decoy it
\* concerns: retries and overlapping requests neither lose nor repeat one.
EachPlayCountedOnce ==
  \A z \in Puzzles, r \in Rounds, d \in Decoys :
    LET players == {u \in Users : Completed(<<u, z>>)}
        voters  == {u \in Users : round[<<u, z>>][r].vote # Null}
    IN  stats[z][r][d] =
          [impressions        |-> Cardinality(players),
           picked             |-> Cardinality({u \in players :
                                    round[<<u, z>>][r].perm[round[<<u, z>>][r].slot] = d}),
           realestImpressions |-> Cardinality(voters),
           realestVotes       |-> Cardinality({u \in voters : round[<<u, z>>][r].vote = d})]

\* What a request relies on after reading it cannot have become false by the
\* time it is used, although nothing is locked: the rounds before the one it
\* opens are answered, the round it hints, guesses or votes on is open, and
\* the outcomes it is about to turn into a score are the stored ones.
StillTrue(x) ==
  /\ x.pc = "open" => 0..(x.r - 1) \subseteq Answered(Outs(x.play))
  /\ x.pc \in {"markHint", "priorRounds", "commit", "vote"} =>
       round[x.play][x.r].perm # Null
  /\ x.pc = "vote" => round[x.play][x.r].outcome # Null
  /\ x.pc = "complete" => AllAnswered(x.play) /\ x.outs = Outs(x.play)

LocalsStayTrue == \A q \in Reqs : StillTrue(req[q])

\* What has been laid down stays: a permutation, a hint, a guess and a vote
\* are never changed once stored, a guessed round gets no hint any more, and
\* a completed play keeps its score.
Kept(old, new) == old # Null => new = old

NothingRewritten ==
  [][\A p \in Plays :
       /\ \A r \in Rounds :
            LET old == round[p][r]
                new == round'[p][r]
            IN  /\ Kept(old.perm, new.perm)
                /\ Kept(old.removed, new.removed)
                /\ Kept(old.slot, new.slot) /\ Kept(old.outcome, new.outcome)
                /\ Kept(old.vote, new.vote)
                /\ old.outcome # Null => new.hint = old.hint
       /\ Completed(p) => play'[p] = play[p]]_<<play, round>>

\* The outcome of a round agrees with the guess, the permutation and the hint
\* that are stored with it, whatever requests laid them down: red is a miss of
\* the bot, and only a round with a hint is yellow.
LabelsFitTheRow ==
  \A p \in Plays, r \in Rounds :
    LET row == round[p][r]
    IN  row.outcome # Null =>
          /\ row.outcome = "red" <=> row.perm[row.slot] # Bot
          /\ row.outcome = "yellow" => row.hint

\* "nailed it: found target, first guess, no hint" (score.go, of green).
GreenIsWithoutHint ==
  \A p \in Plays, r \in Rounds : round[p][r].outcome = "green" => ~round[p][r].hint

\* A play whose last round is answered is completed.
AnsweredIsCompleted == \A p \in Plays : AllAnswered(p) ~> Completed(p)

\* A player who keeps at today's puzzle finishes it, however many tokens
\* expire and whatever else is in flight.
PlayerFinishes == \A u \in Users : today = LastPuzzle ~> Completed(<<u, LastPuzzle>>)

-----------------------------------------------------------------------------
(***************************************************************************)
(* PlayLoop implements DailyPlay.                                          *)
(***************************************************************************)
Game == INSTANCE DailyPlay WITH
          outs   <- [p \in Plays |-> Outs(p)],
          score  <- [p \in Plays |-> play[p].score]

ImplementsDailyPlay == Game!Spec
=============================================================================
