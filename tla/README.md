# Bot-Bot-Goose, specified

TLA+ models of the server behind the daily game in this repository, TLC
configurations that check them on small instances, and TLAPS proofs of the main
results for every instance. Everything here is translated from the Go source,
the SQL in it and the migrations; paths are relative to the repository root.

## 1. The system and its parts

The game: once a day there is a puzzle of three rounds; a round shows a prompt
and four answers, one written by a bot and three by players ("decoys"). The
player accuses one answer per round, may ask for a hint that removes a decoy,
and after the reveal may vote for the most human decoy. A finished puzzle has a
score and extends a streak. The server is stateless Go handlers over Postgres,
with an optional Valkey for caches and rate limits; nightly jobs build puzzles
and roll up statistics.

| part | code | state | operations | hard because |
|---|---|---|---|---|
| play loop handlers | `internal/httpx/play_handlers.go` | none of its own; locals between statements | load page, start, hint, guess, realest vote | a handler is a sequence of statements without a transaction; tabs, retries and cancelled requests interleave |
| play persistence | `internal/db/play.go`, `db/migrations` | `plays`, `play_rounds`, `play_guesses`, `decoy_daily_stats` | CreateOrGetPlay, UpsertPlayRound, MarkHint, CommitGuess, CompletePlay | conditional updates must make every retry harmless |
| tokens and permutations | `internal/play` | tokens held by clients | issue, verify | a token outlives the read it came from by half an hour |
| game rules | `internal/game` | none | Resolve, ScorePct | |
| realest vote | `internal/db/leaderboard.go:429` | `realest_decoy_id`, vote counters | CastRealestVote | once per round, only after the reveal |
| streaks | `internal/db/play.go:279`, cache in `play_handlers.go:34` | `streaks`, a 60 s cache | advance, read, merge | plays finish out of order around midnight; merged accounts; stale cache |
| rounds cache | `internal/puzzle/cache.go` | `rounds:<puzzle>` in Valkey, 1 h | read through, invalidate | edits that do not invalidate, racing fills |
| puzzle composition | `internal/puzzle/build.go`, `internal/db/puzzle.go`, `cmd/puzzle-build`, `cmd/admin` | `daily_puzzles`, `puzzle_rounds`, `puzzle_round_answers` | build, schedule, import, edit, replace, delete | several statements per puzzle, two operators, "no plays yet" checked before the edit |
| sessions | `internal/users` | `device_cookies`, `u:<hash>` in Valkey, 5 min | resolve or mint, logout, logout-all | the cached user outlives the row |
| sign-in and merge | `internal/auth`, `internal/db/auth.go`, `internal/httpx/auth_handlers.go` | `magic_links`, `users` | request, consume, promote, merge | one-time links, two devices at once, a merge over nine tables |
| cache and breaker | `internal/cache` | breaker: failures, opened at | Get, Set, Del, Eval | invalidations lost while the breaker is open |
| rate limiter | `internal/ratelimit` | `rate_limit_buckets`, a hash per key in Valkey | Allow in either store | two stores that do not know each other, debt, expiry |
| collective stat | `internal/collective`, `internal/db/collective.go` | `daily_collective_stats`, a 10 min cache | nightly rollup, read | reruns, late plays |
| leaderboard and tiers | `internal/leaderboard`, `internal/db/leaderboard.go` | `forger_rankings` | rollup, read | thresholds, recomputation from counters |
| decoy submission and moderation | `play_handlers.go:797`, `internal/db/decoys.go`, `internal/db/bots.go` | `decoy_submissions`, `moderation_reviews` | submit, review, retire | check before insert |
| prelaunch campaign | `internal/httpx/prelaunch_handlers.go`, `internal/db/prelaunch*.go` | prelaunch tables | submit, review, promote | promotion over several tables |
| share pages | `internal/httpx/*_share.go`, `internal/share` | `plays.og_png` | render, serve | baked with a possibly stale streak |
| admin terminal | `cmd/admin/tui.go` | what is on the screen, commands in flight | open, decide, generate, accept, assemble | commands run concurrently and their messages come in any order |
| bot candidates, profile, email, metrics, web client | see `PROJECT.json` | | | text generation, rendering and output |

How they interact: every request passes the session middleware (cache, then
Postgres), a play request reads the rounds bundle through the cache and then
runs its statements; a completed play drops the streak cache and starts a
detached rendering of its share image; a sign-in moves the plays and streak of
the device's user to the account; `puzzle-build` and the admin tools write the
puzzles that play requests read; the rollups read completed plays and counters.

What makes each part correct is listed under its hazards in `PROJECT.json`, at
the line where each can bite, with the properties that cover it.

## 2. What is modelled

| module | what it is |
|---|---|
| `GameRules` | constants, outcomes, `Resolve`, `ScorePct`, the streak step: shared by `DailyPlay`, `PlayLoop` and `Accounts` |
| `DailyPlay` | the abstract game: answer rounds in order, finish once, with the score, and advance the streak |
| `PlayLoop` | the detailed one: the handlers, one action per database statement, over the rows of the schema |
| `PlayLoopProofs` | theorems of the rules and of the loop's invariants |
| `PlayLoopResults` | theorems that follow from them: streaks, counters, labels, the refinement of `DailyPlay` |
| `TokenBucket` | one key of the rate limiter: the bucket in Postgres, the bucket in Valkey, and calls that try one and fall back to the other |
| `TokenBucketProofs` | theorems |
| `Puzzles` | how a puzzle comes into being: the commands that compose, edit, import and delete, statement by statement, two at once, and the cached rounds that page loads read |
| `PuzzlesProofs`, `PuzzlesRounds` | theorems |
| `Accounts` | cookies, the session cache, links, sign-in, merge, logout, handles |
| `AccountsProofs` | theorems |
| `Pool` | what puzzles are made of: submissions, the campaign, reviews and bulk reviews, prompts that come and go |
| `Moderation` | what the pool promises: how a prompt, a line, a campaign row and a round may change, each in one step, with no shell, lock, list or terminal; implemented by `Pool` and by `Terminal` |
| `PoolProofs` | theorems, the refinement of `Moderation` among them |
| `Terminal` | `Pool` with the review terminal: commands in flight, messages in any order, quitting |
| `TerminalProofs` | theorems |
| `MCPlayLoop`, `MCTokenBucket`, `MCPuzzles`, `MCAccounts`, `MCPool`, `MCTerminal` | instances for TLC |

### The play loop (`PlayLoop`)

**State.** `play`, `round`, `streak`, `stats` are the tables `plays`,
`play_rounds` with `play_guesses`, `streaks` and `decoy_daily_stats`. `tokens`
are the tokens clients hold, `today` the number `LatestPuzzle` returns. `req[q]`
is a request in flight: `pc` names its next statement, the other fields the
locals that statement uses, with the values they had when they were read.

**Actions.** A request starts with the read that decides whether it goes on
(`CreateOrGetPlay` for a page load or `play/start`; `RequestHint`,
`RequestGuess`, `RequestVote` for `loadVerified` and the checks on the row it
returned) and continues with one action per later statement. `CommitGuess`,
`CompletePlay` and `CastRealestVote` are single actions because the code runs
each in one transaction whose first statement is the conditional update that
the others depend on. Requests that are refused before they write change nothing
and are left out. `Cancel` ends a request anywhere (the client went away, the
context is cancelled, a statement failed); a failed `LastOutcomes`, which two
handlers ignore, and a failed `CompletePlay`, which is only logged, are
disjuncts of their actions. `ExpireToken` is the age limit, `Midnight` the
change of puzzle.

**Abstractions.** Ids are the (user, puzzle) pairs and round numbers they stand
for. A permutation is a function from client slots to answers, and the hash a
token carries is the permutation itself. The counters of a decoy are kept per
round in which it appears, and not per date; that one decoy can get into two
rounds of a puzzle is shown by `terminal_twice`. The answers of a puzzle are
constants here: what may change them, and when, is the subject of `Puzzles`.
Response texts, timing statistics and the share image are left out.

### The rate limiter (`TokenBucket`)

`row` is the row of `rate_limit_buckets`, `hash` the
Valkey hash with its expiry, `call[c]` a call of `Allow` between its steps,
with the time it carries: the server's clock for the script, the start of the
statement for the upsert. `Ask`, `RunScript`, `SkipScript` and `RunUpsert` are
the steps of `Valkey.Allow` and of the `Postgres.Allow` it falls back to.
`RunScript` may lose its answer, upon which go-redis sends the script again (its
default; `cache.go:51-55` does not change it) or `Allow` falls back; `FailOpen`
is the handlers' answer to an error of both. The clock that a script or an
upsert carries may be up to `ScriptDelay` or `UpsertDelay` old when it reaches
the store, so that calls of several servers overtake each other. Records for the
properties are `granted[s]`, the times at which store s let a call through;
`setBack`, the ticks by which scripts that were overtaken have set the hash's
clock back; and `paced`, the grants of Valkey on a clock that those ticks are
added to. Levels are integers: one token is
`Hour` units, of which `PerHour` flow in per tick, so that `Full` units fill
the bucket. Numeric rounding in SQL and Lua is left out, as is the breaker,
whose refusal is `SkipScript`. Two keys share no state, so one is modelled.

### Puzzles (`Puzzles`)

**State.** `puzzle` and `round` are `daily_puzzles`, `puzzle_rounds` and
`puzzle_round_answers`; `plays` counts the plays that refer to a puzzle; `cache`
holds the bundles under `rounds:<id>`; `op[o]` is a command between two
statements, `reader[q]` a page load. `marks` and the `alone` and `late` fields
are records for the properties: what has been done to a puzzle by hand, and
whether commands overlapped.

**Actions.** No command has a transaction around it. The first action of a
command is named after it (`PuzzleCompose`, `RunImport`, `AssembleRound`, ...)
and contains its checks up to the first write; the actions after it are the
functions of `db/puzzle.go`: `ReadNumber`, `InsertDailyPuzzle`,
`InsertPuzzleRound`, `ReplaceRoundAnswers`, and so on. `set-answer` checks its
line against the prompt it read, counts the plays (`CheckPlays`), looks for the
slot (`LocateAnswer`) and writes, so that a play can begin, and a composition
change the prompt, in between. `Die` ends a command
between two of them. A page load creates its play, reads the bundle (from the
cache or from Postgres) and stores it, in three steps.

**Abstractions.** A line is a model value with the prompt it was written for; a
rewritten round gets a new `edition`, which stands for its new ids and so its
new canonical order. Dates are days from today on; puzzle-build is run for
tomorrow, as its cron does. The picks are random in the code
and a free choice here; texts are left out.

### Accounts (`Accounts`)

**State.** `user`, `owner` (`device_cookies`), `link`, `play` and `streak` are
tables, `cache` the session cache by cookie hash, `jar` the browsers' cookies.
Cookie n is the one minted with user n. A request in flight holds, besides its
locals, the id of the play it guesses on (`play`, which it completes for whoever
owns it by then) and what its merge has moved so far (`moved`: cookies, dropped
plays, plays, streak). `stale` and a request's `alone` are records for the
properties.

**Actions.** Every request begins with the middleware (`Resolve`,
`UserByCookieHash`, `StoreUserInCache`, `Mint`), continues with the statements
of its handler and ends with `Respond`, when its `Set-Cookie` reaches the
browser. The merge is one transaction in three actions, because row locks let
some statements of other requests come between its moves and its last DELETE
(which cascades) and make others wait; it may also be refused, by a target that
is gone, by a puzzle the target has opened meanwhile, or by a foreign key of a
row that is not in the model. `Cancel`, a lost `Del` of the cache and the failed
DELETE of a logout, which is only logged, are the faults.

**Abstractions.** Tokens, hashes and CSRF are assumed sound. The model has
no clock: any request may find its entry of the session cache expired, and an
entry that nothing evicts may stay. What `stale` names is out of date for at most
the five minutes of the entry. `MergedStreak` follows the column-wise
maxima of the code (`auth.go:141`); that they can combine the run of one user
with the last puzzle of the other is noted as a hazard and no property of this
module states otherwise.

### The pool and the terminal (`Pool`, `Terminal`)

**State.** `prompt`, `status` and `bot` are `prompts`, the status of lines of
players (`decoy_submissions`) and of bots (`bot_candidates`); `pre` and
`reviews` are `pre_launch_submissions` and `moderation_reviews`; `lock` is the
row lock of a campaign decision; `round` the rounds that take prompts; `req` a
submission and `op[c]` a command of `bbg-admin`. The unique indexes allow a user
one line and one campaign row per prompt, so that the pair names both.
`cleared`, the lines that a reviewer has approved at some time, is a record for
`Moderation`, which states with it what a round may be filled with. In `Terminal`, `screen`, `listed`, `current`, `subs`,
`botPending`, `botAccepted` and `generating` are the fields of `tuiModel`, and
`flight[s]` is a `tea.Cmd` between its start and the handling of its message.

**Actions.** A statement is an action; a decision on a campaign row is two, the
locking read and the writes. A bulk command works through the list it read at
its start. Shells can be interrupted anywhere. In `Terminal` a key sends a
command, the command runs its statements one after another, and `Update`
handles messages in any order; `Fail` is a failed statement or model call,
`Quit` rolls back what was in flight. A submission names any prompt, as the
handler takes any (`play_handlers.go:807`). Its insert may be refused by the
unique index or the prompt's key, fail for any other reason (the player's row
may have gone with a merge) or lose its answer after the row is in, and the
handler's second look may fail, too.

**Abstractions.** Texts, notes, cursors, sort orders, session counters and the
screens that list puzzles are left out: they change no row. The rounds are
numbered through, since the terminal fills open puzzles one after another.

**Left out.** Two writers of these rows. `bbg-admin import` inserts bot lines and
decoys of no user as approved ones and puts them into rounds without a review
(`cmd/admin/import.go:21-22`, `222`, `234`), so no property here says that every
line of every round has had a reviewer; what `import` does to puzzles is in
`Puzzles`. A merge moves the lines of one user to another or deletes duplicates
(`internal/db/auth.go:119-134`).

## 3. The runs

A *pair* is a board of the bot and one decoy.

| run | instance | shows |
|---|---|---|
| `order` | 1 user, 1 puzzle, 2 rounds of a pair with two permutations, 2 requests, 1 fault | rounds are answered in order although the round to open is chosen from stale counts; the score is that of the stored answers; what a handler read stays true; a token carries the stored permutation; no vote before the reveal; an outcome agrees with the guess, the permutation and the hint it is stored with; a play that two requests both find finished is counted once, and a vote likewise; nothing stored is rewritten; the loop implements `DailyPlay` |
| `finish` | 2 puzzles of 1 round, 2 requests, no faults, a persistent player | an answered play is completed; the player finishes although tokens expire, midnight passes and other requests come between; streaks are backed by completed plays whatever order they finish in |
| `labels` | 1 round of a pair, 2 requests, no faults | **violated**: a hint stored between a guess's read and its commit leaves green on a hinted round |
| `stuck` | 1 round, 1 request, 1 fault | **violated**: one cancelled request after the last commit leaves the play uncompleted for ever |
| `bucket_limits` | 2 tokens, 2 per hour of 2 ticks, 2 calls at a time, scripts and upserts delayed by up to a tick, 4 ticks, 6 calls and resent scripts | each bucket limits every window: in Postgres up to the delay and in whatever order statements come; in Valkey, although debts expire, scripts run twice and answers are lost, but for the inflow of the ticks by which overtaken scripts set the clock back |
| `puzzles_compose` | 2 puzzles of 2 rounds, a puzzle of the last day already built, 2 commands (one any verb, one a compose), 1 page load at a time, 1 play | the cached bundle is current although no editor invalidates it; answers fit their prompt; rounds are in position; one bot per round; a played puzzle stays what it was; a command alone takes nothing over |
| `puzzles_served` | 2 days, 3 commands one after another | **violated**: of two puzzles made out of order, tomorrow's is never served |
| `accounts_identity` | 1 mailbox, 2 browsers, 2 users, 2 links, 3 requests, 2 at a time, 1 fault, an account that may have played before | the session cache is current but for the named cases; a finished puzzle stays finished for whoever the cookie resolves to, but for the two losses of a merge that the property names; a sign-in ends at the mailbox's account; foreign keys hold |
| `accounts_signed_in` | 1 request at a time, no faults | **violated**: a link opened in a new browser leaves the minted user cached |
| `pool_review` | 2 users, 1 prompt, 1 bot line, 2 shells, 2 submissions, 4 bulk commands with a limit of 1 | a campaign row is decided once; of all who insert one line one is told that it did, and who is told that a line is there has one, although statements fail and answers are lost; a deleted prompt is unused; `Moderation` is implemented |
| `terminal_review` | 1 user, 2 prompts, 2 commands in flight, 1 round, a campaign row that arrives late | shown decisions were stored; a line is not shown or filed under another prompt; `g` works again in the end; `Moderation` is implemented by the terminal's statements too |
| `terminal_twice` | 2 rounds | **violated**: `m` pressed twice puts a prompt into two rounds |

**Why these bounds are enough to be interesting.** Two requests give every pair
of handlers, interleaved at every statement; each can be any of the five
kinds, so double submits, two tabs and a hint against a guess all occur. Two
rounds give "first", "next" and "last", two puzzles a streak that is extended,
broken or overtaken, two permutations are the fewest that can disagree. A hint
on a pair leaves only the bot, on three decoys it leaves three answers;
`PlayLoopProofs` shows for any board what `Resolve` makes of it. In the
limiter an hour of two ticks, with four to run, lets a hash expire twice or be
touched in between; six calls empty a bucket of two, drive it into debt and
refill it; a delay of one tick is the least by which one call overtakes another.
Capacity equals the hourly refill as in the code, where every caller passes one
number for both (`auth_handlers.go:22-26`, `play_handlers.go:788-794`,
`prelaunch_handlers.go:45-49`). Two commands in `puzzles_compose` can overlap in
every way, each ending anywhere; a third would only repeat what one of them
did. Two browsers with three requests can promote, merge and then do one thing
more. Two shells and a bulk limit of one make lists stale and limits reached.
Two commands of the terminal in flight on two prompts are the fewest for which
a message comes after the reviewer has moved on. What is proved (section 4) does
not depend on any bound.

**Deadlock** is not checked where `CHECK_DEADLOCK FALSE` says so: the bounds on
time, calls, runs, links and rounds end every behaviour.

What a bound does leave out is said here. `finish` has no faults, since with one
the property fails (`stuck`), and one round: two puzzles are needed for streaks and
midnight, and that the player gets from one round to the next in the end is not
checked, only (by `order`) that rounds open in order. `terminal_review` has one user, so that a prompt has
one campaign row and a late message cannot meet the cursor on another row of the
same prompt; it has no shell either, whose races with decisions are in
`pool_review`; the theorems about `Terminal` assume neither.

**Symmetry** is used on requests, calls, browsers, shells and the terminal's
slots, in runs without liveness only.

**Exceptions.** Some properties hold only outside of a window that the code leaves
open, and name the window: `marks` (what was done to a puzzle by hand or half way),
`late` and `alone` (what overlapped a command) in `Puzzles`; `stale` and `alone` in
`Accounts`. A property with such an exception says nothing of the case it
excepts; the case is described where the property is, among the hazards, and in
section 5.

**Fairness.** `FairSpec` of `PlayLoop` has weak fairness of each request's next
statement: the server puts no timeout on a handler (`server.go:124-127` sets
only connection timeouts) and a statement returns or fails. It says nothing of
clients: nobody has to send a request. `PersistentSpec` adds a player who, again
and again able to reload and to tap an answer that is still on the board, does
so in the end (strong fairness, since a token may expire between two attempts);
it is an assumption about the player, not the code, and it is used in one run.
`AnsweredIsCompleted` of that run gains nothing from it: every guess on an
answered play is refused, so that only the running handler completes it.
`FairSpec` of `Terminal` has weak fairness of each command's next statement,
which may be its failure (the model's HTTP client gives up after a minute,
`anthropic.go:48`), and of handling its message, which the program's loop does.

## 4. What is proved

For any numbers of users, puzzles, rounds, answers, slots, overlapping requests,
shells, commands and faults, from the assumptions named in `GameRules`,
`PlayLoop`, `TokenBucket`, `Puzzles`, `Accounts`, `Pool` and `Terminal` (a board
shows every answer in exactly one slot; users are finitely many; `Null` and
`None` are distinct from values, bot lines from campaign rows and shells from
the terminal's commands; the rounds of a puzzle there at the start are
composed; a request has one of the verbs that the routes have):

| theorem | says |
|---|---|
| `TypeCorrect` | the play loop's type invariant |
| `RoundsInOrder` | the answered rounds are a prefix and only the next one is open |
| `ReadsStayTrue` | what a request relies on is still true when it uses it |
| `ScoreIsRight` | a completed play carries the score of its answers |
| `NoPermDrift` | a token matches its row, so `perm_drift` is never answered to an honest client |
| `VotesFollowReveals` | no vote before the reveal |
| `NeverRewritten` | no step rewrites what is stored |
| `StreaksAreEarned` | streaks are backed by completed plays |
| `CountedExactlyOnce` | every finished play and every vote is in the counters of its decoys exactly once |
| `LabelsFit` | red is a guess that misses the bot under the stored permutation, and yellow is found only with a stored hint, whatever overlaps |
| `ImplementsTheGame` | `PlayLoop` implements `DailyPlay` (safety) |
| `UpsertIsLimited` | in any window the bucket in Postgres lets through no more than a full bucket and the inflow, for any delay of the calls |
| `ScriptIsLimited` | so does the bucket in Valkey, in whatever order calls come, but for the inflow of the ticks by which overtaken calls set its clock back, if capacity is at most the hourly refill |
| `BucketTypes` | the limiter's type invariant, with no bucket above its capacity |
| `PoolTypeCorrect` | the pool's type invariant |
| `EachRowReviewedOnce` | a campaign row is decided once, with one review on record |
| `SubmissionsAreAnswered` | a player who is told that a line is there has one; of all who insert one line at most one is told that it did |
| `NothingRefersToDeleted` | a deleted prompt is referred to by nothing |
| `PoolImplementsModeration` | every statement of a request or a shell is a step of `Moderation` or a stutter |
| `PuzzlesTypeCorrect` | the puzzles' type invariant |
| `BundlesAreCurrent` | the cached rounds are those of Postgres unless a round of a played puzzle was written |
| `OneBotInEachRound` | a round has one bot and different decoys unless set-answer was used |
| `AnswersAreForThePrompt` | answers fit the prompt of their round unless commands overlapped on it or stopped half way |
| `RoundsStayInPosition` | the rounds of a puzzle are the first ones unless set-round was used |
| `PlayedPuzzlesAreFixed` | a command that checks for plays changes a played puzzle only if it began before the latest play was created |
| `AloneIsSafe` | a command that overlaps no other takes no puzzle over |
| `AccountsTyped` | the accounts' type invariant, foreign keys of cookies and plays included |
| `CacheServesPostgres` | the session cache answers what Postgres has, but for the windows that the property names |
| `FinishedPlaysKept` | a finished puzzle stays finished for whoever its cookie resolves to, through any merges, but for the two losses that the property names |
| `SignInReachesAccount` | a sign-in that nothing overlaps ends with its cookie at the mailbox's account |
| `TerminalTyped` | the terminal's type invariant |
| `ScreenShowsWhatIsStored` | decisions that the screen shows are those that are stored |
| `LinesAreFiledRight` | a bot line is shown and filed under the prompt it was written for |
| `TerminalReviewsOnce` | with the terminal at work, too, a campaign row is decided once |
| `TerminalKeepsThePool` | nor does the terminal refer to a prompt that is gone |
| `TerminalImplementsModeration` | the terminal's statements, among all the others, implement `Moderation` as well |

**The play loop.** `PlayedInOrder` is not inductive: a request between its count
and its upsert holds a round number nobody has written yet. The inductive
invariant `IInv` of `PlayLoopProofs` therefore adds what requests in flight
know. The key fact is monotonicity: outcomes, permutations and votes are only
ever written where there was none, so a fact of the form "round r is answered"
read by a request stays true, and `LocalsStayTrue` is exactly the list of such
facts. With it, opening round n after counting n outcomes is safe however old the
count is, since the answered rounds are still a prefix that contains 0..n-1, and
a guess can only be committed on a round that is open and unanswered, which is
the one after the prefix. The score is right because a request reaches
`CompletePlay` only with outcomes that were complete when read, and complete
outcomes cannot change. `StreaksAreEarned` uses the same invariant: a play
becomes completed once, and advancing by puzzle n adds a completed play at n.
The refinement maps `CommitGuess` to `Answer`, the effective `CompletePlay` to
`Finish`, and every other step to a stutter.

**The limiter.** Its theorems share one invariant, `Spent`: for every earlier
grant, the grants since then and the level left over are paid for by a full
bucket and the inflow from that grant to the bucket's time. `Waiting` says that
it survives any wait and any denial, `Granting` that a grant that leaves the
level at zero or more keeps it and with it the limit on every window. In
Postgres the level is the row's, debts included, and the lemma holds for steps
back in time too, since the upsert's negative elapsed time takes back what was
refilled too early; that is why no order is assumed. In Valkey the balance is
the level without its debt, because the debt can be forgotten: after an hour the
inflow alone is worth a full bucket, which is where `Capacity <= PerHour` is
used; without it an expired hash starts fuller than the inflow made it, and every
caller has it. Nothing is assumed about the order of calls, but the limit is
weaker for it: the script clamps a negative elapsed time to zero and yet stores
the older clock, so that the script after it refills the same ticks once more.
`setBack` adds up these ticks, and `ScriptPaid` is `Spent` on the clock that they
are added to; where no script is overtaken it is the limit of the upsert.

The two buckets do not know each other, and a key that moves from one to the other
finds a fresh one: what is proved limits each, so both together only to the sum.

**The pool.** `ReviewedOnce` is not inductive either: between the two statements
of a decision the row must still be undecided, which holds because the lock is
held (`LocksHeld`), and the row must be there, which holds because a listed row
never goes away (`TargetsThere`; `Kept` is the monotonicity behind it). The same
facts give the rest: a bulk command with an old list decides only on lines that
exist, so that it makes no reference to a prompt that has been deleted since.
For submissions, a line that is there stays there, and an insert that reports
success found none: so any other insert of it, a player's or that of an approved
campaign row, came to nothing or lost its answer. No reason for a failure is
assumed.

`Moderation` is about the same rows without anybody at work on them. It says what
no single invariant does: a decision goes from pending to approved or rejected
and never back, and the row, its review and its line change in one step, whoever
else has the row on a list; a line is written only for a prompt that is not
gone, and a prompt goes only when nothing is about it. The refinement shows a
campaign row's columns as a decision (`DecisionOn`) and a bot line as the prompt it
is filed under. `DecidePrelaunch` and `RunDecision` are `Decide`, or a stutter if
the insert fails; that the row is pending at that moment is what the held lock
gives. `DeletePrompt` is `Delete` because the DELETE looks again, whatever the
count before it said, and because the prompt was there when the command began
(`TargetsThere`). Reads, locks, messages and keys are stutters.

**The puzzles.** `BundleCurrent` is not inductive: a page load holds the rounds
it has read and stores them later. The invariant of `PuzzlesProofs` adds that a
bundle is read or cached only of a puzzle that has a play, because the page load
creates its play before it reads (`RowsFit`). So a write that is not marked as
one to a played puzzle meets no bundle at all, and no editor needs to
invalidate. `PuzzlesRounds` adds what commands in flight know: a chosen
composition has one bot and different decoys (`BotsFit`) of the prompt it was
chosen for (`PromptsFit`: unless the puzzle is marked torn, at most one command
is between a round's prompt and its answers, and knows the prompt); the rounds
before the next one of a command are filled (`PlansFit`), so that a puzzle with
some of its rounds has the first ones (`PositionsFit`); a command that has checked for plays has
a target without plays or is `late` (`LateFit`, `set-answer` included while it
looks for the slot); and a command that overlaps no
other still finds the number it read unused (`AloneFit`). Each is what the
command would lose if the statement it stands between were interleaved with the
wrong one, and the marks name exactly those cases.

**The counters.** `EachPlayCountedOnce` equates a counter with the number of
users whose completed play it counts. No step is allowed to change both sides
but by one: the conditional update of `CompletePlay` makes the user a member of
the set that was not in it (`OneMore`), on every round at once, and the rounds
are answered by then, because the request got there with complete outcomes,
which stay. A vote does the same for the rounds that are voted on. Two requests
that both find a play finished differ only in which of them finds it open, and
the invariant asks nothing about who was first.

**The labels.** A guess resolves with the hint as `loadVerified` read it, and
commits later. What it needs by then is that a hint it has read is still stored
(`HintsStay`), which monotonicity gives; the permutation of a row never changes,
so the slot that it compares is still that of the bot. The converse, that green
means no hint, is false: a hint may be stored in between, which the run `labels`
shows (section 5).

**The accounts.** None of the properties is inductive: a merge holds, between its
statements, the rows it has decided to move, and a request the user it was
resolved to, who may be deleted by the time it writes. The invariant of
`AccountsProofs` has a part for each thing that somebody holds. Nothing refers to
a user who does not exist yet (`BornFit`), and the user that a request acts for
has owned the cookie that its answer will set, and does so unless a logout or a
merge came between (`LocalFit`, `Knows`). For `FinishedIsKept`, a user has one play of
a puzzle (`OnePlay`), and between two statements of a merge its cookies are still
its user's and the target has a play of every puzzle whose play it dropped
(`MergeFit`); what it has moved or dropped is still its user's, the target has no
play of what it moves, and no two merges move plays of one puzzle to one target
(`MoveFit`, `PlaysFit`), so that the unique index holds when the moves arrive. Two
merges never share a user. For the cache, what a request is about to store is
current unless its cookie is in `stale` (`StoresFit`). For the sign-in,
`AloneFit`: what a request that nothing overlaps has found is still so at each
later statement.

**The terminal.** Its invariant is that of the pool with three parts about what
is in flight and on the screen (`TerminalInv`). A command carries the prompt and
the row it was sent for, not those on the screen, and what its message reports
is of a kind that stays true: a campaign row that is there stays there, and a
decision is never taken back (`Kept`, `StatusStays`). That is why a message may be
handled at any time (`Reports`, `FitsStays`). A decision between its two
statements holds its row's lock, which no player and no shell can take
(`OthersLeaveLocks`) and which quitting gives back. A bot line is asked for only
while a campaign row of the prompt is shown, so that the prompt cannot be
deleted before it is filed. `TerminalReviewsOnce` and `TerminalKeepsThePool` reuse
the pool's invariant: every statement of the terminal is shown to preserve it.
For `TerminalImplementsModeration` the same facts say that what a command writes
later is still allowed: `RunAccept` is `Accept` and `InsertPuzzleRound` is `Place`
as the prompt cannot have gone meanwhile (`PromptKept`), and `ReplaceRoundAnswers`
is `Fill` because the lines that were validated stay among those a reviewer
approved.

Model-checked only: the liveness properties (`AnsweredIsCompleted`,
`PlayerFinishes`, `GeneratingEnds`), which the prover cannot express, and the
properties of the five runs that end in a violation. Nothing is
proved about `ScorePct` beyond its bounds.

## 5. Where code and text disagree

Five runs end in a violation, each quoted with its line in `PROJECT.json`:

- `stuck`: the play that is never completed, which the comment on `CommitGuess`
  excludes, as it promises one transaction. It needs only a lost connection at
  the wrong moment: `composePlayState` treats the play as complete and trusts
  "the guess handler" to repair it, but every later guess on it is refused.
- `labels`: a hint that is stored between a guess's read of the row and its commit
  leaves green, "no hint", on a hinted round. The page makes it possible, since
  `useHint` (`web/static/js/play.js:105-117`) does not lock the answers.
- `puzzles_served`: puzzles are numbered in the order they are made and served
  by number, so a puzzle for an earlier date that is made later takes the place
  of the other on its day.
- `accounts_signed_in`: the entry dropped after a sign-in is that of the cookie
  the request presented, not of the one it was given.
- `terminal_twice`: nothing tells the terminal that an assembly is under way.

Seen while modelling, and without a run of their own:

- Voting again changes nothing, though `play_handlers.go:562` and `SCHEMA.md:403`
  say that it overwrites.
- The Retry-After is the time of one token, but the refused call took one as
  well: a client that obeys is refused again.
- The script that "mirrors the Postgres UPSERT exactly" (`valkey.go:96`) clamps the
  elapsed time at zero, which the upsert does not, and refills a tick twice when
  calls of two servers, or a call and one that was sent again, overtake.
  `ScriptLimits` says how much more gets through. The two differ in the expiry, too: a debt in Valkey is
  forgotten after an hour without a call.
- "Played-once-per-day is a design rule" (`internal/db/auth.go:101`), but the play
  that stands after a merge is the target's, finished or not: a device that has
  finished the day's puzzle and signs in to an account that has merely opened it
  loses the finished play, and the account plays it. `FinishedIsKept` excepts
  exactly this loss and that of a play opened behind the merge's back.
- `import` rewrites a puzzle that is being played, though `PLAYBOOK.md:214` says
  that whatever mutates rounds refuses then; `PlayedPuzzleFixed` names it as an
  exception.
- `decoy bulk-review` cannot answer `limit_exceeded`, which
  `cmd/admin/README.md:171-173` promises: it lists no more than the limit.
- A rerun of `puzzle-build`, whose header calls it safe to re-run, gives the
  date a second puzzle.
- The merged streak combines the longest run of one user with the last puzzle
  of the other, so that the next play can continue a run that nobody played;
  `StreakIsEarned` is about the streak of one user without merges.
- `y` pressed twice files one line twice as approved.

## 6. Not modelled

Next, in this order:

1. `Rollups`: the collective stat and the leaderboard, each a statement that
   recomputes rows from the plays and counters of `PlayLoop`; what is worth
   stating is that a rerun after late plays agrees with the counters.
2. The breaker's counter and cooldown under concurrent calls. Its effect on
   callers is in `Accounts` and `TokenBucket` already.

Not to be modelled: language-model generation (its outcome is text), rendering
of share images and pages, email, metrics and the web client (no state that
another part reads), and the cryptography of tokens and cookies, which is
assumed sound.
