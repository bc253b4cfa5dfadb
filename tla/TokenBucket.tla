---------------------------- MODULE TokenBucket ----------------------------
(***************************************************************************)
(* One key of the rate limiter: the bucket in rate_limit_buckets           *)
(* (bucket.go), the bucket in a Valkey hash (valkey.go), and the calls     *)
(* that try the script first and the upsert when it fails.                 *)
(*                                                                         *)
(* A token is One units and PerHour units flow in per tick, so that levels *)
(* are integers: a bucket gets PerHour tokens per Hour ticks.              *)
(***************************************************************************)
EXTENDS Integers, Sequences

CONSTANTS
  Capacity,   \* tokens of a full bucket
  PerHour,    \* tokens that flow in per hour
  Hour,       \* ticks of an hour
  Calls,      \* Allow calls that can be under way at once
  ScriptDelay, UpsertDelay,   \* ticks between reading a clock and the store, and
                              \* by which the clock of a server may be behind
  MaxTime,    \* bound on the clock
  MaxCalls,   \* bound on the number of calls and resent scripts
  Null        \* no row, no hash

ASSUME BucketAssumption ==
  /\ Capacity \in Nat \ {0} /\ PerHour \in Nat \ {0} /\ Hour \in Nat \ {0}
  /\ ScriptDelay \in Nat /\ UpsertDelay \in Nat
  /\ MaxTime \in Nat /\ MaxCalls \in Nat

ASSUME NoBucket == Null \notin [tokens : Int, at : Nat]
                   /\ Null \notin [tokens : Int, at : Nat, expires : Nat]

Delay == [valkey |-> ScriptDelay, postgres |-> UpsertDelay]

One  == Hour
Full == Capacity * One

VARIABLES
  now,      \* the clock the servers and the stores share
  row,      \* the row of rate_limit_buckets
  hash,     \* the Valkey hash, with the time its EXPIRE runs out
  call,     \* call[c]: the store call c turns to next and the time it has read
  granted,  \* granted[s]: times at which store s let a call through, in order
  setBack,  \* ticks by which scripts have set the hash's clock back, in all
  paced,    \* the times of granted["valkey"], each with setBack as it was then
  answer,   \* the last answer: allowed or not, and when to come back
  asked     \* number of calls and resent scripts so far

vars == <<now, row, hash, call, granted, setBack, paced, answer, asked>>

\* Records for the properties: the code keeps neither.
pacing == <<setBack, paced>>

Row  == [tokens : Int, at : Nat]
Hash == [tokens : Int, at : Nat, expires : Nat]

Idle == [store |-> "none", at |-> 0]

\* Ticks until one token has flowed in, rounded up.
RetryAfter == (One + PerHour - 1) \div PerHour

TypeOK ==
  /\ now \in 0..MaxTime
  /\ row \in Row \cup {Null}
  /\ hash \in Hash \cup {Null}
  /\ \A bucket \in {row, hash} \ {Null} : bucket.tokens + One <= Full
  /\ call \in [Calls -> [store : {"none", "valkey", "postgres"}, at : 0..MaxTime]]
  /\ granted \in [{"valkey", "postgres"} -> Seq(0..MaxTime)]
  /\ setBack \in Nat /\ paced \in Seq(Nat)
  /\ answer \in [allowed : BOOLEAN, comeBack : Nat]
  /\ asked \in 0..MaxCalls

Init ==
  /\ now = 0
  /\ row = Null
  /\ hash = Null
  /\ call = [c \in Calls |-> Idle]
  /\ granted = [s \in {"valkey", "postgres"} |-> <<>>]
  /\ setBack = 0
  /\ paced = <<>>
  /\ answer = [allowed |-> TRUE, comeBack |-> 0]
  /\ asked = 0

-----------------------------------------------------------------------------
AtMost(n, bound) == IF n < bound THEN n ELSE bound

\* Mutant of Taken: the bucket is not capped.
Uncapped(level, elapsed) == level + elapsed * PerHour - One

\* The level after one more call: topped up, capped, less a token.  It goes
\* below zero when the call is denied.
Taken(level, elapsed) == AtMost(level + elapsed * PerHour, Full) - One

\* The statement: a missing row counts as a full bucket.
UpsertedRow(t) ==
  [tokens |-> IF row = Null THEN Full - One ELSE Taken(row.tokens, t - row.at),
   at     |-> t]

\* Mutant of ScriptedHash: the time of the last touch is not moved.
UnmovedTouch(t) ==
  LET last == IF hash = Null THEN t ELSE hash.at
  IN  [tokens  |-> Taken(IF hash = Null THEN Full ELSE hash.tokens,
                         IF t > last THEN t - last ELSE 0),
       at      |-> last,
       expires |-> now + Hour]

\* The script: the same for a missing hash, but time does not run backwards,
\* and the hash is dropped when an hour passes without a call.
ScriptedHash(t) ==
  LET last == IF hash = Null THEN t ELSE hash.at
  IN  [tokens  |-> Taken(IF hash = Null THEN Full ELSE hash.tokens,
                         IF t > last THEN t - last ELSE 0),
       at      |-> t,
       expires |-> now + Hour]

\* Ticks by which a script with clock t is behind the time that the bucket has
\* been refilled to: they flow in once more for the script after it.
Overtaken(t) ==
  LET clock == IF hash = Null THEN now ELSE hash.at
  IN  IF t < clock THEN clock - t ELSE 0

\* Store s leaves the given level: the caller learns whether it may proceed.
Reply(c, s, level) ==
  /\ call' = [call EXCEPT ![c] = Idle]
  /\ granted' = [granted EXCEPT ![s] = IF level < 0 THEN @ ELSE Append(@, now)]
  /\ answer' = IF level < 0 THEN [allowed |-> FALSE, comeBack |-> now + RetryAfter]
               ELSE [allowed |-> TRUE, comeBack |-> 0]

-----------------------------------------------------------------------------
\* Allow on Valkey reads the clock of its server.
Ask(c) ==
  /\ call[c] = Idle
  /\ asked < MaxCalls
  /\ call' = [call EXCEPT ![c] = [store |-> "valkey", at |-> now]]
  /\ asked' = asked + 1
  /\ UNCHANGED <<now, row, hash, granted, pacing, answer>>

\* The upsert's NOW() is the time its transaction starts.
FallBack(c) == call' = [call EXCEPT ![c] = [store |-> "postgres", at |-> now]]

\* The script runs; its answer may be lost, and then the client library sends
\* it again, or gives up and the upsert decides.
RunScript(c) ==
  /\ call[c].store = "valkey"
  /\ hash' = ScriptedHash(call[c].at)
  /\ setBack' = setBack + Overtaken(call[c].at)
  /\ \/ /\ Reply(c, "valkey", hash'.tokens)
        /\ paced' = IF hash'.tokens < 0 THEN paced ELSE Append(paced, now + setBack')
        /\ UNCHANGED asked
     \/ asked < MaxCalls /\ asked' = asked + 1 /\ UNCHANGED <<call, granted, paced, answer>>
     \/ FallBack(c) /\ UNCHANGED <<granted, paced, answer, asked>>
  /\ UNCHANGED <<now, row>>

\* Valkey is not configured or not reachable, or the breaker is open.
SkipScript(c) ==
  /\ call[c].store = "valkey"
  /\ FallBack(c)
  /\ UNCHANGED <<now, row, hash, granted, pacing, answer, asked>>

RunUpsert(c) ==
  /\ call[c].store = "postgres"
  /\ row' = UpsertedRow(call[c].at)
  /\ Reply(c, "postgres", row'.tokens)
  /\ UNCHANGED <<now, hash, pacing, asked>>

\* Postgres fails too: the handlers let the request through.
FailOpen(c) ==
  /\ call[c].store = "postgres"
  /\ call' = [call EXCEPT ![c] = Idle]
  /\ UNCHANGED <<now, row, hash, granted, pacing, answer, asked>>

\* Time passes, no call waits longer than its store's delay, and Valkey drops a
\* hash whose time is up.
Tick ==
  /\ now < MaxTime
  /\ \A c \in Calls : call[c] # Idle => now - call[c].at < Delay[call[c].store]
  /\ now' = now + 1
  /\ hash' = IF hash # Null /\ hash.expires <= now' THEN Null ELSE hash
  /\ UNCHANGED <<row, call, granted, pacing, answer, asked>>

Next ==
  \/ \E c \in Calls :
       \/ Ask(c) \/ RunScript(c) \/ SkipScript(c) \/ RunUpsert(c) \/ FailOpen(c)
  \/ Tick

Spec == Init /\ [][Next]_vars

-----------------------------------------------------------------------------
(***************************************************************************)
(* Properties.                                                             *)
(***************************************************************************)

\* From any call let through to any later one, no more got through than the
\* full bucket and what flowed in since, allowing for the delay of a call.
Limited(times, delay) ==
  \A i, j \in 1..Len(times) :
    i <= j => (j - i + 1) * One <= Full + PerHour * (times[j] - times[i] + delay)

\* The upsert limits every window of time, although statements that wait for
\* the row's lock apply times older than the row's.
UpsertLimits == Limited(granted["postgres"], UpsertDelay)

\* So does the script, whose calls reach Valkey with clocks of several servers
\* in any order, and although the hash with its debt expires after an hour
\* without a call: by then the capacity has flowed in, for a capacity of at
\* most PerHour.  What it does not recover is counted in paced: a script that
\* was overtaken sets the hash's clock back, and that much flows in again. The
\* upsert takes back what was refilled too early, so that here the script does
\* not "mirror the Postgres UPSERT exactly" (valkey.go:96).
ScriptLimits == Limited(paced, ScriptDelay)
=============================================================================
