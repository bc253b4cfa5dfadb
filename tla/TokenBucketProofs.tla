------------------------- MODULE TokenBucketProofs -------------------------
(* Both stores of the rate limiter limit every window of time. *)
EXTENDS TokenBucket, TLAPS

(***************************************************************************)
(* What has been let through, the balance still in the bucket, and what a  *)
(* full bucket and the inflow since can pay for.  balance is the level at  *)
(* time at, and this is what every call preserves.                         *)
(***************************************************************************)
Spent(times, balance, at, delay) ==
  \A i \in 1..Len(times) :
    (Len(times) - i + 1) * One + balance <= Full + PerHour * (at - times[i] + delay)

LEMMA Sizes ==
  /\ PerHour \in Nat \ {0} /\ PerHour \in Int
  /\ One \in Nat \ {0} /\ Full \in Nat /\ MaxTime \in Nat
BY BucketAssumption DEF One, Full

LEMMA Delays ==
  /\ Delay["valkey"] = ScriptDelay /\ Delay["postgres"] = UpsertDelay
  /\ \A s \in {"valkey", "postgres"} : Delay[s] \in Nat
BY BucketAssumption DEF Delay

\* A sequence of times is a sequence of anything that has them.
LEMMA SeqWidens ==
  ASSUME NEW S, NEW T, S \subseteq T, NEW q \in Seq(S)
  PROVE  q \in Seq(T)
<1>1. Len(q) \in Nat /\ q \in [1..Len(q) -> S]
  OBVIOUS
<1>2. q \in [1..Len(q) -> T]
  BY <1>1
<1>3. QED
  BY <1>1, <1>2

\* What flows in is a whole number,
LEMMA InflowIsWhole ==
  \A full, rate, read, start, delay \in Int : full + rate * (read - start + delay) \in Int
<1> SUFFICES ASSUME NEW full \in Int, NEW rate \in Int, NEW elapsed \in Int
             PROVE  full + rate * elapsed \in Int
  OBVIOUS
<1>1. rate * elapsed \in Int
  OBVIOUS
<1>2. QED
  BY <1>1

\* and can be split at any time.
LEMMA InflowSplits ==
  ASSUME NEW rate \in Int, NEW start \in Int, NEW at \in Int, NEW later \in Int, NEW delay \in Int
  PROVE  rate * (later - start + delay) = rate * (at - start + delay) + rate * (later - at)
<1>1. \A b, c \in Int : rate * (b + c) = rate * b + rate * c
  OBVIOUS
<1>2. later - start + delay = (at - start + delay) + (later - at)
  OBVIOUS
<1>3. PICK before \in Int : before = at - start + delay
  OBVIOUS
<1>4. PICK after \in Int : after = later - at
  OBVIOUS
<1>5. rate * (before + after) = rate * before + rate * after
  BY <1>1
<1>6. later - start + delay = before + after
  BY <1>2, <1>3, <1>4
<1>7. QED
  BY <1>3, <1>4, <1>5, <1>6, Zenon

\* A call that is not let through, or no call at all: the balance is at most
\* what it was and what flowed in.
LEMMA Waiting ==
  ASSUME NEW times \in Seq(Nat), NEW balance \in Int, NEW at \in Int,
         NEW later \in Int, NEW rest \in Int, NEW delay \in Nat,
         Spent(times, balance, at, delay),
         rest <= balance + PerHour * (later - at)
  PROVE  Spent(times, rest, later, delay)
<1> SUFFICES ASSUME NEW i \in 1..Len(times)
             PROVE  (Len(times) - i + 1) * One + rest
                      <= Full + PerHour * (later - times[i] + delay)
  BY DEF Spent
<1>1. PICK start \in Int : start = times[i]
  OBVIOUS
<1>2. PICK paid \in Int : paid = (Len(times) - i + 1) * One
  BY Sizes
<1>3. PICK before \in Int : before = PerHour * (at - start + delay)
  BY <1>1, Sizes
<1>4. PICK inflow \in Int : inflow = PerHour * (later - at)
  BY Sizes
<1>5. paid + balance <= Full + before
  BY <1>1, <1>2, <1>3 DEF Spent
<1>6. PerHour * (later - start + delay) = before + inflow
  <2>1. PerHour \in Int /\ delay \in Int /\ start \in Int /\ at \in Int /\ later \in Int
    BY Sizes
  <2>2. PerHour * (later - start + delay) =
          PerHour * (at - start + delay) + PerHour * (later - at)
    BY <2>1, InflowSplits
  <2>3. QED
    BY <1>3, <1>4, <2>2, Zenon
<1>7. rest <= balance + inflow
  BY <1>4
<1>8. QED
  <2>1. paid + rest <= Full + (before + inflow)
    BY <1>5, <1>7, Sizes
  <2>2. QED
    BY <1>1, <1>2, <1>6, <2>1

\* A call let through at time done, delay ticks after it read the clock at the
\* most: it is paid for, and so is every window that ends with it.
LEMMA Granting ==
  ASSUME NEW times \in Seq(Nat), NEW balance \in Int, NEW at \in Int,
         NEW read \in Int, NEW done \in Nat, NEW rest \in Nat, NEW delay \in Nat,
         Spent(times, balance, at, delay), Limited(times, delay),
         rest + One <= balance + PerHour * (read - at),
         rest + One <= Full,
         read <= done, done <= read + delay
  PROVE  /\ Spent(Append(times, done), rest, read, delay)
         /\ Limited(Append(times, done), delay)
<1> DEFINE more == Append(times, done)
           n    == Len(times)
<1>0. n \in Nat /\ more \in Seq(Nat)
  OBVIOUS
<1>1. more \in Seq(Nat) /\ n \in Nat /\ Len(more) = n + 1 /\ more[n + 1] = done
      /\ \A i \in 1..n : more[i] = times[i] /\ times[i] \in Nat
  BY <1>0
<1> HIDE DEF more, n
<1>2. Spent(times, rest + One, read, delay)
  BY Waiting, Sizes
<1>3. PerHour * (read - done + delay) >= 0
  BY Sizes
<1>4. ASSUME NEW i \in 1..(n + 1)
      PROVE  (n + 1 - i + 1) * One + rest <= Full + PerHour * (read - more[i] + delay)
  <2>1. CASE i = n + 1
    <3>1. (n + 1 - i + 1) * One = One /\ more[i] = done
      BY <1>1, <2>1, Sizes
    <3>2. PICK slack \in Nat : slack = PerHour * (read - more[i] + delay)
      BY <1>3, <3>1, Sizes
    <3>3. One + rest <= Full + slack
      BY Sizes
    <3>4. QED
      BY <3>1, <3>2, <3>3, Zenon
  <2>2. CASE i # n + 1
    <3>1. i \in 1..n
      BY <2>2, <1>1
    <3>2. (n - i + 1) * One + (rest + One) <= Full + PerHour * (read - times[i] + delay)
      BY <1>2, <3>1 DEF Spent, n
    <3>3. PICK paid \in Int : paid = (n - i + 1) * One
      BY <1>1, Sizes
    <3>4. (n + 1 - i + 1) * One = paid + One
      BY <1>1, <3>3, Sizes
    <3>5. PICK due \in Int : due = Full + PerHour * (read - times[i] + delay)
      <4>1. times[i] \in Int
        BY <1>1, <3>1
      <4>2. Full \in Int /\ PerHour \in Int /\ delay \in Int
        BY Sizes
      <4>3. QED
        BY <4>1, <4>2, InflowIsWhole, Zenon
    <3>6. paid + (rest + One) <= due
      BY <3>2, <3>3, <3>5
    <3>7. (paid + One) + rest <= due
      BY <3>6, Sizes
    <3>8. QED
      BY <1>1, <3>1, <3>4, <3>5, <3>7, Zenon
  <2>3. QED
    BY <2>1, <2>2
<1>5. Spent(more, rest, read, delay)
  BY <1>1, <1>4 DEF Spent
<1>6. ASSUME NEW i \in 1..(n + 1), NEW j \in 1..(n + 1), i <= j
      PROVE  (j - i + 1) * One <= Full + PerHour * (more[j] - more[i] + delay)
  <2>1. CASE j = n + 1
    <3>1. PICK start \in Int : start = more[i]
      BY <1>1
    <3>2. PICK paid \in Int : paid = (n + 1 - i + 1) * One
      BY <1>1, Sizes
    <3>3. PICK before \in Int : before = PerHour * (read - start + delay)
      BY <3>1, Sizes
    <3>4. PICK inflow \in Nat : inflow = PerHour * (done - read)
      BY Sizes
    <3>5. paid + rest <= Full + before
      BY <1>4, <3>1, <3>2, <3>3
    <3>6. PerHour * (done - start + delay) = before + inflow
      <4>1. PerHour * (done - start + delay) =
              PerHour * (read - start + delay) + PerHour * (done - read)
        BY Sizes
      <4>2. QED
        BY <3>3, <3>4, <4>1, Zenon
    <3>7. QED
      <4>1. paid <= Full + (before + inflow)
        BY <3>5, Sizes
      <4>2. QED
        BY <1>1, <2>1, <3>1, <3>2, <3>6, <4>1
  <2>2. CASE j # n + 1
    <3>1. i \in 1..n /\ j \in 1..n
      BY <1>1, <1>6, <2>2
    <3>2. QED
      BY <1>1, <1>6, <3>1 DEF Limited, n
  <2>3. QED
    BY <2>1, <2>2
<1>7. Limited(more, delay)
  BY <1>1, <1>6 DEF Limited
<1>8. QED
  BY <1>5, <1>7 DEF more

-----------------------------------------------------------------------------
(***************************************************************************)
(* Types, and the age of what calls have read.                             *)
(***************************************************************************)
LEMMA LevelType ==
  ASSUME NEW level \in Int, NEW elapsed \in Int
  PROVE  /\ Taken(level, elapsed) \in Int
         /\ Taken(level, elapsed) + One <= Full
         /\ Taken(level, elapsed) + One <= level + elapsed * PerHour
<1>1. PICK inflow \in Int : inflow = elapsed * PerHour
  BY Sizes
<1>2. QED
  BY <1>1, Sizes DEF Taken, AtMost

LEMMA RowType ==
  ASSUME TypeOK, NEW t \in 0..MaxTime
  PROVE  UpsertedRow(t) \in Row /\ UpsertedRow(t).tokens + One <= Full
<1>1. CASE row = Null
  BY <1>1, Sizes DEF UpsertedRow, Row
<1>2. CASE row # Null
  <2>1. row.tokens \in Int /\ row.at \in Nat /\ t - row.at \in Int
    BY <1>2, Sizes DEF TypeOK, Row
  <2>2. PICK level \in Int : level = Taken(row.tokens, t - row.at) /\ level + One <= Full
    BY <2>1, LevelType
  <2>3. UpsertedRow(t) = [tokens |-> level, at |-> t] /\ t \in Nat
    BY <1>2, <2>2, Sizes DEF UpsertedRow
  <2>4. QED
    BY <2>2, <2>3 DEF Row
<1>3. QED
  BY <1>1, <1>2

LEMMA HashType ==
  ASSUME TypeOK, NEW t \in 0..MaxTime
  PROVE  ScriptedHash(t) \in Hash /\ ScriptedHash(t).tokens + One <= Full
<1>0. t \in Nat /\ (hash # Null => hash.tokens \in Int /\ hash.at \in Nat)
  BY Sizes DEF TypeOK, Hash
<1> PICK level \in Int : level = (IF hash = Null THEN Full ELSE hash.tokens)
  BY <1>0, Sizes
<1>1. PICK last \in Nat : last = (IF hash = Null THEN t ELSE hash.at)
  BY <1>0
<1>2. PICK elapsed \in Int : elapsed = (IF t > last THEN t - last ELSE 0)
  BY <1>0, <1>1
<1>3. ScriptedHash(t) = [tokens |-> Taken(level, elapsed), at |-> t, expires |-> now + Hour]
  BY <1>1, <1>2 DEF ScriptedHash
<1>4. now + Hour \in Nat
  BY BucketAssumption, Sizes DEF TypeOK
<1>5. PICK rest \in Int : rest = Taken(level, elapsed) /\ rest + One <= Full
  BY LevelType
<1>6. QED
  BY <1>0, <1>3, <1>4, <1>5 DEF Hash

LEMMA ReplyType ==
  ASSUME TypeOK, NEW c \in Calls, NEW s \in {"valkey", "postgres"}, NEW level \in Int,
         Reply(c, s, level)
  PROVE  /\ call' \in [Calls -> [store : {"none", "valkey", "postgres"}, at : 0..MaxTime]]
         /\ granted' \in [{"valkey", "postgres"} -> Seq(0..MaxTime)]
         /\ answer' \in [allowed : BOOLEAN, comeBack : Nat]
<1>1. now \in 0..MaxTime /\ granted[s] \in Seq(0..MaxTime)
  BY DEF TypeOK
<1>2. Append(granted[s], now) \in Seq(0..MaxTime)
  BY <1>1
<1>3. RetryAfter \in Nat
  BY Sizes DEF RetryAfter
<1>4. call' \in [Calls -> [store : {"none", "valkey", "postgres"}, at : 0..MaxTime]]
  BY Sizes DEF TypeOK, Reply, Idle
<1>5. granted' \in [{"valkey", "postgres"} -> Seq(0..MaxTime)]
  BY <1>1, <1>2 DEF TypeOK, Reply
<1>6. answer' \in [allowed : BOOLEAN, comeBack : Nat]
  BY <1>1, <1>3, Sizes DEF Reply
<1>7. QED
  BY <1>4, <1>5, <1>6

\* A call's time is at most the delay of its store old.
Timely ==
  \A c \in Calls : call[c].store # "none" =>
    call[c].at <= now /\ now <= call[c].at + Delay[call[c].store]

LEMMA StepKeepsTypes == TypeOK /\ [Next]_vars => TypeOK'
<1> SUFFICES ASSUME TypeOK, [Next]_vars PROVE TypeOK'
  OBVIOUS
<1>1. ASSUME NEW c \in Calls, Ask(c) PROVE TypeOK'
  BY <1>1, BucketAssumption DEF TypeOK, Ask, pacing
<1>2. ASSUME NEW c \in Calls, RunScript(c) PROVE TypeOK'
  <2>1. call[c].at \in 0..MaxTime
    BY DEF TypeOK
  <2>2. hash' \in Hash /\ hash'.tokens + One <= Full
    BY <1>2, <2>1, HashType DEF RunScript
  <2>7. setBack' \in Nat /\ paced' \in Seq(Nat)
    <3>1. Overtaken(call[c].at) \in Nat
      BY <2>1, Sizes DEF Overtaken, TypeOK, Hash
    <3>2. setBack' \in Nat
      BY <1>2, <3>1 DEF RunScript, TypeOK
    <3>8. now \in Nat /\ \A k \in Nat : now + k \in Nat
      BY Sizes DEF TypeOK
    <3>7. now + setBack' \in Nat
      BY <3>2, <3>8, Zenon
    <3>3. PICK done \in Nat : done = now + setBack'
      BY <3>7, Zenon
    <3>4. Append(paced, done) \in Seq(Nat)
      BY <3>3 DEF TypeOK
    <3>5. paced' = paced \/ paced' = Append(paced, done)
      BY <1>2, <3>3 DEF RunScript
    <3>6. QED
      BY <3>2, <3>4, <3>5 DEF TypeOK
  <2>3. CASE Reply(c, "valkey", hash'.tokens) /\ UNCHANGED asked
    <3>1. hash'.tokens \in Int
      BY <2>2 DEF Hash
    <3>2. QED
      BY <1>2, <2>2, <2>3, <2>7, <3>1, ReplyType DEF RunScript, TypeOK
  <2>4. CASE FallBack(c) /\ UNCHANGED <<granted, answer, asked>>
    BY <1>2, <2>2, <2>4, <2>7 DEF RunScript, TypeOK, FallBack
  <2>5. CASE /\ asked < MaxCalls /\ asked' = asked + 1
             /\ UNCHANGED <<call, granted, answer>>
    <3>1. asked' \in 0..MaxCalls
      BY <2>5, BucketAssumption DEF TypeOK
    <3>2. QED
      BY <1>2, <2>2, <2>5, <2>7, <3>1 DEF RunScript, TypeOK
  <2>6. QED
    BY <1>2, <2>3, <2>4, <2>5 DEF RunScript
<1>3. ASSUME NEW c \in Calls, SkipScript(c) PROVE TypeOK'
  BY <1>3 DEF TypeOK, SkipScript, FallBack, pacing
<1>4. ASSUME NEW c \in Calls, RunUpsert(c) PROVE TypeOK'
  <2>1. call[c].at \in 0..MaxTime
    BY DEF TypeOK
  <2>2. row' \in Row /\ row'.tokens + One <= Full
    BY <1>4, <2>1, RowType DEF RunUpsert
  <2>3. row'.tokens \in Int
    BY <2>2 DEF Row
  <2>4. QED
    BY <1>4, <2>2, <2>3, ReplyType DEF RunUpsert, TypeOK, pacing
<1>5. ASSUME NEW c \in Calls, FailOpen(c) PROVE TypeOK'
  BY <1>5, Sizes DEF TypeOK, FailOpen, Idle, pacing
<1>6. ASSUME Tick PROVE TypeOK'
  BY <1>6, Sizes DEF TypeOK, Tick, pacing
<1>7. CASE UNCHANGED vars
  BY <1>7 DEF TypeOK, vars, pacing
<1>8. QED
  BY <1>1, <1>2, <1>3, <1>4, <1>5, <1>6, <1>7 DEF Next

LEMMA StepKeepsTimely == TypeOK /\ Timely /\ [Next]_vars => Timely'
<1> SUFFICES ASSUME TypeOK, Timely, [Next]_vars, NEW d \in Calls, call'[d].store # "none"
             PROVE  call'[d].at <= now' /\ now' <= call'[d].at + Delay[call'[d].store]
  BY DEF Timely
<1>1. now \in Nat
  BY Sizes DEF TypeOK
<1>7. call'[d].store \in {"valkey", "postgres"}
  BY StepKeepsTypes DEF TypeOK
<1> PICK delay \in Nat : delay = Delay[call'[d].store]
  BY <1>7, Delays
<1>2. CASE Tick
  <2>1. call'[d] = call[d] /\ call[d] # Idle /\ call[d].at \in Nat /\ now' = now + 1
    BY <1>2, Sizes DEF Tick, Idle, TypeOK
  <2>2. now - call[d].at < delay
    BY <1>2, <2>1 DEF Tick
  <2>3. call[d].at <= now
    BY <2>1 DEF Timely
  <2>4. QED
    BY <1>1, <2>1, <2>2, <2>3
<1>3. CASE call'[d] = call[d] /\ now' = now
  BY <1>3 DEF Timely
<1>4. CASE call'[d].at = now /\ now' = now
  BY <1>1, <1>4
<1>5. ASSUME NEW c \in Calls,
             Ask(c) \/ RunScript(c) \/ SkipScript(c) \/ RunUpsert(c) \/ FailOpen(c)
      PROVE  now' = now /\ (call'[d] = call[d] \/ call'[d].at = now \/ call'[d] = Idle)
  BY <1>5 DEF TypeOK, Ask, RunScript, SkipScript, RunUpsert, FailOpen, Reply, FallBack
<1>6. QED
  BY <1>2, <1>3, <1>4, <1>5 DEF Next, vars, Idle

-----------------------------------------------------------------------------
(***************************************************************************)
(* The upsert.  The level of the row, negative ones included, is what is   *)
(* left of the full bucket and the inflow, whatever order the statements'  *)
(* times come in.                                                          *)
(***************************************************************************)
UpsertPaid ==
  /\ row = Null => granted["postgres"] = <<>>
  /\ row # Null => Spent(granted["postgres"], row.tokens, row.at, UpsertDelay)
  /\ UpsertLimits

\* One call against a bucket with the given balance: what RunUpsert and
\* RunScript do to the times and the balance of their store.
LEMMA Charging ==
  ASSUME NEW c \in Calls, NEW s \in {"valkey", "postgres"}, TypeOK, Timely,
         call[c].store = s,
         NEW balance \in Int, NEW at \in Int, NEW rest \in Int,
         Spent(granted[s], balance, at, Delay[s]), Limited(granted[s], Delay[s]),
         rest + One <= balance + PerHour * (call[c].at - at),
         rest + One <= Full,
         Reply(c, s, rest)
  PROVE  Spent(granted'[s], rest, call[c].at, Delay[s]) /\ Limited(granted'[s], Delay[s])
<1>1. now \in Nat /\ call[c].at \in Int /\ granted[s] \in Seq(Nat)
      /\ call[c].at <= now /\ now <= call[c].at + Delay[s] /\ Delay[s] \in Nat
  <2>1. granted[s] \in Seq(0..MaxTime) /\ 0..MaxTime \subseteq Nat
    BY Sizes DEF TypeOK
  <2>2. now \in 0..MaxTime /\ call[c].at \in 0..MaxTime
    BY DEF TypeOK
  <2>3. PICK delay \in Nat : delay = Delay[s]
    BY Delays
  <2>4. call[c].at <= now /\ now <= call[c].at + Delay[s]
    BY DEF Timely
  <2>5. granted[s] \in Seq(Nat)
    BY <2>1, SeqWidens
  <2>6. now \in Nat /\ call[c].at \in Int
    BY <2>1, <2>2
  <2>7. QED
    BY <2>3, <2>4, <2>5, <2>6
<1>2. CASE rest < 0
  <2>1. granted'[s] = granted[s]
    BY <1>2 DEF Reply, TypeOK
  <2>2. rest <= balance + PerHour * (call[c].at - at)
    <3>1. PICK inflow \in Int : inflow = PerHour * (call[c].at - at)
      BY <1>1, Sizes
    <3>2. QED
      BY <3>1, Sizes
  <2>3. QED
    BY <1>1, <2>1, <2>2, Waiting
<1>3. CASE rest >= 0
  <2>1. granted'[s] = Append(granted[s], now)
    BY <1>3 DEF Reply, TypeOK
  <2>2. rest \in Nat
    BY <1>3
  <2>3. PICK delay \in Nat : delay = Delay[s]
    BY <1>1
  <2>4. /\ Spent(Append(granted[s], now), rest, call[c].at, delay)
        /\ Limited(Append(granted[s], now), delay)
    BY <1>1, <2>2, <2>3, Granting
  <2>5. QED
    BY <2>1, <2>3, <2>4
<1>4. QED
  BY <1>2, <1>3

LEMMA StepKeepsUpsertPaid == TypeOK /\ Timely /\ UpsertPaid /\ [Next]_vars => UpsertPaid'
<1> SUFFICES ASSUME TypeOK, Timely, UpsertPaid, [Next]_vars PROVE UpsertPaid'
  OBVIOUS
<1>1. ASSUME NEW c \in Calls, RunUpsert(c) PROVE UpsertPaid'
  <2>1. call[c].at \in 0..MaxTime /\ call[c].at \in Int /\ call[c].store = "postgres"
    BY <1>1, Sizes DEF TypeOK, RunUpsert
  <2>2. PICK rest \in Int : rest = row'.tokens /\ rest + One <= Full
                            /\ row'.at = call[c].at /\ row' # Null
    BY <1>1, <2>1, RowType, NoBucket DEF RunUpsert, Row, UpsertedRow
  <2>3. Reply(c, "postgres", rest)
    BY <1>1, <2>2 DEF RunUpsert
  <2>4. PICK balance \in Int, at \in Int :
          /\ Spent(granted["postgres"], balance, at, UpsertDelay)
          /\ rest + One <= balance + PerHour * (call[c].at - at)
    <3>1. CASE row = Null
      <4>1. Spent(granted["postgres"], Full, call[c].at, UpsertDelay)
        BY <3>1 DEF UpsertPaid, Spent
      <4>2. PerHour * (call[c].at - call[c].at) = 0
        BY <2>1, Sizes
      <4>3. PICK at \in Int : at = call[c].at /\ PerHour * (at - at) = 0
        BY <2>1, <4>2
      <4>4. rest + One <= Full + PerHour * (call[c].at - at) /\ Full \in Int
        BY <2>2, <4>2, <4>3, Sizes
      <4>5. QED
        BY <4>1, <4>3, <4>4
    <3>2. CASE row # Null
      <4>1. row.tokens \in Int /\ row.at \in Int
        BY <3>2 DEF TypeOK, Row
      <4>2. PICK elapsed \in Int : elapsed = call[c].at - row.at
        BY <2>1, <4>1
      <4>3. rest = Taken(row.tokens, elapsed)
        BY <1>1, <2>2, <3>2, <4>2 DEF RunUpsert, UpsertedRow
      <4>4. rest + One <= row.tokens + elapsed * PerHour
        BY <4>1, <4>3, LevelType
      <4>5. elapsed * PerHour = PerHour * (call[c].at - row.at)
        BY <4>2, Sizes
      <4>6. QED
        BY <3>2, <4>1, <4>4, <4>5 DEF UpsertPaid
    <3>3. QED
      BY <3>1, <3>2
  <2>5. Spent(granted'["postgres"], rest, call[c].at, UpsertDelay)
        /\ Limited(granted'["postgres"], UpsertDelay)
    BY <2>1, <2>2, <2>3, <2>4, Charging, Delays DEF UpsertPaid, UpsertLimits
  <2>6. QED
    BY <2>2, <2>5 DEF UpsertPaid, UpsertLimits, Spent, Limited
<1>2. ASSUME UNCHANGED <<row, granted["postgres"]>> PROVE UpsertPaid'
  BY <1>2 DEF UpsertPaid, UpsertLimits, Spent, Limited
<1>3. ASSUME NEW c \in Calls, RunScript(c) PROVE UNCHANGED <<row, granted["postgres"]>>
  BY <1>3 DEF RunScript, Reply, TypeOK
<1>4. ASSUME NEW c \in Calls, Ask(c) \/ SkipScript(c) \/ FailOpen(c)
      PROVE  UNCHANGED <<row, granted>>
  BY <1>4 DEF Ask, SkipScript, FailOpen
<1>5. ASSUME Tick \/ UNCHANGED vars PROVE UNCHANGED <<row, granted>>
  BY <1>5 DEF Tick, vars
<1>6. QED
  BY <1>1, <1>2, <1>3, <1>4, <1>5 DEF Next

LEMMA UpsertStart == Init => TypeOK /\ Timely /\ UpsertPaid
BY Sizes, BucketAssumption
   DEF Init, TypeOK, Timely, UpsertPaid, UpsertLimits, Limited, Idle

\* The bucket in Postgres lets no more through, in any window of time, than a
\* full bucket and the inflow pay for.
THEOREM UpsertIsLimited == Spec => []UpsertLimits
<1>1. UpsertPaid => UpsertLimits
  BY DEF UpsertPaid
<1>2. QED
  BY <1>1, UpsertStart, StepKeepsTypes, StepKeepsTimely, StepKeepsUpsertPaid, PTL DEF Spec

\* Every reachable state of the limiter is well typed.
THEOREM BucketTypes == Spec => []TypeOK
BY UpsertStart, StepKeepsTypes, PTL DEF Spec
-----------------------------------------------------------------------------
(***************************************************************************)
(* The script, for a bucket that fills up within the hour its hash lives.  *)
(* A debt does not count: it is forgotten with the hash, which by then is  *)
(* worth a full bucket.  The hash's clock and setBack together only grow,  *)
(* and the inflow is paid for by that sum.                                 *)
(***************************************************************************)
Balance(level) == IF level < 0 THEN 0 ELSE level

ScriptPaid ==
  /\ hash = Null => Spent(paced, Full, now + setBack, ScriptDelay)
  /\ hash # Null => /\ hash.at <= now /\ hash.expires >= hash.at + Hour
                    /\ Spent(paced, Balance(hash.tokens), hash.at + setBack, ScriptDelay)
  /\ ScriptLimits

\* The script on a balance: it leaves the next one, whether its answer
\* arrives or not.
LEMMA ScriptCharges ==
  ASSUME TypeOK, Timely, ScriptPaid, NEW c \in Calls, RunScript(c)
  PROVE  ScriptPaid'
<1>1. PICK t \in Nat : t = call[c].at /\ t \in 0..MaxTime
  BY Sizes DEF TypeOK
<1>2. now \in Nat /\ setBack \in Nat /\ paced \in Seq(Nat) /\ ScriptDelay \in Nat
      /\ t <= now /\ now <= t + ScriptDelay
  BY <1>1, Sizes, Delays DEF TypeOK, Timely, RunScript
<1>3. PICK clock \in Nat : /\ clock = (IF hash = Null THEN now ELSE hash.at)
                           /\ clock <= now
  BY <1>2 DEF TypeOK, Hash, ScriptPaid
<1>4. PICK back \in Nat : back = Overtaken(t) /\ back = (IF t < clock THEN clock - t ELSE 0)
  BY <1>1, <1>3 DEF Overtaken
<1>5. PICK sum \in Nat : sum = setBack' /\ sum = setBack + back
  <2>1. setBack' = setBack + back
    BY <1>1, <1>4 DEF RunScript
  <2>2. setBack + back \in Nat
    BY <1>2, <1>4
  <2>3. QED
    BY <2>1, <2>2, Zenon
<1>6. PICK rest \in Int : rest = hash'.tokens /\ rest + One <= Full
                          /\ hash' # Null /\ hash'.at = t /\ hash'.expires = now + Hour
  BY <1>1, HashType, NoBucket DEF RunScript, Hash, ScriptedHash
<1>7. PICK read \in Nat : read = t + sum
  <2>1. t + sum \in Nat
    BY <1>1, <1>5
  <2>2. QED
    BY <2>1, Zenon
<1>8. PICK at \in Nat : at = clock + setBack
  <2>1. clock + setBack \in Nat
    BY <1>2, <1>3
  <2>2. QED
    BY <2>1, Zenon
<1>9. PICK elapsed \in Nat : elapsed = read - at /\ elapsed = t + back - clock
  <2>1. read - at = t + back - clock
    <3>1. PICK base \in Nat : base = setBack
      BY <1>2
    <3>2. sum = base + back /\ read = t + sum /\ at = clock + base
      BY <1>5, <1>7, <1>8, <3>1
    <3>3. back \in Nat /\ clock \in Nat /\ t \in Nat
      BY <1>1, <1>3, <1>4
    <3>4. QED
      BY <3>2, <3>3
  <2>2. t + back - clock \in Nat
    BY <1>1, <1>3, <1>4
  <2>3. QED
    BY <2>1, <2>2, Zenon
<1>10. PICK balance \in Nat :
         /\ Spent(paced, balance, at, ScriptDelay)
         /\ rest + One <= balance + PerHour * elapsed
  <2>1. CASE hash = Null
    <3>1. Spent(paced, Full, at, ScriptDelay)
      BY <1>3, <1>8, <2>1 DEF ScriptPaid
    <3>2. PerHour * elapsed >= 0
      BY <1>9, Sizes
    <3>3. PICK inflow \in Nat : inflow = PerHour * elapsed
      BY <3>2, <1>9, Sizes
    <3>4. rest + One <= Full + PerHour * elapsed
      BY <1>6, <3>3, Sizes
    <3>5. QED
      BY <3>1, <3>4, Sizes
  <2>2. CASE hash # Null
    <3>1. hash.tokens \in Int /\ hash.at = clock
      BY <1>3, <2>2 DEF TypeOK, Hash, ScriptPaid
    <3>2. elapsed = (IF t > hash.at THEN t - hash.at ELSE 0)
      <4>1. hash.at \in Nat /\ elapsed = t + back - clock
        BY <1>3, <1>9, <3>1
      <4>2. CASE t < clock
        BY <1>1, <1>3, <1>4, <3>1, <4>1, <4>2
      <4>3. CASE ~ (t < clock)
        BY <1>1, <1>3, <1>4, <3>1, <4>1, <4>3
      <4>4. QED
        BY <4>2, <4>3
    <3>3. rest = Taken(hash.tokens, elapsed)
      BY <1>1, <1>6, <2>2, <3>2 DEF RunScript, ScriptedHash
    <3>9. elapsed \in Int
      BY <1>9
    <3>4. rest + One <= hash.tokens + elapsed * PerHour
      BY <3>1, <3>3, <3>9, LevelType, Zenon
    <3>5. PICK inflow \in Int : inflow = elapsed * PerHour /\ inflow = PerHour * elapsed
      BY <3>9, Sizes
    <3>6. rest + One <= Balance(hash.tokens) + PerHour * elapsed
          /\ Balance(hash.tokens) \in Nat
      BY <1>6, <3>1, <3>4, <3>5, Sizes DEF Balance
    <3>7. Spent(paced, Balance(hash.tokens), at, ScriptDelay)
      BY <1>8, <2>2, <3>1 DEF ScriptPaid
    <3>8. QED
      BY <3>6, <3>7
  <2>3. QED
    BY <2>1, <2>2
<1>11. rest + One <= balance + PerHour * (read - at)
  BY <1>9, <1>10
<1>12. Limited(paced, ScriptDelay)
  BY DEF ScriptPaid, ScriptLimits
<1>13. /\ Spent(paced', Balance(rest), read, ScriptDelay)
       /\ Limited(paced', ScriptDelay)
  <2>1. CASE paced' = paced
    <3>1. PICK inflow \in Nat : inflow = PerHour * (read - at)
      BY <1>9, Sizes
    <3>2. Balance(rest) \in Int /\ Balance(rest) <= balance + PerHour * (read - at)
      BY <1>6, <1>11, <3>1, Sizes DEF Balance
    <3>3. Spent(paced, Balance(rest), read, ScriptDelay)
      BY <1>2, <1>10, <3>2, Waiting
    <3>4. QED
      BY <1>12, <2>1, <3>3
  <2>2. CASE rest >= 0 /\ paced' = Append(paced, now + setBack')
    <3>0. now + sum \in Nat
      BY <1>2, <1>5
    <3>1. PICK done \in Nat : done = now + sum
      BY <3>0, Zenon
    <3>2. read <= done /\ done <= read + ScriptDelay
      BY <1>1, <1>2, <1>5, <1>7, <3>1
    <3>6. read \in Int /\ at \in Int /\ balance \in Int
      BY <1>7, <1>8, <1>10
    <3>3. Balance(rest) = rest /\ rest \in Nat
      BY <2>2 DEF Balance
    <3>4. /\ Spent(Append(paced, done), rest, read, ScriptDelay)
          /\ Limited(Append(paced, done), ScriptDelay)
      BY <1>2, <1>6, <1>10, <1>11, <1>12, <3>2, <3>3, <3>6, Granting
    <3>5. QED
      BY <1>5, <2>2, <3>1, <3>3, <3>4
  <2>3. QED
    BY <1>6, <2>1, <2>2 DEF RunScript
<1>14. now' = now
  BY DEF RunScript
<1>15. hash'.at <= now' /\ hash'.expires >= hash'.at + Hour
  BY <1>2, <1>6, <1>14, BucketAssumption
<1>16. Spent(paced', Balance(hash'.tokens), hash'.at + setBack', ScriptDelay)
  BY <1>5, <1>6, <1>7, <1>13
<1>17. QED
  BY <1>6, <1>13, <1>15, <1>16 DEF ScriptPaid, ScriptLimits, Spent, Limited, Balance

\* Time passes: a hash that is dropped leaves its balance and what flowed in
\* during the hour, which fills the bucket.
LEMMA TimeRefills ==
  ASSUME Capacity <= PerHour, TypeOK, ScriptPaid, Tick
  PROVE  ScriptPaid'
<1>1. now \in Nat /\ now' = now + 1 /\ paced' = paced /\ setBack' = setBack
      /\ paced \in Seq(Nat) /\ setBack \in Nat
  BY Sizes DEF TypeOK, Tick, pacing
<1>2. ScriptLimits'
  BY <1>1 DEF ScriptPaid, ScriptLimits, Limited
<1>3. PICK before \in Nat, after \in Nat : before = now + setBack /\ after = now' + setBack
                                           /\ after = before + 1
  BY <1>1
<1>4. CASE hash = Null
  <2>1. hash' = Null
    BY <1>4 DEF Tick
  <2>2. PerHour * (after - before) = PerHour
    BY <1>3, Sizes
  <2>3. Spent(paced, Full, before, ScriptDelay)
    BY <1>3, <1>4 DEF ScriptPaid
  <2>4. Full <= Full + PerHour * (after - before)
    BY <2>2, Sizes
  <2>5. Spent(paced, Full, after, ScriptDelay)
    BY <1>1, <2>3, <2>4, Sizes, Waiting, BucketAssumption
  <2>6. QED
    BY <1>1, <1>2, <1>3, <2>1, <2>5 DEF ScriptPaid, Spent
<1>5. CASE hash # Null /\ hash' = hash
  BY <1>1, <1>2, <1>5 DEF ScriptPaid, Spent, TypeOK, Hash
<1>6. CASE hash # Null /\ hash' = Null
  <2>1. hash.at \in Nat /\ hash.tokens \in Int /\ now' >= hash.at + Hour
    BY <1>1, <1>6, NoBucket, BucketAssumption DEF Tick, TypeOK, Hash, ScriptPaid
  <2>2. PICK hour \in Nat : hour = Hour /\ Hour \in Nat
    BY BucketAssumption
  <2>3. PICK at \in Nat : at = hash.at + setBack
    BY <1>1, <2>1
  <2>4. PICK waited \in Nat : waited = after - at /\ waited >= hour
    BY <1>1, <1>3, <2>1, <2>2, <2>3
  <2>5. Full <= PerHour * waited
    <3>1. Capacity \in Nat /\ PerHour \in Nat
      BY BucketAssumption
    <3>2. Capacity * hour <= PerHour * hour
      BY <2>2, <3>1
    <3>3. PerHour * hour <= PerHour * waited
      BY <2>2, <2>4, <3>1
    <3>4. Full = Capacity * hour
      BY <2>2 DEF Full, One
    <3>5. QED
      BY <2>2, <2>4, <3>1, <3>2, <3>3, <3>4
  <2>6. Balance(hash.tokens) \in Nat /\ Full <= Balance(hash.tokens) + PerHour * (after - at)
    BY <2>1, <2>4, <2>5, Sizes DEF Balance
  <2>7. Spent(paced, Balance(hash.tokens), at, ScriptDelay)
    BY <1>6, <2>3 DEF ScriptPaid
  <2>8. Spent(paced, Full, after, ScriptDelay)
    BY <1>1, <2>6, <2>7, Sizes, Waiting, BucketAssumption
  <2>9. QED
    BY <1>1, <1>2, <1>3, <1>6, <2>8 DEF ScriptPaid, Spent
<1>7. QED
  BY <1>4, <1>5, <1>6 DEF Tick

LEMMA StepKeepsScriptPaid ==
  ASSUME Capacity <= PerHour
  PROVE  TypeOK /\ Timely /\ ScriptPaid /\ [Next]_vars => ScriptPaid'
<1> SUFFICES ASSUME TypeOK, Timely, ScriptPaid, [Next]_vars PROVE ScriptPaid'
  OBVIOUS
<1>1. ASSUME UNCHANGED <<hash, now, setBack, paced>> PROVE ScriptPaid'
  BY <1>1 DEF ScriptPaid, ScriptLimits, Spent, Limited
<1>2. ASSUME NEW c \in Calls, Ask(c) \/ SkipScript(c) \/ RunUpsert(c) \/ FailOpen(c)
      PROVE  UNCHANGED <<hash, now, setBack, paced>>
  BY <1>2 DEF Ask, SkipScript, RunUpsert, FailOpen, pacing
<1>3. CASE UNCHANGED vars
  BY <1>1, <1>3 DEF vars
<1>4. QED
  BY <1>1, <1>2, <1>3, ScriptCharges, TimeRefills DEF Next

\* The bucket in Valkey lets no more through either, although its debts expire
\* and calls reach it in any order of their clocks, but for the inflow of the
\* ticks by which overtaken calls set its clock back: for a capacity of at most
\* an hour's inflow, which every caller has.
THEOREM ScriptIsLimited ==
  ASSUME Capacity <= PerHour
  PROVE  Spec => []ScriptLimits
<1>1. Init => ScriptPaid
  BY DEF Init, ScriptPaid, ScriptLimits, Limited, Spent
<1>2. ScriptPaid => ScriptLimits
  BY DEF ScriptPaid
<1>3. TypeOK /\ Timely /\ ScriptPaid /\ [Next]_vars => ScriptPaid'
  BY StepKeepsScriptPaid
<1>4. QED
  BY <1>1, <1>2, <1>3, UpsertStart, StepKeepsTypes, StepKeepsTimely, PTL DEF Spec
=============================================================================
