------------------------------ MODULE Accounts ------------------------------
(***************************************************************************)
(* Who a player is: the device cookie that every request resolves or       *)
(* mints, the session cache in front of it, sign-in by a mailed link,      *)
(* which promotes the device's user or merges it into the account of the   *)
(* mailbox, logout on one or all devices, and handles.  Plays and streaks  *)
(* are here as far as a merge moves them.                                  *)
(*                                                                         *)
(* Each action is a statement of Postgres, a call of the cache, or the     *)
(* arrival of the answer.  A merge is one transaction; it is three         *)
(* actions, because statements of other requests come between its moves    *)
(* and its last DELETE, and locks decide which of them wait.               *)
(***************************************************************************)
EXTENDS Integers, FiniteSets

CONSTANTS
  MaxUsers,    \* bound on users, and on cookies, ever minted
  Emails,
  Devices,     \* browsers, each with a cookie jar
  Reqs,        \* requests that can be in flight at once
  VerbsOf,     \* VerbsOf[q]: what requests in slot q ask for
  Handles,     \* handles a player can ask for
  Today,       \* the puzzle of the day
  PastDays,    \* how many days in a row the account of user 1 has played at the start
  MaxLinks,    \* bound on links mailed
  MaxCalls,    \* bound on requests
  MaxFaults    \* bound on cancelled requests, failed statements and lost Dels

None  == "none"
Kinds == {"play", "request", "consume", "logout", "logout-all", "handle"}

ASSUME AccountsAssumption ==
  /\ VerbsOf \in [Reqs -> SUBSET Kinds]
  /\ None \notin Emails \cup Handles
  /\ MaxUsers \in Nat \ {0} /\ Today \in Nat \ {0}
  /\ PastDays \in 0..(Today - 1)
  /\ MaxLinks \in Nat /\ MaxCalls \in Nat /\ MaxFaults \in Nat

Verbs == UNION {VerbsOf[q] : q \in Reqs}
Ids   == 1..MaxUsers    \* users; the cookie minted with user n is cookie n
Links == 1..MaxLinks

VARIABLES
  user,     \* user[id]: the users row
  owner,    \* owner[c]: the user of the device_cookies row of cookie c, 0 without one
  jar,      \* jar[d]: the cookie of a browser, 0 without one
  cache,    \* cache[c]: the user stored under the cookie's hash, if any, as a set
  link,     \* link[l]: the magic_links row
  play,     \* the plays rows
  streak,   \* streak[id]: the streaks row
  req,      \* req[q]: a request between two of its statements
  stale,    \* the cookies whose cached user may be out of date, for CachedUserCurrent
  calls,    \* requests so far
  faults    \* faults so far

\* The streak rules that PlayLoop uses too.
Game == INSTANCE GameRules WITH Users <- Ids, LastPuzzle <- Today, NRounds <- 1, Null <- None

rows == <<user, owner, link, play, streak>>
vars == <<user, owner, jar, cache, link, play, streak, req, stale, calls, faults>>

-----------------------------------------------------------------------------
(***************************************************************************)
(* Rows.                                                                   *)
(***************************************************************************)
Unborn  == [state |-> "unborn", email |-> None, handle |-> None]
Deleted == [state |-> "deleted", email |-> None, handle |-> None]
Anonymous == [state |-> "present", email |-> None, handle |-> None]

UserRow == [state : {"present"}, email : Emails \cup {None}, handle : Handles \cup {None}]
LinkRow == [state : {"sent", "dead"}, email : Emails]
NoLink  == [state |-> "unsent", email |-> None]

\* A play keeps its id, here its first user and its puzzle, when it moves.
PlayRow == [by : Ids, puzzle : 1..Today, user : Ids, done : BOOLEAN]

Present   == {id \in Ids : user[id].state = "present"}
PlaysOf(id) == {p \in play : p.user = id}

\* What UserByCookieHash returns and the cache stores.
Blob(id) == [id |-> id, email |-> user[id].email, handle |-> user[id].handle]
Blobs    == [id : Ids, email : Emails \cup {None}, handle : Handles \cup {None}]

\* UserByEmail, as a set of at most one user.
UserByEmail(e) == {id \in Present : user[id].email = e}

-----------------------------------------------------------------------------
(***************************************************************************)
(* A request between two of its statements.  cookie is the one it          *)
(* presented and sets the one its answer sets, which differ when the       *)
(* middleware minted; me is the user in its context; play is the id of its *)
(* play; moved are the cookies, the plays and the streak that its merge    *)
(* has moved or deleted so far.                                            *)
(***************************************************************************)
Idle == [pc |-> "idle"]

NoRows == [cookies |-> {}, dropped |-> {}, plays |-> {}, streak |-> Game!NoStreak]

Call(verb, d, link_, pc) ==
  [verb |-> verb, device |-> d, link |-> link_, pc |-> pc, cookie |-> jar[d], sets |-> jar[d],
   got |-> {}, me |-> 0, target |-> 0, play |-> 0, moved |-> NoRows, alone |-> TRUE]

Active == {q \in Reqs : req[q].pc # "idle"}

At(q, pc) == req[q].pc = pc

Goto(q, pc) == req' = [req EXCEPT ![q].pc = pc]

\* Merges begun and not committed.
Merging == {q \in Reqs : req[q].pc \in {"plays", "drop"}}

\* Rows that an uncommitted merge has changed; other writers wait.
CookieLocked(c) == \E q \in Merging : c \in req[q].moved.cookies
PlayLocked(p)   == \E q \in Merging : p \in req[q].moved.dropped \cup req[q].moved.plays
StreakLocked(id) ==
  \E q \in Reqs : /\ At(q, "drop") /\ req[q].moved.streak # Game!NoStreak
                   /\ id \in {req[q].me, req[q].target}

\* A user's place for a puzzle that an uncommitted move takes.
PlaceTaken(id, n) ==
  \E q \in Merging : req[q].target = id /\ \E p \in req[q].moved.plays : p.puzzle = n

\* The cookies whose cached user a write of request q makes out of date for
\* longer than the request: those of other devices, and its own if another
\* request is about to store what it read before.
Outdated(q, changed) ==
  {c \in changed : c # req[q].cookie \/ \E r \in Reqs \ {q} : At(r, "store") /\ req[r].cookie = c}

CookiesOf(id) == {c \in Ids : owner[c] = id}

\* An entry that goes makes its cookie current again, unless a request is
\* about to store what it read before.
Refreshed(c) == IF \E r \in Reqs : At(r, "store") /\ req[r].cookie = c THEN stale ELSE stale \ {c}

-----------------------------------------------------------------------------
(***************************************************************************)
(* The session middleware, users/session.go.                               *)
(***************************************************************************)
\* A browser sends a request: no cookie, a cookie whose user is cached, or
\* one to look up (not cached, the five minutes of the entry are over, or the
\* cache does not answer).
Resolve(q, verb, d, l) ==
  LET c    == jar[d]
      call == Call(verb, d, l, "lookup")
      others == [r \in Reqs |-> IF r \in Active THEN [req[r] EXCEPT !.alone = FALSE] ELSE Idle]
      fresh  == [call EXCEPT !.alone = (Active = {} /\ c \notin stale)]
  IN  /\ req[q] = Idle /\ calls < MaxCalls
      /\ calls' = calls + 1
      /\ \/ c = 0 /\ req' = [others EXCEPT ![q] = [fresh EXCEPT !.pc = "mint"]]
         \/ c # 0 /\ req' = [others EXCEPT ![q] = fresh]
         \/ /\ c # 0
            /\ \E b \in cache[c] : req' = [others EXCEPT ![q] = [fresh EXCEPT !.pc = verb, !.me = b.id]]
      /\ UNCHANGED <<rows, jar, cache, stale, faults>>

\* The user of the cookie, or a new identity for a cookie nobody knows.
UserByCookieHash(q) ==
  LET c == req[q].cookie
  IN  /\ At(q, "lookup")
      /\ req' = [req EXCEPT ![q] = IF owner[c] # 0 THEN [@ EXCEPT !.pc = "store", !.got = {Blob(owner[c])}]
                                   ELSE [@ EXCEPT !.pc = "mint"]]
      /\ UNCHANGED <<rows, jar, cache, stale, calls, faults>>

\* storeUserInCache; the cache may not take it.
StoreUserInCache(q) ==
  LET c == req[q].cookie
  IN  /\ At(q, "store")
      /\ cache' \in {cache, [cache EXCEPT ![c] = req[q].got]}
      /\ \E b \in req[q].got : req' = [req EXCEPT ![q].pc = req[q].verb, ![q].me = b.id, ![q].got = {}]
      /\ UNCHANGED <<rows, jar, stale, calls, faults>>

\* CreateAnonymousUser, InsertDeviceCookie and the store: nobody else knows
\* the new cookie yet.
Mint(q) ==
  LET unborn == {id \in Ids : user[id] = Unborn}
  IN  /\ At(q, "mint")
      /\ \E id \in unborn :
           /\ \A other \in unborn : id <= other
           /\ user' = [user EXCEPT ![id] = Anonymous]
           /\ owner' = [owner EXCEPT ![id] = id]
           /\ cache' \in {cache, [cache EXCEPT ![id] =
                            {[id |-> id, email |-> None, handle |-> None]}]}
           /\ req' = [req EXCEPT ![q].pc = req[q].verb, ![q].me = id, ![q].sets = id]
      /\ UNCHANGED <<jar, link, play, streak, stale, calls, faults>>

\* The answer arrives: the middleware sets the cookie on every one, logout
\* clears it.
Respond(q) ==
  /\ At(q, "respond")
  /\ jar' = [jar EXCEPT ![req[q].device] =
               IF req[q].verb \in {"logout", "logout-all"} THEN 0 ELSE req[q].sets]
  /\ req' = [req EXCEPT ![q] = Idle]
  /\ UNCHANGED <<rows, cache, stale, calls, faults>>

-----------------------------------------------------------------------------
(***************************************************************************)
(* Playing, as far as it matters here: PlayLoop has the rest.              *)
(***************************************************************************)
\* CreateOrGetPlay; a deleted user is refused by the foreign key, and a play
\* that a merge takes to the user, or away, is waited for.
OpenPlay(q) ==
  LET me   == req[q].me
      mine == {p \in PlaysOf(me) : p.puzzle = Today}
      new  == [by |-> me, puzzle |-> Today, user |-> me, done |-> FALSE]
  IN  /\ At(q, "play") /\ ~PlaceTaken(me, Today) /\ \A p \in mine : ~PlayLocked(p)
      /\ \/ me \notin Present /\ Goto(q, "respond") /\ UNCHANGED play
         \/ /\ me \in Present
            /\ play' = IF mine = {} THEN play \cup {new} ELSE play
            /\ \E p \in play' : /\ p.user = me /\ p.puzzle = Today
                               /\ req' = [req EXCEPT ![q].pc = "answer", ![q].play = p.by]
      /\ UNCHANGED <<user, owner, jar, cache, link, streak, stale, calls, faults>>

\* The last guess of the day: CompletePlay, by the play's id and for the user
\* that it belongs to by now.
CompletePlay(q) ==
  /\ At(q, "answer")
  /\ \E p \in play :
       /\ p.by = req[q].play /\ p.puzzle = Today /\ ~p.done
       /\ ~PlayLocked(p) /\ ~StreakLocked(p.user)
       /\ play' = (play \ {p}) \cup {[p EXCEPT !.done = TRUE]}
       /\ streak' = [streak EXCEPT ![p.user] = Game!Advance(@, p.puzzle)]
  /\ Goto(q, "respond")
  /\ UNCHANGED <<user, owner, jar, cache, link, stale, calls, faults>>

\* The player leaves the round open.
LeavePlay(q) ==
  /\ At(q, "answer")
  /\ Goto(q, "respond")
  /\ UNCHANGED <<rows, jar, cache, stale, calls, faults>>

-----------------------------------------------------------------------------
(***************************************************************************)
(* Sign-in, httpx/auth_handlers.go and db/auth.go.                         *)
(***************************************************************************)
\* A link is recorded and mailed, or a rate limit stops it and the answer is
\* the same; who opens it has the mailbox.
InsertMagicLink(q) ==
  LET unsent == {l \in Links : link[l] = NoLink}
  IN  /\ At(q, "request")
      /\ \/ UNCHANGED link
         \/ \E l \in unsent, e \in Emails :
              /\ \A other \in unsent : l <= other
              /\ link' = [link EXCEPT ![l] = [state |-> "sent", email |-> e]]
      /\ Goto(q, "respond")
      /\ UNCHANGED <<user, owner, jar, cache, play, streak, stale, calls, faults>>

\* A link works once, unless its fifteen minutes are over.
ConsumeMagicLink(q) ==
  LET l == req[q].link
  IN  /\ At(q, "consume")
      /\ \/ link[l].state = "sent" /\ Goto(q, "email")
         \/ Goto(q, "respond")
      /\ link' = [link EXCEPT ![l].state = "dead"]
      /\ UNCHANGED <<user, owner, jar, cache, play, streak, stale, calls, faults>>

\* Mutant of LookUpEmail: an account that exists needs no merge.
LookUpOnly(q) ==
  /\ At(q, "email")
  /\ Goto(q, IF UserByEmail(link[req[q].link].email) = {} THEN "promote" ELSE "evict")
  /\ UNCHANGED <<rows, jar, cache, stale, calls, faults>>

\* Is there an account of that mailbox, and is it the one at hand?
LookUpEmail(q) ==
  LET found == UserByEmail(link[req[q].link].email)
  IN  /\ At(q, "email")
      /\ \/ found = {} /\ Goto(q, "promote")
         \/ \E t \in found :
              req' = [req EXCEPT ![q].target = t, ![q].pc = IF t = req[q].me THEN "evict" ELSE "merge"]
      /\ UNCHANGED <<rows, jar, cache, stale, calls, faults>>

\* SetEmailOnUser: the unique index refuses a mailbox that got another account
\* meanwhile; a user that is gone is not noticed.
SetEmailOnUser(q) ==
  LET me == req[q].me
      e  == link[req[q].link].email
      others == UserByEmail(e) \ {me}
  IN  /\ At(q, "promote")
      /\ \A r \in Merging : req[r].target # me
      /\ IF me \in Present /\ others = {}
         THEN /\ user' = [user EXCEPT ![me].email = e]
              /\ stale' = stale \cup Outdated(q, CookiesOf(me))
         ELSE UNCHANGED <<user, stale>>
      /\ Goto(q, IF me \in Present /\ others # {} THEN "respond" ELSE "evict")
      /\ UNCHANGED <<owner, jar, cache, link, play, streak, calls, faults>>

\* The attempts at a puzzle that the target has played too.
Twice(me, target) ==
  {p \in PlaysOf(me) : \E t \in PlaysOf(target) : t.puzzle = p.puzzle}

\* MergeUsers begins: the cookies move and those attempts are deleted.  It
\* waits for a merge of the same user; a target that is gone fails on the
\* foreign keys.
MoveCookies(q) ==
  LET me == req[q].me
      t  == req[q].target
  IN  /\ At(q, "merge")
      /\ \A r \in Merging : req[r].me # me
      /\ \/ /\ t \in Present
            /\ req' = [req EXCEPT ![q].pc = "plays",
                                  ![q].moved = [cookies |-> CookiesOf(me), dropped |-> Twice(me, t),
                                                plays |-> {}, streak |-> Game!NoStreak]]
         \/ t \notin Present /\ Goto(q, "respond")
      /\ UNCHANGED <<rows, jar, cache, stale, calls, faults>>

\* The other plays and the streak move, and everything else up to the last
\* DELETE.  A play on its way to the target is waited for, and the unique index
\* refuses a puzzle that the target has opened meanwhile; foreign keys may
\* refuse the merge, too (a duplicate decoy that a round refers to).
MovePlays(q) ==
  LET me    == req[q].me
      t     == req[q].target
      moved == PlaysOf(me) \ req[q].moved.dropped
  IN  /\ At(q, "plays")
      /\ \A p \in moved : ~PlaceTaken(t, p.puzzle)
      /\ \/ /\ moved \cap Twice(me, t) = {}
            /\ req' = [req EXCEPT ![q].pc = "drop", ![q].moved.plays = moved, ![q].moved.streak = streak[me]]
         \/ req' = [req EXCEPT ![q].pc = "respond", ![q].moved = NoRows]
      /\ UNCHANGED <<rows, jar, cache, stale, calls, faults>>

\* The merged streak, column by column.
Greater(m, n) == IF m >= n THEN m ELSE n

MergedStreak(mine, theirs) ==
  [current |-> Greater(mine.current, theirs.current),
   longest |-> Greater(mine.longest, theirs.longest),
   last    |-> Greater(mine.last, theirs.last)]

\* Mutant of Arriving: the plays stay with the user that is deleted.
NothingArrives(q) == {}

\* Mutant of Arriving: the plays arrive unchanged.
PlaysUnchanged(q) == req[q].moved.plays

\* The plays as they arrive at the target.
Arriving(q) == {[p EXCEPT !.user = req[q].target] : p \in req[q].moved.plays}

\* DELETE users and COMMIT.  The cookies, plays and streak that the user has
\* got since go with it.  The DELETE waits for a merge into this user.
CommitMerge(q) ==
  LET me == req[q].me
      t  == req[q].target
      cs == req[q].moved.cookies
  IN  /\ At(q, "drop")
      /\ \A r \in Merging : req[r].target # me
      /\ user' = [user EXCEPT ![me] = IF me \in Present THEN Deleted ELSE @]
      /\ owner' = [c \in Ids |-> IF c \in cs THEN t ELSE IF owner[c] = me THEN 0 ELSE owner[c]]
      /\ play' = (play \ PlaysOf(me)) \cup Arriving(q)
      /\ streak' = [streak EXCEPT ![t] = MergedStreak(req[q].moved.streak, @), ![me] = Game!NoStreak]
      /\ stale' = stale \cup Outdated(q, cs \cup CookiesOf(me))
      /\ req' = [req EXCEPT ![q].pc = "evict", ![q].moved = NoRows]
      /\ UNCHANGED <<jar, cache, link, calls, faults>>

-----------------------------------------------------------------------------
(***************************************************************************)
(* Logout and handles.                                                     *)
(***************************************************************************)
\* DeleteDeviceCookie of the cookie presented, if any: an error is logged and
\* the logout goes on.
DeleteDeviceCookie(q) ==
  LET c == req[q].cookie
  IN  /\ At(q, "logout")
      /\ ~CookieLocked(c)
      /\ \/ /\ owner' = [d \in Ids |-> IF d = c THEN 0 ELSE owner[d]]
            /\ stale' = stale \cup Outdated(q, {c} \ {0})
            /\ UNCHANGED faults
         \/ /\ faults < MaxFaults /\ faults' = faults + 1
            /\ UNCHANGED <<owner, stale>>
      /\ Goto(q, "evict")
      /\ UNCHANGED <<user, jar, cache, link, play, streak, calls>>

\* Logout on all devices: the rows go, but for an error, which is logged; the
\* cached users stay until they expire.
DeleteAllDeviceCookies(q) ==
  LET gone == CookiesOf(req[q].me)
  IN  /\ At(q, "logout-all")
      /\ \A c \in gone : ~CookieLocked(c)
      /\ \/ /\ owner' = [c \in Ids |-> IF c \in gone THEN 0 ELSE owner[c]]
            /\ stale' = stale \cup gone
            /\ UNCHANGED faults
         \/ /\ faults < MaxFaults /\ faults' = faults + 1
            /\ UNCHANGED <<owner, stale>>
      /\ Goto(q, "respond")
      /\ UNCHANGED <<user, jar, cache, link, play, streak, calls>>

\* Mutant of SetHandle: the cached user stays.
SetHandleOnly(q) ==
  LET me == req[q].me
  IN  /\ At(q, "handle")
      /\ \A r \in Merging : req[r].target # me
      /\ \E h \in Handles :
           IF me \in Present /\ \E id \in Present \ {me} : user[id].handle = h
           THEN Goto(q, "respond") /\ UNCHANGED <<user, stale>>
           ELSE /\ user' = [user EXCEPT ![me].handle = IF me \in Present THEN h ELSE @]
                /\ stale' = stale \cup Outdated(q, CookiesOf(me))
                /\ Goto(q, "respond")
      /\ UNCHANGED <<owner, jar, cache, link, play, streak, calls, faults>>

\* SetHandle: a handle that is taken is refused, a user that is gone is not
\* noticed.
SetHandle(q) ==
  LET me == req[q].me
  IN  /\ At(q, "handle")
      /\ \A r \in Merging : req[r].target # me
      /\ \E h \in Handles :
           IF me \in Present /\ \E id \in Present \ {me} : user[id].handle = h
           THEN Goto(q, "respond") /\ UNCHANGED <<user, stale>>
           ELSE /\ user' = [user EXCEPT ![me].handle = IF me \in Present THEN h ELSE @]
                /\ stale' = stale \cup Outdated(q, CookiesOf(me))
                /\ Goto(q, "evict")
      /\ UNCHANGED <<owner, jar, cache, link, play, streak, calls, faults>>

\* InvalidateCookieHash, for the cookie that the request presented, if any;
\* the Del may be lost.
InvalidateCookieHash(q) ==
  LET c == req[q].cookie
  IN  /\ At(q, "evict")
      /\ \/ c = 0 /\ UNCHANGED <<cache, stale, faults>>
         \/ /\ c # 0
            /\ cache' = [cache EXCEPT ![c] = {}]
            /\ stale' = Refreshed(c)
            /\ UNCHANGED faults
         \/ /\ c # 0 /\ faults < MaxFaults /\ faults' = faults + 1
            /\ stale' = stale \cup {c}
            /\ UNCHANGED cache
      /\ Goto(q, "respond")
      /\ UNCHANGED <<rows, jar, calls>>

-----------------------------------------------------------------------------
\* The client goes away, or a statement fails (Postgres aborts one of two
\* merges into each other), and the rest of the request does not happen.
Cancel(q) ==
  /\ q \in Active /\ faults < MaxFaults
  /\ faults' = faults + 1
  /\ req' = [req EXCEPT ![q] = Idle]
  /\ stale' = IF At(q, "evict") THEN stale \cup ({req[q].cookie} \ {0}) ELSE stale
  /\ UNCHANGED <<rows, jar, cache, calls>>

-----------------------------------------------------------------------------
\* Nobody yet, or one account on one device that has played PastDays days;
\* links may have been mailed to one address.
Init ==
  /\ \E first \in {Unborn} \cup [state : {"present"}, email : Emails, handle : {None}] :
       LET born == first # Unborn
       IN  /\ user = [id \in Ids |-> IF id = 1 THEN first ELSE Unborn]
           /\ owner = [c \in Ids |-> IF c = 1 /\ born THEN 1 ELSE 0]
           /\ \E d \in Devices : jar = [e \in Devices |-> IF e = d /\ born THEN 1 ELSE 0]
           /\ play = IF born THEN {[by |-> 1, puzzle |-> n, user |-> 1, done |-> TRUE] : n \in 1..PastDays}
                     ELSE {}
           /\ streak = [id \in Ids |-> IF id = 1 /\ born /\ PastDays > 0
                                       THEN [current |-> PastDays, longest |-> PastDays, last |-> PastDays]
                                       ELSE Game!NoStreak]
  /\ cache = [c \in Ids |-> {}]
  /\ \E mailed \in 0..MaxLinks, e \in Emails :
       link = [l \in Links |-> IF l <= mailed THEN [state |-> "sent", email |-> e] ELSE NoLink]
  /\ req = [q \in Reqs |-> Idle]
  /\ stale = {}
  /\ calls = 0
  /\ faults = 0

\* Links that somebody has in their mailbox.
Mailed == {l \in Links : link[l] # NoLink}

Send(q) ==
  \E d \in Devices :
    \/ \E verb \in VerbsOf[q] \ {"consume"} : Resolve(q, verb, d, 0)
    \/ "consume" \in VerbsOf[q] /\ \E l \in Mailed : Resolve(q, "consume", d, l)

Handler(q) ==
  \/ OpenPlay(q) \/ CompletePlay(q) \/ LeavePlay(q)
  \/ InsertMagicLink(q) \/ ConsumeMagicLink(q) \/ LookUpEmail(q) \/ SetEmailOnUser(q)
  \/ MoveCookies(q) \/ MovePlays(q) \/ CommitMerge(q)
  \/ DeleteDeviceCookie(q) \/ DeleteAllDeviceCookies(q) \/ SetHandle(q) \/ InvalidateCookieHash(q)

Next ==
  \/ \E q \in Reqs : \/ Send(q) \/ UserByCookieHash(q) \/ StoreUserInCache(q) \/ Mint(q)
                     \/ Handler(q) \/ Respond(q) \/ Cancel(q)

Spec == Init /\ [][Next]_vars

-----------------------------------------------------------------------------
(***************************************************************************)
(* Properties.                                                             *)
(***************************************************************************)
StreakRow == [current : Nat, longest : Nat, last : 0..Today]

RequestRow ==
  [verb : Verbs, device : Devices, link : Links \cup {0},
   pc : {"lookup", "store", "mint", "respond", "play", "answer", "request", "consume", "email",
         "promote", "merge", "plays", "drop", "logout", "logout-all", "handle", "evict"},
   cookie : Ids \cup {0}, sets : Ids \cup {0}, got : SUBSET Blobs, me : Ids \cup {0}, target : Ids \cup {0},
   play : Ids \cup {0}, alone : BOOLEAN,
   moved : [cookies : SUBSET Ids, dropped : SUBSET PlayRow, plays : SUBSET PlayRow, streak : StreakRow]]

\* Types, and the foreign keys: cookies and plays belong to users there are.
TypeOK ==
  /\ user \in [Ids -> UserRow \cup {Unborn, Deleted}]
  /\ owner \in [Ids -> Present \cup {0}]
  /\ jar \in [Devices -> Ids \cup {0}]
  /\ cache \in [Ids -> SUBSET Blobs] /\ \A c \in Ids : Cardinality(cache[c]) <= 1
  /\ link \in [Links -> LinkRow \cup {NoLink}]
  /\ \A p \in play : p \in PlayRow /\ p.user \in Present
  /\ streak \in [Ids -> StreakRow]
  /\ req \in [Reqs -> RequestRow \cup {Idle}]
  /\ stale \subseteq Ids
  /\ calls \in 0..MaxCalls /\ faults \in 0..MaxFaults

\* The user that the cache answers for a cookie is the one Postgres has, with
\* the email and the handle of Postgres, except while the request that made
\* the change is about to say so, and until the entry expires after a change
\* by a request that presented another cookie, a read-through that overlapped
\* the change, or a Del that was lost (users/session.go:66-69).
CachedUserCurrent ==
  \A c \in Ids :
    \/ c \in stale \/ \E q \in Reqs : At(q, "evict") /\ req[q].cookie = c
    \/ \A b \in cache[c] : owner[c] # 0 /\ b = Blob(owner[c])

\* A puzzle that has been finished stays finished: the user that a cookie
\* resolves to goes on having the play, or a merge brings it to the user that
\* the cookie resolves to then, whoever guesses, opens plays and merges
\* meanwhile.  Excepted are a puzzle that the target of the merge has a play of,
\* which stands instead, finished or not (db/auth.go:98-101); and one that was
\* opened and finished after the merge had moved the plays, which the DELETE of
\* the user cascades to.
FinishedIsKept ==
  [][\A c \in Ids : owner[c] # 0 /\ owner'[c] # 0 =>
       \A p \in PlaysOf(owner[c]) : p.done =>
         \/ \E t \in play' : /\ t.user = owner'[c] /\ t.puzzle = p.puzzle
                             /\ t.done \/ t \in play
         \/ \E q \in Reqs : /\ At(q, "drop") /\ req[q].me = owner[c]
                            /\ \A m \in req[q].moved.dropped \cup req[q].moved.plays : m.puzzle # p.puzzle
    ]_vars

\* A sign-in that no other request overlapped, and that did not begin with an
\* outdated cached user, ends with the cookie at the account of the mailbox.
SignInBinds ==
  \A q \in Reqs :
    At(q, "evict") /\ req[q].verb = "consume" /\ req[q].alone =>
      owner[req[q].sets] \in UserByEmail(link[req[q].link].email)

\* "the redirect's next request hits Postgres and sees the signed-in identity
\* immediately, not after the TTL expires" (httpx/auth_handlers.go:174-175):
\* after a sign-in that nothing overlapped and nothing failed in, the cache
\* has no other user under the cookie that the answer sets.
SignedInAtOnce ==
  \A q \in Reqs :
    LET c == req[q].sets
    IN  At(q, "respond") /\ req[q].verb = "consume" /\ req[q].alone /\ faults = 0
        /\ owner[c] \in UserByEmail(link[req[q].link].email) =>
          cache[c] \subseteq {Blob(owner[c])}
=============================================================================
