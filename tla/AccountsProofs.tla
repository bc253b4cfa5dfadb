--------------------------- MODULE AccountsProofs ---------------------------
(***************************************************************************)
(* Who a cookie is, whom the cache says it is and which plays its user     *)
(* has, for any numbers of users, browsers, requests, links and faults.    *)
(***************************************************************************)
EXTENDS Accounts, FiniteSetTheorems, TLAPS

-----------------------------------------------------------------------------
(***************************************************************************)
(* The inductive invariant.                                                *)
(***************************************************************************)
\* The cookie of a user who has been minted.
Born(c) == user[c] # Unborn

\* User id has owned cookie c, and does so unless the cookie's row is gone or
\* a merge has deleted the user.
Knows(c, id) == id \in Ids /\ Born(id) /\ (id \in Present => owner[c] \in {0, id})

\* Nothing refers to a cookie before it is minted, and the user that is cached
\* under a cookie has owned it.
BornFit ==
  /\ \A c \in Ids : /\ owner[c] # 0 \/ cache[c] # {} => Born(c)
                    /\ \A b \in cache[c] : Knows(c, b.id)
  /\ \A d \in Devices : jar[d] # 0 => Born(jar[d])

Resolving == {"lookup", "store", "mint"}
SigningIn == {"consume", "email", "promote", "merge", "plays", "drop"}

\* What request x knows at each of its statements: past the middleware it has
\* a user who has owned the cookie that the answer will set.
LocalFit(x) ==
  /\ x.cookie # 0 => Born(x.cookie)
  /\ x.sets # 0 => Born(x.sets)
  /\ x.pc \in {"lookup", "store"} => x.cookie # 0 /\ x.sets = x.cookie
  /\ x.pc = "store" => \E b \in Blobs : x.got = {b} /\ Knows(x.cookie, b.id)
  /\ x.pc \notin Resolving => x.me # 0 /\ x.sets # 0 /\ Knows(x.sets, x.me)
  /\ x.verb = "consume" => x.link \in Mailed
  /\ x.pc \in SigningIn => x.verb = "consume"
  /\ x.pc = "handle" => x.verb = "handle"
  /\ x.pc = "logout" => x.verb = "logout"
  /\ x.pc \in {"merge", "plays", "drop"} => x.target # 0 /\ x.target # x.me

LocalsFit == \A q \in Reqs : req[q] # Idle => LocalFit(req[q])

Typed == TypeOK /\ BornFit /\ LocalsFit

\* Some play among ps is of puzzle n.
Played(ps, n) == \E p \in ps : p.puzzle = n

\* A merge x goes into a user who is there, the cookies it moves are still its
\* user's, it is the only one of its user, and the target has a play of every
\* puzzle that it drops.
MergeFit(x) ==
  /\ x.target \in Present
  /\ x.moved.cookies \subseteq CookiesOf(x.me)
  /\ \A p \in x.moved.dropped : Played(PlaysOf(x.target), p.puzzle)

MergesFit ==
  /\ \A q \in Merging : MergeFit(req[q])
  /\ \A q, r \in Merging : req[q].me = req[r].me => q = r

\* A user has one play of a puzzle.  What a merge has moved or dropped is still
\* its user's, and the places of what it moves stay free: no other merge moves
\* a play of the same puzzle to the same target.
OnePlay == \A p, o \in play : p.user = o.user /\ p.puzzle = o.puzzle => p = o

MoveFit(x) ==
  /\ x.moved.dropped \cup x.moved.plays \subseteq PlaysOf(x.me)
  /\ \A p \in x.moved.plays : ~Played(PlaysOf(x.target), p.puzzle)

PlaysFit ==
  /\ OnePlay
  /\ \A q \in Merging : MoveFit(req[q])
  /\ \A q, r \in Merging : q # r /\ req[q].target = req[r].target =>
       \A p \in req[q].moved.plays : ~Played(req[r].moved.plays, p.puzzle)

\* What a request is about to store is current, like what is cached.
StoresFit ==
  \A q \in Reqs : At(q, "store") =>
    \/ req[q].cookie \in stale
    \/ owner[req[q].cookie] # 0 /\ req[q].got = {Blob(owner[req[q].cookie])}

\* Nothing changes behind the back of a request that is alone.
AloneFit ==
  \A q \in Active : req[q].alone =>
    LET x == req[q]
        account == UserByEmail(link[x.link].email)
    IN  /\ Active = {q}
        /\ x.pc = "store" => \A b \in x.got : b.id = owner[x.cookie]
        /\ x.verb = "consume" =>
             /\ x.pc \in SigningIn => owner[x.sets] = x.me
             /\ x.pc \in {"merge", "plays", "drop"} => x.target \in account
             /\ x.pc \in {"plays", "drop"} => x.sets \in x.moved.cookies
             /\ x.pc = "evict" => owner[x.sets] \in account

-----------------------------------------------------------------------------
(***************************************************************************)
(* Rows and requests.                                                      *)
(***************************************************************************)
LEMMA Sizes ==
  /\ MaxUsers \in Nat /\ MaxLinks \in Nat /\ Today \in Nat /\ MaxCalls \in Nat /\ MaxFaults \in Nat
  /\ Ids \subseteq Nat \ {0} /\ 1 \in Ids /\ Today \in 1..Today
  /\ None \notin Emails /\ None \notin Handles
BY AccountsAssumption DEF Ids

LEMMA States ==
  /\ Unborn # Deleted /\ Unborn \notin UserRow /\ Deleted \notin UserRow /\ Anonymous \in UserRow
  /\ TypeOK => \A id \in Ids : /\ id \in Present <=> user[id] \in UserRow
                               /\ user[id] \in UserRow \cup {Unborn, Deleted}
BY DEF TypeOK, UserRow, Unborn, Deleted, Anonymous, Present

\* Nothing moved, and what a merge has moved.
Moves == [cookies : SUBSET Ids, dropped : SUBSET PlayRow, plays : SUBSET PlayRow, streak : StreakRow]

LEMMA NoMoves == Game!NoStreak \in StreakRow /\ NoRows \in Moves
<1>1. Game!NoStreak \in StreakRow
  BY Sizes DEF StreakRow, Game!NoStreak
<1>2. QED
  BY <1>1 DEF NoRows, Moves

Pcs == {"lookup", "store", "mint", "respond", "play", "answer", "request", "consume", "email",
        "promote", "merge", "plays", "drop", "logout", "logout-all", "handle", "evict"}

LEMMA IdleFields ==
  /\ Idle \notin RequestRow /\ Idle.pc = "idle"
  /\ \A x \in RequestRow : x.pc # "idle" /\ x.pc \in Pcs
BY DEF Idle, RequestRow, Pcs

LEMMA Requests ==
  ASSUME TypeOK
  PROVE  /\ \A q \in Reqs : req[q] # Idle <=> req[q] \in RequestRow
         /\ Active = {q \in Reqs : req[q] # Idle}
         /\ \A q \in Reqs, pc \in Pcs : At(q, pc) => req[q] \in RequestRow
<1>1. \A q \in Reqs : req[q] \in RequestRow \cup {Idle}
  BY DEF TypeOK
<1>2. \A q \in Reqs : req[q].pc # "idle" <=> req[q] \in RequestRow
  BY <1>1, IdleFields
<1>3. \A q \in Reqs, pc \in Pcs : At(q, pc) => req[q].pc # "idle"
  BY DEF At, Pcs
<1>4. QED
  BY <1>1, <1>2, <1>3, IdleFields DEF Active

LEMMA RowFields ==
  ASSUME NEW x \in RequestRow
  PROVE  /\ x.verb \in Verbs /\ x.verb \in Kinds /\ x.device \in Devices /\ x.link \in Links \cup {0}
         /\ x.pc \in Pcs /\ x.cookie \in Ids \cup {0} /\ x.sets \in Ids \cup {0}
         /\ x.got \in SUBSET Blobs /\ x.me \in Ids \cup {0} /\ x.target \in Ids \cup {0}
         /\ x.moved.cookies \in SUBSET Ids /\ x.moved.dropped \in SUBSET PlayRow
         /\ x.moved.plays \in SUBSET PlayRow /\ x.moved.streak \in StreakRow
         /\ x.play \in Ids \cup {0} /\ x.alone \in BOOLEAN
<1>1. Verbs \subseteq Kinds
  BY AccountsAssumption DEF Verbs
<1>2. QED
  BY <1>1 DEF RequestRow, Pcs

\* The fields of y are those of x, but for where the request stands and
\* whether it is alone.
Like(y, x) ==
  /\ y.verb = x.verb /\ y.device = x.device /\ y.link = x.link
  /\ y.cookie = x.cookie /\ y.sets = x.sets /\ y.got = x.got /\ y.me = x.me
  /\ y.target = x.target /\ y.play = x.play /\ y.moved = x.moved

\* What another request's step does to a request: it may no longer be alone.
Same(y, x) ==
  y = x \/ (x \in RequestRow /\ y \in RequestRow /\ y.pc = x.pc /\ ~y.alone /\ Like(y, x))

\* Request q goes on at pc, and the others stay where they are.
Onward(q, pc) ==
  /\ req' \in [Reqs -> RequestRow \cup {Idle}]
  /\ \A r \in Reqs \ {q} : req'[r] = req[r]
  /\ req[q] \in RequestRow /\ req'[q] \in RequestRow /\ req'[q].pc = pc
  /\ req'[q].verb = req[q].verb /\ req'[q].device = req[q].device /\ req'[q].link = req[q].link
  /\ req'[q].cookie = req[q].cookie /\ req'[q].alone = req[q].alone

LEMMA Written ==
  ASSUME TypeOK, NEW q \in Reqs, NEW y \in RequestRow \cup {Idle}, req' = [req EXCEPT ![q] = y]
  PROVE  /\ req' \in [Reqs -> RequestRow \cup {Idle}]
         /\ req'[q] = y /\ \A r \in Reqs \ {q} : req'[r] = req[r]
BY DEF TypeOK

LEMMA GotoRow ==
  ASSUME TypeOK, NEW q \in Reqs, NEW pc \in Pcs, NEW from \in Pcs, At(q, from), Goto(q, pc)
  PROVE  Onward(q, pc) /\ Like(req'[q], req[q])
<1>1. req[q] \in RequestRow
  BY Requests
<1> DEFINE y == [req[q] EXCEPT !.pc = pc]
<1>2. y \in RequestRow /\ y.pc = pc /\ y.alone = req[q].alone /\ Like(y, req[q])
  BY <1>1 DEF RequestRow, Pcs, Like
<1>3. req' = [req EXCEPT ![q] = y]
  BY DEF Goto
<1> HIDE DEF y
<1>4. QED
  BY <1>1, <1>2, <1>3, Written DEF Onward, Like

\* A request that continues at another row.
LEMMA OnwardRow ==
  ASSUME TypeOK, NEW q \in Reqs, NEW pc \in Pcs, req[q] \in RequestRow,
         NEW y \in RequestRow, req' = [req EXCEPT ![q] = y],
         y.pc = pc, y.verb = req[q].verb, y.device = req[q].device, y.link = req[q].link,
         y.cookie = req[q].cookie, y.alone = req[q].alone
  PROVE  Onward(q, pc) /\ req'[q] = y
BY Written DEF Onward

LEMMA AtRow ==
  ASSUME TypeOK, LocalsFit, NEW q \in Reqs, NEW pc \in Pcs, At(q, pc)
  PROVE  req[q] \in RequestRow /\ LocalFit(req[q]) /\ req[q].pc = pc
<1>1. req[q] \in RequestRow
  BY Requests
<1>2. req[q] # Idle
  BY <1>1, IdleFields
<1>3. QED
  BY <1>1, <1>2 DEF At, LocalsFit

\* The user that Postgres returns.
LEMMA BlobType ==
  ASSUME TypeOK, NEW id \in Present
  PROVE  id \in Ids /\ Blob(id) \in Blobs /\ Blob(id).id = id
<1>1. id \in Ids /\ user[id] \in UserRow
  BY States DEF Present
<1>2. QED
  BY <1>1 DEF Blob, Blobs, UserRow

LEMMA OwnerType ==
  ASSUME TypeOK, NEW c \in Ids
  PROVE  owner[c] \in Ids \cup {0} /\ (owner[c] # 0 => owner[c] \in Present)
BY DEF TypeOK, Present

LEMMA LookupRow ==
  ASSUME Typed, NEW q \in Reqs, UserByCookieHash(q)
  PROVE  LET c == req[q].cookie
         IN  /\ c \in Ids
             /\ \/ /\ Onward(q, "store") /\ owner[c] # 0 /\ owner[c] \in Present
                   /\ req'[q].got = {Blob(owner[c])} /\ req'[q].sets = req[q].sets
                \/ Onward(q, "mint") /\ Like(req'[q], req[q])
<1>1. At(q, "lookup") /\ "lookup" \in Pcs /\ "mint" \in Pcs /\ "store" \in Pcs
  BY DEF UserByCookieHash, Pcs
<1>2. req[q] \in RequestRow /\ req[q].cookie \in Ids
  <2>1. req[q] \in RequestRow /\ req[q].cookie # 0
    BY <1>1, AtRow DEF Typed, LocalFit
  <2>2. QED
    BY <2>1, RowFields
<1>3. CASE owner[req[q].cookie] # 0
  <2> DEFINE y == [req[q] EXCEPT !.pc = "store", !.got = {Blob(owner[req[q].cookie])}]
  <2>1. owner[req[q].cookie] \in Present /\ Blob(owner[req[q].cookie]) \in Blobs
    BY <1>2, <1>3, OwnerType, BlobType DEF Typed
  <2>2. /\ y \in RequestRow /\ y.pc = "store" /\ y.verb = req[q].verb /\ y.device = req[q].device
        /\ y.link = req[q].link /\ y.cookie = req[q].cookie /\ y.alone = req[q].alone
        /\ y.got = {Blob(owner[req[q].cookie])} /\ y.sets = req[q].sets
    BY <1>2, <2>1 DEF RequestRow
  <2>3. req' = [req EXCEPT ![q] = y]
    BY <1>3 DEF UserByCookieHash
  <2> HIDE DEF y
  <2>4. Onward(q, "store") /\ req'[q] = y
    BY <1>1, <1>2, <2>2, <2>3, OnwardRow DEF Typed
  <2>5. QED
    BY <1>2, <1>3, <2>1, <2>2, <2>4
<1>4. CASE owner[req[q].cookie] = 0
  <2>1. Goto(q, "mint")
    BY <1>4 DEF UserByCookieHash, Goto
  <2>2. QED
    BY <1>1, <1>2, <2>1, GotoRow DEF Typed
<1>5. QED
  BY <1>3, <1>4

LEMMA VerbPcs == Kinds \subseteq Pcs
BY DEF Kinds, Pcs

LEMMA StoreRow ==
  ASSUME Typed, NEW q \in Reqs, StoreUserInCache(q)
  PROVE  \E b \in Blobs :
           /\ At(q, "store") /\ req[q].got = {b} /\ Knows(req[q].cookie, b.id) /\ req[q].cookie \in Ids
           /\ Onward(q, req[q].verb) /\ req'[q].me = b.id /\ req'[q].sets = req[q].sets
           /\ req[q].sets = req[q].cookie
           /\ cache' \in {cache, [cache EXCEPT ![req[q].cookie] = {b}]}
<1>1. At(q, "store") /\ "store" \in Pcs
  BY DEF StoreUserInCache, Pcs
<1>2. req[q] \in RequestRow /\ LocalFit(req[q]) /\ req[q].pc = "store"
  BY <1>1, AtRow DEF Typed
<1>3. PICK b \in Blobs : req[q].got = {b} /\ Knows(req[q].cookie, b.id)
  BY <1>2 DEF LocalFit
<1>4. /\ req[q].verb \in Kinds /\ req[q].verb \in Pcs /\ b.id \in Ids /\ req[q].cookie \in Ids
      /\ req[q].sets = req[q].cookie
  BY <1>2, RowFields, VerbPcs DEF Blobs, LocalFit
<1> DEFINE y == [req[q] EXCEPT !.pc = req[q].verb, !.me = b.id, !.got = {}]
<1>5. /\ y \in RequestRow /\ y.pc = req[q].verb /\ y.verb = req[q].verb /\ y.device = req[q].device
      /\ y.link = req[q].link /\ y.cookie = req[q].cookie /\ y.alone = req[q].alone
      /\ y.me = b.id /\ y.sets = req[q].sets
  BY <1>2, <1>4 DEF RequestRow, Pcs
<1>6. req' = [req EXCEPT ![q] = y] /\ cache' \in {cache, [cache EXCEPT ![req[q].cookie] = {b}]}
  BY <1>3 DEF StoreUserInCache
<1> HIDE DEF y
<1>7. Onward(q, req[q].verb) /\ req'[q] = y
  BY <1>2, <1>4, <1>5, <1>6, OnwardRow DEF Typed
<1>8. QED
  BY <1>1, <1>3, <1>4, <1>5, <1>6, <1>7

LEMMA MintRow ==
  ASSUME Typed, NEW q \in Reqs, Mint(q)
  PROVE  \E id \in Ids :
           /\ At(q, "mint") /\ user[id] = Unborn
           /\ user' = [user EXCEPT ![id] = Anonymous] /\ owner' = [owner EXCEPT ![id] = id]
           /\ cache' \in {cache, [cache EXCEPT ![id] = {[id |-> id, email |-> None, handle |-> None]}]}
           /\ Onward(q, req[q].verb) /\ req'[q].me = id /\ req'[q].sets = id
<1>1. At(q, "mint") /\ "mint" \in Pcs
  BY DEF Mint, Pcs
<1>2. PICK id \in Ids :
        /\ user[id] = Unborn
        /\ user' = [user EXCEPT ![id] = Anonymous] /\ owner' = [owner EXCEPT ![id] = id]
        /\ cache' \in {cache, [cache EXCEPT ![id] = {[id |-> id, email |-> None, handle |-> None]}]}
        /\ req' = [req EXCEPT ![q].pc = req[q].verb, ![q].me = id, ![q].sets = id]
  BY DEF Mint
<1>3. req[q] \in RequestRow /\ req[q].verb \in Pcs
  BY <1>1, AtRow, RowFields, VerbPcs DEF Typed
<1> DEFINE y == [req[q] EXCEPT !.pc = req[q].verb, !.me = id, !.sets = id]
<1>4. /\ y \in RequestRow /\ y.pc = req[q].verb /\ y.verb = req[q].verb /\ y.device = req[q].device
      /\ y.link = req[q].link /\ y.cookie = req[q].cookie /\ y.alone = req[q].alone
      /\ y.me = id /\ y.sets = id
  BY <1>3 DEF RequestRow, Pcs
<1>5. req' = [req EXCEPT ![q] = y]
  BY <1>2
<1> HIDE DEF y
<1>6. Onward(q, req[q].verb) /\ req'[q] = y
  BY <1>3, <1>4, <1>5, OnwardRow DEF Typed
<1>7. QED
  BY <1>1, <1>2, <1>4, <1>6

LEMMA LookUpEmailRow ==
  ASSUME Typed, NEW q \in Reqs, LookUpEmail(q)
  PROVE  LET account == UserByEmail(link[req[q].link].email)
         IN  \/ account = {} /\ Onward(q, "promote") /\ Like(req'[q], req[q])
             \/ \E t \in account :
                  /\ t \in Present
                  /\ Onward(q, IF t = req[q].me THEN "evict" ELSE "merge")
                  /\ req'[q].target = t /\ req'[q].me = req[q].me /\ req'[q].sets = req[q].sets
<1>1. At(q, "email") /\ {"email", "promote", "evict", "merge"} \subseteq Pcs
  BY DEF LookUpEmail, Pcs
<1>2. req[q] \in RequestRow
  BY <1>1, AtRow DEF Typed
<1>3. CASE UserByEmail(link[req[q].link].email) = {} /\ Goto(q, "promote")
  BY <1>1, <1>3, GotoRow DEF Typed
<1>4. ASSUME NEW t \in UserByEmail(link[req[q].link].email), NEW pc \in {"evict", "merge"},
             pc = IF t = req[q].me THEN "evict" ELSE "merge",
             req' = [req EXCEPT ![q].target = t, ![q].pc = pc]
      PROVE  \E u \in UserByEmail(link[req[q].link].email) :
               /\ u \in Present
               /\ Onward(q, IF u = req[q].me THEN "evict" ELSE "merge")
               /\ req'[q].target = u /\ req'[q].me = req[q].me /\ req'[q].sets = req[q].sets
  <2>1. t \in Present /\ t \in Ids /\ pc \in Pcs
    BY <1>1 DEF UserByEmail, Present
  <2> DEFINE y == [req[q] EXCEPT !.target = t, !.pc = pc]
  <2>2. /\ y \in RequestRow /\ y.pc = pc /\ y.verb = req[q].verb /\ y.device = req[q].device
        /\ y.link = req[q].link /\ y.cookie = req[q].cookie /\ y.alone = req[q].alone
        /\ y.target = t /\ y.me = req[q].me /\ y.sets = req[q].sets
    BY <1>2, <2>1 DEF RequestRow, Pcs
  <2>3. req' = [req EXCEPT ![q] = y]
    BY <1>4
  <2> HIDE DEF y
  <2>4. Onward(q, pc) /\ req'[q] = y
    BY <1>2, <2>1, <2>2, <2>3, OnwardRow DEF Typed
  <2>5. QED
    BY <1>4, <2>1, <2>2, <2>4
<1>5. QED
  BY <1>3, <1>4 DEF LookUpEmail

LEMMA MoveCookiesRow ==
  ASSUME Typed, NEW q \in Reqs, MoveCookies(q)
  PROVE  LET x == req[q]
         IN  \/ /\ x.target \in Present /\ Onward(q, "plays")
                /\ req'[q].target = x.target /\ req'[q].me = x.me /\ req'[q].sets = x.sets
                /\ req'[q].moved.cookies = CookiesOf(x.me)
                /\ req'[q].moved.dropped = Twice(x.me, x.target) /\ req'[q].moved.plays = {}
             \/ x.target \notin Present /\ Onward(q, "respond") /\ Like(req'[q], x)
<1>1. At(q, "merge") /\ {"merge", "plays", "respond"} \subseteq Pcs
  BY DEF MoveCookies, Pcs
<1>2. req[q] \in RequestRow
  BY <1>1, AtRow DEF Typed
<1>3. CASE req[q].target \notin Present /\ Goto(q, "respond")
  BY <1>1, <1>3, GotoRow DEF Typed
<1> DEFINE moved == [cookies |-> CookiesOf(req[q].me), dropped |-> Twice(req[q].me, req[q].target),
                    plays |-> {}, streak |-> Game!NoStreak]
<1>4. CASE /\ req[q].target \in Present
           /\ req' = [req EXCEPT ![q].pc = "plays", ![q].moved = moved]
  <2>1. CookiesOf(req[q].me) \subseteq Ids /\ Twice(req[q].me, req[q].target) \subseteq PlayRow
    BY DEF CookiesOf, Twice, PlaysOf, Typed, TypeOK
  <2> DEFINE y == [req[q] EXCEPT !.pc = "plays", !.moved = moved]
  <2>2. moved \in Moves
    BY <2>1, NoMoves DEF Moves
  <2> HIDE DEF moved
  <2>3. /\ y \in RequestRow /\ y.pc = "plays" /\ y.verb = req[q].verb /\ y.device = req[q].device
        /\ y.link = req[q].link /\ y.cookie = req[q].cookie /\ y.alone = req[q].alone
        /\ y.target = req[q].target /\ y.me = req[q].me /\ y.sets = req[q].sets /\ y.moved = moved
    BY <1>2, <2>2 DEF RequestRow, Pcs, Moves
  <2>4. req' = [req EXCEPT ![q] = y]
    BY <1>4
  <2> HIDE DEF y
  <2>5. Onward(q, "plays") /\ req'[q] = y
    BY <1>1, <1>2, <2>3, <2>4, OnwardRow DEF Typed
  <2>6. /\ moved.cookies = CookiesOf(req[q].me) /\ moved.plays = {}
        /\ moved.dropped = Twice(req[q].me, req[q].target)
    BY DEF moved
  <2>7. QED
    BY <1>4, <2>3, <2>5, <2>6
<1>5. QED
  BY <1>3, <1>4 DEF MoveCookies

LEMMA MovePlaysRow ==
  ASSUME Typed, NEW q \in Reqs, MovePlays(q)
  PROVE  LET x == req[q]
         IN  \/ /\ Onward(q, "drop")
                /\ req'[q].target = x.target /\ req'[q].me = x.me /\ req'[q].sets = x.sets
                /\ req'[q].moved.cookies = x.moved.cookies /\ req'[q].moved.dropped = x.moved.dropped
                /\ req'[q].moved.plays = PlaysOf(x.me) \ x.moved.dropped
                /\ req'[q].moved.plays \cap Twice(x.me, x.target) = {}
             \/ /\ Onward(q, "respond")
                /\ req'[q].target = x.target /\ req'[q].me = x.me /\ req'[q].sets = x.sets
<1>1. At(q, "plays") /\ {"plays", "drop", "respond"} \subseteq Pcs
  BY DEF MovePlays, Pcs
<1>2. req[q] \in RequestRow /\ req[q].me \in Ids
  BY <1>1, AtRow, RowFields DEF Typed, LocalFit, Resolving
<1> DEFINE arrive == PlaysOf(req[q].me) \ req[q].moved.dropped
<1>3. arrive \subseteq PlayRow
  BY DEF PlaysOf, Typed, TypeOK
<1> HIDE DEF arrive
<1>4. CASE /\ arrive \cap Twice(req[q].me, req[q].target) = {}
           /\ req' = [req EXCEPT ![q].pc = "drop", ![q].moved.plays = arrive, ![q].moved.streak = streak[req[q].me]]
  <2> DEFINE moved == [req[q].moved EXCEPT !.plays = arrive, !.streak = streak[req[q].me]]
  <2> DEFINE y == [req[q] EXCEPT !.pc = "drop", !.moved = moved]
  <2>1. /\ moved \in Moves
        /\ moved.cookies = req[q].moved.cookies /\ moved.dropped = req[q].moved.dropped
        /\ moved.plays = arrive
    <3>1. streak[req[q].me] \in StreakRow
      BY <1>2 DEF Typed, TypeOK
    <3>2. QED
      BY <1>2, <1>3, <3>1 DEF RequestRow, Moves
  <2>2. req' = [req EXCEPT ![q] = y]
    BY <1>4
  <2> HIDE DEF moved
  <2>3. /\ y \in RequestRow /\ y.pc = "drop" /\ y.verb = req[q].verb /\ y.device = req[q].device
        /\ y.link = req[q].link /\ y.cookie = req[q].cookie /\ y.alone = req[q].alone
        /\ y.target = req[q].target /\ y.me = req[q].me /\ y.sets = req[q].sets /\ y.moved = moved
    BY <1>2, <2>1 DEF RequestRow, Pcs, Moves
  <2> HIDE DEF y
  <2>4. Onward(q, "drop") /\ req'[q] = y
    BY <1>1, <1>2, <2>2, <2>3, OnwardRow DEF Typed
  <2>5. QED
    BY <1>4, <2>1, <2>3, <2>4 DEF arrive
<1>5. CASE req' = [req EXCEPT ![q].pc = "respond", ![q].moved = NoRows]
  <2> DEFINE y == [req[q] EXCEPT !.pc = "respond", !.moved = NoRows]
  <2>1. /\ y \in RequestRow /\ y.pc = "respond" /\ y.verb = req[q].verb /\ y.device = req[q].device
        /\ y.link = req[q].link /\ y.cookie = req[q].cookie /\ y.alone = req[q].alone
        /\ y.target = req[q].target /\ y.me = req[q].me /\ y.sets = req[q].sets
    BY <1>2, NoMoves DEF RequestRow, Pcs, Moves
  <2>2. req' = [req EXCEPT ![q] = y]
    BY <1>5
  <2> HIDE DEF y
  <2>3. Onward(q, "respond") /\ req'[q] = y
    BY <1>1, <1>2, <2>1, <2>2, OnwardRow DEF Typed
  <2>4. QED
    BY <2>1, <2>3
<1>6. QED
  BY <1>4, <1>5 DEF MovePlays, arrive

LEMMA CommitMergeRow ==
  ASSUME Typed, NEW q \in Reqs, CommitMerge(q)
  PROVE  /\ Onward(q, "evict")
         /\ req'[q].target = req[q].target /\ req'[q].me = req[q].me /\ req'[q].sets = req[q].sets
<1>1. At(q, "drop") /\ {"drop", "evict"} \subseteq Pcs
  BY DEF CommitMerge, Pcs
<1>2. req[q] \in RequestRow
  BY <1>1, AtRow DEF Typed
<1> DEFINE y == [req[q] EXCEPT !.pc = "evict", !.moved = NoRows]
<1>3. /\ y \in RequestRow /\ y.pc = "evict" /\ y.verb = req[q].verb /\ y.device = req[q].device
      /\ y.link = req[q].link /\ y.cookie = req[q].cookie /\ y.alone = req[q].alone
      /\ y.target = req[q].target /\ y.me = req[q].me /\ y.sets = req[q].sets
  BY <1>2, NoMoves DEF RequestRow, Pcs, Moves
<1>4. req' = [req EXCEPT ![q] = y]
  BY DEF CommitMerge
<1> HIDE DEF y
<1>5. Onward(q, "evict") /\ req'[q] = y
  BY <1>1, <1>2, <1>3, <1>4, OnwardRow DEF Typed
<1>6. QED
  BY <1>3, <1>5

\* Play p of the day is new to user me, and no merge moves one to me.
Opened(p, me) ==
  /\ p \in PlayRow /\ p.user = me /\ p.puzzle = Today
  /\ me \in Present /\ ~PlaceTaken(me, Today) /\ ~Played(PlaysOf(me), Today)

LEMMA OpenPlayRow ==
  ASSUME Typed, NEW q \in Reqs, OpenPlay(q)
  PROVE  /\ At(q, "play") /\ req'[q].me = req[q].me /\ req'[q].sets = req[q].sets
         /\ req'[q].target = req[q].target
         /\ Onward(q, "respond") \/ Onward(q, "answer")
         /\ play' = play \/ \E p \in PlayRow : Opened(p, req[q].me) /\ play' = play \cup {p}
<1>1. At(q, "play") /\ {"play", "answer", "respond"} \subseteq Pcs
  BY DEF OpenPlay, Pcs
<1>2. req[q] \in RequestRow /\ req[q].me \in Ids
  BY <1>1, AtRow, RowFields DEF Typed, LocalFit, Resolving
<1> DEFINE new == [by |-> req[q].me, puzzle |-> Today, user |-> req[q].me, done |-> FALSE]
           mine == {p \in PlaysOf(req[q].me) : p.puzzle = Today}
<1>3. /\ new \in PlayRow /\ new.user = req[q].me /\ new.puzzle = Today
  BY <1>2, Sizes DEF PlayRow
<1>4. /\ play' = play \/ (req[q].me \in Present /\ mine = {} /\ play' = play \cup {new})
      /\ ~PlaceTaken(req[q].me, Today)
  BY DEF OpenPlay
<1> HIDE DEF new
<1>5. mine = {} => ~Played(PlaysOf(req[q].me), Today)
  BY DEF Played
<1>6. play' = play \/ \E p \in PlayRow : Opened(p, req[q].me) /\ play' = play \cup {p}
  BY <1>3, <1>4, <1>5 DEF Opened
<1>7. CASE Goto(q, "respond")
  BY <1>1, <1>6, <1>7, GotoRow DEF Like, Typed
<1>8. ASSUME NEW p \in play', req' = [req EXCEPT ![q].pc = "answer", ![q].play = p.by]
      PROVE  /\ req'[q].me = req[q].me /\ req'[q].sets = req[q].sets /\ req'[q].target = req[q].target
             /\ Onward(q, "answer")
  <2>1. p.by \in Ids
    <3>1. p \in PlayRow
      BY <1>6 DEF Typed, TypeOK
    <3>2. QED
      BY <3>1 DEF PlayRow
  <2> DEFINE y == [req[q] EXCEPT !.pc = "answer", !.play = p.by]
  <2>2. /\ y \in RequestRow /\ y.pc = "answer" /\ y.verb = req[q].verb /\ y.device = req[q].device
        /\ y.link = req[q].link /\ y.cookie = req[q].cookie /\ y.alone = req[q].alone
        /\ y.target = req[q].target /\ y.me = req[q].me /\ y.sets = req[q].sets
    BY <1>2, <2>1 DEF RequestRow
  <2>3. req' = [req EXCEPT ![q] = y]
    BY <1>8
  <2> HIDE DEF y
  <2>4. QED
    BY <1>1, <1>2, <2>2, <2>3, OnwardRow DEF Typed
<1>9. Goto(q, "respond") \/ \E p \in play' : req' = [req EXCEPT ![q].pc = "answer", ![q].play = p.by]
  BY DEF OpenPlay
<1>10. QED
  BY <1>1, <1>6, <1>7, <1>8, <1>9

\* A request that ends, or gives way to no other.
LEMMA EndRow ==
  ASSUME TypeOK, NEW q \in Reqs, req' = [req EXCEPT ![q] = Idle]
  PROVE  /\ req' \in [Reqs -> RequestRow \cup {Idle}]
         /\ req'[q] = Idle /\ \A r \in Reqs \ {q} : req'[r] = req[r]
BY Written

\* A request arrives: the others are no longer alone.
LEMMA ResolveRow ==
  ASSUME Typed, NEW q \in Reqs, NEW verb \in VerbsOf[q], NEW d \in Devices, NEW l \in Links \cup {0},
         Resolve(q, verb, d, l)
  PROVE  LET c == jar[d]
         IN  /\ req' \in [Reqs -> RequestRow \cup {Idle}]
             /\ req[q] = Idle /\ req'[q] \in RequestRow
             /\ \A r \in Reqs \ {q} : Same(req'[r], req[r]) /\ (req'[r] # Idle => ~req'[r].alone)
             /\ c \in Ids \cup {0} /\ verb \in Kinds
             /\ req'[q].verb = verb /\ req'[q].link = l /\ req'[q].cookie = c /\ req'[q].sets = c
             /\ req'[q].alone => Active = {} /\ c \notin stale
             /\ \/ c = 0 /\ req'[q].pc = "mint"
                \/ c # 0 /\ req'[q].pc = "lookup"
                \/ c # 0 /\ \E b \in cache[c] : req'[q].pc = verb /\ req'[q].me = b.id
<1> DEFINE c == jar[d]
           call == Call(verb, d, l, "lookup")
           fresh == [call EXCEPT !.alone = (Active = {} /\ c \notin stale)]
           others == [r \in Reqs |-> IF r \in Active THEN [req[r] EXCEPT !.alone = FALSE] ELSE Idle]
<1>1. verb \in Verbs /\ verb \in Kinds /\ c \in Ids \cup {0}
  BY AccountsAssumption DEF Verbs, Typed, TypeOK
<1>2. /\ fresh \in RequestRow /\ fresh.pc = "lookup" /\ fresh.verb = verb /\ fresh.link = l
      /\ fresh.cookie = c /\ fresh.sets = c /\ fresh.alone = (Active = {} /\ c \notin stale)
  BY <1>1, NoMoves DEF Call, RequestRow, Moves
<1>3. \A r \in Reqs : /\ others[r] \in RequestRow \cup {Idle} /\ Same(others[r], req[r])
                      /\ (others[r] # Idle => ~others[r].alone)
  <2> TAKE r \in Reqs
  <2>1. CASE r \in Active
    <3>1. req[r] \in RequestRow
      BY <2>1, Requests DEF Typed
    <3> DEFINE y == [req[r] EXCEPT !.alone = FALSE]
    <3>2. y \in RequestRow /\ y.pc = req[r].pc /\ ~y.alone /\ Like(y, req[r])
      BY <3>1 DEF RequestRow, Like
    <3>3. others[r] = y
      BY <2>1
    <3>4. QED
      BY <3>1, <3>2, <3>3 DEF Same
  <2>2. CASE r \notin Active
    <3>1. req[r] = Idle
      BY <2>2, Requests DEF Typed
    <3>2. QED
      BY <2>2, <3>1 DEF Same
  <2>3. QED
    BY <2>1, <2>2
<1>4. ASSUME NEW y \in RequestRow, req' = [others EXCEPT ![q] = y]
      PROVE  /\ req' \in [Reqs -> RequestRow \cup {Idle}] /\ req'[q] = y
             /\ \A r \in Reqs \ {q} : Same(req'[r], req[r]) /\ (req'[r] # Idle => ~req'[r].alone)
  <2>1. others \in [Reqs -> RequestRow \cup {Idle}]
    BY <1>3
  <2> HIDE DEF others
  <2>2. QED
    BY <1>3, <1>4, <2>1
<1>5. req[q] = Idle
  BY DEF Resolve
<1>6. \/ c = 0 /\ req' = [others EXCEPT ![q] = [fresh EXCEPT !.pc = "mint"]]
      \/ c # 0 /\ req' = [others EXCEPT ![q] = fresh]
      \/ c # 0 /\ \E b \in cache[c] : req' = [others EXCEPT ![q] = [fresh EXCEPT !.pc = verb, !.me = b.id]]
  BY DEF Resolve
<1> HIDE DEF fresh, others
<1>7. CASE c = 0 /\ req' = [others EXCEPT ![q] = [fresh EXCEPT !.pc = "mint"]]
  <2> DEFINE y == [fresh EXCEPT !.pc = "mint"]
  <2>1. /\ y \in RequestRow /\ y.pc = "mint" /\ y.verb = verb /\ y.link = l
        /\ y.cookie = c /\ y.sets = c /\ y.alone = fresh.alone
    BY <1>2 DEF RequestRow
  <2> HIDE DEF y
  <2>2. req' = [others EXCEPT ![q] = y]
    BY <1>7 DEF y
  <2>3. QED
    BY <1>1, <1>2, <1>4, <1>5, <1>7, <2>1, <2>2
<1>8. CASE c # 0 /\ req' = [others EXCEPT ![q] = fresh]
  BY <1>1, <1>2, <1>4, <1>5, <1>8
<1>9. ASSUME c # 0, NEW b \in cache[c], req' = [others EXCEPT ![q] = [fresh EXCEPT !.pc = verb, !.me = b.id]]
      PROVE  /\ req' \in [Reqs -> RequestRow \cup {Idle}]
             /\ req'[q] \in RequestRow
             /\ \A r \in Reqs \ {q} : Same(req'[r], req[r]) /\ (req'[r] # Idle => ~req'[r].alone)
             /\ req'[q].verb = verb /\ req'[q].link = l /\ req'[q].cookie = c /\ req'[q].sets = c
             /\ req'[q].alone => Active = {} /\ c \notin stale
             /\ req'[q].pc = verb /\ req'[q].me = b.id
  <2> DEFINE y == [fresh EXCEPT !.pc = verb, !.me = b.id]
  <2>1. b.id \in Ids /\ verb \in Pcs
    BY <1>1, <1>9, VerbPcs DEF Typed, TypeOK, Blobs
  <2>2. /\ y \in RequestRow /\ y.pc = verb /\ y.verb = verb /\ y.link = l /\ y.me = b.id
        /\ y.cookie = c /\ y.sets = c /\ y.alone = fresh.alone
    BY <1>2, <2>1 DEF RequestRow, Pcs
  <2> HIDE DEF y
  <2>3. req' = [others EXCEPT ![q] = y]
    BY <1>9 DEF y
  <2>4. QED
    BY <1>2, <1>4, <2>2, <2>3
<1>10. QED
  BY <1>1, <1>5, <1>6, <1>7, <1>8, <1>9

-----------------------------------------------------------------------------
(***************************************************************************)
(* Types, and what stays in the tables.                                    *)
(***************************************************************************)
RowsTyped ==
  /\ user \in [Ids -> UserRow \cup {Unborn, Deleted}]
  /\ owner \in [Ids -> Present \cup {0}]
  /\ link \in [Links -> LinkRow \cup {NoLink}]
  /\ \A p \in play : p \in PlayRow /\ p.user \in Present
  /\ streak \in [Ids -> StreakRow]

\* A user who is minted stays so until a merge deletes it, and is then gone
\* for good; a link stays mailed to its mailbox; a user who stays keeps its
\* puzzles; and a cookie changes hands only when its user is deleted.
Kept ==
  /\ \A id \in Ids : Born(id) => user'[id] # Unborn
  /\ \A id \in Ids : id \in Present' => id \in Present \/ ~Born(id)
  /\ \A l \in Mailed : l \in Mailed' /\ link'[l].email = link[l].email
  /\ \A id \in Present : id \in Present' =>
       \A p \in PlaysOf(id) : Played(PlaysOf(id)', p.puzzle)
  /\ \A c \in Ids : \/ owner'[c] \in {0, owner[c]}
                    \/ ~Born(c) /\ user'[c] # Unborn
                    \/ owner[c] # 0 /\ owner[c] \notin Present'

LEMMA RowsStay ==
  ASSUME Typed, UNCHANGED rows
  PROVE  RowsTyped' /\ Kept
<1>1. Present' = Present /\ Mailed' = Mailed
  BY DEF rows, Present, Mailed
<1>2. \A id \in Ids : PlaysOf(id)' = PlaysOf(id)
  BY DEF rows, PlaysOf
<1>3. Kept
  BY <1>1, <1>2 DEF Kept, rows, Born, Played, Present
<1>4. RowsTyped'
  BY <1>1 DEF RowsTyped, Typed, TypeOK, rows
<1>5. QED
  BY <1>3, <1>4

\* Statements that leave users and cookies alone.
LEMMA PlaysStep ==
  ASSUME Typed, NEW q \in Reqs, OpenPlay(q) \/ CompletePlay(q)
  PROVE  RowsTyped' /\ Kept
<1>1. Present' = Present /\ Mailed' = Mailed /\ UNCHANGED <<user, owner, link>>
  BY DEF OpenPlay, CompletePlay, Present, Mailed
<1>2. (\A p \in play' : p \in PlayRow /\ p.user \in Present) /\ streak' \in [Ids -> StreakRow]
  <2>1. CASE OpenPlay(q)
    <3>1. streak' = streak
      BY <2>1 DEF OpenPlay
    <3>2. QED
      BY <2>1, <3>1, OpenPlayRow DEF Opened, Typed, TypeOK
  <2>2. CASE CompletePlay(q)
    <3>1. PICK p \in play : /\ play' = (play \ {p}) \cup {[p EXCEPT !.done = TRUE]}
                            /\ streak' = [streak EXCEPT ![p.user] = Game!Advance(@, p.puzzle)]
      BY <2>2 DEF CompletePlay
    <3>2. p \in PlayRow /\ p.user \in Present /\ p.user \in Ids /\ p.puzzle \in 1..Today
      BY DEF Typed, TypeOK, PlayRow, Present
    <3>3. [p EXCEPT !.done = TRUE] \in PlayRow /\ [p EXCEPT !.done = TRUE].user = p.user
      BY <3>2 DEF PlayRow
    <3>4. Game!Advance(streak[p.user], p.puzzle) \in StreakRow
      <4>1. streak[p.user] \in StreakRow
        BY <3>2 DEF Typed, TypeOK
      <4>2. QED
        BY <3>2, <4>1, Sizes DEF Game!Advance, StreakRow
    <3>5. QED
      BY <3>1, <3>2, <3>3, <3>4 DEF Typed, TypeOK
  <2>3. QED
    BY <2>1, <2>2
<1>3. \A id \in Ids : \A p \in PlaysOf(id) : Played(PlaysOf(id)', p.puzzle)
  <2>1. CASE OpenPlay(q)
    <3>1. play \subseteq play'
      BY <2>1, OpenPlayRow
    <3>2. QED
      BY <3>1 DEF PlaysOf, Played
  <2>2. CASE CompletePlay(q)
    <3>1. PICK p \in play : play' = (play \ {p}) \cup {[p EXCEPT !.done = TRUE]}
      BY <2>2 DEF CompletePlay
    <3>2. p \in PlayRow
      BY DEF Typed, TypeOK
    <3> DEFINE k == [p EXCEPT !.done = TRUE]
    <3>3. k \in play' /\ k.user = p.user /\ k.puzzle = p.puzzle
      BY <3>1, <3>2 DEF PlayRow
    <3> HIDE DEF k
    <3>4. TAKE id \in Ids
    <3>5. TAKE o \in PlaysOf(id)
    <3>6. CASE o = p
      <4>1. k \in PlaysOf(id)'
        BY <3>3, <3>6 DEF PlaysOf
      <4>2. QED
        BY <3>3, <3>6, <4>1 DEF Played
    <3>7. CASE o # p
      <4>1. o \in PlaysOf(id)'
        BY <3>1, <3>7 DEF PlaysOf
      <4>2. QED
        BY <4>1 DEF Played
    <3>8. QED
      BY <3>6, <3>7
  <2>3. QED
    BY <2>1, <2>2
<1>4. Kept
  BY <1>1, <1>3 DEF Kept, Born, Present
<1>5. RowsTyped'
  BY <1>1, <1>2 DEF RowsTyped, Typed, TypeOK
<1>6. QED
  BY <1>4, <1>5

LEMMA LinksStep ==
  ASSUME Typed, NEW q \in Reqs, InsertMagicLink(q) \/ ConsumeMagicLink(q)
  PROVE  RowsTyped' /\ Kept
<1>1. Present' = Present /\ UNCHANGED <<user, owner, play, streak>>
  BY DEF InsertMagicLink, ConsumeMagicLink, Present
<1>2. \A id \in Ids : PlaysOf(id)' = PlaysOf(id)
  BY <1>1 DEF PlaysOf
<1>3. NoLink \notin LinkRow
  BY DEF NoLink, LinkRow
<1>4. /\ link' \in [Links -> LinkRow \cup {NoLink}]
      /\ \A l \in Mailed : l \in Mailed' /\ link'[l].email = link[l].email
  <2>1. ASSUME NEW l \in Links, NEW e \in Emails, link[l] = NoLink,
               link' = [link EXCEPT ![l] = [state |-> "sent", email |-> e]]
        PROVE  /\ link' \in [Links -> LinkRow \cup {NoLink}]
               /\ \A k \in Mailed : k \in Mailed' /\ link'[k].email = link[k].email
    <3>1. [state |-> "sent", email |-> e] \in LinkRow
      BY DEF LinkRow
    <3>2. QED
      BY <2>1, <3>1 DEF Typed, TypeOK, Mailed
  <2>2. ASSUME NEW l \in Mailed, link' = [link EXCEPT ![l].state = "dead"]
        PROVE  /\ link' \in [Links -> LinkRow \cup {NoLink}]
               /\ \A k \in Mailed : k \in Mailed' /\ link'[k].email = link[k].email
    <3>1. l \in Links /\ link[l] \in LinkRow
      BY DEF Mailed, Typed, TypeOK
    <3> DEFINE y == [link[l] EXCEPT !.state = "dead"]
    <3>2. y \in LinkRow /\ y.email = link[l].email
      BY <3>1 DEF LinkRow
    <3>3. link' = [link EXCEPT ![l] = y]
      BY <2>2
    <3> HIDE DEF y
    <3>4. QED
      BY <1>3, <3>1, <3>2, <3>3 DEF Typed, TypeOK, Mailed
  <2>3. ASSUME link' = link
        PROVE  /\ link' \in [Links -> LinkRow \cup {NoLink}]
               /\ \A k \in Mailed : k \in Mailed' /\ link'[k].email = link[k].email
    BY <2>3 DEF Typed, TypeOK, Mailed
  <2>4. ConsumeMagicLink(q) => req[q].link \in Mailed
    BY AtRow DEF ConsumeMagicLink, LocalFit, SigningIn, Typed, Pcs
  <2>5. QED
    BY <2>1, <2>2, <2>3, <2>4 DEF InsertMagicLink, ConsumeMagicLink
<1>5. Kept
  BY <1>1, <1>2, <1>4 DEF Kept, Born, Present, Played
<1>6. RowsTyped'
  BY <1>1, <1>4 DEF RowsTyped, Typed, TypeOK
<1>7. QED
  BY <1>5, <1>6
LEMMA MintStep ==
  ASSUME Typed, NEW id \in Ids, user[id] = Unborn,
         user' = [user EXCEPT ![id] = Anonymous], owner' = [owner EXCEPT ![id] = id],
         UNCHANGED <<link, play, streak>>
  PROVE  RowsTyped' /\ Kept /\ Present' = Present \cup {id} /\ id \notin Present
<1>1. Present' = Present \cup {id} /\ id \notin Present
  BY States DEF Typed, TypeOK, Present, Unborn, Anonymous
<1>2. \A o \in Present : \A p \in PlaysOf(o) : Played(PlaysOf(o)', p.puzzle)
  BY DEF PlaysOf, Played
<1>3. Mailed' = Mailed
  BY DEF Mailed
<1>4. user' \in [Ids -> UserRow \cup {Unborn, Deleted}] /\ owner' \in [Ids -> Present' \cup {0}]
  BY <1>1, States DEF Typed, TypeOK
<1>5. RowsTyped'
  BY <1>1, <1>4 DEF RowsTyped, Typed, TypeOK
<1>6. Unborn # Anonymous
  BY States
<1>7. /\ \A o \in Ids : Born(o) => user'[o] # Unborn
      /\ \A o \in Ids : o \in Present' => o \in Present \/ ~Born(o)
      /\ \A c \in Ids : owner'[c] = owner[c] \/ (~Born(c) /\ user'[c] # Unborn)
  BY <1>1, <1>6 DEF Born, Typed, TypeOK
<1>8. Kept
  BY <1>2, <1>3, <1>7 DEF Kept
<1>9. QED
  BY <1>1, <1>5, <1>8

\* A row of users changes, and its user stays or stays away.
LEMMA UserStep ==
  ASSUME Typed, NEW me \in Ids, NEW u, u \in UserRow \/ u = user[me], me \in Present \/ u = user[me],
         user' = [user EXCEPT ![me] = u], UNCHANGED <<owner, link, play, streak>>
  PROVE  RowsTyped' /\ Kept /\ Present' = Present
<1>1. /\ u \in UserRow \cup {Unborn, Deleted} /\ (u \in UserRow <=> user[me] \in UserRow)
      /\ (user[me] # Unborn => u # Unborn)
  BY States DEF Typed
<1>2. user' \in [Ids -> UserRow \cup {Unborn, Deleted}] /\ Present' = Present
  <2>1. user' \in [Ids -> UserRow \cup {Unborn, Deleted}]
    BY <1>1 DEF Typed, TypeOK
  <2>2. \A v \in UserRow \cup {Unborn, Deleted} : v.state = "present" <=> v \in UserRow
    BY DEF UserRow, Unborn, Deleted
  <2>3. \A o \in Ids : user'[o].state = "present" <=> user[o].state = "present"
    BY <1>1, <2>1, <2>2 DEF Typed, TypeOK
  <2>4. QED
    BY <2>1, <2>3 DEF Present
<1>3. \A o \in Present : \A p \in PlaysOf(o) : Played(PlaysOf(o)', p.puzzle)
  BY DEF PlaysOf, Played
<1>4. Mailed' = Mailed
  BY DEF Mailed
<1>5. RowsTyped'
  BY <1>2 DEF RowsTyped, Typed, TypeOK
<1>6. \A o \in Ids : Born(o) => user'[o] # Unborn
  BY <1>1 DEF Born, Typed, TypeOK
<1>7. Kept
  BY <1>2, <1>3, <1>4, <1>6 DEF Kept
<1>8. QED
  BY <1>2, <1>5, <1>7

LEMMA CookiesStep ==
  ASSUME Typed, NEW gone, owner' = [c \in Ids |-> IF c \in gone THEN 0 ELSE owner[c]],
         UNCHANGED <<user, link, play, streak>>
  PROVE  RowsTyped' /\ Kept /\ Present' = Present
<1>1. Present' = Present /\ Mailed' = Mailed
  BY DEF Present, Mailed
<1>2. \A o \in Present : \A p \in PlaysOf(o) : Played(PlaysOf(o)', p.puzzle)
  BY DEF PlaysOf, Played
<1>3. owner' \in [Ids -> Present' \cup {0}] /\ \A c \in Ids : owner'[c] \in {0, owner[c]}
  BY <1>1, OwnerType DEF Typed
<1>4. RowsTyped'
  BY <1>1, <1>3 DEF RowsTyped, Typed, TypeOK
<1>5. Kept
  BY <1>1, <1>2, <1>3 DEF Kept, Born
<1>6. QED
  BY <1>1, <1>4, <1>5

\* A merge's last DELETE and COMMIT.
LEMMA MergeStep ==
  ASSUME Typed, MergesFit, NEW q \in Reqs, CommitMerge(q),
         NEW me, NEW t, NEW cs,
         me = req[q].me, t = req[q].target, cs = req[q].moved.cookies
  PROVE  /\ RowsTyped' /\ Kept
         /\ me \in Ids /\ t \in Present /\ t # me /\ cs \subseteq CookiesOf(me)
         /\ Present' = Present \ {me}
         /\ \A p \in play : p.user # me => p \in play'
         /\ \A n : Played(req[q].moved.plays, n) => Played(PlaysOf(t)', n)
         /\ \A c \in Ids : owner'[c] = IF c \in cs THEN t ELSE IF owner[c] = me THEN 0 ELSE owner[c]
<1>1. At(q, "drop") /\ "drop" \in Pcs
  BY DEF CommitMerge, Pcs
<1>2. req[q] \in RequestRow /\ LocalFit(req[q]) /\ req[q].pc = "drop"
  BY <1>1, AtRow DEF Typed
<1>3. /\ me \in Ids /\ t \in Ids /\ t # me /\ cs \in SUBSET Ids
      /\ req[q].moved.plays \in SUBSET PlayRow
  BY <1>2, RowFields DEF LocalFit, Resolving
<1>4. t \in Present /\ cs \subseteq CookiesOf(me)
  BY <1>1 DEF MergesFit, MergeFit, Merging, At
<1>5. /\ user' = [user EXCEPT ![me] = IF me \in Present THEN Deleted ELSE @]
      /\ owner' = [c \in Ids |-> IF c \in cs THEN t ELSE IF owner[c] = me THEN 0 ELSE owner[c]]
      /\ play' = (play \ PlaysOf(me)) \cup Arriving(q)
      /\ streak' = [streak EXCEPT ![t] = MergedStreak(req[q].moved.streak, @), ![me] = Game!NoStreak]
      /\ link' = link
  BY DEF CommitMerge
<1>6. user' \in [Ids -> UserRow \cup {Unborn, Deleted}] /\ Present' = Present \ {me}
  <2>1. user' \in [Ids -> UserRow \cup {Unborn, Deleted}]
    BY <1>3, <1>5 DEF Typed, TypeOK
  <2>2. \A v \in UserRow \cup {Unborn, Deleted} : v.state = "present" <=> v \in UserRow
    BY DEF UserRow, Unborn, Deleted
  <2>3. \A o \in Ids : user'[o].state = "present" <=> user[o].state = "present" /\ o # me
    BY <1>3, <1>5, <2>1, <2>2, States DEF Typed, TypeOK, Present
  <2>4. QED
    BY <2>1, <2>3 DEF Present
<1>7. owner' \in [Ids -> Present' \cup {0}]
  <2>1. ASSUME NEW c \in Ids
        PROVE  owner'[c] \in Present' \cup {0}
    BY <1>3, <1>4, <1>5, <1>6, OwnerType DEF Typed
  <2>2. QED
    BY <1>5, <2>1
<1>8. \A p \in Arriving(q) : p \in PlayRow /\ p.user = t
  BY <1>3 DEF Arriving, PlayRow
<1>9. \A p \in play' : p \in PlayRow /\ p.user \in Present'
  BY <1>3, <1>4, <1>5, <1>6, <1>8 DEF Typed, TypeOK, PlaysOf
<1>10. streak' \in [Ids -> StreakRow]
  <2>1. req[q].moved.streak \in StreakRow /\ streak[t] \in StreakRow /\ Game!NoStreak \in StreakRow
    BY <1>2, <1>3, RowFields, NoMoves DEF Typed, TypeOK
  <2>2. MergedStreak(req[q].moved.streak, streak[t]) \in StreakRow
    BY <2>1, Sizes DEF MergedStreak, Greater, StreakRow
  <2>3. QED
    BY <1>3, <1>5, <2>1, <2>2 DEF Typed, TypeOK
<1>11. RowsTyped'
  BY <1>5, <1>6, <1>7, <1>9, <1>10 DEF RowsTyped, Typed, TypeOK
<1>12. \A p \in play : p.user # me => p \in play'
  BY <1>5 DEF PlaysOf
<1>13. \A n : Played(req[q].moved.plays, n) => Played(PlaysOf(t)', n)
  <2>1. ASSUME NEW p \in req[q].moved.plays
        PROVE  \E k \in PlaysOf(t)' : k.puzzle = p.puzzle
    <3> DEFINE k == [p EXCEPT !.user = t]
    <3>1. k \in Arriving(q) /\ k.puzzle = p.puzzle /\ k.user = t
      BY <1>3, <1>8 DEF Arriving, PlayRow
    <3> HIDE DEF k
    <3>2. k \in play' /\ t \in Ids
      BY <1>3, <1>5, <3>1
    <3>3. QED
      BY <3>1, <3>2 DEF PlaysOf
  <2>2. QED
    BY <2>1 DEF Played
<1>14. Kept
  <2>1. \A o \in Ids : Born(o) => user'[o] # Unborn
    BY <1>3, <1>5, States DEF Born, Typed, TypeOK
  <2>2. Mailed' = Mailed
    BY <1>5 DEF Mailed
  <2>3. \A id \in Present' : \A p \in PlaysOf(id) : Played(PlaysOf(id)', p.puzzle)
    <3>1. \A id \in Present' : \A p \in PlaysOf(id) : p \in PlaysOf(id)'
      BY <1>6, <1>12 DEF PlaysOf
    <3>2. QED
      BY <3>1 DEF Played
  <2>4. \A c \in Ids : owner'[c] \in {0, owner[c]} \/ (owner[c] # 0 /\ owner[c] \notin Present')
    <3>1. me # 0 /\ me \notin Present'
      BY <1>3, <1>6, Sizes
    <3>2. \A c \in Ids : owner'[c] \in {0, owner[c]} \/ owner[c] = me
      BY <1>4, <1>5 DEF CookiesOf
    <3>3. QED
      BY <3>1, <3>2
  <2>5. QED
    BY <1>5, <1>6, <2>1, <2>2, <2>3, <2>4 DEF Kept
<1>15. QED
  BY <1>3, <1>4, <1>5, <1>6, <1>11, <1>12, <1>13, <1>14
-----------------------------------------------------------------------------
(***************************************************************************)
(* Every step, as seen from the requests.                                  *)
(***************************************************************************)
\* Where a handler goes from one statement to the next.
Arc(from, to) ==
  \/ from = "play" /\ to \in {"answer", "respond"}
  \/ from \in {"answer", "request", "logout-all"} /\ to = "respond"
  \/ from = "consume" /\ to \in {"email", "respond"}
  \/ from = "email" /\ to \in {"promote", "evict", "merge"}
  \/ from = "promote" /\ to \in {"respond", "evict"}
  \/ from = "merge" /\ to \in {"plays", "respond"}
  \/ from = "plays" /\ to \in {"drop", "respond"}
  \/ from \in {"drop", "logout"} /\ to = "evict"
  \/ from = "handle" /\ to \in {"respond", "evict"}
  \/ from = "evict" /\ to = "respond"

HandlerGoes(q) ==
  /\ \E to \in Pcs : Arc(req[q].pc, to) /\ Onward(q, to)
  /\ req'[q].me = req[q].me /\ req'[q].sets = req[q].sets
  /\ req[q].pc # "email" => req'[q].target = req[q].target
  /\ req'[q].pc = "merge" => req'[q].target \in Present \ {req'[q].me}

LEMMA GotoGoes ==
  ASSUME Typed, NEW q \in Reqs, NEW from \in Pcs, NEW to \in Pcs \ {"merge"},
         At(q, from), Arc(from, to), Goto(q, to)
  PROVE  HandlerGoes(q)
<1>1. Onward(q, to) /\ Like(req'[q], req[q])
  BY GotoRow DEF Typed
<1>2. req[q].pc = from /\ req'[q].pc = to
  BY <1>1 DEF At, Onward
<1>3. QED
  BY <1>1, <1>2 DEF HandlerGoes, Like

LEMMA HandlerRow ==
  ASSUME Typed, NEW q \in Reqs, Handler(q)
  PROVE  HandlerGoes(q)
<1>1. CASE OpenPlay(q)
  BY <1>1, OpenPlayRow DEF At, HandlerGoes, Arc, Pcs, Onward
<1>2. CASE CompletePlay(q) \/ LeavePlay(q)
  BY <1>2, GotoGoes DEF CompletePlay, LeavePlay, Pcs, Arc
<1>3. CASE InsertMagicLink(q)
  BY <1>3, GotoGoes DEF InsertMagicLink, Pcs, Arc
<1>4. CASE ConsumeMagicLink(q)
  BY <1>4, GotoGoes DEF ConsumeMagicLink, Pcs, Arc
<1>5. CASE LookUpEmail(q)
  <2>1. req[q].pc = "email"
    BY <1>5 DEF LookUpEmail, At
  <2>2. CASE Onward(q, "promote") /\ Like(req'[q], req[q])
    BY <2>1, <2>2 DEF HandlerGoes, Arc, Pcs, Like, Onward
  <2>3. ASSUME NEW t \in Present, NEW pc \in {"evict", "merge"}, Onward(q, pc), pc = "merge" => t # req[q].me,
               req'[q].target = t /\ req'[q].me = req[q].me /\ req'[q].sets = req[q].sets
        PROVE  HandlerGoes(q)
    BY <2>1, <2>3 DEF HandlerGoes, Arc, Pcs, Onward
  <2>4. QED
    BY <1>5, <2>2, <2>3, LookUpEmailRow
<1>6. CASE SetEmailOnUser(q)
  BY <1>6, GotoGoes DEF SetEmailOnUser, Pcs, Arc
<1>7. CASE MoveCookies(q)
  <2>1. req[q].pc = "merge"
    BY <1>7 DEF MoveCookies, At
  <2>2. QED
    BY <1>7, <2>1, MoveCookiesRow DEF HandlerGoes, Arc, Pcs, Like, Onward
<1>8. CASE MovePlays(q)
  <2>1. req[q].pc = "plays"
    BY <1>8 DEF MovePlays, At
  <2>2. QED
    BY <1>8, <2>1, MovePlaysRow DEF HandlerGoes, Arc, Pcs, Onward
<1>9. CASE CommitMerge(q)
  <2>1. req[q].pc = "drop"
    BY <1>9 DEF CommitMerge, At
  <2>2. QED
    BY <1>9, <2>1, CommitMergeRow DEF HandlerGoes, Arc, Pcs, Onward
<1>10. CASE DeleteDeviceCookie(q)
  BY <1>10, GotoGoes DEF DeleteDeviceCookie, Pcs, Arc
<1>11. CASE DeleteAllDeviceCookies(q)
  BY <1>11, GotoGoes DEF DeleteAllDeviceCookies, Pcs, Arc
<1>12. CASE SetHandle(q)
  BY <1>12, GotoGoes DEF SetHandle, Pcs, Arc
<1>13. CASE InvalidateCookieHash(q)
  BY <1>13, GotoGoes DEF InvalidateCookieHash, Pcs, Arc
<1>14. QED
  BY <1>1, <1>2, <1>3, <1>4, <1>5, <1>6, <1>7, <1>8, <1>9, <1>10, <1>11, <1>12, <1>13 DEF Handler

Step(q) ==
  \/ Send(q) \/ UserByCookieHash(q) \/ StoreUserInCache(q) \/ Mint(q)
  \/ Handler(q) \/ Respond(q) \/ Cancel(q)

\* A request begins, goes on or ends, and the others stay where they are.
LEMMA StepRow ==
  ASSUME Typed, NEW q \in Reqs, Step(q)
  PROVE  /\ req' \in [Reqs -> RequestRow \cup {Idle}]
         /\ \A r \in Reqs \ {q} : Same(req'[r], req[r])
         /\ Send(q) \/ \A r \in Reqs \ {q} : req'[r] = req[r]
<1>1. CASE Send(q)
  <2>1. PICK verb \in VerbsOf[q], d \in Devices, l \in Links \cup {0} : Resolve(q, verb, d, l)
    BY <1>1 DEF Send, Mailed
  <2>2. QED
    BY <1>1, <2>1, ResolveRow
<1>2. CASE UserByCookieHash(q)
  BY <1>2, LookupRow DEF Onward, Same
<1>3. CASE StoreUserInCache(q)
  BY <1>3, StoreRow DEF Onward, Same
<1>4. CASE Mint(q)
  BY <1>4, MintRow DEF Onward, Same
<1>5. CASE Handler(q)
  BY <1>5, HandlerRow DEF HandlerGoes, Onward, Same
<1>6. CASE Respond(q) \/ Cancel(q)
  BY <1>6, EndRow DEF Respond, Cancel, Same, Typed
<1>7. QED
  BY <1>1, <1>2, <1>3, <1>4, <1>5, <1>6 DEF Step
\* Every step, as seen from the tables.
LEMMA StepRows ==
  ASSUME Typed, MergesFit, NEW q \in Reqs, Step(q)
  PROVE  RowsTyped' /\ Kept
<1>1. CASE UNCHANGED rows
  BY <1>1, RowsStay
<1>2. CASE Send(q) \/ UserByCookieHash(q) \/ StoreUserInCache(q) \/ Respond(q) \/ Cancel(q)
  BY <1>1, <1>2 DEF Send, Resolve, UserByCookieHash, StoreUserInCache, Respond, Cancel
<1>3. CASE LeavePlay(q) \/ LookUpEmail(q) \/ MoveCookies(q) \/ MovePlays(q) \/ InvalidateCookieHash(q)
  BY <1>1, <1>3 DEF LeavePlay, LookUpEmail, MoveCookies, MovePlays, InvalidateCookieHash
<1>4. CASE Mint(q)
  <2>1. UNCHANGED <<link, play, streak>>
    BY <1>4 DEF Mint
  <2>2. QED
    BY <1>4, <2>1, MintRow, MintStep
<1>5. CASE OpenPlay(q) \/ CompletePlay(q)
  BY <1>5, PlaysStep
<1>6. CASE InsertMagicLink(q) \/ ConsumeMagicLink(q)
  BY <1>6, LinksStep
<1>7. CASE SetEmailOnUser(q) \/ SetHandle(q)
  <2>1. req[q] \in RequestRow /\ req[q].me \in Ids
    <3>1. \E pc \in Pcs \ Resolving : At(q, pc)
      BY <1>7 DEF SetEmailOnUser, SetHandle, Pcs, Resolving
    <3>2. req[q] \in RequestRow /\ req[q].me # 0
      BY <3>1, AtRow DEF Typed, LocalFit
    <3>3. QED
      BY <3>2, RowFields
  <2> DEFINE me == req[q].me
  <2>2. \/ UNCHANGED rows
        \/ /\ UNCHANGED <<owner, link, play, streak>>
           /\ \E u : /\ u \in UserRow \/ u = user[me]
                     /\ me \in Present \/ u = user[me]
                     /\ user' = [user EXCEPT ![me] = u]
    <3>1. CASE SetEmailOnUser(q)
      <4>1. CASE me \in Present /\ UserByEmail(link[req[q].link].email) \ {me} = {}
        <5> DEFINE e == link[req[q].link].email
                   u == [user[me] EXCEPT !.email = e]
        <5>1. e \in Emails
          <6>1. At(q, "promote") /\ "promote" \in Pcs
            BY <3>1 DEF SetEmailOnUser, Pcs
          <6>2. req[q].link \in Links /\ link[req[q].link] # NoLink
            BY <6>1, AtRow DEF Typed, LocalFit, SigningIn, Mailed
          <6>3. QED
            BY <6>2 DEF Typed, TypeOK, LinkRow
        <5>2. user' = [user EXCEPT ![me] = u] /\ UNCHANGED <<owner, link, play, streak>>
          BY <3>1, <4>1 DEF SetEmailOnUser
        <5> HIDE DEF e
        <5>3. user[me] \in UserRow
          BY <4>1, States DEF Typed, Present
        <5>4. u \in UserRow
          BY <5>1, <5>3 DEF UserRow
        <5>5. QED
          BY <4>1, <5>2, <5>4
      <4>2. QED
        BY <3>1, <4>1 DEF SetEmailOnUser, rows
    <3>2. CASE SetHandle(q)
      <4>1. UNCHANGED <<owner, link, play, streak>>
        BY <3>2 DEF SetHandle
      <4>2. PICK h \in Handles : \/ UNCHANGED user
                                 \/ user' = [user EXCEPT ![me].handle = IF me \in Present THEN h ELSE @]
        BY <3>2 DEF SetHandle
      <4> DEFINE u == [user[me] EXCEPT !.handle = IF me \in Present THEN h ELSE @]
      <4>3. me \in Present => u \in UserRow
        BY <2>1, States DEF UserRow, Typed
      <4>4. me \notin Present => u = user[me]
        <5>1. user[me] \in {Unborn, Deleted} \cup UserRow
          BY <2>1, States DEF Typed
        <5>2. QED
          BY <5>1 DEF UserRow, Unborn, Deleted
      <4>5. UNCHANGED user \/ user' = [user EXCEPT ![me] = u]
        BY <4>2
      <4>6. QED
        BY <4>1, <4>3, <4>4, <4>5 DEF rows
    <3>3. QED
      BY <1>7, <3>1, <3>2
  <2>3. QED
    BY <1>1, <2>1, <2>2, UserStep
<1>8. CASE CommitMerge(q)
  BY <1>8, MergeStep
<1>9. CASE DeleteDeviceCookie(q)
  <2>1. UNCHANGED <<user, link, play, streak>>
    BY <1>9 DEF DeleteDeviceCookie
  <2>2. UNCHANGED owner \/ owner' = [c \in Ids |-> IF c \in {req[q].cookie} THEN 0 ELSE owner[c]]
    BY <1>9 DEF DeleteDeviceCookie
  <2>3. QED
    BY <1>1, <2>1, <2>2, CookiesStep DEF rows
<1>10. CASE DeleteAllDeviceCookies(q)
  <2>1. UNCHANGED <<user, link, play, streak>>
    BY <1>10 DEF DeleteAllDeviceCookies
  <2>2. UNCHANGED owner \/ owner' = [c \in Ids |-> IF c \in CookiesOf(req[q].me) THEN 0 ELSE owner[c]]
    BY <1>10 DEF DeleteAllDeviceCookies
  <2>3. QED
    BY <1>1, <2>1, <2>2, CookiesStep DEF rows
<1>11. QED
  BY <1>2, <1>3, <1>4, <1>5, <1>6, <1>7, <1>8, <1>9, <1>10 DEF Step, Handler
\* The cache: an entry stays or goes, is what a request has looked up, or is
\* a new user's.
CacheGoes(q) ==
  /\ cache' \in [Ids -> SUBSET Blobs]
  /\ \A c \in Ids :
       \/ cache'[c] = cache[c] \/ cache'[c] = {}
       \/ \E b \in Blobs :
            /\ cache'[c] = {b}
            /\ \/ At(q, "store") /\ c = req[q].cookie /\ Born(c) /\ Knows(c, b.id) /\ req[q].got = {b}
               \/ user[c] = Unborn /\ user' = [user EXCEPT ![c] = Anonymous] /\ owner'[c] = c /\ b.id = c

LEMMA StepCache ==
  ASSUME Typed, NEW q \in Reqs, Step(q)
  PROVE  CacheGoes(q)
<1>1. cache \in [Ids -> SUBSET Blobs] /\ owner \in [Ids -> Present \cup {0}]
  BY DEF Typed, TypeOK
<1>2. CASE UNCHANGED cache
  BY <1>1, <1>2 DEF CacheGoes
<1>3. CASE StoreUserInCache(q)
  <2>1. PICK b \in Blobs : /\ At(q, "store") /\ Knows(req[q].cookie, b.id) /\ req[q].got = {b}
                           /\ cache' \in {cache, [cache EXCEPT ![req[q].cookie] = {b}]}
    BY <1>3, StoreRow
  <2>2. Born(req[q].cookie)
    BY <2>1, AtRow DEF Typed, LocalFit, Pcs
  <2>3. QED
    BY <1>1, <2>1, <2>2 DEF CacheGoes
<1>4. CASE Mint(q)
  <2>1. PICK id \in Ids :
          /\ user[id] = Unborn /\ user' = [user EXCEPT ![id] = Anonymous] /\ owner' = [owner EXCEPT ![id] = id]
          /\ cache' \in {cache, [cache EXCEPT ![id] = {[id |-> id, email |-> None, handle |-> None]}]}
    BY <1>4, MintRow
  <2> DEFINE b == [id |-> id, email |-> None, handle |-> None]
  <2>2. b \in Blobs /\ b.id = id
    BY DEF Blobs
  <2>3. cache' \in {cache, [cache EXCEPT ![id] = {b}]}
    BY <2>1
  <2> HIDE DEF b
  <2>4. cache' \in [Ids -> SUBSET Blobs] /\ \A c \in Ids : cache'[c] = cache[c] \/ (c = id /\ cache'[c] = {b})
    BY <1>1, <2>2, <2>3
  <2>5. owner'[id] = id
    BY <1>1, <2>1
  <2>6. QED
    BY <2>1, <2>2, <2>4, <2>5 DEF CacheGoes
<1>5. CASE InvalidateCookieHash(q)
  <2>1. UNCHANGED cache \/ \E c : cache' = [cache EXCEPT ![c] = {}]
    BY <1>5 DEF InvalidateCookieHash
  <2>2. QED
    BY <1>1, <2>1 DEF CacheGoes
<1>6. CASE Send(q) \/ UserByCookieHash(q) \/ Respond(q) \/ Cancel(q)
  BY <1>2, <1>6 DEF Send, Resolve, UserByCookieHash, Respond, Cancel
<1>7. CASE Handler(q) /\ ~InvalidateCookieHash(q)
  BY <1>2, <1>7 DEF Handler, OpenPlay, CompletePlay, LeavePlay, InsertMagicLink, ConsumeMagicLink,
     LookUpEmail, SetEmailOnUser, MoveCookies, MovePlays, CommitMerge,
     DeleteDeviceCookie, DeleteAllDeviceCookies, SetHandle
<1>8. QED
  BY <1>3, <1>4, <1>5, <1>6, <1>7 DEF Step

\* The browsers.
JarGoes(q) ==
  /\ jar' \in [Devices -> Ids \cup {0}]
  /\ \A d \in Devices : jar'[d] \in {jar[d], 0} \/ (At(q, "respond") /\ jar'[d] = req[q].sets)

LEMMA StepJar ==
  ASSUME Typed, NEW q \in Reqs, Step(q)
  PROVE  JarGoes(q)
<1>1. jar \in [Devices -> Ids \cup {0}]
  BY DEF Typed, TypeOK
<1>2. CASE UNCHANGED jar
  BY <1>1, <1>2 DEF JarGoes
<1>3. CASE Respond(q)
  <2>1. At(q, "respond") /\ "respond" \in Pcs
    BY <1>3 DEF Respond, Pcs
  <2>2. req[q].sets \in Ids \cup {0}
    BY <2>1, AtRow, RowFields DEF Typed
  <2>3. PICK c \in {0, req[q].sets} : jar' = [jar EXCEPT ![req[q].device] = c]
    BY <1>3 DEF Respond
  <2>4. QED
    BY <1>1, <2>1, <2>2, <2>3 DEF JarGoes
<1>4. CASE Send(q) \/ UserByCookieHash(q) \/ StoreUserInCache(q) \/ Mint(q) \/ Cancel(q)
  BY <1>2, <1>4 DEF Send, Resolve, UserByCookieHash, StoreUserInCache, Mint, Cancel
<1>5. CASE Handler(q)
  BY <1>2, <1>5 DEF Handler, OpenPlay, CompletePlay, LeavePlay, InsertMagicLink, ConsumeMagicLink,
     LookUpEmail, SetEmailOnUser, MoveCookies, MovePlays, CommitMerge,
     DeleteDeviceCookie, DeleteAllDeviceCookies, SetHandle, InvalidateCookieHash
<1>6. QED
  BY <1>3, <1>4, <1>5 DEF Step

LEMMA StepCounts ==
  ASSUME Typed, NEW q \in Reqs, Step(q)
  PROVE  stale' \subseteq Ids /\ calls' \in 0..MaxCalls /\ faults' \in 0..MaxFaults
<1>1. stale \subseteq Ids /\ calls \in 0..MaxCalls /\ faults \in 0..MaxFaults
  BY DEF Typed, TypeOK
<1>2. calls' \in 0..MaxCalls
  <2>1. calls' = calls \/ (calls < MaxCalls /\ calls' = calls + 1)
    BY DEF Step, Send, Resolve, UserByCookieHash, StoreUserInCache, Mint, Respond, Cancel,
       Handler, OpenPlay, CompletePlay, LeavePlay, InsertMagicLink, ConsumeMagicLink,
       LookUpEmail, SetEmailOnUser, MoveCookies, MovePlays, CommitMerge,
       DeleteDeviceCookie, DeleteAllDeviceCookies, SetHandle, InvalidateCookieHash
  <2>2. QED
    BY <1>1, <2>1, Sizes
<1>3. faults' \in 0..MaxFaults
  <2>1. faults' = faults \/ (faults < MaxFaults /\ faults' = faults + 1)
    BY DEF Step, Send, Resolve, UserByCookieHash, StoreUserInCache, Mint, Respond, Cancel,
       Handler, OpenPlay, CompletePlay, LeavePlay, InsertMagicLink, ConsumeMagicLink,
       LookUpEmail, SetEmailOnUser, MoveCookies, MovePlays, CommitMerge,
       DeleteDeviceCookie, DeleteAllDeviceCookies, SetHandle, InvalidateCookieHash
  <2>2. QED
    BY <1>1, <2>1, Sizes
<1>4. stale' \subseteq Ids
  <2>1. CASE stale' \subseteq stale
    BY <1>1, <2>1
  <2>2. \A changed \in SUBSET Ids : Outdated(q, changed) \subseteq Ids
    BY DEF Outdated
  <2>3. \A id : CookiesOf(id) \subseteq Ids
    BY DEF CookiesOf
  <2>4. \A r \in Reqs, pc \in Pcs : At(r, pc) => req[r] \in RequestRow /\ req[r].cookie \in Ids \cup {0}
                                                 /\ req[r].moved.cookies \in SUBSET Ids
    BY AtRow, RowFields DEF Typed
  <2>5. CASE Send(q) \/ UserByCookieHash(q) \/ StoreUserInCache(q) \/ Mint(q) \/ Respond(q)
             \/ OpenPlay(q) \/ CompletePlay(q) \/ LeavePlay(q) \/ InsertMagicLink(q) \/ ConsumeMagicLink(q)
             \/ LookUpEmail(q) \/ MoveCookies(q) \/ MovePlays(q)
    BY <2>1, <2>5 DEF Send, Resolve, UserByCookieHash, StoreUserInCache, Mint, Respond,
       OpenPlay, CompletePlay, LeavePlay, InsertMagicLink, ConsumeMagicLink, LookUpEmail, MoveCookies, MovePlays
  <2>6. CASE SetEmailOnUser(q) \/ SetHandle(q) \/ DeleteAllDeviceCookies(q)
    BY <1>1, <2>2, <2>3, <2>6 DEF SetEmailOnUser, SetHandle, DeleteAllDeviceCookies
  <2>7. CASE CommitMerge(q)
    <3>1. req[q].moved.cookies \in SUBSET Ids
      BY <2>4, <2>7 DEF CommitMerge, Pcs
    <3>2. stale' = stale \cup Outdated(q, req[q].moved.cookies \cup CookiesOf(req[q].me))
      BY <2>7 DEF CommitMerge
    <3>3. QED
      BY <1>1, <2>2, <2>3, <3>1, <3>2
  <2>8. CASE DeleteDeviceCookie(q)
    <3>1. req[q].cookie \in Ids \cup {0}
      BY <2>4, <2>8 DEF DeleteDeviceCookie, Pcs
    <3>2. stale' = stale \/ stale' = stale \cup Outdated(q, {req[q].cookie} \ {0})
      BY <2>8 DEF DeleteDeviceCookie
    <3>3. QED
      BY <1>1, <2>2, <3>1, <3>2
  <2>9. CASE InvalidateCookieHash(q)
    <3>1. req[q].cookie \in Ids \cup {0}
      BY <2>4, <2>9 DEF InvalidateCookieHash, Pcs
    <3>2. QED
      BY <1>1, <2>9, <3>1 DEF InvalidateCookieHash, Refreshed
  <2>10. CASE Cancel(q)
    <3>1. CASE At(q, "evict")
      <4>1. req[q].cookie \in Ids \cup {0}
        BY <2>4, <3>1 DEF Pcs
      <4>2. QED
        BY <1>1, <2>10, <4>1 DEF Cancel
    <3>2. QED
      BY <1>1, <2>10, <3>1 DEF Cancel
  <2>11. QED
    BY <2>5, <2>6, <2>7, <2>8, <2>9, <2>10 DEF Step, Handler
<1>5. QED
  BY <1>2, <1>3, <1>4
LEMMA OnlyOne == \A b : IsFiniteSet({b}) /\ Cardinality({b}) = 1
BY FS_Singleton

LEMMA TypeStep ==
  ASSUME Typed, MergesFit, NEW q \in Reqs, Step(q)
  PROVE  TypeOK'
<1>1. RowsTyped' /\ req' \in [Reqs -> RequestRow \cup {Idle}] /\ CacheGoes(q) /\ JarGoes(q)
  BY StepRows, StepRow, StepCache, StepJar
<1>2. stale' \subseteq Ids /\ calls' \in 0..MaxCalls /\ faults' \in 0..MaxFaults
  BY StepCounts
<1>3. \A c \in Ids : Cardinality(cache'[c]) <= 1
  <2>1. ASSUME NEW c \in Ids
        PROVE  Cardinality(cache'[c]) <= 1
    <3>1. cache'[c] = cache[c] \/ cache'[c] = {} \/ \E b \in Blobs : cache'[c] = {b}
      BY <1>1 DEF CacheGoes
    <3>2. Cardinality(cache[c]) <= 1
      BY DEF Typed, TypeOK
    <3>3. ASSUME NEW b \in Blobs, cache'[c] = {b}
          PROVE  Cardinality(cache'[c]) <= 1
      <4>1. Cardinality(cache'[c]) = 1
        BY <3>3, OnlyOne
      <4>2. QED
        BY <4>1
    <3>4. CASE cache'[c] = {}
      <4>1. Cardinality(cache'[c]) = 0
        BY <3>4, FS_EmptySet
      <4>2. QED
        BY <4>1
    <3>5. QED
      BY <3>1, <3>2, <3>3, <3>4
  <2>2. QED
    BY <2>1
<1>4. QED
  BY <1>1, <1>2, <1>3 DEF TypeOK, RowsTyped, CacheGoes, JarGoes

LEMMA KnowsKept ==
  ASSUME Kept, NEW c \in Ids, NEW id, Born(c), Knows(c, id)
  PROVE  Born(c)' /\ Knows(c, id)'
BY DEF Kept, Born, Knows, Present

LEMMA BornStep ==
  ASSUME Typed, MergesFit, NEW q \in Reqs, Step(q)
  PROVE  BornFit'
<1>1. Kept /\ CacheGoes(q) /\ JarGoes(q) /\ TypeOK /\ BornFit /\ LocalsFit
  BY StepRows, StepCache, StepJar DEF Typed
<1>2. ASSUME NEW c \in Ids, owner'[c] # 0
      PROVE  Born(c)'
  BY <1>1, <1>2 DEF Kept, BornFit, Born
<1>3. ASSUME NEW c \in Ids
      PROVE  /\ cache'[c] # {} => Born(c)'
             /\ \A b \in cache'[c] : Knows(c, b.id)'
  <2>1. CASE cache'[c] = {}
    BY <2>1
  <2>2. CASE cache'[c] = cache[c]
    <3>1. \A b \in cache[c] : Born(c) /\ Knows(c, b.id)
      BY <1>1 DEF BornFit
    <3>2. \A b \in cache[c] : Born(c)' /\ Knows(c, b.id)'
      BY <1>1, <3>1, KnowsKept
    <3>3. QED
      BY <2>2, <3>2
  <2>3. ASSUME NEW b \in Blobs, cache'[c] = {b}, Born(c), Knows(c, b.id)
        PROVE  Born(c)' /\ \A a \in cache'[c] : Knows(c, a.id)'
    BY <1>1, <2>3, KnowsKept
  <2>4. ASSUME NEW b \in Blobs, cache'[c] = {b}, user' = [user EXCEPT ![c] = Anonymous],
               owner'[c] = c, b.id = c
        PROVE  Born(c)' /\ \A a \in cache'[c] : Knows(c, a.id)'
    <3>1. user'[c] = Anonymous
      BY <1>1, <2>4 DEF TypeOK
    <3>2. QED
      BY <2>4, <3>1, States DEF Born, Knows
  <2>5. QED
    BY <1>1, <2>1, <2>2, <2>3, <2>4 DEF CacheGoes
<1>4. ASSUME NEW d \in Devices, jar'[d] # 0
      PROVE  Born(jar[d])'
  <2>1. CASE jar'[d] = jar[d]
    BY <1>1, <1>4, <2>1 DEF BornFit, Kept, Born, TypeOK
  <2>2. CASE At(q, "respond") /\ jar'[d] = req[q].sets
    <3>1. req[q].sets \in Ids /\ Born(req[q].sets)
      BY <1>1, <1>4, <2>2, AtRow, RowFields DEF LocalFit, Pcs
    <3>2. QED
      BY <1>1, <2>2, <3>1 DEF Kept, Born
  <2>3. QED
    BY <1>1, <1>4, <2>1, <2>2 DEF JarGoes
<1>5. QED
  BY <1>2, <1>3, <1>4 DEF BornFit
\* Request r is where it was, or a statement further on.
Continues(r) ==
  /\ req[r] \in RequestRow /\ req'[r] \in RequestRow
  /\ req'[r].verb = req[r].verb /\ req'[r].link = req[r].link /\ req'[r].cookie = req[r].cookie
  /\ req'[r].sets = req[r].sets /\ req'[r].me = req[r].me
  /\ \/ req'[r].pc = req[r].pc /\ req'[r].got = req[r].got
     \/ req[r].pc \notin Resolving /\ req'[r].pc \notin Resolving
  /\ req'[r].pc \in SigningIn => req[r].pc \in SigningIn
  /\ req'[r].pc \in {"handle", "logout"} => req'[r].pc = req[r].pc
  /\ req'[r].pc \in {"merge", "plays", "drop"} => req'[r].target # 0 /\ req'[r].target # req'[r].me

LEMMA LocalKept ==
  ASSUME Typed, Kept, NEW r \in Reqs, LocalFit(req[r]), Continues(r)
  PROVE  LocalFit(req[r])'
<1> DEFINE x == req[r]
<1>0. PICK m : m = x.me
  OBVIOUS
<1>1. PICK c \in Ids \cup {0}, s \in Ids \cup {0} : c = x.cookie /\ s = x.sets /\ m = x.me
  BY <1>0, RowFields DEF Continues
<1>2. /\ c = req'[r].cookie /\ s = req'[r].sets /\ m = req'[r].me
      /\ req'[r].verb = x.verb /\ req'[r].link = x.link
  BY <1>1 DEF Continues
<1>3. (c # 0 => Born(c)') /\ (s # 0 => Born(s)')
  BY <1>1 DEF LocalFit, Born, Kept
<1>4. req'[r].pc \in {"lookup", "store"} => c # 0 /\ s = c
  BY <1>1, <1>2 DEF LocalFit, Continues, Resolving
<1>5. req'[r].pc = "store" => \E b \in Blobs : req'[r].got = {b} /\ Knows(c, b.id)'
  <2>1. SUFFICES ASSUME req'[r].pc = "store"
                 PROVE  \E b \in Blobs : req'[r].got = {b} /\ Knows(c, b.id)'
    OBVIOUS
  <2>2. x.pc = "store" /\ req'[r].got = x.got
    BY <2>1 DEF Continues, Resolving
  <2>3. PICK b \in Blobs : x.got = {b} /\ Knows(x.cookie, b.id)
    BY <2>2 DEF LocalFit
  <2>4. c \in Ids /\ Born(c) /\ Knows(c, b.id)
    BY <1>1, <2>2, <2>3 DEF LocalFit
  <2>5. QED
    BY <2>2, <2>3, <2>4, KnowsKept
<1>6. req'[r].pc \notin Resolving => m # 0 /\ s # 0 /\ Knows(s, m)'
  <2>1. SUFFICES ASSUME req'[r].pc \notin Resolving PROVE m # 0 /\ s # 0 /\ Knows(s, m)'
    OBVIOUS
  <2>2. m # 0 /\ s \in Ids /\ s # 0 /\ Born(s) /\ Knows(s, m)
    BY <1>1, <2>1 DEF LocalFit, Continues
  <2>3. QED
    BY <2>2, KnowsKept
<1>7. req'[r].verb = "consume" => req'[r].link \in Mailed'
  BY <1>2 DEF LocalFit, Kept
<1>8. /\ req'[r].pc \in SigningIn => req'[r].verb = "consume"
      /\ req'[r].pc = "handle" => req'[r].verb = "handle"
      /\ req'[r].pc = "logout" => req'[r].verb = "logout"
      /\ req'[r].pc \in {"merge", "plays", "drop"} => req'[r].target # 0 /\ req'[r].target # m
  BY <1>2 DEF LocalFit, Continues
<1>9. QED
  BY <1>2, <1>3, <1>4, <1>5, <1>6, <1>7, <1>8 DEF LocalFit

\* A request that has its user.
LEMMA LocalBegins ==
  ASSUME Typed, NEW r \in Reqs, NEW c \in Ids \cup {0}, NEW s \in Ids, NEW m \in Ids,
         req'[r] \in RequestRow, req'[r].pc = req'[r].verb, req'[r].verb \in Kinds,
         c = req'[r].cookie, s = req'[r].sets, m = req'[r].me,
         Born(s)', Knows(s, m)', c # 0 => Born(c)', req'[r].verb = "consume" => req'[r].link \in Mailed'
  PROVE  LocalFit(req[r])'
<1>1. /\ req'[r].pc \notin Resolving /\ req'[r].pc \notin {"merge", "plays", "drop"}
      /\ req'[r].pc \in SigningIn => req'[r].verb = "consume"
  BY DEF Kinds, Resolving, SigningIn
<1>2. m # 0 /\ s # 0 /\ req'[r].pc \notin {"lookup", "store"}
  BY <1>1, Sizes DEF Resolving
<1>3. QED
  BY <1>1, <1>2 DEF LocalFit

LEMMA ContinuesSame ==
  ASSUME NEW r \in Reqs, req[r] \in RequestRow, LocalFit(req[r]), Same(req'[r], req[r])
  PROVE  Continues(r)
<1>1. CASE req'[r] = req[r]
  BY <1>1 DEF Continues, LocalFit
<1>2. CASE req'[r] \in RequestRow /\ req'[r].pc = req[r].pc /\ Like(req'[r], req[r])
  BY <1>2 DEF Continues, Like, LocalFit
<1>3. QED
  BY <1>1, <1>2 DEF Same

LEMMA ContinuesHandler ==
  ASSUME Typed, NEW q \in Reqs, req[q] # Idle, HandlerGoes(q)
  PROVE  Continues(q) /\ req'[q].pc \notin Resolving /\ req[q].pc \notin Resolving
<1>1. LocalFit(req[q]) /\ req[q] \in RequestRow
  BY Requests DEF Typed, LocalsFit
<1>2. PICK to \in Pcs : Arc(req[q].pc, to) /\ Onward(q, to)
  BY DEF HandlerGoes
<1>3. req'[q].pc = to /\ req'[q] \in RequestRow
  BY <1>2 DEF Onward
<1>4. req[q].pc \notin Resolving /\ to \notin Resolving
  BY <1>2 DEF Arc, Resolving
<1>5. /\ to \in SigningIn => req[q].pc \in SigningIn
      /\ to \notin {"handle", "logout"}
      /\ to = "merge" => req[q].pc = "email"
      /\ to \in {"plays", "drop"} => req[q].pc \in {"merge", "plays", "drop"}
  BY <1>2 DEF Arc, SigningIn
<1>6. to \in {"merge", "plays", "drop"} => req'[q].target # 0 /\ req'[q].target # req'[q].me
  <2>1. CASE to = "merge"
    <3>1. \A t \in Present : t # 0
      BY Sizes DEF Present
    <3>2. QED
      BY <1>3, <2>1, <3>1 DEF HandlerGoes
  <2>2. CASE to \in {"plays", "drop"}
    BY <1>1, <1>3, <1>5, <2>2 DEF HandlerGoes, LocalFit
  <2>3. QED
    BY <2>1, <2>2
<1>7. QED
  BY <1>1, <1>2, <1>3, <1>4, <1>5, <1>6 DEF Continues, HandlerGoes, Onward

LEMMA LocalStep ==
  ASSUME Typed, MergesFit, NEW q \in Reqs, Step(q)
  PROVE  req'[q] # Idle => LocalFit(req[q])'
<1>1. Kept
  BY StepRows
<1>2. CASE Send(q)
  <2>1. PICK verb \in VerbsOf[q], d \in Devices, l \in Links \cup {0} :
          Resolve(q, verb, d, l) /\ (verb = "consume" => l \in Mailed)
    BY <1>2 DEF Send, Mailed
  <2> DEFINE c == jar[d]
  <2>2. /\ req'[q] \in RequestRow
        /\ c \in Ids \cup {0} /\ verb \in Kinds
        /\ req'[q].verb = verb /\ req'[q].link = l /\ req'[q].cookie = c /\ req'[q].sets = c
        /\ \/ c = 0 /\ req'[q].pc = "mint"
           \/ c # 0 /\ req'[q].pc = "lookup"
           \/ c # 0 /\ \E b \in cache[c] : req'[q].pc = verb /\ req'[q].me = b.id
    BY <2>1, ResolveRow
  <2>3. PICK k \in Ids \cup {0} : k = c
    BY <2>2
  <2>4. (k # 0 => Born(k) /\ Born(k)') /\ (verb = "consume" => l \in Mailed')
    BY <1>1, <2>1, <2>2, <2>3 DEF Typed, BornFit, Born, Kept
  <2>5. CASE req'[q].pc \in {"mint", "lookup"} /\ (req'[q].pc = "mint" \/ k # 0)
    <3>1. req'[q].pc \notin SigningIn /\ req'[q].pc \in Resolving /\ req'[q].pc # "store"
      BY <2>5 DEF SigningIn, Resolving
    <3>2. QED
      BY <2>2, <2>3, <2>4, <2>5, <3>1 DEF LocalFit
  <2>6. ASSUME k # 0, NEW b \in cache[k], req'[q].pc = verb /\ req'[q].me = b.id
        PROVE  LocalFit(req[q])'
    <3>1. k \in Ids /\ Knows(k, b.id) /\ b.id \in Ids
      BY <2>6 DEF Typed, BornFit, Knows
    <3>2. Knows(k, b.id)' /\ Born(k)'
      BY <1>1, <2>4, <2>6, <3>1, KnowsKept
    <3>3. QED
      BY <2>2, <2>3, <2>4, <2>6, <3>1, <3>2, LocalBegins
  <2>7. QED
    BY <2>2, <2>3, <2>5, <2>6
<1>3. CASE UserByCookieHash(q)
  <2>1. PICK c \in Ids :
          /\ c = req[q].cookie
          /\ \/ /\ Onward(q, "store") /\ owner[c] # 0 /\ owner[c] \in Present
                /\ req'[q].got = {Blob(owner[c])} /\ req'[q].sets = req[q].sets
             \/ Onward(q, "mint") /\ Like(req'[q], req[q])
    BY <1>3, LookupRow
  <2>2. req[q] \in RequestRow /\ LocalFit(req[q]) /\ req[q].pc = "lookup"
    BY <1>3, AtRow DEF Typed, UserByCookieHash, Pcs
  <2>3. Born(c) /\ Born(c)' /\ req[q].sets = c
    BY <1>1, <2>1, <2>2, Sizes DEF LocalFit, Born, Kept
  <2>4. req[q].verb = "consume" => req[q].link \in Mailed'
    BY <1>1, <2>2 DEF LocalFit, Kept
  <2>5. CASE /\ Onward(q, "store") /\ owner[c] # 0 /\ owner[c] \in Present
             /\ req'[q].got = {Blob(owner[c])} /\ req'[q].sets = req[q].sets
    <3>1. PICK b \in Blobs : b = Blob(owner[c]) /\ b.id = owner[c] /\ b.id \in Present
      BY <2>5, BlobType DEF Typed
    <3>2. Knows(c, b.id)
      BY <3>1, States DEF Knows, Born, Present, Typed
    <3>3. Knows(c, b.id)'
      BY <1>1, <2>3, <3>2, KnowsKept
    <3>4. QED
      BY <2>1, <2>3, <2>4, <2>5, <3>1, <3>3, Sizes DEF LocalFit, Onward, Resolving, SigningIn
  <2>6. CASE Onward(q, "mint") /\ Like(req'[q], req[q])
    BY <2>1, <2>3, <2>4, <2>6 DEF LocalFit, Onward, Resolving, SigningIn, Like
  <2>7. QED
    BY <2>1, <2>5, <2>6
<1>4. CASE StoreUserInCache(q)
  <2>1. PICK b \in Blobs :
          /\ At(q, "store") /\ req[q].got = {b} /\ Knows(req[q].cookie, b.id) /\ req[q].cookie \in Ids
          /\ Onward(q, req[q].verb) /\ req'[q].me = b.id /\ req'[q].sets = req[q].sets
          /\ req[q].sets = req[q].cookie
    BY <1>4, StoreRow
  <2>2. req[q] \in RequestRow /\ LocalFit(req[q]) /\ req[q].verb \in Kinds
    BY <2>1, AtRow, RowFields DEF Typed, Pcs
  <2>3. PICK c \in Ids : c = req[q].cookie /\ Born(c) /\ Knows(c, b.id)
    BY <2>1, <2>2, Sizes DEF LocalFit
  <2>4. Knows(c, b.id)' /\ Born(c)' /\ b.id \in Ids
    BY <1>1, <2>3, KnowsKept DEF Knows
  <2>5. req[q].verb = "consume" => req[q].link \in Mailed'
    BY <1>1, <2>2 DEF LocalFit, Kept
  <2>6. /\ req'[q] \in RequestRow /\ req'[q].pc = req'[q].verb /\ req'[q].verb \in Kinds
        /\ c = req'[q].cookie /\ c = req'[q].sets /\ b.id = req'[q].me
        /\ req'[q].verb = "consume" => req'[q].link \in Mailed'
    BY <2>1, <2>2, <2>3, <2>5 DEF Onward
  <2>7. QED
    BY <2>4, <2>6, LocalBegins
<1>5. CASE Mint(q)
  <2>1. PICK id \in Ids :
          /\ At(q, "mint") /\ user' = [user EXCEPT ![id] = Anonymous] /\ owner' = [owner EXCEPT ![id] = id]
          /\ Onward(q, req[q].verb) /\ req'[q].me = id /\ req'[q].sets = id
    BY <1>5, MintRow
  <2>2. req[q] \in RequestRow /\ LocalFit(req[q]) /\ req[q].verb \in Kinds
    BY <2>1, AtRow, RowFields DEF Typed, Pcs
  <2>3. Born(id)' /\ Knows(id, id)'
    <3>1. user'[id] = Anonymous /\ owner'[id] = id
      BY <2>1 DEF Typed, TypeOK
    <3>2. QED
      BY <3>1, States DEF Born, Knows
  <2>4. PICK c \in Ids \cup {0} : c = req[q].cookie
    BY <2>2, RowFields
  <2>5. c # 0 => Born(c)'
    BY <1>1, <2>2, <2>4 DEF LocalFit, Born, Kept
  <2>6. req[q].verb = "consume" => req[q].link \in Mailed'
    BY <1>1, <2>2 DEF LocalFit, Kept
  <2>7. /\ req'[q] \in RequestRow /\ req'[q].pc = req'[q].verb /\ req'[q].verb \in Kinds
        /\ c = req'[q].cookie /\ id = req'[q].sets /\ id = req'[q].me
        /\ req'[q].verb = "consume" => req'[q].link \in Mailed'
    BY <2>1, <2>2, <2>4, <2>6 DEF Onward
  <2>8. QED
    BY <2>3, <2>5, <2>7, LocalBegins
<1>6. CASE Handler(q)
  <2>1. HandlerGoes(q)
    BY <1>6, HandlerRow
  <2>2. req[q] # Idle
    BY <2>1, IdleFields DEF HandlerGoes, Onward
  <2>3. LocalFit(req[q])
    BY <2>2 DEF Typed, LocalsFit
  <2>4. QED
    BY <1>1, <2>1, <2>2, <2>3, ContinuesHandler, LocalKept
<1>7. CASE Respond(q) \/ Cancel(q)
  BY <1>7, EndRow DEF Respond, Cancel, Typed
<1>8. QED
  BY <1>2, <1>3, <1>4, <1>5, <1>6, <1>7 DEF Step

LEMMA LocalsStep ==
  ASSUME Typed, MergesFit, NEW q \in Reqs, Step(q)
  PROVE  LocalsFit'
<1>1. /\ Kept /\ BornFit' /\ req' \in [Reqs -> RequestRow \cup {Idle}]
      /\ \A r \in Reqs \ {q} : Same(req'[r], req[r])
  BY StepRows, BornStep, StepRow
<1>2. ASSUME NEW r \in Reqs \ {q}, req'[r] # Idle
      PROVE  LocalFit(req[r])'
  <2>1. req[r] # Idle
    BY <1>1, <1>2, IdleFields DEF Same
  <2>2. req[r] \in RequestRow /\ LocalFit(req[r])
    BY <2>1, Requests DEF Typed, LocalsFit
  <2>3. QED
    BY <1>1, <2>2, ContinuesSame, LocalKept
<1>3. QED
  BY <1>2, LocalStep DEF LocalsFit
-----------------------------------------------------------------------------
(***************************************************************************)
(* Merges.                                                                 *)
(***************************************************************************)
LEMMA MergingRow ==
  ASSUME Typed, NEW r \in Merging
  PROVE  /\ r \in Reqs /\ req[r] \in RequestRow /\ LocalFit(req[r]) /\ req[r].pc \in {"plays", "drop"}
         /\ req[r].me \in Ids /\ req[r].target \in Ids /\ req[r].target # req[r].me
         /\ req[r].moved.cookies \subseteq Ids
<1>1. r \in Reqs /\ req[r].pc \in {"plays", "drop"}
  BY DEF Merging
<1>2. req[r] \in RequestRow /\ LocalFit(req[r])
  BY <1>1, AtRow DEF Typed, At, Pcs
<1>3. QED
  BY <1>1, <1>2, RowFields DEF LocalFit, Resolving

\* The locks of a merge hold until it commits: nobody deletes the user it goes
\* into, or takes a cookie that it moves.
LEMMA MergeSafe ==
  ASSUME Typed, MergesFit, NEW q \in Reqs, Step(q), NEW r \in Merging, r # q
  PROVE  req[r].target \in Present' /\ \A c \in req[r].moved.cookies : owner'[c] = owner[c]
<1>1. /\ r \in Reqs /\ req[r].me \in Ids /\ req[r].target \in Present
      /\ req[r].moved.cookies \subseteq Ids /\ req[r].moved.cookies \subseteq CookiesOf(req[r].me)
      /\ req[r].me # 0
  BY MergingRow, Sizes DEF MergesFit, MergeFit
<1>2. CASE UNCHANGED <<user, owner>>
  BY <1>1, <1>2 DEF Present
<1>3. CASE Send(q) \/ UserByCookieHash(q) \/ StoreUserInCache(q) \/ Respond(q) \/ Cancel(q)
           \/ OpenPlay(q) \/ CompletePlay(q) \/ LeavePlay(q) \/ InsertMagicLink(q) \/ ConsumeMagicLink(q)
           \/ LookUpEmail(q) \/ MoveCookies(q) \/ MovePlays(q) \/ InvalidateCookieHash(q)
  BY <1>2, <1>3 DEF Send, Resolve, UserByCookieHash, StoreUserInCache, Respond, Cancel, rows,
     OpenPlay, CompletePlay, LeavePlay, InsertMagicLink, ConsumeMagicLink,
     LookUpEmail, MoveCookies, MovePlays, InvalidateCookieHash
<1>4. CASE Mint(q)
  <2>1. PICK id \in Ids :
          /\ user[id] = Unborn /\ user' = [user EXCEPT ![id] = Anonymous] /\ owner' = [owner EXCEPT ![id] = id]
    BY <1>4, MintRow
  <2>2. UNCHANGED <<link, play, streak>>
    BY <1>4 DEF Mint
  <2>3. Present' = Present \cup {id}
    BY <2>1, <2>2, MintStep
  <2>4. \A c \in CookiesOf(req[r].me) : c # id
    BY <1>1, <2>1 DEF Typed, BornFit, Born, CookiesOf
  <2>5. QED
    BY <1>1, <2>1, <2>3, <2>4 DEF Typed, TypeOK
<1>5. CASE SetEmailOnUser(q) \/ SetHandle(q)
  <2>1. owner' = owner
    BY <1>5 DEF SetEmailOnUser, SetHandle
  <2>2. ASSUME NEW id \in Present
        PROVE  id \in Present'
    <3>1. \/ user' = user
          \/ \E me, e : user' = [user EXCEPT ![me].email = e]
          \/ \E me, h : user' = [user EXCEPT ![me].handle = h]
      BY <1>5 DEF SetEmailOnUser, SetHandle
    <3>2. user[id] \in UserRow /\ id \in Ids
      BY States DEF Typed, Present
    <3>3. user'[id].state = user[id].state
      BY <3>1, <3>2 DEF Typed, TypeOK, UserRow
    <3>4. QED
      BY <3>3 DEF Present
  <2>3. QED
    BY <1>1, <2>1, <2>2
<1>6. CASE CommitMerge(q)
  <2>1. At(q, "drop") /\ \A o \in Merging : req[o].target # req[q].me
    BY <1>6 DEF CommitMerge
  <2>2. q \in Merging
    BY <2>1 DEF Merging, At
  <2>3. req[q].me # req[r].me /\ req[r].target # req[q].me
    BY <2>1, <2>2 DEF MergesFit
  <2>4. /\ Present' = Present \ {req[q].me}
        /\ req[q].moved.cookies \subseteq CookiesOf(req[q].me)
        /\ \A c \in Ids : owner'[c] = IF c \in req[q].moved.cookies THEN req[q].target
                                      ELSE IF owner[c] = req[q].me THEN 0 ELSE owner[c]
    BY <1>6, MergeStep
  <2>5. \A c \in CookiesOf(req[r].me) : c \notin req[q].moved.cookies /\ owner[c] # req[q].me
    BY <2>3, <2>4 DEF CookiesOf
  <2>6. QED
    BY <1>1, <2>3, <2>4, <2>5
<1>7. CASE DeleteDeviceCookie(q)
  <2>1. ~CookieLocked(req[q].cookie)
    BY <1>7 DEF DeleteDeviceCookie
  <2>2. UNCHANGED user /\ (owner' = owner \/ owner' = [c \in Ids |-> IF c = req[q].cookie THEN 0 ELSE owner[c]])
    BY <1>7 DEF DeleteDeviceCookie
  <2>3. QED
    BY <1>1, <2>1, <2>2 DEF CookieLocked, Present
<1>8. CASE DeleteAllDeviceCookies(q)
  BY <1>1, <1>8 DEF DeleteAllDeviceCookies, CookieLocked, Present
<1>9. QED
  BY <1>3, <1>4, <1>5, <1>6, <1>7, <1>8 DEF Step, Handler

\* Where a step leaves its request.
LEMMA PcGoes ==
  ASSUME Typed, NEW q \in Reqs, Step(q)
  PROVE  \/ Handler(q) /\ Arc(req[q].pc, req'[q].pc)
         \/ UserByCookieHash(q) /\ req'[q].pc = "store"
         \/ ~Handler(q) /\ req'[q].pc \in Kinds \cup {"lookup", "mint", "idle"}
<1>1. CASE Handler(q)
  BY <1>1, HandlerRow DEF HandlerGoes, Onward
<1>2. CASE Send(q) /\ ~Handler(q)
  <2>1. PICK verb \in VerbsOf[q], d \in Devices, l \in Links \cup {0} : Resolve(q, verb, d, l)
    BY <1>2 DEF Send, Mailed
  <2>2. verb \in Kinds /\ req'[q].pc \in {"mint", "lookup", verb}
    BY <2>1, ResolveRow
  <2>3. QED
    BY <1>2, <2>2
<1>3. CASE UserByCookieHash(q) /\ ~Handler(q)
  BY <1>3, LookupRow DEF Onward
<1>4. CASE (StoreUserInCache(q) \/ Mint(q)) /\ ~Handler(q)
  <2>1. \E pc \in Resolving : At(q, pc)
    BY <1>4 DEF StoreUserInCache, Mint, Resolving
  <2>2. req[q].verb \in Kinds
    BY <2>1, AtRow, RowFields DEF Typed, Resolving, Pcs
  <2>3. req'[q].pc = req[q].verb
    BY <1>4, StoreRow, MintRow DEF Onward
  <2>4. QED
    BY <1>4, <2>2, <2>3
<1>5. CASE (Respond(q) \/ Cancel(q)) /\ ~Handler(q)
  BY <1>5, EndRow, IdleFields DEF Respond, Cancel, Typed
<1>6. QED
  BY <1>1, <1>2, <1>3, <1>4, <1>5 DEF Step

\* Only a request that moves cookies or plays joins the merges.
LEMMA MergeBegins ==
  ASSUME Typed, NEW q \in Reqs, Step(q), q \in Merging'
  PROVE  MoveCookies(q) \/ MovePlays(q)
<1>1. req'[q].pc \in {"plays", "drop"}
  BY DEF Merging
<1>2. Handler(q) /\ req[q].pc \in {"merge", "plays"}
  BY <1>1, PcGoes DEF Arc, Kinds
<1>3. QED
  BY <1>2 DEF Handler, At, OpenPlay, CompletePlay, LeavePlay, InsertMagicLink, ConsumeMagicLink,
     LookUpEmail, SetEmailOnUser, CommitMerge,
     DeleteDeviceCookie, DeleteAllDeviceCookies, SetHandle, InvalidateCookieHash

LEMMA MergeKept ==
  ASSUME Typed, MergesFit, NEW q \in Reqs, Step(q), NEW r \in Merging, r # q
  PROVE  MergeFit(req[r])' /\ req'[r].me = req[r].me
<1>1. Kept /\ Same(req'[r], req[r]) /\ r \in Reqs
  BY StepRows, StepRow, MergingRow
<1>2. PICK t, m, cs, ds :
        /\ t = req[r].target /\ m = req[r].me /\ cs = req[r].moved.cookies
        /\ ds = req[r].moved.dropped
  OBVIOUS
<1>3. /\ t = req'[r].target /\ m = req'[r].me /\ cs = req'[r].moved.cookies
      /\ ds = req'[r].moved.dropped
  BY <1>1, <1>2 DEF Same, Like
<1>4. /\ t \in Present /\ cs \subseteq CookiesOf(m)
      /\ \A p \in ds : Played(PlaysOf(t), p.puzzle)
  BY <1>2 DEF MergesFit, MergeFit
<1>5. t \in Present' /\ \A c \in cs : owner'[c] = owner[c]
  BY <1>2, MergeSafe
<1>6. \A n : Played(PlaysOf(t), n) => Played(PlaysOf(t)', n)
  <2>1. \A p \in PlaysOf(t) : Played(PlaysOf(t)', p.puzzle)
    BY <1>1, <1>4, <1>5 DEF Kept
  <2>2. QED
    BY <2>1 DEF Played
<1>7. cs \subseteq CookiesOf(m)'
  BY <1>4, <1>5 DEF CookiesOf
<1>8. \A p \in ds : Played(PlaysOf(t)', p.puzzle)
  BY <1>4, <1>6
<1>9. QED
  BY <1>2, <1>3, <1>5, <1>7, <1>8 DEF MergeFit

LEMMA MergesStep ==
  ASSUME Typed, MergesFit, NEW q \in Reqs, Step(q)
  PROVE  MergesFit'
<1>1. \A r \in Reqs \ {q} : Same(req'[r], req[r]) /\ (r \in Merging' <=> r \in Merging)
  <2>1. \A r \in Reqs \ {q} : Same(req'[r], req[r])
    BY StepRow
  <2>2. QED
    BY <2>1 DEF Same, Merging
<1>2. \A r \in Merging' : r # q => MergeFit(req[r])' /\ req'[r].me = req[r].me /\ r \in Merging
  <2>1. \A r \in Merging' : r \in Reqs
    BY DEF Merging
  <2>2. QED
    BY <1>1, <2>1, MergeKept
<1>3. ASSUME MoveCookies(q), q \in Merging'
      PROVE  MergeFit(req[q])' /\ \A r \in Merging : r # q => req'[q].me # req[r].me
  <2>1. UNCHANGED <<user, owner, play>> /\ \A r \in Merging : req[r].me # req[q].me
    BY <1>3 DEF MoveCookies, rows
  <2>2. PICK t, m : t = req[q].target /\ m = req[q].me
    OBVIOUS
  <2>3. /\ t \in Present
        /\ req'[q].target = t /\ req'[q].me = m /\ req'[q].pc = "plays"
        /\ req'[q].moved.cookies = CookiesOf(m) /\ req'[q].moved.dropped = Twice(m, t)
    <3>1. ~Onward(q, "respond")
      BY <1>3 DEF Onward, Merging
    <3>2. QED
      BY <1>3, <2>2, <3>1, MoveCookiesRow DEF Onward
  <2>4. \A p \in Twice(m, t) : Played(PlaysOf(t), p.puzzle)
    BY DEF Twice, Played
  <2>5. Present' = Present /\ CookiesOf(m)' = CookiesOf(m) /\ PlaysOf(t)' = PlaysOf(t)
    BY <2>1 DEF Present, CookiesOf, PlaysOf
  <2>6. QED
    BY <2>1, <2>2, <2>3, <2>4, <2>5 DEF MergeFit
<1>4. ASSUME MovePlays(q), q \in Merging'
      PROVE  MergeFit(req[q])' /\ req'[q].me = req[q].me /\ q \in Merging
  <2>1. UNCHANGED <<user, owner, play>> /\ q \in Merging
    BY <1>4 DEF MovePlays, rows, At, Merging
  <2>2. PICK t, m, cs, ds : t = req[q].target /\ m = req[q].me /\ cs = req[q].moved.cookies
                            /\ ds = req[q].moved.dropped
    OBVIOUS
  <2>3. /\ req'[q].target = t /\ req'[q].me = m /\ req'[q].pc = "drop"
        /\ req'[q].moved.cookies = cs /\ req'[q].moved.dropped = ds
    <3>1. ~Onward(q, "respond")
      BY <1>4 DEF Onward, Merging
    <3>2. QED
      BY <1>4, <2>2, <3>1, MovePlaysRow DEF Onward
  <2>4. /\ t \in Present /\ cs \subseteq CookiesOf(m) /\ m # 0
        /\ \A p \in ds : Played(PlaysOf(t), p.puzzle)
    BY <2>1, <2>2, MergingRow, Sizes DEF MergesFit, MergeFit
  <2>5. Present' = Present /\ CookiesOf(m)' = CookiesOf(m) /\ PlaysOf(t)' = PlaysOf(t)
    BY <2>1 DEF Present, CookiesOf, PlaysOf
  <2>6. QED
    BY <2>1, <2>2, <2>3, <2>4, <2>5 DEF MergeFit
<1>5. q \in Merging' => MoveCookies(q) \/ MovePlays(q)
  BY MergeBegins
<1>6. \A r \in Merging' : MergeFit(req[r])'
  BY <1>2, <1>3, <1>4, <1>5
<1>7. ASSUME NEW r \in Merging', NEW s \in Merging', req'[r].me = req'[s].me
      PROVE  r = s
  <2>1. CASE r # q /\ s # q
    BY <1>2, <1>7, <2>1 DEF MergesFit
  <2>2. CASE r = q /\ s # q
    <3>1. s \in Merging /\ req'[s].me = req[s].me
      BY <1>2, <2>2
    <3>2. QED
      BY <1>3, <1>4, <1>5, <1>7, <2>2, <3>1 DEF MergesFit
  <2>3. CASE r # q /\ s = q
    <3>1. r \in Merging /\ req'[r].me = req[r].me
      BY <1>2, <2>3
    <3>2. QED
      BY <1>3, <1>4, <1>5, <1>7, <2>3, <3>1 DEF MergesFit
  <2>4. QED
    BY <2>1, <2>2, <2>3
<1>8. QED
  BY <1>6, <1>7 DEF MergesFit

-----------------------------------------------------------------------------
(***************************************************************************)
(* Plays.                                                                  *)
(***************************************************************************)
LEMMA PlaysGo ==
  ASSUME NEW q \in Reqs, Step(q)
  PROVE  play' = play \/ OpenPlay(q) \/ CompletePlay(q) \/ CommitMerge(q)
BY DEF Step, Send, Resolve, UserByCookieHash, StoreUserInCache, Mint, Respond, Cancel, rows,
   Handler, LeavePlay, InsertMagicLink, ConsumeMagicLink, LookUpEmail, SetEmailOnUser,
   MoveCookies, MovePlays, DeleteDeviceCookie, DeleteAllDeviceCookies, SetHandle, InvalidateCookieHash

\* A play that is finished has no lock of a merge, keeps its user and its
\* puzzle, and was not finished before.
LEMMA CompleteGoes ==
  ASSUME Typed, NEW q \in Reqs, CompletePlay(q)
  PROVE  \E p \in play, k \in PlayRow :
           /\ ~p.done /\ ~PlayLocked(p)
           /\ k.user = p.user /\ k.puzzle = p.puzzle /\ k.done
           /\ play' = (play \ {p}) \cup {k}
<1>1. PICK p \in play : ~p.done /\ ~PlayLocked(p) /\ play' = (play \ {p}) \cup {[p EXCEPT !.done = TRUE]}
  BY DEF CompletePlay
<1> DEFINE k == [p EXCEPT !.done = TRUE]
<1>2. p \in PlayRow
  BY DEF Typed, TypeOK
<1>3. k \in PlayRow /\ k.user = p.user /\ k.puzzle = p.puzzle /\ k.done
  BY <1>2 DEF PlayRow
<1> HIDE DEF k
<1>4. play' = (play \ {p}) \cup {k}
  BY <1>1 DEF k
<1>5. QED
  BY <1>1, <1>3, <1>4

\* What a merge brings to its target: one play for each that it moved.
LEMMA Arrived ==
  ASSUME Typed, PlaysFit, NEW q \in Reqs, CommitMerge(q), NEW t, t = req[q].target
  PROVE  /\ \A k \in Arriving(q) : /\ k.user = t /\ Played(req[q].moved.plays, k.puzzle)
                                   /\ ~Played(PlaysOf(t), k.puzzle)
         /\ \A p \in req[q].moved.plays :
              \E k \in Arriving(q) : k.user = t /\ k.puzzle = p.puzzle /\ k.done = p.done
         /\ \A k, o \in Arriving(q) : k.puzzle = o.puzzle => k = o
<1>1. q \in Merging /\ req[q].pc = "drop"
  BY DEF CommitMerge, Merging, At
<1>2. PICK ps \in SUBSET PlayRow : ps = req[q].moved.plays
  <2>1. req[q].moved.plays \in SUBSET PlayRow
    BY <1>1, MergingRow, RowFields
  <2>2. QED
    BY <2>1
<1>3. PICK m : m = req[q].me
  OBVIOUS
<1>4. ps \subseteq PlaysOf(m) /\ \A p \in ps : ~Played(PlaysOf(t), p.puzzle)
  BY <1>1, <1>2, <1>3 DEF PlaysFit, MoveFit
<1>5. Arriving(q) = {[p EXCEPT !.user = t] : p \in ps}
  BY <1>2 DEF Arriving
<1>6. \A p \in ps : LET k == [p EXCEPT !.user = t]
                    IN  k.user = t /\ k.puzzle = p.puzzle /\ k.done = p.done
  BY <1>2 DEF PlayRow
<1>7. \A p, o \in ps : p.puzzle = o.puzzle => p = o
  BY <1>4 DEF PlaysOf, PlaysFit, OnePlay
<1>8. \A k \in Arriving(q) : \E p \in ps : k = [p EXCEPT !.user = t]
  BY <1>5
<1>9. \A k \in Arriving(q) : /\ k.user = t /\ Played(req[q].moved.plays, k.puzzle)
                             /\ ~Played(PlaysOf(t), k.puzzle)
  <2>1. ASSUME NEW k \in Arriving(q)
        PROVE  k.user = t /\ \E p \in ps : p.puzzle = k.puzzle
    <3>1. PICK p \in ps : k = [p EXCEPT !.user = t]
      BY <1>8
    <3>2. k.user = t /\ k.puzzle = p.puzzle
      BY <1>6, <3>1
    <3>3. QED
      BY <3>2
  <2>2. QED
    BY <1>2, <1>4, <2>1 DEF Played
<1>10. \A p \in ps : \E k \in Arriving(q) : k.user = t /\ k.puzzle = p.puzzle /\ k.done = p.done
  <2>1. ASSUME NEW p \in ps
        PROVE  [p EXCEPT !.user = t] \in Arriving(q)
    BY <1>5
  <2>2. QED
    BY <1>6, <2>1
<1>11. \A k, o \in Arriving(q) : k.puzzle = o.puzzle => k = o
  <2>1. ASSUME NEW k \in Arriving(q), NEW o \in Arriving(q), k.puzzle = o.puzzle
        PROVE  k = o
    <3>1. PICK p \in ps, r \in ps : k = [p EXCEPT !.user = t] /\ o = [r EXCEPT !.user = t]
      BY <1>8
    <3>2. k.puzzle = p.puzzle /\ o.puzzle = r.puzzle
      BY <1>6, <3>1
    <3>3. p = r
      BY <1>7, <2>1, <3>2
    <3>4. QED
      BY <3>1, <3>3
  <2>2. QED
    BY <2>1
<1>12. QED
  BY <1>2, <1>9, <1>10, <1>11

LEMMA OnePlayStep ==
  ASSUME Typed, PlaysFit, NEW q \in Reqs, Step(q)
  PROVE  OnePlay'
<1>1. OnePlay
  BY DEF PlaysFit
<1>2. CASE play' = play
  BY <1>1, <1>2 DEF OnePlay
<1>3. CASE OpenPlay(q)
  <2>1. play' = play \/ \E p \in PlayRow : Opened(p, req[q].me) /\ play' = play \cup {p}
    BY <1>3, OpenPlayRow
  <2>2. ASSUME NEW p \in PlayRow, Opened(p, req[q].me), play' = play \cup {p}
        PROVE  OnePlay'
    <3>1. \A o \in play : ~(o.user = p.user /\ o.puzzle = p.puzzle)
      BY <2>2 DEF Opened, Played, PlaysOf
    <3>2. QED
      BY <1>1, <2>2, <3>1 DEF OnePlay
  <2>3. QED
    BY <1>2, <2>1, <2>2
<1>4. CASE CompletePlay(q)
  <2>1. PICK p \in play, k \in PlayRow : /\ k.user = p.user /\ k.puzzle = p.puzzle
                                         /\ play' = (play \ {p}) \cup {k}
    BY <1>4, CompleteGoes
  <2>2. QED
    BY <1>1, <2>1 DEF OnePlay
<1>5. CASE CommitMerge(q)
  <2>1. PICK t : t = req[q].target
    OBVIOUS
  <2>2. play' = (play \ PlaysOf(req[q].me)) \cup Arriving(q)
    BY <1>5 DEF CommitMerge
  <2>3. /\ \A k \in Arriving(q) : k.user = t /\ ~Played(PlaysOf(t), k.puzzle)
        /\ \A k, o \in Arriving(q) : k.puzzle = o.puzzle => k = o
    BY <1>5, <2>1, Arrived
  <2>4. \A k \in Arriving(q), p \in play : ~(p.user = k.user /\ p.puzzle = k.puzzle)
    BY <2>3 DEF Played, PlaysOf
  <2>5. QED
    BY <1>1, <2>2, <2>3, <2>4 DEF OnePlay
<1>6. QED
  BY <1>2, <1>3, <1>4, <1>5, PlaysGo

\* The locks of a merge keep what it moves and the places that it takes.
LEMMA MoveKept ==
  ASSUME Typed, MergesFit, PlaysFit, NEW q \in Reqs, Step(q), NEW r \in Merging, r # q
  PROVE  MoveFit(req[r])' /\ req'[r].target = req[r].target /\ req'[r].moved = req[r].moved
<1>1. Same(req'[r], req[r]) /\ r \in Reqs
  BY StepRow, MergingRow
<1>2. PICK t, m, gone, ps :
        /\ t = req[r].target /\ m = req[r].me /\ ps = req[r].moved.plays
        /\ gone = req[r].moved.dropped \cup req[r].moved.plays
  OBVIOUS
<1>3. /\ t = req'[r].target /\ m = req'[r].me /\ ps = req'[r].moved.plays
      /\ gone = req'[r].moved.dropped \cup req'[r].moved.plays
      /\ req'[r].moved = req[r].moved
  BY <1>1, <1>2 DEF Same, Like
<1>4. gone \subseteq PlaysOf(m) /\ \A p \in ps : ~Played(PlaysOf(t), p.puzzle)
  BY <1>2 DEF PlaysFit, MoveFit
<1>5. SUFFICES /\ \A p \in gone : p \in play'
               /\ \A k \in play' : k.user = t => ~Played(ps, k.puzzle)
  <2>1. ASSUME \A p \in gone : p \in play', \A k \in play' : k.user = t => ~Played(ps, k.puzzle)
        PROVE  gone \subseteq PlaysOf(m)' /\ \A p \in ps : ~Played(PlaysOf(t)', p.puzzle)
    BY <1>4, <2>1 DEF PlaysOf, Played
  <2>2. QED
    BY <1>2, <1>3, <2>1 DEF MoveFit
<1>6. \A k \in play : k.user = t => ~Played(ps, k.puzzle)
  BY <1>4 DEF PlaysOf, Played
<1>7. CASE play' = play
  BY <1>4, <1>6, <1>7 DEF PlaysOf
<1>8. CASE OpenPlay(q)
  <2>1. ASSUME NEW k \in play', k \notin play, k.user = t
        PROVE  ~Played(ps, k.puzzle)
    <3>1. ~PlaceTaken(t, k.puzzle)
      BY <1>8, <2>1, OpenPlayRow DEF Opened
    <3>2. QED
      BY <1>2, <3>1 DEF PlaceTaken, Played
  <2>2. play \subseteq play'
    BY <1>8, OpenPlayRow
  <2>3. QED
    BY <1>4, <1>6, <2>1, <2>2 DEF PlaysOf
<1>9. CASE CompletePlay(q)
  <2>1. PICK p \in play, k \in PlayRow : /\ ~PlayLocked(p) /\ k.user = p.user /\ k.puzzle = p.puzzle
                                         /\ play' = (play \ {p}) \cup {k}
    BY <1>9, CompleteGoes
  <2>2. p \notin gone
    BY <1>2, <2>1 DEF PlayLocked
  <2>3. QED
    BY <1>4, <1>6, <2>1, <2>2 DEF PlaysOf
<1>10. CASE CommitMerge(q)
  <2>1. q \in Merging
    BY <1>10 DEF CommitMerge, Merging, At
  <2>2. req[q].me # m
    BY <1>2, <2>1 DEF MergesFit
  <2>3. play' = (play \ PlaysOf(req[q].me)) \cup Arriving(q)
    BY <1>10 DEF CommitMerge
  <2>4. \A p \in gone : p \in play'
    BY <1>4, <2>2, <2>3 DEF PlaysOf
  <2>5. ASSUME NEW k \in Arriving(q), k.user = t
        PROVE  ~Played(ps, k.puzzle)
    <3>1. k.user = req[q].target /\ Played(req[q].moved.plays, k.puzzle)
      BY <1>10, Arrived
    <3>2. \A p \in req[q].moved.plays : ~Played(ps, p.puzzle)
      BY <1>2, <2>1, <2>5, <3>1 DEF PlaysFit
    <3>3. QED
      BY <3>1, <3>2 DEF Played
  <2>6. QED
    BY <1>6, <2>3, <2>4, <2>5
<1>11. QED
  BY <1>7, <1>8, <1>9, <1>10, PlaysGo

LEMMA PlaysFitStep ==
  ASSUME Typed, MergesFit, PlaysFit, NEW q \in Reqs, Step(q)
  PROVE  PlaysFit'
<1>1. \A r \in Merging' : r # q => /\ r \in Merging /\ MoveFit(req[r])'
                                   /\ req'[r].target = req[r].target /\ req'[r].moved = req[r].moved
  <2>1. \A r \in Reqs \ {q} : r \in Merging' => r \in Merging
    BY StepRow DEF Same, Merging
  <2>2. \A r \in Merging' : r \in Reqs
    BY DEF Merging
  <2>3. QED
    BY <2>1, <2>2, MoveKept
<1>2. ASSUME q \in Merging'
      PROVE  /\ MoveFit(req[q])'
             /\ \A r \in Merging : r # q /\ req'[q].target = req[r].target =>
                  /\ \A p \in req'[q].moved.plays : ~Played(req[r].moved.plays, p.puzzle)
                  /\ \A p \in req[r].moved.plays : ~Played(req'[q].moved.plays, p.puzzle)
  <2>1. MoveCookies(q) \/ MovePlays(q)
    BY <1>2, MergeBegins
  <2>2. PICK t, m, ds : t = req[q].target /\ m = req[q].me /\ ds = req[q].moved.dropped
    OBVIOUS
  <2>3. play' = play /\ ~Onward(q, "respond")
    BY <1>2, <2>1 DEF MoveCookies, MovePlays, rows, Onward, Merging
  <2>4. CASE MoveCookies(q)
    <3>1. /\ req'[q].target = t /\ req'[q].me = m
          /\ req'[q].moved.dropped = Twice(m, t) /\ req'[q].moved.plays = {}
      BY <2>2, <2>3, <2>4, MoveCookiesRow
    <3>2. Twice(m, t) \subseteq PlaysOf(m)' /\ \A n : ~Played({}, n)
      BY <2>3 DEF Twice, PlaysOf, Played
    <3>3. QED
      BY <3>1, <3>2 DEF MoveFit
  <2>5. CASE MovePlays(q)
    <3>1. q \in Merging
      BY <2>5 DEF MovePlays, At, Merging
    <3>2. ds \subseteq PlaysOf(m)
      BY <2>2, <3>1 DEF PlaysFit, MoveFit
    <3> DEFINE ps == PlaysOf(m) \ ds
    <3>3. /\ req'[q].target = t /\ req'[q].me = m /\ req'[q].moved.dropped = ds
          /\ req'[q].moved.plays = ps /\ ps \cap Twice(m, t) = {}
      BY <2>2, <2>3, <2>5, MovePlaysRow
    <3>4. \A p \in ps : ~PlaceTaken(t, p.puzzle)
      BY <2>2, <2>5 DEF MovePlays
    <3>5. ps \subseteq PlaysOf(m)
      OBVIOUS
    <3> HIDE DEF ps
    <3>6. \A p \in ps : ~Played(PlaysOf(t), p.puzzle)
      BY <3>3, <3>5 DEF Twice, Played
    <3>7. PlaysOf(m)' = PlaysOf(m) /\ PlaysOf(t)' = PlaysOf(t)
      BY <2>3 DEF PlaysOf
    <3>8. ds \cup ps \subseteq PlaysOf(m)' /\ \A p \in ps : ~Played(PlaysOf(t)', p.puzzle)
      BY <3>2, <3>5, <3>6, <3>7
    <3>9. MoveFit(req[q])'
      BY <3>3, <3>8 DEF MoveFit
    <3>10. ASSUME NEW r \in Merging, t = req[r].target
           PROVE  \A p \in ps, o \in req[r].moved.plays : p.puzzle # o.puzzle
      BY <3>4, <3>10 DEF PlaceTaken
    <3>11. QED
      BY <3>3, <3>9, <3>10 DEF Played
  <2>6. QED
    BY <2>1, <2>4, <2>5
<1>3. \A r \in Merging' : MoveFit(req[r])'
  BY <1>1, <1>2
<1>4. ASSUME NEW r \in Merging', NEW s \in Merging', r # s, req'[r].target = req'[s].target
      PROVE  \A p \in req'[r].moved.plays : ~Played(req'[s].moved.plays, p.puzzle)
  <2>1. CASE r # q /\ s # q
    BY <1>1, <1>4, <2>1 DEF PlaysFit
  <2>2. CASE r = q
    BY <1>1, <1>2, <1>4, <2>2
  <2>3. CASE s = q
    BY <1>1, <1>2, <1>4, <2>3
  <2>4. QED
    BY <2>1, <2>2, <2>3
<1>5. OnePlay'
  BY OnePlayStep
<1>6. QED
  BY <1>3, <1>4, <1>5 DEF PlaysFit

\* Where a finished play of a cookie's user is after a step: the formula of
\* FinishedIsKept.
KeepsFinished ==
  \A c \in Ids : owner[c] # 0 /\ owner'[c] # 0 =>
    \A p \in PlaysOf(owner[c]) : p.done =>
      \/ \E t \in play' : /\ t.user = owner'[c] /\ t.puzzle = p.puzzle
                          /\ t.done \/ t \in play
      \/ \E q \in Reqs : /\ At(q, "drop") /\ req[q].me = owner[c]
                         /\ \A m \in req[q].moved.dropped \cup req[q].moved.plays : m.puzzle # p.puzzle

LEMMA FinishedStep ==
  ASSUME Typed, MergesFit, PlaysFit, NEW q \in Reqs, Step(q)
  PROVE  KeepsFinished
<1> SUFFICES ASSUME NEW c \in Ids, owner[c] # 0, owner'[c] # 0, NEW p \in PlaysOf(owner[c]), p.done
             PROVE  \/ \E t \in play' : /\ t.user = owner'[c] /\ t.puzzle = p.puzzle
                                        /\ t.done \/ t \in play
                    \/ \E r \in Reqs : /\ At(r, "drop") /\ req[r].me = owner[c]
                                       /\ \A m \in req[r].moved.dropped \cup req[r].moved.plays :
                                            m.puzzle # p.puzzle
  BY DEF KeepsFinished
<1>1. p \in play /\ p.user = owner[c]
  BY DEF PlaysOf
<1>2. CASE owner'[c] = owner[c] /\ p \in play'
  BY <1>1, <1>2
<1>3. CASE ~CommitMerge(q)
  <2>1. p \in play'
    <3>1. CASE play' = play
      BY <1>1, <3>1
    <3>2. CASE OpenPlay(q)
      BY <1>1, <3>2, OpenPlayRow
    <3>3. CASE CompletePlay(q)
      <4>1. PICK o \in play, k \in PlayRow : ~o.done /\ play' = (play \ {o}) \cup {k}
        BY <3>3, CompleteGoes
      <4>2. QED
        BY <1>1, <4>1
    <3>4. QED
      BY <1>3, <3>1, <3>2, <3>3, PlaysGo
  <2>2. owner'[c] = owner[c]
    <3>1. CASE UNCHANGED owner
      BY <3>1
    <3>2. CASE DeleteDeviceCookie(q) \/ DeleteAllDeviceCookies(q)
      BY <3>2 DEF DeleteDeviceCookie, DeleteAllDeviceCookies
    <3>3. CASE Mint(q)
      <4>1. PICK id \in Ids : user[id] = Unborn /\ owner' = [owner EXCEPT ![id] = id]
        BY <3>3, MintRow
      <4>2. owner[id] = 0
        BY <4>1 DEF Typed, BornFit, Born
      <4>3. QED
        BY <4>1, <4>2 DEF Typed, TypeOK
    <3>4. QED
      BY <1>3, <3>1, <3>2, <3>3
      DEF Step, Send, Resolve, UserByCookieHash, StoreUserInCache, Respond, Cancel, rows,
          Handler, OpenPlay, CompletePlay, LeavePlay, InsertMagicLink, ConsumeMagicLink,
          LookUpEmail, SetEmailOnUser, MoveCookies, MovePlays, SetHandle, InvalidateCookieHash
  <2>3. QED
    BY <1>2, <2>1, <2>2
<1>4. CASE CommitMerge(q)
  <2>1. At(q, "drop") /\ q \in Merging
    BY <1>4 DEF CommitMerge, Merging, At
  <2>2. PICK t, m, cs, ds, ps :
          /\ t = req[q].target /\ m = req[q].me /\ cs = req[q].moved.cookies
          /\ ds = req[q].moved.dropped /\ ps = req[q].moved.plays
    OBVIOUS
  <2>3. /\ t # m /\ cs \subseteq CookiesOf(m)
        /\ \A o \in play : o.user # m => o \in play'
        /\ owner'[c] = IF c \in cs THEN t ELSE IF owner[c] = m THEN 0 ELSE owner[c]
    BY <1>4, <2>2, MergeStep
  <2>4. CASE owner[c] # m
    BY <1>1, <1>2, <2>3, <2>4 DEF CookiesOf
  <2>5. CASE owner[c] = m
    <3>1. owner'[c] = t
      BY <2>3, <2>5
    <3>2. CASE p \in ps
      <4>1. PICK k \in Arriving(q) : k.user = t /\ k.puzzle = p.puzzle /\ k.done = p.done
        <5>1. \A o \in req[q].moved.plays :
                \E k \in Arriving(q) : k.user = t /\ k.puzzle = o.puzzle /\ k.done = o.done
          BY <1>4, <2>2, Arrived
        <5>2. QED
          BY <2>2, <3>2, <5>1
      <4>2. Arriving(q) \subseteq play'
        BY <1>4 DEF CommitMerge
      <4>3. QED
        BY <3>1, <4>1, <4>2
    <3>3. CASE p \in ds
      <4>1. PICK o \in PlaysOf(t) : o.puzzle = p.puzzle
        BY <2>1, <2>2, <3>3 DEF MergesFit, MergeFit, Played
      <4>2. o \in play /\ o.user = t /\ o \in play'
        BY <2>3, <4>1 DEF PlaysOf
      <4>3. QED
        BY <3>1, <4>1, <4>2
    <3>4. CASE p \notin ds \cup ps
      <4>1. ds \cup ps \subseteq PlaysOf(m)
        BY <2>1, <2>2 DEF PlaysFit, MoveFit
      <4>2. \A o \in ds \cup ps : o.puzzle # p.puzzle
        BY <1>1, <2>5, <3>4, <4>1 DEF PlaysOf, PlaysFit, OnePlay
      <4>3. QED
        BY <2>1, <2>2, <2>5, <4>2
    <3>5. QED
      BY <3>2, <3>3, <3>4
  <2>6. QED
    BY <2>4, <2>5
<1>5. QED
  BY <1>3, <1>4

-----------------------------------------------------------------------------
(***************************************************************************)
(* The cache.                                                              *)
(***************************************************************************)
LEMMA EvictGoes ==
  ASSUME Typed, NEW q \in Reqs, Step(q), At(q, "evict")
  PROVE  InvalidateCookieHash(q) \/ Cancel(q)
<1>1. req[q].pc = "evict" /\ req[q] # Idle
  BY IdleFields DEF At
<1>2. QED
  BY <1>1 DEF Step, Send, Resolve, UserByCookieHash, StoreUserInCache, Mint, Respond, At,
     Handler, OpenPlay, CompletePlay, LeavePlay, InsertMagicLink, ConsumeMagicLink,
     LookUpEmail, SetEmailOnUser, MoveCookies, MovePlays, CommitMerge,
     DeleteDeviceCookie, DeleteAllDeviceCookies, SetHandle

\* What Postgres answers for cookie c.
Current(c, b) == owner[c] # 0 /\ b = Blob(owner[c])

\* A step that changes what Postgres answers for some cookies makes each of
\* them stale, unless the request is about to clear its own; what it caches or
\* is about to cache is current; and only a cookie whose entry is cleared is
\* stale no more.
LEMMA CacheKept ==
  ASSUME Typed, CachedUserCurrent, StoresFit, NEW q \in Reqs, NEW changed,
         \A r \in Reqs \ {q} : Same(req'[r], req[r]),
         \A c \in Ids : \/ cache'[c] \subseteq cache[c] \/ c \in stale'
                        \/ \A b \in cache'[c] : Current(c, b)',
         \A c \in stale : \/ c \in stale'
                          \/ /\ cache'[c] = {}
                             /\ \A r \in Reqs \ {q} : ~(At(r, "store") /\ req[r].cookie = c),
         At(q, "store")' => \E b : req'[q].got = {b} /\ Current(req[q].cookie, b)',
         At(q, "evict") => req[q].cookie \in stale' \cup {0} \/ cache'[req[q].cookie] = {},
         \A c \in Ids \ changed, o \in Ids : owner[c] = o => owner'[c] = o /\ Blob(o)' = Blob(o),
         \A c \in Ids \cap changed :
           \/ c \in stale'
           \/ /\ At(q, "evict")' /\ req'[q].cookie = c
              /\ \A r \in Reqs \ {q} : ~(At(r, "store") /\ req[r].cookie = c)
  PROVE  CachedUserCurrent' /\ StoresFit'
<1>1. \A r \in Reqs \ {q} : req'[r].pc = req[r].pc /\ (At(r, "evict") \/ At(r, "store") =>
                              req'[r].cookie = req[r].cookie /\ req'[r].got = req[r].got)
  BY DEF Same, Like
<1>2. ASSUME NEW c \in Ids, NEW b, Current(c, b), c \notin changed
      PROVE  Current(c, b)'
  <2>1. PICK o \in Ids : o = owner[c]
    BY <1>2, OwnerType DEF Typed, Current
  <2>2. owner'[c] = o /\ Blob(o)' = b
    BY <1>2, <2>1 DEF Current
  <2>3. QED
    BY <2>1, <2>2, Sizes DEF Blob, Current
<1>3. ASSUME NEW c \in Ids, c \notin stale', \A r \in Reqs : ~(At(r, "evict")' /\ req'[r].cookie = c),
             NEW b \in cache'[c]
      PROVE  Current(c, b)'
  <2>1. c \notin changed /\ c \notin stale
    BY <1>3
  <2>2. \A r \in Reqs : ~(At(r, "evict") /\ req[r].cookie = c)
    <3>1. \A r \in Reqs \ {q} : ~(At(r, "evict") /\ req[r].cookie = c)
      BY <1>1, <1>3 DEF At
    <3>2. ~(At(q, "evict") /\ req[q].cookie = c)
      BY <1>3, Sizes
    <3>3. QED
      BY <3>1, <3>2
  <2>3. CASE b \in cache[c]
    <3>1. Current(c, b)
      BY <2>1, <2>2, <2>3 DEF CachedUserCurrent, Current
    <3>2. QED
      BY <1>2, <2>1, <3>1
  <2>4. QED
    BY <1>3, <2>3
<1>4. ASSUME NEW r \in Reqs, At(r, "store")', req'[r].cookie \notin stale', r # q
      PROVE  \E b : req'[r].got = {b} /\ Current(req[r].cookie, b)'
  <2>1. At(r, "store") /\ req'[r].cookie = req[r].cookie /\ req'[r].got = req[r].got
    BY <1>1, <1>4 DEF At
  <2>2. PICK c \in Ids : c = req[r].cookie
    BY <2>1, AtRow, RowFields DEF Typed, LocalFit, Pcs
  <2>3. c \notin stale /\ c \notin changed
    BY <1>4, <2>1, <2>2
  <2>4. PICK b : req[r].got = {b} /\ Current(c, b)
    BY <2>1, <2>2, <2>3 DEF StoresFit, Current
  <2>5. Current(c, b)'
    BY <1>2, <2>3, <2>4
  <2>6. QED
    BY <2>1, <2>2, <2>4, <2>5 DEF Current
<1>5. CachedUserCurrent'
  BY <1>3 DEF CachedUserCurrent, Current
<1>6. StoresFit'
  BY <1>4 DEF StoresFit, Current
<1>7. QED
  BY <1>5, <1>6

\* A step that changes nothing that Postgres answers.
LEMMA CacheServed ==
  ASSUME Typed, CachedUserCurrent, StoresFit, NEW q \in Reqs,
         \A r \in Reqs \ {q} : Same(req'[r], req[r]),
         \A c \in Ids : \/ cache'[c] \subseteq cache[c] \/ c \in stale'
                        \/ \A b \in cache'[c] : Current(c, b)',
         \A c \in stale : \/ c \in stale'
                          \/ /\ cache'[c] = {}
                             /\ \A r \in Reqs \ {q} : ~(At(r, "store") /\ req[r].cookie = c),
         At(q, "store")' => \E b : req'[q].got = {b} /\ Current(req[q].cookie, b)',
         At(q, "evict") => req[q].cookie \in stale' \cup {0} \/ cache'[req[q].cookie] = {},
         \A c, o \in Ids : owner[c] = o => owner'[c] = o /\ Blob(o)' = Blob(o)
  PROVE  CachedUserCurrent' /\ StoresFit'
<1>1. \A c \in Ids \ {}, o \in Ids : owner[c] = o => owner'[c] = o /\ Blob(o)' = Blob(o)
  OBVIOUS
<1>2. \A c \in Ids \cap {} : FALSE
  OBVIOUS
<1>3. QED
  BY <1>1, <1>2, CacheKept

LEMMA CacheStep ==
  ASSUME Typed, MergesFit, CachedUserCurrent, StoresFit, NEW q \in Reqs, Step(q)
  PROVE  CachedUserCurrent' /\ StoresFit'
<1>1. /\ \A r \in Reqs \ {q} : Same(req'[r], req[r])
      /\ RowsTyped' /\ TypeOK'
  BY StepRow, StepRows, TypeStep
<1>2. At(q, "store")' => UserByCookieHash(q)
  BY PcGoes DEF At, Arc, Kinds
<1>3. CASE UNCHANGED <<user, owner, cache, stale>> /\ ~At(q, "evict") /\ ~UserByCookieHash(q)
  <2>1. \A c \in Ids, o \in Ids : owner[c] = o => owner'[c] = o /\ Blob(o)' = Blob(o)
    BY <1>3 DEF Blob
  <2>2. QED
    BY <1>1, <1>2, <1>3, <2>1, CacheKept
<1>4. CASE Send(q) \/ Respond(q) \/ OpenPlay(q) \/ CompletePlay(q) \/ LeavePlay(q)
           \/ InsertMagicLink(q) \/ ConsumeMagicLink(q) \/ LookUpEmail(q) \/ MoveCookies(q) \/ MovePlays(q)
  <2>1. UNCHANGED <<user, owner, cache, stale>> /\ req[q].pc \notin {"evict", "lookup"}
    BY <1>4, IdleFields DEF Send, Resolve, Respond, OpenPlay, CompletePlay, LeavePlay,
       InsertMagicLink, ConsumeMagicLink, LookUpEmail, MoveCookies, MovePlays, rows, At
  <2>2. QED
    BY <1>3, <2>1 DEF At, UserByCookieHash
<1>5. ASSUME NEW pc \in {"promote", "handle", "drop", "logout", "logout-all"}, At(q, pc),
             NEW changed \in SUBSET Ids, cache' = cache,
             stale' = stale \cup Outdated(q, changed),
             changed = {} \/ At(q, "evict")',
             \A c \in Ids \ changed, o \in Ids : owner[c] = o => owner'[c] = o /\ Blob(o)' = Blob(o)
      PROVE  CachedUserCurrent' /\ StoresFit'
  <2>1. ~At(q, "evict") /\ ~UserByCookieHash(q)
    BY <1>5 DEF At, UserByCookieHash
  <2>2. At(q, "evict")' => req'[q].cookie = req[q].cookie
    <3>1. Handler(q) => req'[q].cookie = req[q].cookie
      BY HandlerRow DEF HandlerGoes, Onward
    <3>2. At(q, "evict")' => Handler(q)
      BY PcGoes DEF Kinds, At
    <3>3. QED
      BY <3>1, <3>2
  <2>3. \A c \in changed : \/ c \in stale'
                           \/ /\ At(q, "evict")' /\ req'[q].cookie = c
                              /\ \A r \in Reqs \ {q} : ~(At(r, "store") /\ req[r].cookie = c)
    BY <1>5, <2>2 DEF Outdated
  <2>4. QED
    BY <1>1, <1>2, <1>5, <2>1, <2>3, CacheKept
<1>6. CASE SetEmailOnUser(q) \/ SetHandle(q)
  <2>1. PICK pc \in {"promote", "handle"} : At(q, pc)
    BY <1>6 DEF SetEmailOnUser, SetHandle
  <2>2. cache' = cache /\ owner' = owner
    BY <1>6 DEF SetEmailOnUser, SetHandle
  <2>3. CASE UNCHANGED <<user, stale>>
    BY <1>3, <2>1, <2>2, <2>3 DEF At, UserByCookieHash
  <2>4. CASE /\ stale' = stale \cup Outdated(q, CookiesOf(req[q].me))
             /\ \A o \in Ids : o # req[q].me => user'[o] = user[o]
             /\ Goto(q, "evict")
    <3>1. At(q, "evict")'
      BY <2>1, <2>4, GotoRow DEF At, Pcs, Onward, Typed
    <3>2. \A c \in Ids \ CookiesOf(req[q].me), o \in Ids : owner[c] = o => owner'[c] = o /\ Blob(o)' = Blob(o)
      BY <2>2, <2>4 DEF CookiesOf, Blob
    <3>3. CookiesOf(req[q].me) \in SUBSET Ids
      BY DEF CookiesOf
    <3>4. QED
      BY <1>5, <2>1, <2>2, <2>4, <3>1, <3>2, <3>3
  <2>5. ASSUME ~UNCHANGED <<user, stale>>
        PROVE  /\ stale' = stale \cup Outdated(q, CookiesOf(req[q].me))
               /\ \A o \in Ids : o # req[q].me => user'[o] = user[o]
               /\ Goto(q, "evict")
    <3>1. CASE SetEmailOnUser(q)
      BY <2>5, <3>1 DEF SetEmailOnUser, Typed, TypeOK
    <3>2. CASE SetHandle(q)
      BY <2>5, <3>2 DEF SetHandle, Typed, TypeOK
    <3>3. QED
      BY <1>6, <3>1, <3>2
  <2>6. QED
    BY <2>3, <2>4, <2>5
<1>7. CASE CommitMerge(q)
  <2>1. PICK t, m, cs : t = req[q].target /\ m = req[q].me /\ cs = req[q].moved.cookies
    OBVIOUS
  <2>2. /\ cs \subseteq CookiesOf(m)
        /\ \A c \in Ids : owner'[c] = IF c \in cs THEN t ELSE IF owner[c] = m THEN 0 ELSE owner[c]
    BY <1>7, <2>1, MergeStep
  <2>3. At(q, "drop") /\ At(q, "evict")' /\ cache' = cache /\ stale' = stale \cup Outdated(q, cs \cup CookiesOf(m))
    BY <1>7, <2>1, CommitMergeRow DEF CommitMerge, At, Onward
  <2>4. \A o \in Ids : o # m => user'[o] = user[o]
    BY <1>7, <2>1 DEF CommitMerge, Typed, TypeOK
  <2>5. \A c \in Ids \ (cs \cup CookiesOf(m)), o \in Ids : owner[c] = o => owner'[c] = o /\ Blob(o)' = Blob(o)
    BY <2>2, <2>4 DEF CookiesOf, Blob
  <2>6. cs \cup CookiesOf(m) \in SUBSET Ids
    BY <2>2 DEF CookiesOf
  <2>7. QED
    BY <1>5, <2>3, <2>5, <2>6
<1>8. CASE DeleteDeviceCookie(q)
  <2>1. At(q, "logout") /\ user' = user /\ cache' = cache /\ Goto(q, "evict")
    BY <1>8 DEF DeleteDeviceCookie
  <2>2. At(q, "evict")'
    BY <2>1, GotoRow DEF At, Pcs, Onward, Typed
  <2>3. CASE UNCHANGED <<owner, stale>>
    BY <1>3, <2>1, <2>3 DEF At, UserByCookieHash
  <2>4. CASE /\ owner' = [d \in Ids |-> IF d = req[q].cookie THEN 0 ELSE owner[d]]
             /\ stale' = stale \cup Outdated(q, {req[q].cookie} \ {0})
    <3>1. {req[q].cookie} \ {0} \in SUBSET Ids
      BY <2>1, AtRow, RowFields DEF Typed, Pcs
    <3>2. \A c \in Ids \ ({req[q].cookie} \ {0}), o \in Ids : owner[c] = o => owner'[c] = o /\ Blob(o)' = Blob(o)
      BY <2>1, <2>4, Sizes DEF Blob
    <3>3. QED
      BY <1>5, <2>1, <2>2, <2>4, <3>1, <3>2
  <2>5. QED
    BY <1>8, <2>3, <2>4 DEF DeleteDeviceCookie
<1>9. CASE DeleteAllDeviceCookies(q)
  <2>1. At(q, "logout-all") /\ user' = user /\ cache' = cache
    BY <1>9 DEF DeleteAllDeviceCookies
  <2>2. ~At(q, "evict") /\ ~UserByCookieHash(q)
    BY <2>1 DEF At, UserByCookieHash
  <2>3. CASE UNCHANGED <<owner, stale>>
    BY <1>3, <2>1, <2>2, <2>3
  <2>4. CASE /\ stale' = stale \cup CookiesOf(req[q].me)
             /\ owner' = [c \in Ids |-> IF c \in CookiesOf(req[q].me) THEN 0 ELSE owner[c]]
    <3>1. \A c \in Ids \ CookiesOf(req[q].me), o \in Ids : owner[c] = o => owner'[c] = o /\ Blob(o)' = Blob(o)
      BY <2>1, <2>4 DEF Blob
    <3>2. QED
      BY <1>1, <1>2, <2>1, <2>2, <2>4, <3>1, CacheKept
  <2>5. QED
    BY <1>9, <2>3, <2>4 DEF DeleteAllDeviceCookies
<1>10. CASE Cancel(q)
  <2>1. UNCHANGED <<user, owner, cache>> /\ req'[q] = Idle
    BY <1>10, EndRow DEF Cancel, rows, Typed
  <2>2. stale \subseteq stale' /\ (At(q, "evict") => req[q].cookie \in stale' \cup {0})
    BY <1>10 DEF Cancel
  <2>3. \A c \in Ids, o \in Ids : owner[c] = o => owner'[c] = o /\ Blob(o)' = Blob(o)
    BY <2>1 DEF Blob
  <2>4. ~At(q, "store")'
    BY <2>1, IdleFields DEF At
  <2>5. QED
    BY <1>1, <2>1, <2>2, <2>3, <2>4, CacheKept
<1>11. CASE UserByCookieHash(q)
  <2>1. UNCHANGED <<user, owner, cache, stale>> /\ At(q, "lookup")
    BY <1>11 DEF UserByCookieHash, rows
  <2>2. PICK c \in Ids :
          /\ c = req[q].cookie
          /\ \/ /\ Onward(q, "store") /\ owner[c] # 0 /\ req'[q].got = {Blob(owner[c])}
             \/ Onward(q, "mint")
    BY <1>11, LookupRow
  <2>3. \A d, o \in Ids : owner[d] = o => owner'[d] = o /\ Blob(o)' = Blob(o)
    BY <2>1 DEF Blob
  <2>4. At(q, "store")' => \E b : req'[q].got = {b} /\ Current(req[q].cookie, b)'
    <3>1. At(q, "store")' => req'[q].cookie = c /\ owner[c] # 0 /\ req'[q].got = {Blob(owner[c])}
      BY <2>2 DEF Onward, At
    <3>2. QED
      BY <2>1, <3>1 DEF Current, Blob
  <2>5. ~At(q, "evict")
    BY <2>1 DEF At
  <2>6. QED
    BY <1>1, <2>1, <2>3, <2>4, <2>5, CacheServed
<1>12. CASE StoreUserInCache(q)
  <2>1. UNCHANGED <<user, owner, stale>> /\ At(q, "store") /\ ~At(q, "store")' /\ ~At(q, "evict")
    BY <1>2, <1>12 DEF StoreUserInCache, UserByCookieHash, rows, At
  <2>2. PICK b \in Blobs, c \in Ids :
          /\ c = req[q].cookie /\ req[q].got = {b}
          /\ cache' \in {cache, [cache EXCEPT ![c] = {b}]}
    BY <1>12, StoreRow
  <2>3. \A d, o \in Ids : owner[d] = o => owner'[d] = o /\ Blob(o)' = Blob(o)
    BY <2>1 DEF Blob
  <2>4. c \in stale \/ Current(c, b)'
    BY <2>1, <2>2 DEF StoresFit, Current, Blob
  <2>5. \A d \in Ids : cache'[d] = cache[d] \/ (d = c /\ cache'[d] = {b})
    BY <2>2 DEF Typed, TypeOK
  <2>6. \A d \in Ids : \/ cache'[d] \subseteq cache[d] \/ d \in stale'
                       \/ \A k \in cache'[d] : Current(d, k)'
    BY <2>1, <2>4, <2>5
  <2>7. QED
    BY <1>1, <2>1, <2>3, <2>6, CacheServed
<1>13. CASE Mint(q)
  <2>1. PICK id \in Ids :
          /\ user[id] = Unborn /\ user' = [user EXCEPT ![id] = Anonymous] /\ owner' = [owner EXCEPT ![id] = id]
          /\ cache' \in {cache, [cache EXCEPT ![id] = {[id |-> id, email |-> None, handle |-> None]}]}
    BY <1>13, MintRow
  <2>2. stale' = stale /\ ~At(q, "evict") /\ ~At(q, "store")'
    BY <1>2, <1>13 DEF Mint, At, UserByCookieHash
  <2>3. \A d, o \in Ids : owner[d] = o => owner'[d] = o /\ Blob(o)' = Blob(o)
    <3>1. owner[id] = 0 /\ id \notin Present
      BY <2>1, States DEF Typed, BornFit, Born
    <3>2. \A o, d \in Ids : owner[d] = o => d # id /\ o # id
      BY <3>1, OwnerType, Sizes DEF Typed
    <3>3. \A o \in Ids : o # id => Blob(o)' = Blob(o)
      BY <2>1 DEF Blob, Typed, TypeOK
    <3>4. QED
      BY <2>1, <3>2, <3>3
  <2> DEFINE b == [id |-> id, email |-> None, handle |-> None]
  <2>4. Current(id, b)'
    <3>1. user'[id] = Anonymous /\ owner'[id] = id /\ id # 0
      BY <2>1, Sizes DEF Typed, TypeOK
    <3>2. QED
      BY <3>1 DEF Current, Blob, Anonymous
  <2>5. \A d \in Ids : cache'[d] = cache[d] \/ (d = id /\ cache'[d] = {b})
    BY <2>1 DEF Typed, TypeOK
  <2> HIDE DEF b
  <2>6. QED
    BY <1>1, <2>2, <2>3, <2>4, <2>5, CacheServed
<1>14. CASE InvalidateCookieHash(q)
  <2>1. UNCHANGED <<user, owner>> /\ ~At(q, "store")' /\ At(q, "evict")
    BY <1>2, <1>14 DEF InvalidateCookieHash, UserByCookieHash, rows, At
  <2>2. \A d, o \in Ids : owner[d] = o => owner'[d] = o /\ Blob(o)' = Blob(o)
    BY <2>1 DEF Blob
  <2>3. PICK c \in Ids \cup {0} : c = req[q].cookie
    BY <2>1, AtRow, RowFields DEF Typed, Pcs
  <2>4. CASE UNCHANGED <<cache, stale>> /\ c = 0
    BY <1>1, <2>1, <2>2, <2>3, <2>4, CacheServed
  <2>5. CASE c # 0 /\ cache' = [cache EXCEPT ![c] = {}] /\ stale' = Refreshed(c)
    <3>1. /\ cache'[c] = {} /\ \A d \in Ids : cache'[d] \subseteq cache[d]
      BY <2>3, <2>5 DEF Typed, TypeOK
    <3>2. \A d \in stale : d \in stale' \/ (d = c /\ \A r \in Reqs : ~(At(r, "store") /\ req[r].cookie = d))
      BY <2>5 DEF Refreshed
    <3>3. \A d \in stale : \/ d \in stale'
                           \/ /\ cache'[d] = {}
                              /\ \A r \in Reqs \ {q} : ~(At(r, "store") /\ req[r].cookie = d)
      BY <3>1, <3>2
    <3>4. cache'[req[q].cookie] = {}
      BY <2>3, <3>1
    <3>5. QED
      BY <1>1, <2>1, <2>2, <3>1, <3>3, <3>4, CacheServed
  <2>6. CASE cache' = cache /\ stale' = stale \cup {c}
    <3>1. req[q].cookie \in stale' /\ stale \subseteq stale'
      BY <2>3, <2>6
    <3>2. QED
      BY <1>1, <2>1, <2>2, <2>6, <3>1, CacheServed
  <2>7. QED
    BY <1>14, <2>3, <2>4, <2>5, <2>6 DEF InvalidateCookieHash
<1>15. QED
  BY <1>4, <1>6, <1>7, <1>8, <1>9, <1>10, <1>11, <1>12, <1>13, <1>14 DEF Step, Handler

-----------------------------------------------------------------------------
(***************************************************************************)
(* A sign-in that nothing overlaps.                                        *)
(***************************************************************************)
LEMMA AloneSignIn ==
  ASSUME Typed, MergesFit, AloneFit, NEW q \in Reqs, Handler(q), req[q].alone, req[q].verb = "consume",
         NEW s, NEW m, NEW e, s = req[q].sets, m = req[q].me, e = link[req[q].link].email
  PROVE  /\ req'[q].pc \in SigningIn => owner'[s] = m
         /\ req'[q].pc \in {"merge", "plays", "drop"} => req'[q].target \in UserByEmail(e)'
         /\ req'[q].pc \in {"plays", "drop"} => s \in req'[q].moved.cookies
         /\ req'[q].pc = "evict" => owner'[s] \in UserByEmail(e)'
<1>1. HandlerGoes(q) /\ req[q] # Idle /\ Arc(req[q].pc, req'[q].pc)
  BY HandlerRow, IdleFields DEF HandlerGoes, Onward
<1>2. LocalFit(req[q]) /\ req[q] \in RequestRow /\ q \in Active
  BY <1>1, Requests DEF Typed, LocalsFit
<1>3. /\ req[q].pc \in SigningIn => owner[s] = m
      /\ req[q].pc \in {"merge", "plays", "drop"} => req[q].target \in UserByEmail(e)
      /\ req[q].pc \in {"plays", "drop"} => s \in req[q].moved.cookies
  BY <1>2 DEF AloneFit
<1>4. req[q].pc \notin {"logout", "handle"}
  BY <1>2 DEF LocalFit
<1>5. /\ req[q].pc \in {"play", "answer", "request", "logout-all", "evict"} => req'[q].pc \in {"answer", "respond"}
      /\ req[q].pc \in {"consume", "email", "promote", "merge", "plays", "drop"} => req[q].pc \in SigningIn
      /\ {"answer", "respond"} \cap (SigningIn \cup {"evict"}) = {}
      /\ req[q].pc \in {"play", "answer", "request", "logout-all", "evict", "consume", "email", "promote",
                        "merge", "plays", "drop"}
  BY <1>1, <1>4 DEF Arc, SigningIn
<1>6. CASE req[q].pc \in {"play", "answer", "request", "logout-all", "evict"}
  BY <1>5, <1>6 DEF SigningIn
<1>7. CASE UNCHANGED <<user, owner>> /\ req'[q].pc \in {"email", "promote", "respond"} /\ req[q].pc \in SigningIn
  BY <1>3, <1>7 DEF SigningIn
<1>8. CASE req[q].pc = "consume"
  <2>1. ConsumeMagicLink(q)
    BY <1>8 DEF Handler, At, OpenPlay, CompletePlay, LeavePlay, InsertMagicLink,
       LookUpEmail, SetEmailOnUser, MoveCookies, MovePlays, CommitMerge,
       DeleteDeviceCookie, DeleteAllDeviceCookies, SetHandle, InvalidateCookieHash
  <2>2. UNCHANGED <<user, owner>> /\ req'[q].pc \in {"email", "respond"}
    BY <1>1, <1>8, <2>1 DEF ConsumeMagicLink, Arc
  <2>3. QED
    BY <1>5, <1>7, <1>8, <2>2
<1>9. CASE req[q].pc = "email"
  <2>1. LookUpEmail(q)
    BY <1>9 DEF Handler, At, OpenPlay, CompletePlay, LeavePlay, InsertMagicLink, ConsumeMagicLink,
       SetEmailOnUser, MoveCookies, MovePlays, CommitMerge,
       DeleteDeviceCookie, DeleteAllDeviceCookies, SetHandle, InvalidateCookieHash
  <2>2. UNCHANGED <<user, owner>> /\ UserByEmail(e)' = UserByEmail(e)
    BY <2>1 DEF LookUpEmail, rows, UserByEmail, Present
  <2>3. \/ req'[q].pc = "promote"
        \/ \E t \in UserByEmail(e) : /\ req'[q].target = t
                                     /\ req'[q].pc = IF t = m THEN "evict" ELSE "merge"
    BY <2>1, LookUpEmailRow DEF Onward
  <2>4. owner'[s] = m
    BY <1>3, <1>5, <1>9, <2>2
  <2>5. QED
    BY <2>2, <2>3, <2>4
<1>10. CASE req[q].pc = "promote"
  <2>1. SetEmailOnUser(q)
    BY <1>10 DEF Handler, At, OpenPlay, CompletePlay, LeavePlay, InsertMagicLink, ConsumeMagicLink,
       LookUpEmail, MoveCookies, MovePlays, CommitMerge,
       DeleteDeviceCookie, DeleteAllDeviceCookies, SetHandle, InvalidateCookieHash
  <2>2. owner[s] = m /\ owner' = owner /\ s \in Ids /\ m # 0
    BY <1>2, <1>3, <1>5, <1>10, <2>1, RowFields DEF SetEmailOnUser, LocalFit, Resolving
  <2>3. m \in Present /\ m \in Ids
    BY <2>2, OwnerType DEF Typed, Present
  <2> DEFINE others == UserByEmail(e) \ {m}
  <2>4. req'[q].pc = IF others # {} THEN "respond" ELSE "evict"
    <3>1. PICK pc \in {"respond", "evict"} : Goto(q, pc) /\ pc = IF others # {} THEN "respond" ELSE "evict"
      BY <2>1, <2>3 DEF SetEmailOnUser
    <3>2. QED
      BY <1>2, <3>1 DEF Goto, Typed, TypeOK, RequestRow
  <2>5. CASE others # {}
    BY <1>1, <1>10, <2>4, <2>5 DEF SigningIn
  <2>6. CASE others = {}
    <3>1. user' = [user EXCEPT ![m].email = e]
      BY <2>1, <2>3, <2>6 DEF SetEmailOnUser
    <3>2. user[m] \in UserRow /\ user'[m].state = "present" /\ user'[m].email = e
      BY <2>3, <3>1, States DEF UserRow, Typed, TypeOK
    <3>3. m \in UserByEmail(e)'
      BY <2>3, <3>2 DEF UserByEmail, Present
    <3>4. req'[q].pc = "evict" /\ owner'[s] = m
      BY <2>2, <2>4, <2>6
    <3>5. QED
      BY <3>3, <3>4 DEF SigningIn
  <2>7. QED
    BY <2>5, <2>6
<1>11. CASE req[q].pc = "merge"
  <2>1. MoveCookies(q)
    BY <1>11 DEF Handler, At, OpenPlay, CompletePlay, LeavePlay, InsertMagicLink, ConsumeMagicLink,
       LookUpEmail, SetEmailOnUser, MovePlays, CommitMerge,
       DeleteDeviceCookie, DeleteAllDeviceCookies, SetHandle, InvalidateCookieHash
  <2>2. UNCHANGED <<user, owner>> /\ UserByEmail(e)' = UserByEmail(e)
    BY <2>1 DEF MoveCookies, rows, UserByEmail, Present
  <2>3. owner[s] = m /\ s \in Ids /\ req[q].target \in UserByEmail(e)
    BY <1>2, <1>3, <1>5, <1>11, RowFields DEF LocalFit, Resolving
  <2>4. \/ /\ req'[q].pc = "plays" /\ req'[q].target = req[q].target
           /\ req'[q].moved.cookies = CookiesOf(m)
        \/ req'[q].pc = "respond"
    BY <2>1, MoveCookiesRow DEF Onward
  <2>5. QED
    BY <1>5, <1>7, <1>11, <2>2, <2>3, <2>4 DEF CookiesOf
<1>12. CASE req[q].pc = "plays"
  <2>1. MovePlays(q)
    BY <1>12 DEF Handler, At, OpenPlay, CompletePlay, LeavePlay, InsertMagicLink, ConsumeMagicLink,
       LookUpEmail, SetEmailOnUser, MoveCookies, CommitMerge,
       DeleteDeviceCookie, DeleteAllDeviceCookies, SetHandle, InvalidateCookieHash
  <2>2. UNCHANGED <<user, owner>> /\ UserByEmail(e)' = UserByEmail(e)
    BY <2>1 DEF MovePlays, rows, UserByEmail, Present
  <2>3. owner[s] = m /\ s \in req[q].moved.cookies /\ req[q].target \in UserByEmail(e)
    BY <1>3, <1>5, <1>12
  <2>4. \/ /\ req'[q].pc = "drop" /\ req'[q].target = req[q].target
           /\ req'[q].moved.cookies = req[q].moved.cookies
        \/ req'[q].pc = "respond"
    BY <2>1, MovePlaysRow DEF Onward
  <2>5. QED
    BY <1>5, <1>7, <1>12, <2>2, <2>3, <2>4
<1>13. CASE req[q].pc = "drop"
  <2>1. CommitMerge(q)
    BY <1>13 DEF Handler, At, OpenPlay, CompletePlay, LeavePlay, InsertMagicLink, ConsumeMagicLink,
       LookUpEmail, SetEmailOnUser, MoveCookies, MovePlays,
       DeleteDeviceCookie, DeleteAllDeviceCookies, SetHandle, InvalidateCookieHash
  <2>2. PICK t, cs : t = req[q].target /\ cs = req[q].moved.cookies
    OBVIOUS
  <2>3. s \in cs /\ t \in UserByEmail(e) /\ s \in Ids
    BY <1>2, <1>3, <1>13, <2>2, RowFields
  <2>4. /\ t # m /\ Present' = Present \ {m}
        /\ \A d \in Ids : owner'[d] = IF d \in cs THEN t ELSE IF owner[d] = m THEN 0 ELSE owner[d]
    BY <2>1, <2>2, MergeStep
  <2>5. user'[t] = user[t]
    BY <2>1, <2>3, <2>4 DEF CommitMerge, UserByEmail, Present, Typed, TypeOK
  <2>6. t \in UserByEmail(e)'
    BY <2>3, <2>4, <2>5 DEF UserByEmail
  <2>7. req'[q].pc = "evict"
    BY <2>1, CommitMergeRow DEF Onward
  <2>8. QED
    BY <2>3, <2>4, <2>6, <2>7 DEF SigningIn
<1>14. QED
  BY <1>5, <1>6, <1>8, <1>9, <1>10, <1>11, <1>12, <1>13

LEMMA AloneStep ==
  ASSUME Typed, MergesFit, CachedUserCurrent, AloneFit, NEW q \in Reqs, Step(q)
  PROVE  AloneFit'
<1>1. /\ TypeOK' /\ LocalsFit' /\ Kept
      /\ \A r \in Reqs \ {q} : Same(req'[r], req[r])
      /\ Send(q) \/ \A r \in Reqs \ {q} : req'[r] = req[r]
  BY TypeStep, LocalsStep, StepRows, StepRow
<1>2. Active = {r \in Reqs : req[r] # Idle} /\ Active' = {r \in Reqs : req'[r] # Idle}
  <2>1. Active = {r \in Reqs : req[r] # Idle}
    BY Requests DEF Typed
  <2>2. \A r \in Reqs : req'[r].pc # "idle" <=> req'[r] # Idle
    BY <1>1, IdleFields DEF TypeOK
  <2>3. QED
    BY <2>1, <2>2 DEF Active
<1>3. Send(q) \/ q \in Active
  BY <1>2, IdleFields DEF Step, UserByCookieHash, StoreUserInCache, Mint, Respond, Cancel, At,
     Handler, OpenPlay, CompletePlay, LeavePlay, InsertMagicLink, ConsumeMagicLink,
     LookUpEmail, SetEmailOnUser, MoveCookies, MovePlays, CommitMerge,
     DeleteDeviceCookie, DeleteAllDeviceCookies, SetHandle, InvalidateCookieHash
<1>4. CASE Send(q)
  <2>1. PICK verb \in VerbsOf[q], d \in Devices, l \in Links \cup {0} : Resolve(q, verb, d, l)
    BY <1>4 DEF Send, Mailed
  <2>2. PICK c \in Ids \cup {0} : c = jar[d]
    BY DEF Typed, TypeOK
  <2>3. /\ verb \in Kinds /\ \A r \in Reqs \ {q} : req'[r] # Idle => ~req'[r].alone
        /\ req'[q].cookie = c /\ req'[q].sets = c
        /\ req'[q].alone => Active = {} /\ c \notin stale
        /\ \/ c = 0 /\ req'[q].pc = "mint"
           \/ c # 0 /\ req'[q].pc = "lookup"
           \/ c # 0 /\ \E b \in cache[c] : req'[q].pc = verb /\ req'[q].me = b.id
        /\ UNCHANGED <<user, owner>>
    <3>1. UNCHANGED <<user, owner>>
      BY <2>1 DEF Resolve, rows
    <3>2. QED
      BY <2>1, <2>2, <3>1, ResolveRow
  <2>4. ASSUME req'[q].alone, q \in Active'
        PROVE  Active' = {q}
    <3>1. \A r \in Reqs \ {q} : req[r] = Idle
      BY <1>2, <2>3, <2>4
    <3>2. \A r \in Reqs \ {q} : req'[r] = Idle
      BY <1>1, <3>1, IdleFields DEF Same
    <3>3. QED
      BY <1>2, <2>4, <3>2
  <2>5. req'[q].pc \notin {"store", "merge", "plays", "drop", "evict"}
    BY <2>3 DEF Kinds
  <2>6. ASSUME req'[q].alone, req'[q].pc \in SigningIn
        PROVE  owner'[req'[q].sets] = req'[q].me
    <3>1. c # 0 /\ \E b \in cache[c] : req'[q].me = b.id
      BY <2>3, <2>6 DEF SigningIn
    <3>2. PICK b \in cache[c] : req'[q].me = b.id
      BY <3>1
    <3>3. \A r \in Reqs : ~At(r, "evict")
      BY <2>3, <2>6 DEF Active, At
    <3>4. owner[c] # 0 /\ b = Blob(owner[c])
      BY <2>3, <2>6, <3>1, <3>3 DEF CachedUserCurrent
    <3>5. QED
      BY <2>3, <3>2, <3>4 DEF Blob
  <2>7. QED
    BY <1>2, <2>3, <2>4, <2>5, <2>6 DEF AloneFit
<1>5. CASE q \in Active /\ \A r \in Reqs \ {q} : req'[r] = req[r]
  <2>1. ASSUME NEW r \in Active', r # q
        PROVE  ~req'[r].alone
    <3>1. r \in Active /\ req'[r] = req[r] /\ r \in Reqs
      BY <1>2, <1>5, <2>1
    <3>2. Active # {r}
      BY <1>5, <2>1
    <3>3. QED
      BY <3>1, <3>2 DEF AloneFit
  <2> SUFFICES ASSUME q \in Active', req'[q].alone
               PROVE  /\ Active' = {q}
                      /\ req'[q].pc = "store" => \A b \in req'[q].got : b.id = owner'[req'[q].cookie]
                      /\ req'[q].verb = "consume" =>
                           /\ req'[q].pc \in SigningIn => owner'[req'[q].sets] = req'[q].me
                           /\ req'[q].pc \in {"merge", "plays", "drop"} =>
                                req'[q].target \in UserByEmail(link[req[q].link].email)'
                           /\ req'[q].pc \in {"plays", "drop"} => req'[q].sets \in req'[q].moved.cookies
                           /\ req'[q].pc = "evict" =>
                                owner'[req'[q].sets] \in UserByEmail(link[req[q].link].email)'
    BY <2>1 DEF AloneFit
  <2>2. req'[q] # Idle
    BY <1>2
  <2>3. CASE /\ req'[q].alone = req[q].alone
             /\ req'[q].pc = "store" => \A b \in req'[q].got : b.id = owner'[req'[q].cookie]
             /\ req'[q].pc \notin {"merge", "plays", "drop", "evict"}
             /\ req'[q].pc \in SigningIn => owner'[req'[q].sets] = req'[q].me
    <3>1. Active = {q}
      BY <1>5, <2>3 DEF AloneFit
    <3>2. Active' = {q}
      BY <1>2, <1>5, <3>1
    <3>3. QED
      BY <2>3, <3>2
  <2>4. CASE UserByCookieHash(q)
    <3>1. PICK c \in Ids :
            /\ c = req[q].cookie
            /\ \/ /\ Onward(q, "store") /\ owner[c] # 0 /\ owner[c] \in Present
                  /\ req'[q].got = {Blob(owner[c])}
               \/ Onward(q, "mint")
      BY <2>4, LookupRow
    <3>2. owner' = owner /\ Blob(owner[c]).id = owner[c]
      BY <2>4 DEF UserByCookieHash, rows, Blob
    <3>3. QED
      BY <2>3, <3>1, <3>2 DEF Onward, SigningIn
  <2>5. CASE StoreUserInCache(q)
    <3>1. PICK b \in Blobs :
            /\ At(q, "store") /\ req[q].got = {b} /\ req[q].cookie \in Ids
            /\ Onward(q, req[q].verb) /\ req'[q].me = b.id /\ req'[q].sets = req[q].sets
            /\ req[q].sets = req[q].cookie
      BY <2>5, StoreRow
    <3>2. owner' = owner /\ req'[q].alone = req[q].alone
      BY <2>5, <3>1 DEF StoreUserInCache, rows, Onward
    <3>3. b.id = owner[req[q].cookie]
      BY <1>5, <3>1, <3>2 DEF AloneFit, At
    <3>4. req'[q].pc \in Kinds
      BY <3>1, AtRow, RowFields DEF Typed, Pcs, Onward
    <3>5. req'[q].pc \notin {"store", "merge", "plays", "drop", "evict"}
      BY <3>4 DEF Kinds
    <3>6. QED
      BY <2>3, <3>1, <3>2, <3>3, <3>5
  <2>6. CASE Mint(q)
    <3>1. PICK id \in Ids :
            /\ At(q, "mint") /\ owner' = [owner EXCEPT ![id] = id]
            /\ Onward(q, req[q].verb) /\ req'[q].me = id /\ req'[q].sets = id
      BY <2>6, MintRow
    <3>2. owner'[id] = id /\ req'[q].alone = req[q].alone
      BY <3>1 DEF Onward, Typed, TypeOK
    <3>3. req'[q].pc \in Kinds
      BY <3>1, AtRow, RowFields DEF Typed, Pcs, Onward
    <3>4. req'[q].pc \notin {"store", "merge", "plays", "drop", "evict"}
      BY <3>3 DEF Kinds
    <3>5. QED
      BY <2>3, <3>1, <3>2, <3>4
  <2>7. CASE Handler(q)
    <3>1. /\ HandlerGoes(q)
          /\ req'[q].alone = req[q].alone /\ req'[q].verb = req[q].verb /\ req'[q].link = req[q].link
          /\ req'[q].sets = req[q].sets /\ req'[q].me = req[q].me
      BY <2>7, HandlerRow DEF HandlerGoes, Onward
    <3>2. Active = {q}
      BY <1>5, <3>1 DEF AloneFit
    <3>3. Active' = {q}
      BY <1>2, <1>5, <3>2
    <3>4. req'[q].pc # "store"
      BY <3>1 DEF HandlerGoes, Arc, Onward
    <3>5. ASSUME req'[q].verb = "consume"
          PROVE  /\ req'[q].pc \in SigningIn => owner'[req'[q].sets] = req'[q].me
                 /\ req'[q].pc \in {"merge", "plays", "drop"} =>
                      req'[q].target \in UserByEmail(link[req[q].link].email)'
                 /\ req'[q].pc \in {"plays", "drop"} => req'[q].sets \in req'[q].moved.cookies
                 /\ req'[q].pc = "evict" =>
                      owner'[req'[q].sets] \in UserByEmail(link[req[q].link].email)'
      <4>1. PICK s, m, e : s = req[q].sets /\ m = req[q].me /\ e = link[req[q].link].email
        OBVIOUS
      <4>2. /\ req'[q].pc \in SigningIn => owner'[s] = m
            /\ req'[q].pc \in {"merge", "plays", "drop"} => req'[q].target \in UserByEmail(e)'
            /\ req'[q].pc \in {"plays", "drop"} => s \in req'[q].moved.cookies
            /\ req'[q].pc = "evict" => owner'[s] \in UserByEmail(e)'
        BY <2>7, <3>1, <3>5, <4>1, AloneSignIn
      <4>3. link'[req'[q].link].email = e
        <5>1. LocalFit(req[q])
          BY <1>2, <1>5 DEF Typed, LocalsFit
        <5>2. req[q].link \in Mailed
          BY <3>1, <3>5, <5>1 DEF LocalFit
        <5>3. QED
          BY <1>1, <3>1, <4>1, <5>2 DEF Kept
      <4>4. UserByEmail(e)' = UserByEmail(link[req[q].link].email)'
        BY <4>3 DEF UserByEmail
      <4>5. QED
        BY <3>1, <4>1, <4>2, <4>4
    <3>6. QED
      BY <3>3, <3>4, <3>5
  <2>8. CASE Respond(q) \/ Cancel(q)
    BY <2>2, <2>8, EndRow DEF Respond, Cancel, Typed
  <2>9. ~Send(q)
    BY <1>2, <1>5, IdleFields DEF Send, Resolve
  <2>10. QED
    BY <2>4, <2>5, <2>6, <2>7, <2>8, <2>9 DEF Step
<1>6. QED
  BY <1>1, <1>3, <1>4, <1>5

-----------------------------------------------------------------------------
(***************************************************************************)
(* The theorems.                                                           *)
(***************************************************************************)
IInv == /\ Typed /\ MergesFit /\ PlaysFit
        /\ CachedUserCurrent /\ StoresFit
        /\ AloneFit

LEMMA InitInv == Init => IInv
<1> SUFFICES ASSUME Init PROVE IInv
  OBVIOUS
<1>1. PICK first \in {Unborn} \cup [state : {"present"}, email : Emails, handle : {None}] :
        /\ user = [id \in Ids |-> IF id = 1 THEN first ELSE Unborn]
        /\ owner = [c \in Ids |-> IF c = 1 /\ first # Unborn THEN 1 ELSE 0]
        /\ \E d \in Devices : jar = [e \in Devices |-> IF e = d /\ first # Unborn THEN 1 ELSE 0]
        /\ play = IF first # Unborn
                  THEN {[by |-> 1, puzzle |-> n, user |-> 1, done |-> TRUE] : n \in 1..PastDays} ELSE {}
        /\ streak = [id \in Ids |-> IF id = 1 /\ first # Unborn /\ PastDays > 0
                                    THEN [current |-> PastDays, longest |-> PastDays, last |-> PastDays]
                                    ELSE Game!NoStreak]
  BY DEF Init
<1> DEFINE born == first # Unborn
<1>2. /\ cache = [c \in Ids |-> {}] /\ req = [q \in Reqs |-> Idle]
      /\ stale = {} /\ calls = 0 /\ faults = 0
  BY DEF Init
<1>3. link \in [Links -> LinkRow \cup {NoLink}]
  BY DEF Init, LinkRow
<1>4. (born => first \in UserRow) /\ (~born => first = Unborn)
  BY <1>1 DEF UserRow
<1>5. user \in [Ids -> UserRow \cup {Unborn, Deleted}]
  BY <1>1, <1>4
<1>6. born => 1 \in Present /\ user[1] # Unborn
  BY <1>1, <1>4, Sizes, States DEF Present, UserRow
<1>7. owner \in [Ids -> Present \cup {0}]
  BY <1>1, <1>6
<1>8. \A p \in play : p \in PlayRow /\ p.user \in Present
  <2>1. \A n \in 1..PastDays : [by |-> 1, puzzle |-> n, user |-> 1, done |-> TRUE] \in PlayRow
    BY Sizes, AccountsAssumption DEF PlayRow
  <2>2. QED
    BY <1>1, <1>6, <2>1
<1>9. streak \in [Ids -> StreakRow]
  <2>1. [current |-> PastDays, longest |-> PastDays, last |-> PastDays] \in StreakRow /\ Game!NoStreak \in StreakRow
    BY AccountsAssumption DEF StreakRow, Game!NoStreak
  <2>2. QED
    BY <1>1, <2>1
<1>10. jar \in [Devices -> Ids \cup {0}]
  BY <1>1, Sizes
<1>11. \A c \in Ids : Cardinality(cache[c]) <= 1
  <2>1. \A c \in Ids : Cardinality(cache[c]) = 0
    BY <1>2, FS_EmptySet
  <2>2. QED
    BY <2>1
<1>12. TypeOK
  BY <1>2, <1>3, <1>5, <1>7, <1>8, <1>9, <1>10, <1>11, Sizes DEF TypeOK
<1>13. BornFit
  BY <1>1, <1>2, <1>6, Sizes DEF BornFit, Born
<1>14. \A q \in Reqs : req[q] = Idle
  BY <1>2
<1>15. /\ LocalsFit /\ Merging = {} /\ Active = {}
       /\ \A q \in Reqs : ~At(q, "store")
  BY <1>14, IdleFields DEF LocalsFit, Merging, Active, At
<1>16. CachedUserCurrent
  BY <1>2 DEF CachedUserCurrent
<1>17. OnePlay
  <2>1. \A p \in play : \E n : p = [by |-> 1, puzzle |-> n, user |-> 1, done |-> TRUE]
    BY <1>1
  <2>2. ASSUME NEW p \in play, NEW o \in play, p.puzzle = o.puzzle
        PROVE  p = o
    <3>1. PICK m : p = [by |-> 1, puzzle |-> m, user |-> 1, done |-> TRUE]
      BY <2>1
    <3>2. PICK n : o = [by |-> 1, puzzle |-> n, user |-> 1, done |-> TRUE]
      BY <2>1
    <3>3. p.puzzle = m /\ o.puzzle = n
      BY <3>1, <3>2
    <3>4. QED
      BY <2>2, <3>1, <3>2, <3>3
  <2>3. QED
    BY <2>2 DEF OnePlay
<1>18. QED
  BY <1>12, <1>13, <1>15, <1>16, <1>17 DEF IInv, Typed, MergesFit, PlaysFit, StoresFit, AloneFit

LEMMA StutterInv == IInv /\ UNCHANGED vars => IInv'
<1> SUFFICES ASSUME IInv, UNCHANGED vars PROVE IInv'
  OBVIOUS
<1>1. TypeOK'
  BY DEF IInv, Typed, TypeOK, vars, Present
<1>2. BornFit' /\ LocalsFit'
  BY DEF IInv, Typed, BornFit, LocalsFit, LocalFit, Born, Knows, Mailed, Present, vars
<1>3. MergesFit'
  BY DEF IInv, MergesFit, MergeFit, Merging, CookiesOf, PlaysOf, Present, Played, vars
<1>4. CachedUserCurrent' /\ StoresFit'
  BY DEF IInv, CachedUserCurrent, StoresFit, At, Blob, vars
<1>5. AloneFit'
  BY DEF IInv, AloneFit, Active, UserByEmail, Present, vars
<1>6. PlaysFit'
  BY DEF IInv, PlaysFit, OnePlay, MoveFit, Merging, PlaysOf, Played, vars
<1>7. QED
  BY <1>1, <1>2, <1>3, <1>4, <1>5, <1>6 DEF IInv, Typed

LEMMA NextInv == IInv /\ [Next]_vars => IInv'
<1>1. ASSUME IInv, NEW q \in Reqs, Step(q)
      PROVE  IInv'
  BY <1>1, TypeStep, BornStep, LocalsStep, MergesStep, PlaysFitStep, CacheStep, AloneStep DEF IInv, Typed
<1>2. Next => \E q \in Reqs : Step(q)
  BY DEF Next, Step
<1>3. QED
  BY <1>1, <1>2, StutterInv

LEMMA Invariant == Spec => []IInv
BY InitInv, NextInv, PTL DEF Spec

\* Cookies and plays belong to users that there are, and every table, cache
\* entry and request has the shape the code gives it.
THEOREM AccountsTyped == Spec => []TypeOK
<1>1. IInv => TypeOK
  BY DEF IInv, Typed
<1>2. QED
  BY <1>1, Invariant, PTL

\* The user that the cache answers for a cookie is the one Postgres has, but
\* for the windows that CachedUserCurrent names (users/session.go).
THEOREM CacheServesPostgres == Spec => []CachedUserCurrent
<1>1. IInv => CachedUserCurrent
  BY DEF IInv
<1>2. QED
  BY <1>1, Invariant, PTL

\* A puzzle that has been finished stays finished for whoever holds the cookie,
\* through any number of overlapping guesses, sign-ins and merges, but where
\* the target's own play stands instead or the play came after a merge had
\* moved the others (MergeUsers, db/auth.go).
THEOREM FinishedPlaysKept == Spec => FinishedIsKept
<1>1. ASSUME IInv, [Next]_vars
      PROVE  [KeepsFinished]_vars
  <2>1. ASSUME NEW q \in Reqs, Step(q)
        PROVE  KeepsFinished
    BY <1>1, <2>1, FinishedStep DEF IInv
  <2>2. QED
    BY <1>1, <2>1 DEF Next, Step
<1>2. Spec => [][KeepsFinished]_vars
  BY <1>1, Invariant, PTL DEF Spec
<1>3. QED
  BY <1>2 DEF FinishedIsKept, KeepsFinished

\* A sign-in that nothing overlaps ends with the cookie at the account of the
\* mailbox, whether it was promoted, merged or there already
\* (VerifyMagicLink, httpx/auth_handlers.go).
THEOREM SignInReachesAccount == Spec => []SignInBinds
<1>1. ASSUME IInv, NEW q \in Reqs, At(q, "evict"), req[q].verb = "consume", req[q].alone
      PROVE  owner[req[q].sets] \in UserByEmail(link[req[q].link].email)
  <2>1. q \in Active /\ req[q].pc = "evict"
    BY <1>1 DEF Active, At
  <2>2. QED
    BY <1>1, <2>1 DEF IInv, AloneFit
<1>2. IInv => SignInBinds
  BY <1>1 DEF SignInBinds
<1>3. QED
  BY <1>2, Invariant, PTL
=============================================================================
