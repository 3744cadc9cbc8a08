---------------------------- MODULE Sessions_proofs ----------------------------
(***************************************************************************)
(* Proofs about Sessions, for any users, browsers, networks and threads,   *)
(* any number of keys and any timeout.                                     *)
(***************************************************************************)
EXTENDS Sessions, FiniteSetTheorems, TLAPS

(***************************************************************************)
(* The invariant.                                                          *)
(***************************************************************************)
Proven(pw, b, u) == u = Anon \/ <<b, u>> \in pw

\* Which requests reach a program point, and what they come with.
Labelled(r) ==
  /\ r.kind # "block" => r.browser \in Browser
  /\ r.kind = "block" => r.pc \in {"write", "list", "mark", "purge"}
                           /\ r.key = NoKey /\ r.user = Anon /\ r.pend = Anon
  /\ r.pc \in {"enter", "issue", "save"} => r.kind \in {"login", "verify"}
  /\ r.kind = "login" \/ r.pc \in {"enter", "write", "list", "mark"}
       => r.target \in User
  /\ r.pc = "issue" => r.user \in User
  /\ r.user # Anon /\ r.pc \notin {"issue", "save"} => r.key # NoKey

\* The browser of a request has given what the request's session claims.
Backed(pw, r) ==
  /\ Proven(pw, r.browser, r.user)
  /\ Proven(pw, r.browser, r.pend)
  /\ r.pc = "enter" => Proven(pw, r.browser, r.target)

Fits(r) == r # NoRequest => Labelled(r) /\ Backed(password, r) /\ r.key <= drawn

\* Keys are used in the order in which they are drawn.
Ordered ==
  /\ \A k \in Key : k > drawn => row[k] = NoRow /\ record[k] = NoRow
  /\ \A b \in Browser : cookie[b] <= drawn

\* No key is in two browsers, or in one and in a request of another.
Apart == \A b, c \in Browser : \A k \in Key : Holds(b, k) /\ Holds(c, k) => b = c

\* A session has a record, or came from a switch, or w is about to write it.
Known(u, k) == k \in switched \/ Tracked(u, k)
Fresh(w, k) == /\ record[k] = NoRow
               /\ row[k] = NoRow \/ row[k].user = Anon
               /\ \A b \in Browser : cookie[b] # k
               /\ \A v \in Worker : v # w /\ req[v] # NoRequest => req[v].key # k
Traced(w) == req[w] # NoRequest /\ req[w].key # NoKey /\ req[w].user # Anon
               => \/ Known(req[w].user, req[w].key)
                  \/ req[w].pc = "issue" /\ Fresh(w, req[w].key)

\* There is a key for every login that may still draw one.
MayDraw(r) == /\ r # NoRequest
              /\ r.kind \in {"login", "verify"}
              /\ r.pc \in {"issue", "save"} => r.key = NoKey
Pending == {w \in Worker : MayDraw(req[w])}
Budget == drawn + Cardinality(Pending) <= MaxKeys

Inv == /\ TypeOK
       /\ \A w \in Worker : Fits(req[w])
       /\ Ordered
       /\ Apart
       /\ PasswordGiven
       /\ UntrackedOnlyAfterSwitch
       /\ \A w \in Worker : Traced(w)
       /\ Budget

LEMMA InitInv == Init => Inv
<1> SUFFICES ASSUME Init PROVE Inv
  OBVIOUS
<1> USE DEF Init
<1>1. TypeOK
  BY MaxKeysAssumption, CookieAgeAssumption DEF TypeOK, Key, NoKey
<1>2. /\ \A w \in Worker : Fits(req[w]) /\ Traced(w)
      /\ Ordered /\ Apart /\ PasswordGiven /\ UntrackedOnlyAfterSwitch
  BY DEF Fits, Traced, Ordered, Apart, Holds, PasswordGiven,
         UntrackedOnlyAfterSwitch, Key, NoKey
<1>3. Pending = {}
  BY DEF Pending, MayDraw
<1>4. Budget
  BY <1>3, FS_EmptySet, MaxKeysAssumption DEF Budget
<1>5. QED
  BY <1>1, <1>2, <1>4 DEF Inv

(***************************************************************************)
(* How a step changes the state.                                           *)
(***************************************************************************)
\* Sessions may end, records age or be revoked, cookies be cleared.
Shrinks == /\ row' \in [Key -> Row \cup {NoRow}]
           /\ lasts' \in [Key -> 0..CookieAge]
           /\ \A k \in Key : row'[k] \in {row[k], NoRow}
Ages == /\ record' \in [Key -> Record \cup {NoRow}]
        /\ \A k \in Key : /\ record[k] = NoRow <=> record'[k] = NoRow
                          /\ record[k] # NoRow => record'[k].user = record[k].user
Clears == /\ cookie' \in [Browser -> Key \cup {NoKey}]
          /\ \A b \in Browser : cookie'[b] \in {cookie[b], NoKey}
World == /\ Shrinks
         /\ Ages
         /\ Clears
         /\ blocked' \subseteq User
         /\ network' \in [Browser -> Network]
         /\ password \subseteq password'
         /\ password' \subseteq Browser \X User
         /\ UNCHANGED <<drawn, switched>>

\* v's request becomes r: it holds what it held, or has just come in.
Follows(v, r) ==
  r # NoRequest =>
    /\ Labelled(r)
    /\ Backed(password', r)
    /\ r.key # NoKey =>
         \/ req[v] # NoRequest /\ r.browser = req[v].browser /\ r.key = req[v].key
         \/ r.browser \in Browser /\ r.key = cookie[r.browser]
    /\ r.key # NoKey /\ r.user # Anon => Known(r.user, r.key)

LEMMA Ordinary ==
  ASSUME Inv, World, req' \in [Worker -> Request \cup {NoRequest}],
         \A v \in Worker : req'[v] = req[v] \/ Follows(v, req'[v]),
         Budget'
  PROVE  Inv'
<1>1. TypeOK'
  BY DEF Inv, TypeOK, World, Shrinks, Ages, Clears
<1>2. /\ drawn \in Nat /\ drawn' = drawn /\ switched' = switched
      /\ \A k \in Key : k \in Nat /\ k # NoKey
      /\ cookie \in [Browser -> Key \cup {NoKey}]
      /\ req \in [Worker -> Request \cup {NoRequest}]
  BY DEF Inv, TypeOK, World, Key, NoKey
<1>3. ASSUME NEW r, Backed(password, r)
      PROVE  Backed(password', r)
  BY <1>3 DEF Backed, Proven, World
<1>4. ASSUME NEW v \in Worker
      PROVE  Fits(req[v])'
  <2>1. CASE req'[v] = req[v]
    BY <1>2, <1>3, <2>1 DEF Inv, Fits, Labelled
  <2>2. CASE Follows(v, req'[v]) /\ req'[v] # NoRequest
    <3> DEFINE r == req'[v]
    <3>1. r.key <= drawn
      <4>1. r \in Request /\ r.key \in Key \cup {NoKey}
        BY <2>2 DEF Request
      <4>2. CASE r.key = NoKey
        BY <1>2, <4>2 DEF NoKey
      <4>3. CASE req[v] # NoRequest /\ r.key = req[v].key
        BY <4>3 DEF Inv, Fits
      <4>4. CASE r.browser \in Browser /\ r.key = cookie[r.browser]
        BY <4>4 DEF Inv, Ordered
      <4>5. QED
        BY <2>2, <4>2, <4>3, <4>4 DEF Follows
    <3>2. Labelled(req[v])'
      BY <2>2 DEF Follows, Labelled
    <3>3. Backed(password, req[v])'
      BY <2>2 DEF Follows
    <3>4. QED
      BY <1>2, <3>1, <3>2, <3>3 DEF Fits
  <2>3. QED
    BY <2>1, <2>2 DEF Fits
<1>5. Ordered'
  BY <1>2 DEF Inv, Ordered, World, Shrinks, Ages, Clears, NoKey
<1>6. ASSUME NEW b \in Browser, NEW k \in Key, Holds(b, k)'
      PROVE  Holds(b, k)
  <2>1. CASE cookie'[b] = k
    BY <1>2, <2>1 DEF World, Clears, Holds
  <2>2. ASSUME NEW v \in Worker, req'[v] # NoRequest, req'[v].browser = b,
               req'[v].key = k
        PROVE  Holds(b, k)
    BY <1>2, <2>2 DEF Follows, Holds
  <2>3. QED
    BY <1>6, <2>1, <2>2 DEF Holds
<1>7. Apart'
  BY <1>6 DEF Inv, Apart
<1>8. PasswordGiven'
  <2> SUFFICES ASSUME NEW b \in Browser, NEW k \in Key, k = cookie'[b],
                      row'[k] # NoRow,
                      NEW u \in {row'[k].user, row'[k].pend} \ {Anon}
               PROVE  u \in User /\ <<b, u>> \in password'
    BY <1>1 DEF PasswordGiven, TypeOK
  <2>1. k = cookie[b] /\ row'[k] = row[k] /\ row[k] # NoRow
    BY <1>2 DEF World, Shrinks, Clears
  <2>2. u \in User /\ <<b, u>> \in password
    BY <1>2, <2>1 DEF Inv, PasswordGiven
  <2>3. QED
    BY <2>2 DEF World
<1>9. ASSUME NEW u, NEW k \in Key, Known(u, k)
      PROVE  Known(u, k)'
  BY <1>2, <1>9 DEF Known, Tracked, World, Ages
<1>10. UntrackedOnlyAfterSwitch'
  <2> SUFFICES ASSUME NEW k \in Key, row'[k] # NoRow, row'[k].user # Anon
               PROVE  Known(row[k].user, k)'
    BY DEF UntrackedOnlyAfterSwitch, Known, Tracked
  <2>1. row'[k] = row[k] /\ row[k] # NoRow
    BY DEF World, Shrinks
  <2>2. Known(row[k].user, k)
    BY <2>1 DEF Inv, UntrackedOnlyAfterSwitch, Known
  <2>3. QED
    BY <1>9, <2>1, <2>2 DEF Known, Tracked
<1>11. ASSUME NEW w \in Worker
       PROVE  Traced(w)'
  <2> SUFFICES ASSUME req'[w] # NoRequest, req'[w].key # NoKey,
                      req'[w].user # Anon
               PROVE  \/ Known(req[w].user, req[w].key)'
                      \/ req'[w].pc = "issue" /\ Fresh(w, req[w].key)'
    BY DEF Traced
  <2>1. req'[w] \in Request /\ req'[w].key \in Key
    BY DEF Request
  <2> DEFINE k == req'[w].key
  <2>2. CASE Known(req'[w].user, k)
    BY <1>2, <2>1, <2>2 DEF Known, Tracked, World, Ages
  <2>3. CASE req'[w] = req[w] /\ req[w].pc = "issue" /\ Fresh(w, k)
    <3>1. record'[k] = NoRow
      BY <2>1, <2>3 DEF Fresh, World, Ages
    <3>2. row'[k] = NoRow \/ row'[k].user = Anon
      BY <2>1, <2>3 DEF Fresh, World, Shrinks
    <3>3. \A b \in Browser : cookie'[b] # k
      BY <1>2, <2>1, <2>3 DEF Fresh, World, Clears
    <3>4. \A v \in Worker : v # w /\ req'[v] # NoRequest => req'[v].key # k
      BY <1>2, <2>1, <2>3 DEF Fresh, Follows
    <3>5. QED
      BY <2>3, <3>1, <3>2, <3>3, <3>4 DEF Fresh
  <2>4. QED
    BY <2>2, <2>3 DEF Inv, Traced, Follows
<1>12. QED
  BY <1>1, <1>4, <1>5, <1>7, <1>8, <1>10, <1>11 DEF Inv

LEMMA PendingFinite == IsFiniteSet(Pending) /\ Cardinality(Pending) \in Nat
BY FS_Subset, FS_CardinalityType, WorkerAssumption DEF Pending

LEMMA Budgets ==
  ASSUME Inv, drawn' = drawn,
         \/ Pending' \subseteq Pending
         \/ Room /\ \E w \in Worker : Pending' \subseteq Pending \cup {w}
  PROVE  Budget'
<1>1. drawn \in Nat /\ drawn + Cardinality(Pending) <= MaxKeys /\ MaxKeys \in Nat
  BY MaxKeysAssumption DEF Inv, TypeOK, Budget
<1>2. CASE Pending' \subseteq Pending
  <2>1. /\ Cardinality(Pending') <= Cardinality(Pending)
        /\ Cardinality(Pending') \in Nat
    BY <1>2, PendingFinite, FS_Subset, FS_CardinalityType
  <2>2. QED
    BY <1>1, <2>1, PendingFinite DEF Budget
<1>3. ASSUME Room, NEW w \in Worker, Pending' \subseteq Pending \cup {w}
      PROVE  Budget'
  <2> DEFINE logins == {v \in Worker :
                          req[v] # NoRequest /\ req[v].kind \in {"login", "verify"}}
  <2>1. drawn + Cardinality(logins) < MaxKeys
    BY <1>3 DEF Room
  <2>2. IsFiniteSet(logins) /\ Pending \subseteq logins
    BY FS_Subset, WorkerAssumption DEF Pending, MayDraw
  <2> HIDE DEF logins
  <2>3. /\ IsFiniteSet(logins \cup {w})
        /\ Cardinality(logins \cup {w}) \in {Cardinality(logins),
                                             Cardinality(logins) + 1}
        /\ Cardinality(logins) \in Nat
    BY <2>2, FS_AddElement, FS_CardinalityType
  <2>4. /\ Cardinality(Pending') <= Cardinality(logins \cup {w})
        /\ Cardinality(Pending') \in Nat
    BY <1>3, <2>2, <2>3, FS_Subset, FS_CardinalityType
  <2>5. QED
    BY <1>1, <2>1, <2>3, <2>4 DEF Budget
<1>4. QED
  BY <1>2, <1>3

\* Only w's request changes, to r.
Moves(w, r) == req' = [req EXCEPT ![w] = r]

LEMMA OneMoves ==
  ASSUME Inv, World, NEW w \in Worker, NEW r \in Request \cup {NoRequest},
         Moves(w, r), Follows(w, r), MayDraw(r) => MayDraw(req[w]) \/ Room
  PROVE  Inv'
<1>1. /\ req' \in [Worker -> Request \cup {NoRequest}]
      /\ req'[w] = r /\ \A v \in Worker : v # w => req'[v] = req[v]
  BY DEF Moves, Inv, TypeOK
<1>2. Pending' = {v \in Worker : MayDraw(req'[v])}
  BY DEF Pending, MayDraw
<1>3. Pending' \subseteq Pending \/ (Room /\ Pending' \subseteq Pending \cup {w})
  BY <1>1, <1>2 DEF Pending
<1>4. Budget'
  BY <1>3, Budgets DEF World
<1>5. QED
  BY <1>1, <1>4, Ordinary

LEMMA Finishes ==
  ASSUME Inv, World, NEW w \in Worker, Done(w)
  PROVE  Inv'
BY OneMoves DEF Done, Moves, Follows, MayDraw

LEMMA Here ==
  ASSUME Inv, NEW w \in Worker, req[w] # NoRequest
  PROVE  /\ req[w] \in Request
         /\ Labelled(req[w])
         /\ Backed(password, req[w])
         /\ req[w].pc # "issue" /\ req[w].key # NoKey /\ req[w].user # Anon
              => Known(req[w].user, req[w].key)
BY DEF Inv, TypeOK, Fits, Traced

LEMMA Proceeds ==
  ASSUME Inv, World, NEW w \in Worker, req[w] # NoRequest, req[w].pc # "issue",
         NEW r \in Request, Moves(w, r), Labelled(r), Backed(password', r),
         r.browser = req[w].browser,
         r.key = NoKey \/ (r.key = req[w].key /\ r.user \in {Anon, req[w].user}),
         MayDraw(r) => MayDraw(req[w])
  PROVE  Inv'
<1>1. Follows(w, r)
  BY Here DEF Follows
<1>2. QED
  BY <1>1, OneMoves

LEMMA Going ==
  ASSUME Inv, NEW w \in Worker, req[w] # NoRequest, NEW l \in Label, Goto(w, l)
  PROVE  \E r \in Request :
           /\ Moves(w, r) /\ r.pc = l
           /\ r.kind = req[w].kind /\ r.browser = req[w].browser
           /\ r.sent = req[w].sent /\ r.key = req[w].key /\ r.user = req[w].user
           /\ r.pend = req[w].pend /\ r.target = req[w].target
           /\ r.keys = req[w].keys
<1> DEFINE r == [req[w] EXCEPT !.pc = l]
<1>1. req[w] \in Request
  BY Here
<1>2. /\ r \in Request /\ r.pc = l
      /\ r.kind = req[w].kind /\ r.browser = req[w].browser
      /\ r.sent = req[w].sent /\ r.key = req[w].key /\ r.user = req[w].user
      /\ r.pend = req[w].pend /\ r.target = req[w].target
      /\ r.keys = req[w].keys
  BY <1>1 DEF Request
<1>3. Moves(w, r)
  BY DEF Goto, Moves
<1> HIDE DEF r
<1>4. QED
  BY <1>2, <1>3

LEMMA StandsStill ==
  ASSUME Inv
  PROVE  /\ row' = row /\ lasts' = lasts => Shrinks
         /\ record' = record => Ages
         /\ cookie' = cookie => Clears
BY DEF Inv, TypeOK, Shrinks, Ages, Clears

LEMMA Deleting ==
  ASSUME Inv, NEW ks, Delete(ks)
  PROVE  Shrinks
<1>1. lasts' \in [Key -> 0..CookieAge]
  BY CookieAgeAssumption DEF Inv, TypeOK, Delete
<1>2. QED
  BY <1>1 DEF Inv, TypeOK, Delete, Shrinks

LEMMA Revoking ==
  ASSUME Inv, NEW ks, Revoke(ks)
  PROVE  Ages
<1>1. ASSUME NEW k \in Key
      PROVE  /\ record'[k] \in Record \cup {NoRow}
             /\ record[k] = NoRow <=> record'[k] = NoRow
             /\ record[k] # NoRow => record'[k].user = record[k].user
  <2>1. CASE k \in ks /\ record[k] # NoRow
    <3>1. record[k] \in Record /\ record'[k] = [record[k] EXCEPT !.revoked = TRUE]
      BY <2>1 DEF Inv, TypeOK, Revoke
    <3>2. record'[k] \in Record /\ record'[k].user = record[k].user
      BY <3>1 DEF Record
    <3>3. QED
      BY <2>1, <3>2, NoRowAssumption
  <2>2. CASE ~(k \in ks /\ record[k] # NoRow)
    BY <2>2 DEF Inv, TypeOK, Revoke
  <2>3. QED
    BY <2>1, <2>2
<1>2. record' \in [Key -> Record \cup {NoRow}]
  BY <1>1 DEF Revoke
<1>3. QED
  BY <1>1, <1>2 DEF Ages

LEMMA Clearing ==
  ASSUME Inv, NEW b, cookie' = cookie \/ cookie' = [cookie EXCEPT ![b] = NoKey]
  PROVE  Clears
BY DEF Inv, TypeOK, Clears

\* The world but for the three parts above.
LEMMA Worldly ==
  ASSUME Inv, Shrinks, Ages, Clears, UNCHANGED <<drawn, blocked, network, history>>
  PROVE  World
BY DEF Inv, TypeOK, World, history

(***************************************************************************)
(* The steps of requests that draw no key and write no record.             *)
(***************************************************************************)
\* A request that only goes on.
LEMMA Passes ==
  ASSUME Inv, World, NEW w \in Worker, req[w] # NoRequest,
         req[w].pc \notin {"enter", "issue", "save"},
         NEW l \in Label \ {"enter", "issue", "save"}, Goto(w, l),
         l \in {"write", "list", "mark"} => req[w].target \in User,
         req[w].kind = "block" => l \in {"write", "list", "mark", "purge"}
  PROVE  Inv'
<1>1. Labelled(req[w]) /\ Backed(password, req[w])
  BY Here
<1>2. PICK r \in Request :
        /\ Moves(w, r) /\ r.pc = l
        /\ r.kind = req[w].kind /\ r.browser = req[w].browser
        /\ r.sent = req[w].sent /\ r.key = req[w].key /\ r.user = req[w].user
        /\ r.pend = req[w].pend /\ r.target = req[w].target
        /\ r.keys = req[w].keys
  BY Going
<1>3. Labelled(r)
  BY <1>1, <1>2 DEF Labelled
<1>4. Backed(password', r)
  BY <1>1, <1>2 DEF Backed, Proven, World
<1>5. MayDraw(r) => MayDraw(req[w])
  BY <1>2 DEF MayDraw
<1>6. QED
  BY <1>2, <1>3, <1>4, <1>5, Proceeds

LEMMA ArriveInv ==
  ASSUME Inv, NEW w \in Worker, Arrive(w)
  PROVE  Inv'
<1>1. World
  BY StandsStill, Worldly DEF Arrive
<1>2. PICK b \in Browser, kind \in Kind \ {"block"}, u \in Someone :
        LET k == cookie[b]
            found == k # NoKey /\ row[k] # NoRow /\ lasts[k] > 0 IN
        /\ (kind = "login") = (u # Anon)
        /\ kind \in {"login", "verify"} => Room
        /\ req' = [req EXCEPT ![w] =
             [pc |-> "gate", kind |-> kind, browser |-> b, sent |-> k # NoKey,
              key |-> IF found THEN k ELSE NoKey,
              user |-> IF found THEN row[k].user ELSE Anon,
              pend |-> IF found THEN row[k].pend ELSE Anon,
              target |-> u, keys |-> {}]]
  BY DEF Arrive
<1> DEFINE k == cookie[b]
           found == k # NoKey /\ row[k] # NoRow /\ lasts[k] > 0
           key == IF found THEN k ELSE NoKey
           user == IF found THEN row[k].user ELSE Anon
           pend == IF found THEN row[k].pend ELSE Anon
           r == [pc |-> "gate", kind |-> kind, browser |-> b, sent |-> k # NoKey,
                 key |-> key, user |-> user, pend |-> pend,
                 target |-> u, keys |-> {}]
<1>3. Moves(w, r)
  BY <1>2 DEF Moves
<1>4. /\ k \in Key \cup {NoKey} /\ key \in Key \cup {NoKey}
      /\ user \in Someone /\ pend \in Someone
      /\ found => row[k] \in Row
  BY DEF Inv, TypeOK, Row, Someone
<1>5. /\ user # Anon => key # NoKey
      /\ key \in {NoKey, k}
  OBVIOUS
<1>6. Proven(password, b, user) /\ Proven(password, b, pend)
  BY <1>4 DEF Inv, PasswordGiven, Proven
<1>7. key # NoKey /\ user # Anon => Known(user, key)
  BY <1>4 DEF Inv, UntrackedOnlyAfterSwitch, Known
<1> HIDE DEF user, pend, key
<1>8. r \in Request
  BY <1>4 DEF Request, Label
<1>9. Follows(w, r)
  <2>1. u \in User \/ u = Anon
    BY DEF Someone
  <2>2. kind = "login" => u \in User
    BY <1>2, <2>1
  <2>3. Labelled(r)
    BY <1>5, <2>2 DEF Labelled
  <2>4. Backed(password', r)
    BY <1>6 DEF Backed, Arrive, history
  <2>5. r.key # NoKey => r.browser \in Browser /\ r.key = cookie[r.browser]
    BY <1>5
  <2>6. QED
    BY <1>7, <2>3, <2>4, <2>5 DEF Follows
<1>10. MayDraw(r) => Room
  BY <1>2 DEF MayDraw
<1>11. QED
  BY <1>1, <1>3, <1>8, <1>9, <1>10, OneMoves

LEMMA BlockInv ==
  ASSUME Inv, NEW w \in Worker, Block(w)
  PROVE  Inv'
<1>1. World
  BY StandsStill, Worldly DEF Block
<1>2. PICK u \in User : Moves(w,
         [pc |-> "write", kind |-> "block", browser |-> Anon, sent |-> FALSE,
          key |-> NoKey, user |-> Anon, pend |-> Anon, target |-> u, keys |-> {}])
  BY DEF Block, Moves
<1> DEFINE r == [pc |-> "write", kind |-> "block", browser |-> Anon,
                 sent |-> FALSE, key |-> NoKey, user |-> Anon, pend |-> Anon,
                 target |-> u, keys |-> {}]
<1>3. r \in Request
  BY DEF Request, Label, Kind, Someone
<1>4. Follows(w, r) /\ ~MayDraw(r)
  BY DEF Follows, Labelled, Backed, Proven, MayDraw
<1>5. QED
  BY <1>1, <1>2, <1>3, <1>4, OneMoves

LEMMA GateInv ==
  ASSUME Inv, NEW w \in Worker, Gate(w)
  PROVE  Inv'
<1>1. World
  BY StandsStill, Worldly DEF Gate
<1>2. /\ req[w] # NoRequest /\ req[w].pc = "gate" /\ req[w].kind # "block"
  BY Here DEF Gate, At, Labelled
<1>3. Done(w) \/ \E l \in {"view", "status", "expire"} : Goto(w, l)
  BY DEF Gate
<1>4. QED
  BY <1>1, <1>2, <1>3, Finishes, Passes DEF Label

LEMMA ExpireInv ==
  ASSUME Inv, NEW w \in Worker, Expire(w)
  PROVE  Inv'
<1>1. World
  BY StandsStill, Revoking, Worldly DEF Expire
<1>2. /\ req[w] # NoRequest /\ req[w].pc = "expire" /\ req[w].kind # "block"
  BY Here DEF Expire, At, Labelled
<1>3. QED
  BY <1>1, <1>2, Passes DEF Expire, Label

LEMMA DropInv ==
  ASSUME Inv, NEW w \in Worker, Drop(w)
  PROVE  Inv'
<1>1. World
  BY StandsStill, Deleting, Worldly DEF Drop
<1>2. /\ req[w] # NoRequest /\ req[w].pc = "drop"
      /\ req[w] \in Request /\ Labelled(req[w]) /\ Backed(password, req[w])
  BY Here DEF Drop, At
<1> DEFINE r == [req[w] EXCEPT !.pc = "view", !.key = NoKey,
                               !.user = Anon, !.pend = Anon]
<1>3. /\ r \in Request /\ r.pc = "view" /\ r.key = NoKey
      /\ r.user = Anon /\ r.pend = Anon
      /\ r.kind = req[w].kind /\ r.browser = req[w].browser
      /\ r.target = req[w].target
  BY <1>2 DEF Request, Label, Someone
<1>4. Moves(w, r)
  BY DEF Drop, Moves
<1> HIDE DEF r
<1>5. Labelled(r)
  BY <1>2, <1>3 DEF Labelled
<1>6. Backed(password', r)
  BY <1>3 DEF Backed, Proven
<1>7. MayDraw(r) => MayDraw(req[w])
  BY <1>2, <1>3 DEF MayDraw
<1>8. QED
  BY <1>1, <1>2, <1>3, <1>4, <1>5, <1>6, <1>7, Proceeds

LEMMA Responding ==
  ASSUME Inv, NEW w \in Worker, Respond(w)
  PROVE  Clears
BY Clearing DEF Respond

LEMMA StatusGateInv ==
  ASSUME Inv, NEW w \in Worker, StatusGate(w)
  PROVE  Inv'
<1>1. World
  BY StandsStill, Deleting, Clearing, Worldly DEF StatusGate
<1>2. /\ req[w] # NoRequest /\ req[w].pc = "status" /\ req[w].kind # "block"
  BY Here DEF StatusGate, At, Labelled
<1>3. Done(w) \/ Goto(w, "view")
  BY DEF StatusGate
<1>4. QED
  BY <1>1, <1>2, <1>3, Finishes, Passes DEF Label

LEMMA ViewPageInv ==
  ASSUME Inv, NEW w \in Worker, ViewPage(w)
  PROVE  Inv'
<1>1. World
  BY StandsStill, Responding, Worldly DEF ViewPage
<1>2. QED
  BY <1>1, Finishes DEF ViewPage

LEMMA ViewLoginInv ==
  ASSUME Inv, NEW w \in Worker, ViewLogin(w)
  PROVE  Inv'
<1>1. /\ req[w] # NoRequest /\ req[w].pc = "view" /\ req[w].kind = "login"
      /\ req[w] \in Request /\ Labelled(req[w]) /\ Backed(password, req[w])
  BY Here DEF ViewLogin, At
<1>2. req[w].browser \in Browser /\ req[w].target \in User
  BY <1>1 DEF Labelled
<1>3. password' = password \cup {<<req[w].browser, req[w].target>>}
  BY DEF ViewLogin
<1>4. World
  <2>1. Clears
    BY StandsStill, Responding DEF ViewLogin
  <2>2. password \subseteq password' /\ password' \subseteq Browser \X User
    BY <1>2, <1>3 DEF Inv, TypeOK
  <2>3. QED
    BY <2>1, <2>2, StandsStill DEF ViewLogin, World, Inv, TypeOK
<1>5. CASE Done(w)
  BY <1>4, <1>5, Finishes
<1>6. CASE req' = [req EXCEPT ![w] = [req[w] EXCEPT !.pc = "save",
                                                    !.pend = req[w].target]]
  <2> DEFINE r == [req[w] EXCEPT !.pc = "save", !.pend = req[w].target]
  <2>1. /\ r \in Request /\ r.pc = "save" /\ r.pend = req[w].target
        /\ r.key = req[w].key /\ r.user = req[w].user
        /\ r.kind = req[w].kind /\ r.browser = req[w].browser
        /\ r.target = req[w].target
    BY <1>1 DEF Request, Label
  <2>2. Moves(w, r)
    BY <1>6 DEF Moves
  <2> HIDE DEF r
  <2>3. Labelled(r)
    BY <1>1, <2>1 DEF Labelled
  <2>4. Backed(password', r)
    BY <1>1, <1>3, <2>1 DEF Backed, Proven
  <2>5. MayDraw(r) => MayDraw(req[w])
    BY <1>1, <2>1 DEF MayDraw
  <2>6. QED
    BY <1>1, <1>4, <2>1, <2>2, <2>3, <2>4, <2>5, Proceeds
<1>7. CASE Goto(w, "enter")
  <2>1. PICK r \in Request :
          /\ Moves(w, r) /\ r.pc = "enter"
          /\ r.kind = req[w].kind /\ r.browser = req[w].browser
          /\ r.sent = req[w].sent /\ r.key = req[w].key /\ r.user = req[w].user
          /\ r.pend = req[w].pend /\ r.target = req[w].target
          /\ r.keys = req[w].keys
    BY <1>1, <1>7, Going DEF Label
  <2>2. Labelled(r)
    BY <1>1, <2>1 DEF Labelled
  <2>3. Backed(password', r)
    BY <1>1, <1>3, <2>1 DEF Backed, Proven
  <2>4. MayDraw(r) => MayDraw(req[w])
    BY <1>1, <2>1 DEF MayDraw
  <2>5. QED
    BY <1>1, <1>4, <2>1, <2>2, <2>3, <2>4, Proceeds
<1>8. QED
  BY <1>5, <1>6, <1>7 DEF ViewLogin

LEMMA ViewVerifyInv ==
  ASSUME Inv, NEW w \in Worker, ViewVerify(w)
  PROVE  Inv'
<1>1. World
  BY StandsStill, Responding, Worldly DEF ViewVerify
<1>2. /\ req[w] # NoRequest /\ req[w].pc = "view" /\ req[w].kind = "verify"
      /\ req[w] \in Request /\ Labelled(req[w]) /\ Backed(password, req[w])
      /\ password' = password
  BY Here DEF ViewVerify, At, history
<1>3. CASE Done(w)
  BY <1>1, <1>3, Finishes
<1>4. CASE req' = [req EXCEPT ![w] = [req[w] EXCEPT !.pc = "save", !.pend = Anon]]
  <2> DEFINE r == [req[w] EXCEPT !.pc = "save", !.pend = Anon]
  <2>1. /\ r \in Request /\ r.pc = "save" /\ r.pend = Anon
        /\ r.key = req[w].key /\ r.user = req[w].user
        /\ r.kind = req[w].kind /\ r.browser = req[w].browser
        /\ r.target = req[w].target
    BY <1>2 DEF Request, Label, Someone
  <2>2. Moves(w, r)
    BY <1>4 DEF Moves
  <2> HIDE DEF r
  <2>3. Labelled(r) /\ (MayDraw(r) => MayDraw(req[w]))
    BY <1>2, <2>1 DEF Labelled, MayDraw
  <2>4. Backed(password', r)
    BY <1>2, <2>1 DEF Backed, Proven
  <2>5. QED
    BY <1>1, <1>2, <2>1, <2>2, <2>3, <2>4, Proceeds
<1>5. CASE /\ req[w].pend \in User
           /\ req' = [req EXCEPT ![w] =
                [req[w] EXCEPT !.pc = "enter", !.target = req[w].pend, !.pend = Anon]]
  <2> DEFINE r == [req[w] EXCEPT !.pc = "enter", !.target = req[w].pend,
                                 !.pend = Anon]
  <2>1. /\ r \in Request /\ r.pc = "enter" /\ r.pend = Anon
        /\ r.target = req[w].pend
        /\ r.key = req[w].key /\ r.user = req[w].user
        /\ r.kind = req[w].kind /\ r.browser = req[w].browser
    BY <1>2 DEF Request, Label, Someone
  <2>2. Moves(w, r)
    BY <1>5 DEF Moves
  <2> HIDE DEF r
  <2>3. Labelled(r) /\ (MayDraw(r) => MayDraw(req[w]))
    BY <1>2, <1>5, <2>1 DEF Labelled, MayDraw
  <2>4. Backed(password', r)
    BY <1>2, <2>1 DEF Backed, Proven
  <2>5. QED
    BY <1>1, <1>2, <2>1, <2>2, <2>3, <2>4, Proceeds
<1>6. QED
  BY <1>3, <1>4, <1>5 DEF ViewVerify

LEMMA ViewLeaveInv ==
  ASSUME Inv, NEW w \in Worker, ViewLeave(w)
  PROVE  Inv'
<1>1. World
  BY StandsStill, Responding, Worldly DEF ViewLeave
<1>2. /\ req[w] # NoRequest /\ req[w].pc = "view"
      /\ req[w].kind \in {"logout", "logout_all"}
      /\ req[w] \in Request /\ Labelled(req[w]) /\ Backed(password, req[w])
      /\ password' = password
  BY Here DEF ViewLeave, At, history
<1>3. CASE Done(w)
  BY <1>1, <1>3, Finishes
<1>4. ASSUME req[w].user # Anon, NEW l \in {"list", "end", "delete"},
             req' = [req EXCEPT ![w] =
               [req[w] EXCEPT !.pc = l, !.target = req[w].user]]
      PROVE  Inv'
  <2> DEFINE r == [req[w] EXCEPT !.pc = l, !.target = req[w].user]
  <2>1. /\ r \in Request /\ r.pc = l /\ r.target = req[w].user
        /\ r.key = req[w].key /\ r.user = req[w].user /\ r.pend = req[w].pend
        /\ r.kind = req[w].kind /\ r.browser = req[w].browser
    BY <1>2 DEF Request, Label
  <2>2. req[w].user \in User
    BY <1>2, <1>4 DEF Request, Someone
  <2>3. Moves(w, r)
    BY <1>4 DEF Moves
  <2> HIDE DEF r
  <2>4. Labelled(r) /\ ~MayDraw(r)
    BY <1>2, <2>1, <2>2 DEF Labelled, MayDraw
  <2>5. Backed(password', r)
    BY <1>2, <2>1 DEF Backed, Proven
  <2>6. QED
    BY <1>1, <1>2, <2>1, <2>3, <2>4, <2>5, Proceeds
<1>5. CASE /\ req[w].user # Anon
           /\ req' = [req EXCEPT ![w] =
                [req[w] EXCEPT !.pc = IF req[w].kind = "logout_all" THEN "list"
                                      ELSE IF Tracked(req[w].user, req[w].key)
                                      THEN "end" ELSE "delete",
                               !.target = req[w].user]]
  BY <1>4, <1>5
<1>6. QED
  BY <1>3, <1>5 DEF ViewLeave

LEMMA EndInv ==
  ASSUME Inv, NEW w \in Worker, End(w) \/ DeleteRow(w)
  PROVE  Inv'
<1>1. World
  BY StandsStill, Revoking, Deleting, Clearing, Worldly DEF End, DeleteRow
<1>2. CASE End(w)
  <2>1. req[w] # NoRequest /\ req[w].pc = "end" /\ req[w].kind # "block"
    BY <1>2, Here DEF End, At, Labelled
  <2>2. QED
    BY <1>1, <1>2, <2>1, Passes DEF End, Label
<1>3. CASE DeleteRow(w)
  BY <1>1, <1>3, Finishes DEF DeleteRow
<1>4. QED
  BY <1>2, <1>3

LEMMA WriteBlockInv ==
  ASSUME Inv, NEW w \in Worker, WriteBlock(w)
  PROVE  Inv'
<1>1. req[w] # NoRequest /\ req[w].pc = "write" /\ req[w].target \in User
  BY Here DEF WriteBlock, At, Labelled
<1>2. World
  BY <1>1, StandsStill DEF WriteBlock, World, history, Inv, TypeOK
<1>3. QED
  BY <1>1, <1>2, Passes DEF WriteBlock, Label

LEMMA ListInv ==
  ASSUME Inv, NEW w \in Worker, List(w)
  PROVE  Inv'
<1>1. World
  BY StandsStill, Worldly DEF List
<1>2. /\ req[w] # NoRequest /\ req[w].pc = "list" /\ req[w].target \in User
      /\ req[w] \in Request /\ Labelled(req[w]) /\ Backed(password, req[w])
      /\ password' = password
  BY Here DEF List, At, history, Labelled
<1>3. CASE Done(w)
  BY <1>1, <1>3, Finishes
<1>4. ASSUME NEW ks \in SUBSET Key,
             req' = [req EXCEPT ![w] = [req[w] EXCEPT !.pc = "mark", !.keys = ks]]
      PROVE  Inv'
  <2> DEFINE r == [req[w] EXCEPT !.pc = "mark", !.keys = ks]
  <2>1. /\ r \in Request /\ r.pc = "mark" /\ r.target = req[w].target
        /\ r.key = req[w].key /\ r.user = req[w].user /\ r.pend = req[w].pend
        /\ r.kind = req[w].kind /\ r.browser = req[w].browser
    BY <1>2 DEF Request, Label
  <2>2. Moves(w, r)
    BY <1>4 DEF Moves
  <2> HIDE DEF r
  <2>3. Labelled(r) /\ (MayDraw(r) => MayDraw(req[w]))
    BY <1>2, <2>1 DEF Labelled, MayDraw
  <2>4. Backed(password', r)
    BY <1>2, <2>1 DEF Backed, Proven
  <2>5. QED
    BY <1>1, <1>2, <2>1, <2>2, <2>3, <2>4, Proceeds
<1>5. QED
  <2> DEFINE ks == {k \in Key : Tracked(req[w].target, k) /\ ~record[k].revoked}
  <2>1. ks \in SUBSET Key
    OBVIOUS
  <2>2. \/ Done(w)
        \/ req' = [req EXCEPT ![w] = [req[w] EXCEPT !.pc = "mark", !.keys = ks]]
    BY DEF List
  <2> HIDE DEF ks
  <2>3. CASE Done(w)
    BY <1>3, <2>3
  <2>4. CASE req' = [req EXCEPT ![w] = [req[w] EXCEPT !.pc = "mark", !.keys = ks]]
    BY <1>4, <2>1, <2>4
  <2>5. QED
    BY <2>2, <2>3, <2>4

LEMMA MarkInv ==
  ASSUME Inv, NEW w \in Worker, Mark(w) \/ Purge(w)
  PROVE  Inv'
<1>1. World
  BY StandsStill, Revoking, Deleting, Worldly DEF Mark, Purge
<1>2. CASE Mark(w)
  <2>1. req[w] # NoRequest /\ req[w].pc = "mark"
    BY <1>2 DEF Mark, At
  <2>2. QED
    BY <1>1, <1>2, <2>1, Passes DEF Mark, Label
<1>3. CASE Purge(w)
  BY <1>1, <1>3, Finishes DEF Purge
<1>4. QED
  BY <1>2, <1>3

(***************************************************************************)
(* The steps that draw a key or write a record.                            *)
(***************************************************************************)
LEMMA Drawing ==
  ASSUME Inv, NEW w \in Worker, MayDraw(req[w]), Draw,
         Pending' \subseteq Pending \ {w}
  PROVE  Budget' /\ drawn' \in Key /\ drawn' # NoKey
<1>1. drawn \in Nat /\ drawn + Cardinality(Pending) <= MaxKeys /\ MaxKeys \in Nat
  BY MaxKeysAssumption DEF Inv, TypeOK, Budget
<1>2. w \in Pending
  BY DEF Pending
<1>3. /\ IsFiniteSet(Pending \ {w})
      /\ Cardinality(Pending \ {w}) = Cardinality(Pending) - 1
  BY <1>2, PendingFinite, FS_RemoveElement
<1>4. /\ Cardinality(Pending') <= Cardinality(Pending \ {w})
      /\ Cardinality(Pending') \in Nat
  BY <1>3, FS_Subset, FS_CardinalityType
<1>5. QED
  BY <1>1, <1>3, <1>4, PendingFinite DEF Budget, Draw, Key, NoKey

LEMMA Apartness ==
  ASSUME Inv, NEW n \in Key, n > drawn, NEW a \in Browser,
         \A b \in Browser, k \in Key :
           Holds(b, k)' => Holds(b, k) \/ (k = n /\ b = a)
  PROVE  Apart'
<1>1. drawn \in Nat /\ n \in Nat
  BY DEF Inv, TypeOK, Key
<1>2. \A b \in Browser : ~Holds(b, n)
  <2>1. \A b \in Browser : cookie[b] # n
    BY <1>1 DEF Inv, Ordered, TypeOK
  <2>2. \A w \in Worker : req[w] # NoRequest => req[w].key # n
    BY <1>1 DEF Inv, Fits
  <2>3. QED
    BY <2>1, <2>2 DEF Holds
<1>3. QED
  BY <1>2 DEF Inv, Apart

LEMMA EnterInv ==
  ASSUME Inv, NEW w \in Worker, Enter(w)
  PROVE  Inv'
<1>1. /\ req[w] # NoRequest /\ req[w].pc = "enter"
      /\ req[w] \in Request /\ Labelled(req[w]) /\ Backed(password, req[w])
      /\ password' = password /\ switched' = switched
  BY Here DEF Enter, At, history
<1>2. /\ req[w].kind \in {"login", "verify"} /\ req[w].target \in User
      /\ req[w].browser \in Browser
      /\ Proven(password, req[w].browser, req[w].target)
      /\ MayDraw(req[w])
  BY <1>1 DEF Labelled, Backed, MayDraw
<1>3. CASE req[w].user = req[w].target /\ Goto(w, "issue") /\ UNCHANGED <<row, lasts, drawn>>
  <2>1. World
    BY <1>3, StandsStill, Worldly DEF Enter
  <2>2. PICK r \in Request :
          /\ Moves(w, r) /\ r.pc = "issue"
          /\ r.kind = req[w].kind /\ r.browser = req[w].browser
          /\ r.sent = req[w].sent /\ r.key = req[w].key /\ r.user = req[w].user
          /\ r.pend = req[w].pend /\ r.target = req[w].target
          /\ r.keys = req[w].keys
    BY <1>1, <1>3, Going DEF Label
  <2>3. Labelled(r)
    BY <1>1, <1>2, <1>3, <2>2 DEF Labelled
  <2>4. Backed(password', r)
    BY <1>1, <2>2 DEF Backed, Proven
  <2>5. QED
    BY <1>1, <1>2, <2>1, <2>2, <2>3, <2>4, Proceeds
<1>4. CASE /\ Delete({req[w].key}) /\ drawn' = drawn
           /\ req' = [req EXCEPT ![w] =
                [req[w] EXCEPT !.pc = "issue", !.key = NoKey,
                               !.user = req[w].target, !.pend = Anon]]
  <2> DEFINE r == [req[w] EXCEPT !.pc = "issue", !.key = NoKey,
                                 !.user = req[w].target, !.pend = Anon]
  <2>1. World
    BY <1>4, StandsStill, Deleting, Worldly DEF Enter
  <2>2. /\ r \in Request /\ r.pc = "issue" /\ r.key = NoKey
        /\ r.user = req[w].target /\ r.pend = Anon
        /\ r.kind = req[w].kind /\ r.browser = req[w].browser
        /\ r.target = req[w].target
    BY <1>1, <1>2 DEF Request, Label, Someone
  <2>3. Moves(w, r)
    BY <1>4 DEF Moves
  <2> HIDE DEF r
  <2>4. Labelled(r)
    BY <1>1, <1>2, <2>2 DEF Labelled
  <2>5. Backed(password', r)
    BY <1>1, <1>2, <2>2 DEF Backed, Proven
  <2>6. QED
    BY <1>1, <1>2, <2>1, <2>2, <2>3, <2>4, <2>5, Proceeds
<1>5. CASE /\ Draw
           /\ row' = [k \in Key |->
                IF k = drawn' THEN [user |-> Anon, pend |-> req[w].pend]
                ELSE IF k = req[w].key THEN NoRow ELSE row[k]]
           /\ lasts' = [k \in Key |->
                IF k = drawn' THEN CookieAge
                ELSE IF k = req[w].key THEN 0 ELSE lasts[k]]
           /\ req' = [req EXCEPT ![w] = [req[w] EXCEPT !.pc = "issue", !.key = drawn',
                                                       !.user = req[w].target]]
  <2>1. UNCHANGED <<record, blocked, cookie, network, password, switched>>
    BY DEF Enter, history
  <2>2. /\ req \in [Worker -> Request \cup {NoRequest}] /\ drawn \in Nat
        /\ cookie \in [Browser -> Key \cup {NoKey}]
        /\ drawn' = drawn + 1
    BY <1>5 DEF Inv, TypeOK, Draw
  <2>3. \A v \in Worker : v # w => req'[v] = req[v]
    BY <1>5, <2>2
  <2>4. /\ req'[w].pc = "issue" /\ req'[w].key = drawn'
        /\ req'[w].kind = req[w].kind
        /\ req'[w].browser = req[w].browser /\ req'[w].pend = req[w].pend
        /\ req'[w].user = req[w].target /\ req'[w].target = req[w].target
    BY <1>1, <1>5, <2>2 DEF Request
  <2>5. Pending' = {v \in Worker : MayDraw(req'[v])}
    BY DEF Pending, MayDraw
  <2>6. ~MayDraw(req'[w])
    BY <2>2, <2>4 DEF MayDraw, NoKey
  <2>7. Budget' /\ drawn' \in Key /\ drawn' # NoKey
    BY <1>2, <1>5, <2>3, <2>5, <2>6, Drawing DEF Pending
  <2>8. PICK n \in Key : n = drawn' /\ n = drawn + 1 /\ n # NoKey
    BY <2>2, <2>7
  <2>9. req'[w] \in Request /\ req'[w] # NoRequest
    <3> DEFINE r == [req[w] EXCEPT !.pc = "issue", !.key = n,
                                   !.user = req[w].target]
    <3>1. r \in Request
      BY <1>1, <1>2 DEF Request, Label, Someone
    <3>2. req'[w] = r
      BY <1>5, <2>2, <2>8
    <3> HIDE DEF r
    <3>3. QED
      BY <3>1, <3>2, NoRequestAssumption
  <2>10. /\ row'[n] = [user |-> Anon, pend |-> req[w].pend]
         /\ \A k \in Key : k # n => row'[k] \in {row[k], NoRow}
    BY <1>5, <2>8
  <2>11. row' \in [Key -> Row \cup {NoRow}]
    <3>1. [user |-> Anon, pend |-> req[w].pend] \in Row
      BY <1>1 DEF Request, Row, Someone
    <3>2. row \in [Key -> Row \cup {NoRow}]
      BY DEF Inv, TypeOK
    <3>3. \A k \in Key : row'[k] \in Row \cup {NoRow}
      BY <2>10, <3>1, <3>2
    <3>4. QED
      BY <1>5, <3>3
  <2>12. req' \in [Worker -> Request \cup {NoRequest}]
    BY <1>5, <2>2, <2>3, <2>9
  <2>13. TypeOK'
    <3>1. drawn' \in 0..MaxKeys
      BY <2>7 DEF Key
    <3>2. switched' \subseteq 1..drawn'
      BY <2>1, <2>2 DEF Inv, TypeOK
    <3>3. lasts' \in [Key -> 0..CookieAge]
      BY <1>5, CookieAgeAssumption DEF Inv, TypeOK
    <3>4. QED
      BY <2>1, <2>11, <2>12, <3>1, <3>2, <3>3 DEF Inv, TypeOK
  <2>14. ASSUME NEW v \in Worker
         PROVE  Fits(req[v])'
    <3>1. CASE v # w
      BY <2>1, <2>2, <2>3, <3>1 DEF Inv, TypeOK, Fits, Labelled, Backed, Proven,
                                     Request, Key, NoKey
    <3>2. CASE v = w
      <4>1. Labelled(req[w])'
        BY <1>1, <1>2, <2>4, <2>7 DEF Labelled
      <4>2. Backed(password, req[w])'
        BY <1>1, <1>2, <2>1, <2>4 DEF Backed, Proven
      <4>3. QED
        BY <2>2, <2>4, <3>2, <4>1, <4>2 DEF Fits
    <3>3. QED
      BY <3>1, <3>2
  <2>15. Ordered'
    <3>1. \A k \in Key : k > drawn' => row'[k] = NoRow /\ record'[k] = NoRow
      BY <2>1, <2>2, <2>8, <2>10 DEF Inv, Ordered, Key
    <3>2. \A b \in Browser : cookie'[b] <= drawn'
      BY <2>1, <2>2 DEF Inv, Ordered, Key, NoKey
    <3>3. QED
      BY <3>1, <3>2 DEF Ordered
  <2>16. Apart'
    <3>1. ASSUME NEW b \in Browser, NEW k \in Key, Holds(b, k)'
          PROVE  Holds(b, k) \/ (k = n /\ b = req[w].browser)
      BY <2>1, <2>3, <2>4, <2>8, <3>1 DEF Holds
    <3>2. PICK a \in Browser : a = req[w].browser
      BY <1>2
    <3>3. n > drawn
      BY <2>2, <2>8
    <3>4. QED
      BY <3>1, <3>2, <3>3, Apartness
  <2>17. ASSUME NEW b \in Browser
         PROVE  cookie'[b] = cookie[b] /\ cookie[b] # n
    BY <2>1, <2>2, <2>8 DEF Inv, Ordered
  <2>18. PasswordGiven'
    <3> SUFFICES ASSUME NEW b \in Browser, NEW k \in Key, k = cookie'[b],
                        row'[k] # NoRow,
                        NEW u \in {row'[k].user, row'[k].pend} \ {Anon}
                 PROVE  u \in User /\ <<b, u>> \in password'
      BY <2>13 DEF PasswordGiven, TypeOK
    <3>1. k = cookie[b] /\ row'[k] = row[k] /\ k # NoKey
      BY <2>10, <2>17 DEF Key, NoKey
    <3>2. QED
      BY <2>1, <3>1 DEF Inv, PasswordGiven
  <2>19. UntrackedOnlyAfterSwitch'
    BY <2>1, <2>10 DEF Inv, UntrackedOnlyAfterSwitch, Tracked
  <2>20. ASSUME NEW v \in Worker
         PROVE  Traced(v)'
    <3>1. \A u \in Worker : u # w /\ req[u] # NoRequest => req[u].key # n
      BY <2>2, <2>8 DEF Inv, Fits
    <3>2. CASE v = w
      <4>1. record'[n] = NoRow
        BY <2>1, <2>2, <2>8 DEF Inv, Ordered
      <4>2. Fresh(w, n)'
        BY <2>1, <2>3, <2>10, <2>17, <3>1, <4>1 DEF Fresh
      <4>3. QED
        BY <2>4, <2>8, <3>2, <4>2 DEF Traced
    <3>3. CASE v # w /\ req[v] # NoRequest /\ req[v].key # NoKey
      <4> DEFINE k == req[v].key
      <4>1. req'[v] = req[v] /\ k \in Key /\ k # n
        BY <2>2, <2>3, <3>1, <3>3 DEF Request
      <4>2. row'[k] \in {row[k], NoRow} /\ record'[k] = record[k]
        BY <2>1, <2>10, <4>1
      <4>3. Known(req[v].user, k) => Known(req[v].user, k)'
        BY <2>1, <4>1, <4>2 DEF Known, Tracked
      <4>4. Fresh(v, k) => Fresh(v, k)'
        BY <2>1, <2>3, <2>4, <2>8, <4>1, <4>2 DEF Fresh
      <4>5. QED
        BY <3>3, <4>1, <4>3, <4>4 DEF Inv, Traced
    <3>4. CASE v # w /\ (req[v] = NoRequest \/ req[v].key = NoKey)
      BY <2>3, <3>4 DEF Traced
    <3>5. QED
      BY <3>2, <3>3, <3>4
  <2>21. QED
    BY <2>7, <2>13, <2>14, <2>15, <2>16, <2>18, <2>19, <2>20 DEF Inv
<1>6. QED
  BY <1>3, <1>4, <1>5 DEF Enter

LEMMA IssueInv ==
  ASSUME Inv, NEW w \in Worker, Issue(w)
  PROVE  Inv'
<1>1. /\ req[w] # NoRequest /\ req[w].pc = "issue"
      /\ req[w] \in Request /\ Labelled(req[w]) /\ Backed(password, req[w])
      /\ UNCHANGED <<row, lasts, drawn, blocked, cookie, network, switched, password>>
  BY Here DEF Issue, At, history
<1>2. /\ req[w].kind \in {"login", "verify"} /\ req[w].user \in User
      /\ req[w].browser \in Browser /\ req[w].user # Anon
  BY <1>1, AnonAssumption DEF Labelled
<1>3. PICK r \in Request :
        /\ Moves(w, r) /\ r.pc = "save"
        /\ r.kind = req[w].kind /\ r.browser = req[w].browser
        /\ r.sent = req[w].sent /\ r.key = req[w].key /\ r.user = req[w].user
        /\ r.pend = req[w].pend /\ r.target = req[w].target
        /\ r.keys = req[w].keys
  BY <1>1, Going DEF Issue, Label
<1>4. Labelled(r) /\ (MayDraw(r) => MayDraw(req[w]))
  BY <1>1, <1>2, <1>3 DEF Labelled, MayDraw
<1>5. Backed(password', r)
  BY <1>1, <1>3 DEF Backed, Proven
<1>6. CASE req[w].key = NoKey
  <2>1. World
    BY <1>6, StandsStill, Worldly DEF Issue
  <2>2. Follows(w, r)
    BY <1>3, <1>4, <1>5, <1>6 DEF Follows
  <2>3. QED
    BY <1>3, <1>4, <2>1, <2>2, OneMoves
<1>7. CASE req[w].key # NoKey
  <2>0. PICK u \in User : u = req[w].user
    BY <1>2
  <2> DEFINE rec == [user |-> u, revoked |-> FALSE, left |-> Timeout,
                    net |-> network[req[w].browser]]
  <2>1. PICK k \in Key : k = req[w].key
    BY <1>1, <1>7 DEF Request
  <2>2. /\ record \in [Key -> Record \cup {NoRow}]
        /\ req \in [Worker -> Request \cup {NoRequest}]
        /\ drawn \in Nat
    BY DEF Inv, TypeOK
  <2>3. rec \in Record /\ rec.user = u
    BY <1>2, TimeoutAssumption DEF Record, Inv, TypeOK
  <2> HIDE DEF rec
  <2>4. record' = [record EXCEPT ![k] = rec]
    BY <1>7, <2>0, <2>1 DEF Issue, rec
  <2>5. /\ record' \in [Key -> Record \cup {NoRow}]
        /\ record'[k].user = u /\ record'[k] # NoRow
        /\ \A j \in Key : j # k => record'[j] = record[j]
    BY <2>2, <2>3, <2>4, NoRowAssumption
  <2>6. /\ req' \in [Worker -> Request \cup {NoRequest}]
        /\ req'[w] = r /\ \A v \in Worker : v # w => req'[v] = req[v]
    BY <1>3, <2>2 DEF Moves
  <2>7. TypeOK'
    BY <1>1, <2>5, <2>6 DEF Inv, TypeOK
  <2>8. Known(u, k) \/ record[k] = NoRow
    BY <1>1, <1>2, <1>7, <2>0, <2>1 DEF Inv, Traced, Fresh
  <2>9. ASSUME NEW x, NEW j \in Key, Known(x, j)
        PROVE  Known(x, j)'
    <3>1. CASE j \in switched
      BY <1>1, <3>1 DEF Known
    <3>2. CASE j # k
      BY <1>1, <2>5, <2>9, <3>2 DEF Known, Tracked
    <3>3. CASE j = k /\ j \notin switched
      <4>1. record[k] # NoRow /\ record[k].user = x
        BY <2>9, <3>3 DEF Known, Tracked
      <4>2. x = u
        BY <2>8, <3>3, <4>1 DEF Known, Tracked
      <4>3. Tracked(x, k)'
        BY <1>7, <2>1, <2>5, <4>2 DEF Tracked
      <4>4. QED
        BY <3>3, <4>3 DEF Known
    <3>4. QED
      BY <3>1, <3>2, <3>3
  <2>10. ASSUME NEW v \in Worker
         PROVE  Fits(req[v])'
    <3>1. CASE v # w
      BY <1>1, <2>6, <3>1 DEF Inv, Fits, Labelled, Backed, Proven
    <3>2. CASE v = w
      <4>1. Labelled(req[w])' /\ Backed(password, req[w])'
        BY <1>4, <1>5, <2>6 DEF Labelled, Backed, Proven
      <4>2. req'[w].key <= drawn'
        BY <1>1, <1>3, <2>6 DEF Inv, Fits
      <4>3. QED
        BY <3>2, <4>1, <4>2 DEF Fits
    <3>3. QED
      BY <3>1, <3>2
  <2>11. Ordered'
    <3>1. k <= drawn
      BY <1>1, <2>1 DEF Inv, Fits
    <3>2. QED
      BY <1>1, <2>2, <2>5, <3>1 DEF Inv, Ordered, Key
  <2>12. Apart'
    <3>1. ASSUME NEW b \in Browser, NEW j \in Key, Holds(b, j)'
          PROVE  Holds(b, j)
      BY <1>1, <1>3, <2>6, <3>1 DEF Holds
    <3>2. QED
      BY <3>1 DEF Inv, Apart
  <2>13. PasswordGiven'
    BY <1>1 DEF Inv, PasswordGiven
  <2>14. UntrackedOnlyAfterSwitch'
    <3> SUFFICES ASSUME NEW j \in Key, row'[j] # NoRow, row'[j].user # Anon
                 PROVE  Known(row[j].user, j)'
      BY DEF UntrackedOnlyAfterSwitch, Known, Tracked
    <3>1. Known(row[j].user, j)
      BY <1>1 DEF Inv, UntrackedOnlyAfterSwitch, Known
    <3>2. QED
      BY <1>1, <2>9, <3>1 DEF Known, Tracked
  <2>15. ASSUME NEW v \in Worker
         PROVE  Traced(v)'
    <3>1. CASE v = w
      <4>1. Known(u, k)'
        BY <1>7, <2>1, <2>5 DEF Known, Tracked
      <4>2. req'[w].user = u /\ req'[w].key = k
        BY <1>3, <2>0, <2>1, <2>6
      <4>3. QED
        BY <3>1, <4>1, <4>2 DEF Traced, Known, Tracked
    <3>2. CASE v # w /\ req[v] # NoRequest /\ req[v].key # NoKey
      <4> DEFINE j == req[v].key
      <4>1. req'[v] = req[v] /\ j \in Key
        BY <2>2, <2>6, <3>2 DEF Request
      <4>2. Known(req[v].user, j) => Known(req[v].user, j)'
        BY <2>9, <4>1 DEF Known, Tracked
      <4>3. Fresh(v, j) => Fresh(v, j)'
        <5> SUFFICES ASSUME Fresh(v, j) PROVE Fresh(v, j)'
          OBVIOUS
        <5>1. j # k
          BY <1>1, <2>1, <3>2 DEF Fresh
        <5>2. record'[j] = NoRow
          BY <2>5, <4>1, <5>1 DEF Fresh
        <5>3. \A x \in Worker : x # v /\ req'[x] # NoRequest => req'[x].key # j
          BY <1>3, <2>1, <2>6, <5>1 DEF Fresh
        <5>4. QED
          BY <1>1, <4>1, <5>2, <5>3 DEF Fresh
      <4>4. QED
        BY <3>2, <4>1, <4>2, <4>3 DEF Inv, Traced
    <3>3. CASE v # w /\ (req[v] = NoRequest \/ req[v].key = NoKey)
      BY <2>6, <3>3 DEF Traced
    <3>4. QED
      BY <3>1, <3>2, <3>3
  <2>16. Budget'
    <3>1. Pending' = {v \in Worker : MayDraw(req'[v])}
      BY DEF Pending, MayDraw
    <3>2. Pending' \subseteq Pending
      BY <1>4, <2>6, <3>1 DEF Pending
    <3>3. QED
      BY <1>1, <3>2, Budgets
  <2>17. QED
    BY <2>7, <2>10, <2>11, <2>12, <2>13, <2>14, <2>15, <2>16 DEF Inv
<1>8. QED
  BY <1>6, <1>7

(* A save: w is done, one row is its copy, and its browser has the key.      *)
LEMMA Saved ==
  ASSUME Inv, NEW w \in Worker, req[w] # NoRequest, req[w].pc = "save", Done(w),
         NEW k \in Key, k <= drawn', drawn' \in {drawn, k},
         row' = [row EXCEPT ![k] = [user |-> req[w].user, pend |-> req[w].pend]],
         lasts' = [lasts EXCEPT ![k] = CookieAge],
         cookie' = [cookie EXCEPT ![req[w].browser] = k],
         UNCHANGED <<record, blocked, network, password>>,
         drawn' \in 0..MaxKeys, Budget',
         switched' \in {switched, switched \cup {k}},
         \/ k = req[w].key /\ drawn' = drawn /\ switched' = switched
         \/ drawn' = drawn + 1 /\ (req[w].user # Anon => k \in switched')
  PROVE  Inv'
<1> DEFINE copy == [user |-> req[w].user, pend |-> req[w].pend]
<1>0. PICK a \in Browser : a = req[w].browser
  BY Here DEF Labelled
<1>1. /\ req[w] \in Request /\ Labelled(req[w]) /\ Backed(password, req[w])
      /\ req[w].key # NoKey /\ req[w].user # Anon
           => Known(req[w].user, req[w].key)
  BY Here DEF Labelled
<1>2. /\ row \in [Key -> Row \cup {NoRow}]
      /\ req \in [Worker -> Request \cup {NoRequest}]
      /\ cookie \in [Browser -> Key \cup {NoKey}]
      /\ drawn \in Nat /\ drawn' \in Nat /\ switched \subseteq 1..drawn
      /\ k \in Nat /\ k # NoKey /\ drawn <= drawn'
  BY DEF Inv, TypeOK, Key, NoKey
<1>3. copy \in Row /\ copy # NoRow
  BY <1>1, NoRowAssumption DEF Request, Row
<1>4. /\ row' \in [Key -> Row \cup {NoRow}] /\ row'[k] = copy
      /\ \A j \in Key : j # k => row'[j] = row[j]
  BY <1>2, <1>3
<1>5. /\ cookie' \in [Browser -> Key \cup {NoKey}] /\ cookie'[a] = k
      /\ \A b \in Browser : b # a => cookie'[b] = cookie[b]
  BY <1>0, <1>2
<1>6. /\ req' \in [Worker -> Request \cup {NoRequest}]
      /\ req'[w] = NoRequest /\ \A v \in Worker : v # w => req'[v] = req[v]
  BY <1>2 DEF Done
<1> HIDE DEF copy
<1>7. TypeOK'
  <2>1. switched' \subseteq 1..drawn'
    BY <1>2 DEF Key
  <2>2. lasts' \in [Key -> 0..CookieAge]
    BY CookieAgeAssumption DEF Inv, TypeOK
  <2>3. QED
    BY <1>4, <1>5, <1>6, <2>1, <2>2 DEF Inv, TypeOK
<1>8. ASSUME NEW v \in Worker
      PROVE  Fits(req[v])'
  <2>1. CASE v = w
    BY <1>6, <2>1 DEF Fits
  <2>2. CASE v # w
    BY <1>2, <1>6, <2>2 DEF Inv, TypeOK, Fits, Labelled, Backed, Proven, Request,
                            Key, NoKey
  <2>3. QED
    BY <2>1, <2>2
<1>9. Ordered'
  <2>1. \A j \in Key : j > drawn' => row'[j] = NoRow /\ record'[j] = NoRow
    BY <1>2, <1>4 DEF Inv, Ordered, Key
  <2>2. \A b \in Browser : cookie'[b] <= drawn'
    BY <1>2, <1>5 DEF Inv, Ordered, Key, NoKey
  <2>3. QED
    BY <2>1, <2>2 DEF Ordered
<1>10. ASSUME NEW b \in Browser, NEW j \in Key, Holds(b, j)'
       PROVE  Holds(b, j) \/ (j = k /\ b = a)
  BY <1>2, <1>5, <1>6, <1>10 DEF Holds
<1>11. Apart'
  <2>1. CASE k = req[w].key
    <3>1. Holds(a, k)
      BY <1>0, <1>1, <2>1 DEF Holds
    <3>2. QED
      BY <1>1, <1>10, <3>1 DEF Inv, Apart
  <2>2. CASE drawn' = drawn + 1
    <3>1. k > drawn
      BY <1>2, <2>2
    <3>2. QED
      BY <1>1, <1>10, <3>1, Apartness
  <2>3. QED
    BY <2>1, <2>2
<1>12. PasswordGiven'
  <2> SUFFICES ASSUME NEW b \in Browser, NEW j \in Key, j = cookie'[b],
                      row'[j] # NoRow,
                      NEW u \in {row'[j].user, row'[j].pend} \ {Anon}
               PROVE  u \in User /\ <<b, u>> \in password'
    BY <1>7 DEF PasswordGiven, TypeOK
  <2>1. CASE b = a
    <3>1. u \in {req[w].user, req[w].pend} /\ u # Anon
      BY <1>4, <1>5, <2>1 DEF copy
    <3>2. QED
      BY <1>0, <1>1, <2>1, <3>1 DEF Backed, Proven, Request, Someone
  <2>2. CASE b # a
    <3>1. j = cookie[b] /\ j # NoKey /\ Holds(b, j)'
      BY <1>5, <2>2 DEF Holds, Key, NoKey
    <3>2. j # k
      <4>1. Holds(a, k)'
        BY <1>5 DEF Holds
      <4>2. QED
        BY <1>1, <1>11, <2>2, <3>1, <4>1 DEF Apart, Holds
    <3>3. QED
      BY <1>4, <3>1, <3>2 DEF Inv, PasswordGiven
  <2>3. QED
    BY <2>1, <2>2
<1>13. ASSUME NEW x, NEW j \in Key, Known(x, j)
       PROVE  Known(x, j)'
  BY <1>13 DEF Known, Tracked
<1>14. UntrackedOnlyAfterSwitch'
  <2> SUFFICES ASSUME NEW j \in Key, row'[j] # NoRow, row'[j].user # Anon
               PROVE  Known(row[j].user, j)'
    BY DEF UntrackedOnlyAfterSwitch, Known, Tracked
  <2>1. CASE j # k
    <3>1. row'[j] = row[j]
      BY <1>4, <2>1
    <3>2. Known(row[j].user, j)
      BY <3>1 DEF Inv, UntrackedOnlyAfterSwitch, Known
    <3>3. QED
      BY <3>1, <3>2 DEF Known, Tracked
  <2>2. CASE j = k
    <3>1. row'[k].user = req[w].user
      BY <1>4 DEF copy
    <3>2. Known(req[w].user, k) \/ k \in switched'
      BY <1>1, <1>2, <2>2, <3>1
    <3>3. QED
      BY <2>2, <3>1, <3>2 DEF Known, Tracked
  <2>3. QED
    BY <2>1, <2>2
<1>15. ASSUME NEW v \in Worker
       PROVE  Traced(v)'
  <2>1. CASE v = w
    BY <1>6, <2>1 DEF Traced
  <2>2. CASE v # w /\ req[v] # NoRequest /\ req[v].key # NoKey
    <3> DEFINE j == req[v].key
    <3>1. req'[v] = req[v] /\ j \in Key /\ j <= drawn
      BY <1>2, <1>6, <2>2 DEF Inv, Fits, Request
    <3>2. Known(req[v].user, j) => Known(req[v].user, j)'
      BY <3>1 DEF Known, Tracked
    <3>3. Fresh(v, j) => Fresh(v, j)'
      <4> SUFFICES ASSUME Fresh(v, j) PROVE Fresh(v, j)'
        OBVIOUS
      <4>1. j # k
        BY <1>2, <2>2, <3>1 DEF Fresh
      <4>2. row'[j] = row[j] /\ \A b \in Browser : cookie'[b] # j
        BY <1>4, <1>5, <3>1, <4>1 DEF Fresh
      <4>3. \A x \in Worker : x # v /\ req'[x] # NoRequest => req'[x].key # j
        BY <1>6 DEF Fresh
      <4>4. QED
        BY <3>1, <4>2, <4>3 DEF Fresh
    <3>4. QED
      BY <2>2, <3>1, <3>2, <3>3 DEF Inv, Traced
  <2>3. CASE v # w /\ (req[v] = NoRequest \/ req[v].key = NoKey)
    BY <1>6, <2>3 DEF Traced
  <2>4. QED
    BY <2>1, <2>2, <2>3
<1>16. QED
  BY <1>7, <1>8, <1>9, <1>11, <1>12, <1>14, <1>15 DEF Inv

LEMMA SaveInv ==
  ASSUME Inv, NEW w \in Worker, Save(w)
  PROVE  Inv'
<1>1. /\ req[w] # NoRequest /\ req[w].pc = "save" /\ Done(w)
      /\ req[w] \in Request /\ Labelled(req[w])
      /\ UNCHANGED <<record, blocked, network, password>>
  BY Here DEF Save, At
<1>2. /\ drawn \in Nat /\ drawn \in 0..MaxKeys
      /\ req \in [Worker -> Request \cup {NoRequest}]
  BY MaxKeysAssumption DEF Inv, TypeOK
<1>3. Pending' \subseteq Pending \ {w}
  <2>1. Pending' = {v \in Worker : MayDraw(req'[v])}
    BY DEF Pending, MayDraw
  <2>2. req'[w] = NoRequest /\ \A v \in Worker : v # w => req'[v] = req[v]
    BY <1>1, <1>2 DEF Done
  <2>3. QED
    BY <2>1, <2>2 DEF Pending, MayDraw
<1>4. CASE /\ req[w].key = NoKey
           /\ Draw
           /\ row' = [row EXCEPT ![drawn'] = [user |-> req[w].user,
                                              pend |-> req[w].pend]]
           /\ lasts' = [lasts EXCEPT ![drawn'] = CookieAge]
           /\ cookie' = [cookie EXCEPT ![req[w].browser] = drawn']
           /\ switched' = IF req[w].user = Anon THEN switched
                                                ELSE switched \cup {drawn'}
  <2>1. MayDraw(req[w])
    BY <1>1, <1>4 DEF MayDraw, Labelled
  <2>2. Budget' /\ drawn' \in Key
    BY <1>3, <1>4, <2>1, Drawing
  <2>3. PICK k \in Key : k = drawn' /\ k = drawn + 1
    BY <1>4, <2>2 DEF Draw
  <2>4. /\ k <= drawn' /\ drawn' \in 0..MaxKeys
        /\ switched' \in {switched, switched \cup {k}}
        /\ req[w].user # Anon => k \in switched'
    BY <1>2, <1>4, <2>3, MaxKeysAssumption DEF Key
  <2>5. /\ row' = [row EXCEPT ![k] = [user |-> req[w].user, pend |-> req[w].pend]]
        /\ lasts' = [lasts EXCEPT ![k] = CookieAge]
        /\ cookie' = [cookie EXCEPT ![req[w].browser] = k]
    BY <1>4, <2>3
  <2>6. QED
    BY <1>1, <2>2, <2>3, <2>4, <2>5, Saved
<1>5. CASE /\ req[w].key # NoKey
           /\ row' = [row EXCEPT ![req[w].key] = [user |-> req[w].user,
                                                  pend |-> req[w].pend]]
           /\ lasts' = [lasts EXCEPT ![req[w].key] = CookieAge]
           /\ cookie' = [cookie EXCEPT ![req[w].browser] = req[w].key]
           /\ UNCHANGED <<drawn, switched>>
  <2>1. PICK k \in Key : k = req[w].key
    BY <1>1, <1>5 DEF Request
  <2>2. k <= drawn
    BY <1>1, <2>1 DEF Inv, Fits
  <2>3. Budget'
    BY <1>3, <1>5, Budgets
  <2>4. /\ row' = [row EXCEPT ![k] = [user |-> req[w].user, pend |-> req[w].pend]]
        /\ lasts' = [lasts EXCEPT ![k] = CookieAge]
        /\ cookie' = [cookie EXCEPT ![req[w].browser] = k]
    BY <1>5, <2>1
  <2>5. QED
    BY <1>1, <1>2, <1>5, <2>1, <2>2, <2>3, <2>4, Saved
<1>6. CASE UNCHANGED <<row, lasts, drawn, cookie, switched>>
  <2>1. World
    BY <1>1, <1>6, StandsStill, Worldly DEF history
  <2>2. QED
    BY <1>1, <2>1, Finishes
<1>7. QED
  BY <1>4, <1>5, <1>6 DEF Save

(***************************************************************************)
(* The world around.                                                       *)
(***************************************************************************)
\* A step that leaves every request alone.
LEMMA Outside ==
  ASSUME Inv, World, req' = req
  PROVE  Inv'
<1>1. Pending' = Pending
  BY DEF Pending, MayDraw
<1>2. Budget'
  BY <1>1, Budgets DEF World
<1>3. req' \in [Worker -> Request \cup {NoRequest}]
  BY DEF Inv, TypeOK
<1>4. QED
  BY <1>2, <1>3, Ordinary

LEMMA UnblockInv ==
  ASSUME Inv, Unblock
  PROVE  Inv'
<1>1. World
  BY StandsStill DEF Inv, TypeOK, Unblock, World, history
<1>2. QED
  BY <1>1, Outside DEF Unblock

LEMMA MoveInv ==
  ASSUME Inv, Move
  PROVE  Inv'
<1>1. network' \in [Browser -> Network]
  BY DEF Inv, TypeOK, Move
<1>2. World
  BY <1>1, StandsStill DEF Inv, TypeOK, Move, World, history
<1>3. QED
  BY <1>2, Outside DEF Move

LEMMA TickInv ==
  ASSUME Inv, Tick
  PROVE  Inv'
<1>1. ASSUME NEW k \in Key
      PROVE  /\ record'[k] \in Record \cup {NoRow}
             /\ record[k] = NoRow <=> record'[k] = NoRow
             /\ record[k] # NoRow => record'[k].user = record[k].user
  <2>1. CASE record[k] = NoRow
    BY <2>1 DEF Tick
  <2>2. CASE record[k] # NoRow
    <3>1. record[k] \in Record
      BY <2>2 DEF Inv, TypeOK
    <3>2. PICK n \in 0..Timeout : record'[k] = [record[k] EXCEPT !.left = n]
      <4>1. record[k].left \in 0..Timeout
        BY <3>1 DEF Record
      <4>2. record'[k] = [record[k] EXCEPT !.left = Less(@)]
        BY <2>2 DEF Tick
      <4>3. Less(record[k].left) \in 0..Timeout
        BY <4>1, TimeoutAssumption DEF Less
      <4>4. QED
        BY <4>2, <4>3
    <3>3. record'[k] \in Record /\ record'[k].user = record[k].user
      BY <3>1, <3>2 DEF Record
    <3>4. QED
      BY <2>2, <3>3, NoRowAssumption
  <2>3. QED
    BY <2>1, <2>2
<1>2. record' \in [Key -> Record \cup {NoRow}]
  BY <1>1 DEF Tick
<1>3. Ages
  BY <1>1, <1>2 DEF Ages
<1>4. Shrinks
  <2>1. \A k \in Key : lasts[k] \in 0..CookieAge /\ Less(lasts[k]) \in 0..CookieAge
    BY CookieAgeAssumption DEF Inv, TypeOK, Less
  <2>2. lasts' \in [Key -> 0..CookieAge]
    BY <2>1 DEF Tick
  <2>3. QED
    BY <2>2 DEF Inv, TypeOK, Shrinks, Tick
<1>5. World
  BY <1>3, <1>4, StandsStill, Worldly DEF Tick
<1>6. QED
  BY <1>5, Outside DEF Tick

LEMMA NextInv == Inv /\ [Next]_vars => Inv'
<1> SUFFICES ASSUME Inv, [Next]_vars PROVE Inv'
  OBVIOUS
<1>1. CASE Unblock
  BY <1>1, UnblockInv
<1>2. CASE Move
  BY <1>2, MoveInv
<1>3. CASE Tick
  BY <1>3, TickInv
<1>4. ASSUME NEW w \in Worker, Arrive(w) \/ Block(w)
      PROVE  Inv'
  BY <1>4, ArriveInv, BlockInv
<1>5. ASSUME NEW w \in Worker, Step(w)
      PROVE  Inv'
  <2>1. CASE Gate(w) \/ Expire(w) \/ Drop(w) \/ StatusGate(w)
    BY <2>1, GateInv, ExpireInv, DropInv, StatusGateInv
  <2>2. CASE ViewPage(w) \/ ViewLogin(w) \/ ViewVerify(w) \/ ViewLeave(w)
    BY <2>2, ViewPageInv, ViewLoginInv, ViewVerifyInv, ViewLeaveInv
  <2>3. CASE End(w) \/ DeleteRow(w) \/ Enter(w) \/ Issue(w) \/ Save(w)
    BY <2>3, EndInv, EnterInv, IssueInv, SaveInv
  <2>4. CASE WriteBlock(w) \/ List(w) \/ Mark(w) \/ Purge(w)
    BY <2>4, WriteBlockInv, ListInv, MarkInv
  <2>5. QED
    BY <1>5, <2>1, <2>2, <2>3, <2>4 DEF Step
<1>6. CASE UNCHANGED vars
  <2>1. World
    BY <1>6, StandsStill, Worldly DEF vars, history
  <2>2. QED
    BY <1>6, <2>1, Outside DEF vars
<1>7. QED
  BY <1>1, <1>2, <1>3, <1>4, <1>5, <1>6 DEF Next

LEMMA Holding == Spec => []Inv
<1>1. QED
  BY InitInv, NextInv, PTL DEF Spec

(***************************************************************************)
(* The theorems.                                                           *)
(***************************************************************************)
(* Every variable keeps its type: no key past the bound is ever drawn, and
   what a request writes back is a session row. *)
THEOREM Typing == Spec => []TypeOK
<1>1. Inv => TypeOK
  BY DEF Inv
<1>2. QED
  BY <1>1, Holding, PTL

(* Whoever is logged in, or half logged in, on the key of a browser had given
   that user's password from it, however the requests of the login and of
   other browsers interleave (views.py, lines 137 to 150 and 167 to 189). *)
THEOREM Passwords == Spec => []PasswordGiven
<1>1. Inv => PasswordGiven
  BY DEF Inv
<1>2. QED
  BY <1>1, Holding, PTL

(* A logged-in session has a record that can expire and be revoked, unless
   the login took over another user's session (session_manager.py, lines 20
   to 29). *)
THEOREM Tracking == Spec => []UntrackedOnlyAfterSwitch
<1>1. Inv => UntrackedOnlyAfterSwitch
  BY DEF Inv
<1>2. QED
  BY <1>1, Holding, PTL

\* Only a save, and a login with a key just drawn, write a row.
LEMMA NoRevival ==
  ASSUME TypeOK, [Next]_vars, NEW k \in Key, k <= drawn, row[k] = NoRow
  PROVE  row'[k] = NoRow
<1>1. CASE row' = row
  BY <1>1
<1>2. ASSUME NEW ks, Delete(ks)
      PROVE  row'[k] = NoRow
  BY <1>2 DEF Delete
<1>3. drawn \in Nat /\ k \in Nat
  BY DEF TypeOK, Key
<1>4. ASSUME NEW w \in Worker, Enter(w)
      PROVE  row'[k] = NoRow
  <2>1. CASE /\ Draw
             /\ row' = [j \in Key |->
                  IF j = drawn' THEN [user |-> Anon, pend |-> req[w].pend]
                  ELSE IF j = req[w].key THEN NoRow ELSE row[j]]
    BY <1>3, <2>1 DEF Draw
  <2>2. QED
    BY <1>1, <1>2, <1>4, <2>1 DEF Enter
<1>5. ASSUME NEW w \in Worker, Save(w)
      PROVE  row'[k] = NoRow
  <2>1. PICK j : /\ row' = row \/ row' = [row EXCEPT ![j] = row'[j]]
                 /\ j = drawn + 1 \/ row[j] # NoRow \/ row' = row
    <3>1. CASE /\ Draw
               /\ row' = [row EXCEPT ![drawn'] = [user |-> req[w].user,
                                                  pend |-> req[w].pend]]
      BY <3>1 DEF Draw, TypeOK
    <3>2. CASE /\ row[req[w].key] # NoRow
               /\ row' = [row EXCEPT ![req[w].key] = [user |-> req[w].user,
                                                      pend |-> req[w].pend]]
      BY <3>2 DEF TypeOK
    <3>3. QED
      BY <1>5, <3>1, <3>2 DEF Save
  <2>2. j # k \/ row' = row
    BY <1>3, <2>1
  <2>3. QED
    BY <2>1, <2>2 DEF TypeOK
<1>6. ASSUME NEW w \in Worker, Step(w)
      PROVE  row'[k] = NoRow
  BY <1>1, <1>2, <1>4, <1>5, <1>6
     DEF Step, Gate, Expire, Drop, StatusGate, ViewPage, ViewLogin, ViewVerify,
         ViewLeave, End, DeleteRow, Issue, WriteBlock, List, Mark, Purge
<1>7. QED
  BY <1>1, <1>6 DEF Next, Unblock, Move, Tick, Arrive, Block, vars

(* A session that was ended, by logout, expiry, a block or "log out
   everywhere", never comes back: no request that still holds a copy of it can
   write its row again (session_manager.py, lines 71 to 82). *)
THEOREM Ending == Spec => EndedStaysEnded
<1>1. TypeOK /\ [Next]_vars =>
        [\A k \in Key : k <= drawn /\ row[k] = NoRow => row'[k] = NoRow]_vars
  BY NoRevival
<1>2. QED
  BY <1>1, Typing, PTL DEF Spec, EndedStaysEnded

-----------------------------------------------------------------------------
(***************************************************************************)
(* Time.  A record never outlasts the timeout, counted from when the row   *)
(* was last written: the login that wrote the record writes the row next.  *)
(***************************************************************************)
InTime(k) == \/ row[k] = NoRow
             \/ record[k] = NoRow
             \/ Rewriting(k)
             \/ record[k].left = 0
             \/ record[k].left + CookieAge <= Timeout + lasts[k]

AllInTime == \A k \in Key : InTime(k)

\* A row written now has its whole life before it.
LEMMA JustWritten ==
  ASSUME Inv, NEW k \in Key, record'[k] = record[k], lasts'[k] = CookieAge
  PROVE  InTime(k)'
<1>1. CASE record[k] = NoRow
  BY <1>1 DEF InTime
<1>2. CASE record[k] # NoRow
  <2>1. record[k].left \in 0..Timeout
    BY <1>2 DEF Inv, TypeOK, Record
  <2>2. record[k].left + CookieAge <= Timeout + CookieAge
    BY <2>1, TimeoutAssumption, CookieAgeAssumption
  <2>3. QED
    BY <2>2 DEF InTime
<1>3. QED
  BY <1>1, <1>2

\* A row left alone, or deleted, while nobody writes its record.
LEMMA LeftAlone ==
  ASSUME Inv, NEW k \in Key, InTime(k),
         row'[k] = NoRow \/ (row'[k] = row[k] /\ lasts'[k] = lasts[k]),
         \/ record'[k] = record[k]
         \/ record[k] # NoRow /\ record'[k].left = record[k].left,
         Rewriting(k) => Rewriting(k)'
  PROVE  InTime(k)'
BY DEF InTime

\* Only its save takes a request out of "save".
LEMMA StaysRewriting ==
  ASSUME Inv, NEW w \in Worker, ~At(w, "save"),
         \A v \in Worker : v # w => req'[v] = req[v], NEW k
  PROVE  Rewriting(k) => Rewriting(k)'
BY DEF Rewriting, At

LEMMA MovesOne ==
  ASSUME Inv, NEW w \in Worker, NEW r, req' = [req EXCEPT ![w] = r]
  PROVE  req'[w] = r /\ \A v \in Worker : v # w => req'[v] = req[v]
BY DEF Inv, TypeOK

LEMMA TickInTime ==
  ASSUME Inv, AllInTime, Tick
  PROVE  AllInTime'
<1> SUFFICES ASSUME NEW k \in Key PROVE InTime(k)'
  BY DEF AllInTime
<1>1. /\ row' = row /\ req' = req /\ lasts'[k] = Less(lasts[k])
      /\ lasts[k] \in 0..CookieAge
  BY DEF Tick, Inv, TypeOK
<1>2. CASE row[k] = NoRow \/ record[k] = NoRow \/ Rewriting(k)
  BY <1>1, <1>2 DEF InTime, Rewriting, At, Tick
<1>3. CASE row[k] # NoRow /\ record[k] # NoRow /\ ~Rewriting(k)
  <2>1. record[k] \in Record /\ record'[k] = [record[k] EXCEPT !.left = Less(@)]
    BY <1>3 DEF Tick, Inv, TypeOK
  <2>2. record[k].left \in 0..Timeout /\ record'[k].left = Less(record[k].left)
    BY <2>1 DEF Record
  <2>3. record[k].left = 0 \/ record[k].left + CookieAge <= Timeout + lasts[k]
    BY <1>3 DEF AllInTime, InTime
  <2>4. \/ record'[k].left = 0
        \/ record'[k].left + CookieAge <= Timeout + lasts'[k]
    BY <1>1, <2>2, <2>3, TimeoutAssumption, CookieAgeAssumption DEF Less
  <2>5. QED
    BY <2>4 DEF InTime
<1>4. QED
  BY <1>2, <1>3

LEMMA SaveInTime ==
  ASSUME Inv, AllInTime, NEW w \in Worker, Save(w)
  PROVE  AllInTime'
<1> SUFFICES ASSUME NEW k \in Key PROVE InTime(k)'
  BY DEF AllInTime
<1>1. /\ req[w] # NoRequest /\ record' = record
      /\ \A v \in Worker : v # w => req'[v] = req[v]
  BY DEF Save, At, Done, Inv, TypeOK
<1>2. CASE req[w].key = k
  <2>1. k # NoKey
    BY DEF Key, NoKey
  <2>2. row'[k] = NoRow \/ lasts'[k] = CookieAge
    BY <1>2, <2>1 DEF Save, Inv, TypeOK
  <2>3. QED
    BY <1>1, <2>2, JustWritten DEF InTime
<1>3. CASE req[w].key # k
  <2>1. Rewriting(k) => Rewriting(k)'
    BY <1>1, <1>3 DEF Rewriting, At
  <2>2. \/ lasts'[k] = CookieAge
        \/ row'[k] = row[k] /\ lasts'[k] = lasts[k]
    BY <1>3 DEF Save, Inv, TypeOK
  <2>3. QED
    BY <1>1, <2>1, <2>2, JustWritten, LeftAlone DEF AllInTime
<1>4. QED
  BY <1>2, <1>3

LEMMA IssueInTime ==
  ASSUME Inv, AllInTime, NEW w \in Worker, Issue(w)
  PROVE  AllInTime'
<1> SUFFICES ASSUME NEW k \in Key PROVE InTime(k)'
  BY DEF AllInTime
<1>1. /\ req[w] # NoRequest /\ req[w] \in Request /\ req[w].pc = "issue"
      /\ row' = row /\ lasts' = lasts
      /\ req' = [req EXCEPT ![w] = [req[w] EXCEPT !.pc = "save"]]
  BY Here DEF Issue, At, Goto
<1>2. /\ \A v \in Worker : v # w => req'[v] = req[v]
      /\ req'[w] = [req[w] EXCEPT !.pc = "save"]
  BY <1>1, MovesOne
<1>3. CASE req[w].key = k
  <2>1. req'[w] \in Request /\ req'[w].pc = "save" /\ req'[w].key = k
    BY <1>1, <1>2, <1>3 DEF Request, Label
  <2>2. Rewriting(k)'
    BY <2>1, NoRequestAssumption DEF Rewriting, At
  <2>3. QED
    BY <2>2 DEF InTime
<1>4. CASE req[w].key # k
  <2>1. record'[k] = record[k]
    BY <1>4 DEF Issue, Inv, TypeOK
  <2>2. Rewriting(k) => Rewriting(k)'
    BY <1>1, <1>2, StaysRewriting DEF At
  <2>3. QED
    BY <1>1, <2>1, <2>2, LeftAlone DEF AllInTime
<1>5. QED
  BY <1>3, <1>4

LEMMA EnterInTime ==
  ASSUME Inv, AllInTime, NEW w \in Worker, Enter(w)
  PROVE  AllInTime'
<1> SUFFICES ASSUME NEW k \in Key PROVE InTime(k)'
  BY DEF AllInTime
<1>1. /\ req[w] # NoRequest /\ req[w].pc = "enter" /\ record' = record
      /\ \A v \in Worker : v # w => req'[v] = req[v]
  BY DEF Enter, At, Goto, Inv, TypeOK
<1>2. Rewriting(k) => Rewriting(k)'
  BY <1>1, StaysRewriting DEF At
<1>3. \/ lasts'[k] = CookieAge
      \/ row'[k] = NoRow
      \/ row'[k] = row[k] /\ lasts'[k] = lasts[k]
  BY DEF Enter, Delete, Inv, TypeOK
<1>4. QED
  BY <1>1, <1>2, <1>3, JustWritten, LeftAlone DEF AllInTime

\* The other steps leave rows as they are or delete them, and leave records
\* with the time they have.
LEMMA OtherInTime ==
  ASSUME Inv, AllInTime, NEW w \in Worker,
         \/ Arrive(w) \/ Block(w) \/ Gate(w) \/ Expire(w) \/ Drop(w)
         \/ StatusGate(w) \/ ViewPage(w) \/ ViewLogin(w) \/ ViewVerify(w)
         \/ ViewLeave(w) \/ End(w) \/ DeleteRow(w)
         \/ WriteBlock(w) \/ List(w) \/ Mark(w) \/ Purge(w)
  PROVE  AllInTime'
<1> SUFFICES ASSUME NEW k \in Key PROVE InTime(k)'
  BY DEF AllInTime
<1>1. /\ ~At(w, "save")
      /\ \E r : req' = [req EXCEPT ![w] = r]
  BY DEF Arrive, Block, Gate, Expire, Drop, StatusGate, ViewPage, ViewLogin,
         ViewVerify, ViewLeave, End, DeleteRow, WriteBlock, List, Mark, Purge,
         At, Goto, Done
<1>2. Rewriting(k) => Rewriting(k)'
  BY <1>1, MovesOne, StaysRewriting
<1>3. (row' = row /\ lasts' = lasts) \/ \E ks : Delete(ks)
  BY DEF Arrive, Block, Gate, Expire, Drop, StatusGate, ViewPage, ViewLogin,
         ViewVerify, ViewLeave, End, DeleteRow, WriteBlock, List, Mark, Purge
<1>4. row'[k] = NoRow \/ (row'[k] = row[k] /\ lasts'[k] = lasts[k])
  BY <1>3 DEF Delete
<1>5. record' = record \/ \E ks : Revoke(ks)
  BY DEF Arrive, Block, Gate, Expire, Drop, StatusGate, ViewPage, ViewLogin,
         ViewVerify, ViewLeave, End, DeleteRow, WriteBlock, List, Mark, Purge
<1>6. \/ record'[k] = record[k]
      \/ record[k] # NoRow /\ record'[k].left = record[k].left
  <2>1. CASE \E ks : Revoke(ks)
    <3>1. \/ record'[k] = record[k]
          \/ record[k] # NoRow /\ record'[k] = [record[k] EXCEPT !.revoked = TRUE]
      BY <2>1 DEF Revoke
    <3>2. record[k] # NoRow => record[k] \in Record
      BY DEF Inv, TypeOK
    <3>3. QED
      BY <3>1, <3>2 DEF Record
  <2>2. QED
    BY <1>5, <2>1
<1>7. QED
  BY <1>2, <1>4, <1>6, LeftAlone DEF AllInTime

LEMMA NextInTime == Inv /\ AllInTime /\ [Next]_vars => AllInTime'
<1> SUFFICES ASSUME Inv, AllInTime, [Next]_vars PROVE AllInTime'
  OBVIOUS
<1>1. CASE UNCHANGED vars
  BY <1>1 DEF vars, AllInTime, InTime, Rewriting, At
<1>2. CASE Unblock \/ Move
  BY <1>2 DEF Unblock, Move, AllInTime, InTime, Rewriting, At
<1>3. CASE Tick
  BY <1>3, TickInTime
<1>4. CASE \E w \in Worker : Arrive(w) \/ Block(w) \/ Step(w)
  BY <1>4, SaveInTime, IssueInTime, EnterInTime, OtherInTime DEF Step
<1>5. QED
  BY <1>1, <1>2, <1>3, <1>4 DEF Next

LEMMA TimeHolding == Spec => [](Inv /\ AllInTime)
<1>1. Init => AllInTime
  BY DEF Init, AllInTime, InTime
<1>2. QED
  BY <1>1, Holding, NextInTime, PTL DEF Spec

\* An overdue session that is tracked has a record that has run out.
LEMMA RunOut ==
  ASSUME Inv, AllInTime, NEW w \in Worker, At(w, "gate"), req[w].user # Anon,
         Overdue(req[w].key), Verdict(w) # "dead"
  PROVE  req[w].key \in switched /\ ~Tracked(req[w].user, req[w].key)
<1> DEFINE k == req[w].key
<1>1. /\ req[w] # NoRequest /\ req[w].pc = "gate" /\ req[w] \in Request
      /\ Labelled(req[w])
  BY Here DEF At
<1>2. k \in Key /\ k # NoKey
  BY <1>1 DEF Labelled, Request
<1>3. Known(req[w].user, k)
  BY <1>1, <1>2 DEF Inv, Traced
<1>4. ~Tracked(req[w].user, k)
  <2>1. SUFFICES ASSUME Tracked(req[w].user, k) PROVE FALSE
    OBVIOUS
  <2>2. record[k] # NoRow /\ record[k] \in Record
    BY <1>2, <2>1 DEF Tracked, Inv, TypeOK
  <2>3. record[k].left \in 0..Timeout /\ record[k].left # 0
    BY <2>1, <2>2 DEF Verdict, Record
  <2>4. /\ row[k] # NoRow /\ ~Rewriting(k) /\ CookieAge - lasts[k] >= Timeout
        /\ lasts[k] \in 0..CookieAge
    BY <1>2 DEF Overdue, Inv, TypeOK
  <2>5. record[k].left + CookieAge <= Timeout + lasts[k]
    BY <1>2, <2>2, <2>3, <2>4 DEF AllInTime, InTime
  <2>6. QED
    BY <2>3, <2>4, <2>5, TimeoutAssumption, CookieAgeAssumption
<1>5. QED
  BY <1>3, <1>4 DEF Known

LEMMA GateTakes ==
  ASSUME Inv, NEW w \in Worker, [Next]_vars, At(w, "gate"), req'[w] # req[w],
         req[w].user # Anon
  PROVE  /\ req'[w] = NoRequest => Verdict(w) = "mismatch"
         /\ req'[w] # NoRequest /\ req'[w].pc = "status" => Verdict(w) = "ok"
<1>1. req[w] # NoRequest /\ req[w].pc = "gate" /\ req[w] \in Request
  BY Here DEF At
<1>2. Gate(w)
  <2>1. PICK v \in Worker : Arrive(v) \/ Block(v) \/ Step(v)
    BY DEF Next, vars, Unblock, Move, Tick
  <2>2. \E r : req' = [req EXCEPT ![v] = r]
    BY <2>1 DEF Arrive, Block, Step, Gate, Expire, Drop, StatusGate, ViewPage,
                ViewLogin, ViewVerify, ViewLeave, End, DeleteRow, Enter, Issue,
                Save, WriteBlock, List, Mark, Purge, Goto, Done
  <2>3. v = w
    BY <2>2, MovesOne
  <2>4. QED
    BY <1>1, <2>1, <2>3
       DEF Arrive, Block, Step, Expire, Drop, StatusGate, ViewPage, ViewLogin,
           ViewVerify, ViewLeave, End, DeleteRow, Enter, Issue, Save,
           WriteBlock, List, Mark, Purge, At
<1>3. CASE Verdict(w) = "ok" /\ Goto(w, "status")
  <2>1. req'[w] = [req[w] EXCEPT !.pc = "status"]
    BY <1>3, MovesOne DEF Goto
  <2>2. req'[w] # NoRequest
    BY <1>1, <2>1, NoRequestAssumption DEF Request, Label
  <2>3. QED
    BY <1>3, <2>2
<1>4. CASE Goto(w, "expire")
  <2>1. req'[w] = [req[w] EXCEPT !.pc = "expire"]
    BY <1>4, MovesOne DEF Goto
  <2>2. req'[w] # NoRequest /\ req'[w].pc = "expire"
    BY <1>1, <2>1, NoRequestAssumption DEF Request, Label
  <2>3. QED
    BY <2>2
<1>5. CASE Verdict(w) = "mismatch" /\ Done(w)
  <2>1. req'[w] = NoRequest
    BY <1>5, MovesOne DEF Done
  <2>2. QED
    BY <1>5, <2>1
<1>6. QED
  BY <1>2, <1>3, <1>4, <1>5 DEF Gate

(* No request passes on a session on which nobody has logged in for the
   timeout, but for those of a login over another user's session
   (session_manager.py, check_session and issue_session). *)
THEOREM Expiring == Spec => TrackedSessionsExpire
<1>1. Inv /\ AllInTime /\ [Next]_vars
        => [\A w \in Worker : Admitted(w) /\ Overdue(req[w].key)
                                 => req[w].key \in switched]_vars
  <2>1. SUFFICES ASSUME Inv, AllInTime, [Next]_vars, NEW w \in Worker,
                        Admitted(w), Overdue(req[w].key)
                 PROVE  req[w].key \in switched
    OBVIOUS
  <2>2. At(w, "gate") /\ req[w].user # Anon /\ Verdict(w) = "ok"
    BY <2>1, GateTakes DEF Admitted, At
  <2>3. QED
    BY <2>1, <2>2, RunOut
<1>2. QED
  BY <1>1, TimeHolding, PTL DEF Spec, TrackedSessionsExpire

(* The 403 of a browser on another network ends with the timeout
   (session_manager.py, the order of the tests in check_session). *)
THEOREM Mismatching == Spec => MismatchEnds
<1>1. Inv /\ AllInTime /\ [Next]_vars
        => [\A w \in Worker : Refused(w) => ~Overdue(req[w].key)]_vars
  <2>1. SUFFICES ASSUME Inv, AllInTime, [Next]_vars, NEW w \in Worker,
                        Refused(w), Overdue(req[w].key)
                 PROVE  FALSE
    OBVIOUS
  <2>2. At(w, "gate") /\ req[w].user # Anon /\ Verdict(w) = "mismatch"
    BY <2>1, GateTakes DEF Refused, At
  <2>3. ~Tracked(req[w].user, req[w].key)
    BY <2>1, <2>2, RunOut
  <2>4. QED
    BY <2>2, <2>3 DEF Verdict
<1>2. QED
  BY <1>1, TimeHolding, PTL DEF Spec, MismatchEnds

(***************************************************************************)
(* The sessions implement Logins.                                          *)
(***************************************************************************)
\* w is about to write the row of the key it holds.
Storing(w) == /\ req[w] # NoRequest
              /\ req[w].pc \in {"issue", "save"}
              /\ req[w].key # NoKey
              /\ row[req[w].key] # NoRow

\* Nobody but w has seen the key.
Sole(w, k) == /\ \A b \in Browser : cookie[b] # k
              /\ \A v \in Worker : v # w /\ req[v] # NoRequest => req[v].key # k

\* A request's copy has the user of the row, or is about to log it in.
Settled(w) ==
  LET r == req[w] IN
  r # NoRequest /\ r.key # NoKey /\ row[r.key] # NoRow =>
    \/ row[r.key].user = r.user
    \/ /\ row[r.key].user = Anon
       /\ Storing(w)
       /\ Sole(w, r.key)

AllSettled == \A w \in Worker : Settled(w)

\* Only w's request changes: it keeps its session, or drops it.
Carries(w) ==
  /\ \A v \in Worker : v # w => req'[v] = req[v]
  /\ req'[w] # NoRequest /\ req'[w].key # NoKey =>
       /\ req[w] # NoRequest
       /\ req'[w].browser = req[w].browser
       /\ req'[w].key = req[w].key
       /\ req'[w].user = req[w].user
       /\ req[w].pc \in {"issue", "save"} => req'[w].pc \in {"issue", "save"}
  /\ Storing(w) => req'[w] # NoRequest /\ req'[w].key = req[w].key

Quiet(w) == Shrinks /\ Clears /\ drawn' = drawn /\ Carries(w)

LEMMA QuietSettled ==
  ASSUME Inv, Inv', AllSettled, NEW w \in Worker, Quiet(w)
  PROVE  AllSettled'
<1> SUFFICES ASSUME NEW v \in Worker, (req[v] # NoRequest)',
                    (req[v].key # NoKey)', (row[req[v].key] # NoRow)'
             PROVE  \/ (row[req[v].key].user = req[v].user)'
                    \/ /\ (row[req[v].key].user = Anon)'
                       /\ Storing(v)'
                       /\ Sole(v, req[v].key)'
  BY DEF AllSettled, Settled
<1> DEFINE k == req'[v].key
<1>1. /\ req[v] # NoRequest /\ req[v].key = k /\ req'[v].user = req[v].user
      /\ req[v].pc \in {"issue", "save"} => req'[v].pc \in {"issue", "save"}
  BY DEF Quiet, Carries
<1>2. k \in Key
  BY <1>1 DEF Inv, TypeOK, Request
<1>3. row'[k] = row[k] /\ row[k] # NoRow
  BY <1>2 DEF Quiet, Shrinks
<1>4. CASE row[k].user = req[v].user
  BY <1>1, <1>3, <1>4
<1>5. CASE row[k].user = Anon /\ Storing(v) /\ Sole(v, k)
  <2>1. Storing(v)'
    BY <1>1, <1>3, <1>5 DEF Storing
  <2>2. \A b \in Browser : cookie'[b] # k
    BY <1>2, <1>5 DEF Quiet, Clears, Sole, Key, NoKey
  <2>3. ASSUME NEW u \in Worker, u # v, req'[u] # NoRequest
        PROVE  req'[u].key # k
    BY <1>2, <1>5, <2>3 DEF Quiet, Carries, Sole, Key, NoKey
  <2>4. QED
    BY <1>3, <1>5, <2>1, <2>2, <2>3 DEF Sole
<1>6. QED
  BY <1>1, <1>3, <1>4, <1>5 DEF AllSettled, Settled

\* What a quiet step does to sessions: it ends some.
Ended == {k \in Key : row[k] # NoRow /\ row'[k] = NoRow}

LEMMA UnsavedBy ==
  ASSUME Inv, AllSettled, NEW k \in Key
  PROVE  Unsaved(k) <=> \E v \in Worker :
                          /\ req[v] # NoRequest /\ req[v].key = k
                          /\ req[v].user # Anon /\ row[k] # NoRow
                          /\ row[k].user = Anon
                          /\ Storing(v) /\ Sole(v, k)
<1>1. k # NoKey
  BY DEF Key, NoKey
<1>2. ASSUME NEW v \in Worker, req[v] # NoRequest, req[v].key = k,
             req[v].user # Anon, row[k] # NoRow, row[k].user = Anon
      PROVE  Storing(v) /\ Sole(v, k)
  BY <1>1, <1>2 DEF AllSettled, Settled
<1>3. QED
  BY <1>2 DEF Unsaved

LEMMA QuietLife ==
  ASSUME Inv, Inv', AllSettled, NEW w \in Worker, Quiet(w), NEW k \in Key
  PROVE  /\ LifeOf(k)' = IF k \in Ended THEN "over" ELSE LifeOf(k)
         /\ WhoOf(k)' = IF k \in Ended THEN Anon ELSE WhoOf(k)
<1>1. /\ drawn' = drawn /\ row'[k] \in {row[k], NoRow}
      /\ k > drawn => row[k] = NoRow
      /\ drawn \in Nat /\ k \in Nat /\ k # NoKey
  BY DEF Quiet, Shrinks, Inv, Ordered, TypeOK, Key, NoKey
<1>2. CASE k \in Ended
  <2>1. row[k] # NoRow /\ row'[k] = NoRow
    BY <1>2 DEF Ended
  <2>2. ~Unsaved(k)' /\ ~(k > drawn')
    BY <1>1, <2>1 DEF Unsaved
  <2>3. LifeOf(k)' = "over"
    BY <2>1, <2>2 DEF LifeOf
  <2>4. QED
    BY <1>2, <2>3 DEF WhoOf
<1>3. CASE k \notin Ended
  <2>1. row'[k] = row[k]
    BY <1>1, <1>3 DEF Ended
  <2>2. Unsaved(k)' => Unsaved(k)
    BY <1>1, <2>1 DEF Unsaved, Quiet, Carries
  <2>3. Unsaved(k) => Unsaved(k)'
    <3>1. SUFFICES ASSUME Unsaved(k) PROVE Unsaved(k)'
      OBVIOUS
    <3>2. PICK v \in Worker : /\ req[v] # NoRequest /\ req[v].key = k
                              /\ req[v].user # Anon /\ row[k] # NoRow
                              /\ row[k].user = Anon /\ Storing(v)
      BY <3>1, UnsavedBy
    <3>3. req'[v] # NoRequest /\ req'[v].key = k /\ req'[v].user # Anon
      BY <1>1, <3>2 DEF Quiet, Carries
    <3>4. QED
      BY <2>1, <3>2, <3>3 DEF Unsaved
  <2>4. LifeOf(k)' = LifeOf(k)
    BY <1>1, <2>1, <2>2, <2>3 DEF LifeOf
  <2>5. QED
    BY <1>3, <2>1, <2>4 DEF WhoOf
<1>4. QED
  BY <1>2, <1>3

\* The browsers that can present a live session.
Live == {h \in Browser \X Key : LifeOf(h[2]) = "live" /\ Holds(h[1], h[2])}

LEMMA QuietHold ==
  ASSUME Inv, Inv', AllSettled, NEW w \in Worker, Quiet(w)
  PROVE  Live' \subseteq {h \in Live : h[2] \notin Ended}
<1> SUFFICES ASSUME NEW b \in Browser, NEW k \in Key, LifeOf(k)' = "live",
                    Holds(b, k)'
             PROVE  LifeOf(k) = "live" /\ Holds(b, k) /\ k \notin Ended
  BY DEF Live
<1>1. LifeOf(k) = "live" /\ k \notin Ended
  BY QuietLife
<1>2. k # NoKey
  BY DEF Key, NoKey
<1>3. CASE cookie'[b] = k
  <2>1. cookie'[b] \in {cookie[b], NoKey}
    BY DEF Quiet, Clears
  <2>2. cookie[b] = k
    BY <1>2, <1>3, <2>1
  <2>3. QED
    BY <1>1, <2>2 DEF Holds
<1>4. ASSUME NEW v \in Worker, req'[v] # NoRequest, req'[v].browser = b,
             req'[v].key = k
      PROVE  Holds(b, k)
  BY <1>2, <1>4 DEF Quiet, Carries, Holds
<1>5. QED
  BY <1>1, <1>3, <1>4 DEF Holds

LEMMA QuietPromise ==
  ASSUME Inv, Inv', AllSettled, NEW w \in Worker, Quiet(w)
  PROVE  /\ password' = password => Promise!Next
         /\ \A b \in Browser, u \in User :
              row' = row /\ password' = password \cup {<<b, u>>} => Promise!Next
<1>1. Live' \subseteq {h \in Live : h[2] \notin Ended}
  BY QuietHold
<1>2. /\ [k \in Key |-> LifeOf(k)'] =
           [k \in Key |-> IF k \in Ended THEN "over" ELSE [j \in Key |-> LifeOf(j)][k]]
      /\ [k \in Key |-> WhoOf(k)'] =
           [k \in Key |-> IF k \in Ended THEN Anon ELSE [j \in Key |-> WhoOf(j)][k]]
  BY QuietLife
<1>3. Ended \in SUBSET Key
  BY DEF Ended
<1>4. password' = password => Promise!End(Ended)
  BY <1>1, <1>2 DEF Promise!End, Live
<1>5. ASSUME NEW b \in Browser, NEW u \in User, row' = row,
             password' = password \cup {<<b, u>>}
      PROVE  Promise!Give(b, u)
  <2>1. Ended = {}
    BY <1>5 DEF Ended
  <2>2. /\ [k \in Key |-> LifeOf(k)'] = [k \in Key |-> LifeOf(k)]
        /\ [k \in Key |-> WhoOf(k)'] = [k \in Key |-> WhoOf(k)]
    BY <1>2, <2>1
  <2>3. QED
    BY <1>1, <1>5, <2>2 DEF Promise!Give, Live
<1>6. QED
  BY <1>3, <1>4, <1>5 DEF Promise!Next

\* The requests of quiet steps.
LEMMA Keeping ==
  ASSUME Inv, NEW w \in Worker, req[w] # NoRequest,
         NEW r \in Request, Moves(w, r),
         \/ r.key = NoKey
         \/ /\ r.key = req[w].key /\ r.browser = req[w].browser
            /\ r.user = req[w].user
            /\ req[w].pc \in {"issue", "save"} => r.pc \in {"issue", "save"},
         Storing(w) => r.key = req[w].key
  PROVE  Carries(w)
<1>1. /\ req'[w] = r /\ r # NoRequest
      /\ \A v \in Worker : v # w => req'[v] = req[v]
  BY NoRequestAssumption DEF Moves, Inv, TypeOK
<1>2. QED
  BY <1>1 DEF Carries

LEMMA GoingOn ==
  ASSUME Inv, NEW w \in Worker, req[w] # NoRequest, NEW l \in Label, Goto(w, l),
         req[w].pc \in {"issue", "save"} => l \in {"issue", "save"}
  PROVE  Carries(w)
BY Going, Keeping

LEMMA Leaving ==
  ASSUME Inv, NEW w \in Worker, Done(w), ~Storing(w)
  PROVE  Carries(w)
BY DEF Inv, TypeOK, Done, Carries

\* Every step of a request but its arrival, the drawing of a key and a save.
LEMMA QuietStep ==
  ASSUME Inv, NEW w \in Worker,
         \/ Block(w) \/ Gate(w) \/ Expire(w) \/ Drop(w) \/ StatusGate(w)
         \/ ViewPage(w) \/ ViewLogin(w) \/ ViewVerify(w) \/ ViewLeave(w)
         \/ End(w) \/ DeleteRow(w) \/ Issue(w)
         \/ WriteBlock(w) \/ List(w) \/ Mark(w) \/ Purge(w)
  PROVE  Quiet(w)
<1> USE DEF Quiet
<1>1. ASSUME (row' = row /\ lasts' = lasts) \/ \E ks : Delete(ks),
             cookie' = cookie \/ Respond(w)
               \/ \E b : cookie' = [cookie EXCEPT ![b] = NoKey],
             drawn' = drawn, Carries(w)
      PROVE  Quiet(w)
  BY <1>1, StandsStill, Deleting, Clearing, Responding
<1>2. ASSUME NEW l, At(w, l)
      PROVE  /\ req[w] # NoRequest /\ req[w].pc = l /\ req[w] \in Request
             /\ l \notin {"issue", "save"} => ~Storing(w)
  BY <1>2, Here DEF At, Storing
<1>3. CASE Block(w)
  <2>1. PICK u \in User : Moves(w,
          [pc |-> "write", kind |-> "block", browser |-> Anon, sent |-> FALSE,
           key |-> NoKey, user |-> Anon, pend |-> Anon, target |-> u, keys |-> {}])
    BY <1>3 DEF Block, Moves
  <2>2. /\ req[w] = NoRequest /\ req'[w].key = NoKey
        /\ \A v \in Worker : v # w => req'[v] = req[v]
    BY <1>3, <2>1 DEF Block, Moves, Inv, TypeOK
  <2>3. Carries(w)
    BY <2>2 DEF Carries, Storing
  <2>4. QED
    BY <1>1, <1>3, <2>3 DEF Block
<1>4. CASE Gate(w)
  <2>1. Done(w) \/ \E l \in {"view", "status", "expire"} : Goto(w, l)
    BY <1>4 DEF Gate
  <2>2. Carries(w)
    BY <1>2, <1>4, <2>1, Leaving, GoingOn DEF Gate, Label
  <2>3. QED
    BY <1>1, <1>4, <2>2 DEF Gate
<1>5. CASE Expire(w)
  <2>1. Carries(w)
    BY <1>2, <1>5, GoingOn DEF Expire, Label
  <2>2. QED
    BY <1>1, <1>5, <2>1 DEF Expire
<1>6. CASE Drop(w)
  <2> DEFINE r == [req[w] EXCEPT !.pc = "view", !.key = NoKey,
                                 !.user = Anon, !.pend = Anon]
  <2>1. At(w, "drop") /\ Moves(w, r)
    BY <1>6 DEF Drop, Moves
  <2>2. r \in Request /\ r.key = NoKey
    BY <1>2, <2>1 DEF Request, Label, Someone
  <2>3. ~Storing(w) /\ req[w] # NoRequest
    BY <1>2, <2>1
  <2> HIDE DEF r
  <2>4. Carries(w)
    BY <2>1, <2>2, <2>3, Keeping
  <2>5. QED
    BY <1>1, <1>6, <2>4 DEF Drop
<1>7. CASE StatusGate(w)
  <2>1. Done(w) \/ Goto(w, "view")
    BY <1>7 DEF StatusGate
  <2>2. Carries(w)
    BY <1>2, <1>7, <2>1, Leaving, GoingOn DEF StatusGate, Label
  <2>3. QED
    BY <1>1, <1>7, <2>2 DEF StatusGate
<1>8. CASE ViewPage(w)
  <2>1. Carries(w)
    BY <1>2, <1>8, Leaving DEF ViewPage
  <2>2. QED
    BY <1>1, <1>8, <2>1 DEF ViewPage
<1>9. CASE ViewLogin(w)
  <2>1. At(w, "view")
    BY <1>9 DEF ViewLogin
  <2>2. ASSUME req' = [req EXCEPT ![w] = [req[w] EXCEPT !.pc = "save",
                                                        !.pend = req[w].target]]
        PROVE  Carries(w)
    <3> DEFINE r == [req[w] EXCEPT !.pc = "save", !.pend = req[w].target]
    <3>1. /\ r \in Request /\ r.key = req[w].key /\ r.browser = req[w].browser
          /\ r.user = req[w].user /\ r.pc = "save"
      BY <1>2, <2>1 DEF Request, Label
    <3>2. Moves(w, r)
      BY <2>2 DEF Moves
    <3> HIDE DEF r
    <3>3. QED
      BY <1>2, <2>1, <3>1, <3>2, Keeping
  <2>3. Carries(w)
    BY <1>2, <1>9, <2>1, <2>2, Leaving, GoingOn DEF ViewLogin, Label
  <2>4. QED
    BY <1>1, <1>9, <2>3 DEF ViewLogin
<1>10. CASE ViewVerify(w)
  <2>1. At(w, "view")
    BY <1>10 DEF ViewVerify
  <2>2. ASSUME req' = [req EXCEPT ![w] = [req[w] EXCEPT !.pc = "save", !.pend = Anon]]
        PROVE  Carries(w)
    <3> DEFINE r == [req[w] EXCEPT !.pc = "save", !.pend = Anon]
    <3>1. /\ r \in Request /\ r.key = req[w].key /\ r.browser = req[w].browser
          /\ r.user = req[w].user /\ r.pc = "save"
      BY <1>2, <2>1 DEF Request, Label, Someone
    <3>2. Moves(w, r)
      BY <2>2 DEF Moves
    <3> HIDE DEF r
    <3>3. QED
      BY <1>2, <2>1, <3>1, <3>2, Keeping
  <2>3. ASSUME req' = [req EXCEPT ![w] = [req[w] EXCEPT !.pc = "enter",
                                            !.target = req[w].pend, !.pend = Anon]]
        PROVE  Carries(w)
    <3> DEFINE r == [req[w] EXCEPT !.pc = "enter", !.target = req[w].pend,
                                   !.pend = Anon]
    <3>1. /\ r \in Request /\ r.key = req[w].key /\ r.browser = req[w].browser
          /\ r.user = req[w].user
      BY <1>2, <2>1 DEF Request, Label, Someone
    <3>2. Moves(w, r)
      BY <2>3 DEF Moves
    <3> HIDE DEF r
    <3>3. QED
      BY <1>2, <2>1, <3>1, <3>2, Keeping
  <2>4. Carries(w)
    BY <1>2, <1>10, <2>1, <2>2, <2>3, Leaving DEF ViewVerify
  <2>5. QED
    BY <1>1, <1>10, <2>4 DEF ViewVerify
<1>11. CASE ViewLeave(w)
  <2>1. At(w, "view")
    BY <1>11 DEF ViewLeave
  <2>2. ASSUME NEW l \in {"list", "end", "delete"},
               req' = [req EXCEPT ![w] =
                 [req[w] EXCEPT !.pc = l, !.target = req[w].user]]
        PROVE  Carries(w)
    <3> DEFINE r == [req[w] EXCEPT !.pc = l, !.target = req[w].user]
    <3>1. /\ r \in Request /\ r.key = req[w].key /\ r.browser = req[w].browser
          /\ r.user = req[w].user
      BY <1>2, <2>1 DEF Request, Label
    <3>2. Moves(w, r)
      BY <2>2 DEF Moves
    <3> HIDE DEF r
    <3>3. QED
      BY <1>2, <2>1, <3>1, <3>2, Keeping
  <2>3. \/ Done(w)
        \/ \E l \in {"list", "end", "delete"} :
             req' = [req EXCEPT ![w] =
               [req[w] EXCEPT !.pc = l, !.target = req[w].user]]
    BY <1>11 DEF ViewLeave
  <2>4. Carries(w)
    BY <1>2, <2>1, <2>2, <2>3, Leaving
  <2>5. QED
    BY <1>1, <1>11, <2>4 DEF ViewLeave
<1>12. CASE End(w)
  <2>1. Carries(w)
    BY <1>2, <1>12, GoingOn DEF End, Label
  <2>2. QED
    BY <1>1, <1>12, <2>1 DEF End
<1>13. CASE DeleteRow(w)
  <2>1. Carries(w)
    BY <1>2, <1>13, Leaving DEF DeleteRow
  <2>2. QED
    BY <1>1, <1>13, <2>1 DEF DeleteRow
<1>14. CASE Issue(w)
  <2>1. Carries(w)
    BY <1>2, <1>14, GoingOn DEF Issue, Label
  <2>2. QED
    BY <1>1, <1>14, <2>1 DEF Issue
<1>15. CASE WriteBlock(w)
  <2>1. Carries(w)
    BY <1>2, <1>15, GoingOn DEF WriteBlock, Label
  <2>2. QED
    BY <1>1, <1>15, <2>1 DEF WriteBlock
<1>16. CASE List(w)
  <2> DEFINE ks == {k \in Key : Tracked(req[w].target, k) /\ ~record[k].revoked}
             r == [req[w] EXCEPT !.pc = "mark", !.keys = ks]
  <2>1. At(w, "list") /\ (Done(w) \/ Moves(w, r))
    BY <1>16 DEF List, Moves
  <2>2. /\ r \in Request /\ r.key = req[w].key /\ r.browser = req[w].browser
        /\ r.user = req[w].user
    <3>1. ks \subseteq Key
      OBVIOUS
    <3> HIDE DEF ks
    <3>2. QED
      BY <1>2, <2>1, <3>1 DEF Request, Label
  <2> HIDE DEF r
  <2>3. Carries(w)
    BY <1>2, <2>1, <2>2, Keeping, Leaving
  <2>4. QED
    BY <1>1, <1>16, <2>3 DEF List
<1>17. CASE Mark(w)
  <2>1. Carries(w)
    BY <1>2, <1>17, GoingOn DEF Mark, Label
  <2>2. QED
    BY <1>1, <1>17, <2>1 DEF Mark
<1>18. CASE Purge(w)
  <2>1. Carries(w)
    BY <1>2, <1>18, Leaving DEF Purge
  <2>2. QED
    BY <1>1, <1>18, <2>1 DEF Purge
<1>19. QED
  BY <1>3, <1>4, <1>5, <1>6, <1>7, <1>8, <1>9, <1>10, <1>11, <1>12, <1>13,
     <1>14, <1>15, <1>16, <1>17, <1>18

\* The life of every key but those in ks goes on, and those are over.
Lives(ks) == \A k \in Key : /\ LifeOf(k)' = IF k \in ks THEN "over" ELSE LifeOf(k)
                            /\ WhoOf(k)' = IF k \in ks THEN Anon ELSE WhoOf(k)

LEMMA Goes ==
  ASSUME NEW ks \in SUBSET Key, Lives(ks), password' = password,
         Live' \subseteq {h \in Live : h[2] \notin ks}
  PROVE  Promise!Next
<1>1. /\ [k \in Key |-> LifeOf(k)'] =
           [k \in Key |-> IF k \in ks THEN "over" ELSE [j \in Key |-> LifeOf(j)][k]]
      /\ [k \in Key |-> WhoOf(k)'] =
           [k \in Key |-> IF k \in ks THEN Anon ELSE [j \in Key |-> WhoOf(j)][k]]
  BY DEF Lives
<1>2. Promise!End(ks)
  BY <1>1 DEF Promise!End, Live
<1>3. QED
  BY <1>2 DEF Promise!Next

LEMMA Begins ==
  ASSUME NEW b \in Browser, NEW k \in Key, NEW u \in User \cup {Anon},
         Proven(password, b, u), password' = password,
         LifeOf(k) = "new", LifeOf(k)' = "live", WhoOf(k)' = u,
         \A j \in Key \ {k} : LifeOf(j)' = LifeOf(j) /\ WhoOf(j)' = WhoOf(j),
         Live' \subseteq Live \cup {<<b, k>>}
  PROVE  Promise!Next
<1>1. /\ [j \in Key |-> LifeOf(j)'] =
           [[j \in Key |-> LifeOf(j)] EXCEPT ![k] = "live"]
      /\ [j \in Key |-> WhoOf(j)'] = [[j \in Key |-> WhoOf(j)] EXCEPT ![k] = u]
  OBVIOUS
<1>2. Promise!Start(b, k, u)
  BY <1>1 DEF Promise!Start, Live, Proven
<1>3. QED
  BY <1>2 DEF Promise!Next

\* A request that comes in changes nothing.
LEMMA ArriveStep ==
  ASSUME Inv, Inv', AllSettled, NEW w \in Worker, Arrive(w)
  PROVE  AllSettled' /\ Promise!Next
<1>1. UNCHANGED <<row, drawn, cookie, password>>
  BY DEF Arrive, history
<1>2. PICK b \in Browser :
        /\ req'[w].browser = b /\ req'[w].pc = "gate"
        /\ req'[w].key # NoKey =>
             /\ req'[w].key = cookie[b] /\ row[req'[w].key] # NoRow
             /\ req'[w].user = row[req'[w].key].user
  BY DEF Arrive, Inv, TypeOK
<1>3. req[w] = NoRequest /\ \A v \in Worker : v # w => req'[v] = req[v]
  BY DEF Arrive, Inv, TypeOK
<1>4. ASSUME NEW v \in Worker
      PROVE  Settled(v)'
  <2>1. CASE v = w
    BY <1>1, <1>2, <2>1 DEF Settled
  <2>2. CASE v # w
    <3>1. req'[v] = req[v]
      BY <1>3, <2>2
    <3>2. SUFFICES ASSUME req[v] # NoRequest, req[v].key # NoKey,
                          row[req[v].key] # NoRow
                   PROVE  Settled(v)'
      BY <1>1, <3>1 DEF Settled
    <3>3. CASE row[req[v].key].user = req[v].user
      BY <1>1, <3>1, <3>3 DEF Settled
    <3>4. CASE /\ row[req[v].key].user = Anon
               /\ Storing(v)
               /\ Sole(v, req[v].key)
      <4>1. req'[w].key # req[v].key
        BY <1>2, <3>2, <3>4 DEF Sole
      <4>2. Sole(v, req[v].key)'
        BY <1>1, <1>3, <3>1, <3>4, <4>1 DEF Sole
      <4>3. Storing(v)'
        BY <1>1, <3>1, <3>4 DEF Storing
      <4>4. QED
        BY <1>1, <3>1, <3>4, <4>2, <4>3 DEF Settled
    <3>5. QED
      BY <3>2, <3>3, <3>4 DEF AllSettled, Settled
  <2>3. QED
    BY <2>1, <2>2
<1>5. ASSUME NEW k \in Key
      PROVE  LifeOf(k)' = LifeOf(k) /\ WhoOf(k)' = WhoOf(k)
  <2>1. k # NoKey
    BY DEF Key, NoKey
  <2>2. Unsaved(k)' <=> Unsaved(k)
    BY <1>1, <1>2, <1>3, <2>1 DEF Unsaved
  <2>3. LifeOf(k)' = LifeOf(k)
    BY <1>1, <2>2 DEF LifeOf
  <2>4. QED
    BY <1>1, <2>3 DEF WhoOf
<1>6. ASSUME NEW c \in Browser, NEW k \in Key, Holds(c, k)'
      PROVE  Holds(c, k)
  <2>1. k # NoKey
    BY DEF Key, NoKey
  <2>2. QED
    BY <1>1, <1>2, <1>3, <1>6, <2>1 DEF Holds
<1>7. Lives({}) /\ Live' \subseteq {h \in Live : h[2] \notin {}}
  BY <1>5, <1>6 DEF Lives, Live
<1>8. QED
  BY <1>1, <1>4, <1>7, Goes DEF AllSettled

\* A key that is drawn for a login is nobody's until it is saved.
LEMMA EnterStep ==
  ASSUME Inv, Inv', AllSettled, NEW w \in Worker, Enter(w), req[w].user = Anon
  PROVE  AllSettled' /\ Promise!Next
<1> DEFINE d == drawn + 1
           k == req[w].key
<1>1. /\ req[w] # NoRequest /\ req[w] \in Request /\ req[w].pc = "enter"
      /\ req[w].target \in User /\ req[w].pend \in Someone
      /\ k \in Key \cup {NoKey}
  BY Here DEF Enter, At, Labelled, Request
<1>2. /\ drawn' = d
      /\ row' = [j \in Key |-> IF j = d THEN [user |-> Anon, pend |-> req[w].pend]
                               ELSE IF j = k THEN NoRow ELSE row[j]]
      /\ Moves(w, [req[w] EXCEPT !.pc = "issue", !.key = d, !.user = req[w].target])
      /\ UNCHANGED <<cookie, password>>
  <2>1. req[w].user # req[w].target
    BY <1>1, AnonAssumption
  <2>2. /\ Draw /\ UNCHANGED <<cookie, password>>
        /\ row' = [j \in Key |-> IF j = drawn' THEN [user |-> Anon, pend |-> req[w].pend]
                                 ELSE IF j = k THEN NoRow ELSE row[j]]
        /\ req' = [req EXCEPT ![w] = [req[w] EXCEPT !.pc = "issue", !.key = drawn',
                                                    !.user = req[w].target]]
    BY <2>1 DEF Enter, history
  <2>3. QED
    BY <2>2 DEF Draw, Moves
<1>3. /\ req'[w] # NoRequest /\ req'[w].pc = "issue" /\ req'[w].key = d
      /\ req'[w].user = req[w].target /\ req'[w].user # Anon
      /\ \A v \in Worker : v # w => req'[v] = req[v]
  <2> DEFINE r == [req[w] EXCEPT !.pc = "issue", !.key = d, !.user = req[w].target]
  <2>1. /\ r.pc = "issue" /\ r.key = d /\ r.user = req[w].target
    BY <1>1 DEF Request
  <2>2. d \in Key
    BY <1>2 DEF Inv, TypeOK, Key
  <2>3. r \in Request
    BY <1>1, <2>2 DEF Request, Label, Someone
  <2>4. /\ req'[w] = r
        /\ \A v \in Worker : v # w => req'[v] = req[v]
    BY <1>2 DEF Moves, Inv, TypeOK
  <2>5. QED
    BY <1>1, <2>1, <2>3, <2>4, NoRequestAssumption, AnonAssumption
<1>4. /\ d \in Key /\ d # NoKey /\ d # k /\ row[d] = NoRow
      /\ \A b \in Browser : cookie[b] # d
      /\ \A v \in Worker : req[v] # NoRequest => req[v].key # d
  <2>1. d \in Key /\ drawn \in Nat /\ d # NoKey
    BY <1>2 DEF Inv, TypeOK, Key, NoKey
  <2>2. \A v \in Worker : req[v] # NoRequest =>
          req[v].key <= drawn /\ req[v].key \in Key \cup {NoKey}
    BY DEF Inv, Fits, TypeOK, Request
  <2>3. \A b \in Browser : cookie[b] <= drawn /\ cookie[b] \in Key \cup {NoKey}
    BY DEF Inv, Ordered, TypeOK
  <2>4. QED
    BY <1>1, <2>1, <2>2, <2>3 DEF Inv, Ordered, Key, NoKey
<1>5. row'[d] # NoRow /\ row'[d].user = Anon
  BY <1>1, <1>2, <1>4, NoRowAssumption DEF Row, Someone
<1>6. \A j \in Key : j # d => row'[j] = IF j = k THEN NoRow ELSE row[j]
  BY <1>2
<1> HIDE DEF d, k
<1>7. Settled(w)'
  <2>1. Storing(w)'
    BY <1>3, <1>4, <1>5 DEF Storing
  <2>2. Sole(w, req[w].key)'
    BY <1>2, <1>3, <1>4 DEF Sole
  <2>3. QED
    BY <1>3, <1>5, <2>1, <2>2 DEF Settled
<1>8. ASSUME NEW v \in Worker, v # w
      PROVE  Settled(v)'
  <2>1. req'[v] = req[v]
    BY <1>3, <1>8
  <2>2. SUFFICES ASSUME req[v] # NoRequest, req[v].key # NoKey,
                        row'[req[v].key] # NoRow
                 PROVE  Settled(v)'
    BY <2>1 DEF Settled
  <2>3. req[v].key \in Key /\ req[v].key # d
    BY <1>4, <2>2 DEF Inv, TypeOK, Request
  <2>4. row'[req[v].key] = row[req[v].key] /\ row[req[v].key] # NoRow
    BY <1>6, <2>2, <2>3
  <2>5. CASE row[req[v].key].user = req[v].user
    BY <2>1, <2>4, <2>5 DEF Settled
  <2>6. CASE /\ row[req[v].key].user = Anon
             /\ Storing(v)
             /\ Sole(v, req[v].key)
    <3>1. Sole(v, req[v].key)'
      BY <1>2, <1>3, <2>1, <2>3, <2>6 DEF Sole
    <3>2. Storing(v)'
      BY <2>1, <2>4, <2>6 DEF Storing
    <3>3. QED
      BY <2>1, <2>4, <2>6, <3>1, <3>2 DEF Settled
  <2>7. QED
    BY <2>2, <2>4, <2>5, <2>6 DEF AllSettled, Settled
<1>9. ASSUME NEW j \in Key
      PROVE  /\ LifeOf(j)' = IF j \in Ended THEN "over" ELSE LifeOf(j)
             /\ WhoOf(j)' = IF j \in Ended THEN Anon ELSE WhoOf(j)
  <2>0. /\ j # NoKey /\ j \in Nat /\ drawn \in Nat /\ d = drawn + 1
        /\ j > drawn => row[j] = NoRow
    BY DEF Key, NoKey, d, Inv, TypeOK, Ordered
  <2>1. CASE j = d
    <3>1. Unsaved(j)'
      BY <1>3, <1>5, <2>1 DEF Unsaved
    <3>2. LifeOf(j)' = "new" /\ LifeOf(j) = "new" /\ j \notin Ended
      BY <1>4, <2>0, <2>1, <3>1 DEF LifeOf, Ended
    <3>3. QED
      BY <3>2 DEF WhoOf
  <2>2. CASE j \in Ended
    <3>1. row[j] # NoRow /\ row'[j] = NoRow /\ j # d
      BY <1>4, <2>2 DEF Ended
    <3>2. LifeOf(j)' = "over"
      BY <1>2, <2>0, <3>1 DEF LifeOf, Unsaved
    <3>3. QED
      BY <2>2, <3>2 DEF WhoOf
  <2>3. CASE j # d /\ j \notin Ended
    <3>1. row'[j] = row[j]
      BY <1>6, <2>3 DEF Ended
    <3>2. Unsaved(j)' <=> Unsaved(j)
      BY <1>3, <2>3, <3>1 DEF Unsaved
    <3>3. j > drawn' <=> j > drawn
      BY <1>2, <2>0, <2>3
    <3>4. LifeOf(j)' = LifeOf(j)
      BY <3>1, <3>2, <3>3 DEF LifeOf
    <3>5. QED
      BY <2>3, <3>1, <3>4 DEF WhoOf
  <2>4. QED
    BY <2>1, <2>2, <2>3
<1>10. ASSUME NEW c \in Browser, NEW j \in Key, LifeOf(j)' = "live", Holds(c, j)'
       PROVE  LifeOf(j) = "live" /\ Holds(c, j) /\ j \notin Ended
  <2>1. LifeOf(j) = "live" /\ j \notin Ended
    BY <1>9, <1>10
  <2>2. j # d
    <3>1. SUFFICES ASSUME j = d PROVE FALSE
      OBVIOUS
    <3>2. Unsaved(j)'
      BY <1>3, <1>5, <3>1 DEF Unsaved
    <3>3. LifeOf(j)' = "new"
      BY <3>2 DEF LifeOf
    <3>4. QED
      BY <1>10, <3>3
  <2>3. Holds(c, j)
    BY <1>2, <1>3, <1>10, <2>2 DEF Holds
  <2>4. QED
    BY <2>1, <2>3
<1>11. /\ Lives(Ended) /\ Ended \in SUBSET Key
       /\ Live' \subseteq {h \in Live : h[2] \notin Ended}
  BY <1>9, <1>10 DEF Lives, Live, Ended
<1>12. QED
  BY <1>2, <1>7, <1>8, <1>11, Goes DEF AllSettled

\* A save hands out a key that was drawn for it.
LEMMA SaveNewStep ==
  ASSUME Inv, Inv', AllSettled, NEW w \in Worker, Save(w), req[w].key = NoKey
  PROVE  AllSettled' /\ Promise!Next
<1>0. PICK d \in Key : d = drawn + 1
  BY DEF Save, Draw, Inv, TypeOK, Key
<1> DEFINE b == req[w].browser
           u == req[w].user
<1>1. /\ req[w] # NoRequest /\ req[w] \in Request /\ req[w].pc = "save"
      /\ b \in Browser /\ u \in User \cup {Anon} /\ Proven(password, b, u)
      /\ [user |-> u, pend |-> req[w].pend] \in Row
  BY Here DEF Save, At, Labelled, Backed, Request, Someone, Row
<1>2. /\ drawn' = d
      /\ row' = [row EXCEPT ![d] = [user |-> u, pend |-> req[w].pend]]
      /\ cookie' = [cookie EXCEPT ![b] = d]
      /\ Done(w) /\ password' = password
  BY <1>0 DEF Save, Draw
<1>3. /\ req'[w] = NoRequest
      /\ \A v \in Worker : v # w => req'[v] = req[v]
  BY <1>2 DEF Done, Inv, TypeOK
<1>4. /\ d # NoKey /\ row[d] = NoRow
      /\ \A c \in Browser : cookie[c] # d
      /\ \A v \in Worker : req[v] # NoRequest => req[v].key # d
  <2>1. drawn \in Nat /\ d \in Nat /\ d # NoKey
    BY <1>0 DEF Inv, TypeOK, Key, NoKey
  <2>2. \A v \in Worker : req[v] # NoRequest =>
          req[v].key <= drawn /\ req[v].key \in Key \cup {NoKey}
    BY DEF Inv, Fits, TypeOK, Request
  <2>3. \A c \in Browser : cookie[c] <= drawn /\ cookie[c] \in Key \cup {NoKey}
    BY DEF Inv, Ordered, TypeOK
  <2>4. QED
    BY <1>0, <2>1, <2>2, <2>3 DEF Inv, Ordered, Key, NoKey
<1>5. /\ row'[d] # NoRow /\ row'[d].user = u
      /\ \A j \in Key : j # d => row'[j] = row[j]
      /\ \A c \in Browser : cookie'[c] = IF c = b THEN d ELSE cookie[c]
  BY <1>1, <1>2, NoRowAssumption DEF Inv, TypeOK
<1> HIDE DEF b, u
<1>6. ASSUME NEW v \in Worker
      PROVE  Settled(v)'
  <2>1. SUFFICES ASSUME v # w, req[v] # NoRequest, req[v].key # NoKey,
                        row[req[v].key] # NoRow
                 PROVE  Settled(v)'
    <3>1. req'[v] # NoRequest => v # w /\ req'[v] = req[v]
      BY <1>3
    <3>2. req[v] # NoRequest /\ req[v].key # NoKey => req[v].key \in Key
      BY DEF Inv, TypeOK, Request
    <3>3. QED
      BY <1>4, <1>5, <3>1, <3>2 DEF Settled
  <2>2. req'[v] = req[v] /\ req[v].key \in Key /\ req[v].key # d
    BY <1>3, <1>4, <2>1 DEF Inv, TypeOK, Request
  <2>3. row'[req[v].key] = row[req[v].key]
    BY <1>5, <2>2
  <2>4. CASE row[req[v].key].user = req[v].user
    BY <2>2, <2>3, <2>4 DEF Settled
  <2>5. CASE /\ row[req[v].key].user = Anon
             /\ Storing(v)
             /\ Sole(v, req[v].key)
    <3>1. Sole(v, req[v].key)'
      BY <1>3, <1>5, <2>2, <2>5 DEF Sole
    <3>2. Storing(v)'
      BY <2>2, <2>3, <2>5 DEF Storing
    <3>3. QED
      BY <2>2, <2>3, <2>5, <3>1, <3>2 DEF Settled
  <2>6. QED
    BY <2>1, <2>4, <2>5 DEF AllSettled, Settled
<1>7. LifeOf(d) = "new" /\ LifeOf(d)' = "live" /\ WhoOf(d)' = u
  <2>1. drawn \in Nat /\ d > drawn
    BY <1>0 DEF Inv, TypeOK, Key
  <2>2. ~Unsaved(d)'
    BY <1>3, <1>4 DEF Unsaved
  <2>3. ~(d > drawn')
    <3>1. d \in Nat /\ drawn' = d
      BY <1>2 DEF Key
    <3>2. ~(d > d)
      BY <3>1
    <3>3. QED
      BY <3>1, <3>2
  <2>4. LifeOf(d) = "new" /\ LifeOf(d)' = "live"
    BY <1>5, <2>1, <2>2, <2>3 DEF LifeOf
  <2>5. QED
    BY <1>5, <2>4 DEF WhoOf
<1>8. ASSUME NEW j \in Key \ {d}
      PROVE  LifeOf(j)' = LifeOf(j) /\ WhoOf(j)' = WhoOf(j)
  <2>1. row'[j] = row[j] /\ j # NoKey
    BY <1>5 DEF Key, NoKey
  <2>2. Unsaved(j)' <=> Unsaved(j)
    BY <1>3, <2>1 DEF Unsaved, Save
  <2>3. j > drawn' <=> j > drawn
    BY <1>0, <1>2 DEF Inv, TypeOK, Key
  <2>4. LifeOf(j)' = LifeOf(j)
    BY <2>1, <2>2, <2>3 DEF LifeOf
  <2>5. QED
    BY <2>1, <2>4 DEF WhoOf
<1>9. ASSUME NEW c \in Browser, NEW j \in Key, LifeOf(j)' = "live", Holds(c, j)'
      PROVE  \/ LifeOf(j) = "live" /\ Holds(c, j)
             \/ c = b /\ j = d
  <2>1. CASE j = d
    BY <1>3, <1>4, <1>5, <1>9, <2>1 DEF Holds
  <2>2. CASE j # d
    BY <1>3, <1>5, <1>8, <1>9, <2>2 DEF Holds
  <2>3. QED
    BY <2>1, <2>2
<1>10. Live' \subseteq Live \cup {<<b, d>>}
  BY <1>9 DEF Live
<1>11. b \in Browser /\ u \in User \cup {Anon} /\ Proven(password, b, u)
       /\ password' = password
  BY <1>1, <1>2
<1>12. QED
  BY <1>6, <1>7, <1>8, <1>10, <1>11, Begins DEF AllSettled

\* A save over a row that is there renews a session, or logs a new key in.
LEMMA SaveOverStep ==
  ASSUME Inv, Inv', AllSettled, NEW w \in Worker, Save(w),
         req[w].key # NoKey, row[req[w].key] # NoRow
  PROVE  AllSettled' /\ Promise!Next
<1>0. PICK k \in Key : k = req[w].key
  BY Here DEF Save, At, Request
<1> DEFINE b == req[w].browser
           u == req[w].user
<1>1. /\ req[w] # NoRequest /\ req[w] \in Request /\ req[w].pc = "save"
      /\ b \in Browser /\ u \in User \cup {Anon} /\ Proven(password, b, u)
      /\ [user |-> u, pend |-> req[w].pend] \in Row
  BY Here DEF Save, At, Labelled, Backed, Request, Someone, Row
<1>2. /\ drawn' = drawn
      /\ row' = [row EXCEPT ![k] = [user |-> u, pend |-> req[w].pend]]
      /\ cookie' = [cookie EXCEPT ![b] = k]
      /\ Done(w) /\ password' = password
  BY <1>0 DEF Save
<1>3. /\ req'[w] = NoRequest
      /\ \A v \in Worker : v # w => req'[v] = req[v]
  BY <1>2 DEF Done, Inv, TypeOK
<1>4. /\ row'[k] # NoRow /\ row'[k].user = u
      /\ \A j \in Key : j # k => row'[j] = row[j]
      /\ \A c \in Browser : cookie'[c] = IF c = b THEN k ELSE cookie[c]
  BY <1>1, <1>2, NoRowAssumption DEF Inv, TypeOK
<1>5. /\ k # NoKey /\ row[k] # NoRow /\ ~(k > drawn)
      /\ row[k].user = u \/ (row[k].user = Anon /\ u # Anon /\ Sole(w, k))
  <2>1. k # NoKey /\ row[k] # NoRow
    BY <1>0
  <2>2. ~(k > drawn)
    BY <2>1 DEF Inv, Ordered
  <2>3. row[k].user = u \/ (row[k].user = Anon /\ Sole(w, k))
    BY <1>0, <1>1 DEF AllSettled, Settled
  <2>4. QED
    BY <2>1, <2>2, <2>3
<1>6. Holds(b, k)
  BY <1>0, <1>1 DEF Holds
<1>7. req[w].key = k /\ req[w].user = u
  BY <1>0
<1> HIDE DEF b, u
<1>8. ASSUME NEW v \in Worker, v # w, req[v] # NoRequest, Sole(v, req[v].key)
      PROVE  req[v].key # k
  BY <1>1, <1>7, <1>8 DEF Sole
<1>9. ASSUME NEW v \in Worker
      PROVE  Settled(v)'
  <2>1. SUFFICES ASSUME v # w, req[v] # NoRequest, req[v].key # NoKey,
                        row'[req[v].key] # NoRow
                 PROVE  Settled(v)'
    BY <1>3 DEF Settled
  <2>2. req'[v] = req[v] /\ req[v].key \in Key
    BY <1>3, <2>1 DEF Inv, TypeOK, Request
  <2>3. row[req[v].key] # NoRow
    BY <1>4, <1>5, <2>1, <2>2
  <2>4. CASE row[req[v].key].user = req[v].user
    <3>1. CASE req[v].key = k
      <4>1. ~Sole(w, k)
        BY <2>1, <3>1 DEF Sole
      <4>2. QED
        BY <1>4, <1>5, <2>2, <2>4, <3>1, <4>1 DEF Settled
    <3>2. CASE req[v].key # k
      BY <1>4, <2>2, <2>4, <3>2 DEF Settled
    <3>3. QED
      BY <3>1, <3>2
  <2>5. CASE /\ row[req[v].key].user = Anon
             /\ Storing(v)
             /\ Sole(v, req[v].key)
    <3>1. req[v].key # k
      BY <1>8, <2>1, <2>5
    <3>2. Sole(v, req[v].key)'
      BY <1>3, <1>4, <2>2, <2>5, <3>1 DEF Sole
    <3>3. Storing(v)'
      BY <1>4, <2>2, <2>5, <3>1 DEF Storing
    <3>4. QED
      BY <1>4, <2>2, <2>5, <3>1, <3>2, <3>3 DEF Settled
  <2>6. QED
    BY <2>1, <2>3, <2>4, <2>5 DEF AllSettled, Settled
<1>10. ASSUME NEW j \in Key \ {k}
       PROVE  LifeOf(j)' = LifeOf(j) /\ WhoOf(j)' = WhoOf(j)
  <2>1. row'[j] = row[j]
    BY <1>4
  <2>2. Unsaved(j)' <=> Unsaved(j)
    BY <1>3, <1>7, <2>1 DEF Unsaved
  <2>3. LifeOf(j)' = LifeOf(j)
    BY <1>2, <2>1, <2>2 DEF LifeOf
  <2>4. QED
    BY <2>1, <2>3 DEF WhoOf
<1>11. LifeOf(k)' = "live" /\ WhoOf(k)' = u
  <2>1. ~Unsaved(k)'
    <3>1. SUFFICES ASSUME NEW v \in Worker, v # w, req[v] # NoRequest,
                          req[v].key = k, req[v].user # Anon, u = Anon
                   PROVE  FALSE
      BY <1>3, <1>4 DEF Unsaved
    <3>2. Unsaved(k)
      BY <1>5, <3>1 DEF Unsaved
    <3>3. PICK t \in Worker : /\ req[t] # NoRequest /\ req[t].key = k
                              /\ req[t].user # Anon /\ Sole(t, k)
      BY <3>2, UnsavedBy
    <3>4. t # w
      BY <1>7, <3>1, <3>3
    <3>5. QED
      BY <1>8, <3>3, <3>4
  <2>2. LifeOf(k)' = "live"
    BY <1>2, <1>4, <1>5, <2>1 DEF LifeOf
  <2>3. QED
    BY <1>4, <2>2 DEF WhoOf
<1>12. ASSUME NEW c \in Browser, NEW j \in Key, LifeOf(j)' = "live", Holds(c, j)'
       PROVE  \/ LifeOf(j) = "live" /\ Holds(c, j)
              \/ j = k /\ Holds(c, k)
  BY <1>3, <1>4, <1>6, <1>10, <1>12 DEF Holds
<1>13. CASE row[k].user = u
  <2>1. ~Unsaved(k)
    <3>1. SUFFICES ASSUME Unsaved(k) PROVE FALSE
      OBVIOUS
    <3>2. PICK t \in Worker : /\ req[t] # NoRequest /\ req[t].key = k
                              /\ req[t].user # Anon /\ Sole(t, k)
                              /\ row[k].user = Anon
      BY <3>1, UnsavedBy
    <3>3. t # w
      BY <1>7, <1>13, <3>2
    <3>4. QED
      BY <1>8, <3>2, <3>3
  <2>2. LifeOf(k) = "live" /\ WhoOf(k) = u
    BY <1>5, <1>13, <2>1 DEF LifeOf, WhoOf
  <2>3. Lives({})
    BY <1>10, <1>11, <2>2 DEF Lives
  <2>4. Live' \subseteq {h \in Live : h[2] \notin {}}
    BY <1>12, <2>2 DEF Live
  <2>5. QED
    BY <1>2, <1>9, <2>3, <2>4, Goes DEF AllSettled
<1>14. CASE row[k].user = Anon /\ u # Anon /\ Sole(w, k)
  <2>1. Unsaved(k)
    BY <1>1, <1>5, <1>7, <1>14 DEF Unsaved
  <2>2. LifeOf(k) = "new"
    BY <2>1 DEF LifeOf
  <2>3. \A c \in Browser : Holds(c, k) => c = b
    BY <1>14 DEF Holds, Sole, b
  <2>4. Live' \subseteq Live \cup {<<b, k>>}
    BY <1>12, <2>3 DEF Live
  <2>5. b \in Browser /\ u \in User \cup {Anon} /\ Proven(password, b, u)
        /\ password' = password
    BY <1>1, <1>2
  <2>6. QED
    BY <1>9, <1>10, <1>11, <2>2, <2>4, <2>5, Begins DEF AllSettled
<1>15. QED
  BY <1>5, <1>13, <1>14

LEMMA StepSettled ==
  ASSUME Inv, Inv', AllSettled, NEW w \in Worker, Arrive(w) \/ Block(w) \/ Step(w)
  PROVE  AllSettled' /\ Promise!Next
<1>1. ASSUME Quiet(w), password' = password
      PROVE  AllSettled' /\ Promise!Next
  BY <1>1, QuietSettled, QuietPromise
<1>2. CASE Arrive(w)
  BY <1>2, ArriveStep
<1>3. CASE ViewLogin(w)
  <2>1. req[w].browser \in Browser /\ req[w].target \in User
    BY <1>3, Here DEF ViewLogin, At, Labelled
  <2>2. row' = row /\ password' = password \cup {<<req[w].browser, req[w].target>>}
    BY <1>3 DEF ViewLogin
  <2>3. Quiet(w)
    BY <1>3, QuietStep
  <2>4. Promise!Next
    BY <2>1, <2>2, <2>3, QuietPromise
  <2>5. QED
    BY <2>3, <2>4, QuietSettled
<1>4. CASE Enter(w)
  <2>1. req[w] # NoRequest /\ req[w].pc = "enter" /\ req[w] \in Request /\ ~Storing(w)
    BY <1>4, Here DEF Enter, At, Storing
  <2>2. CASE req[w].user = Anon
    BY <1>4, <2>2, EnterStep
  <2>3. CASE req[w].user # Anon /\ req[w].user = req[w].target
    <3>1. Goto(w, "issue") /\ UNCHANGED <<row, lasts, drawn, cookie, password>>
      BY <1>4, <2>3 DEF Enter, history
    <3>2. Carries(w)
      BY <2>1, <3>1, GoingOn DEF Label
    <3>3. Quiet(w)
      BY <3>1, <3>2, StandsStill DEF Quiet
    <3>4. QED
      BY <1>1, <3>1, <3>3
  <2>4. CASE req[w].user \notin {Anon, req[w].target}
    <3> DEFINE r == [req[w] EXCEPT !.pc = "issue", !.key = NoKey,
                                   !.user = req[w].target, !.pend = Anon]
    <3>1. /\ Delete({req[w].key}) /\ Moves(w, r)
          /\ UNCHANGED <<drawn, cookie, password>>
      BY <1>4, <2>4 DEF Enter, history, Moves
    <3>2. r \in Request /\ r.key = NoKey
      <4>1. req[w].target \in User
        BY <2>1, Here DEF Labelled
      <4>2. QED
        BY <2>1, <4>1 DEF Request, Label, Someone
    <3> HIDE DEF r
    <3>3. Carries(w)
      BY <2>1, <3>1, <3>2, Keeping
    <3>4. Quiet(w)
      BY <3>1, <3>3, StandsStill, Deleting DEF Quiet
    <3>5. QED
      BY <1>1, <3>1, <3>4
  <2>5. QED
    BY <2>2, <2>3, <2>4
<1>5. CASE Save(w)
  <2>1. CASE req[w].key # NoKey /\ row[req[w].key] = NoRow
    <3>1. /\ Done(w) /\ ~Storing(w)
          /\ UNCHANGED <<row, lasts, drawn, cookie, password>>
      BY <1>5, <2>1 DEF Save, Storing
    <3>2. Quiet(w)
      BY <3>1, Leaving, StandsStill DEF Quiet
    <3>3. QED
      BY <1>1, <3>1, <3>2
  <2>2. QED
    BY <1>5, <2>1, SaveNewStep, SaveOverStep
<1>6. CASE \/ Block(w) \/ Gate(w) \/ Expire(w) \/ Drop(w) \/ StatusGate(w)
           \/ ViewPage(w) \/ ViewVerify(w) \/ ViewLeave(w)
           \/ End(w) \/ DeleteRow(w) \/ Issue(w)
           \/ WriteBlock(w) \/ List(w) \/ Mark(w) \/ Purge(w)
  <2>1. Quiet(w)
    BY <1>6, QuietStep
  <2>2. password' = password
    BY <1>6 DEF Block, Gate, Expire, Drop, StatusGate, ViewPage, ViewVerify,
                ViewLeave, End, DeleteRow, Issue, WriteBlock, List, Mark, Purge,
                history
  <2>3. QED
    BY <1>1, <2>1, <2>2
<1>7. QED
  BY <1>2, <1>3, <1>4, <1>5, <1>6 DEF Step

\* What no request does shows in no session.
LEMMA Unseen ==
  ASSUME AllSettled, UNCHANGED <<row, drawn, cookie, req, password>>
  PROVE  AllSettled' /\ UNCHANGED Promise!vars
<1>1. AllSettled'
  BY DEF AllSettled, Settled, Storing, Sole
<1>2. \A k : Unsaved(k)' <=> Unsaved(k)
  BY DEF Unsaved
<1>3. \A k : LifeOf(k)' = LifeOf(k) /\ WhoOf(k)' = WhoOf(k)
  BY <1>2 DEF LifeOf, WhoOf
<1>4. \A b, k : Holds(b, k)' <=> Holds(b, k)
  BY DEF Holds
<1>5. QED
  BY <1>1, <1>3, <1>4 DEF Promise!vars

LEMMA SettledNext ==
  ASSUME Inv, Inv', AllSettled, [Next]_vars
  PROVE  AllSettled' /\ [Promise!Next]_(Promise!vars)
<1>1. CASE Unblock \/ Move \/ Tick \/ UNCHANGED vars
  BY <1>1, Unseen DEF Unblock, Move, Tick, vars, history
<1>2. ASSUME NEW w \in Worker, Arrive(w) \/ Block(w) \/ Step(w)
      PROVE  AllSettled' /\ Promise!Next
  BY <1>2, StepSettled
<1>3. QED
  BY <1>1, <1>2 DEF Next

LEMMA PromiseInit == Init => AllSettled /\ Promise!Init
<1> SUFFICES ASSUME Init PROVE AllSettled /\ Promise!Init
  OBVIOUS
<1>1. AllSettled
  BY DEF Init, AllSettled, Settled
<1>2. \A k \in Key : LifeOf(k) = "new"
  BY DEF Init, LifeOf, Key
<1>3. Promise!Init
  BY <1>2 DEF Init, Promise!Init, WhoOf
<1>4. QED
  BY <1>1, <1>3

(* However requests, stale copies, blocks and expiries interleave, sessions
   are what Logins says: a key has one user and one browser from its first
   response to its end, and then it is over (session_manager.py, lines 20 to
   82, views.py, lines 137 to 189). *)
THEOREM Implementation == Spec => LoginPromise
<1>1. Inv /\ Inv' /\ AllSettled /\ [Next]_vars
        => AllSettled' /\ [Promise!Next]_(Promise!vars)
  BY SettledNext
<1>2. Spec => []AllSettled
  BY <1>1, PromiseInit, Holding, PTL DEF Spec
<1>3. QED
  BY <1>1, <1>2, PromiseInit, Holding, PTL DEF Spec, LoginPromise, Promise!Spec

LEMMA SafeStep ==
  ASSUME Promise!Safe, [Promise!Next]_(Promise!vars)
  PROVE  Promise!Safe'
<1> DEFINE life == [k \in Key |-> LifeOf(k)]
           who == [k \in Key |-> WhoOf(k)]
<1>1. Promise!Safe <=>
        \A h \in Live : /\ life[h[2]] = "live"
                        /\ who[h[2]] = Anon \/ <<h[1], who[h[2]]>> \in password
                        /\ \A g \in Live : g[2] = h[2] => g = h
  BY DEF Promise!Safe, Live
<1>2. Promise!Safe' <=>
        \A h \in Live' : /\ life'[h[2]] = "live"
                         /\ who'[h[2]] = Anon \/ <<h[1], who'[h[2]]>> \in password'
                         /\ \A g \in Live' : g[2] = h[2] => g = h
  BY DEF Promise!Safe, Live
<1>3. Live \subseteq Browser \X Key
  BY DEF Live
<1>4. CASE UNCHANGED Promise!vars
  <2>1. life' = life /\ who' = who /\ Live' = Live /\ password' = password
    BY <1>4 DEF Promise!vars, Live
  <2>2. QED
    BY <1>1, <1>2, <2>1
<1>5. ASSUME NEW b \in Browser, NEW u \in User, Promise!Give(b, u)
      PROVE  Promise!Safe'
  <2>1. /\ life' = life /\ who' = who /\ Live' \subseteq Live
        /\ password \subseteq password'
    BY <1>5 DEF Promise!Give, Live
  <2> HIDE DEF life, who
  <2>2. QED
    BY <1>1, <1>2, <2>1
<1>6. ASSUME NEW b \in Browser, NEW k \in Key, NEW u \in User \cup {Anon},
             Promise!Start(b, k, u)
      PROVE  Promise!Safe'
  <2>1. /\ life[k] = "new" /\ (u = Anon \/ <<b, u>> \in password)
        /\ life' = [life EXCEPT ![k] = "live"] /\ who' = [who EXCEPT ![k] = u]
        /\ Live' \subseteq Live \cup {<<b, k>>} /\ password' = password
    BY <1>6 DEF Promise!Start, Live
  <2>2. DOMAIN life = Key /\ DOMAIN who = Key
    OBVIOUS
  <2> HIDE DEF life, who
  <2>3. \A h \in Live : h[2] # k /\ h[2] \in Key
    BY <1>1, <1>3, <2>1
  <2>4. \A h \in Live' : \/ /\ h \in Live /\ h[2] # k
                            /\ life'[h[2]] = life[h[2]] /\ who'[h[2]] = who[h[2]]
                         \/ /\ h = <<b, k>>
                            /\ life'[h[2]] = "live" /\ who'[h[2]] = u
    BY <2>1, <2>2, <2>3
  <2>5. QED
    BY <1>1, <1>2, <2>1, <2>4
<1>7. ASSUME NEW ks \in SUBSET Key, Promise!End(ks)
      PROVE  Promise!Safe'
  <2>1. /\ life' = [k \in Key |-> IF k \in ks THEN "over" ELSE life[k]]
        /\ who' = [k \in Key |-> IF k \in ks THEN Anon ELSE who[k]]
        /\ Live' \subseteq {h \in Live : h[2] \notin ks} /\ password' = password
    BY <1>7 DEF Promise!End, Live
  <2> HIDE DEF life, who
  <2>2. \A h \in Live' : /\ h \in Live
                         /\ life'[h[2]] = life[h[2]] /\ who'[h[2]] = who[h[2]]
    BY <1>3, <2>1
  <2>3. QED
    BY <1>1, <1>2, <2>1, <2>2
<1>8. QED
  BY <1>4, <1>5, <1>6, <1>7 DEF Promise!Next

(* So no session, while it lives, can be presented by two browsers, and a
   browser that can present a user's had given the password of that user. *)
THEOREM Isolation == Spec => []Promise!Safe
<1>1. Promise!Init => Promise!Safe
  BY DEF Promise!Init, Promise!Safe
<1>2. LoginPromise => []Promise!Safe
  BY <1>1, SafeStep, PTL DEF LoginPromise, Promise!Spec
<1>3. QED
  BY <1>2, Implementation, PTL
=============================================================================
