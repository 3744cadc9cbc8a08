------------------------- MODULE SocialGraph_proofs -------------------------
(***************************************************************************)
(* Proofs about SocialGraph, for any users, workers and number of          *)
(* requests.                                                               *)
(***************************************************************************)
EXTENDS SocialGraph, TLAPS

\* A worker's request carries what the labels it can reach need.
Equipped(w) == req[w] # NoRequest =>
  /\ req[w].op \in {"ban", "reactivate"} =>
       req[w].other \in User /\ req[w].pc \in {"write", "part", "purge", "lift"}
  /\ req[w].op \notin {"ban", "reactivate"} =>
       req[w].user \in User /\ req[w].pc \notin {"write", "part", "purge", "lift"}
  /\ req[w].op \in {"send", "remove"} =>
       /\ req[w].other \in User
       /\ req[w].user # req[w].other
       /\ req[w].pc \notin {"find", "befriend", "delete"}
  /\ req[w].op \in {"accept", "reject"} =>
       req[w].id \in Id /\ req[w].pc \notin {"check", "create", "unfriend"}

\* Who is about to become a friend was asked and has agreed.
Consenting(w) == At(w, "befriend") =>
  /\ req[w].other \in User
  /\ req[w].user # req[w].other
  /\ <<req[w].other, req[w].user>> \in asked
  /\ <<req[w].user, req[w].other>> \in agreed

\* Every request in the table was sent by one user to another.
Sent == \A i \in Id : request[i] # Gone =>
  /\ request[i].sender # request[i].receiver
  /\ <<request[i].sender, request[i].receiver>> \in asked

Inv == /\ TypeOK
       /\ Sent
       /\ FriendsByConsent
       /\ \A w \in Worker : Equipped(w) /\ Consenting(w)

LEMMA InvInit == Init => Inv
BY DEF Init, Inv, TypeOK, Sent, FriendsByConsent, Equipped, Consenting, At

(* The fields of a request after Goto, and of the other workers' requests. *)
LEMMA AfterGoto ==
  ASSUME TypeOK, NEW w \in Worker, req[w] # NoRequest, NEW l \in Label,
         Goto(w, l)
  PROVE  /\ req' \in [Worker -> Request \cup {NoRequest}]
         /\ req'[w] = [req[w] EXCEPT !.pc = l]
         /\ req'[w] \in Request
         /\ \A v \in Worker : v # w => req'[v] = req[v]
<1>1. req[w] \in Request /\ req \in [Worker -> Request \cup {NoRequest}]
  BY DEF TypeOK
<1>2. req' = [req EXCEPT ![w] = [req[w] EXCEPT !.pc = l]]
  BY DEF Goto
<1>3. [req[w] EXCEPT !.pc = l] \in Request
  BY <1>1 DEF Request
<1>4. QED
  BY <1>1, <1>2, <1>3

(* A step that ends a request, or advances it to a label that asks nothing of
   it, and that leaves the tables and histories as they are. *)
LEMMA InvDone ==
  ASSUME Inv, NEW w \in Worker, Done(w),
         request' \in [Id -> FriendRequest \cup {Gone}], Sent',
         drawn' \in Nat, friends' \subseteq friends, banned' \subseteq User,
         asked \subseteq asked', asked' \subseteq User \X User,
         UNCHANGED agreed, loose' \subseteq User
  PROVE  Inv'
<1>1. TypeOK'
  BY DEF Inv, Done, TypeOK
<1>2. FriendsByConsent'
  BY DEF Inv, FriendsByConsent
<1>3. ASSUME NEW v \in Worker
      PROVE  Equipped(v)' /\ Consenting(v)'
  BY DEF Inv, Done, TypeOK, Equipped, Consenting, At
<1>4. QED
  BY <1>1, <1>2, <1>3 DEF Inv

LEMMA InvGoto ==
  ASSUME Inv, NEW w \in Worker, req[w] # NoRequest, NEW l \in Label \ {"befriend"},
         Goto(w, l),
         l \in {"write", "part", "purge", "lift"} =>
           req[w].pc \in {"write", "part", "purge", "lift"},
         l \notin {"write", "part", "purge", "lift"} =>
           req[w].pc \notin {"write", "part", "purge", "lift"},
         l \in {"find", "delete"} => req[w].op \notin {"send", "remove"},
         l \in {"check", "create", "unfriend"} =>
           req[w].op \notin {"accept", "reject"},
         UNCHANGED <<request, drawn, asked, agreed>>,
         FriendsByConsent', friends' \subseteq Pair,
         banned' \subseteq User, loose' \subseteq User
  PROVE  Inv'
<1>1. /\ req' \in [Worker -> Request \cup {NoRequest}]
      /\ req'[w] = [req[w] EXCEPT !.pc = l]
      /\ \A v \in Worker : v # w => req'[v] = req[v]
  BY AfterGoto DEF Inv
<1>2. TypeOK'
  BY <1>1 DEF Inv, TypeOK
<1>3. Sent'
  BY DEF Inv, Sent
<1>4. req[w] \in Request
  BY DEF Inv, TypeOK
<1>5. /\ req'[w].pc = l
      /\ req'[w].op = req[w].op
      /\ req'[w].user = req[w].user
      /\ req'[w].other = req[w].other
      /\ req'[w].id = req[w].id
  BY <1>1, <1>4 DEF Request
<1>6. Equipped(w)' /\ Consenting(w)'
  BY <1>4, <1>5 DEF Inv, Equipped, Consenting, At
<1>7. ASSUME NEW v \in Worker, v # w
      PROVE  Equipped(v)' /\ Consenting(v)'
  BY <1>1, <1>7 DEF Inv, Equipped, Consenting, At
<1>8. QED
  BY <1>2, <1>3, <1>6, <1>7 DEF Inv

LEMMA InvArrive ==
  ASSUME Inv, NEW w \in Worker, Arrive(w)
  PROVE  Inv'
<1>1. PICK r \in Request :
        /\ req' = [req EXCEPT ![w] = r]
        /\ \/ /\ r.op \in {"send", "remove"} /\ r.pc = "gate"
              /\ r.user \in User /\ r.other \in User /\ r.user # r.other
           \/ /\ r.op \in {"accept", "reject"} /\ r.pc = "gate"
              /\ r.user \in User /\ r.id \in Id
           \/ /\ r.op \in {"ban", "reactivate"} /\ r.pc \in {"write", "lift"}
              /\ r.other \in User
  <2>1. ASSUME NEW u \in User, NEW v \in User, u # v,
               NEW op \in {"send", "remove"}
        PROVE  [pc |-> "gate", op |-> op, user |-> u, other |-> v, id |-> 0]
                 \in Request
    BY <2>1 DEF Request, Label, Op
  <2>2. ASSUME NEW u \in User, NEW i \in Id, NEW op \in {"accept", "reject"}
        PROVE  [pc |-> "gate", op |-> op, user |-> u, other |-> Nobody,
                id |-> i] \in Request
    BY DEF Request, Label, Op
  <2>3. ASSUME NEW v \in User, NEW op \in {"ban", "reactivate"}
        PROVE  [pc |-> IF op = "ban" THEN "write" ELSE "lift", op |-> op,
                user |-> Nobody, other |-> v, id |-> 0] \in Request
    BY DEF Request, Label, Op
  <2>4. CASE \E u \in User, v \in User, op \in {"send", "remove"} :
               /\ u # v
               /\ req' = [req EXCEPT ![w] = [pc |-> "gate", op |-> op, user |-> u,
                                             other |-> v, id |-> 0]]
    <3>1. PICK u \in User, v \in User, op \in {"send", "remove"} :
            /\ u # v
            /\ req' = [req EXCEPT ![w] = [pc |-> "gate", op |-> op, user |-> u,
                                          other |-> v, id |-> 0]]
      BY <2>4
    <3> DEFINE r == [pc |-> "gate", op |-> op, user |-> u, other |-> v, id |-> 0]
    <3>2. r \in Request
      BY <2>1, <3>1
    <3>3. QED
      BY <3>1, <3>2
  <2>5. CASE \E u \in User, i \in Id, op \in {"accept", "reject"} :
               req' = [req EXCEPT ![w] = [pc |-> "gate", op |-> op, user |-> u,
                                          other |-> Nobody, id |-> i]]
    <3>1. PICK u \in User, i \in Id, op \in {"accept", "reject"} :
            req' = [req EXCEPT ![w] = [pc |-> "gate", op |-> op, user |-> u,
                                       other |-> Nobody, id |-> i]]
      BY <2>5
    <3> DEFINE r == [pc |-> "gate", op |-> op, user |-> u, other |-> Nobody,
                     id |-> i]
    <3>2. r \in Request
      BY <2>2
    <3>3. QED
      BY <3>1, <3>2
  <2>6. CASE \E v \in User, op \in {"ban", "reactivate"} :
               req' = [req EXCEPT ![w] =
                         [pc |-> IF op = "ban" THEN "write" ELSE "lift",
                          op |-> op, user |-> Nobody, other |-> v, id |-> 0]]
    <3>1. PICK v \in User, op \in {"ban", "reactivate"} :
            req' = [req EXCEPT ![w] =
                      [pc |-> IF op = "ban" THEN "write" ELSE "lift",
                       op |-> op, user |-> Nobody, other |-> v, id |-> 0]]
      BY <2>6
    <3> DEFINE r == [pc |-> IF op = "ban" THEN "write" ELSE "lift",
                     op |-> op, user |-> Nobody, other |-> v, id |-> 0]
    <3>2. r \in Request
      BY <2>3
    <3>3. QED
      BY <3>1, <3>2
  <2>7. QED
    BY <2>4, <2>5, <2>6, Zenon DEF Arrive
<1>2. UNCHANGED <<request, drawn, friends, banned, asked, agreed, loose>>
  BY DEF Arrive, history
<1>3. TypeOK'
  BY <1>1, <1>2 DEF Inv, TypeOK
<1>4. Sent' /\ FriendsByConsent'
  BY <1>2 DEF Inv, Sent, FriendsByConsent
<1>5. req'[w] = r /\ \A v \in Worker : v # w => req'[v] = req[v]
  BY <1>1 DEF Inv, TypeOK
<1>6. Equipped(w)' /\ Consenting(w)'
  BY <1>1, <1>5 DEF Equipped, Consenting, At
<1>7. ASSUME NEW v \in Worker, v # w
      PROVE  Equipped(v)' /\ Consenting(v)'
  BY <1>2, <1>5, <1>7 DEF Inv, Equipped, Consenting, At
<1>8. QED
  BY <1>3, <1>4, <1>6, <1>7 DEF Inv

LEMMA InvCreate ==
  ASSUME Inv, NEW w \in Worker, Create(w)
  PROVE  Inv'
<1> DEFINE fr == [sender |-> req[w].user, receiver |-> req[w].other]
<1>1. /\ req[w] \in Request
      /\ req[w].pc = "create"
      /\ req[w] # NoRequest
  BY DEF Inv, TypeOK, Create, At
<1>2. req[w].op \in Op
  BY <1>1 DEF Request
<1>3. /\ fr \in FriendRequest
      /\ fr.sender # fr.receiver
      /\ <<fr.sender, fr.receiver>> \in User \X User
  BY <1>1, <1>2 DEF Inv, Equipped, Op, FriendRequest
<1>4. Done(w) /\ UNCHANGED <<friends, banned, agreed, loose>>
  BY DEF Create
<1>5. CASE UNCHANGED <<request, drawn, asked>>
  BY <1>4, <1>5, InvDone DEF Inv, TypeOK, Sent
<1>6. CASE /\ drawn' = drawn + 1
           /\ request' = [request EXCEPT ![drawn'] = fr]
           /\ asked' = asked \cup {<<fr.sender, fr.receiver>>}
  <2>1. drawn \in Nat /\ request \in [Id -> FriendRequest \cup {Gone}]
    BY DEF Inv, TypeOK
  <2>2. drawn' \in Nat
    BY <1>6, <2>1
  <2>3. request' \in [Id -> FriendRequest \cup {Gone}]
    BY <1>3, <1>6, <2>1
  <2>4. asked \subseteq asked' /\ asked' \subseteq User \X User
    BY <1>3, <1>6 DEF Inv, TypeOK
  <2>5. ASSUME NEW i \in Id, request'[i] # Gone
        PROVE  /\ request'[i].sender # request'[i].receiver
               /\ <<request'[i].sender, request'[i].receiver>> \in asked'
    <3>1. CASE i = drawn'
      BY <1>3, <1>6, <2>1, <3>1
    <3>2. CASE i # drawn'
      BY <1>6, <2>1, <2>5, <3>2 DEF Inv, Sent
    <3>3. QED
      BY <3>1, <3>2
  <2>6. Sent'
    BY <2>5 DEF Sent
  <2>7. QED
    BY <1>4, <2>2, <2>3, <2>4, <2>6, InvDone DEF Inv, TypeOK
<1>7. QED
  BY <1>5, <1>6 DEF Create

LEMMA InvFind ==
  ASSUME Inv, NEW w \in Worker, Find(w)
  PROVE  Inv'
<1>1. UNCHANGED <<request, drawn, friends, banned, asked>>
  BY DEF Find
<1>2. CASE Done(w) /\ UNCHANGED <<agreed, loose>>
  BY <1>1, <1>2, InvDone DEF Inv, TypeOK, Sent
<1>3. CASE ~(Done(w) /\ UNCHANGED <<agreed, loose>>)
  <2> DEFINE r == req[w]
             u == request[r.id].sender
             l == IF r.op = "accept" THEN "befriend" ELSE "delete"
  <2>1. /\ Addressed(r.id, r.user)
        /\ req' = [req EXCEPT ![w] = [r EXCEPT !.pc = l, !.other = u]]
        /\ agreed' = IF r.op = "accept" THEN agreed \cup {<<r.user, u>>}
                                        ELSE agreed
        /\ loose' = IF r.op = "accept" /\ Banning(u) # {}
                      THEN loose \cup {u} ELSE loose
    BY <1>3 DEF Find
  <2>2. r # NoRequest /\ r \in Request /\ r.pc = "find"
    BY DEF Inv, TypeOK, Find, At
  <2>3. r.op \in {"accept", "reject"} /\ r.id \in Id /\ r.user \in User
    <3>1. r.op \in Op
      BY <2>2 DEF Request
    <3>2. QED
      BY <2>2, <3>1 DEF Inv, Equipped, Op
  <2>4. /\ request[r.id] \in FriendRequest
        /\ request[r.id] # Gone
        /\ request[r.id].receiver = r.user
        /\ request[r.id] \in FriendRequest
    BY <2>1, <2>3 DEF Inv, TypeOK, Addressed
  <2>5. u \in User /\ u # r.user /\ <<u, r.user>> \in asked
    BY <2>3, <2>4 DEF Inv, Sent, FriendRequest
  <2>6. [r EXCEPT !.pc = l, !.other = u] \in Request
    BY <2>2, <2>5 DEF Request, Label
  <2>7. req'[w] = [r EXCEPT !.pc = l, !.other = u]
        /\ \A v \in Worker : v # w => req'[v] = req[v]
    BY <2>1 DEF Inv, TypeOK
  <2>8. agreed \subseteq agreed' /\ agreed' \subseteq User \X User
    BY <2>1, <2>3, <2>5 DEF Inv, TypeOK
  <2>9. loose' \subseteq User
    BY <2>1, <2>5 DEF Inv, TypeOK
  <2>10. TypeOK'
    BY <1>1, <2>1, <2>6, <2>8, <2>9 DEF Inv, TypeOK
  <2>11. Sent' /\ FriendsByConsent'
    BY <1>1, <2>8 DEF Inv, Sent, FriendsByConsent
  <2>12. /\ req'[w].op = r.op
         /\ req'[w].user = r.user
         /\ req'[w].id = r.id
         /\ req'[w].other = u
         /\ req'[w].pc = l
    BY <2>2, <2>7 DEF Request
  <2>13. Equipped(w)'
    BY <2>3, <2>12 DEF Equipped
  <2>14. Consenting(w)'
    BY <1>1, <2>1, <2>3, <2>5, <2>12 DEF Consenting, At
  <2>15. ASSUME NEW v \in Worker, v # w
         PROVE  Equipped(v)' /\ Consenting(v)'
    BY <1>1, <2>7, <2>8, <2>15 DEF Inv, Equipped, Consenting, At
  <2>16. QED
    BY <2>10, <2>11, <2>13, <2>14, <2>15 DEF Inv
<1>4. QED
  BY <1>2, <1>3

LEMMA InvStep ==
  ASSUME Inv, [Next]_vars
  PROVE  Inv'
<1>1. ASSUME NEW w \in Worker, Gate(w)
      PROVE  Inv'
  <2>1. UNCHANGED <<request, drawn, friends, banned, asked, agreed, loose>>
    BY <1>1 DEF Gate, history
  <2>2. CASE Done(w)
    BY <2>1, <2>2, InvDone DEF Inv, TypeOK, Sent
  <2>3. CASE Goto(w, FirstStep[req[w].op])
    <3>1. req[w] # NoRequest /\ req[w].pc = "gate" /\ req[w] \in Request
      BY <1>1 DEF Inv, TypeOK, Gate, At
    <3>2. req[w].op \in {"send", "accept", "reject", "remove"}
      BY <3>1 DEF Inv, Equipped, Request, Op
    <3>3. FriendsByConsent'
      BY <2>1 DEF Inv, FriendsByConsent
    <3>4. /\ FirstStep[req[w].op] \in {"check", "find", "unfriend"}
          /\ FirstStep[req[w].op] = "find" => req[w].op \in {"accept", "reject"}
          /\ FirstStep[req[w].op] \in {"check", "unfriend"} =>
               req[w].op \in {"send", "remove"}
      BY <3>2 DEF FirstStep
    <3>5. FirstStep[req[w].op] \in Label \ {"befriend"}
      BY <3>4 DEF Label
    <3>6. QED
      BY <2>1, <2>3, <3>1, <3>2, <3>3, <3>4, <3>5, InvGoto DEF Inv, TypeOK
  <2>4. QED
    BY <1>1, <2>2, <2>3 DEF Gate
<1>2. ASSUME NEW w \in Worker, Check(w)
      PROVE  Inv'
  <2>1. UNCHANGED <<request, drawn, friends, banned, asked, agreed, loose>>
    BY <1>2 DEF Check, history
  <2>2. CASE Done(w)
    BY <2>1, <2>2, InvDone DEF Inv, TypeOK, Sent
  <2>3. CASE Goto(w, "create")
    <3>1. req[w] # NoRequest /\ req[w].pc = "check" /\ req[w] \in Request
      BY <1>2 DEF Inv, TypeOK, Check, At
    <3>2. req[w].op \notin {"accept", "reject"}
      BY <3>1 DEF Inv, Equipped
    <3>3. FriendsByConsent'
      BY <2>1 DEF Inv, FriendsByConsent
    <3>4. QED
      BY <2>1, <2>3, <3>1, <3>2, <3>3, InvGoto DEF Inv, TypeOK, Label
  <2>4. QED
    BY <1>2, <2>2, <2>3 DEF Check
<1>3. ASSUME NEW w \in Worker, Befriend(w)
      PROVE  Inv'
  <2>1. /\ req[w] # NoRequest /\ req[w].pc = "befriend" /\ req[w] \in Request
        /\ friends' = friends \cup {{req[w].user, req[w].other}}
        /\ Goto(w, "delete")
        /\ UNCHANGED <<request, drawn, banned, asked, agreed, loose>>
    BY <1>3 DEF Inv, TypeOK, Befriend, At, history
  <2>2. /\ req[w].op \notin {"ban", "reactivate", "send", "remove"}
        /\ req[w].user \in User /\ req[w].other \in User
        /\ req[w].user # req[w].other
        /\ <<req[w].other, req[w].user>> \in asked
        /\ <<req[w].user, req[w].other>> \in agreed
    BY <2>1 DEF Inv, Equipped, Consenting, At
  <2>3. friends' \subseteq Pair
    BY <2>1, <2>2 DEF Inv, TypeOK, Pair
  <2>4. FriendsByConsent'
    BY <2>1, <2>2 DEF Inv, FriendsByConsent
  <2>5. QED
    BY <2>1, <2>2, <2>3, <2>4, InvGoto DEF Inv, TypeOK, Label
<1>4. ASSUME NEW w \in Worker, Delete(w) \/ Purge(w)
      PROVE  Inv'
  <2>1. Done(w) /\ UNCHANGED <<drawn, friends, banned, asked, agreed, loose>>
    BY <1>4 DEF Delete, Purge, history
  <2>2. /\ request' \in [Id -> FriendRequest \cup {Gone}]
        /\ \A i \in Id : request'[i] \in {request[i], Gone}
    BY <1>4 DEF Inv, TypeOK, Delete, Purge
  <2>3. Sent'
    BY <2>1, <2>2 DEF Inv, Sent
  <2>4. QED
    BY <2>1, <2>2, <2>3, InvDone DEF Inv, TypeOK
<1>5. ASSUME NEW w \in Worker, Unfriend(w) \/ Lift(w)
      PROVE  Inv'
  <2>1. /\ Done(w)
        /\ friends' \subseteq friends
        /\ banned' \subseteq banned
        /\ UNCHANGED <<request, drawn, asked, agreed, loose>>
    BY <1>5 DEF Unfriend, Lift, history
  <2>2. QED
    BY <2>1, InvDone DEF Inv, TypeOK, Sent
<1>6. ASSUME NEW w \in Worker, WriteBan(w)
      PROVE  Inv'
  <2>1. /\ req[w] # NoRequest /\ req[w].pc = "write" /\ req[w] \in Request
        /\ Goto(w, "part")
        /\ banned' = banned \cup {req[w].other}
        /\ loose' \subseteq loose \cup {req[w].other}
        /\ UNCHANGED <<request, drawn, friends, asked, agreed>>
    BY <1>6 DEF Inv, TypeOK, WriteBan, At
  <2>2. req[w].other \in User
    BY <2>1 DEF Inv, Equipped, Request, Op
  <2>3. FriendsByConsent'
    BY <2>1 DEF Inv, FriendsByConsent
  <2>4. QED
    BY <2>1, <2>2, <2>3, InvGoto DEF Inv, TypeOK, Label
<1>7. ASSUME NEW w \in Worker, Part(w)
      PROVE  Inv'
  <2>1. /\ req[w] # NoRequest /\ req[w].pc = "part" /\ req[w] \in Request
        /\ Goto(w, "purge")
        /\ friends' \subseteq friends
        /\ UNCHANGED <<request, drawn, banned, asked, agreed, loose>>
    BY <1>7 DEF Inv, TypeOK, Part, At, history
  <2>2. FriendsByConsent'
    BY <2>1 DEF Inv, FriendsByConsent
  <2>3. QED
    BY <2>1, <2>2, InvGoto DEF Inv, TypeOK, Label
<1>8. CASE UNCHANGED vars
  BY <1>8 DEF Inv, vars, TypeOK, Sent, FriendsByConsent, Equipped, Consenting,
              At
<1>9. QED
  BY <1>1, <1>2, <1>3, <1>4, <1>5, <1>6, <1>7, <1>8, InvArrive, InvCreate,
     InvFind DEF Next, Step

LEMMA Invariance == Spec => []Inv
<1>1. QED
  BY InvInit, InvStep, PTL DEF Spec

(* Every variable keeps its type, whatever the requests and their order. *)
THEOREM Typing == Spec => []TypeOK
<1>1. Inv => TypeOK
  BY DEF Inv
<1>2. QED
  BY <1>1, Invariance, PTL

(* No race of requests, bans and stale pages makes two users friends unless one
   asked and the other one accepted. *)
THEOREM Consent == Spec => []FriendsByConsent
<1>1. Inv => FriendsByConsent
  BY DEF Inv
<1>2. QED
  BY <1>1, Invariance, PTL

-----------------------------------------------------------------------------
(***************************************************************************)
(* Bans.  A request that is past the gate, or accepts what the user asked, *)
(* concerns a user; none concerns a banned one whose ban met none, so that *)
(* nothing comes back behind the two deletions.                            *)
(***************************************************************************)
Concerns(r, u) == /\ r # NoRequest
                  /\ r.pc # "gate"
                  /\ r.user = u \/ (r.op = "accept" /\ r.other = u)
Bans(r, u) == /\ r # NoRequest
              /\ r.op = "ban" /\ r.other = u
              /\ r.pc \in {"part", "purge"}

Shaped(r) == r # NoRequest =>
  /\ r.op \in {"ban", "reactivate"} => r.user = Nobody
  /\ r.pc \in {"write", "part", "purge"} => r.op = "ban"
  /\ r.pc = "befriend" => r.op = "accept"
  /\ r.op = "accept" /\ r.pc \in {"gate", "find"} => r.other = Nobody

Clean(u) ==
  /\ \A w \in Worker : ~Concerns(req[w], u)
  /\ (\A w \in Worker : Bans(req[w], u) => req[w].pc = "purge")
       => \A p \in friends : u \notin p
  /\ (\A w \in Worker : ~Bans(req[w], u))
       => \A i \in Id : request[i] # Gone => request[i].sender # u

CleanInv == /\ \A w \in Worker : Shaped(req[w])
            /\ \A u \in banned \ loose : Clean(u)

LEMMA CleanInit == Init => CleanInv
BY DEF Init, CleanInv, Shaped

Becomes(w, r) == req'[w] = r /\ \A v \in Worker : v # w => req'[v] = req[v]

LEMMA BecomesDone ==
  ASSUME Inv, NEW w \in Worker, Done(w)
  PROVE  Becomes(w, NoRequest)
BY DEF Inv, TypeOK, Done, Becomes

LEMMA BecomesGoto ==
  ASSUME Inv, NEW w \in Worker, req[w] # NoRequest, NEW l \in Label, Goto(w, l)
  PROVE  \E r \in Request : /\ Becomes(w, r) /\ r.pc = l
                            /\ r.op = req[w].op /\ r.user = req[w].user
                            /\ r.other = req[w].other /\ r.id = req[w].id
<1>1. /\ req'[w] = [req[w] EXCEPT !.pc = l]
      /\ req'[w] \in Request
      /\ \A v \in Worker : v # w => req'[v] = req[v]
  BY AfterGoto DEF Inv
<1>2. req[w] \in Request
  BY DEF Inv, TypeOK
<1>3. PICK r \in Request : r = [req[w] EXCEPT !.pc = l]
  BY <1>1
<1>4. /\ r.pc = l /\ r.op = req[w].op /\ r.user = req[w].user
      /\ r.other = req[w].other /\ r.id = req[w].id
  BY <1>2, <1>3 DEF Request
<1>5. QED
  BY <1>1, <1>3, <1>4 DEF Becomes

(* A clean user stays so in a step that is not of the user's ban and brings
   nothing of the user's back. *)
LEMMA CleanKept ==
  ASSUME NEW u, Clean(u), NEW w \in Worker, NEW r, Becomes(w, r),
         ~Concerns(r, u), ~Bans(req[w], u), ~Bans(r, u),
         \A p \in friends' : u \in p => p \in friends,
         \A i \in Id : request'[i] # Gone /\ request'[i] # request[i]
                         => request'[i].sender # u
  PROVE  Clean(u)'
<1>1. \A v \in Worker : ~Concerns(req'[v], u)
  BY DEF Clean, Becomes
<1>2. \A v \in Worker : Bans(req'[v], u) <=> Bans(req[v], u)
  BY DEF Becomes
<1>3. \A v \in Worker : Bans(req[v], u) => req'[v] = req[v]
  BY DEF Becomes
<1>4. (\A v \in Worker : Bans(req'[v], u) => req'[v].pc = "purge")
        => \A p \in friends' : u \notin p
  BY <1>2, <1>3 DEF Clean
<1>5. (\A v \in Worker : ~Bans(req'[v], u))
        => \A i \in Id : request'[i] # Gone => request'[i].sender # u
  BY <1>2 DEF Clean
<1>6. QED
  BY <1>1, <1>4, <1>5 DEF Clean, Concerns, Bans

(* So in the step of a request, of the user's or of another's, that is not of
   a ban. *)
LEMMA CleanInvKept ==
  ASSUME CleanInv, NEW w \in Worker, NEW r, Becomes(w, r), Shaped(r),
         banned' \subseteq banned, loose \subseteq loose',
         \A u \in banned \ loose' :
           /\ ~Concerns(r, u) /\ ~Bans(req[w], u) /\ ~Bans(r, u)
           /\ \A p \in friends' : u \in p => p \in friends
           /\ \A i \in Id : request'[i] # Gone /\ request'[i] # request[i]
                              => request'[i].sender # u
  PROVE  CleanInv'
<1>1. ASSUME NEW u \in banned' \ loose'
      PROVE  Clean(u)'
  BY CleanKept DEF CleanInv
<1>2. \A v \in Worker : Shaped(req[v])'
  BY DEF CleanInv, Becomes, Shaped
<1>3. QED
  BY <1>1, <1>2 DEF CleanInv

LEMMA CleanArrive ==
  ASSUME Inv, CleanInv, NEW w \in Worker, Arrive(w)
  PROVE  CleanInv'
<1> DEFINE Comes(r) ==
      /\ r.pc \in {"gate", "write", "lift"}
      /\ r.pc = "gate" => r.op \in {"send", "remove", "accept", "reject"}
      /\ r.pc = "gate" /\ r.op = "accept" => r.other = Nobody
      /\ r.pc = "write" => r.op = "ban" /\ r.user = Nobody
      /\ r.pc = "lift" => r.op = "reactivate" /\ r.user = Nobody
<1>1. PICK r : req' = [req EXCEPT ![w] = r] /\ Comes(r)
  <2>1. ASSUME NEW u, NEW v, NEW i, NEW op \in {"send", "remove", "reject"}
        PROVE  Comes([pc |-> "gate", op |-> op, user |-> u, other |-> v, id |-> i])
    OBVIOUS
  <2>2. ASSUME NEW u, NEW i
        PROVE  Comes([pc |-> "gate", op |-> "accept", user |-> u,
                      other |-> Nobody, id |-> i])
    OBVIOUS
  <2>3. ASSUME NEW v, NEW op \in {"ban", "reactivate"}
        PROVE  Comes([pc |-> IF op = "ban" THEN "write" ELSE "lift", op |-> op,
                      user |-> Nobody, other |-> v, id |-> 0])
    OBVIOUS
  <2> HIDE DEF Comes
  <2>4. QED
    BY <2>1, <2>2, <2>3 DEF Arrive
<1>2. Becomes(w, r) /\ req[w] = NoRequest
  BY <1>1 DEF Arrive, Becomes, Inv, TypeOK
<1>3. Shaped(r) /\ \A u \in User : ~Concerns(r, u) /\ ~Bans(r, u)
  BY <1>1, NobodyAssumption DEF Shaped, Concerns, Bans
<1>4. UNCHANGED <<request, friends, banned, loose>> /\ banned \subseteq User
  BY DEF Arrive, history, Inv, TypeOK
<1>5. QED
  BY <1>2, <1>3, <1>4, CleanInvKept DEF Bans

LEMMA CleanGate ==
  ASSUME Inv, CleanInv, NEW w \in Worker, Gate(w)
  PROVE  CleanInv'
<1>1. /\ req[w] # NoRequest /\ req[w].pc = "gate" /\ req[w] \in Request
      /\ UNCHANGED <<request, friends, banned, loose>>
      /\ banned \subseteq User
      /\ Shaped(req[w])
  BY DEF Gate, At, history, Inv, TypeOK, CleanInv
<1>2. req[w].op \in {"send", "accept", "reject", "remove"}
  BY <1>1 DEF Inv, Equipped, Request, Op
<1>3. CASE Done(w)
  BY <1>1, <1>3, BecomesDone, CleanInvKept DEF Shaped, Concerns, Bans
<1>4. CASE req[w].user \notin banned /\ Goto(w, FirstStep[req[w].op])
  <2>1. /\ FirstStep[req[w].op] \in {"check", "find", "unfriend"}
        /\ FirstStep[req[w].op] \in Label
    BY <1>2 DEF FirstStep, Label
  <2>2. PICK r \in Request :
          /\ Becomes(w, r) /\ r.pc \in {"check", "find", "unfriend"}
          /\ r.op = req[w].op /\ r.user = req[w].user
          /\ r.other = req[w].other
    BY <1>1, <1>4, <2>1, BecomesGoto
  <2>3. Shaped(r)
    BY <1>1, <1>2, <2>2 DEF Shaped
  <2>4. \A u \in banned : ~Concerns(r, u) /\ ~Bans(r, u) /\ ~Bans(req[w], u)
    BY <1>1, <1>2, <1>4, <2>2, NobodyAssumption DEF Shaped, Concerns, Bans
  <2>5. QED
    BY <1>1, <2>2, <2>3, <2>4, CleanInvKept
<1>5. QED
  BY <1>3, <1>4 DEF Gate

(* A request past the gate that ends, or goes on with the same parties. *)
LEMMA CleanOnward ==
  ASSUME Inv, CleanInv, NEW w \in Worker, req[w] # NoRequest,
         req[w].pc \in {"check", "create", "find", "befriend", "delete",
                        "unfriend"},
         \/ Done(w)
         \/ req[w].pc \in {"check", "befriend"}
              /\ \E l \in {"create", "delete"} : Goto(w, l),
         UNCHANGED <<banned, loose>>,
         \A p \in friends' : p \in friends \/ (/\ req[w].op = "accept"
                                               /\ p = {req[w].user, req[w].other}),
         \A i \in Id : request'[i] # Gone /\ request'[i] # request[i]
                         => request'[i].sender = req[w].user
  PROVE  CleanInv'
<1>1. /\ \A u \in banned \ loose : ~Concerns(req[w], u)
      /\ Shaped(req[w])
  BY DEF CleanInv, Clean
<1>2. \A u \in banned \ loose :
        /\ ~Bans(req[w], u)
        /\ req[w].user # u
        /\ req[w].op = "accept" => req[w].other # u
  BY <1>1 DEF Concerns, Bans
<1>3. PICK r : /\ Becomes(w, r) /\ Shaped(r)
               /\ \A u \in banned \ loose : ~Concerns(r, u) /\ ~Bans(r, u)
  <2>1. CASE Done(w)
    BY <2>1, BecomesDone DEF Shaped, Concerns, Bans
  <2>2. ASSUME NEW l \in {"create", "delete"}, Goto(w, l),
               req[w].pc \in {"check", "befriend"}
        PROVE  \E r : /\ Becomes(w, r) /\ Shaped(r)
                      /\ \A u \in banned \ loose : ~Concerns(r, u) /\ ~Bans(r, u)
    <3>1. PICK r \in Request : /\ Becomes(w, r) /\ r.pc = l
                               /\ r.op = req[w].op /\ r.user = req[w].user
                               /\ r.other = req[w].other
      BY <2>2, BecomesGoto DEF Label
    <3>2. Shaped(r)
      BY <1>1, <2>2, <3>1 DEF Shaped
    <3>3. \A u \in banned \ loose : ~Concerns(r, u) /\ ~Bans(r, u)
      BY <1>2, <2>2, <3>1 DEF Concerns, Bans
    <3>4. QED
      BY <3>1, <3>2, <3>3
  <2>3. QED
    BY <2>1, <2>2
<1>4. QED
  BY <1>2, <1>3, CleanInvKept

LEMMA CleanFind ==
  ASSUME Inv, CleanInv, NEW w \in Worker, Find(w)
  PROVE  CleanInv'
<1>1. /\ req[w] # NoRequest /\ req[w].pc = "find" /\ req[w] \in Request
      /\ UNCHANGED <<request, friends, banned>>
      /\ Shaped(req[w])
      /\ \A u \in banned \ loose : ~Concerns(req[w], u)
  BY DEF Find, At, Inv, TypeOK, CleanInv, Clean
<1>2. CASE Done(w) /\ UNCHANGED loose
  BY <1>1, <1>2, CleanOnward
<1>3. CASE ~(Done(w) /\ UNCHANGED loose)
  <2>0. PICK l \in {"befriend", "delete"} :
          l = IF req[w].op = "accept" THEN "befriend" ELSE "delete"
    OBVIOUS
  <2>1. PICK u :
          /\ Addressed(req[w].id, req[w].user)
          /\ u = request[req[w].id].sender
          /\ req' = [req EXCEPT ![w] = [req[w] EXCEPT !.pc = l, !.other = u]]
          /\ loose' = IF req[w].op = "accept" /\ Banning(u) # {}
                        THEN loose \cup {u} ELSE loose
    BY <1>3, <2>0 DEF Find
  <2>2. PICK r : r = [req[w] EXCEPT !.pc = l, !.other = u]
    OBVIOUS
  <2>3. r.pc = l /\ r.other = u /\ r.op = req[w].op /\ r.user = req[w].user
    BY <1>1, <2>2 DEF Request
  <2>4. Becomes(w, r)
    BY <2>1, <2>2 DEF Becomes, Inv, TypeOK
  <2>5. req[w].op \in {"accept", "reject"} /\ req[w].id \in Id
    <3>1. req[w].op \in Op
      BY <1>1 DEF Request
    <3>2. QED
      BY <1>1, <3>1 DEF Inv, Equipped, Op
  <2>6. Shaped(r)
    BY <2>0, <2>1, <2>3, <2>5 DEF Shaped
  <2>7. ASSUME NEW x \in banned \ loose'
        PROVE  ~Concerns(r, x) /\ ~Bans(req[w], x) /\ ~Bans(r, x)
    <3>1. x \in banned \ loose /\ req[w].user # x
      BY <1>1, <2>1 DEF Concerns
    <3>2. req[w].op = "accept" => u # x
      <4> SUFFICES ASSUME req[w].op = "accept", u = x
                   PROVE  FALSE
        OBVIOUS
      <4>1. Banning(x) = {}
        BY <2>1
      <4>2. \A v \in Worker : ~Bans(req[v], x)
        BY <4>1 DEF Banning, Bans
      <4>3. request[req[w].id].sender # x
        BY <2>1, <2>5, <3>1, <4>2 DEF CleanInv, Clean, Addressed
      <4>4. QED
        BY <2>1, <4>3
    <3>3. QED
      BY <1>1, <2>1, <2>3, <2>5, <3>1, <3>2 DEF Concerns, Bans
  <2>8. banned' \subseteq banned /\ loose \subseteq loose'
    BY <1>1, <2>1
  <2>9. QED
    BY <1>1, <2>4, <2>6, <2>7, <2>8, CleanInvKept
<1>4. QED
  BY <1>2, <1>3

\* The steps of a ban of v: they write, part and purge for v alone.
LEMMA CleanBan ==
  ASSUME Inv, CleanInv, NEW w \in Worker, WriteBan(w) \/ Part(w) \/ Purge(w)
  PROVE  CleanInv'
<1>1. /\ req[w] # NoRequest /\ req[w].op = "ban" /\ req[w].user = Nobody
      /\ req[w].pc \in {"write", "part", "purge"}
      /\ banned \subseteq User /\ loose \subseteq User
  BY DEF WriteBan, Part, Purge, At, Inv, TypeOK, CleanInv, Shaped
<1>2. PICK v \in User : v = req[w].other
  BY <1>1 DEF Inv, Equipped
<1>3. PICK r : /\ Becomes(w, r)
               /\ \/ Purge(w) /\ r = NoRequest
                  \/ /\ r # NoRequest /\ r.op = "ban"
                     /\ r.user = Nobody /\ r.other = v
                     /\ \/ WriteBan(w) /\ r.pc = "part"
                        \/ Part(w) /\ r.pc = "purge"
  <2>1. CASE Purge(w)
    BY <2>1, BecomesDone DEF Purge
  <2>2. CASE WriteBan(w)
    BY <1>1, <1>2, <2>2, BecomesGoto, NoRequestAssumption DEF WriteBan, Label
  <2>3. CASE Part(w)
    BY <1>1, <1>2, <2>3, BecomesGoto, NoRequestAssumption DEF Part, Label
  <2>4. QED
    BY <2>1, <2>2, <2>3
<1>4. Shaped(r) /\ \A u \in User : ~Concerns(r, u)
  BY <1>3, NobodyAssumption DEF Shaped, Concerns
<1>5. /\ banned' \subseteq banned \cup {v}
      /\ \A u \in User : u # v => (u \in loose <=> u \in loose')
      /\ v \in banned' \ loose' =>
           \/ v \in banned \ loose
           \/ WriteBan(w) /\ Involved(v) = {}
      /\ friends' \subseteq friends
      /\ \A i \in Id : request'[i] \in {request[i], Gone}
  <2>1. CASE WriteBan(w)
    BY <1>2, <2>1 DEF WriteBan
  <2>2. CASE Part(w) \/ Purge(w)
    BY <1>2, <2>2 DEF Part, Purge, history, Inv, TypeOK
  <2>3. QED
    BY <1>1, <2>1, <2>2
<1>6. ASSUME NEW u \in banned' \ loose', u # v
      PROVE  Clean(u)'
  <2>1. Clean(u) /\ u \in User
    BY <1>1, <1>5, <1>6 DEF CleanInv
  <2>2. ~Bans(req[w], u) /\ ~Bans(r, u)
    BY <1>2, <1>3, <1>6 DEF Bans
  <2>3. QED
    BY <1>3, <1>4, <1>5, <2>1, <2>2, CleanKept
<1>7. ASSUME v \in banned' \ loose'
      PROVE  Clean(v)'
  <2>1. \A x \in Worker : x # w => ~Concerns(req[x], v)
    <3>1. CASE v \in banned \ loose
      BY <3>1 DEF CleanInv, Clean
    <3>2. CASE Involved(v) = {}
      BY <3>2 DEF Involved, Concerns
    <3>3. QED
      BY <1>5, <1>7, <3>1, <3>2
  <2>2. \A x \in Worker : ~Concerns(req'[x], v)
    BY <1>3, <1>4, <2>1 DEF Becomes
  <2>3. CASE WriteBan(w)
    <3>1. req'[w] = r /\ Bans(r, v) /\ r.pc = "part"
      BY <1>3, <2>3 DEF Becomes, Bans, WriteBan, Part, Purge, At
    <3>2. QED
      BY <2>2, <3>1 DEF Clean, Concerns, Bans
  <2>4. CASE Part(w)
    <3>1. req'[w] = r /\ Bans(r, v)
      BY <1>3, <2>4 DEF Becomes, Bans, WriteBan, Part, Purge, At
    <3>2. \A p \in friends' : v \notin p
      BY <1>2, <2>4 DEF Part
    <3>3. QED
      BY <2>2, <3>1, <3>2 DEF Clean, Concerns, Bans
  <2>5. CASE Purge(w)
    <3>1. /\ req'[w] = NoRequest /\ req[w].pc = "purge"
          /\ UNCHANGED <<friends, banned, loose>>
      BY <1>3, <2>5 DEF Becomes, WriteBan, Part, Purge, At, history
    <3>2. \A i \in Id : request'[i] # Gone => request'[i].sender # v
      BY <1>2, <2>5 DEF Purge
    <3>3. Clean(v)
      BY <1>7, <3>1 DEF CleanInv
    <3>4. (\A x \in Worker : Bans(req'[x], v) => req'[x].pc = "purge")
            => \A p \in friends' : v \notin p
      BY <1>3, <3>1, <3>3 DEF Clean, Becomes
    <3>5. QED
      BY <2>2, <3>2, <3>4 DEF Clean, Concerns, Bans
  <2>6. QED
    BY <2>3, <2>4, <2>5
<1>8. \A x \in Worker : Shaped(req[x])'
  BY <1>3, <1>4 DEF CleanInv, Becomes, Shaped
<1>9. QED
  BY <1>6, <1>7, <1>8 DEF CleanInv

LEMMA CleanStep ==
  ASSUME Inv, CleanInv, [Next]_vars
  PROVE  CleanInv'
<1>1. ASSUME NEW w \in Worker, Check(w) \/ Befriend(w) \/ Delete(w) \/ Unfriend(w)
      PROVE  CleanInv'
  <2>1. /\ req[w] # NoRequest
        /\ req[w].pc \in {"check", "befriend", "delete", "unfriend"}
        /\ UNCHANGED <<banned, loose>>
        /\ Shaped(req[w])
    BY <1>1 DEF Check, Befriend, Delete, Unfriend, At, history, CleanInv
  <2>2. \/ Done(w)
        \/ req[w].pc \in {"check", "befriend"}
             /\ \E l \in {"create", "delete"} : Goto(w, l)
    BY <1>1 DEF Check, Befriend, Delete, Unfriend, At
  <2>3. \A p \in friends' : p \in friends \/ (/\ req[w].op = "accept"
                                              /\ p = {req[w].user, req[w].other})
    BY <1>1, <2>1 DEF Check, Befriend, Delete, Unfriend, At, Shaped
  <2>4. \A i \in Id : request'[i] \in {request[i], Gone}
    BY <1>1 DEF Check, Befriend, Delete, Unfriend, Inv, TypeOK
  <2>5. QED
    BY <2>1, <2>2, <2>3, <2>4, CleanOnward
<1>2. ASSUME NEW w \in Worker, Create(w)
      PROVE  CleanInv'
  <2>1. /\ req[w] # NoRequest /\ req[w].pc = "create" /\ Done(w)
        /\ UNCHANGED <<friends, banned, loose>>
    BY <1>2 DEF Create, At
  <2>2. \A i \in Id : request'[i] # Gone /\ request'[i] # request[i]
                        => request'[i].sender = req[w].user
    BY <1>2 DEF Create, Inv, TypeOK
  <2>3. QED
    BY <2>1, <2>2, CleanOnward
<1>3. ASSUME NEW w \in Worker, Lift(w)
      PROVE  CleanInv'
  <2>1. /\ Becomes(w, NoRequest) /\ req[w].pc = "lift"
        /\ banned' \subseteq banned
        /\ UNCHANGED <<request, friends, loose>>
    BY <1>3, BecomesDone DEF Lift, At, history
  <2>2. QED
    BY <2>1, CleanInvKept DEF Shaped, Concerns, Bans
<1>4. CASE UNCHANGED vars
  BY <1>4 DEF vars, CleanInv, Clean, Concerns, Bans, Shaped
<1>5. QED
  BY <1>1, <1>2, <1>3, <1>4, CleanArrive, CleanGate, CleanFind, CleanBan
     DEF Next, Step

(* A ban that met no request of the user leaves no friendship and no request
   of the user's behind, and none appears while it stands, however its two
   deletions overlap with other requests, other bans and reactivations
   (moderation/moderation_service.py, ban_user). *)
THEOREM Banishment == Spec => []BanIsClean
<1>1. CleanInv => BanIsClean
  BY DEF CleanInv, Clean, BanIsClean, Banning, Bans
<1>2. Spec => []CleanInv
  BY CleanInit, CleanStep, Invariance, PTL DEF Spec
<1>3. QED
  BY <1>1, <1>2, PTL
=============================================================================
