---------------------------- MODULE SocialGraph ----------------------------
(***************************************************************************)
(* Friend requests, friendships, and the ban that is to remove them all.   *)
(*                                                                         *)
(* Sources: social/models.py (FriendRequest, Friendship), social/views.py  *)
(* (send, accept, reject, remove) and moderation/moderation_service.py     *)
(* (ban_user, reactivate_user).  A worker serves one request; each of its  *)
(* steps is one ORM statement with the Python that follows it.             *)
(***************************************************************************)
EXTENDS Naturals, FiniteSets

CONSTANTS User,
          Worker,      \* threads of the server
          Nobody,      \* a moderator, or no other user
          Gone,        \* a friend request that is not in the table
          NoRequest,   \* an idle worker
          MaxRequests  \* bound: friend requests ever sent


VARIABLES
  request,   \* the FriendRequest table, by primary key
  drawn,     \* how many primary keys were given out
  friends,   \* the Friendship table: unordered pairs
  banned,    \* users whose AccountState is banned
  req,       \* the request that each worker serves
  asked,     \* history: <<u, v>> when u asked v
  agreed,    \* history: <<v, u>> when v accepted a request of u
  loose      \* history: users whose ban met a request that involved them

vars == <<request, drawn, friends, banned, req, asked, agreed, loose>>
history == <<asked, agreed, loose>>

Id == 1..MaxRequests
FriendRequest == [sender : User, receiver : User]
Pair == {{u, v} : u \in User, v \in User}
Label == {"gate", "check", "create", "find", "befriend", "delete", "unfriend",
          "write", "part", "purge", "lift"}
Op == {"send", "accept", "reject", "remove", "ban", "reactivate"}
Request == [pc : Label, op : Op, user : User \cup {Nobody},
            other : User \cup {Nobody}, id : Id \cup {0}]

ASSUME NobodyAssumption == Nobody \notin User
ASSUME GoneAssumption == Gone \notin FriendRequest
ASSUME NoRequestAssumption == NoRequest \notin Request

Init == /\ request = [i \in Id |-> Gone]
        /\ drawn = 0
        /\ friends = {}
        /\ banned = {}
        /\ req = [w \in Worker |-> NoRequest]
        /\ asked = {}
        /\ agreed = {}
        /\ loose = {}

At(w, label) == req[w] # NoRequest /\ req[w].pc = label
Goto(w, label) == req' = [req EXCEPT ![w].pc = label]
Done(w) == req' = [req EXCEPT ![w] = NoRequest]

\* A request of u that is past the gate, or one that accepts a request of u.
Involved(u) == {w \in Worker : /\ req[w] # NoRequest
                               /\ req[w].pc # "gate"
                               /\ \/ req[w].user = u
                                  \/ req[w].op = "accept" /\ req[w].other = u}

Banning(u) == {w \in Worker : req[w] # NoRequest /\ req[w].op = "ban"
                                /\ req[w].other = u
                                /\ req[w].pc \in {"part", "purge"}}

\* Bound: a request is sent only when there is a key for it.
Room == drawn + Cardinality({w \in Worker : req[w] # NoRequest
                                             /\ req[w].op = "send"}) < MaxRequests

(***************************************************************************)
(* Requests, and the middleware that refuses those of banned users.        *)
(***************************************************************************)
Arrive(w) ==
  /\ req[w] = NoRequest
  /\ \/ \E u \in User, v \in User, op \in {"send", "remove"} :
          /\ u # v
          /\ op = "send" => Room
          /\ req' = [req EXCEPT ![w] = [pc |-> "gate", op |-> op, user |-> u,
                                        other |-> v, id |-> 0]]
     \/ \E u \in User, i \in Id, op \in {"accept", "reject"} :
          /\ i <= drawn
          /\ req' = [req EXCEPT ![w] = [pc |-> "gate", op |-> op, user |-> u,
                                        other |-> Nobody, id |-> i]]
     \/ \E v \in User, op \in {"ban", "reactivate"} :
          req' = [req EXCEPT ![w] =
                    [pc |-> IF op = "ban" THEN "write" ELSE "lift", op |-> op,
                     user |-> Nobody, other |-> v, id |-> 0]]
  /\ UNCHANGED <<request, drawn, friends, banned, history>>

FirstStep == [send |-> "check", accept |-> "find", reject |-> "find",
              remove |-> "unfriend"]

Gate(w) == /\ At(w, "gate")
           /\ IF req[w].user \in banned THEN Done(w)
                                        ELSE Goto(w, FirstStep[req[w].op])
           /\ UNCHANGED <<request, drawn, friends, banned, history>>

(***************************************************************************)
(* send_friend_request: are_friends, then get_or_create.                   *)
(***************************************************************************)
Check(w) == /\ At(w, "check")
            /\ IF {req[w].user, req[w].other} \in friends
                 THEN Done(w) ELSE Goto(w, "create")
            /\ UNCHANGED <<request, drawn, friends, banned, history>>

Create(w) ==
  LET fr == [sender |-> req[w].user, receiver |-> req[w].other] IN
  /\ At(w, "create")
  /\ \/ /\ \E i \in Id : request[i] = fr
        /\ UNCHANGED <<request, drawn, asked>>
     \/ /\ \A i \in Id : request[i] # fr
        /\ drawn' = drawn + 1
        /\ request' = [request EXCEPT ![drawn'] = fr]
        /\ asked' = asked \cup {<<fr.sender, fr.receiver>>}
  /\ Done(w)
  /\ UNCHANGED <<friends, banned, agreed, loose>>

(***************************************************************************)
(* accept_friend_request and reject_friend_request.                        *)
(***************************************************************************)
\* Slip: the request is looked up by its primary key alone.
Find_AnyReceiver(w) ==
  LET r == req[w] IN
  /\ At(w, "find")
  /\ \/ /\ request[r.id] = Gone
        /\ Done(w)
        /\ UNCHANGED <<agreed, loose>>
     \/ /\ request[r.id] # Gone
        /\ LET u == request[r.id].sender IN
           /\ req' = [req EXCEPT ![w] =
                [r EXCEPT !.pc = IF r.op = "accept" THEN "befriend" ELSE "delete",
                          !.user = request[r.id].receiver, !.other = u]]
           /\ agreed' = IF r.op = "accept" THEN agreed \cup {<<r.user, u>>}
                                           ELSE agreed
           /\ loose' = IF Banning(u) # {} THEN loose \cup {u} ELSE loose
  /\ UNCHANGED <<request, drawn, friends, banned, asked>>

Addressed(i, u) == request[i] # Gone /\ request[i].receiver = u

\* The request must be there and addressed to the user.
Find(w) ==
  LET r == req[w] IN
  /\ At(w, "find")
  /\ \/ /\ ~Addressed(r.id, r.user)
        /\ Done(w)
        /\ UNCHANGED <<agreed, loose>>
     \/ /\ Addressed(r.id, r.user)
        /\ LET u == request[r.id].sender IN
           /\ req' = [req EXCEPT ![w] =
                [r EXCEPT !.pc = IF r.op = "accept" THEN "befriend" ELSE "delete",
                          !.other = u]]
           /\ agreed' = IF r.op = "accept" THEN agreed \cup {<<r.user, u>>}
                                           ELSE agreed
           /\ loose' = IF r.op = "accept" /\ Banning(u) # {}
                         THEN loose \cup {u} ELSE loose
  /\ UNCHANGED <<request, drawn, friends, banned, asked>>

\* Slip: the id of the request in the place of its sender's.
Befriend_WrongId(w) ==
  /\ At(w, "befriend")
  /\ friends' = friends \cup {{req[w].user, req[w].id}}
  /\ Goto(w, "delete")
  /\ UNCHANGED <<request, drawn, banned, history>>

\* Friendship.create: get_or_create of the pair, in either order.
Befriend(w) == /\ At(w, "befriend")
               /\ friends' = friends \cup {{req[w].user, req[w].other}}
               /\ Goto(w, "delete")
               /\ UNCHANGED <<request, drawn, banned, history>>

\* The row goes by its primary key; it may be gone already.
Delete(w) == /\ At(w, "delete")
             /\ request' = [request EXCEPT ![req[w].id] = Gone]
             /\ Done(w)
             /\ UNCHANGED <<drawn, friends, banned, history>>

\* remove_friend
Unfriend(w) == /\ At(w, "unfriend")
               /\ friends' = friends \ {{req[w].user, req[w].other}}
               /\ Done(w)
               /\ UNCHANGED <<request, drawn, banned, history>>

(***************************************************************************)
(* ban_user: the status, then remove_all_for; and reactivate_user.         *)
(***************************************************************************)
WriteBan(w) ==
  LET v == req[w].other IN
  /\ At(w, "write")
  /\ banned' = banned \cup {v}
  /\ loose' = IF Involved(v) # {} THEN loose \cup {v} ELSE loose \ {v}
  /\ Goto(w, "part")
  /\ UNCHANGED <<request, drawn, friends, asked, agreed>>

Part(w) == /\ At(w, "part")
           /\ friends' = {p \in friends : req[w].other \notin p}
           /\ Goto(w, "purge")
           /\ UNCHANGED <<request, drawn, banned, history>>

\* Slip: only the requests to the banned user are deleted.
Purge_ReceivedOnly(w) ==
  /\ At(w, "purge")
  /\ request' = [i \in Id |->
       IF request[i] # Gone /\ req[w].other = request[i].receiver
         THEN Gone ELSE request[i]]
  /\ Done(w)
  /\ UNCHANGED <<drawn, friends, banned, history>>

Purge(w) ==
  /\ At(w, "purge")
  /\ request' = [i \in Id |->
       IF request[i] # Gone /\ req[w].other \in {request[i].sender,
                                                 request[i].receiver}
         THEN Gone ELSE request[i]]
  /\ Done(w)
  /\ UNCHANGED <<drawn, friends, banned, history>>

Lift(w) == /\ At(w, "lift")
           /\ banned' = banned \ {req[w].other}
           /\ Done(w)
           /\ UNCHANGED <<request, drawn, friends, history>>

Step(w) == \/ Gate(w) \/ Check(w) \/ Create(w) \/ Find(w) \/ Befriend(w)
           \/ Delete(w) \/ Unfriend(w)
           \/ WriteBan(w) \/ Part(w) \/ Purge(w) \/ Lift(w)

Next == \E w \in Worker : Arrive(w) \/ Step(w)

Spec == Init /\ [][Next]_vars

-----------------------------------------------------------------------------
(* Every variable has its type. *)
TypeOK ==
  /\ request \in [Id -> FriendRequest \cup {Gone}]
  /\ drawn \in Nat
  /\ friends \subseteq Pair
  /\ banned \subseteq User
  /\ req \in [Worker -> Request \cup {NoRequest}]
  /\ asked \subseteq User \X User
  /\ agreed \subseteq User \X User
  /\ loose \subseteq User

(* Two users are friends only if one asked and that other one accepted: no
   third party, no stale request and no race makes a friendship alone
   (social/views.py, lines 92 to 94). *)
FriendsByConsent ==
  \A p \in friends : \E u \in p, v \in p :
    u # v /\ <<u, v>> \in asked /\ <<v, u>> \in agreed

(* A ban that met no request of the user in flight leaves no friendship and no
   request of the user's behind, and while it stands none appears: nobody can
   accept what was asked before, and the user can ask nothing. *)
BanIsClean ==
  \A u \in banned \ loose : Banning(u) = {} =>
    /\ \A p \in friends : u \notin p
    /\ \A i \in Id : request[i] # Gone => request[i].sender # u
=============================================================================
