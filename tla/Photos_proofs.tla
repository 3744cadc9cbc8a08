---------------------------- MODULE Photos_proofs ----------------------------
(***************************************************************************)
(* Proofs about Profiles and Photos, for any number of workers and         *)
(* pictures, and either role that seed_demo may give.                      *)
(***************************************************************************)
EXTENDS Photos, TLAPS

(***************************************************************************)
(* The invariant, request by request.                                      *)
(***************************************************************************)
\* Which requests reach a program point.
Labelled(r) ==
  /\ r.pc \in {"user", "profile", "two"} => r.op \in Making
  /\ r.pc = "password" => r.op = "seed"
  /\ r.pc = "photo" => r.op = "google"
  /\ r.pc = "insert" => r.op = "send"
  /\ r.pc \in {"gate", "load", "forget"} => r.op = "edit"
  /\ r.pc = "save" => r.op \in {"edit", "seed"}
  /\ r.pc = "attach" => r.op \in {"edit", "send"}
  /\ r.pc \in {"demote", "lookup", "open", "avatars", "seal_avatar", "messages",
               "seal_message", "delete", "insert", "seal_post"}
       => r.op \notin Making \cup {"edit"}

\* What is there when a request reaches it.
Grounded(r) ==
  /\ r.pc \in {"profile", "two"} /\ r.op # "seed" => user = "ready"
  /\ r.pc = "photo" => user = "ready" /\ two = TRUE
  /\ r.pc \in {"two", "photo", "save", "forget", "demote", "seal_avatar"}
       => profile # Absent
  /\ r.pc = "attach" /\ r.op = "edit" => profile # Absent
  /\ r.pc = "attach" /\ r.op = "send" => message # Absent
  /\ r.pc = "seal_message" => message # Absent

\* What a request holds of the rows it loaded.
Loaded(r) ==
  /\ r.pc \in {"lookup", "open"} => r.held \in Key
  /\ r.pc = "save" => r.held \in Row
  /\ r.pc = "save" /\ ~r.late => SamePhoto(profile, r.held)
  /\ r.pc = "seal_avatar" /\ ~r.late => profile.photo = None
  /\ r.pc = "load" /\ ~r.risen => RoleOf(profile) = "user"
  /\ r.pc = "save" /\ r.op = "edit" /\ ~r.risen => r.held.role = "user"

AvatarSealed == undone \/ profile = Absent \/ profile.name # "file"
                       \/ profile.photo # None
MessageSealed == message = Absent \/ message.name # "file"
                                  \/ message.photo # None

\* What secure_media has done when it deletes files.
Secured(r) ==
  /\ r.pc \in {"messages", "seal_message", "delete"} => AvatarSealed
  /\ r.pc = "delete" => MessageSealed

Fits(r) == r # NoRequest => Labelled(r) /\ Grounded(r) /\ Loaded(r) /\ Secured(r)

(***************************************************************************)
(* The invariant.                                                          *)
(***************************************************************************)
\* What is cached for a tag was opened from the blob of that tag.
CacheTrue == \A e \in cache : e.picture = e.key.tag

\* A worker that makes the account and has found or made its user.
Past(r) == r # NoRequest /\ r.op \in Making /\ r.pc # "user"

Complete == user # "absent" => Whole \/ broken \/ \E w \in Worker : Past(req[w])
Bare == user = "bare" => broken \/ \E w \in Worker : At(w, "password")

Inv == /\ TypeOK
       /\ SealedBeforeDeleted
       /\ \A w \in Worker : Fits(req[w])

\* What else the properties rest on; no step needs it to keep Inv.
Rest == CacheTrue /\ Complete /\ Bare /\ AttachmentOrTorn

LEMMA InitInv == Init => Inv /\ Rest
<1> SUFFICES ASSUME Init PROVE Inv /\ Rest
  OBVIOUS
<1>1. \/ /\ user = "absent" /\ two = FALSE
         /\ profile = Absent
         /\ drawn = 1
      \/ /\ user = "ready" /\ two = TRUE
         /\ profile \in Row
         /\ profile.name = "file" /\ profile.photo = None
         /\ drawn = 2
  BY DEF Init, ProfilesInit, Plain, Row, Role, Name, Picture, None
<1>2. /\ cache = {} /\ req = [w \in Worker |-> NoRequest]
      /\ broken = FALSE /\ undone = FALSE /\ torn = FALSE
  BY DEF Init, ProfilesInit
<1>3. \/ /\ profile = Absent /\ disk = {}
         /\ message = Absent /\ post = Absent
      \/ /\ profile # Absent /\ disk = File
         /\ message = [name |-> "file", photo |-> None] /\ post = "file"
  BY DEF Init
<1>4. message = Absent \/ (message \in Message /\ message.name = "file")
  BY <1>3 DEF Message, Name, None
<1>5. user = "absent" \/ (user = "ready" /\ Whole)
  BY <1>1, AbsentAssumption, Zenon DEF Whole
<1>6. TypeOK
  <2>1. user \in {"absent", "bare", "ready"} /\ drawn \in Nat
    BY <1>1
  <2>2. two \in BOOLEAN /\ broken \in BOOLEAN /\ undone \in BOOLEAN
        /\ torn \in BOOLEAN
    BY <1>1, <1>2, Zenon
  <2>3. QED
    BY <1>1, <1>2, <1>3, <1>4, <2>1, <2>2 DEF TypeOK
<1>7. SealedBeforeDeleted
  BY <1>3, <1>4 DEF SealedBeforeDeleted, File
<1>8. \A w \in Worker : Fits(req[w])
  BY <1>2 DEF Fits
<1>9. Rest
  BY <1>2, <1>4, <1>5 DEF Rest, CacheTrue, Complete, Bare, AttachmentOrTorn
<1>10. QED
  BY <1>6, <1>7, <1>8, <1>9 DEF Inv

(***************************************************************************)
(* How a step changes requests.                                            *)
(***************************************************************************)
\* Only w's request changes, to r.
Moves(w, r) == req' = [req EXCEPT ![w] = r]

LEMMA Going ==
  ASSUME Inv, NEW w \in Worker, req[w] # NoRequest, NEW l \in Step, Goto(w, l)
  PROVE  \E r \in Request : /\ Moves(w, r)
                            /\ r.pc = l
                            /\ r.op = req[w].op
                            /\ r.held = req[w].held
                            /\ r.late = req[w].late
                            /\ r.risen = req[w].risen
<1>1. req[w] \in Request
  BY DEF Inv, TypeOK
<1> DEFINE r == [req[w] EXCEPT !.pc = l]
<1>2. /\ r \in Request
      /\ r.pc = l
      /\ r.op = req[w].op
      /\ r.held = req[w].held
      /\ r.late = req[w].late
      /\ r.risen = req[w].risen
  BY <1>1 DEF Request
<1>3. Moves(w, r)
  BY DEF Goto, Moves
<1>4. QED
  BY <1>2, <1>3

LEMMA Beginning ==
  ASSUME NEW w \in Worker, NEW o \in Op, NEW l \in Step, Begin(w, o, l)
  PROVE  /\ req[w] = NoRequest
         /\ \E r \in Request : /\ Moves(w, r)
                               /\ r.pc = l
                               /\ r.op = o
                               /\ ~r.late
                               /\ ~r.risen
<1> DEFINE r == [pc |-> l, op |-> o, held |-> Absent, late |-> FALSE, risen |-> FALSE]
<1>1. r \in Request
  BY DEF Request
<1>2. req[w] = NoRequest /\ Moves(w, r)
  BY DEF Begin, Moves
<1>3. QED
  BY <1>1, <1>2

(* Requests fit when one of them changed and what they rest on stays. *)
LEMMA OneRequest ==
  ASSUME Inv, NEW w \in Worker, NEW r \in Request \cup {NoRequest},
         Moves(w, r), Fits(r)',
         user = "ready" => user' = "ready",
         two => two',
         UNCHANGED <<profile, undone>>,
         message # Absent => message' # Absent,
         MessageSealed => MessageSealed'
  PROVE  /\ req' \in [Worker -> Request \cup {NoRequest}]
         /\ \A v \in Worker : Fits(req[v])'
<1>1. req \in [Worker -> Request \cup {NoRequest}] /\ two \in BOOLEAN
  BY DEF Inv, TypeOK
<1>2. req'[w] = r /\ \A v \in Worker : v # w => req'[v] = req[v]
  BY <1>1 DEF Moves
<1>3. ASSUME NEW v \in Worker, v # w
      PROVE  Fits(req[v])'
  <2> DEFINE q == req[v]
  <2>1. Fits(q) /\ q' = q
    BY <1>2, <1>3 DEF Inv
  <2>2. CASE q = NoRequest
    BY <2>1, <2>2 DEF Fits
  <2>3. CASE q # NoRequest
    <3>1. Labelled(q)' /\ Loaded(q)'
      BY <2>1, <2>3 DEF Fits, Labelled, Loaded, SamePhoto, RoleOf
    <3>2. Grounded(q)'
      BY <2>1, <2>3 DEF Fits, Grounded
    <3>3. Secured(q)'
      BY <2>1, <2>3 DEF Fits, Secured, AvatarSealed
    <3>4. QED
      BY <3>1, <3>2, <3>3 DEF Fits
  <2>4. QED
    BY <2>2, <2>3
<1>4. QED
  BY <1>1, <1>2, <1>3 DEF Moves

(* They also fit when w wrote the profile: the others noted it. *)
LEMMA Noted ==
  ASSUME Inv, NEW w \in Worker, NEW new, NEW next, Write(w, new, next),
         NEW v \in Worker, v # w, req[v] # NoRequest
  PROVE  LET q == req[v] IN
         /\ q' \in Request
         /\ q'.pc = q.pc /\ q'.op = q.op /\ q'.held = q.held
         /\ q'.late <=> (q.late \/ (q.pc \in {"save", "seal_avatar"}
                                      /\ ~SamePhoto(profile, new)))
         /\ q'.risen <=> (q.risen \/ (q.op = "edit" /\ q.pc = "load"
                                        /\ RoleOf(profile) = "user"
                                        /\ new.role = "admin"))
<1> DEFINE q == req[v]
           late == q.late \/ (q.pc \in {"save", "seal_avatar"}
                                /\ ~SamePhoto(profile, new))
           risen == q.risen \/ (q.op = "edit" /\ q.pc = "load"
                                  /\ RoleOf(profile) = "user"
                                  /\ new.role = "admin")
<1>1. q \in Request
  BY DEF Inv, TypeOK
<1>2. q' = [q EXCEPT !.late = late, !.risen = risen]
  BY DEF Write
<1>3. late \in BOOLEAN /\ risen \in BOOLEAN
  BY <1>1 DEF Request
<1> HIDE DEF late, risen, q
<1>4. /\ q' \in Request
      /\ q'.pc = q.pc /\ q'.op = q.op /\ q'.held = q.held
      /\ q'.late = late /\ q'.risen = risen
  BY <1>1, <1>2, <1>3 DEF Request
<1>5. QED
  BY <1>4 DEF late, risen, q

LEMMA Writing ==
  ASSUME Inv, NEW w \in Worker, NEW new \in Row,
         NEW next \in Request \cup {NoRequest}, Write(w, new, next), Fits(next)',
         UNCHANGED <<user, two, message>>, AvatarSealed => AvatarSealed'
  PROVE  /\ req' \in [Worker -> Request \cup {NoRequest}]
         /\ \A v \in Worker : Fits(req[v])'
<1>1. req'[w] = next /\ profile' = new /\ profile' # Absent
  BY AbsentAssumption DEF Write
<1>2. ASSUME NEW v \in Worker, v # w
      PROVE  req'[v] \in Request \cup {NoRequest} /\ Fits(req[v])'
  <2> DEFINE q == req[v]
  <2>1. CASE q = NoRequest
    <3>1. q' = NoRequest
      BY <1>2, <2>1 DEF Write
    <3>2. QED
      BY <3>1 DEF Fits
  <2>2. CASE q # NoRequest
    <3>1. /\ q' \in Request
          /\ q'.pc = q.pc /\ q'.op = q.op /\ q'.held = q.held
          /\ q'.late <=> (q.late \/ (q.pc \in {"save", "seal_avatar"}
                                      /\ ~SamePhoto(profile, new)))
          /\ q'.risen <=> (q.risen \/ (q.op = "edit" /\ q.pc = "load"
                                        /\ RoleOf(profile) = "user"
                                        /\ new.role = "admin"))
      BY <1>2, <2>2, Noted
    <3>2. Labelled(q) /\ Grounded(q) /\ Loaded(q) /\ Secured(q)
      BY <2>2 DEF Inv, Fits
    <3> HIDE DEF q
    <3>3. Labelled(q)'
      BY <3>1, <3>2 DEF Labelled
    <3>4. Grounded(q)'
      BY <1>1, <3>1, <3>2 DEF Grounded
    <3>5. Loaded(q)'
      <4>1. new.role \in {"user", "admin"}
        BY DEF Row, Role
      <4>2. (q.pc = "save" /\ ~q.late => SamePhoto(profile, q.held))'
        BY <1>1, <3>1, <3>2 DEF Loaded, SamePhoto
      <4>3. (q.pc = "seal_avatar" /\ ~q.late => profile.photo = None)'
        BY <1>1, <3>1, <3>2 DEF Loaded, SamePhoto
      <4>4. (q.pc = "load" /\ ~q.risen => RoleOf(profile) = "user")'
        BY <1>1, <3>1, <3>2, <4>1 DEF Loaded, RoleOf, Labelled
      <4>5. QED
        BY <3>1, <3>2, <4>2, <4>3, <4>4 DEF Loaded
    <3>6. Secured(q)'
      BY <3>1, <3>2 DEF Secured, MessageSealed
    <3>7. QED
      BY <3>1, <3>3, <3>4, <3>5, <3>6 DEF Fits, q
  <2>3. QED
    BY <2>1, <2>2
<1>3. req' \in [Worker -> Request \cup {NoRequest}]
  <2>1. req' = [v \in Worker |-> req'[v]]
    BY DEF Write
  <2>2. \A v \in Worker : req'[v] \in Request \cup {NoRequest}
    BY <1>1, <1>2
  <2>3. QED
    BY <2>1, <2>2
<1>4. QED
  BY <1>1, <1>2, <1>3

(* Steps that only move one request. *)
LEMMA Control ==
  ASSUME Inv, NEW w \in Worker, NEW r \in Request \cup {NoRequest},
         Moves(w, r), Fits(r)',
         UNCHANGED <<row, drawn, cache, broken, undone, files>>
  PROVE  Inv'
<1>1. UNCHANGED <<user, two, profile, drawn, cache, broken, undone,
                  disk, message, post, torn>>
  BY DEF row, files
<1>2. MessageSealed => MessageSealed'
  BY <1>1 DEF MessageSealed
<1>3. /\ req' \in [Worker -> Request \cup {NoRequest}]
      /\ \A v \in Worker : Fits(req[v])'
  BY <1>1, <1>2, OneRequest
<1>4. TypeOK'
  BY <1>1, <1>3 DEF Inv, TypeOK
<1>5. SealedBeforeDeleted'
  BY <1>1 DEF Inv, SealedBeforeDeleted
<1>6. QED
  BY <1>3, <1>4, <1>5 DEF Inv

LEMMA Ended == Fits(NoRequest)'
BY DEF Fits

LEMMA Idle ==
  ASSUME Inv, NEW w \in Worker, Done(w),
         UNCHANGED <<row, drawn, cache, broken, undone, files>>
  PROVE  Inv'
BY Control, Ended DEF Done, Moves

LEMMA Begun ==
  ASSUME Inv, NEW w \in Worker, NEW o \in Op, NEW l \in Step, Begin(w, o, l),
         <<o, l>> \in (Making \X {"user"}) \cup
           {<<"edit", "gate">>, <<"send", "insert">>, <<"secure", "avatars">>,
            <<"backfill", "seal_post">>}
         \/ (<<o, l>> = <<"remove", "demote">> /\ profile # Absent),
         UNCHANGED <<row, drawn, cache, broken, undone, files>>
  PROVE  Inv'
<1>1. PICK r \in Request : Moves(w, r) /\ r.pc = l /\ r.op = o
  BY Beginning
<1>2. Labelled(r)'
  BY <1>1 DEF Labelled, Making
<1>3. Grounded(r)'
  BY <1>1 DEF Grounded, row
<1>4. Loaded(r)' /\ Secured(r)'
  BY <1>1 DEF Loaded, Secured
<1>5. Fits(r)'
  BY <1>2, <1>3, <1>4 DEF Fits
<1>6. QED
  BY <1>1, <1>5, Control

LEMMA BeginInv ==
  ASSUME Inv, NEW w \in Worker,
         \/ (Make(w) \/ Edit(w) \/ Remove(w)) /\ UNCHANGED files
         \/ Send(w) \/ Secure(w) \/ Backfill(w)
  PROVE  Inv'
<1> USE DEF Op, Making, Step
<1>1. CASE Make(w) /\ UNCHANGED files
  BY <1>1, Begun DEF Make
<1>2. CASE Edit(w) /\ UNCHANGED files
  BY <1>2, Begun DEF Edit
<1>3. CASE Remove(w) /\ UNCHANGED files
  BY <1>3, Begun DEF Remove, RoleOf
<1>4. CASE Send(w)
  BY <1>4, Begun DEF Send
<1>5. CASE Secure(w)
  BY <1>5, Begun DEF Secure
<1>6. CASE Backfill(w)
  BY <1>6, Begun DEF Backfill
<1>7. QED
  BY <1>1, <1>2, <1>3, <1>4, <1>5, <1>6

LEMMA ViewOfInv ==
  ASSUME Inv, NEW w \in Worker, NEW subject \in Subject, NEW photo \in Picture,
         ViewOf(w, subject, photo), UNCHANGED files
  PROVE  Inv'
<1> DEFINE r == [pc |-> "lookup", op |-> "view",
                 held |-> [subject |-> subject, tag |-> photo],
                 late |-> FALSE, risen |-> FALSE]
<1>1. r \in Request /\ r.held \in Key
  BY DEF Request, Step, Op, Key
<1>2. Moves(w, r)
  BY DEF ViewOf, Moves
<1>3. Fits(r)'
  BY <1>1 DEF Fits, Labelled, Grounded, Loaded, Secured, Making
<1>4. QED
  BY <1>1, <1>2, <1>3, Control DEF ViewOf

LEMMA ViewInv ==
  ASSUME Inv, NEW w \in Worker, (View(w) /\ UNCHANGED files) \/ ViewMessage(w)
  PROVE  Inv'
<1>1. CASE View(w) /\ UNCHANGED files
  <2>1. profile.photo \in Picture
    BY <1>1 DEF View, ViewOf, Inv, TypeOK, Row
  <2>2. QED
    BY <1>1, <2>1, ViewOfInv DEF View, Subject
<1>2. CASE ViewMessage(w)
  <2>1. message.photo \in Picture
    BY <1>2 DEF ViewMessage, ViewOf, Inv, TypeOK, Message
  <2>2. QED
    BY <1>2, <2>1, ViewOfInv DEF ViewMessage, Subject
<1>3. QED
  BY <1>1, <1>2

LEMMA GateInv ==
  ASSUME Inv, NEW w \in Worker, Gate(w), UNCHANGED files
  PROVE  Inv'
<1>1. req[w] # NoRequest /\ req[w].pc = "gate" /\ Fits(req[w])
  BY DEF Gate, At, Inv
<1>2. CASE RoleOf(profile) = "admin"
  BY <1>2, Idle DEF Gate
<1>3. CASE RoleOf(profile) # "admin"
  <2>1. "load" \in Step /\ Goto(w, "load")
    BY <1>3 DEF Gate, Step
  <2>2. PICK r \in Request : Moves(w, r) /\ r.pc = "load" /\ r.op = req[w].op
    BY <1>1, <2>1, Going
  <2>3. RoleOf(profile) = "user" /\ profile' = profile
    BY <1>3 DEF Gate, row, RoleOf, Inv, TypeOK, Row, Role
  <2>4. Fits(r)'
    BY <1>1, <2>2, <2>3
    DEF Fits, Labelled, Grounded, Loaded, Secured, Making, RoleOf
  <2>5. QED
    BY <2>2, <2>4, Control DEF Gate
<1>4. QED
  BY <1>2, <1>3

LEMMA LookupInv ==
  ASSUME Inv, NEW w \in Worker, Lookup(w), UNCHANGED files
  PROVE  Inv'
<1>1. req[w] # NoRequest /\ req[w].pc = "lookup" /\ Fits(req[w])
  BY DEF Lookup, At, Inv
<1>2. CASE Hit(w) # {}
  BY <1>2, Idle DEF Lookup
<1>3. CASE Hit(w) = {}
  <2>1. "open" \in Step /\ Goto(w, "open")
    BY <1>3 DEF Lookup, Step
  <2>2. PICK r \in Request : /\ Moves(w, r) /\ r.pc = "open"
                             /\ r.op = req[w].op /\ r.held = req[w].held
    BY <1>1, <2>1, Going
  <2>3. Fits(r)'
    BY <1>1, <2>2 DEF Fits, Labelled, Grounded, Loaded, Secured, Making
  <2>4. QED
    BY <2>2, <2>3, Control DEF Lookup
<1>4. QED
  BY <1>2, <1>3

LEMMA InspectAvatarInv ==
  ASSUME Inv, NEW w \in Worker, InspectAvatar(w)
  PROVE  Inv'
<1> DEFINE l == IF Unsealed(profile, "avatar") THEN "seal_avatar" ELSE "messages"
<1>1. req[w] # NoRequest /\ req[w].pc = "avatars" /\ Fits(req[w])
  BY DEF InspectAvatar, At, Inv
<1>2. l \in Step /\ Goto(w, l)
  BY DEF InspectAvatar, Goto, Step
<1>3. PICK r \in Request : /\ Moves(w, r) /\ r.pc = l
                           /\ r.op = req[w].op /\ r.held = req[w].held
  BY <1>1, <1>2, Going
<1>4. UNCHANGED <<user, two, profile, undone, message>>
  BY DEF InspectAvatar, row, files
<1>5. CASE Unsealed(profile, "avatar")
  <2>1. profile # Absent /\ profile.photo = None /\ r.pc = "seal_avatar"
    BY <1>3, <1>5 DEF Unsealed
  <2>2. Fits(r)'
    BY <1>1, <1>3, <1>4, <2>1
    DEF Fits, Labelled, Grounded, Loaded, Secured, Making
  <2>3. QED
    BY <1>3, <2>2, Control DEF InspectAvatar
<1>6. CASE ~Unsealed(profile, "avatar")
  <2>1. AvatarSealed /\ r.pc = "messages"
    BY <1>3, <1>6 DEF Unsealed, Inv, SealedBeforeDeleted, AvatarSealed
  <2>2. AvatarSealed'
    BY <1>4, <2>1 DEF AvatarSealed
  <2>3. Fits(r)'
    BY <1>1, <1>3, <2>1, <2>2
    DEF Fits, Labelled, Grounded, Loaded, Secured, Making
  <2>4. QED
    BY <1>3, <2>3, Control DEF InspectAvatar
<1>7. QED
  BY <1>5, <1>6

LEMMA InspectMessageInv ==
  ASSUME Inv, NEW w \in Worker, InspectMessage(w)
  PROVE  Inv'
<1>1. /\ req[w] # NoRequest /\ req[w].pc = "messages"
      /\ Labelled(req[w]) /\ Secured(req[w])
  BY DEF InspectMessage, At, Inv, Fits
<1>2. UNCHANGED <<user, two, profile, undone, message>>
  BY DEF InspectMessage, row, files
<1>3. AvatarSealed'
  BY <1>1, <1>2 DEF Secured, AvatarSealed
<1>4. CASE Unsealed(message, "message") /\ Goto(w, "seal_message")
  <2>1. PICK r \in Request : /\ Moves(w, r) /\ r.pc = "seal_message"
                             /\ r.op = req[w].op
    BY <1>1, <1>4, Going DEF Step
  <2>2. message' # Absent
    BY <1>2, <1>4 DEF Unsealed
  <2>3. Fits(r)'
    BY <1>1, <1>3, <2>1, <2>2
    DEF Fits, Labelled, Grounded, Loaded, Secured, Making
  <2>4. QED
    BY <2>1, <2>3, Control DEF InspectMessage
<1>5. CASE ~Unsealed(message, "message") /\ Goto(w, "delete")
  <2>1. PICK r \in Request : /\ Moves(w, r) /\ r.pc = "delete"
                             /\ r.op = req[w].op
    BY <1>1, <1>5, Going DEF Step
  <2>2. MessageSealed'
    BY <1>2, <1>5 DEF Unsealed, MessageSealed, Inv, SealedBeforeDeleted
  <2>3. Fits(r)'
    BY <1>1, <1>3, <2>1, <2>2
    DEF Fits, Labelled, Grounded, Loaded, Secured, Making
  <2>4. QED
    BY <2>1, <2>3, Control DEF InspectMessage
<1>6. CASE Done(w)
  BY <1>6, Idle DEF InspectMessage
<1>7. QED
  BY <1>4, <1>5, <1>6 DEF InspectMessage

(***************************************************************************)
(* Steps that change rows, the cache or files.                             *)
(***************************************************************************)
LEMMA AddUserInv ==
  ASSUME Inv, NEW w \in Worker, AddUser(w), UNCHANGED files
  PROVE  Inv'
<1>1. /\ req[w] # NoRequest /\ req[w].pc = "user"
      /\ Labelled(req[w])
      /\ user \in {"absent", "bare", "ready"}
  BY DEF AddUser, At, Inv, Fits, TypeOK
<1>2. UNCHANGED <<two, profile, drawn, cache, broken, undone,
                  disk, message, post, torn>>
  BY DEF AddUser, files
<1>3. /\ user' \in {"absent", "bare", "ready"}
      /\ user = "ready" => user' = "ready"
      /\ \/ Goto(w, "password") /\ req[w].op = "seed"
         \/ Goto(w, "profile") /\ (req[w].op = "seed" \/ user' = "ready")
         \/ Done(w)
  BY <1>1 DEF AddUser
<1>4. ASSUME NEW r \in Request \cup {NoRequest}, Moves(w, r), Fits(r)'
      PROVE  Inv'
  <2>1. MessageSealed => MessageSealed'
    BY <1>2 DEF MessageSealed
  <2>2. /\ req' \in [Worker -> Request \cup {NoRequest}]
        /\ \A v \in Worker : Fits(req[v])'
    BY <1>2, <1>3, <1>4, <2>1, OneRequest
  <2>3. TypeOK'
    BY <1>2, <1>3, <2>2 DEF Inv, TypeOK
  <2>4. QED
    BY <1>2, <2>2, <2>3 DEF Inv, SealedBeforeDeleted
<1>5. CASE Goto(w, "password") /\ req[w].op = "seed"
  <2>1. PICK r \in Request : /\ Moves(w, r) /\ r.pc = "password"
                             /\ r.op = req[w].op
    BY <1>1, <1>5, Going DEF Step
  <2>2. Fits(r)'
    BY <1>5, <2>1 DEF Fits, Labelled, Grounded, Loaded, Secured
  <2>3. QED
    BY <1>4, <2>1, <2>2
<1>6. CASE Goto(w, "profile") /\ (req[w].op = "seed" \/ user' = "ready")
  <2>1. PICK r \in Request : /\ Moves(w, r) /\ r.pc = "profile"
                             /\ r.op = req[w].op
    BY <1>1, <1>6, Going DEF Step
  <2>2. Fits(r)'
    BY <1>1, <1>6, <2>1 DEF Fits, Labelled, Grounded, Loaded, Secured
  <2>3. QED
    BY <1>4, <2>1, <2>2
<1>7. CASE Done(w)
  BY <1>4, <1>7, Ended DEF Done, Moves
<1>8. QED
  BY <1>3, <1>5, <1>6, <1>7

LEMMA SetPasswordInv ==
  ASSUME Inv, NEW w \in Worker, SetPassword(w), UNCHANGED files
  PROVE  Inv'
<1>1. /\ req[w] # NoRequest /\ req[w].pc = "password"
      /\ Labelled(req[w])
  BY DEF SetPassword, At, Inv, Fits
<1>2. /\ user' = "ready"
      /\ UNCHANGED <<two, profile, drawn, cache, broken, undone,
                     disk, message, post, torn>>
  BY DEF SetPassword, files
<1>3. PICK r \in Request : /\ Moves(w, r) /\ r.pc = "profile"
                           /\ r.op = req[w].op
  BY <1>1, Going DEF SetPassword, Step
<1>4. Fits(r)'
  BY <1>1, <1>3 DEF Fits, Labelled, Grounded, Loaded, Secured, Making
<1>5. MessageSealed => MessageSealed'
  BY <1>2 DEF MessageSealed
<1>6. /\ req' \in [Worker -> Request \cup {NoRequest}]
      /\ \A v \in Worker : Fits(req[v])'
  BY <1>2, <1>3, <1>4, <1>5, OneRequest
<1>7. TypeOK'
  BY <1>2, <1>6 DEF Inv, TypeOK
<1>8. QED
  BY <1>2, <1>6, <1>7 DEF Inv, SealedBeforeDeleted

(* A new version of the profile, for the steps below: all that is left is   *)
(* what becomes of w and whether the avatar stays sealed.                   *)
LEMMA Written ==
  ASSUME Inv, NEW w \in Worker, NEW new \in Row,
         NEW next \in Request \cup {NoRequest}, Write(w, new, next), Fits(next)',
         UNCHANGED <<user, two, cache, message, disk, post, torn>>,
         drawn' \in Nat, undone' \in BOOLEAN, broken' \in BOOLEAN,
         AvatarSealed => AvatarSealed',
         \/ AvatarSealed'
         \/ profile # Absent /\ undone' = undone
              /\ new.name = profile.name /\ new.photo = profile.photo
  PROVE  Inv'
<1>1. /\ req' \in [Worker -> Request \cup {NoRequest}]
      /\ \A v \in Worker : Fits(req[v])'
  BY Writing
<1>2. profile' = new
  BY DEF Write
<1>3. TypeOK'
  BY <1>1, <1>2 DEF Inv, TypeOK
<1>4. SealedBeforeDeleted'
  <2>1. (message # Absent /\ message.name = "file" /\ message.photo = None
           => "message" \in disk)'
    BY DEF Inv, SealedBeforeDeleted
  <2>2. (~undone /\ profile # Absent /\ profile.name = "file"
           /\ profile.photo = None => "avatar" \in disk)'
    BY <1>2 DEF Inv, SealedBeforeDeleted, AvatarSealed
  <2>3. QED
    BY <2>1, <2>2 DEF SealedBeforeDeleted
<1>5. QED
  BY <1>1, <1>3, <1>4 DEF Inv

LEMMA PlainRow ==
  ASSUME NEW role \in Role
  PROVE  /\ Plain(role) \in Row
         /\ Plain(role).name = "none"
         /\ Plain(role).role = role
BY DEF Plain, Row, Name

\* A request that goes on with other values of three fields.
LEMMA Goes ==
  ASSUME Inv, NEW w \in Worker, req[w] # NoRequest, NEW l \in Step
  PROVE  \E r \in Request : /\ r = [req[w] EXCEPT !.pc = l]
                            /\ r.pc = l /\ r.op = req[w].op
                            /\ r.held = req[w].held
                            /\ r.late = req[w].late /\ r.risen = req[w].risen
<1>1. req[w] \in Request
  BY DEF Inv, TypeOK
<1> DEFINE r == [req[w] EXCEPT !.pc = l]
<1>2. /\ r \in Request
      /\ r.pc = l /\ r.op = req[w].op /\ r.held = req[w].held
      /\ r.late = req[w].late /\ r.risen = req[w].risen
  BY <1>1 DEF Request
<1>3. QED
  BY <1>2

LEMMA AddProfileInv ==
  ASSUME Inv, NEW w \in Worker, AddProfile(w), UNCHANGED files
  PROVE  Inv'
<1>1. /\ req[w] # NoRequest /\ req[w].pc = "profile"
      /\ Labelled(req[w]) /\ Grounded(req[w])
      /\ broken \in BOOLEAN /\ undone \in BOOLEAN /\ drawn \in Nat
      /\ two \in BOOLEAN
  BY DEF AddProfile, At, Inv, Fits, TypeOK
<1>2. UNCHANGED <<user, two, drawn, cache, undone, disk, message, post, torn>>
  BY DEF AddProfile, files
<1>3. CASE profile = Absent
  <2> DEFINE new == Plain(IF req[w].op = "create_admin" THEN "admin" ELSE "user")
  <2>1. new \in Row /\ new.name = "none"
    BY PlainRow DEF Role
  <2>2. PICK r \in Request : /\ r = [req[w] EXCEPT !.pc = "two"]
                             /\ r.pc = "two" /\ r.op = req[w].op
    BY <1>1, Goes DEF Step
  <2>3. Write(w, new, r) /\ broken' = broken
    BY <1>3, <2>2 DEF AddProfile
  <2>4. profile' = new
    BY <2>3 DEF Write
  <2> HIDE DEF new
  <2>5. AvatarSealed' /\ profile' # Absent
    BY <2>1, <2>4, AbsentAssumption DEF AvatarSealed
  <2>6. Fits(r)'
    BY <1>1, <1>2, <2>2, <2>5 DEF Fits, Labelled, Grounded, Loaded, Secured
  <2>7. QED
    BY <1>1, <1>2, <2>1, <2>3, <2>5, <2>6, Written
<1>4. CASE profile # Absent
  <2>1. /\ Moves(w, NoRequest) /\ profile' = profile
        /\ broken' = (broken \/ ~two)
    BY <1>4 DEF AddProfile, Done, Moves
  <2>2. broken' \in BOOLEAN
    BY <2>1, Zenon
  <2>3. MessageSealed => MessageSealed'
    BY <1>2 DEF MessageSealed
  <2>4. /\ req' \in [Worker -> Request \cup {NoRequest}]
        /\ \A v \in Worker : Fits(req[v])'
    BY <1>2, <2>1, <2>3, Ended, OneRequest
  <2>5. TypeOK'
    BY <1>2, <2>1, <2>2, <2>4 DEF Inv, TypeOK
  <2>6. QED
    BY <1>2, <2>1, <2>4, <2>5 DEF Inv, SealedBeforeDeleted
<1>5. QED
  BY <1>3, <1>4

LEMMA AddTwoInv ==
  ASSUME Inv, NEW w \in Worker, AddTwo(w), UNCHANGED files
  PROVE  Inv'
<1>1. /\ req[w] # NoRequest /\ req[w].pc = "two"
      /\ Labelled(req[w]) /\ Grounded(req[w])
  BY DEF AddTwo, At, Inv, Fits
<1>2. /\ two' = TRUE
      /\ UNCHANGED <<user, profile, drawn, cache, broken, undone,
                     disk, message, post, torn>>
  BY DEF AddTwo, files
<1>3. ASSUME NEW r \in Request \cup {NoRequest}, Moves(w, r), Fits(r)'
      PROVE  Inv'
  <2>1. MessageSealed => MessageSealed'
    BY <1>2 DEF MessageSealed
  <2>2. /\ req' \in [Worker -> Request \cup {NoRequest}]
        /\ \A v \in Worker : Fits(req[v])'
    BY <1>2, <1>3, <2>1, OneRequest
  <2>3. two' \in BOOLEAN
    BY <1>2, Zenon
  <2>4. TypeOK'
    BY <1>2, <2>2, <2>3 DEF Inv, TypeOK
  <2>5. QED
    BY <1>2, <2>2, <2>4 DEF Inv, SealedBeforeDeleted
<1>4. CASE Goto(w, "photo") /\ req[w].op = "google"
  <2>1. PICK r \in Request : Moves(w, r) /\ r.pc = "photo" /\ r.op = "google"
    BY <1>1, <1>4, Going DEF Step
  <2>2. user = "ready" /\ profile # Absent
    BY <1>1, <1>4 DEF Grounded
  <2>3. Fits(r)'
    BY <1>2, <2>1, <2>2 DEF Fits, Labelled, Grounded, Loaded, Secured, Making
  <2>4. QED
    BY <1>3, <2>1, <2>3
<1>5. CASE Done(w)
  BY <1>3, <1>5, Ended DEF Done, Moves
<1>6. QED
  BY <1>4, <1>5 DEF AddTwo

LEMMA AddPhotoInv ==
  ASSUME Inv, NEW w \in Worker, AddPhoto(w), UNCHANGED files
  PROVE  Inv'
<1>1. /\ req[w] # NoRequest /\ req[w].pc = "photo"
      /\ Grounded(req[w]) /\ profile \in Row \cup {Absent}
      /\ drawn \in Nat /\ broken \in BOOLEAN
  BY DEF AddPhoto, At, Inv, Fits, TypeOK
<1>2. UNCHANGED <<user, two, cache, broken, disk, message, post, torn>>
  BY DEF AddPhoto, files
<1>3. CASE Done(w) /\ UNCHANGED <<profile, drawn, undone>>
  BY <1>2, <1>3, Idle DEF row, files
<1>4. CASE Room /\ WriteNew(w, [profile EXCEPT !.name = "upload",
                                               !.photo = drawn'], NoRequest)
  <2> DEFINE new == [profile EXCEPT !.name = "upload", !.photo = drawn']
  <2>1. drawn' \in Picture /\ undone' = FALSE /\ Write(w, new, NoRequest)
    BY <1>1, <1>4 DEF WriteNew, Picture
  <2>2. profile \in Row
    BY <1>1 DEF Grounded
  <2>3. new \in Row /\ new.name = "upload"
    BY <2>1, <2>2 DEF Row, Name
  <2>4. profile' = new
    BY <2>1 DEF Write
  <2> HIDE DEF new
  <2>5. AvatarSealed'
    BY <2>3, <2>4 DEF AvatarSealed
  <2>6. drawn' \in Nat /\ undone' \in BOOLEAN /\ broken' \in BOOLEAN
    BY <1>1, <1>2, <2>1 DEF Picture
  <2>7. QED
    BY <1>2, <2>1, <2>3, <2>5, <2>6, Ended, Written
<1>5. QED
  BY <1>3, <1>4 DEF AddPhoto

\* ... that has loaded p, ...
LEMMA GoesLoaded ==
  ASSUME Inv, NEW w \in Worker, req[w] # NoRequest, NEW p \in Row
  PROVE  \E r \in Request : /\ r = [req[w] EXCEPT !.pc = "save", !.held = p]
                            /\ r.pc = "save" /\ r.op = req[w].op /\ r.held = p
                            /\ r.late = req[w].late /\ r.risen = req[w].risen
<1>1. req[w] \in Request
  BY DEF Inv, TypeOK
<1> DEFINE r == [req[w] EXCEPT !.pc = "save", !.held = p]
<1>2. /\ r \in Request
      /\ r.pc = "save" /\ r.op = req[w].op /\ r.held = p
      /\ r.late = req[w].late /\ r.risen = req[w].risen
  BY <1>1 DEF Request, Step
<1>3. QED
  BY <1>2

\* ... and that has saved.
LEMMA GoesSaved ==
  ASSUME Inv, NEW w \in Worker, req[w] # NoRequest, NEW l \in Step
  PROVE  \E r \in Request : /\ r = [req[w] EXCEPT !.pc = l, !.late = FALSE]
                            /\ r.pc = l /\ r.op = req[w].op
                            /\ r.held = req[w].held
<1>1. req[w] \in Request
  BY DEF Inv, TypeOK
<1> DEFINE r == [req[w] EXCEPT !.pc = l, !.late = FALSE]
<1>2. r \in Request /\ r.pc = l /\ r.op = req[w].op /\ r.held = req[w].held
  BY <1>1 DEF Request
<1>3. QED
  BY <1>2

LEMMA LoadProfileInv ==
  ASSUME Inv, NEW w \in Worker, LoadProfile(w), UNCHANGED files
  PROVE  Inv'
<1>1. /\ req[w] \in Request /\ req[w] # NoRequest
      /\ req[w].pc = "load" \/ (req[w].pc = "profile" /\ req[w].op = "seed")
      /\ Labelled(req[w]) /\ Loaded(req[w])
      /\ profile \in Row \cup {Absent}
      /\ drawn \in Nat /\ broken \in BOOLEAN /\ undone \in BOOLEAN
  BY DEF LoadProfile, At, Inv, Fits, TypeOK
<1>2. UNCHANGED <<user, two, drawn, cache, broken, undone,
                  disk, message, post, torn>>
  BY DEF LoadProfile, files
<1>3. PICK p \in Row :
        /\ p = IF profile = Absent THEN Plain("user") ELSE profile
        /\ \/ p = profile
           \/ profile = Absent /\ p.name = "none" /\ p.role = "user"
  BY <1>1, PlainRow DEF Role
<1>4. PICK r \in Request :
        /\ r = [req[w] EXCEPT !.pc = "save", !.held = p]
        /\ r.pc = "save" /\ r.op = req[w].op /\ r.held = p
        /\ r.late = req[w].late /\ r.risen = req[w].risen
  BY <1>1, GoesLoaded
<1>5. Write(w, p, r)
  BY <1>3, <1>4 DEF LoadProfile
<1>6. profile' = p /\ profile' # Absent
  BY <1>5, AbsentAssumption DEF Write
<1>7. AvatarSealed => AvatarSealed'
  BY <1>2, <1>3, <1>6 DEF AvatarSealed
<1>8. \/ AvatarSealed'
      \/ profile # Absent /\ p.name = profile.name /\ p.photo = profile.photo
  BY <1>3, <1>6 DEF AvatarSealed
<1>9. r.op = "edit" /\ ~r.risen => r.held.role = "user"
  <2>1. r.op = req[w].op /\ r.held = p /\ (r.risen <=> req[w].risen)
    BY <1>4, Zenon
  <2>2. req[w].op = "edit" /\ ~req[w].risen => RoleOf(profile) = "user"
    BY <1>1 DEF Loaded
  <2>3. RoleOf(profile) = "user" => p.role = "user"
    BY <1>3, AbsentAssumption DEF RoleOf
  <2>4. QED
    BY <2>1, <2>2, <2>3, Zenon
<1>10. Fits(r)'
  <2>1. r.op \in {"edit", "seed"}
    BY <1>1, <1>4 DEF Labelled
  <2>2. Labelled(r)' /\ Grounded(r)' /\ Secured(r)'
    BY <1>4, <1>6, <2>1 DEF Labelled, Grounded, Secured
  <2>3. Loaded(r)'
    BY <1>4, <1>6, <1>9 DEF Loaded, SamePhoto
  <2>4. QED
    BY <2>2, <2>3 DEF Fits
<1>11. QED
  BY <1>1, <1>2, <1>5, <1>7, <1>8, <1>10, Written

(* Saving what was loaded: if nobody has replaced the photo since, it stays; *)
(* if somebody has, undone says so.                                          *)
LEMMA SavedLate ==
  ASSUME Inv, NEW w \in Worker, NEW new \in Row,
         NEW next \in Request \cup {NoRequest}, WriteLate(w, new, next),
         Fits(next)', UNCHANGED <<user, two, drawn, cache, broken, files>>,
         At(w, "save"), new.photo = req[w].held.photo,
         new.name \in {req[w].held.name, "none", "upload"}
  PROVE  Inv'
<1>1. /\ req[w] \in Request /\ req[w] # NoRequest /\ req[w].pc = "save"
      /\ Grounded(req[w]) /\ Loaded(req[w])
      /\ undone \in BOOLEAN /\ broken \in BOOLEAN /\ drawn \in Nat
  BY DEF At, Inv, Fits, TypeOK
<1>2. /\ Write(w, new, next) /\ profile' = new
      /\ undone' = (undone \/ (req[w].late /\ ~SamePhoto(profile, new)))
  BY DEF WriteLate, Write
<1>3. profile # Absent
  BY <1>1 DEF Grounded
<1>4. \/ SamePhoto(profile, new)
      \/ undone'
      \/ new.name # "file"
  BY <1>1, <1>2, <1>3 DEF Loaded, SamePhoto
<1>5. undone' \in BOOLEAN /\ undone => undone'
  BY <1>1, <1>2, Zenon
<1>6. SamePhoto(profile, new) => (undone' <=> undone)
  BY <1>1, <1>2, Zenon
<1>7. AvatarSealed => AvatarSealed'
  BY <1>2, <1>3, <1>4, <1>5, <1>6 DEF AvatarSealed, SamePhoto
<1>8. \/ AvatarSealed'
      \/ undone' = undone /\ new.name = profile.name /\ new.photo = profile.photo
  BY <1>1, <1>2, <1>4, <1>5, <1>6 DEF AvatarSealed, SamePhoto
<1>9. QED
  BY <1>1, <1>2, <1>3, <1>5, <1>7, <1>8, Written DEF files

LEMMA SaveEditInv ==
  ASSUME Inv, NEW w \in Worker, SaveEdit(w), UNCHANGED files
  PROVE  Inv'
<1>1. /\ req[w] \in Request /\ req[w] # NoRequest /\ req[w].pc = "save"
      /\ req[w].op = "edit"
      /\ Grounded(req[w]) /\ Loaded(req[w]) /\ req[w].held \in Row
  BY DEF SaveEdit, At, Inv, Fits, TypeOK, Loaded
<1>2. UNCHANGED <<user, two, drawn, cache, broken, files>>
  BY DEF SaveEdit
<1>3. ASSUME NEW name \in {req[w].held.name, "none"},
             WriteLate(w, [req[w].held EXCEPT !.name = name], NoRequest)
      PROVE  Inv'
  <2> DEFINE new == [req[w].held EXCEPT !.name = name]
  <2>1. new \in Row /\ new.photo = req[w].held.photo /\ new.name = name
    BY <1>1 DEF Row, Name
  <2> HIDE DEF new
  <2>2. WriteLate(w, new, NoRequest)
    BY <1>3 DEF new
  <2>3. QED
    BY <1>2, <2>1, <2>2, Ended, SavedLate DEF SaveEdit
<1>4. ASSUME WriteLate(w, [req[w].held EXCEPT !.name = "upload"],
                       [req[w] EXCEPT !.pc = "forget", !.late = FALSE])
      PROVE  Inv'
  <2> DEFINE new == [req[w].held EXCEPT !.name = "upload"]
  <2>1. new \in Row /\ new.photo = req[w].held.photo /\ new.name = "upload"
    BY <1>1 DEF Row, Name
  <2>2. "forget" \in Step
    BY DEF Step
  <2>3. PICK r \in Request : /\ r = [req[w] EXCEPT !.pc = "forget", !.late = FALSE]
                             /\ r.pc = "forget" /\ r.op = req[w].op
                             /\ r.held = req[w].held
    BY <1>1, <2>2, GoesSaved, Zenon
  <2>4. WriteLate(w, new, r)
    BY <1>4, <2>3, Zenon
  <2> HIDE DEF new
  <2>5. profile' # Absent
    BY <2>1, <2>4, AbsentAssumption DEF WriteLate, Write
  <2>6. r.pc = "forget" /\ r.op = "edit"
    BY <1>1, <2>3, Zenon
  <2>7. Fits(r)'
    BY <2>5, <2>6 DEF Fits, Labelled, Grounded, Loaded, Secured
  <2>8. QED
    BY <1>2, <2>1, <2>4, <2>7, SavedLate DEF SaveEdit
<1>5. QED
  BY <1>3, <1>4 DEF SaveEdit

LEMMA SaveSeedInv ==
  ASSUME Inv, NEW w \in Worker, SaveSeed(w), UNCHANGED files
  PROVE  Inv'
<1> DEFINE new == [req[w].held EXCEPT !.role = SeedRole]
<1>1. /\ req[w] \in Request /\ req[w] # NoRequest /\ req[w].pc = "save"
      /\ req[w].op = "seed" /\ req[w].held \in Row
  BY DEF SaveSeed, At, Inv, Fits, TypeOK, Loaded
<1>2. UNCHANGED <<user, two, drawn, cache, broken, files>>
  BY DEF SaveSeed
<1>3. /\ new \in Row /\ new.photo = req[w].held.photo
      /\ new.name = req[w].held.name
  BY <1>1, SeedRoleAssumption DEF Row
<1>4. "two" \in Step
  BY DEF Step
<1>5. PICK r \in Request : /\ r = [req[w] EXCEPT !.pc = "two", !.late = FALSE]
                           /\ r.pc = "two" /\ r.op = req[w].op
                           /\ r.held = req[w].held
  BY <1>1, <1>4, GoesSaved, Zenon
<1>6. WriteLate(w, new, r)
  BY <1>5, Zenon DEF SaveSeed
<1> HIDE DEF new
<1>7. profile' # Absent
  BY <1>3, <1>6, AbsentAssumption DEF WriteLate, Write
<1>8. r.pc = "two" /\ r.op = "seed"
  BY <1>1, <1>5, Zenon
<1>9. Fits(r)'
  BY <1>7, <1>8 DEF Fits, Labelled, Grounded, Loaded, Secured, Making
<1>10. QED
  BY <1>2, <1>3, <1>6, <1>9, SavedLate DEF SaveSeed

(* Steps that leave the account alone. *)
LEMMA Aside ==
  ASSUME Inv, NEW w \in Worker, NEW r \in Request \cup {NoRequest},
         Moves(w, r), Fits(r)',
         UNCHANGED <<row, undone>>,
         drawn' \in Nat, cache' \subseteq Entry, broken' \in BOOLEAN,
         disk' \subseteq File, torn' \in BOOLEAN,
         message' \in Message \cup {Absent}, post' \in {Absent, "file", "sealed"},
         message # Absent => message' # Absent,
         MessageSealed => MessageSealed',
         SealedBeforeDeleted'
  PROVE  Inv'
<1>1. UNCHANGED <<user, two, profile, undone>>
  BY DEF row
<1>2. /\ req' \in [Worker -> Request \cup {NoRequest}]
      /\ \A v \in Worker : Fits(req[v])'
  BY <1>1, OneRequest
<1>3. TypeOK'
  BY <1>1, <1>2 DEF Inv, TypeOK
<1>4. QED
  BY <1>2, <1>3 DEF Inv

\* ... and the messages and files.
LEMMA CacheStep ==
  ASSUME Inv, NEW w \in Worker, NEW r \in Request \cup {NoRequest},
         Moves(w, r), Fits(r)', cache' \subseteq Entry,
         UNCHANGED <<row, drawn, broken, undone, files>>
  PROVE  Inv'
<1>1. UNCHANGED <<user, two, profile, drawn, broken, undone,
                  disk, message, post, torn>>
  BY DEF row, files
<1>2. SealedBeforeDeleted'
  BY <1>1 DEF Inv, SealedBeforeDeleted
<1>3. MessageSealed => MessageSealed'
  BY <1>1 DEF MessageSealed
<1>4. QED
  BY <1>1, <1>2, <1>3, Aside DEF Inv, TypeOK

LEMMA ForgetInv ==
  ASSUME Inv, NEW w \in Worker, Forget(w), UNCHANGED files
  PROVE  Inv'
<1>1. /\ req[w] # NoRequest /\ req[w].pc = "forget"
      /\ Labelled(req[w]) /\ Grounded(req[w])
  BY DEF Forget, At, Inv, Fits
<1>2. cache' \subseteq Entry
  BY DEF Forget, Inv, TypeOK
<1>3. PICK r \in Request : /\ Moves(w, r) /\ r.pc = "attach"
                           /\ r.op = req[w].op
  BY <1>1, Going DEF Forget, Step
<1>4. r.op = "edit" /\ profile # Absent
  BY <1>1, <1>3 DEF Labelled, Grounded
<1>5. profile' = profile
  BY DEF Forget, row
<1>6. Fits(r)'
  BY <1>3, <1>4, <1>5 DEF Fits, Labelled, Grounded, Loaded, Secured
<1>7. QED
  BY <1>2, <1>3, <1>6, CacheStep DEF Forget

LEMMA AttachInv ==
  ASSUME Inv, NEW w \in Worker, Attach(w), UNCHANGED files
  PROVE  Inv'
<1>1. /\ Grounded(req[w]) /\ profile \in Row \cup {Absent}
      /\ req[w].pc = "attach" /\ req[w].op = "edit"
      /\ drawn \in Nat /\ broken \in BOOLEAN
  BY DEF Attach, At, Inv, Fits, TypeOK
<1>2. UNCHANGED <<user, two, cache, broken, disk, message, post, torn>>
  BY DEF Attach, files
<1> DEFINE new == [profile EXCEPT !.photo = drawn']
<1>3. drawn' = drawn + 1 /\ undone' = FALSE /\ Write(w, new, NoRequest)
  BY DEF Attach, WriteNew
<1>4. profile \in Row
  BY <1>1 DEF Grounded
<1>5. new \in Row /\ new.photo # None
  BY <1>1, <1>3, <1>4 DEF Row, Picture, None
<1>6. profile' = new
  BY <1>3 DEF Write
<1> HIDE DEF new
<1>7. AvatarSealed'
  BY <1>5, <1>6 DEF AvatarSealed
<1>8. drawn' \in Nat /\ broken' \in BOOLEAN
  BY <1>1, <1>2, <1>3
<1>9. undone' \in BOOLEAN
  BY <1>3, Zenon
<1>10. QED
  BY <1>2, <1>3, <1>5, <1>7, <1>8, <1>9, Ended, Written

LEMMA DemoteInv ==
  ASSUME Inv, NEW w \in Worker, Demote(w), UNCHANGED files
  PROVE  Inv'
<1>1. /\ Grounded(req[w]) /\ profile \in Row \cup {Absent}
      /\ req[w].pc = "demote"
      /\ drawn \in Nat /\ broken \in BOOLEAN /\ undone \in BOOLEAN
  BY DEF Demote, At, Inv, Fits, TypeOK
<1>2. UNCHANGED <<user, two, drawn, cache, broken, undone,
                  disk, message, post, torn>>
  BY DEF Demote, files
<1>3. profile \in Row /\ profile # Absent
  BY <1>1 DEF Grounded
<1> DEFINE new == [profile EXCEPT !.role = "user"]
<1>4. /\ new \in Row
      /\ new.name = profile.name /\ new.photo = profile.photo
  BY <1>3 DEF Row, Role
<1>5. Write(w, new, NoRequest) /\ profile' = new
  BY DEF Demote, Write
<1> HIDE DEF new
<1>6. AvatarSealed => AvatarSealed'
  BY <1>2, <1>3, <1>4, <1>5 DEF AvatarSealed
<1>7. QED
  BY <1>1, <1>2, <1>3, <1>4, <1>5, <1>6, Ended, Written

LEMMA VisitInv ==
  ASSUME Inv, Visit, UNCHANGED files
  PROVE  Inv'
<1>1. UNCHANGED <<user, drawn, cache, req, broken, undone,
                  disk, message, post, torn>>
  BY DEF Visit, files
<1>2. MessageSealed' <=> MessageSealed
  BY <1>1 DEF MessageSealed
<1>3. CASE profile = Absent /\ profile' = Plain("user") /\ two' = two
  <2>1. /\ profile' \in Row /\ profile' # Absent
        /\ profile'.name = "none" /\ profile'.role = "user"
    BY <1>3, PlainRow, AbsentAssumption DEF Role
  <2>2. ASSUME NEW w \in Worker
        PROVE  Fits(req[w])'
    <3> DEFINE q == req[w]
    <3>1. Fits(q) /\ q' = q
      BY <1>1 DEF Inv
    <3>2. CASE q # NoRequest
      <4>1. Labelled(q) /\ Grounded(q) /\ Loaded(q) /\ Secured(q)
        BY <3>1, <3>2 DEF Fits
      <4>2. Labelled(q)' /\ Grounded(q)'
        BY <1>1, <1>3, <2>1, <3>1, <4>1 DEF Labelled, Grounded
      <4>3. Loaded(q)'
        BY <1>3, <2>1, <3>1, <4>1 DEF Loaded, Grounded, RoleOf
      <4>4. Secured(q)'
        BY <1>2, <2>1, <3>1, <4>1 DEF Secured, AvatarSealed
      <4>5. QED
        BY <4>2, <4>3, <4>4 DEF Fits
    <3>3. QED
      BY <3>1, <3>2 DEF Fits
  <2>3. TypeOK'
    BY <1>1, <1>3, <2>1 DEF Inv, TypeOK
  <2>4. SealedBeforeDeleted'
    BY <1>1, <2>1 DEF Inv, SealedBeforeDeleted
  <2>5. QED
    BY <2>2, <2>3, <2>4 DEF Inv
<1>4. CASE two' = TRUE /\ profile' = profile
  <2>1. ASSUME NEW w \in Worker
        PROVE  Fits(req[w])'
    <3> DEFINE q == req[w]
    <3>1. Fits(q) /\ q' = q
      BY <1>1 DEF Inv
    <3>2. CASE q # NoRequest
      <4>1. Labelled(q) /\ Grounded(q) /\ Loaded(q) /\ Secured(q)
        BY <3>1, <3>2 DEF Fits
      <4>2. Labelled(q)' /\ Grounded(q)' /\ Loaded(q)'
        BY <1>1, <1>4, <3>1, <4>1
        DEF Labelled, Grounded, Loaded, SamePhoto, RoleOf
      <4>3. Secured(q)'
        BY <1>1, <1>2, <1>4, <3>1, <4>1 DEF Secured, AvatarSealed
      <4>4. QED
        BY <4>2, <4>3 DEF Fits
    <3>3. QED
      BY <3>1, <3>2 DEF Fits
  <2>2. two' \in BOOLEAN
    BY <1>4, Zenon
  <2>3. TypeOK'
    BY <1>1, <1>4, <2>2 DEF Inv, TypeOK
  <2>4. SealedBeforeDeleted'
    BY <1>1, <1>4 DEF Inv, SealedBeforeDeleted
  <2>5. QED
    BY <2>1, <2>3, <2>4 DEF Inv
<1>5. QED
  BY <1>3, <1>4 DEF Visit

LEMMA CullInv ==
  ASSUME Inv, Cull, UNCHANGED files
  PROVE  Inv'
<1>1. UNCHANGED <<user, two, profile, drawn, req, broken, undone,
                  disk, message, post, torn>>
  BY DEF Cull, row, files
<1>2. TypeOK'
  BY <1>1 DEF Inv, TypeOK, Cull
<1>3. ASSUME NEW w \in Worker
      PROVE  Fits(req[w])'
  BY <1>1 DEF Inv, Fits, Labelled, Grounded, Loaded, Secured, AvatarSealed,
              MessageSealed, SamePhoto, RoleOf
<1>4. QED
  BY <1>1, <1>2, <1>3 DEF Inv, SealedBeforeDeleted

LEMMA OpenInv ==
  ASSUME Inv, NEW w \in Worker, Open(w), UNCHANGED files
  PROVE  Inv'
<1>1. req[w].held \in Key
  BY DEF Open, At, Inv, Fits, Loaded
<1>2. KeyOf(w) \in Key /\ req[w].held.tag \in Picture
  BY <1>1 DEF KeyOf, CacheKey, Key
<1>3. cache' \subseteq Entry
  BY <1>2 DEF Open, Entry, Inv, TypeOK
<1>4. QED
  BY <1>3, Ended, CacheStep DEF Open, Done, Moves

LEMMA InsertInv ==
  ASSUME Inv, NEW w \in Worker, Insert(w)
  PROVE  Inv'
<1>1. req[w] # NoRequest /\ req[w].pc = "insert" /\ Labelled(req[w])
  BY DEF Insert, At, Inv, Fits
<1>2. UNCHANGED <<user, two, profile, drawn, cache, broken, undone,
                  disk, post, torn>>
  BY DEF Insert, row
<1>3. /\ message' \in Message /\ message' # Absent
      /\ message'.name = "upload"
  <2>1. message' = [name |-> "upload", photo |-> None]
    BY DEF Insert
  <2>2. [name |-> "upload", photo |-> None] # Absent
    BY MessageAssumption DEF Message, Name, None
  <2>3. QED
    BY <2>1, <2>2 DEF Message, Name, None
<1>4. PICK r \in Request : Moves(w, r) /\ r.pc = "attach" /\ r.op = req[w].op
  BY <1>1, Going DEF Insert, Step
<1>5. Fits(r)'
  BY <1>1, <1>3, <1>4 DEF Fits, Labelled, Grounded, Loaded, Secured
<1>6. MessageSealed'
  BY <1>3 DEF MessageSealed
<1>7. SealedBeforeDeleted'
  BY <1>2, <1>3 DEF Inv, SealedBeforeDeleted
<1>8. QED
  BY <1>2, <1>3, <1>4, <1>5, <1>6, <1>7, Aside DEF Inv, TypeOK, row

LEMMA SealSentInv ==
  ASSUME Inv, NEW w \in Worker, SealSent(w)
  PROVE  Inv'
<1>1. /\ req[w].pc = "attach" /\ req[w].op = "send"
      /\ Grounded(req[w]) /\ drawn \in Nat
  BY DEF SealSent, At, Inv, Fits, TypeOK
<1>2. UNCHANGED <<user, two, profile, cache, broken, undone, disk, post, torn>>
  BY DEF SealSent, row
<1>3. message \in Message
  BY <1>1 DEF Grounded, Inv, TypeOK
<1>4. drawn' = drawn + 1 /\ message' = [message EXCEPT !.photo = drawn']
  BY DEF SealSent
<1>5. message' \in Message /\ message'.photo # None
  BY <1>1, <1>3, <1>4 DEF Message, Picture, None
<1>6. message' # Absent /\ drawn' \in Nat
  BY <1>1, <1>4, <1>5, MessageAssumption
<1>7. MessageSealed'
  BY <1>5 DEF MessageSealed
<1>8. SealedBeforeDeleted'
  BY <1>2, <1>5 DEF Inv, SealedBeforeDeleted
<1>9. Moves(w, NoRequest)
  BY DEF SealSent, Done, Moves
<1>10. QED
  BY <1>2, <1>5, <1>6, <1>7, <1>8, <1>9, Ended, Aside DEF Inv, TypeOK, row

LEMMA SealAvatarInv ==
  ASSUME Inv, NEW w \in Worker, SealAvatar(w)
  PROVE  Inv'
<1>1. /\ req[w] \in Request /\ req[w] # NoRequest /\ req[w].pc = "seal_avatar"
      /\ Labelled(req[w]) /\ Grounded(req[w])
      /\ profile \in Row \cup {Absent} /\ drawn \in Nat
      /\ broken \in BOOLEAN /\ undone \in BOOLEAN
  BY DEF SealAvatar, At, Inv, Fits, TypeOK
<1>2. UNCHANGED <<user, two, drawn, cache, broken, disk, message, post, torn>>
  BY DEF SealAvatar, files
<1> DEFINE new == [profile EXCEPT !.photo = 1]
<1>3. profile \in Row
  BY <1>1 DEF Grounded
<1>4. new \in Row /\ new.photo # None
  BY <1>3 DEF Row, Picture, None
<1>5. "messages" \in Step
  BY DEF Step
<1>6. PICK r \in Request :
        /\ r = [req[w] EXCEPT !.pc = "messages", !.late = FALSE]
        /\ r.pc = "messages" /\ r.op = req[w].op
        /\ r.held = req[w].held
  BY <1>1, <1>5, GoesSaved, Zenon
<1>7. WriteLate(w, new, r)
  BY <1>6, Zenon DEF SealAvatar
<1> HIDE DEF new
<1>8. /\ Write(w, new, r) /\ profile' = new
      /\ undone' = (undone \/ (req[w].late /\ ~SamePhoto(profile, new)))
  BY <1>7 DEF WriteLate, Write
<1>9. undone' \in BOOLEAN
  BY <1>8, Zenon
<1>10. AvatarSealed'
  BY <1>4, <1>8 DEF AvatarSealed
<1>11. r.pc = "messages" /\ r.op = req[w].op
  BY <1>6, Zenon
<1>12. Fits(r)'
  BY <1>1, <1>10, <1>11 DEF Fits, Labelled, Grounded, Loaded, Secured
<1>13. QED
  BY <1>1, <1>2, <1>4, <1>8, <1>9, <1>10, <1>12, Written

LEMMA SealMessageInv ==
  ASSUME Inv, NEW w \in Worker, SealMessage(w)
  PROVE  Inv'
<1>1. /\ req[w] # NoRequest /\ req[w].pc = "seal_message"
      /\ Labelled(req[w]) /\ Grounded(req[w]) /\ Secured(req[w])
  BY DEF SealMessage, At, Inv, Fits
<1>2. UNCHANGED <<user, two, profile, drawn, cache, broken, undone,
                  disk, post, torn>>
  BY DEF SealMessage, row
<1>3. message \in Message /\ AvatarSealed
  BY <1>1 DEF Grounded, Secured, Inv, TypeOK
<1>4. message' \in Message /\ message'.photo # None
  BY <1>3 DEF SealMessage, Message, Picture, None
<1>5. message' # Absent
  BY <1>4, MessageAssumption
<1>6. MessageSealed' /\ AvatarSealed'
  BY <1>2, <1>3, <1>4 DEF MessageSealed, AvatarSealed
<1>7. SealedBeforeDeleted'
  BY <1>2, <1>4 DEF Inv, SealedBeforeDeleted
<1>8. ASSUME NEW r \in Request \cup {NoRequest}, Moves(w, r), Fits(r)'
      PROVE  Inv'
  BY <1>2, <1>4, <1>5, <1>6, <1>7, <1>8, Aside DEF Inv, TypeOK, row
<1>9. CASE Goto(w, "delete")
  <2>1. PICK r \in Request : Moves(w, r) /\ r.pc = "delete" /\ r.op = req[w].op
    BY <1>1, <1>9, Going DEF Step
  <2>2. Fits(r)'
    BY <1>1, <1>6, <2>1 DEF Fits, Labelled, Grounded, Loaded, Secured
  <2>3. QED
    BY <1>8, <2>1, <2>2
<1>10. CASE Done(w)
  BY <1>8, <1>10, Ended DEF Done, Moves
<1>11. QED
  BY <1>9, <1>10 DEF SealMessage

LEMMA DeleteInv ==
  ASSUME Inv, NEW w \in Worker, Delete(w)
  PROVE  Inv'
<1>1. /\ req[w] # NoRequest /\ req[w].pc = "delete"
      /\ Fits(req[w]) /\ AvatarSealed /\ MessageSealed
  BY DEF Delete, At, Inv, Fits, Secured
<1>2. UNCHANGED <<user, two, profile, drawn, cache, broken, undone,
                  message, post, torn>>
  BY DEF Delete, row
<1>3. AvatarSealed' /\ MessageSealed'
  BY <1>1, <1>2 DEF AvatarSealed, MessageSealed
<1>4. SealedBeforeDeleted'
  BY <1>3 DEF SealedBeforeDeleted, AvatarSealed, MessageSealed
<1>5. disk' \subseteq File
  BY DEF Delete, Inv, TypeOK
<1>6. CASE Done(w)
  BY <1>2, <1>3, <1>4, <1>5, <1>6, Ended, Aside
  DEF Inv, TypeOK, Done, Moves, row
<1>7. CASE req' = req
  <2>1. TypeOK'
    BY <1>2, <1>5, <1>7 DEF Inv, TypeOK
  <2>2. ASSUME NEW v \in Worker
        PROVE  Fits(req[v])'
    BY <1>2, <1>3, <1>7 DEF Inv, Fits, Labelled, Grounded, Loaded, Secured,
                            SamePhoto, RoleOf
  <2>3. QED
    BY <1>4, <2>1, <2>2 DEF Inv
<1>8. QED
  BY <1>6, <1>7 DEF Delete

LEMMA SealPostInv ==
  ASSUME Inv, NEW w \in Worker, SealPost(w)
  PROVE  Inv'
<1>1. UNCHANGED <<user, two, profile, drawn, cache, broken, undone,
                  disk, message, torn>>
  BY DEF SealPost, row
<1>2. post' = "sealed" /\ Moves(w, NoRequest)
  BY DEF SealPost, Done, Moves
<1>3. SealedBeforeDeleted' /\ (MessageSealed => MessageSealed')
  BY <1>1 DEF Inv, SealedBeforeDeleted, MessageSealed
<1>4. QED
  BY <1>1, <1>2, <1>3, Ended, Aside DEF Inv, TypeOK, row

LEMMA FailPhotoInv ==
  ASSUME Inv, NEW w \in Worker, FailPhoto(w)
  PROVE  Inv'
<1>1. UNCHANGED <<user, two, profile, drawn, cache, undone,
                  disk, message, post>>
  BY DEF FailPhoto, Fail, row
<1>2. Moves(w, NoRequest)
  BY DEF FailPhoto, Fail, Done, Moves
<1>3. SealedBeforeDeleted' /\ (MessageSealed => MessageSealed')
  BY <1>1 DEF Inv, SealedBeforeDeleted, MessageSealed
<1>4. broken' \in BOOLEAN /\ torn' \in BOOLEAN
  BY Zenon DEF FailPhoto, Fail
<1>5. QED
  BY <1>1, <1>2, <1>3, <1>4, Ended, Aside DEF Inv, TypeOK, row

LEMMA NextInv == Inv /\ [Next]_vars => Inv'
<1> SUFFICES ASSUME Inv, [Next]_vars PROVE Inv'
  OBVIOUS
<1>1. CASE Visit /\ UNCHANGED files
  BY <1>1, VisitInv
<1>2. CASE Cull /\ UNCHANGED files
  BY <1>2, CullInv
<1>3. ASSUME NEW w \in Worker, Command(w)
      PROVE  Inv'
  BY <1>3, BeginInv, ViewInv, InsertInv, SealSentInv, InspectAvatarInv,
     SealAvatarInv, InspectMessageInv, SealMessageInv, DeleteInv, SealPostInv,
     FailPhotoInv DEF Command
<1>4. ASSUME NEW w \in Worker, Serve(w), UNCHANGED files
      PROVE  Inv'
  BY <1>4, BeginInv, AddUserInv, SetPasswordInv, AddProfileInv, AddTwoInv,
     AddPhotoInv, GateInv, LoadProfileInv, SaveEditInv, SaveSeedInv, ForgetInv,
     AttachInv, DemoteInv, ViewInv, LookupInv, OpenInv DEF Serve
<1>5. CASE UNCHANGED vars
  <2>1. UNCHANGED <<user, two, profile, drawn, cache, req, broken, undone,
                    disk, message, post, torn>>
    BY <1>5 DEF vars
  <2>2. ASSUME NEW w \in Worker
        PROVE  Fits(req[w])'
    BY <2>1 DEF Inv, Fits, Labelled, Grounded, Loaded, Secured, AvatarSealed,
                MessageSealed, SamePhoto, RoleOf
  <2>3. QED
    BY <2>1, <2>2 DEF Inv, TypeOK, SealedBeforeDeleted
<1>6. QED
  BY <1>1, <1>2, <1>3, <1>4, <1>5 DEF Next

THEOREM Holding == Spec => []Inv
BY InitInv, NextInv, PTL DEF Spec

(* Every variable of Profiles and Photos has its type, for any number of    *)
(* workers and pictures.                                                    *)
THEOREM Typing == Spec => []TypeOK
BY Holding, PTL DEF Inv

(* secure_media deletes a file only when the row that needs it is sealed.   *)
THEOREM Deleting == Spec => []SealedBeforeDeleted
BY Holding, PTL DEF Inv

(***************************************************************************)
(* How a step changes the profile, and the two properties of its steps.    *)
(***************************************************************************)
\* w writes the row it found, or one where there was none, ...
Creates(w, new) == profile \in {Absent, new}

\* ... a new picture, ...
Pictures(w, new) == /\ profile # Absent
                    /\ drawn' = drawn + 1
                    /\ new.photo = drawn'
                    /\ new.role = profile.role

\* ... what it loaded, ...
Saves(w, new) == /\ At(w, "save")
                 /\ new.photo = req[w].held.photo
                 /\ req[w].op = "seed" \/ new.role = req[w].held.role

\* ... another role, ...
Demotes(w, new) == /\ profile # Absent
                   /\ new.photo = profile.photo
                   /\ new.role = "user"

\* ... or the photo that was a file.
Seals(w, new) == At(w, "seal_avatar") /\ new.role = profile.role

LEMMA Changes ==
  ASSUME Inv, NEW w \in Worker, Command(w) \/ Serve(w)
  PROVE  \/ /\ profile' = profile
            /\ req' = req \/ \E r \in Request \cup {NoRequest} : Moves(w, r)
         \/ \E new \in Row, next \in Request \cup {NoRequest} :
              /\ Write(w, new, next)
              /\ next # req[w]
              /\ \/ Creates(w, new) \/ Pictures(w, new) \/ Saves(w, new)
                 \/ Demotes(w, new) \/ Seals(w, new)
<1> DEFINE Stays == /\ profile' = profile
                    /\ req' = req \/ \E r \in Request \cup {NoRequest} : Moves(w, r)
           Kind(new) == \/ Creates(w, new) \/ Pictures(w, new) \/ Saves(w, new)
                        \/ Demotes(w, new) \/ Seals(w, new)
           Writes == \E new \in Row, next \in Request \cup {NoRequest} :
                       Write(w, new, next) /\ next # req[w] /\ Kind(new)
<1>1. /\ req[w] \in Request \cup {NoRequest}
      /\ req[w] # NoRequest => Fits(req[w]) /\ Grounded(req[w]) /\ Loaded(req[w])
      /\ profile \in Row \cup {Absent} /\ drawn \in Nat
  BY DEF Inv, Fits, TypeOK
<1>2. ASSUME NEW o, NEW l, Begin(w, o, l), o \in Op, l \in Step
      PROVE  \E r \in Request \cup {NoRequest} : Moves(w, r)
  BY <1>2, Beginning
<1>3. ASSUME Done(w)
      PROVE  \E r \in Request \cup {NoRequest} : Moves(w, r)
  BY <1>3 DEF Done, Moves
<1>4. ASSUME NEW l \in Step, req[w] # NoRequest, Goto(w, l)
      PROVE  \E r \in Request \cup {NoRequest} : Moves(w, r)
  BY <1>4, Going
<1>5. CASE Make(w) \/ Edit(w) \/ Remove(w) \/ Send(w) \/ Secure(w) \/ Backfill(w)
  <2>1. profile' = profile
    BY <1>5 DEF Make, Edit, Remove, Send, Secure, Backfill, row
  <2>2. \E o \in Op, l \in Step : Begin(w, o, l)
    BY <1>5 DEF Make, Edit, Remove, Send, Secure, Backfill, Op, Making, Step
  <2>3. QED
    BY <1>2, <2>1, <2>2
<1>6. CASE \/ AddUser(w) \/ SetPassword(w) \/ AddTwo(w) \/ Gate(w) \/ Forget(w)
           \/ Lookup(w) \/ Open(w) \/ Insert(w) \/ SealSent(w)
           \/ InspectMessage(w) \/ SealMessage(w) \/ SealPost(w) \/ FailPhoto(w)
  <2>1. profile' = profile /\ req[w] # NoRequest
    BY <1>6 DEF AddUser, SetPassword, AddTwo, Gate, Forget, Lookup, Open, Insert,
                SealSent, InspectMessage, SealMessage, SealPost, FailPhoto, Fail,
                At, row
  <2>2. Done(w) \/ \E l \in Step : Goto(w, l)
    BY <1>6 DEF AddUser, SetPassword, AddTwo, Gate, Forget, Lookup, Open, Insert,
                SealSent, InspectMessage, SealMessage, SealPost, FailPhoto, Fail,
                Step
  <2>3. QED
    BY <1>3, <1>4, <2>1, <2>2
<1>7. CASE InspectAvatar(w)
  <2>1. profile' = profile /\ req[w] # NoRequest
    BY <1>7 DEF InspectAvatar, At, row
  <2>2. Goto(w, "seal_avatar") \/ Goto(w, "messages")
    BY <1>7 DEF InspectAvatar, Goto
  <2>3. QED
    BY <1>4, <2>1, <2>2 DEF Step
<1>8. CASE Delete(w)
  BY <1>3, <1>8 DEF Delete, row
<1>9. CASE View(w) \/ ViewMessage(w)
  <2>1. PICK subject \in Subject, photo \in Picture : ViewOf(w, subject, photo)
    BY <1>9 DEF View, ViewMessage, ViewOf, Subject, Inv, TypeOK, Row, Message
  <2> DEFINE r == [pc |-> "lookup", op |-> "view",
                   held |-> [subject |-> subject, tag |-> photo],
                   late |-> FALSE, risen |-> FALSE]
  <2>2. r \in Request
    BY DEF Request, Step, Op, Key
  <2>3. QED
    BY <2>1, <2>2 DEF ViewOf, Moves, row
<1>10. CASE AddProfile(w)
  <2>1. CASE profile = Absent
    <3>1. \E role \in Role : Write(w, Plain(role), [req[w] EXCEPT !.pc = "two"])
      BY <1>10, <2>1 DEF AddProfile, Role
    <3>2. PICK r \in Request : r = [req[w] EXCEPT !.pc = "two"] /\ r.pc = "two"
      BY <1>10, Goes DEF AddProfile, At, Step
    <3>3. r # req[w]
      BY <1>10, <3>2 DEF AddProfile, At
    <3>4. QED
      BY <2>1, <3>1, <3>2, <3>3, PlainRow DEF Creates
  <2>2. CASE profile # Absent
    BY <1>3, <1>10, <2>2 DEF AddProfile
  <2>3. QED
    BY <2>1, <2>2
<1>11. CASE AddPhoto(w)
  <2>1. CASE Done(w) /\ profile' = profile
    BY <1>3, <2>1
  <2>2. CASE WriteNew(w, [profile EXCEPT !.name = "upload", !.photo = drawn'],
                      NoRequest)
    <3> DEFINE new == [profile EXCEPT !.name = "upload", !.photo = drawn']
    <3>1. profile # Absent /\ profile \in Row /\ req[w] # NoRequest
      BY <1>1, <1>11 DEF AddPhoto, At, Grounded
    <3>2. Write(w, new, NoRequest)
      BY <2>2 DEF WriteNew
    <3>3. drawn' = drawn + 1 /\ drawn' \in Picture
      BY <1>1, <2>2 DEF WriteNew, Picture
    <3>4. new \in Row /\ new.photo = drawn' /\ new.role = profile.role
      BY <3>1, <3>3 DEF Row, Name
    <3> HIDE DEF new
    <3>5. QED
      BY <3>1, <3>2, <3>3, <3>4 DEF Pictures
  <2>3. QED
    BY <1>11, <2>1, <2>2 DEF AddPhoto
<1>12. CASE LoadProfile(w)
  <2>1. PICK p \in Row :
          /\ p = IF profile = Absent THEN Plain("user") ELSE profile
    BY <1>1, PlainRow DEF Role
  <2>2. req[w] # NoRequest /\ req[w].pc # "save"
    BY <1>12 DEF LoadProfile, At
  <2>3. PICK r \in Request :
          /\ r = [req[w] EXCEPT !.pc = "save", !.held = p]
          /\ r.pc = "save" /\ r.op = req[w].op /\ r.held = p
          /\ r.late = req[w].late /\ r.risen = req[w].risen
    BY <2>2, GoesLoaded
  <2>4. Write(w, p, r)
    BY <1>12, <2>1, <2>3 DEF LoadProfile
  <2>5. r # req[w]
    BY <2>2, <2>3, Zenon
  <2>6. Creates(w, p)
    BY <2>1 DEF Creates
  <2>7. QED
    BY <2>4, <2>5, <2>6
<1>13. CASE SaveEdit(w)
  <2>1. /\ req[w] # NoRequest /\ At(w, "save") /\ req[w].pc = "save"
        /\ req[w].held \in Row
    BY <1>1, <1>13 DEF SaveEdit, At, Loaded
  <2>2. ASSUME NEW name \in {req[w].held.name, "none"},
               WriteLate(w, [req[w].held EXCEPT !.name = name], NoRequest)
        PROVE  Writes
    <3> DEFINE new == [req[w].held EXCEPT !.name = name]
    <3>1. /\ new \in Row /\ new.photo = req[w].held.photo
          /\ new.role = req[w].held.role
      BY <2>1 DEF Row, Name
    <3>2. Write(w, new, NoRequest)
      BY <2>2 DEF WriteLate
    <3> HIDE DEF new
    <3>3. QED
      BY <2>1, <3>1, <3>2 DEF Saves
  <2>3. ASSUME WriteLate(w, [req[w].held EXCEPT !.name = "upload"],
                         [req[w] EXCEPT !.pc = "forget", !.late = FALSE])
        PROVE  Writes
    <3> DEFINE new == [req[w].held EXCEPT !.name = "upload"]
    <3>1. /\ new \in Row /\ new.photo = req[w].held.photo
          /\ new.role = req[w].held.role
      BY <2>1 DEF Row, Name
    <3>2. "forget" \in Step
      BY DEF Step
    <3>3. PICK r \in Request :
            /\ r = [req[w] EXCEPT !.pc = "forget", !.late = FALSE]
            /\ r.pc = "forget" /\ r.op = req[w].op /\ r.held = req[w].held
      BY <2>1, <3>2, GoesSaved, Zenon
    <3>4. Write(w, new, r)
      BY <2>3, <3>3, Zenon DEF WriteLate
    <3>5. r # req[w]
      BY <2>1, <3>3
    <3> HIDE DEF new
    <3>6. QED
      BY <2>1, <3>1, <3>4, <3>5 DEF Saves
  <2>4. QED
    BY <1>13, <2>2, <2>3 DEF SaveEdit
<1>14. CASE SaveSeed(w)
  <2> DEFINE new == [req[w].held EXCEPT !.role = SeedRole]
  <2>1. /\ req[w] # NoRequest /\ At(w, "save") /\ req[w].pc = "save"
        /\ req[w].held \in Row /\ req[w].op = "seed"
    BY <1>1, <1>14 DEF SaveSeed, At, Loaded
  <2>2. new \in Row /\ new.photo = req[w].held.photo
    BY <2>1, SeedRoleAssumption DEF Row
  <2>3. "two" \in Step
    BY DEF Step
  <2>4. PICK r \in Request :
          /\ r = [req[w] EXCEPT !.pc = "two", !.late = FALSE]
          /\ r.pc = "two" /\ r.op = req[w].op /\ r.held = req[w].held
    BY <2>1, <2>3, GoesSaved, Zenon
  <2>5. Write(w, new, r)
    BY <1>14, <2>4, Zenon DEF SaveSeed, WriteLate
  <2>6. r # req[w]
    BY <2>1, <2>4
  <2> HIDE DEF new
  <2>7. QED
    BY <2>1, <2>2, <2>5, <2>6 DEF Saves
<1>15. CASE Attach(w)
  <2> DEFINE new == [profile EXCEPT !.photo = drawn']
  <2>1. profile # Absent /\ profile \in Row /\ req[w] # NoRequest
    BY <1>1, <1>15 DEF Attach, At, Grounded
  <2>2. drawn' = drawn + 1 /\ Write(w, new, NoRequest)
    BY <1>15 DEF Attach, WriteNew
  <2>3. new \in Row /\ new.photo = drawn' /\ new.role = profile.role
    BY <1>1, <2>1, <2>2 DEF Row, Picture
  <2> HIDE DEF new
  <2>4. QED
    BY <2>1, <2>2, <2>3 DEF Pictures
<1>16. CASE Demote(w)
  <2> DEFINE new == [profile EXCEPT !.role = "user"]
  <2>1. profile # Absent /\ profile \in Row /\ req[w] # NoRequest
    BY <1>1, <1>16 DEF Demote, At, Grounded
  <2>2. Write(w, new, NoRequest)
    BY <1>16 DEF Demote
  <2>3. new \in Row /\ new.photo = profile.photo /\ new.role = "user"
    BY <2>1 DEF Row, Role
  <2> HIDE DEF new
  <2>4. QED
    BY <2>1, <2>2, <2>3 DEF Demotes
<1>17. CASE SealAvatar(w)
  <2> DEFINE new == [profile EXCEPT !.photo = 1]
  <2>1. /\ profile # Absent /\ profile \in Row /\ req[w] # NoRequest
        /\ At(w, "seal_avatar") /\ req[w].pc = "seal_avatar"
    BY <1>1, <1>17 DEF SealAvatar, At, Grounded
  <2>2. new \in Row /\ new.role = profile.role
    BY <2>1 DEF Row, Picture
  <2>3. "messages" \in Step
    BY DEF Step
  <2>4. PICK r \in Request :
          /\ r = [req[w] EXCEPT !.pc = "messages", !.late = FALSE]
          /\ r.pc = "messages" /\ r.op = req[w].op /\ r.held = req[w].held
    BY <2>1, <2>3, GoesSaved, Zenon
  <2>5. Write(w, new, r)
    BY <1>17, <2>4, Zenon DEF SealAvatar, WriteLate
  <2>6. r # req[w]
    BY <2>1, <2>4
  <2> HIDE DEF new
  <2>7. QED
    BY <2>1, <2>2, <2>5, <2>6 DEF Seals
<1>18. QED
  BY <1>5, <1>6, <1>7, <1>8, <1>9, <1>10, <1>11, <1>12, <1>13, <1>14, <1>15,
     <1>16, <1>17, Zenon DEF Command, Serve

\* Only w's request changes its step.
LEMMA Others ==
  ASSUME Inv, NEW w \in Worker, Command(w) \/ Serve(w),
         NEW v \in Worker, v # w, req[v] # NoRequest
  PROVE  req'[v] # NoRequest /\ req'[v].pc = req[v].pc /\ req'[v].op = req[v].op
<1>1. CASE req' = req \/ \E r \in Request \cup {NoRequest} : Moves(w, r)
  <2>1. req'[v] = req[v]
    BY <1>1 DEF Moves, Inv, TypeOK
  <2>2. QED
    BY <2>1
<1>2. CASE \E new \in Row, next \in Request \cup {NoRequest} : Write(w, new, next)
  <2>1. PICK new \in Row, next \in Request \cup {NoRequest} : Write(w, new, next)
    BY <1>2
  <2>2. /\ req'[v] \in Request
        /\ req'[v].pc = req[v].pc /\ req'[v].op = req[v].op
    BY <2>1, Noted
  <2>3. QED
    BY <2>2, NoRequestAssumption
<1>3. QED
  BY <1>1, <1>2, Changes

LEMMA ProfileStays ==
  ASSUME Inv, NEW w \in Worker, Command(w) \/ Serve(w), profile # Absent
  PROVE  profile' # Absent
<1>1. CASE profile' = profile
  BY <1>1
<1>2. CASE \E new \in Row, next \in Request \cup {NoRequest} : Write(w, new, next)
  BY <1>2, AbsentAssumption DEF Write
<1>3. QED
  BY <1>1, <1>2, Changes

LEMMA PhotoStep ==
  ASSUME Inv, [Next]_vars, Replaced
  PROVE  \/ drawn' = drawn + 1 /\ profile'.photo = drawn'
         \/ \E w \in Worker : /\ req[w] # NoRequest
                              /\ req[w].late
                              /\ req'[w] # req[w]
<1>1. profile # Absent /\ profile.photo # None /\ profile'.photo # profile.photo
  BY DEF Replaced
<1>2. PICK w \in Worker : Command(w) \/ Serve(w)
  BY <1>1 DEF Next, Visit, Cull, vars, row
<1>3. PICK new \in Row, next \in Request \cup {NoRequest} :
        /\ Write(w, new, next)
        /\ next # req[w]
        /\ \/ Creates(w, new) \/ Pictures(w, new) \/ Saves(w, new)
           \/ Demotes(w, new) \/ Seals(w, new)
  BY <1>1, <1>2, Changes
<1>4. profile' = new /\ req'[w] = next
  BY <1>3 DEF Write
<1>5. CASE Pictures(w, new)
  BY <1>4, <1>5 DEF Pictures
<1>6. CASE Saves(w, new)
  <2>1. /\ req[w] # NoRequest /\ req[w].pc = "save"
        /\ new.photo = req[w].held.photo
    BY <1>6 DEF Saves, At
  <2>2. ~req[w].late => profile.photo = req[w].held.photo
    BY <2>1 DEF Inv, Fits, Loaded, SamePhoto
  <2>3. QED
    BY <1>1, <1>3, <1>4, <2>1, <2>2
<1>7. CASE Seals(w, new)
  <2>1. req[w] # NoRequest /\ req[w].pc = "seal_avatar"
    BY <1>7 DEF Seals, At
  <2>2. ~req[w].late => profile.photo = None
    BY <2>1 DEF Inv, Fits, Loaded
  <2>3. QED
    BY <1>1, <1>3, <1>4, <2>1, <2>2
<1>8. QED
  BY <1>1, <1>3, <1>4, <1>5, <1>6, <1>7 DEF Creates, Demotes

LEMMA RoleStep ==
  ASSUME Inv, [Next]_vars,
         profile # Absent, profile.role = "user", profile'.role = "admin"
  PROVE  \E w \in Worker : /\ At(w, "save")
                           /\ req[w].op = "seed" \/ req[w].risen
                           /\ req'[w] # req[w]
<1>1. PICK w \in Worker : Command(w) \/ Serve(w)
  BY DEF Next, Visit, Cull, vars, row
<1>2. PICK new \in Row, next \in Request \cup {NoRequest} :
        /\ Write(w, new, next)
        /\ next # req[w]
        /\ \/ Creates(w, new) \/ Pictures(w, new) \/ Saves(w, new)
           \/ Demotes(w, new) \/ Seals(w, new)
  BY <1>1, Changes
<1>3. profile' = new /\ req'[w] = next
  BY <1>2 DEF Write
<1>4. At(w, "save") /\ (req[w].op = "seed" \/ new.role = req[w].held.role)
  BY <1>2, <1>3 DEF Creates, Pictures, Saves, Demotes, Seals
<1>5. /\ req[w].op \in {"edit", "seed"}
      /\ req[w].op = "edit" /\ ~req[w].risen => req[w].held.role = "user"
  BY <1>4 DEF At, Inv, Fits, Labelled, Loaded
<1>6. QED
  BY <1>2, <1>3, <1>4, <1>5

(* A sealed photo gives way to a new picture only, or to a request that had *)
(* loaded the row before.                                                   *)
THEOREM PhotoStanding == Spec => PhotoStands
<1>1. Inv /\ [Next]_vars
        => [Replaced => \/ drawn' = drawn + 1 /\ profile'.photo = drawn'
                        \/ \E w \in Worker : /\ req[w] # NoRequest
                                             /\ req[w].late
                                             /\ req'[w] # req[w]]_profileVars
  BY PhotoStep
<1>2. QED
  BY <1>1, Holding, PTL DEF Spec, PhotoStands

(* A role that a developer took away comes back by seed_demo only, or by an *)
(* edit that passed the gate as a user and loaded the row as an admin.      *)
THEOREM RoleStanding == Spec => RoleStands
<1>1. Inv /\ [Next]_vars
        => [profile # Absent /\ profile.role = "user" /\ profile'.role = "admin"
              => \E w \in Worker : /\ At(w, "save")
                                   /\ req[w].op = "seed" \/ req[w].risen
                                   /\ req'[w] # req[w]]_profileVars
  BY RoleStep
<1>2. QED
  BY <1>1, Holding, PTL DEF Spec, RoleStands

(***************************************************************************)
(* The cache.                                                              *)
(***************************************************************************)
LEMMA CacheNext == CacheTrue /\ [Next]_vars => CacheTrue'
<1> SUFFICES ASSUME CacheTrue, [Next]_vars PROVE CacheTrue'
  OBVIOUS
<1>1. ASSUME NEW w \in Worker, Open(w)
      PROVE  CacheTrue'
  <2>1. KeyOf(w).tag = req[w].held.tag
    BY DEF KeyOf, CacheKey
  <2>2. ASSUME NEW e \in cache'
        PROVE  e.picture = e.key.tag
    <3>1. e \in cache \/ e = [key |-> KeyOf(w), picture |-> req[w].held.tag]
      BY <1>1 DEF Open
    <3>2. QED
      BY <2>1, <3>1 DEF CacheTrue
  <2>3. QED
    BY <2>2 DEF CacheTrue
<1>2. CASE cache' \subseteq cache
  BY <1>2 DEF CacheTrue
<1>3. ASSUME NEW w \in Worker, Command(w) \/ Serve(w), ~Open(w)
      PROVE  cache' \subseteq cache
  <2>1. CASE Command(w)
    BY <2>1 DEF Command, Send, Insert, SealSent, ViewMessage, ViewOf, Secure,
                InspectAvatar, SealAvatar, InspectMessage, SealMessage, Delete,
                Backfill, SealPost, FailPhoto, Fail
  <2>2. CASE Serve(w)
    BY <1>3, <2>2 DEF Serve, Make, AddUser, SetPassword, AddProfile, AddTwo,
                AddPhoto, Edit, Gate, LoadProfile, SaveEdit, SaveSeed, Forget,
                Attach, Remove, Demote, View, ViewOf, Lookup
  <2>3. QED
    BY <1>3, <2>1, <2>2
<1>4. QED
  BY <1>1, <1>2, <1>3 DEF Next, Visit, Cull, vars

(* A reader whom the cache answers gets the picture of the row it loaded.   *)
THEOREM CacheAnswering == Spec => []CacheAnswersRow
<1>1. Init => CacheTrue
  BY InitInv DEF Rest
<1>2. CacheTrue => CacheAnswersRow
  <2> SUFFICES ASSUME CacheTrue, NEW w \in Worker, NEW e \in Hit(w)
               PROVE  e.picture = req[w].held.tag
    BY DEF CacheAnswersRow
  <2>1. e \in cache /\ e.key = KeyOf(w)
    BY DEF Hit
  <2>2. KeyOf(w).tag = req[w].held.tag
    BY DEF KeyOf, CacheKey
  <2>3. QED
    BY <2>1, <2>2 DEF CacheTrue
<1>3. QED
  BY <1>1, <1>2, CacheNext, PTL DEF Spec

(***************************************************************************)
(* The account.                                                            *)
(***************************************************************************)
\* What else a step that is not w's leaves of a request.
Kept(w) == \A v \in Worker \ {w} :
             req[v] # NoRequest => /\ req'[v] # NoRequest
                                   /\ req'[v].pc = req[v].pc
                                   /\ req'[v].op = req[v].op

LEMMA Keeping ==
  ASSUME Inv, NEW w \in Worker, Command(w) \/ Serve(w)
  PROVE  Kept(w)
BY Others DEF Kept

(* The account stays complete when it was not w that was making it, or when *)
(* w goes on making it, or when w has made it whole.                        *)
LEMMA Made ==
  ASSUME Inv, Complete, Bare, NEW w \in Worker, Kept(w), UNCHANGED user,
         Whole => Whole', broken => broken',
         \/ ~Past(req[w]) /\ ~At(w, "password")
         \/ Past(req[w])' /\ ~At(w, "password")
         \/ ~At(w, "password") /\ (user = "bare" \/ Whole')
         \/ Whole' \/ broken'
  PROVE  Complete' /\ Bare'
<1>1. ASSUME NEW v \in Worker, v # w, Past(req[v])
      PROVE  Past(req[v])'
  BY <1>1 DEF Kept, Past
<1>2. ASSUME NEW v \in Worker, v # w, At(v, "password")
      PROVE  At(v, "password")' /\ Past(req[v])'
  BY <1>2 DEF Kept, Past, At, Inv, Fits, Labelled, Making
<1>3. CASE user = "bare"
  <2>1. ~Whole'
    BY <1>3 DEF Whole
  <2>2. broken' \/ \E v \in Worker : At(v, "password")' /\ Past(req[v])'
    <3>1. CASE broken
      BY <3>1
    <3>2. ASSUME NEW v \in Worker, At(v, "password")
          PROVE  broken' \/ \E u \in Worker : At(u, "password")' /\ Past(req[u])'
      BY <1>2, <2>1, <3>2
    <3>3. QED
      BY <1>3, <3>1, <3>2 DEF Bare
  <2>3. QED
    BY <2>2 DEF Complete, Bare
<1>4. CASE user = "absent"
  BY <1>4 DEF Complete, Bare
<1>5. CASE user \notin {"absent", "bare"}
  <2>1. Bare'
    BY <1>5 DEF Bare
  <2>2. Whole' \/ broken' \/ \E v \in Worker : Past(req[v])'
    <3>1. CASE Whole \/ broken
      BY <3>1, Zenon
    <3>2. ASSUME NEW v \in Worker, Past(req[v])
          PROVE  Whole' \/ broken' \/ \E u \in Worker : Past(req[u])'
      BY <1>1, <1>5, <3>2
    <3>3. QED
      BY <1>5, <3>1, <3>2 DEF Complete
  <2>3. QED
    BY <2>1, <2>2 DEF Complete
<1>6. QED
  BY <1>3, <1>4, <1>5

LEMMA Unmaking ==
  ASSUME Inv, NEW w \in Worker,
         \/ Make(w) \/ Edit(w) \/ Gate(w) \/ SaveEdit(w) \/ Forget(w) \/ Attach(w)
         \/ Remove(w) \/ Demote(w) \/ View(w) \/ Lookup(w) \/ Open(w)
         \/ Send(w) \/ Insert(w) \/ SealSent(w) \/ ViewMessage(w) \/ Secure(w)
         \/ InspectAvatar(w) \/ SealAvatar(w) \/ InspectMessage(w)
         \/ SealMessage(w) \/ Delete(w) \/ Backfill(w) \/ SealPost(w)
  PROVE  /\ ~Past(req[w]) /\ ~At(w, "password")
         /\ UNCHANGED <<user, two, broken>>
<1> USE DEF Past, At, Inv, Fits, Labelled, Making
<1>1. CASE Make(w) \/ Edit(w) \/ Remove(w) \/ Send(w) \/ Secure(w) \/ Backfill(w)
  BY <1>1 DEF Make, Edit, Remove, Send, Secure, Backfill, Begin, row
<1>2. CASE View(w) \/ ViewMessage(w)
  BY <1>2 DEF View, ViewMessage, ViewOf, row
<1>3. CASE Gate(w) \/ SaveEdit(w) \/ Forget(w) \/ Attach(w)
  BY <1>3 DEF Gate, SaveEdit, Forget, Attach, row
<1>4. CASE Demote(w) \/ Lookup(w) \/ Open(w) \/ Insert(w) \/ SealSent(w)
  BY <1>4 DEF Demote, Lookup, Open, Insert, SealSent, row
<1>5. CASE \/ InspectAvatar(w) \/ SealAvatar(w) \/ InspectMessage(w)
           \/ SealMessage(w) \/ Delete(w) \/ SealPost(w)
  BY <1>5 DEF InspectAvatar, SealAvatar, InspectMessage, SealMessage, Delete,
              SealPost, row
<1>6. QED
  BY <1>1, <1>2, <1>3, <1>4, <1>5

LEMMA CompleteNext == Inv /\ Complete /\ Bare /\ [Next]_vars => Complete' /\ Bare'
<1> SUFFICES ASSUME Inv, Complete, Bare, [Next]_vars PROVE Complete' /\ Bare'
  OBVIOUS
<1>1. CASE UNCHANGED <<user, req, broken>> /\ (Whole => Whole')
  BY <1>1 DEF Complete, Bare, At, Past
<1>2. CASE Visit
  <2>1. UNCHANGED <<user, req, broken>>
    BY <1>2 DEF Visit
  <2>2. Whole => Whole'
    <3>1. two => two'
      BY <1>2, Zenon DEF Visit
    <3>2. profile # Absent => profile' # Absent
      BY <1>2 DEF Visit
    <3>3. QED
      BY <2>1, <3>1, <3>2 DEF Whole
  <2>3. QED
    BY <1>1, <2>1, <2>2
<1>3. ASSUME NEW w \in Worker, Command(w) \/ Serve(w)
      PROVE  Complete' /\ Bare'
  <2>1. Kept(w) /\ (profile # Absent => profile' # Absent)
    BY <1>3, Keeping, ProfileStays
  <2>2. req[w] # NoRequest => Labelled(req[w]) /\ Grounded(req[w])
    BY DEF Inv, Fits
  <2>3. ASSUME ~Past(req[w]), ~At(w, "password"), UNCHANGED <<user, two, broken>>
        PROVE  Complete' /\ Bare'
    <3>1. Whole => Whole'
      BY <2>1, <2>3, Zenon DEF Whole
    <3>2. QED
      BY <2>1, <2>3, <3>1, Made
  <2>4. CASE AddUser(w)
    <3>1. req[w] # NoRequest /\ req[w].pc = "user" /\ req[w].op \in Making
      BY <2>2, <2>4 DEF AddUser, At, Labelled
    <3>2. UNCHANGED <<two, profile, broken>>
      BY <2>4 DEF AddUser
    <3>3. CASE user = "absent"
      <4>1. \E r \in Request : /\ Moves(w, r) /\ r.op = req[w].op
                               /\ \/ r.pc = "password"
                                  \/ r.pc = "profile" /\ user' # "bare"
        BY <2>4, <3>1, <3>3, Going DEF AddUser, Step
      <4>2. PICK r \in Request : /\ Moves(w, r) /\ r.op = req[w].op
                                 /\ \/ r.pc = "password"
                                    \/ r.pc = "profile" /\ user' # "bare"
        BY <4>1
      <4>3. req'[w] = r /\ r # NoRequest
        BY <4>2, NoRequestAssumption DEF Moves, Inv, TypeOK
      <4>4. Past(req[w])'
        BY <3>1, <4>2, <4>3 DEF Past
      <4>5. user' = "bare" => At(w, "password")'
        BY <4>2, <4>3 DEF At
      <4>6. QED
        BY <4>4, <4>5 DEF Complete, Bare
    <3>4. CASE user # "absent"
      <4>1. user' = user /\ ~Past(req[w]) /\ ~At(w, "password")
        BY <2>4, <3>1, <3>4 DEF AddUser, Past, At
      <4>2. QED
        BY <2>3, <3>2, <4>1
    <3>5. QED
      BY <3>3, <3>4
  <2>5. CASE SetPassword(w)
    <3>1. req[w] # NoRequest /\ req[w].op \in Making /\ user' = "ready"
      BY <2>2, <2>5 DEF SetPassword, At, Labelled, Making
    <3>2. PICK r \in Request : Moves(w, r) /\ r.pc = "profile" /\ r.op = req[w].op
      BY <2>5, <3>1, Going DEF SetPassword, Step
    <3>3. req'[w] = r /\ r # NoRequest
      BY <3>2, NoRequestAssumption DEF Moves, Inv, TypeOK
    <3>4. Past(req[w])'
      BY <3>1, <3>2, <3>3 DEF Past
    <3>5. QED
      BY <3>1, <3>4 DEF Complete, Bare
  <2>6. CASE AddProfile(w)
    <3>1. /\ req[w] # NoRequest /\ req[w].op \in Making /\ ~At(w, "password")
          /\ user = "ready" /\ UNCHANGED <<user, two>>
      BY <2>2, <2>6 DEF AddProfile, At, Labelled, Grounded
    <3>2. broken => broken'
      BY <2>6, Zenon DEF AddProfile
    <3>3. Whole => Whole'
      BY <2>1, <3>1, Zenon DEF Whole
    <3>4. Past(req[w])' \/ Whole' \/ broken'
      <4>1. CASE profile = Absent
        <5>1. PICK role \in Role :
                Write(w, Plain(role), [req[w] EXCEPT !.pc = "two"])
          BY <2>6, <4>1 DEF AddProfile, Role
        <5>2. PICK r \in Request : /\ r = [req[w] EXCEPT !.pc = "two"]
                                   /\ r.pc = "two" /\ r.op = req[w].op
                                   /\ r.held = req[w].held
                                   /\ r.late = req[w].late
                                   /\ r.risen = req[w].risen
          BY <3>1, Goes DEF Step
        <5>3. req'[w] = r /\ r # NoRequest /\ r.pc = "two" /\ r.op = req[w].op
          BY <5>1, <5>2, NoRequestAssumption DEF Write
        <5>4. QED
          BY <3>1, <5>3 DEF Past
      <4>2. CASE profile # Absent
        <5>1. broken' = (broken \/ ~two)
          BY <2>6, <4>2 DEF AddProfile
        <5>2. CASE two
          BY <2>1, <3>1, <4>2, <5>2, Zenon DEF Whole
        <5>3. CASE ~two
          BY <5>1, <5>3, Zenon
        <5>4. QED
          BY <5>2, <5>3
      <4>3. QED
        BY <4>1, <4>2
    <3>5. QED
      BY <2>1, <3>1, <3>2, <3>3, <3>4, Made
  <2>7. CASE AddTwo(w)
    <3>1. /\ req[w] # NoRequest /\ ~At(w, "password")
          /\ req[w].op # "seed" => user = "ready"
          /\ profile # Absent
      BY <2>2, <2>7 DEF AddTwo, At, Grounded
    <3>2. UNCHANGED <<user, profile, broken>> /\ two' = TRUE
      BY <2>7 DEF AddTwo
    <3>3. user \in {"absent", "bare", "ready"}
      BY DEF Inv, TypeOK
    <3>4. user = "ready" => Whole'
      BY <3>1, <3>2, Zenon DEF Whole
    <3>5. Whole => Whole'
      BY <3>4 DEF Whole
    <3>6. CASE user # "absent"
      BY <2>1, <3>1, <3>2, <3>3, <3>4, <3>5, <3>6, Made
    <3>7. CASE user = "absent"
      BY <3>2, <3>7 DEF Complete, Bare
    <3>8. QED
      BY <3>6, <3>7
  <2>8. CASE AddPhoto(w)
    <3>1. /\ req[w] # NoRequest /\ user = "ready" /\ two = TRUE
          /\ profile # Absent /\ ~At(w, "password")
      BY <2>2, <2>8 DEF AddPhoto, At, Grounded
    <3>2. UNCHANGED <<user, two, broken>>
      BY <2>8 DEF AddPhoto
    <3>3. Whole'
      BY <2>1, <3>1, <3>2, Zenon DEF Whole
    <3>4. QED
      BY <2>1, <3>2, <3>3, Made
  <2>9. CASE LoadProfile(w) \/ SaveSeed(w)
    <3>1. /\ req[w] # NoRequest /\ ~At(w, "password")
          /\ UNCHANGED <<user, two, broken>>
      BY <2>9 DEF LoadProfile, SaveSeed, At
    <3>2. Whole => Whole'
      BY <2>1, <3>1, Zenon DEF Whole
    <3>3. /\ req'[w] # NoRequest /\ req'[w].op = req[w].op
          /\ req'[w].pc \in {"save", "two"}
      <4>1. CASE LoadProfile(w)
        <5>1. PICK p \in Row :
                Write(w, p, [req[w] EXCEPT !.pc = "save", !.held = p])
          BY <4>1, PlainRow DEF LoadProfile, Inv, TypeOK, Role
        <5>2. PICK r \in Request :
                /\ r = [req[w] EXCEPT !.pc = "save", !.held = p]
                /\ r.pc = "save" /\ r.op = req[w].op /\ r.held = p
                /\ r.late = req[w].late /\ r.risen = req[w].risen
          BY <3>1, GoesLoaded
        <5>3. req'[w] = r
          BY <5>1, <5>2 DEF Write
        <5>4. QED
          BY <5>2, <5>3, NoRequestAssumption, Zenon
      <4>2. CASE SaveSeed(w)
        <5>1. "two" \in Step
          BY DEF Step
        <5>2. PICK r \in Request :
                /\ r = [req[w] EXCEPT !.pc = "two", !.late = FALSE]
                /\ r.pc = "two" /\ r.op = req[w].op /\ r.held = req[w].held
          BY <3>1, <5>1, GoesSaved, Zenon
        <5>3. req'[w] = r
          BY <4>2, <5>2 DEF SaveSeed, WriteLate, Write
        <5>4. QED
          BY <5>2, <5>3, NoRequestAssumption, Zenon
      <4>3. QED
        BY <2>9, <4>1, <4>2
    <3>4. Past(req[w]) => Past(req[w])'
      BY <3>3 DEF Past
    <3>5. QED
      BY <2>1, <3>1, <3>2, <3>4, Made
  <2>10. CASE FailPhoto(w)
    <3>1. /\ UNCHANGED <<user, two, profile>> /\ req[w] # NoRequest
          /\ broken' = (broken \/ (req[w].op \in Making /\ ~Whole))
      BY <2>10 DEF FailPhoto, Fail, row
    <3>2. (Whole => Whole') /\ (broken => broken')
      BY <3>1, Zenon DEF Whole
    <3>3. CASE Whole
      BY <2>1, <3>1, <3>2, <3>3, Made
    <3>4. CASE ~Whole /\ req[w].op \in Making
      <4>1. broken'
        BY <3>1, <3>4, Zenon
      <4>2. QED
        BY <2>1, <3>1, <3>2, <4>1, Made
    <3>5. CASE req[w].op \notin Making
      <4>1. ~Past(req[w]) /\ ~At(w, "password")
        BY <2>2, <3>1, <3>5 DEF Past, At, Labelled, Making
      <4>2. QED
        BY <2>1, <3>1, <3>2, <4>1, Made
    <3>6. QED
      BY <3>3, <3>4, <3>5
  <2>11. QED
    BY <1>3, <2>3, <2>4, <2>5, <2>6, <2>7, <2>8, <2>9, <2>10, Unmaking
    DEF Command, Serve
<1>4. QED
  BY <1>1, <1>2, <1>3 DEF Next, Cull, vars, row, Whole

(* An account that can be seen is whole, is being made, or was broken off.  *)
THEOREM AccountCompleting == Spec => []AccountComplete
<1>1. Init => Complete /\ Bare
  BY InitInv DEF Rest
<1>2. Complete => AccountComplete
  BY DEF Complete, AccountComplete, Past
<1>3. QED
  BY <1>1, <1>2, CompleteNext, Holding, PTL DEF Spec

(***************************************************************************)
(* The photo of a message.                                                 *)
(***************************************************************************)
Unattached == message # Absent /\ message.name = "upload" /\ message.photo = None
Attaching(w) == At(w, "attach") /\ req[w].op = "send"

LEMMA NotAttaching ==
  ASSUME Inv, NEW w \in Worker,
         Serve(w) \/ Send(w) \/ ViewMessage(w) \/ Secure(w) \/ InspectAvatar(w)
           \/ SealAvatar(w) \/ InspectMessage(w) \/ Delete(w) \/ Backfill(w)
           \/ SealPost(w)
  PROVE  ~Attaching(w)
BY DEF Attaching, At, Serve, Make, AddUser, SetPassword, AddProfile, AddTwo,
       AddPhoto, Edit, Gate, LoadProfile, SaveEdit, SaveSeed, Forget, Attach,
       Remove, Demote, View, Lookup, Open, Send, ViewMessage, ViewOf, Secure,
       InspectAvatar, SealAvatar, InspectMessage, Delete, Backfill, SealPost, Begin

LEMMA AttachmentNext ==
  Inv /\ AttachmentOrTorn /\ [Next]_vars => AttachmentOrTorn'
<1> SUFFICES ASSUME Inv, AttachmentOrTorn, [Next]_vars PROVE AttachmentOrTorn'
  OBVIOUS
<1>1. Unattached => torn \/ \E w \in Worker : Attaching(w)
  BY DEF AttachmentOrTorn, Unattached, Attaching
<1> SUFFICES ASSUME Unattached'
             PROVE  torn' \/ \E w \in Worker : Attaching(w)'
  BY DEF AttachmentOrTorn, Unattached, Attaching
<1>2. CASE UNCHANGED <<message, torn, req>>
  BY <1>1, <1>2 DEF Unattached, Attaching, At
<1>3. ASSUME NEW w \in Worker, Command(w) \/ (Serve(w) /\ UNCHANGED files)
      PROVE  torn' \/ \E v \in Worker : Attaching(v)'
  <2>1. ASSUME NEW v \in Worker, v # w, Attaching(v)
        PROVE  Attaching(v)'
    BY <1>3, <2>1, Others DEF Attaching, At
  <2>2. CASE UNCHANGED <<message, torn>> /\ ~Attaching(w)
    BY <1>1, <2>1, <2>2 DEF Unattached
  <2>3. CASE Insert(w)
    <3>1. req[w] # NoRequest /\ req[w].op = "send"
      BY <2>3 DEF Insert, At, Inv, Fits, Labelled
    <3>2. PICK r \in Request : Moves(w, r) /\ r.pc = "attach" /\ r.op = req[w].op
      BY <2>3, <3>1, Going DEF Insert, Step
    <3>3. req'[w] = r /\ r # NoRequest
      BY <3>2, NoRequestAssumption DEF Moves, Inv, TypeOK
    <3>4. Attaching(w)'
      BY <3>1, <3>2, <3>3 DEF Attaching, At
    <3>5. QED
      BY <3>4
  <2>4. CASE SealSent(w)
    <3>1. message \in Message /\ drawn \in Nat
      BY <2>4 DEF SealSent, At, Inv, Fits, Grounded, TypeOK
    <3>2. message'.photo = drawn + 1
      BY <2>4, <3>1 DEF SealSent, Message
    <3>3. QED
      BY <3>1, <3>2 DEF Unattached, None
  <2>5. CASE SealMessage(w)
    <3>1. message \in Message
      BY <2>5 DEF SealMessage, At, Inv, Fits, Grounded, TypeOK
    <3>2. message'.photo = 2
      BY <2>5, <3>1 DEF SealMessage, Message
    <3>3. QED
      BY <3>2 DEF Unattached, None
  <2>6. CASE FailPhoto(w)
    <3>1. /\ message' = message
          /\ torn' = (torn \/ (req[w].op = "send" /\ At(w, "attach")))
      BY <2>6 DEF FailPhoto
    <3>2. torn => torn'
      BY <3>1, Zenon
    <3>3. Attaching(w) => torn'
      BY <3>1, Zenon DEF Attaching
    <3>4. QED
      BY <1>1, <2>1, <3>1, <3>2, <3>3 DEF Unattached
  <2>7. CASE Serve(w) /\ UNCHANGED files
    BY <2>2, <2>7, NotAttaching DEF files
  <2>8. CASE Send(w) \/ ViewMessage(w) \/ Secure(w) \/ InspectAvatar(w)
               \/ SealAvatar(w) \/ InspectMessage(w) \/ Delete(w) \/ Backfill(w)
               \/ SealPost(w)
    <3>1. UNCHANGED <<message, torn>>
      BY <2>8 DEF Send, ViewMessage, Secure, InspectAvatar, SealAvatar,
                  InspectMessage, Delete, Backfill, SealPost, files
    <3>2. QED
      BY <2>2, <2>8, <3>1, NotAttaching
  <2>9. QED
    BY <1>3, <2>3, <2>4, <2>5, <2>6, <2>7, <2>8 DEF Command
<1>4. QED
  BY <1>2, <1>3 DEF Next, Visit, Cull, vars, files

(* A message that names a photo it does not have is being sent, or was torn. *)
THEOREM Attachments == Spec => []AttachmentOrTorn
<1>1. Init => AttachmentOrTorn
  BY InitInv DEF Rest
<1>2. QED
  BY <1>1, AttachmentNext, Holding, PTL DEF Spec
=============================================================================
