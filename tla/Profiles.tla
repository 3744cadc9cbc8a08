------------------------------ MODULE Profiles ------------------------------
(***************************************************************************)
(* One account as it is made and its profile changed: the rows User,       *)
(* Profile and TwoFactorSettings, the avatar that the media vault seals,   *)
(* and the vault's cache of plaintexts.  Accounts share no row.            *)
(*                                                                         *)
(* Sources: accounts/views.py (register, profile_view, profile_edit,       *)
(* avatar_image, sessions_dashboard), moderation/portal_views.py           *)
(* (manage_admins), moderation/permissions.py, seed_demo.py and            *)
(* crypto_core/media_vault.py.                                             *)
(*                                                                         *)
(* A worker serves one request or runs one command; each of its steps is   *)
(* one ORM statement or one access to the cache, with the Python that      *)
(* follows it.  A photo stands for its picture: blob and tag are always    *)
(* written together, so one field holds both, and two sealings of one      *)
(* picture are not told apart.  Who may see whose photo is left to         *)
(* SocialGraph; names, bios and contact info are left out.                 *)
(***************************************************************************)
EXTENDS Naturals, FiniteSets

CONSTANTS Worker,       \* threads of the server, and operators' shells
          Absent,       \* no row
          NoRequest,    \* an idle worker
          SeedRole,     \* the role seed_demo gives this account
          MaxPictures   \* bound: pictures ever sealed

VARIABLES
  user,     \* the User row: absent, bare (no password was set) or ready
  two,      \* there is a TwoFactorSettings row
  profile,  \* the Profile row, or Absent
  drawn,    \* how many pictures there are
  cache,    \* plaintexts in the cache
  req,      \* what each worker serves
  broken,   \* history: what was to make the account did not get to its end
  undone    \* history: a request put back a photo that was replaced, after
            \* it had loaded the row

row == <<user, two, profile>>
profileVars == <<user, two, profile, drawn, cache, req, broken, undone>>

Picture == Nat \ {0}
None == 0    \* encrypted_avatar_blob is NULL
Role == {"user", "admin"}
\* The column avatar: empty, a file below MEDIA_ROOT, or merely the name that
\* an upload had.
Name == {"none", "file", "upload"}
Row == [role : Role, name : Name, photo : Picture \cup {None}]
Subject == {"avatar", "message"}
Key == [subject : Subject, tag : Picture]
Entry == [key : Key, picture : Picture]

Making == {"register", "google", "create_admin", "seed"}
Op == Making \cup {"edit", "remove", "view", "send", "secure", "backfill"}
Step == {"user", "password", "profile", "two", "photo", "gate", "load",
         "save", "forget", "attach", "demote", "lookup", "open",
         "avatars", "seal_avatar", "messages", "seal_message", "delete",
         "insert", "seal_post"}
Request == [pc : Step, op : Op, held : Row \cup Key \cup {Absent},
            late : BOOLEAN, risen : BOOLEAN]

ASSUME AbsentAssumption == Absent \notin Row \cup Key
ASSUME NoRequestAssumption == NoRequest \notin Request
ASSUME SeedRoleAssumption == SeedRole \in Role

Plain(role) == [role |-> role, name |-> "none", photo |-> None]

\* An empty site, or an account whose photo is a file, picture 1, from before
\* accounts/migrations/0007, and picture 2 a message's.
ProfilesInit ==
  /\ \/ /\ user = "absent" /\ two = FALSE
        /\ profile = Absent
        /\ drawn = 1
     \/ /\ user = "ready" /\ two = TRUE
        /\ profile = [Plain("user") EXCEPT !.name = "file"]
        /\ drawn = 2
  /\ cache = {}
  /\ req = [w \in Worker |-> NoRequest]
  /\ broken = FALSE
  /\ undone = FALSE

At(w, label) == req[w] # NoRequest /\ req[w].pc = label
Begin(w, o, label) ==
  /\ req[w] = NoRequest
  /\ req' = [req EXCEPT ![w] = [pc |-> label, op |-> o, held |-> Absent,
                                late |-> FALSE, risen |-> FALSE]]
Goto(w, label) == req' = [req EXCEPT ![w].pc = label]
Done(w) == req' = [req EXCEPT ![w] = NoRequest]

\* Bound: an upload begins only when there is a picture for it.
Uploading == {w \in Worker : \E l \in {"forget", "attach", "insert"} : At(w, l)}
Room == drawn + Cardinality(Uploading) < MaxPictures

\* role_of: an account without a profile counts as a user.
RoleOf(p) == IF p = Absent THEN "user" ELSE p.role
SamePhoto(p, q) == p # Absent /\ p.name = q.name /\ p.photo = q.photo

\* Every write of the profile: w goes on as "next", and the histories of
\* other workers note what has changed under them.
Write(w, new, next) ==
  /\ profile' = new
  /\ req' = [v \in Worker |->
       IF v = w THEN next
       ELSE IF req[v] = NoRequest THEN NoRequest
       ELSE [req[v] EXCEPT
         !.late = @ \/ (req[v].pc \in {"save", "seal_avatar"}
                          /\ ~SamePhoto(profile, new)),
         !.risen = @ \/ (req[v].op = "edit" /\ req[v].pc = "load"
                          /\ RoleOf(profile) = "user" /\ new.role = "admin")]]

\* A write of columns that w loaded earlier.
WriteLate(w, new, next) ==
  /\ Write(w, new, next)
  /\ undone' = (undone \/ (req[w].late /\ ~SamePhoto(profile, new)))

\* A write of a new picture.
WriteNew(w, new, next) ==
  /\ drawn' = drawn + 1
  /\ Write(w, new, next)
  /\ undone' = FALSE

(***************************************************************************)
(* Making an account: register, create_admin and seed_demo.                *)
(***************************************************************************)
Make(w) ==
  /\ \E o \in Making : /\ o # "seed" => user = "absent"   \* the form's check
                       /\ Begin(w, o, "user")
  /\ UNCHANGED <<row, drawn, cache, broken, undone>>

\* seed_demo's get_or_create leaves the password to the next statement.
AddUser(w) ==
  /\ At(w, "user")
  /\ \/ /\ user = "absent"
        /\ user' = IF req[w].op = "seed" THEN "bare" ELSE "ready"
        /\ Goto(w, IF req[w].op = "seed" THEN "password" ELSE "profile")
     \/ /\ user # "absent"
        /\ IF req[w].op = "seed" THEN Goto(w, "profile") ELSE Done(w)
        /\ UNCHANGED user
  /\ UNCHANGED <<two, profile, drawn, cache, broken, undone>>

SetPassword(w) == /\ At(w, "password")
                  /\ user' = "ready"
                  /\ Goto(w, "profile")
                  /\ UNCHANGED <<two, profile, drawn, cache, broken, undone>>

\* A profile that a visit has created meanwhile is an IntegrityError.
AddProfile(w) ==
  /\ At(w, "profile")
  /\ req[w].op # "seed"
  /\ \/ /\ profile = Absent
        /\ Write(w, Plain(IF req[w].op = "create_admin" THEN "admin" ELSE "user"),
                 [req[w] EXCEPT !.pc = "two"])
        /\ UNCHANGED broken
     \/ /\ profile # Absent
        /\ Done(w)
        /\ broken' = (broken \/ ~two)
        /\ UNCHANGED profile
  /\ UNCHANGED <<user, two, drawn, cache, undone>>

\* Slip: a registered account gets no two-factor row.
AddTwo_SeedOnly(w) == /\ At(w, "two")
                      /\ two' = (two \/ req[w].op = "seed")
                      /\ Done(w)
                      /\ UNCHANGED <<user, profile, drawn, cache, broken, undone>>

AddTwo(w) ==
  /\ At(w, "two")
  /\ two' = TRUE
  /\ IF req[w].op = "google" /\ ~two THEN Goto(w, "photo") ELSE Done(w)
  /\ UNCHANGED <<user, profile, drawn, cache, broken, undone>>

\* Google's picture, unless there is none or it cannot be read.
AddPhoto(w) ==
  /\ At(w, "photo")
  /\ \/ /\ Room
        /\ WriteNew(w, [profile EXCEPT !.name = "upload", !.photo = drawn'],
                    NoRequest)
     \/ /\ Done(w)
        /\ UNCHANGED <<profile, drawn, undone>>
  /\ UNCHANGED <<user, two, cache, broken>>

(***************************************************************************)
(* The profile: get_or_create, and saves of the whole row.                 *)
(***************************************************************************)
Edit(w) == /\ user = "ready"
           /\ Begin(w, "edit", "gate")
           /\ UNCHANGED <<row, drawn, cache, broken, undone>>

\* Slip: the prefix /accounts/profile/ is open to every role.
Gate_Open(w) == /\ At(w, "gate")
                /\ Goto(w, "load")
                /\ UNCHANGED <<row, drawn, cache, broken, undone>>

\* RoleAccessMiddleware sends admins home.
Gate(w) == /\ At(w, "gate")
           /\ IF RoleOf(profile) = "admin" THEN Done(w) ELSE Goto(w, "load")
           /\ UNCHANGED <<row, drawn, cache, broken, undone>>

LoadProfile(w) ==
  /\ At(w, "load") \/ (At(w, "profile") /\ req[w].op = "seed")
  /\ LET p == IF profile = Absent THEN Plain("user") ELSE profile IN
       Write(w, p, [req[w] EXCEPT !.pc = "save", !.held = p])
  /\ UNCHANGED <<user, two, drawn, cache, broken, undone>>

\* A form with text only, one that ticks "Clear", and one with a picture.
SaveEdit(w) ==
  /\ At(w, "save")
  /\ req[w].op = "edit"
  /\ \/ \E name \in {req[w].held.name, "none"} :
          WriteLate(w, [req[w].held EXCEPT !.name = name], NoRequest)
     \/ /\ Room
        /\ WriteLate(w, [req[w].held EXCEPT !.name = "upload"],
                     [req[w] EXCEPT !.pc = "forget", !.late = FALSE])
  /\ UNCHANGED <<user, two, drawn, cache, broken>>

\* Slip: seeding writes a new row over the one it found.
SaveSeed_New(w) ==
  /\ At(w, "save")
  /\ req[w].op = "seed"
  /\ WriteLate(w, Plain(SeedRole), [req[w] EXCEPT !.pc = "two", !.late = FALSE])
  /\ UNCHANGED <<user, two, drawn, cache, broken>>

SaveSeed(w) ==
  /\ At(w, "save")
  /\ req[w].op = "seed"
  /\ WriteLate(w, [req[w].held EXCEPT !.role = SeedRole],
               [req[w] EXCEPT !.pc = "two", !.late = FALSE])
  /\ UNCHANGED <<user, two, drawn, cache, broken>>

\* Slip: the key names the context only.
CacheKey_NoTag(subject, tag) == [subject |-> subject, tag |-> 1]
\* The context and the tag.
CacheKey(subject, tag) == [subject |-> subject, tag |-> tag]

\* media_vault.forget, by the tag of the row that was loaded.
Forget(w) == /\ At(w, "forget")
             /\ cache' = {e \in cache :
                  e.key # CacheKey("avatar", req[w].held.photo)}
             /\ Goto(w, "attach")
             /\ UNCHANGED <<row, drawn, broken, undone>>

Attach(w) == /\ At(w, "attach")
             /\ req[w].op = "edit"
             /\ WriteNew(w, [profile EXCEPT !.photo = drawn'], NoRequest)
             /\ UNCHANGED <<user, two, cache, broken>>

\* Another page that creates what it misses: the profile is anybody's to
\* visit, the sessions page is the owner's, and closed to admins.
Visit == /\ \/ /\ user # "absent"
               /\ profile = Absent
               /\ profile' = Plain("user")
               /\ UNCHANGED two
            \/ /\ user = "ready"
               /\ RoleOf(profile) = "user"
               /\ ~two
               /\ two' = TRUE
               /\ UNCHANGED profile
         /\ UNCHANGED <<user, drawn, cache, req, broken, undone>>

(***************************************************************************)
(* A developer removes an admin.                                           *)
(***************************************************************************)
Remove(w) == /\ RoleOf(profile) = "admin"
             /\ Begin(w, "remove", "demote")
             /\ UNCHANGED <<row, drawn, cache, broken, undone>>

\* Slip: the role is emptied.
Demote_Empty(w) == /\ At(w, "demote")
                   /\ Write(w, [profile EXCEPT !.role = ""], NoRequest)
                   /\ UNCHANGED <<user, two, drawn, cache, broken, undone>>

Demote(w) == /\ At(w, "demote")
             /\ Write(w, [profile EXCEPT !.role = "user"], NoRequest)
             /\ UNCHANGED <<user, two, drawn, cache, broken, undone>>

(***************************************************************************)
(* A view of a photo: media_vault.open_sealed on the row that was loaded.  *)
(***************************************************************************)
ViewOf(w, subject, photo) ==
  /\ req[w] = NoRequest
  /\ photo # None
  /\ req' = [req EXCEPT ![w] = [pc |-> "lookup", op |-> "view",
                                held |-> [subject |-> subject, tag |-> photo],
                                late |-> FALSE, risen |-> FALSE]]
  /\ UNCHANGED <<row, drawn, cache, broken, undone>>

View(w) == profile # Absent /\ ViewOf(w, "avatar", profile.photo)

KeyOf(w) == CacheKey(req[w].held.subject, req[w].held.tag)
Hit(w) == {e \in cache : e.key = KeyOf(w)}

Lookup(w) == /\ At(w, "lookup")
             /\ IF Hit(w) = {} THEN Goto(w, "open") ELSE Done(w)
             /\ UNCHANGED <<row, drawn, cache, broken, undone>>

Open(w) == /\ At(w, "open")
           /\ cache' = {e \in cache : e.key # KeyOf(w)}
                \cup {[key |-> KeyOf(w), picture |-> req[w].held.tag]}
           /\ Done(w)
           /\ UNCHANGED <<row, drawn, broken, undone>>

Cull == /\ \E e \in cache : cache' = cache \ {e}
        /\ UNCHANGED <<row, drawn, req, broken, undone>>

Whole == user = "ready" /\ profile # Absent /\ two

\* An exception, a closed shell or a stopped server ends what w does.
Fail(w) == /\ req[w] # NoRequest
           /\ Done(w)
           /\ broken' = (broken \/ (req[w].op \in Making /\ ~Whole))
           /\ UNCHANGED <<row, drawn, cache, undone>>

\* The views above; Photos adds the rest, and failures.
Serve(w) == \/ Make(w) \/ AddUser(w) \/ SetPassword(w) \/ AddProfile(w)
            \/ AddTwo(w) \/ AddPhoto(w) \/ Edit(w) \/ Gate(w) \/ LoadProfile(w)
            \/ SaveEdit(w) \/ SaveSeed(w) \/ Forget(w) \/ Attach(w)
            \/ Remove(w) \/ Demote(w) \/ View(w) \/ Lookup(w) \/ Open(w)

-----------------------------------------------------------------------------
(* A reader whom the cache answers gets the picture of the row it loaded,
   however many uploads, readers and dropped entries came in between
   (media_vault.py names the tag in the key). *)
CacheAnswersRow ==
  \A w \in Worker :
    At(w, "lookup") => \A e \in Hit(w) : e.picture = req[w].held.tag

(* An account that can be seen is whole, with a password, a profile and a
   two-factor row, or is being made, or what was making it broke off: its
   rows are saved one by one (views.py 46-61, seed_demo.py 81-93). *)
AccountComplete ==
  user # "absent"
    => \/ Whole
       \/ \E w \in Worker : req[w] # NoRequest /\ req[w].op \in Making
       \/ broken

Replaced == profile # Absent /\ profile' # Absent
              /\ profile.photo # None /\ profile'.photo # profile.photo

(* A sealed photo gives way to a new picture only, or to a request that loaded
   the row before the photo was there and saves what it loaded (profile_edit
   and seed_demo save every column, secure_media seals a file it read). *)
PhotoStands ==
  [][Replaced => \/ drawn' = drawn + 1 /\ profile'.photo = drawn'
                 \/ \E w \in Worker : /\ req[w] # NoRequest
                                      /\ req[w].late
                                      /\ req'[w] # req[w]]_profileVars

(* A user becomes an admin by seed_demo, or by an edit that passed the gate as
   a user and loaded the row as an admin: no other request can give back a
   role that a developer has taken away (profile_edit saves the role too). *)
RoleStands ==
  [][profile # Absent /\ profile.role = "user" /\ profile'.role = "admin"
       => \E w \in Worker : /\ At(w, "save")
                            /\ req[w].op = "seed" \/ req[w].risen
                            /\ req'[w] # req[w]]_profileVars
=============================================================================
