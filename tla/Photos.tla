------------------------------- MODULE Photos -------------------------------
(***************************************************************************)
(* The plaintext images of an older version, and the commands that move    *)
(* them into sealed columns, beside a site that goes on serving: an        *)
(* avatar (Profiles), the photo of one message, and one post.              *)
(*                                                                         *)
(* Sources: secure_media.py, backfill_post_thumbnails.py and               *)
(* messaging/views.py (thread, message_image).                             *)
(*                                                                         *)
(* An image file is named after the row that refers to it.  The post is    *)
(* only a file, or sealed, or not there; Posts models what becomes of it   *)
(* then.                                                                   *)
(***************************************************************************)
EXTENDS Profiles

VARIABLES
  disk,     \* the files below MEDIA_ROOT
  message,  \* image and sealed photo of a message, or Absent
  post,     \* the post: Absent, "file" or "sealed"
  torn      \* history: a request that sent a photo ended before sealing it

files == <<disk, message, post, torn>>
vars == <<user, two, profile, drawn, cache, req, broken, undone,
          disk, message, post, torn>>

File == {"avatar", "message", "post"}
Message == [name : Name, photo : Picture \cup {None}]

ASSUME MessageAssumption == Absent \notin Message

Init == /\ ProfilesInit
        /\ \/ /\ profile = Absent
              /\ disk = {}
              /\ message = Absent
              /\ post = Absent
           \/ /\ profile # Absent
              /\ disk = File
              /\ message = [name |-> "file", photo |-> None]
              /\ post = "file"
        /\ torn = FALSE

(***************************************************************************)
(* Messages.                                                               *)
(***************************************************************************)
Send(w) == /\ message = Absent
           /\ \A v \in Worker : ~At(v, "insert")
           /\ user = "ready"
           /\ Room
           /\ Begin(w, "send", "insert")
           /\ UNCHANGED <<row, drawn, cache, broken, undone, files>>

\* Slip: the photo of a message is sealed only when there is a text, too.
Insert_TextOnly(w) == /\ At(w, "insert")
                      /\ message' = [name |-> "upload", photo |-> None]
                      /\ Goto(w, "attach") \/ Done(w)
                      /\ UNCHANGED <<row, drawn, cache, broken, undone,
                                     disk, post, torn>>

\* The row is saved first: the vault's context needs its primary key.
Insert(w) == /\ At(w, "insert")
             /\ message' = [name |-> "upload", photo |-> None]
             /\ Goto(w, "attach")
             /\ UNCHANGED <<row, drawn, cache, broken, undone, disk, post, torn>>

SealSent(w) == /\ At(w, "attach")
               /\ req[w].op = "send"
               /\ drawn' = drawn + 1
               /\ message' = [message EXCEPT !.photo = drawn']
               /\ Done(w)
               /\ UNCHANGED <<row, cache, broken, undone, disk, post, torn>>

ViewMessage(w) == /\ message # Absent
                  /\ ViewOf(w, "message", message.photo)
                  /\ UNCHANGED files

(***************************************************************************)
(* secure_media: the avatars, the photos of messages, then every file.     *)
(***************************************************************************)
Secure(w) == /\ disk # {}
             /\ Begin(w, "secure", "avatars")
             /\ UNCHANGED <<row, drawn, cache, broken, undone, files>>

Unsealed(r, f) == r # Absent /\ r.name = "file" /\ r.photo = None /\ f \in disk

\* Slip: the photos of messages are left to another command.
InspectAvatar_Only(w) ==
  /\ At(w, "avatars")
  /\ req' = [req EXCEPT
       ![w].pc = IF Unsealed(profile, "avatar") THEN "seal_avatar" ELSE "delete"]
  /\ UNCHANGED <<row, drawn, cache, broken, undone, files>>

\* A row that is sealed, has no image, or whose file is missing, is passed over.
InspectAvatar(w) ==
  /\ At(w, "avatars")
  /\ req' = [req EXCEPT
       ![w].pc = IF Unsealed(profile, "avatar") THEN "seal_avatar" ELSE "messages"]
  /\ UNCHANGED <<row, drawn, cache, broken, undone, files>>

SealAvatar(w) ==
  /\ At(w, "seal_avatar")
  /\ WriteLate(w, [profile EXCEPT !.photo = 1],
               [req[w] EXCEPT !.pc = "messages", !.late = FALSE])
  /\ UNCHANGED <<user, two, drawn, cache, broken, files>>

InspectMessage(w) ==
  /\ At(w, "messages")
  /\ \/ /\ Unsealed(message, "message")
        /\ Goto(w, "seal_message")
     \/ /\ ~Unsealed(message, "message")
        /\ Goto(w, "delete") \/ Done(w)    \* Done: --keep-files
  /\ UNCHANGED <<row, drawn, cache, broken, undone, files>>

SealMessage(w) == /\ At(w, "seal_message")
                  /\ message' = [message EXCEPT !.photo = 2]
                  /\ Goto(w, "delete") \/ Done(w)
                  /\ UNCHANGED <<row, drawn, cache, broken, undone,
                                 disk, post, torn>>

\* One file after the other, in the order of their paths, whatever it belongs
\* to.
First(d) == IF "avatar" \in d THEN "avatar"
              ELSE IF "message" \in d THEN "message" ELSE "post"

Delete(w) == /\ At(w, "delete")
             /\ \/ /\ disk # {}
                   /\ disk' = disk \ {First(disk)}
                   /\ UNCHANGED req
                \/ /\ disk = {}
                   /\ Done(w)
                   /\ UNCHANGED disk
             /\ UNCHANGED <<row, drawn, cache, broken, undone,
                            message, post, torn>>

(***************************************************************************)
(* backfill_post_thumbnails: the post is read from its file, or skipped.   *)
(***************************************************************************)
Backfill(w) == /\ post = "file"
               /\ "post" \in disk
               /\ Begin(w, "backfill", "seal_post")
               /\ UNCHANGED <<row, drawn, cache, broken, undone, files>>

SealPost(w) == /\ At(w, "seal_post")
               /\ post' = "sealed"
               /\ Done(w)
               /\ UNCHANGED <<row, drawn, cache, broken, undone,
                              disk, message, torn>>

FailPhoto(w) == /\ Fail(w)
                /\ torn' = (torn \/ (req[w].op = "send" /\ At(w, "attach")))
                /\ UNCHANGED <<disk, message, post>>

Command(w) == \/ Send(w) \/ Insert(w) \/ SealSent(w) \/ ViewMessage(w)
              \/ Secure(w) \/ InspectAvatar(w) \/ SealAvatar(w)
              \/ InspectMessage(w) \/ SealMessage(w) \/ Delete(w)
              \/ Backfill(w) \/ SealPost(w) \/ FailPhoto(w)

Next == \/ Visit /\ UNCHANGED files
        \/ Cull /\ UNCHANGED files
        \/ \E w \in Worker : Command(w) \/ (Serve(w) /\ UNCHANGED files)

Spec == Init /\ [][Next]_vars

-----------------------------------------------------------------------------
(* Every variable has its type. *)
TypeOK ==
  /\ user \in {"absent", "bare", "ready"}
  /\ two \in BOOLEAN
  /\ profile \in Row \cup {Absent}
  /\ drawn \in Nat
  /\ cache \subseteq Entry
  /\ req \in [Worker -> Request \cup {NoRequest}]
  /\ broken \in BOOLEAN
  /\ undone \in BOOLEAN
  /\ disk \subseteq File
  /\ message \in Message \cup {Absent}
  /\ post \in {Absent, "file", "sealed"}
  /\ torn \in BOOLEAN

(* secure_media deletes the file of an avatar or of a message only once it is
   sealed: a row that still needs its file has it, unless a request that had
   loaded the profile before it was sealed has saved it over. *)
SealedBeforeDeleted ==
  /\ ~undone /\ profile # Absent /\ profile.name = "file" /\ profile.photo = None
       => "avatar" \in disk
  /\ message # Absent /\ message.name = "file" /\ message.photo = None
       => "message" \in disk

(* A message that names a photo it does not have is being sent, or was torn by
   the end of the request that sent it (messaging/views.py 88-96). *)
AttachmentOrTorn ==
  message # Absent /\ message.name = "upload" /\ message.photo = None
    => (\E w \in Worker : At(w, "attach") /\ req[w].op = "send") \/ torn

(* What README.md, line 181, says of secure_media: any plaintext image is
   encrypted, then its file deleted.  A post that is a file has its file. *)
PostsEncrypted == post = "file" => "post" \in disk
=============================================================================
