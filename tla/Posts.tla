------------------------------- MODULE Posts -------------------------------
(***************************************************************************)
(* One post: uploaded, edited and shown, sealed in the database and cached *)
(* as plaintext.                                                           *)
(*                                                                         *)
(* Sources: posts/views.py and posts/encryption.py.  A worker serves one   *)
(* request; each of its steps is one ORM statement or one access to the    *)
(* cache, with the Python that follows it.                                 *)
(*                                                                         *)
(* Every sealing draws a version, and a column holds the version it was    *)
(* sealed in: a tag checks when the columns it covers hold its version.    *)
(* Image and thumbnail are always written and read alike, as "media".      *)
(* Who may see a post is left to SocialGraph: whoever may not gets a 404,  *)
(* which changes nothing.                                                  *)
(***************************************************************************)
EXTENDS Naturals, FiniteSets

CONSTANTS Worker,      \* threads of the server
          Absent,      \* the post is not in the table
          NoRequest,   \* an idle worker
          MaxSeals     \* bound: sealings of the post

VARIABLES
  post,      \* the sealed columns of the Post row, or Absent
  removed,   \* Post.is_deleted
  drawn,     \* how many versions were sealed
  cache,     \* the plaintext cache: entries for a variant and a tag
  req,       \* the request that each worker serves
  wrong,     \* history: a reader got other content than its row's
  alarms     \* history: the rows, with a caption tag or without, whose
             \* check has failed

content == <<post, drawn, cache>>
postVars == <<post, removed, drawn, cache, req, wrong, alarms>>

Version == Nat \ {0}
None == 0   \* an empty tag, or a deferred column
Variant == {"media", "caption"}
Column == [media : Version \cup {None}, caption : Version,
           tag : Version, ctag : Version \cup {None}]
Entry == [key : Variant \X Version, version : Version]
Op == {"upload", "edit", "feed", "detail", "image"}
Step == {"insert", "reseal", "load", "fetch", "verify", "lookup", "open",
         "purge", "save"}
Request == [pc : Step, op : Op, row : Column \cup {Absent}]

ASSUME NoRequestAssumption == NoRequest \notin Request
ASSUME AbsentAssumption == Absent \notin Column

Sealed(v) == [media |-> v, caption |-> v, tag |-> v, ctag |-> v]
Untagged(v) == [Sealed(v) EXCEPT !.ctag = None]

\* No post yet, or one from before posts/migrations/0003 added caption tags.
PostsInit == /\ \/ post = Absent /\ drawn = 0
                \/ post = Untagged(1) /\ drawn = 1
             /\ removed = FALSE
             /\ cache = {}
             /\ req = [w \in Worker |-> NoRequest]
             /\ wrong = FALSE
             /\ alarms = {}

At(w, label) == req[w] # NoRequest /\ req[w].pc = label
Goto(w, label) == req' = [req EXCEPT ![w].pc = label]
Done(w) == req' = [req EXCEPT ![w] = NoRequest]

Sealing == {w \in Worker : req[w] # NoRequest
                             /\ req[w].op \in {"upload", "edit"}
                             /\ req[w].pc # "reseal"}

\* Bound: a request that seals begins only when there is a version for it.
Room == drawn + Cardinality(Sealing) < MaxSeals

Browse(w) ==
  /\ req[w] = NoRequest
  /\ \E o \in Op :
       /\ o \in {"upload", "edit"} => Room
       /\ o = "upload" => post = Absent /\ Sealing = {}
       /\ req' = [req EXCEPT ![w] =
            [pc |-> IF o = "upload" THEN "insert" ELSE "load", op |-> o,
             row |-> Absent]]
  /\ UNCHANGED <<content, removed, wrong, alarms>>

(***************************************************************************)
(* upload: the row is inserted without a caption tag, which needs its      *)
(* primary key, and its columns are saved again.                           *)
(***************************************************************************)
Insert(w) == /\ At(w, "insert")
             /\ drawn' = drawn + 1
             /\ post' = Untagged(drawn')
             /\ req' = [req EXCEPT ![w].pc = "reseal", ![w].row = post']
             /\ UNCHANGED <<removed, cache, wrong, alarms>>

\* Slip: encrypted_caption is emptied in the place of caption.
Reseal_NoCaption(w) ==
  /\ At(w, "reseal")
  /\ post' = [req[w].row EXCEPT !.ctag = req[w].row.caption, !.caption = None]
  /\ Done(w)
  /\ UNCHANGED <<removed, drawn, cache, wrong, alarms>>

Reseal(w) == /\ At(w, "reseal")
             /\ post' = [req[w].row EXCEPT !.ctag = req[w].row.caption]
             /\ Done(w)
             /\ UNCHANGED <<removed, drawn, cache, wrong, alarms>>

(***************************************************************************)
(* The views load the row, the feed without its blobs.  An edit that       *)
(* brings a new image needs nothing of the old one.                        *)
(***************************************************************************)
Load(w) ==
  /\ At(w, "load")
  /\ \/ /\ post = Absent \/ removed
        /\ Done(w)
     \/ /\ post # Absent
        /\ ~removed
        /\ \E label \in {"verify", "lookup", "purge"} :
             /\ label = "verify" <=> req[w].op \in {"feed", "detail"}
             /\ label = "purge" => req[w].op = "edit"
             /\ req' = [req EXCEPT
                  ![w].pc = label,
                  ![w].row = IF req[w].op = "feed"
                               THEN [post EXCEPT !.media = None] ELSE post]
  /\ UNCHANGED <<content, removed, wrong, alarms>>

Wanted(w) == IF req[w].op \in {"feed", "detail"} THEN "caption" ELSE "media"

\* _verify_full_mac
Whole(row) == row.tag = row.caption /\ row.media = row.caption

\* A check that fails raises, and the request with it.
Checked(w, ok) ==
  \/ /\ ok
     /\ Goto(w, IF Wanted(w) = "caption" THEN "lookup" ELSE "open")
     /\ UNCHANGED alarms
  \/ /\ ~ok
     /\ Done(w)
     /\ alarms' = alarms \cup {IF req[w].row.ctag = None THEN "untagged"
                                                          ELSE "tagged"}

\* Slip: the full tag is checked even when there is one for the caption.
Verify_Full(w) ==
  LET row == req[w].row IN
  /\ At(w, "verify")
  /\ \/ /\ row.media = None
        /\ Goto(w, "fetch")
        /\ UNCHANGED alarms
     \/ /\ row.media # None
        /\ Checked(w, Whole(row))
  /\ UNCHANGED <<content, removed, wrong>>

\* A caption is checked by its own tag, or else by the full one, for which the
\* feed has yet to load what it deferred; an image by the full one.
Verify(w) ==
  LET row == req[w].row
      short == Wanted(w) = "caption" /\ row.ctag # None IN
  /\ At(w, "verify")
  /\ \/ /\ short
        /\ Checked(w, row.ctag = row.caption)
     \/ /\ ~short
        /\ row.media = None
        /\ Goto(w, "fetch")
        /\ UNCHANGED alarms
     \/ /\ ~short
        /\ row.media # None
        /\ Checked(w, Whole(row))
  /\ UNCHANGED <<content, removed, wrong>>

\* Deferred columns are read from the row as it is by now.
Fetch(w) == /\ At(w, "fetch")
            /\ req' = [req EXCEPT ![w].pc = "verify",
                                  ![w].row.media = post.media]
            /\ UNCHANGED <<content, removed, wrong, alarms>>

(***************************************************************************)
(* The cache of plaintexts, and what a request shows or goes on with.      *)
(***************************************************************************)
\* Slip: the key leaves out the tag.
CacheKey_NoTag(variant, row) == <<variant, 1>>

CacheKey(variant, row) == <<variant, row.tag>>

Key(w) == CacheKey(Wanted(w), req[w].row)

Shown(w, version) ==
  /\ wrong' = (wrong \/ version # req[w].row[Wanted(w)])
  /\ IF req[w].op = "edit" THEN Goto(w, "purge") ELSE Done(w)

Lookup(w) ==
  /\ At(w, "lookup")
  /\ \/ \E e \in cache : e.key = Key(w) /\ Shown(w, e.version)
     \/ /\ \A e \in cache : e.key # Key(w)
        /\ Goto(w, IF Wanted(w) = "media" THEN "verify" ELSE "open")
        /\ UNCHANGED wrong
  /\ UNCHANGED <<content, removed, alarms>>

\* What was decrypted is cached; an image only now that it was checked.
Open(w) ==
  LET version == req[w].row[Wanted(w)] IN
  /\ At(w, "open")
  /\ cache' = {e \in cache : e.key # Key(w)}
                \cup {[key |-> Key(w), version |-> version]}
  /\ Shown(w, version)
  /\ UNCHANGED <<post, removed, drawn, alarms>>

\* Entries expire, and make room for others.
Cull == /\ \E e \in cache : cache' = cache \ {e}
        /\ UNCHANGED <<post, removed, drawn, req, wrong, alarms>>

(***************************************************************************)
(* edit: encrypt_and_store drops what was cached and seals anew, and the   *)
(* sealed columns, only these, are saved.                                  *)
(***************************************************************************)
Purge(w) == /\ At(w, "purge")
            /\ cache' = {e \in cache : \A v \in Variant :
                            e.key # CacheKey(v, req[w].row)}
            /\ Goto(w, "save")
            /\ UNCHANGED <<post, removed, drawn, wrong, alarms>>

\* Slip: save() without update_fields writes is_deleted as it was read.
Save_WholeRow(w) ==
  /\ At(w, "save")
  /\ drawn' = drawn + 1
  /\ post' = Sealed(drawn')
  /\ removed' = FALSE
  /\ Done(w)
  /\ UNCHANGED <<cache, wrong, alarms>>

\* Slip: "caption_mac_tag" is missing among the update_fields.
Save_NoCaptionTag(w) ==
  /\ At(w, "save")
  /\ drawn' = drawn + 1
  /\ post' = [Sealed(drawn') EXCEPT !.ctag = post.ctag]
  /\ Done(w)
  /\ UNCHANGED <<removed, cache, wrong, alarms>>

Save(w) == /\ At(w, "save")
           /\ drawn' = drawn + 1
           /\ post' = Sealed(drawn')
           /\ Done(w)
           /\ UNCHANGED <<removed, cache, wrong, alarms>>

PostStep(w) == \/ Insert(w) \/ Reseal(w) \/ Load(w) \/ Verify(w) \/ Fetch(w)
               \/ Lookup(w) \/ Open(w) \/ Purge(w) \/ Save(w)

-----------------------------------------------------------------------------
(* Every variable has its type. *)
PostsTypeOK ==
  /\ post \in Column \cup {Absent}
  /\ removed \in BOOLEAN
  /\ drawn \in Nat
  /\ cache \subseteq Entry
  /\ req \in [Worker -> Request \cup {NoRequest}]
  /\ wrong \in BOOLEAN
  /\ alarms \subseteq {"tagged", "untagged"}

(* Whatever uploads and edits overlap, the blobs, the caption and the tags in
   the row come from one sealing, and only the caption's tag may still be
   missing (posts/views.py, lines 85 to 97 and 133 to 144). *)
PostWhole ==
  post # Absent => /\ post.media = post.caption
                   /\ post.tag = post.caption
                   /\ post.ctag \in {None, post.caption}

(* Nobody is shown, and no edit goes on with, content other than that of the
   row it loaded, though readers fill the cache with what they loaded long
   before an edit dropped it (posts/encryption.py, lines 26, 32 and 111). *)
FreshAnswers == ~wrong

(* A page may fail in spite of a whole row only for a post whose caption has
   no tag of its own: its blobs are loaded later than the rest
   (posts/encryption.py, lines 64 to 70, and posts/views.py, line 31). *)
OnlyUntaggedFail == alarms \subseteq {"untagged"}
=============================================================================
