--------------------------- MODULE Reports_proofs ---------------------------
(***************************************************************************)
(* Proofs about Posts and Reports, for any number of workers, sealings and *)
(* reports.                                                                *)
(***************************************************************************)
EXTENDS Reports, TLAPS

(***************************************************************************)
(* The post.  A row that a request holds came whole from one sealing; the  *)
(* feed's copy alone may lack its blobs, or have those of a later one.     *)
(***************************************************************************)
Fits(r) == r # NoRequest =>
  /\ r.pc = "reseal" => /\ r.row \in Column
                        /\ r.row.media = r.row.caption
                        /\ r.row.tag = r.row.caption
  /\ r.pc \in {"verify", "fetch", "lookup", "open", "purge"} =>
       /\ r.row \in Column
       /\ r.row.tag = r.row.caption
       /\ r.row.ctag \in {None, r.row.caption}
       /\ r.op # "feed" => r.row.media = r.row.caption
       /\ post # Absent
  /\ r.pc = "fetch" => r.op = "feed"

\* What is cached for a tag is what was sealed with it.
CacheTrue == \A e \in cache : e.version = e.key[2]

PostInv == /\ PostsTypeOK
           /\ PostWhole
           /\ FreshAnswers
           /\ OnlyUntaggedFail
           /\ CacheTrue
           /\ \A w \in Worker : Fits(req[w])

LEMMA PostInit == PostsInit => PostInv
<1> SUFFICES ASSUME PostsInit PROVE PostInv
  OBVIOUS
<1>1. post = Absent \/ /\ post \in Column
                       /\ post.media = post.caption
                       /\ post.tag = post.caption
                       /\ post.ctag = None
  BY DEF PostsInit, Untagged, Sealed, Column, Version, None
<1>2. PostsTypeOK
  <2>1. drawn \in Nat
    BY DEF PostsInit
  <2>2. req \in [Worker -> Request \cup {NoRequest}]
    BY DEF PostsInit
  <2>3. /\ removed \in BOOLEAN /\ wrong \in BOOLEAN
        /\ cache \subseteq Entry /\ alarms \subseteq {"tagged", "untagged"}
    BY DEF PostsInit
  <2>4. QED
    BY <1>1, <2>1, <2>2, <2>3 DEF PostsTypeOK
<1>3. PostWhole
  BY <1>1 DEF PostWhole
<1>4. /\ FreshAnswers /\ OnlyUntaggedFail /\ CacheTrue
      /\ \A w \in Worker : Fits(req[w])
  BY DEF PostsInit, FreshAnswers, OnlyUntaggedFail, CacheTrue, Fits
<1>5. QED
  BY <1>2, <1>3, <1>4 DEF PostInv

(* Requests fit when only one of them changed, and the post is not gone. *)
LEMMA OneRequest ==
  ASSUME PostInv, NEW w \in Worker, NEW r \in Request \cup {NoRequest},
         req' = [req EXCEPT ![w] = r], Fits(r)', post # Absent => post' # Absent
  PROVE  /\ req' \in [Worker -> Request \cup {NoRequest}]
         /\ \A v \in Worker : Fits(req[v])'
<1>1. req \in [Worker -> Request \cup {NoRequest}]
  BY DEF PostInv, PostsTypeOK
<1>2. req'[w] = r /\ \A v \in Worker : v # w => req'[v] = req[v]
  BY <1>1
<1>3. ASSUME NEW v \in Worker, v # w
      PROVE  Fits(req[v])'
  BY <1>2, <1>3 DEF PostInv, Fits
<1>4. QED
  BY <1>1, <1>2, <1>3

LEMMA EndedFits == Fits(NoRequest)'
BY DEF Fits

LEMMA BrowseInv ==
  ASSUME PostInv, NEW w \in Worker, Browse(w)
  PROVE  PostInv'
<1>1. PICK o \in Op :
        req' = [req EXCEPT ![w] =
          [pc |-> IF o = "upload" THEN "insert" ELSE "load", op |-> o,
           row |-> Absent]]
  BY DEF Browse
<1> DEFINE r == [pc |-> IF o = "upload" THEN "insert" ELSE "load", op |-> o,
                 row |-> Absent]
<1>2. r \in Request /\ Fits(r)'
  BY DEF Request, Step, Fits
<1>3. UNCHANGED <<content, removed, wrong, alarms>>
  BY DEF Browse
<1>4. /\ req' \in [Worker -> Request \cup {NoRequest}]
      /\ \A v \in Worker : Fits(req[v])'
  BY <1>1, <1>2, <1>3, OneRequest DEF content
<1>5. QED
  BY <1>3, <1>4 DEF PostInv, PostsTypeOK, PostWhole, FreshAnswers,
                    OnlyUntaggedFail, CacheTrue, content

LEMMA InsertInv ==
  ASSUME PostInv, NEW w \in Worker, Insert(w)
  PROVE  PostInv'
<1>1. req[w] \in Request
  BY DEF PostInv, PostsTypeOK, Insert, At
<1>2. drawn' \in Version
  BY DEF PostInv, PostsTypeOK, Insert, Version
<1>3. /\ post' \in Column
      /\ post'.media = post'.caption
      /\ post'.tag = post'.caption
      /\ post'.ctag = None
  BY <1>2 DEF Insert, Untagged, Sealed, Column
<1>4. PICK r \in Request : r = [req[w] EXCEPT !.pc = "reseal", !.row = post']
  BY <1>1, <1>3 DEF Request, Step
<1>5. r.pc = "reseal" /\ r.row = post'
  BY <1>1, <1>4 DEF Request
<1>6. Fits(r)'
  BY <1>3, <1>5 DEF Fits
<1>7. req' = [req EXCEPT ![w] = r]
  BY <1>1, <1>4 DEF Insert, PostInv, PostsTypeOK, Request
<1>8. post' # Absent
  BY <1>3, AbsentAssumption
<1>9. /\ req' \in [Worker -> Request \cup {NoRequest}]
      /\ \A v \in Worker : Fits(req[v])'
  BY <1>6, <1>7, <1>8, OneRequest
<1>10. QED
  BY <1>2, <1>3, <1>9 DEF PostInv, PostsTypeOK, PostWhole, FreshAnswers,
                          OnlyUntaggedFail, CacheTrue, Insert, Version

LEMMA ResealInv ==
  ASSUME PostInv, NEW w \in Worker, Reseal(w)
  PROVE  PostInv'
<1> DEFINE row == req[w].row
<1>1. row \in Column /\ row.media = row.caption /\ row.tag = row.caption
  BY DEF PostInv, Reseal, At, Fits
<1>2. /\ post' \in Column
      /\ post'.media = post'.caption
      /\ post'.tag = post'.caption
      /\ post'.ctag = post'.caption
  BY <1>1 DEF Reseal, Column
<1>3. post' # Absent
  BY <1>2, AbsentAssumption
<1>4. /\ req' \in [Worker -> Request \cup {NoRequest}]
      /\ \A v \in Worker : Fits(req[v])'
  BY <1>3, OneRequest, EndedFits DEF Reseal, Done
<1>5. QED
  BY <1>2, <1>4 DEF PostInv, PostsTypeOK, PostWhole, FreshAnswers,
                    OnlyUntaggedFail, CacheTrue, Reseal

LEMMA SaveInv ==
  ASSUME PostInv, NEW w \in Worker, Save(w)
  PROVE  PostInv'
<1>1. drawn' \in Version
  BY DEF PostInv, PostsTypeOK, Save, Version
<1>2. /\ post' \in Column
      /\ post'.media = post'.caption
      /\ post'.tag = post'.caption
      /\ post'.ctag = post'.caption
  BY <1>1 DEF Save, Sealed, Column
<1>3. post' # Absent
  BY <1>2, AbsentAssumption
<1>4. /\ req' \in [Worker -> Request \cup {NoRequest}]
      /\ \A v \in Worker : Fits(req[v])'
  BY <1>3, OneRequest, EndedFits DEF Save, Done
<1>5. QED
  BY <1>1, <1>2, <1>4 DEF PostInv, PostsTypeOK, PostWhole, FreshAnswers,
                          OnlyUntaggedFail, CacheTrue, Save, Version

(* A step that only moves a request on, with a row that fits, or ends it. *)
LEMMA MovedInv ==
  ASSUME PostInv, NEW w \in Worker, UNCHANGED <<post, removed, drawn>>,
         \/ Done(w)
         \/ \E r \in Request : req' = [req EXCEPT ![w] = r] /\ Fits(r),
         cache' \subseteq Entry, CacheTrue', FreshAnswers', OnlyUntaggedFail',
         wrong' \in BOOLEAN
  PROVE  PostInv'
<1>1. \E r \in Request \cup {NoRequest} : req' = [req EXCEPT ![w] = r] /\ Fits(r)'
  <2>1. CASE Done(w)
    BY <2>1, EndedFits DEF Done
  <2>2. CASE \E r \in Request : req' = [req EXCEPT ![w] = r] /\ Fits(r)
    BY <2>2 DEF Fits
  <2>3. QED
    BY <2>1, <2>2
<1>2. /\ req' \in [Worker -> Request \cup {NoRequest}]
      /\ \A v \in Worker : Fits(req[v])'
  BY <1>1, OneRequest
<1>3. QED
  BY <1>2 DEF PostInv, PostsTypeOK, PostWhole, OnlyUntaggedFail

LEMMA LoadInv ==
  ASSUME PostInv, NEW w \in Worker, Load(w)
  PROVE  PostInv'
<1>1. req[w] \in Request
  BY DEF PostInv, PostsTypeOK, Load, At
<1>2. /\ UNCHANGED <<post, removed, drawn>>
      /\ cache' \subseteq Entry /\ CacheTrue' /\ FreshAnswers'
      /\ OnlyUntaggedFail' /\ wrong' \in BOOLEAN
  BY DEF Load, content, PostInv, PostsTypeOK, CacheTrue, FreshAnswers,
         OnlyUntaggedFail
<1>3. CASE Done(w)
  BY <1>2, <1>3, MovedInv
<1>4. ASSUME post # Absent, NEW label \in {"verify", "lookup", "purge"},
             req' = [req EXCEPT
               ![w].pc = label,
               ![w].row = IF req[w].op = "feed"
                            THEN [post EXCEPT !.media = None] ELSE post]
      PROVE  PostInv'
  <2> DEFINE row == IF req[w].op = "feed"
                      THEN [post EXCEPT !.media = None] ELSE post
             r == [req[w] EXCEPT !.pc = label, !.row = row]
  <2>1. post \in Column /\ PostWhole
    BY <1>4 DEF PostInv, PostsTypeOK
  <2>2. /\ row \in Column
        /\ row.tag = row.caption
        /\ row.ctag \in {None, row.caption}
        /\ req[w].op # "feed" => row.media = row.caption
    BY <2>1, <1>4 DEF PostWhole, Column
  <2>3. r \in Request /\ r.pc = label /\ r.row = row /\ r.op = req[w].op
    BY <1>1, <2>2 DEF Request, Step
  <2>4. Fits(r)
    BY <1>4, <2>2, <2>3 DEF Fits
  <2>5. req' = [req EXCEPT ![w] = r]
    BY <1>1, <1>4 DEF PostInv, PostsTypeOK, Request
  <2>6. QED
    BY <1>2, <2>3, <2>4, <2>5, MovedInv
<1>5. QED
  BY <1>3, <1>4 DEF Load

(* What is known of a request that holds a row. *)
LEMMA Holding ==
  ASSUME PostInv, NEW w \in Worker, req[w] # NoRequest,
         req[w].pc \in {"verify", "fetch", "lookup", "open", "purge"}
  PROVE  /\ req[w] \in Request
         /\ req[w].row \in Column
         /\ req[w].row.tag = req[w].row.caption
         /\ req[w].row.ctag \in {None, req[w].row.caption}
         /\ req[w].op # "feed" => req[w].row.media = req[w].row.caption
         /\ post # Absent
         /\ req[w].row.caption \in Version
         /\ req[w].row[Wanted(w)] = req[w].row.tag
<1>1. /\ req[w] \in Request
      /\ req[w].row \in Column
      /\ req[w].row.tag = req[w].row.caption
      /\ req[w].row.ctag \in {None, req[w].row.caption}
      /\ req[w].op # "feed" => req[w].row.media = req[w].row.caption
      /\ post # Absent
  BY DEF PostInv, PostsTypeOK, Fits
<1>2. req[w].row.caption \in Version
  BY <1>1 DEF Column
<1>3. req[w].row[Wanted(w)] = req[w].row.tag
  BY <1>1 DEF Wanted
<1>4. QED
  BY <1>1, <1>2, <1>3

(* A row that fits goes on to fit behind every label but "fetch". *)
LEMMA MovesOn ==
  ASSUME PostInv, NEW w \in Worker, req[w] # NoRequest,
         req[w].pc \in {"verify", "fetch", "lookup", "open", "purge"},
         NEW l \in {"verify", "fetch", "lookup", "open", "purge", "save"},
         l = "fetch" => req[w].op = "feed", Goto(w, l)
  PROVE  \E r \in Request : req' = [req EXCEPT ![w] = r] /\ Fits(r)
<1> DEFINE r == [req[w] EXCEPT !.pc = l]
<1>1. req[w] \in Request
  BY Holding
<1>2. r \in Request /\ r.pc = l /\ r.row = req[w].row /\ r.op = req[w].op
  BY <1>1 DEF Request, Step
<1>3. Fits(r)
  BY <1>2, Holding DEF Fits
<1>4. req' = [req EXCEPT ![w] = r]
  BY DEF Goto
<1>5. QED
  BY <1>2, <1>3, <1>4

LEMMA VerifyInv ==
  ASSUME PostInv, NEW w \in Worker, Verify(w)
  PROVE  PostInv'
<1> DEFINE row == req[w].row
           short == Wanted(w) = "caption" /\ row.ctag # None
<1>1. req[w] # NoRequest /\ req[w].pc = "verify"
  BY DEF Verify, At
<1>2. /\ UNCHANGED <<post, removed, drawn, wrong>>
      /\ cache' \subseteq Entry /\ CacheTrue' /\ FreshAnswers'
      /\ wrong' \in BOOLEAN
  BY DEF Verify, content, PostInv, PostsTypeOK, CacheTrue, FreshAnswers
<1>3. OnlyUntaggedFail
  BY DEF PostInv
<1>4. CASE ~short /\ row.media = None /\ Goto(w, "fetch") /\ UNCHANGED alarms
  <2>1. req[w].op = "feed"
    BY <1>1, <1>4, Holding DEF Version, None
  <2>2. QED
    BY <1>1, <1>2, <1>3, <1>4, <2>1, MovesOn, MovedInv DEF OnlyUntaggedFail
<1>5. ASSUME NEW ok \in BOOLEAN, Checked(w, ok), ok \/ row.ctag = None
      PROVE  PostInv'
  <2>1. CASE Goto(w, "lookup") /\ UNCHANGED alarms
    BY <1>1, <1>2, <1>3, <2>1, MovesOn, MovedInv DEF OnlyUntaggedFail
  <2>2. CASE Goto(w, "open") /\ UNCHANGED alarms
    BY <1>1, <1>2, <1>3, <2>2, MovesOn, MovedInv DEF OnlyUntaggedFail
  <2>3. CASE /\ ~ok /\ Done(w)
             /\ alarms' = alarms \cup {IF row.ctag = None THEN "untagged"
                                                          ELSE "tagged"}
    <3>1. OnlyUntaggedFail'
      BY <1>3, <1>5, <2>3 DEF OnlyUntaggedFail
    <3>2. QED
      BY <1>2, <2>3, <3>1, MovedInv
  <2>4. QED
    BY <1>5, <2>1, <2>2, <2>3 DEF Checked
<1>6. CASE short /\ Checked(w, row.ctag = row.caption)
  <2>1. row.ctag = row.caption
    BY <1>1, <1>6, Holding
  <2>2. QED
    BY <1>5, <1>6, <2>1
<1>7. CASE ~short /\ row.media # None /\ Checked(w, Whole(row))
  <2>1. Whole(row) \/ row.ctag = None
    BY <1>1, <1>7, Holding DEF Whole, Wanted
  <2>2. Whole(row) \in BOOLEAN
    BY DEF Whole
  <2>3. QED
    BY <1>5, <1>7, <2>1, <2>2
<1>8. QED
  BY <1>4, <1>6, <1>7 DEF Verify

LEMMA FetchInv ==
  ASSUME PostInv, NEW w \in Worker, Fetch(w)
  PROVE  PostInv'
<1> DEFINE r == [req[w] EXCEPT !.pc = "verify", !.row.media = post.media]
<1>1. req[w] # NoRequest /\ req[w].pc = "fetch"
  BY DEF Fetch, At
<1>2. req[w].op = "feed"
  BY <1>1 DEF PostInv, Fits
<1>3. post \in Column
  BY <1>1, Holding DEF PostInv, PostsTypeOK
<1>4. /\ req[w] \in Request
      /\ req[w].row \in Column
  BY <1>1, Holding
<1>5. [req[w].row EXCEPT !.media = post.media] \in Column
  BY <1>3, <1>4 DEF Column
<1>6. /\ r \in Request /\ r.pc = "verify" /\ r.op = "feed"
      /\ r.row = [req[w].row EXCEPT !.media = post.media]
  BY <1>2, <1>4, <1>5 DEF Request, Step
<1>7. /\ r.row.tag = req[w].row.tag
      /\ r.row.caption = req[w].row.caption
      /\ r.row.ctag = req[w].row.ctag
  BY <1>4, <1>6 DEF Column
<1>8. Fits(r)
  BY <1>1, <1>5, <1>6, <1>7, Holding DEF Fits
<1>9. req' = [req EXCEPT ![w] = r]
  BY <1>4 DEF Fetch, PostInv, PostsTypeOK, Request
<1>10. QED
  BY <1>6, <1>8, <1>9, MovedInv
     DEF Fetch, content, PostInv, PostsTypeOK, CacheTrue, FreshAnswers,
         OnlyUntaggedFail

(* Showing the version of the row's tag is right. *)
LEMMA ShownInv ==
  ASSUME PostInv, NEW w \in Worker, req[w] # NoRequest,
         req[w].pc \in {"lookup", "open"}, Shown(w, req[w].row.tag),
         UNCHANGED <<post, removed, drawn, alarms>>, cache' \subseteq Entry,
         CacheTrue'
  PROVE  PostInv'
<1>1. FreshAnswers' /\ wrong' \in BOOLEAN
  BY Holding DEF Shown, PostInv, PostsTypeOK, FreshAnswers
<1>2. OnlyUntaggedFail'
  BY DEF PostInv, OnlyUntaggedFail
<1>3. CASE Done(w)
  BY <1>1, <1>2, <1>3, MovedInv
<1>4. CASE Goto(w, "purge")
  BY <1>1, <1>2, <1>4, MovesOn, MovedInv
<1>5. QED
  BY <1>3, <1>4 DEF Shown

LEMMA LookupInv ==
  ASSUME PostInv, NEW w \in Worker, Lookup(w)
  PROVE  PostInv'
<1>1. req[w] # NoRequest /\ req[w].pc = "lookup"
  BY DEF Lookup, At
<1>2. UNCHANGED <<post, removed, drawn, alarms, cache>>
  BY DEF Lookup, content
<1>3. cache' \subseteq Entry /\ CacheTrue'
  BY <1>2 DEF PostInv, PostsTypeOK, CacheTrue
<1>4. ASSUME NEW e \in cache, e.key = Key(w), Shown(w, e.version)
      PROVE  PostInv'
  <2>1. e.version = req[w].row.tag
    BY <1>4 DEF PostInv, CacheTrue, Key, CacheKey
  <2>2. QED
    BY <1>1, <1>2, <1>3, <1>4, <2>1, ShownInv
<1>5. ASSUME NEW l \in {"verify", "open"}, Goto(w, l), UNCHANGED wrong
      PROVE  PostInv'
  BY <1>1, <1>2, <1>3, <1>5, MovesOn, MovedInv
     DEF PostInv, PostsTypeOK, FreshAnswers, OnlyUntaggedFail
<1>6. QED
  BY <1>4, <1>5 DEF Lookup

LEMMA OpenInv ==
  ASSUME PostInv, NEW w \in Worker, Open(w)
  PROVE  PostInv'
<1> DEFINE version == req[w].row[Wanted(w)]
           e == [key |-> Key(w), version |-> version]
<1>1. req[w] # NoRequest /\ req[w].pc = "open"
  BY DEF Open, At
<1>2. version = req[w].row.tag /\ version \in Version
  BY <1>1, Holding
<1>3. Key(w) = <<Wanted(w), version>> /\ Wanted(w) \in Variant
  BY <1>2 DEF Key, CacheKey, Wanted, Variant
<1>4. e \in Entry /\ e.version = e.key[2]
  BY <1>2, <1>3 DEF Entry
<1>5. cache' = {f \in cache : f.key # Key(w)} \cup {e}
  BY DEF Open
<1>6. cache' \subseteq Entry /\ CacheTrue'
  BY <1>4, <1>5 DEF PostInv, PostsTypeOK, CacheTrue
<1>7. Shown(w, req[w].row.tag)
  BY <1>2 DEF Open
<1>8. QED
  BY <1>1, <1>6, <1>7, ShownInv DEF Open

LEMMA PurgeInv ==
  ASSUME PostInv, NEW w \in Worker, Purge(w)
  PROVE  PostInv'
<1>1. req[w] # NoRequest /\ req[w].pc = "purge" /\ Goto(w, "save")
  BY DEF Purge, At
<1>2. cache' \subseteq cache
  BY DEF Purge
<1>3. cache' \subseteq Entry /\ CacheTrue'
  BY <1>2 DEF PostInv, PostsTypeOK, CacheTrue
<1>4. QED
  BY <1>1, <1>3, MovesOn, MovedInv
     DEF Purge, PostInv, PostsTypeOK, FreshAnswers, OnlyUntaggedFail

LEMMA CullInv == PostInv /\ Cull => PostInv'
BY DEF PostInv, Cull, PostsTypeOK, PostWhole, FreshAnswers, OnlyUntaggedFail,
       CacheTrue, Fits

(* The steps of Reports leave all of it alone, but for the mark of removal. *)
LEMMA ApartInv ==
  ASSUME PostInv, UNCHANGED <<content, req, wrong, alarms>>, removed' \in BOOLEAN
  PROVE  PostInv'
BY DEF PostInv, content, PostsTypeOK, PostWhole, FreshAnswers,
       OnlyUntaggedFail, CacheTrue, Fits

LEMMA PostStepInv ==
  ASSUME PostInv, NEW w \in Worker, PostStep(w)
  PROVE  PostInv'
BY InsertInv, ResealInv, LoadInv, VerifyInv, FetchInv, LookupInv, OpenInv,
   PurgeInv, SaveInv DEF PostStep

(***************************************************************************)
(* The reports.  Their keys were given out, the labels of a moderator's    *)
(* request belong to its action, and the report on which the message was   *)
(* to go no longer refers to it.                                           *)
(***************************************************************************)
Resolving == {"resolve", "resolve_delete_post", "resolve_delete_message"}

Apt(j) == j # NoJob =>
  /\ j.action \in Resolving => j.id \in Id /\ j.id <= filed
  /\ j.pc = "record" => j.action \in Resolving
  /\ j.pc = "look" => j.action = "resolve"
  /\ j.pc = "hide" => j.action \in {"delete_post", "resolve_delete_post"}

ReportTypeOK == /\ flagged \in BOOLEAN
                /\ message \in BOOLEAN
                /\ report \in [Id -> Report \cup {NoReport}]
                /\ filed \in Nat
                /\ job \in [Worker -> Job \cup {NoJob}]
                /\ late \subseteq Worker
                /\ missed \in BOOLEAN
                /\ grounds \subseteq Id
                /\ relinked \subseteq Id

Cut(i) == report[i] # NoReport /\ report[i].about # "message"

Keyed == \A i \in Id : report[i] # NoReport => i <= filed

ReportInv == /\ ReportTypeOK
             /\ Keyed
             /\ \A w \in Worker : Apt(job[w])
             /\ \A i \in grounds : i <= filed
             /\ \A i \in grounds \ relinked : Cut(i)

LEMMA ReportInit == Init => ReportInv
<1> SUFFICES ASSUME Init PROVE ReportInv
  OBVIOUS
<1>1. ReportTypeOK
  BY DEF Init, ReportTypeOK
<1>2. Keyed
  BY DEF Init, Keyed
<1>3. \A w \in Worker : Apt(job[w])
  BY DEF Init, Apt
<1>4. QED
  BY <1>1, <1>2, <1>3 DEF ReportInv, Init

(* What is left to show of a step that changes one job and no report. *)
LEMMA OneJob ==
  ASSUME ReportInv, NEW w \in Worker, NEW j \in Job \cup {NoJob},
         job' = [job EXCEPT ![w] = j], Apt(j)', filed' \in Nat, filed <= filed'
  PROVE  /\ job' \in [Worker -> Job \cup {NoJob}]
         /\ \A v \in Worker : Apt(job[v])'
<1>1. job \in [Worker -> Job \cup {NoJob}] /\ filed \in Nat
  BY DEF ReportInv, ReportTypeOK
<1>2. job'[w] = j /\ \A v \in Worker : v # w => job'[v] = job[v]
  BY <1>1
<1>3. ASSUME NEW v \in Worker, v # w
      PROVE  Apt(job[v])'
  BY <1>1, <1>2, <1>3 DEF ReportInv, Apt, Id
<1>4. QED
  BY <1>1, <1>2, <1>3

LEMMA EndedJob ==
  ASSUME ReportInv, NEW w \in Worker, Finish(w), filed' \in Nat, filed <= filed'
  PROVE  /\ job' \in [Worker -> Job \cup {NoJob}]
         /\ \A v \in Worker : Apt(job[v])'
<1>1. Apt(NoJob)'
  BY DEF Apt
<1>2. QED
  BY <1>1, OneJob DEF Finish

LEMMA NextJob ==
  ASSUME ReportInv, NEW w \in Worker, job[w] # NoJob, NEW l \in Label,
         Continue(w, l), filed' \in Nat, filed <= filed',
         l \notin {"look", "hide"}, l = "record" => job[w].action \in Resolving
  PROVE  /\ job' \in [Worker -> Job \cup {NoJob}]
         /\ \A v \in Worker : Apt(job[v])'
<1>1. job[w] \in Job /\ filed \in Nat
  BY DEF ReportInv, ReportTypeOK
<1>2. PICK j \in Job : j = [job[w] EXCEPT !.pc = l]
  BY <1>1 DEF Job
<1>3. j.pc = l /\ j.action = job[w].action /\ j.id = job[w].id
  BY <1>1, <1>2 DEF Job
<1>4. Apt(j)'
  BY <1>1, <1>3 DEF ReportInv, Apt, Id
<1>5. job' = [job EXCEPT ![w] = j]
  BY <1>2 DEF Continue
<1>6. QED
  BY <1>4, <1>5, OneJob

LEMMA ArriveInv ==
  ASSUME ReportInv, NEW w \in Worker, Arrive(w)
  PROVE  ReportInv'
<1>1. UNCHANGED <<flagged, tables, noted>>
  BY DEF Arrive
<1>2. ASSUME NEW l \in Label, NEW a \in Action, NEW i \in Id \cup {0},
             NEW about \in About, Serve(w, l, a, i, about),
             a \in Resolving => i \in Id /\ i <= filed,
             l = "record" => a \in Resolving,
             l = "look" => a = "resolve",
             l = "hide" => a \in {"delete_post", "resolve_delete_post"}
      PROVE  ReportInv'
  <2> DEFINE j == [pc |-> l, action |-> a, id |-> i, about |-> about]
  <2>1. j \in Job
    BY DEF Job
  <2>2. Apt(j)'
    BY <1>1, <1>2 DEF Apt, tables
  <2>3. filed' \in Nat /\ filed <= filed'
    BY <1>1 DEF tables, ReportInv, ReportTypeOK
  <2>4. /\ job' \in [Worker -> Job \cup {NoJob}]
        /\ \A v \in Worker : Apt(job[v])'
    BY <1>2, <2>1, <2>2, <2>3, OneJob DEF Serve
  <2>5. QED
    BY <1>1, <2>4 DEF ReportInv, ReportTypeOK, tables, noted, Keyed, Cut
<1>3. CASE \/ Serve(w, "see", "report_post", 0, "post")
           \/ Serve(w, "file", "report_message", 0, "message")
           \/ Serve(w, "hide", "delete_post", 0, "post")
           \/ Serve(w, "unflag", "clear_flag", 0, "post")
  BY <1>2, <1>3 DEF Label, Action, About, Resolving
<1>4. ASSUME NEW i \in Id, report[i] # NoReport,
             \/ Serve(w, "look", "resolve", i, report[i].about)
             \/ Serve(w, "hide", "resolve_delete_post", i, report[i].about)
             \/ Serve(w, "record", "resolve", i, report[i].about)
             \/ Serve(w, "record", "resolve_delete_message", i, report[i].about)
      PROVE  ReportInv'
  <2>1. i <= filed /\ report[i].about \in About
    BY <1>4 DEF ReportInv, ReportTypeOK, Keyed, Report
  <2>2. QED
    BY <1>2, <1>4, <2>1 DEF Label, Action, Resolving
<1>5. QED
  BY <1>3, <1>4 DEF Arrive

(* A step after which reports, and what they owe their grounds, are as they
   were. *)
LEMMA KeptReports ==
  ASSUME ReportInv, NEW w \in Worker, UNCHANGED <<report, grounds, relinked>>,
         message' \in BOOLEAN, filed' \in Nat, filed <= filed',
         flagged' \in BOOLEAN, missed' \in BOOLEAN, late' \subseteq Worker,
         \/ Finish(w)
         \/ \E l \in Label :
              /\ job[w] # NoJob
              /\ Continue(w, l)
              /\ l \notin {"look", "hide"}
              /\ l = "record" => job[w].action \in Resolving
  PROVE  ReportInv'
<1>1. /\ job' \in [Worker -> Job \cup {NoJob}]
      /\ \A v \in Worker : Apt(job[v])'
  BY EndedJob, NextJob
<1>2. Keyed' /\ \A i \in grounds' : i <= filed'
  BY DEF ReportInv, ReportTypeOK, Keyed, Id
<1>3. \A i \in (grounds \ relinked)' : Cut(i)'
  BY DEF ReportInv, Cut
<1>4. QED
  BY <1>1, <1>2, <1>3 DEF ReportInv, ReportTypeOK

LEMMA FileInv ==
  ASSUME ReportInv, NEW w \in Worker, File(w)
  PROVE  ReportInv'
<1> DEFINE about == job[w].about
<1>1. job[w] # NoJob /\ job[w] \in Job /\ filed \in Nat
  BY DEF File, On, ReportInv, ReportTypeOK
<1>2. CASE Finish(w) /\ UNCHANGED <<report, filed, late>>
  BY <1>1, <1>2, KeptReports DEF File, ReportInv, ReportTypeOK
<1>3. CASE /\ filed' = filed + 1
           /\ report' = [report EXCEPT ![filed'] = [about |-> about, open |-> TRUE]]
           /\ IF about = "post"
                THEN /\ late' = late \cup {v \in Worker : On(v, "unflag")}
                     /\ Continue(w, "flag")
                ELSE UNCHANGED late /\ Finish(w)
  <2>1. /\ UNCHANGED <<flagged, message, missed, grounds, relinked>>
        /\ filed' \in Nat /\ filed <= filed'
    BY <1>1, <1>3 DEF File
  <2>2. /\ job' \in [Worker -> Job \cup {NoJob}]
        /\ \A v \in Worker : Apt(job[v])'
    BY <1>1, <1>3, <2>1, EndedJob, NextJob DEF Label
  <2>3. [about |-> about, open |-> TRUE] \in Report
    BY <1>1 DEF Job, Report
  <2>4. report' \in [Id -> Report \cup {NoReport}]
    BY <1>3, <2>3 DEF ReportInv, ReportTypeOK
  <2>5. \A i \in Id : i # filed' => report'[i] = report[i]
    BY <1>3, <2>4 DEF ReportInv, ReportTypeOK
  <2>6. Keyed' /\ \A i \in grounds' : i <= filed'
    BY <1>1, <1>3, <2>1, <2>5 DEF ReportInv, ReportTypeOK, Keyed, Id
  <2>7. \A i \in (grounds \ relinked)' : Cut(i)'
    BY <1>1, <1>3, <2>1, <2>5 DEF ReportInv, ReportTypeOK, Cut, Id
  <2>8. late' \subseteq Worker
    BY <1>3 DEF ReportInv, ReportTypeOK
  <2>9. QED
    BY <2>1, <2>2, <2>4, <2>6, <2>7, <2>8 DEF ReportInv, ReportTypeOK
<1>4. QED
  BY <1>2, <1>3 DEF File

LEMMA CloseInv ==
  ASSUME ReportInv, NEW w \in Worker, Close(w)
  PROVE  ReportInv'
<1>1. /\ UNCHANGED <<flagged, message, filed, late, grounds, relinked>>
      /\ missed' = FALSE
      /\ filed \in Nat
  BY DEF Close, ReportInv, ReportTypeOK
<1>2. /\ job' \in [Worker -> Job \cup {NoJob}]
      /\ \A v \in Worker : Apt(job[v])'
  BY <1>1, EndedJob DEF Close
<1>3. ASSUME NEW i \in Id
      PROVE  /\ report'[i] \in Report \cup {NoReport}
             /\ report'[i] # NoReport => report[i] # NoReport
             /\ Cut(i) => Cut(i)'
  <2>1. CASE i \in OpenOn("post")
    <3>1. report[i] \in Report
      BY <2>1 DEF OpenOn, ReportInv, ReportTypeOK
    <3>2. report'[i] = [report[i] EXCEPT !.open = FALSE]
      BY <2>1 DEF Close
    <3>3. report'[i] \in Report /\ report'[i].about = report[i].about
      BY <3>1, <3>2 DEF Report
    <3>4. QED
      BY <3>1, <3>3, NoReportAssumption DEF Cut
  <2>2. CASE i \notin OpenOn("post")
    BY <2>2 DEF Close, ReportInv, ReportTypeOK, Cut
  <2>3. QED
    BY <2>1, <2>2
<1>4. report' \in [Id -> Report \cup {NoReport}]
  BY <1>3 DEF Close
<1>5. Keyed'
  BY <1>1, <1>3 DEF ReportInv, Keyed
<1>6. \A i \in (grounds \ relinked)' : Cut(i)'
  BY <1>1, <1>3 DEF ReportInv, ReportTypeOK
<1>7. QED
  BY <1>1, <1>2, <1>4, <1>5, <1>6 DEF ReportInv, ReportTypeOK

LEMMA RecordInv ==
  ASSUME ReportInv, NEW w \in Worker, Record(w)
  PROVE  ReportInv'
<1> DEFINE i == job[w].id
           row == Resolved(w)
<1>1. /\ job[w] # NoJob /\ job[w] \in Job /\ filed \in Nat
      /\ job[w].action \in Resolving
      /\ i \in Id /\ i <= filed
  BY DEF Record, On, ReportInv, ReportTypeOK, Apt
<1>2. UNCHANGED <<flagged, message, filed, late, missed>>
  BY DEF Record
<1>3. CASE Finish(w) /\ UNCHANGED <<report, grounds, relinked>>
  BY <1>1, <1>2, <1>3, KeptReports DEF ReportInv, ReportTypeOK
<1>4. CASE /\ report' = [report EXCEPT ![i] = row]
           /\ relinked' = IF i \in grounds /\ row.about = "message"
                            THEN relinked \cup {i} ELSE relinked
           /\ \/ /\ job[w].action = "resolve_delete_message"
                 /\ Continue(w, "erase") /\ grounds' = grounds \cup {i}
              \/ Finish(w) /\ UNCHANGED grounds
  <2>1. /\ job' \in [Worker -> Job \cup {NoJob}]
        /\ \A v \in Worker : Apt(job[v])'
    BY <1>1, <1>2, <1>4, EndedJob, NextJob DEF Label
  <2>2. row \in Report
    BY <1>1 DEF Resolved, Report, Job, About
  <2>3. report \in [Id -> Report \cup {NoReport}]
    BY DEF ReportInv, ReportTypeOK
  <2>4. /\ report' \in [Id -> Report \cup {NoReport}]
        /\ report'[i] = row
        /\ \A k \in Id : k # i => report'[k] = report[k]
    BY <1>1, <1>4, <2>2, <2>3
  <2>5. Keyed'
    BY <1>1, <1>2, <2>4 DEF ReportInv, Keyed
  <2>6. /\ grounds' \subseteq grounds \cup {i}
        /\ i \in grounds' \ grounds =>
             job[w].action = "resolve_delete_message"
        /\ relinked \subseteq relinked' /\ relinked' \subseteq Id
    BY <1>1, <1>4 DEF ReportInv, ReportTypeOK
  <2>7. \A k \in grounds' : k \in Id /\ k <= filed'
    BY <1>1, <1>2, <2>6 DEF ReportInv, ReportTypeOK
  <2>8. ASSUME NEW k \in grounds' \ relinked'
        PROVE  Cut(k)'
    <3>1. CASE k # i
      BY <2>4, <2>6, <2>7, <3>1 DEF ReportInv, Cut
    <3>2. CASE k = i
      <4>1. row.about # "message"
        BY <1>4, <2>6, <2>8, <3>2 DEF Resolved
      <4>2. QED
        BY <2>2, <2>4, <3>2, <4>1, NoReportAssumption DEF Cut
    <3>3. QED
      BY <3>1, <3>2
  <2>9. QED
    BY <1>2, <2>1, <2>4, <2>5, <2>6, <2>7, <2>8 DEF ReportInv, ReportTypeOK
<1>5. QED
  BY <1>3, <1>4 DEF Record

LEMMA EraseInv ==
  ASSUME ReportInv, NEW w \in Worker, Erase(w)
  PROVE  ReportInv'
<1>1. /\ UNCHANGED <<flagged, filed, late, missed, grounds, relinked>>
      /\ message' = FALSE
      /\ filed \in Nat
  BY DEF Erase, noted, ReportInv, ReportTypeOK
<1>2. /\ job' \in [Worker -> Job \cup {NoJob}]
      /\ \A v \in Worker : Apt(job[v])'
  BY <1>1, EndedJob DEF Erase
<1>3. ASSUME NEW i \in Id
      PROVE  /\ report'[i] \in Report \cup {NoReport}
             /\ report'[i] # NoReport => report[i] # NoReport
             /\ Cut(i) => Cut(i)'
  BY DEF Erase, ReportInv, ReportTypeOK, Cut
<1>4. report' \in [Id -> Report \cup {NoReport}]
  BY <1>3 DEF Erase
<1>5. Keyed' /\ \A i \in (grounds \ relinked)' : Cut(i)'
  BY <1>1, <1>3 DEF ReportInv, ReportTypeOK, Keyed
<1>6. QED
  BY <1>1, <1>2, <1>4, <1>5 DEF ReportInv, ReportTypeOK

LEMMA ReportStepInv ==
  ASSUME ReportInv, NEW w \in Worker, ReportStep(w)
  PROVE  ReportInv'
<1>1. /\ message \in BOOLEAN /\ filed \in Nat /\ filed <= filed
      /\ flagged \in BOOLEAN /\ missed \in BOOLEAN /\ late \subseteq Worker
  BY DEF ReportInv, ReportTypeOK
<1>2. CASE See(w)
  BY <1>1, <1>2, KeptReports DEF See, On, tables, noted, Label
<1>3. CASE Flag(w)
  BY <1>1, <1>3, KeptReports DEF Flag, tables
<1>4. CASE Hide(w)
  <2>1. job[w] # NoJob /\ job[w].action \in {"delete_post", "resolve_delete_post"}
    BY <1>4 DEF Hide, On, ReportInv, Apt
  <2>2. CASE Continue(w, "close")
    BY <1>1, <1>4, <2>1, <2>2, KeptReports DEF Hide, tables, noted, Label
  <2>3. CASE Continue(w, "record") /\ job[w].action = "resolve_delete_post"
    BY <1>1, <1>4, <2>1, <2>3, KeptReports
       DEF Hide, tables, noted, Label, Resolving
  <2>4. QED
    BY <1>4, <2>1, <2>2, <2>3 DEF Hide
<1>5. CASE Look(w)
  <2>1. job[w] # NoJob /\ job[w].action \in Resolving
    BY <1>5 DEF Look, On, ReportInv, Apt, Resolving
  <2>2. \E l \in {"unflag", "record"} : Continue(w, l)
    BY <1>5 DEF Look
  <2>3. QED
    BY <1>1, <1>5, <2>1, <2>2, KeptReports DEF Look, tables, noted, Label
<1>6. CASE Unflag(w)
  <2>1. /\ job[w] # NoJob
        /\ \/ Continue(w, "close")
           \/ Continue(w, "record") /\ job[w].action \in Resolving
    BY <1>6 DEF Unflag, On, Resolving
  <2>2. /\ flagged' \in BOOLEAN /\ missed' \in BOOLEAN /\ late' \subseteq Worker
        /\ UNCHANGED <<message, report, filed, grounds, relinked>>
    BY <1>1, <1>6 DEF Unflag, tables
  <2>3. QED
    BY <1>1, <2>1, <2>2, KeptReports DEF Label
<1>7. QED
  BY <1>2, <1>3, <1>4, <1>5, <1>6, FileInv, CloseInv, RecordInv, EraseInv
     DEF ReportStep

(***************************************************************************)
(* Both together.                                                          *)
(***************************************************************************)
Inv == PostInv /\ ReportInv

LEMMA ReportKept == ReportInv /\ UNCHANGED reportVars => ReportInv'
BY DEF ReportInv, ReportTypeOK, Keyed, Apt, Cut, reportVars, tables, noted

LEMMA ReportApart ==
  ASSUME Inv, NEW w \in Worker, Arrive(w) \/ ReportStep(w)
  PROVE  PostInv'
<1>1. CASE UNCHANGED postVars
  BY <1>1, ApartInv DEF Inv, PostInv, PostsTypeOK, postVars, content
<1>2. CASE Hide(w)
  BY <1>2, ApartInv DEF Inv, Hide
<1>3. QED
  BY <1>1, <1>2 DEF Arrive, ReportStep, See, File, Flag, Close, Look, Unflag,
                    Record, Erase

LEMMA InvStep == Inv /\ [Next]_vars => Inv'
<1> SUFFICES ASSUME Inv, [Next]_vars PROVE Inv'
  OBVIOUS
<1>1. CASE Cull /\ UNCHANGED reportVars
  BY <1>1, CullInv, ReportKept DEF Inv
<1>2. ASSUME NEW w \in Worker, Browse(w) \/ PostStep(w), UNCHANGED reportVars
      PROVE  Inv'
  BY <1>2, BrowseInv, PostStepInv, ReportKept DEF Inv
<1>3. ASSUME NEW w \in Worker, Arrive(w) \/ ReportStep(w)
      PROVE  Inv'
  BY <1>3, ArriveInv, ReportStepInv, ReportApart DEF Inv
<1>4. CASE UNCHANGED vars
  BY <1>4, ApartInv, ReportKept
     DEF Inv, vars, postVars, content, PostInv, PostsTypeOK
<1>5. QED
  BY <1>1, <1>2, <1>3, <1>4 DEF Next

LEMMA Invariance == Spec => []Inv
<1>1. Init => Inv
  BY PostInit, ReportInit DEF Init, Inv
<1>2. QED
  BY <1>1, InvStep, PTL DEF Spec

(* Rows, copies of rows, cache entries, reports and requests always have
   their types (posts/models.py, moderation/models.py). *)
THEOREM Typing == Spec => []TypeOK
<1>1. Inv => TypeOK
  BY DEF Inv, PostInv, ReportInv, ReportTypeOK, TypeOK
<1>2. QED
  BY <1>1, Invariance, PTL

(* The sealed columns of a post come from one sealing (posts/views.py). *)
THEOREM Wholeness == Spec => []PostWhole
<1>1. Inv => PostWhole
  BY DEF Inv, PostInv
<1>2. QED
  BY <1>1, Invariance, PTL

(* What is shown is the content of the row that was loaded
   (posts/encryption.py, the plaintext cache). *)
THEOREM Freshness == Spec => []FreshAnswers
<1>1. Inv => FreshAnswers
  BY DEF Inv, PostInv
<1>2. QED
  BY <1>1, Invariance, PTL

(* Only a post without a caption tag can fail its check
   (posts/encryption.py, decrypt_caption). *)
THEOREM Failing == Spec => []OnlyUntaggedFail
<1>1. Inv => OnlyUntaggedFail
  BY DEF Inv, PostInv
<1>2. QED
  BY <1>1, Invariance, PTL

(* The report on which a message was removed is kept, but for one race
   (moderation/views.py, reports_list). *)
THEOREM Grounds == Spec => []GroundsAreKept
<1>1. Inv => GroundsAreKept
  BY DEF Inv, ReportInv, Cut, GroundsAreKept
<1>2. QED
  BY <1>1, Invariance, PTL

(* No step of any request takes back the removal of a post
   (moderation/views.py against posts/views.py). *)
THEOREM Removal == Spec => RemovedStaysRemoved
<1>1. [Next]_vars => [removed => removed']_removed
  BY DEF Next, vars, postVars, Cull, Browse, PostStep, Insert, Reseal, Load,
         Verify, Fetch, Lookup, Open, Purge, Save, Arrive, ReportStep, See,
         File, Flag, Hide, Close, Look, Unflag, Record, Erase
<1>2. QED
  BY <1>1, PTL DEF Spec, RemovedStaysRemoved

(***************************************************************************)
(* The queue.  A moderator who is about to clear the flag found no other   *)
(* open report, and none has come since; one who resolves a report of      *)
(* something else resolves none of the post.                               *)
(***************************************************************************)
FoundAlone(w) ==
  On(w, "unflag") /\ job[w].action = "resolve" /\ w \notin late
    => OpenOn("post") \subseteq {job[w].id}

OffPost(w) ==
  job[w] # NoJob /\ job[w].action \in Resolving /\ job[w].about # "post"
    => job[w].id \notin OpenOn("post")

QueueInv == /\ OpenReportFlagged
            /\ \A w \in Worker : FoundAlone(w) /\ OffPost(w)

LEMMA QueueInit == Init => QueueInv
BY DEF Init, QueueInv, OpenReportFlagged, FoundAlone, OffPost, OpenOn, On

(* The job of a worker that goes on, and those of the others. *)
LEMMA Continued ==
  ASSUME ReportInv, NEW w \in Worker, job[w] # NoJob, NEW l \in Label,
         Continue(w, l)
  PROVE  /\ job'[w] # NoJob /\ job'[w].pc = l
         /\ job'[w].action = job[w].action
         /\ job'[w].id = job[w].id /\ job'[w].about = job[w].about
         /\ \A v \in Worker : v # w => job'[v] = job[v]
<1>1. job[w] \in Job /\ job \in [Worker -> Job \cup {NoJob}]
  BY DEF ReportInv, ReportTypeOK
<1>2. PICK j \in Job : j = [job[w] EXCEPT !.pc = l]
  BY <1>1 DEF Job
<1>3. /\ j.pc = l /\ j.action = job[w].action
      /\ j.id = job[w].id /\ j.about = job[w].about
  BY <1>1, <1>2 DEF Job
<1>4. job'[w] = j /\ \A v \in Worker : v # w => job'[v] = job[v]
  BY <1>1, <1>2 DEF Continue
<1>5. QED
  BY <1>3, <1>4, NoJobAssumption

LEMMA Finished ==
  ASSUME ReportInv, NEW w \in Worker, Finish(w)
  PROVE  job'[w] = NoJob /\ \A v \in Worker : v # w => job'[v] = job[v]
BY DEF Finish, ReportInv, ReportTypeOK

(* What is left to show of a step that opens no report of the post. *)
LEMMA QueueStep ==
  ASSUME QueueInv, NEW w \in Worker,
         OpenOn("post")' \subseteq OpenOn("post"), late \ {w} \subseteq late',
         \A v \in Worker : v # w => job'[v] = job[v],
         FoundAlone(w)', OffPost(w)', OpenReportFlagged'
  PROVE  QueueInv'
<1>1. ASSUME NEW v \in Worker, v # w
      PROVE  FoundAlone(v)' /\ OffPost(v)'
  <2>1. job'[v] = job[v] /\ (v \in late => v \in late')
    BY <1>1
  <2>2. FoundAlone(v)'
    BY <2>1 DEF QueueInv, FoundAlone, On
  <2>3. OffPost(v)'
    BY <2>1 DEF QueueInv, OffPost
  <2>4. QED
    BY <2>2, <2>3
<1>2. QED
  BY <1>1 DEF QueueInv

(* A request that comes in, ends, or goes on to a label where it is not about
   to clear the flag, with the flag and the reports as they were. *)
LEMMA QueueKept ==
  ASSUME QueueInv, NEW w \in Worker, UNCHANGED <<report, flagged, missed, late>>,
         removed => removed',
         \A v \in Worker : v # w => job'[v] = job[v],
         ~On(w, "flag"), ~On(w, "close"), ~On(w, "record"),
         FoundAlone(w)', OffPost(w)'
  PROVE  QueueInv'
<1>1. OpenOn("post")' = OpenOn("post")
  BY DEF OpenOn
<1>2. ASSUME NEW i \in Id, InWork(i)
      PROVE  InWork(i)'
  <2>1. PICK v \in Worker : \/ On(v, "flag") \/ On(v, "close")
                            \/ On(v, "record") /\ job[v].id = i
    BY <1>2 DEF InWork
  <2>2. job'[v] = job[v]
    BY <2>1
  <2>3. QED
    BY <2>1, <2>2 DEF InWork, On
<1>3. OpenReportFlagged'
  BY <1>1, <1>2 DEF QueueInv, OpenReportFlagged, OpenOn
<1>4. QED
  BY <1>1, <1>3, QueueStep

LEMMA QueueArrive ==
  ASSUME ReportInv, QueueInv, NEW w \in Worker, Arrive(w)
  PROVE  QueueInv'
<1>1. job[w] = NoJob /\ UNCHANGED <<flagged, report, late, missed, removed>>
  BY DEF Arrive, tables, noted, postVars
<1>2. PICK l \in Label, a \in Action, i \in Id \cup {0}, about \in About :
        /\ Serve(w, l, a, i, about)
        /\ l = "unflag" => a # "resolve"
        /\ a \in Resolving => i \in Id /\ report[i].about = about
  <2>1. CASE \/ Serve(w, "see", "report_post", 0, "post")
             \/ Serve(w, "file", "report_message", 0, "message")
             \/ Serve(w, "hide", "delete_post", 0, "post")
             \/ Serve(w, "unflag", "clear_flag", 0, "post")
    BY <2>1 DEF Label, Action, About, Resolving
  <2>2. ASSUME NEW i \in Id, report[i] # NoReport,
               \/ Serve(w, "look", "resolve", i, report[i].about)
               \/ Serve(w, "hide", "resolve_delete_post", i, report[i].about)
               \/ Serve(w, "record", "resolve", i, report[i].about)
               \/ Serve(w, "record", "resolve_delete_message", i, report[i].about)
        PROVE  \E l \in Label, a \in Action, k \in Id \cup {0}, about \in About :
                 /\ Serve(w, l, a, k, about)
                 /\ l = "unflag" => a # "resolve"
                 /\ a \in Resolving => k \in Id /\ report[k].about = about
    <3>1. report[i].about \in About
      BY <2>2 DEF ReportInv, ReportTypeOK, Report
    <3>2. QED
      BY <2>2, <3>1 DEF Label, Action
  <2>3. QED
    BY <2>1, <2>2 DEF Arrive
<1>3. /\ job'[w] = [pc |-> l, action |-> a, id |-> i, about |-> about]
      /\ \A v \in Worker : v # w => job'[v] = job[v]
  BY <1>2 DEF Serve, ReportInv, ReportTypeOK
<1>4. FoundAlone(w)'
  BY <1>2, <1>3 DEF FoundAlone, On
<1>5. OffPost(w)'
  BY <1>1, <1>2, <1>3 DEF OffPost, OpenOn
<1>6. QED
  BY <1>1, <1>3, <1>4, <1>5, QueueKept DEF On

LEMMA QueueFile ==
  ASSUME ReportInv, QueueInv, NEW w \in Worker, File(w)
  PROVE  QueueInv'
<1>1. /\ job[w] # NoJob /\ job[w].pc = "file"
      /\ job[w] \in Job /\ filed \in Nat
      /\ UNCHANGED <<flagged, missed, removed>>
  BY DEF File, On, ReportInv, ReportTypeOK, postVars
<1>2. CASE Finish(w) /\ UNCHANGED <<report, late>>
  <2>1. FoundAlone(w)' /\ OffPost(w)'
    BY <1>2, Finished DEF FoundAlone, OffPost, On
  <2>2. QED
    BY <1>1, <1>2, <2>1, Finished, QueueKept DEF On
<1>3. CASE /\ filed' = filed + 1
           /\ report' = [report EXCEPT ![filed'] = [about |-> job[w].about,
                                                    open |-> TRUE]]
           /\ job[w].about # "post" /\ UNCHANGED late /\ Finish(w)
  <2>1. OpenOn("post")' \subseteq OpenOn("post")
    BY <1>1, <1>3 DEF OpenOn, ReportInv, ReportTypeOK
  <2>2. FoundAlone(w)' /\ OffPost(w)'
    BY <1>3, Finished DEF FoundAlone, OffPost, On
  <2>3. ASSUME NEW i \in Id, InWork(i)
        PROVE  InWork(i)'
    <3>1. PICK v \in Worker : \/ On(v, "flag") \/ On(v, "close")
                              \/ On(v, "record") /\ job[v].id = i
      BY <2>3 DEF InWork
    <3>2. job'[v] = job[v]
      BY <1>1, <1>3, <3>1, Finished DEF On
    <3>3. QED
      BY <3>1, <3>2 DEF InWork, On
  <2>4. OpenReportFlagged'
    BY <1>1, <2>1, <2>3 DEF QueueInv, OpenReportFlagged, OpenOn
  <2>5. QED
    BY <1>3, <2>1, <2>2, <2>4, Finished, QueueStep
<1>4. CASE /\ filed' = filed + 1
           /\ report' = [report EXCEPT ![filed'] = [about |-> job[w].about,
                                                    open |-> TRUE]]
           /\ late' = late \cup {v \in Worker : On(v, "unflag")}
           /\ Continue(w, "flag")
  <2>1. /\ job'[w] # NoJob /\ job'[w].pc = "flag"
        /\ job'[w].action = job[w].action
        /\ job'[w].id = job[w].id /\ job'[w].about = job[w].about
        /\ \A v \in Worker : v # w => job'[v] = job[v]
    BY <1>1, <1>4, Continued DEF Label
  <2>2. OpenReportFlagged'
    BY <2>1 DEF OpenReportFlagged, InWork, On
  <2>3. ASSUME NEW v \in Worker
        PROVE  FoundAlone(v)'
    BY <1>4, <2>1 DEF FoundAlone, On
  <2>4. \A i \in Id : i # filed' => report'[i] = report[i]
    BY <1>4 DEF ReportInv, ReportTypeOK
  <2>5. ASSUME NEW v \in Worker
        PROVE  OffPost(v)'
    <3>1. CASE job[v] # NoJob /\ job[v].action \in Resolving
      <4>1. job[v].id \in Id /\ job[v].id <= filed
        BY <3>1 DEF ReportInv, Apt
      <4>2. report'[job[v].id] = report[job[v].id]
        BY <1>1, <1>4, <2>4, <4>1 DEF Id
      <4>3. /\ job'[v].id = job[v].id
            /\ job'[v].about = job[v].about
        BY <2>1
      <4>4. QED
        BY <3>1, <4>1, <4>2, <4>3 DEF QueueInv, OffPost, OpenOn
    <3>2. CASE ~(job[v] # NoJob /\ job[v].action \in Resolving)
      BY <1>1, <2>1, <3>2 DEF OffPost
    <3>3. QED
      BY <3>1, <3>2
  <2>6. QED
    BY <2>2, <2>3, <2>5 DEF QueueInv
<1>5. QED
  BY <1>2, <1>3, <1>4 DEF File

LEMMA QueueUnflag ==
  ASSUME ReportInv, QueueInv, NEW w \in Worker, Unflag(w)
  PROVE  QueueInv'
<1> DEFINE l == IF job[w].action = "resolve" THEN "record" ELSE "close"
<1>1. /\ job[w] # NoJob /\ On(w, "unflag")
      /\ UNCHANGED <<report, removed>>
      /\ missed' = (missed \/ (job[w].action = "resolve" /\ w \in late))
      /\ late' = late \ {w}
  BY DEF Unflag, On, tables, postVars
<1>2. /\ job'[w] # NoJob /\ job'[w].pc = l
      /\ job'[w].action = job[w].action
      /\ job'[w].id = job[w].id /\ job'[w].about = job[w].about
      /\ \A v \in Worker : v # w => job'[v] = job[v]
  BY <1>1, Continued DEF Unflag, Label
<1>3. OpenOn("post")' = OpenOn("post")
  BY <1>1 DEF OpenOn
<1>4. FoundAlone(w)' /\ OffPost(w)'
  <2>1. FoundAlone(w)'
    BY <1>2 DEF FoundAlone, On
  <2>2. OffPost(w)'
    BY <1>1, <1>2, <1>3 DEF QueueInv, OffPost
  <2>3. QED
    BY <2>1, <2>2
<1>5. OpenReportFlagged'
  <2>1. CASE job[w].action # "resolve"
    BY <1>2, <2>1 DEF OpenReportFlagged, InWork, On
  <2>2. CASE job[w].action = "resolve" /\ w \in late
    BY <1>1, <2>2 DEF OpenReportFlagged
  <2>3. CASE job[w].action = "resolve" /\ w \notin late
    <3>1. OpenOn("post") \subseteq {job[w].id}
      BY <1>1, <2>3 DEF QueueInv, FoundAlone
    <3>2. ASSUME NEW i \in OpenOn("post")'
          PROVE  InWork(i)'
      BY <1>2, <1>3, <2>3, <3>1, <3>2 DEF InWork, On
    <3>3. QED
      BY <3>2 DEF OpenReportFlagged
  <2>4. QED
    BY <2>1, <2>2, <2>3
<1>6. QED
  BY <1>1, <1>2, <1>3, <1>4, <1>5, QueueStep

LEMMA QueueRecord ==
  ASSUME ReportInv, QueueInv, NEW w \in Worker, Record(w) \/ Erase(w)
  PROVE  QueueInv'
<1>1. /\ job[w] # NoJob /\ job[w].pc \in {"record", "erase"}
      /\ UNCHANGED <<flagged, missed, late, removed>>
      /\ job[w].pc = "record" => job[w].action \in Resolving
      /\ report \in [Id -> Report \cup {NoReport}]
  BY DEF Record, Erase, On, noted, postVars, ReportInv, ReportTypeOK, Apt
<1>2. OpenOn("post")' \subseteq OpenOn("post")
  BY <1>1 DEF Record, Erase, Resolved, OpenOn
<1>3. /\ \A v \in Worker : v # w => job'[v] = job[v]
      /\ job'[w] # NoJob => /\ job'[w].pc = "erase"
                            /\ job'[w].action = job[w].action
                            /\ job'[w].id = job[w].id
                            /\ job'[w].about = job[w].about
  <2>1. CASE Finish(w)
    BY <2>1, Finished
  <2>2. CASE Continue(w, "erase")
    BY <1>1, <2>2, Continued DEF Label
  <2>3. QED
    BY <2>1, <2>2 DEF Record, Erase
<1>4. FoundAlone(w)' /\ OffPost(w)'
  <2>1. OffPost(w)'
    <3>1. CASE job'[w] # NoJob
      BY <1>1, <1>2, <1>3, <3>1 DEF QueueInv, OffPost
    <3>2. QED
      BY <3>1 DEF OffPost
  <2>2. QED
    BY <1>3, <2>1 DEF FoundAlone, On
<1>5. On(w, "record") => job[w].id \notin OpenOn("post")'
  <2>1. CASE report' = report /\ job[w].about # "post" /\ On(w, "record")
    BY <1>1, <1>2, <2>1 DEF QueueInv, OffPost, On
  <2>2. CASE report' = [report EXCEPT ![job[w].id] = Resolved(w)]
    BY <1>1, <2>2 DEF Resolved, OpenOn
  <2>3. CASE Erase(w)
    BY <2>3 DEF Erase, On
  <2>4. QED
    BY <1>1, <2>1, <2>2, <2>3 DEF Record, Resolved, On
<1>6. OpenReportFlagged'
  <2> SUFFICES ASSUME NEW i \in OpenOn("post")', ~removed', ~InWork(i)'
               PROVE  flagged' \/ missed'
    BY DEF OpenReportFlagged
  <2>1. ~InWork(i)
    <3> SUFFICES ASSUME NEW v \in Worker,
                        \/ On(v, "flag") \/ On(v, "close")
                        \/ On(v, "record") /\ job[v].id = i
                 PROVE  FALSE
      BY DEF InWork
    <3>1. v # w
      BY <1>1, <1>5 DEF On
    <3>2. QED
      BY <1>3, <3>1 DEF InWork, On
  <2>2. QED
    BY <1>1, <1>2, <2>1 DEF QueueInv, OpenReportFlagged
<1>7. QED
  BY <1>1, <1>2, <1>3, <1>4, <1>6, QueueStep

LEMMA QueueReport ==
  ASSUME ReportInv, QueueInv, NEW w \in Worker, ReportStep(w)
  PROVE  QueueInv'
<1>1. CASE See(w)
  <2>1. /\ job[w] # NoJob /\ job[w].pc = "see"
        /\ UNCHANGED <<report, flagged, missed, late, removed>>
    BY <1>1 DEF See, On, tables, noted, postVars
  <2>2. /\ \A v \in Worker : v # w => job'[v] = job[v]
        /\ job'[w] # NoJob => /\ job'[w].pc = "file"
                              /\ job'[w].action = job[w].action
                              /\ job'[w].id = job[w].id
                              /\ job'[w].about = job[w].about
    <3>1. CASE Finish(w)
      BY <3>1, Finished
    <3>2. CASE Continue(w, "file")
      BY <2>1, <3>2, Continued DEF Label
    <3>3. QED
      BY <1>1, <3>1, <3>2 DEF See
  <2>3. FoundAlone(w)' /\ OffPost(w)'
    <3>1. FoundAlone(w)'
      BY <2>2 DEF FoundAlone, On
    <3>2. CASE job'[w] # NoJob
      BY <2>1, <2>2, <3>1, <3>2 DEF QueueInv, OffPost, OpenOn
    <3>3. QED
      BY <3>1, <3>2 DEF OffPost
  <2>4. QED
    BY <2>1, <2>2, <2>3, QueueKept DEF On
<1>2. CASE Flag(w)
  <2>1. /\ UNCHANGED <<report, late>> /\ flagged' = TRUE
        /\ job'[w] = NoJob /\ \A v \in Worker : v # w => job'[v] = job[v]
    BY <1>2, Finished DEF Flag, tables
  <2>2. /\ OpenOn("post")' = OpenOn("post") /\ OpenReportFlagged'
        /\ FoundAlone(w)' /\ OffPost(w)'
    BY <2>1 DEF OpenOn, OpenReportFlagged, FoundAlone, OffPost, On
  <2>3. QED
    BY <2>1, <2>2, QueueStep
<1>3. CASE Hide(w)
  <2> DEFINE l == IF job[w].action = "delete_post" THEN "close" ELSE "record"
  <2>1. job[w] # NoJob /\ UNCHANGED <<report, late>> /\ removed' = TRUE
    BY <1>3 DEF Hide, On, tables, noted
  <2>2. /\ job'[w] # NoJob /\ job'[w].pc = l
        /\ job'[w].action = job[w].action
        /\ job'[w].id = job[w].id /\ job'[w].about = job[w].about
        /\ \A v \in Worker : v # w => job'[v] = job[v]
    BY <1>3, <2>1, Continued DEF Hide, Label
  <2>3. /\ OpenOn("post")' = OpenOn("post") /\ OpenReportFlagged'
        /\ FoundAlone(w)'
    BY <2>1, <2>2 DEF OpenOn, OpenReportFlagged, FoundAlone, On
  <2>4. OffPost(w)'
    BY <2>1, <2>2, <2>3 DEF QueueInv, OffPost
  <2>5. QED
    BY <2>1, <2>2, <2>3, <2>4, QueueStep
<1>4. CASE Close(w)
  <2>1. /\ UNCHANGED late
        /\ job'[w] = NoJob /\ \A v \in Worker : v # w => job'[v] = job[v]
    BY <1>4, Finished DEF Close
  <2>2. OpenOn("post")' = {}
    <3> SUFFICES ASSUME NEW i \in OpenOn("post")'
                 PROVE  FALSE
      OBVIOUS
    <3>1. CASE i \in OpenOn("post")
      <4>1. report[i] \in Report /\ report'[i] = [report[i] EXCEPT !.open = FALSE]
        BY <1>4, <3>1 DEF Close, OpenOn, ReportInv, ReportTypeOK
      <4>2. ~report'[i].open
        BY <4>1 DEF Report
      <4>3. QED
        BY <4>2 DEF OpenOn
    <3>2. CASE i \notin OpenOn("post")
      BY <1>4, <3>2 DEF Close, OpenOn
    <3>3. QED
      BY <3>1, <3>2
  <2>3. OpenReportFlagged' /\ FoundAlone(w)' /\ OffPost(w)'
    BY <2>1, <2>2 DEF OpenReportFlagged, FoundAlone, OffPost, On
  <2>4. QED
    BY <2>1, <2>2, <2>3, QueueStep
<1>5. CASE Look(w)
  <2>1. /\ job[w] # NoJob /\ job[w].pc = "look"
        /\ UNCHANGED <<report, flagged, missed, late, removed>>
    BY <1>5 DEF Look, On, tables, noted, postVars
  <2>2. PICK l \in {"unflag", "record"} :
          /\ Continue(w, l)
          /\ l = "unflag" => OpenOn("post") \subseteq {job[w].id}
    BY <1>5 DEF Look
  <2>3. /\ job'[w] # NoJob /\ job'[w].pc = l
        /\ job'[w].action = job[w].action
        /\ job'[w].id = job[w].id /\ job'[w].about = job[w].about
        /\ \A v \in Worker : v # w => job'[v] = job[v]
    BY <2>1, <2>2, Continued DEF Label
  <2>4. OpenOn("post")' = OpenOn("post")
    BY <2>1 DEF OpenOn
  <2>5. FoundAlone(w)' /\ OffPost(w)'
    BY <2>1, <2>2, <2>3, <2>4 DEF QueueInv, FoundAlone, OffPost, On
  <2>6. QED
    BY <2>1, <2>3, <2>5, QueueKept DEF On
<1>6. QED
  BY <1>1, <1>2, <1>3, <1>4, <1>5, QueueFile, QueueUnflag, QueueRecord
     DEF ReportStep

LEMMA QueueNext == Inv /\ QueueInv /\ [Next]_vars => QueueInv'
<1> SUFFICES ASSUME Inv, QueueInv, [Next]_vars PROVE QueueInv'
  OBVIOUS
<1>1. CASE UNCHANGED reportVars /\ (removed => removed')
  BY <1>1 DEF QueueInv, OpenReportFlagged, FoundAlone, OffPost, OpenOn, InWork,
              On, reportVars, tables, noted
<1>2. ASSUME NEW w \in Worker, Arrive(w) \/ ReportStep(w)
      PROVE  QueueInv'
  BY <1>2, QueueArrive, QueueReport DEF Inv
<1>3. Cull \/ (\E w \in Worker : Browse(w) \/ PostStep(w))
        => (removed => removed')
  BY DEF Cull, Browse, PostStep, Insert, Reseal, Load, Verify, Fetch, Lookup,
         Open, Purge, Save
<1>4. UNCHANGED vars => UNCHANGED reportVars /\ (removed => removed')
  BY DEF vars, postVars
<1>5. QED
  BY <1>1, <1>2, <1>3, <1>4 DEF Next

(* An open report that no request is busy with is in the moderators' queue,
   but for one filed between a moderator's look for others and the update that
   clears the flag (moderation/views.py, lines 241 to 243). *)
THEOREM Queueing == Spec => []OpenReportFlagged
<1>1. QueueInv => OpenReportFlagged
  BY DEF QueueInv
<1>2. Spec => []QueueInv
  BY QueueInit, QueueNext, Invariance, PTL DEF Spec
<1>3. QED
  BY <1>1, <1>2, PTL
=============================================================================
