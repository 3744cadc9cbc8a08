------------------------------ MODULE Reports ------------------------------
(***************************************************************************)
(* Reports about a post and about a message, and what moderators do with   *)
(* them, while the post itself (module Posts) is edited and shown.         *)
(*                                                                         *)
(* Sources: moderation/views.py (submit_report, report_message,            *)
(* reports_list, content_moderation) and Report of moderation/models.py.   *)
(* The same workers serve these requests and those of Posts.  What a       *)
(* moderator's "warn", "suspend" and "ban" do to the account is in         *)
(* AccountStatus; to the report they are as "dismiss".  Reports about      *)
(* users touch nothing else and are left out.                              *)
(***************************************************************************)
EXTENDS Posts

CONSTANTS NoReport,    \* a report that is not in the table
          NoJob,       \* a worker that serves no request of this module
          MaxReports   \* bound: reports ever filed

VARIABLES
  flagged,   \* Post.is_flagged
  message,   \* whether the message is in the table
  report,    \* the Report table, by primary key
  filed,     \* how many reports were ever filed
  job,       \* the request that each worker serves
  late,      \* history: workers about to clear the flag since whose look for
             \* other reports one was filed
  missed,    \* history: whether such a worker has cleared it
  grounds,   \* history: reports on which the message was to be removed
  relinked   \* history: those of them that were saved again from an older copy

tables == <<message, report, filed>>
noted == <<late, missed, grounds, relinked>>
reportVars == <<flagged, tables, job, noted>>
vars == <<postVars, reportVars>>

Id == 1..MaxReports
About == {"post", "message", "nothing"}
Report == [about : About, open : BOOLEAN]
Action == {"report_post", "report_message", "delete_post", "clear_flag",
           "resolve", "resolve_delete_post", "resolve_delete_message"}
Label == {"see", "file", "flag", "hide", "unflag", "close", "look", "record",
          "erase"}
Job == [pc : Label, action : Action, id : Id \cup {0},
        about : About]

ASSUME NoReportAssumption == NoReport \notin Report
ASSUME NoJobAssumption == NoJob \notin Job

Init == /\ PostsInit
        /\ flagged = FALSE
        /\ message = TRUE
        /\ report = [i \in Id |-> NoReport]
        /\ filed = 0
        /\ job = [w \in Worker |-> NoJob]
        /\ late = {}
        /\ missed = FALSE
        /\ grounds = {}
        /\ relinked = {}

On(w, label) == job[w] # NoJob /\ job[w].pc = label
Continue(w, label) == job' = [job EXCEPT ![w].pc = label]
Finish(w) == job' = [job EXCEPT ![w] = NoJob]

OpenOn(about) == {i \in Id : /\ report[i] # NoReport
                             /\ report[i].open
                             /\ report[i].about = about}

\* Bound: a user begins to report only when there is a key for the report.
RoomToFile ==
  filed + Cardinality({w \in Worker : On(w, "see") \/ On(w, "file")}) < MaxReports

(***************************************************************************)
(* Requests.  A moderator can name any report, a resolved one too, and     *)
(* the report as it is now goes along: resolving saves the whole row.      *)
(***************************************************************************)
Serve(w, label, a, i, about) ==
  job' = [job EXCEPT ![w] = [pc |-> label, action |-> a, id |-> i,
                             about |-> about]]

Arrive(w) ==
  /\ job[w] = NoJob
  /\ req[w] = NoRequest
  /\ \/ RoomToFile /\ Serve(w, "see", "report_post", 0, "post")
     \/ RoomToFile /\ message /\ Serve(w, "file", "report_message", 0, "message")
     \/ post # Absent /\ Serve(w, "hide", "delete_post", 0, "post")
     \/ post # Absent /\ Serve(w, "unflag", "clear_flag", 0, "post")
     \/ \E i \in Id :
          /\ report[i] # NoReport
          /\ LET about == report[i].about IN
             \/ /\ about = "post"
                /\ \/ Serve(w, "look", "resolve", i, about)
                   \/ Serve(w, "hide", "resolve_delete_post", i, about)
             \/ /\ about # "post"
                /\ Serve(w, "record", "resolve", i, about)
             \/ /\ about = "message"
                /\ Serve(w, "record", "resolve_delete_message", i, about)
  /\ UNCHANGED <<flagged, tables, noted, postVars>>

(***************************************************************************)
(* submit_report and report_message.                                       *)
(***************************************************************************)
See(w) == /\ On(w, "see")
          /\ IF post = Absent \/ removed THEN Finish(w) ELSE Continue(w, "file")
          /\ UNCHANGED <<flagged, tables, noted, postVars>>

\* A report refers to its message; one about a message that is gone fails.
File(w) ==
  LET about == job[w].about IN
  /\ On(w, "file")
  /\ \/ /\ about = "message"
        /\ ~message
        /\ Finish(w)
        /\ UNCHANGED <<report, filed, late>>
     \/ /\ about = "message" => message
        /\ filed' = filed + 1
        /\ report' = [report EXCEPT ![filed'] = [about |-> about, open |-> TRUE]]
        /\ IF about = "post"
             THEN /\ late' = late \cup {v \in Worker : On(v, "unflag")}
                  /\ Continue(w, "flag")
             ELSE UNCHANGED late /\ Finish(w)
  /\ UNCHANGED <<flagged, message, missed, grounds, relinked, postVars>>

Flag(w) == /\ On(w, "flag")
           /\ flagged' = TRUE
           /\ missed' = FALSE
           /\ Finish(w)
           /\ UNCHANGED <<tables, late, grounds, relinked, postVars>>

(***************************************************************************)
(* content_moderation and the start of reports_list: what happens to the   *)
(* post, and to its flag.                                                  *)
(***************************************************************************)
Hide(w) == /\ On(w, "hide")
           /\ removed' = TRUE
           /\ flagged' = FALSE
           /\ Continue(w, IF job[w].action = "delete_post" THEN "close"
                                                           ELSE "record")
           /\ UNCHANGED <<tables, noted, content, req, wrong, alarms>>

Close(w) ==
  /\ On(w, "close")
  /\ report' = [i \in Id |-> IF i \in OpenOn("post")
                               THEN [report[i] EXCEPT !.open = FALSE]
                               ELSE report[i]]
  /\ missed' = FALSE
  /\ Finish(w)
  /\ UNCHANGED <<flagged, message, filed, late, grounds, relinked, postVars>>

\* Slip: the flag is cleared with every report that is resolved.
Look_Never(w) ==
  /\ On(w, "look")
  /\ Continue(w, "unflag")
  /\ UNCHANGED <<flagged, tables, noted, postVars>>

\* Is another report of the post open?
Look(w) ==
  /\ On(w, "look")
  /\ Continue(w, IF OpenOn("post") \ {job[w].id} = {} THEN "unflag" ELSE "record")
  /\ UNCHANGED <<flagged, tables, noted, postVars>>

Unflag(w) ==
  /\ On(w, "unflag")
  /\ flagged' = FALSE
  /\ missed' = (missed \/ (job[w].action = "resolve" /\ w \in late))
  /\ late' = late \ {w}
  /\ Continue(w, IF job[w].action = "resolve" THEN "record" ELSE "close")
  /\ UNCHANGED <<tables, grounds, relinked, postVars>>

(***************************************************************************)
(* The end of reports_list: the report is saved whole, cut off from a      *)
(* message that is to go, and then the message goes, with every report     *)
(* that still refers to it.                                                *)
(***************************************************************************)
\* Slip: the reference to the message stays.
Resolved_KeepsMessage(w) == [about |-> job[w].about, open |-> FALSE]

Resolved(w) ==
  [about |-> IF job[w].action = "resolve_delete_message" THEN "nothing"
             ELSE job[w].about,
   open  |-> FALSE]

Record(w) ==
  LET i == job[w].id
      row == Resolved(w) IN
  /\ On(w, "record")
  /\ \/ /\ row.about = "message"   \* refused: it refers to what is gone
        /\ ~message
        /\ Finish(w)
        /\ UNCHANGED <<report, grounds, relinked>>
     \/ /\ row.about = "message" => message
        /\ report' = [report EXCEPT ![i] = row]
        /\ relinked' = IF i \in grounds /\ row.about = "message"
                         THEN relinked \cup {i} ELSE relinked
        /\ IF job[w].action = "resolve_delete_message"
             THEN Continue(w, "erase") /\ grounds' = grounds \cup {i}
             ELSE Finish(w) /\ UNCHANGED grounds
  /\ UNCHANGED <<flagged, message, filed, late, missed, postVars>>

Erase(w) ==
  /\ On(w, "erase")
  /\ message' = FALSE
  /\ report' = [i \in Id |->
       IF report[i] # NoReport /\ report[i].about = "message"
         THEN NoReport ELSE report[i]]
  /\ Finish(w)
  /\ UNCHANGED <<flagged, filed, noted, postVars>>

ReportStep(w) == \/ See(w) \/ File(w) \/ Flag(w) \/ Hide(w) \/ Close(w)
                 \/ Look(w) \/ Unflag(w) \/ Record(w) \/ Erase(w)

Next == \/ Cull /\ UNCHANGED reportVars
        \/ \E w \in Worker :
             \/ job[w] = NoJob /\ Browse(w) /\ UNCHANGED reportVars
             \/ PostStep(w) /\ UNCHANGED reportVars
             \/ Arrive(w)
             \/ ReportStep(w)

Spec == Init /\ [][Next]_vars

-----------------------------------------------------------------------------
(* Every variable has its type. *)
TypeOK ==
  /\ PostsTypeOK
  /\ flagged \in BOOLEAN
  /\ message \in BOOLEAN
  /\ report \in [Id -> Report \cup {NoReport}]
  /\ filed \in Nat
  /\ job \in [Worker -> Job \cup {NoJob}]
  /\ late \subseteq Worker
  /\ missed \in BOOLEAN
  /\ grounds \subseteq Id
  /\ relinked \subseteq Id

(* A post that was removed is never shown again, whatever edits and uploads
   were under way with a copy of its row (posts/views.py, lines 87 and 135). *)
RemovedStaysRemoved == [][removed => removed']_removed

InWork(i) == \E w \in Worker :
  \/ On(w, "flag")
  \/ On(w, "close")
  \/ On(w, "record") /\ job[w].id = i

(* A report that is open, and that no request is busy with, is in the queue:
   its post is flagged.  The exception is the report that was filed between a
   moderator's look for other reports and the update that clears the flag
   (moderation/views.py, lines 241 to 243). *)
OpenReportFlagged ==
  \A i \in OpenOn("post") : ~removed /\ ~InWork(i) => flagged \/ missed

(* The report on which a message was removed stays on record, unless another
   moderator, who had opened it before, saved it again and so tied it to the
   message that was about to go (moderation/views.py, lines 249 to 255). *)
GroundsAreKept == \A i \in grounds \ relinked : report[i] # NoReport
=============================================================================
