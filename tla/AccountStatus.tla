--------------------------- MODULE AccountStatus ---------------------------
(***************************************************************************)
(* The moderation status of one account: warnings, suspensions, locks and  *)
(* bans, how an expired suspension is lifted, and how the status gates     *)
(* logins and pages.  Accounts do not touch each other's rows, so one is   *)
(* enough.                                                                 *)
(*                                                                         *)
(* Sources: moderation/models.py (AccountState, UserNotice), moderation/   *)
(* moderation_service.py (the moderators' operations), moderation/         *)
(* account_status.py (the middleware) and accounts/views.py (login).       *)
(*                                                                         *)
(* A worker serves one request; each of its steps is one ORM statement     *)
(* with the Python that follows it, and other workers run in between.      *)
(* Sessions are seen here as "this browser is logged in"; the module       *)
(* Sessions has their rows.  Removing friendships on a ban and the audit   *)
(* log are left out.                                                       *)
(***************************************************************************)
EXTENDS Naturals, FiniteSets

CONSTANTS Worker,       \* threads of the server
          Browser,      \* browsers the account logs in from
          NoBrowser,    \* a request of a moderator
          NoDate,       \* suspended_until is NULL
          Threshold,    \* WARNINGS_BEFORE_SUSPENSION, 3 in models.py
          DefaultDays,  \* DEFAULT_SUSPENSION_DAYS, 7 in models.py
          MaxDays,      \* bound: the longest suspension a moderator picks
          MaxWarnings   \* bound: warnings ever issued

ASSUME NoDateAssumption == NoDate \notin Nat
ASSUME DaysAssumption == DefaultDays \in Nat \ {0} /\ MaxDays \in Nat \ {0}
ASSUME ThresholdAssumption == Threshold \in Nat \ {0}
ASSUME NoBrowserAssumption == NoBrowser \notin Browser

VARIABLES
  status,    \* AccountState.status
  warnings,  \* AccountState.warning_count
  left,      \* AccountState.suspended_until: days until then, or NoDate
  unread,    \* levels of the account's notices that are not acknowledged
  live,      \* browsers that are logged in
  issued,    \* history: warnings saved so far
  pc, op, from, count    \* the workers

row == <<status, warnings, left>>
vars == <<status, warnings, left, unread, live, issued, pc, op, from, count>>

Status == {"active", "locked", "suspended", "banned"}
\* Slip: a locked account is not blocked.
Blocking_NotLocked == {"suspended", "banned"}
Blocking == {"locked", "suspended", "banned"}
Level == {"warning", "suspension", "reinstatement"}
ModeratorOp == {"warn", "suspend", "lock", "ban", "reactivate", "revoke"}

Init == /\ status = "active"
        /\ warnings = 0
        /\ left = NoDate
        /\ unread = {}
        /\ live = {}
        /\ issued = 0
        /\ pc = [w \in Worker |-> "idle"]
        /\ op = [w \in Worker |-> "none"]
        /\ from = [w \in Worker |-> NoBrowser]
        /\ count = [w \in Worker |-> 0]

Goto(w, label) == pc' = [pc EXCEPT ![w] = label]

Done(w) == /\ Goto(w, "idle")
           /\ op' = [op EXCEPT ![w] = "none"]
           /\ from' = [from EXCEPT ![w] = NoBrowser]
           /\ count' = [count EXCEPT ![w] = 0]

(***************************************************************************)
(* Moderators: apply_account_status_action and the *_user functions.       *)
(***************************************************************************)
FirstStep == [warn |-> "read", suspend |-> "write", lock |-> "write",
              ban |-> "write", reactivate |-> "write", revoke |-> "revoke"]

Moderate(w) ==
  /\ pc[w] = "idle"
  /\ \E o \in ModeratorOp :
       /\ o = "warn" => issued + Cardinality({v \in Worker : op[v] = "warn"})
                          < MaxWarnings
       /\ op' = [op EXCEPT ![w] = o]
       /\ Goto(w, FirstStep[o])
  /\ UNCHANGED <<row, unread, live, issued, from, count>>

\* warn_user reads the row, counts in memory, and saves the new count.
ReadCount(w) == /\ pc[w] = "read"
                /\ count' = [count EXCEPT ![w] = warnings + 1]
                /\ Goto(w, "save")
                /\ UNCHANGED <<row, unread, live, issued, op, from>>

\* Slip: the suspension comes one warning early.
SaveCount_Early(w) ==
  /\ pc[w] = "save"
  /\ warnings' = count[w]
  /\ issued' = issued + 1
  /\ Goto(w, IF count[w] + 1 < Threshold THEN "notify" ELSE "write")
  /\ UNCHANGED <<status, left, unread, live, op, from, count>>

SaveCount(w) == /\ pc[w] = "save"
                /\ warnings' = count[w]
                /\ issued' = issued + 1
                /\ Goto(w, IF count[w] < Threshold THEN "notify" ELSE "write")
                /\ UNCHANGED <<status, left, unread, live, op, from, count>>

\* The status a moderator's request saves, whatever the row held before.
Target == [warn |-> "suspended", suspend |-> "suspended", lock |-> "locked",
           ban |-> "banned", reactivate |-> "active"]

WriteStatus(w) ==
  /\ pc[w] = "write"
  /\ status' = Target[op[w]]
  /\ \/ op[w] = "suspend" /\ \E d \in 1..MaxDays : left' = d
     \/ op[w] = "warn" /\ left' = DefaultDays
     \/ op[w] \in {"lock", "ban", "reactivate"} /\ left' = NoDate
  /\ Goto(w, IF op[w] = "reactivate" THEN "acknowledge" ELSE "revoke")
  /\ UNCHANGED <<warnings, unread, live, issued, op, from, count>>

\* revoke_all_sessions_for_user
Revoke(w) ==
  /\ pc[w] = "revoke"
  /\ live' = {}
  /\ \/ /\ op[w] \in {"warn", "suspend"}
        /\ Goto(w, "notify")
        /\ UNCHANGED <<op, from, count>>
     \/ /\ op[w] \in {"lock", "ban", "revoke"}
        /\ Done(w)
  /\ UNCHANGED <<row, unread, issued>>

\* A reinstated user is not shown the old warnings and suspensions again.
AcknowledgeOld(w) == /\ pc[w] = "acknowledge"
                     /\ unread' = unread \ {"warning", "suspension"}
                     /\ Goto(w, "notify")
                     /\ UNCHANGED <<row, live, issued, op, from, count>>

\* Slip: a reinstatement is announced with the level of removed content.
NoticeOf_WrongLevel(w) == IF op[w] = "reactivate" THEN "content_removed"
                                                  ELSE "warning"

NoticeOf(w) == CASE op[w] = "reactivate" -> "reinstatement"
                 [] op[w] = "warn" /\ count[w] < Threshold -> "warning"
                 [] OTHER -> "suspension"

Notify(w) == /\ pc[w] = "notify"
             /\ unread' = unread \cup {NoticeOf(w)}
             /\ Done(w)
             /\ UNCHANGED <<row, live, issued>>

(***************************************************************************)
(* The account's owner: login_view, the middleware around every other      *)
(* page, and acknowledge_notice.                                           *)
(***************************************************************************)
Request(w) ==
  /\ pc[w] = "idle"
  /\ \E b \in Browser :
       /\ from' = [from EXCEPT ![w] = b]
       /\ op' = [op EXCEPT ![w] = IF b \in live THEN "page" ELSE "login"]
  /\ Goto(w, "check")
  /\ UNCHANGED <<row, unread, live, issued, count>>

Expired == status = "suspended" /\ left = 0

\* is_blocking on a fresh copy of the row.
Check(w) ==
  /\ pc[w] = "check"
  /\ \/ /\ Expired
        /\ Goto(w, "lift")
        /\ UNCHANGED <<live, op, from, count>>
     \/ /\ ~Expired
        /\ status \in Blocking
        /\ live' = live \ {from[w]}     \* logout, when it was logged in
        /\ Done(w)
     \/ /\ status \notin Blocking
        /\ Goto(w, "admit")
        /\ UNCHANGED <<live, op, from, count>>
  /\ UNCHANGED <<row, unread, issued>>

\* Slip: suspended_until is missing from update_fields.
Lift_KeepsDate(w) == /\ pc[w] = "lift"
                     /\ status' = "active"
                     /\ Goto(w, "admit")
                     /\ UNCHANGED <<warnings, left, unread, live, issued,
                                    op, from, count>>

\* Slip: the lifted suspension is not saved.
Lift_Unsaved(w) == /\ pc[w] = "lift"
                   /\ Goto(w, "admit")
                   /\ UNCHANGED <<row, unread, live, issued, op, from, count>>

\* lift_expired_suspension saves over whatever the row holds by now.
Lift(w) == /\ pc[w] = "lift"
           /\ status' = "active"
           /\ left' = NoDate
           /\ Goto(w, "admit")
           /\ UNCHANGED <<warnings, unread, live, issued, op, from, count>>

\* The page is served, or the browser is logged in.
Admit(w) == /\ pc[w] = "admit"
            /\ live' = IF op[w] = "login" THEN live \cup {from[w]} ELSE live
            /\ Done(w)
            /\ UNCHANGED <<row, unread, issued>>

Acknowledge == /\ \E l \in unread : unread' = unread \ {l}
               /\ UNCHANGED <<row, live, issued, pc, op, from, count>>

Tick == /\ left # NoDate
        /\ left > 0
        /\ left' = left - 1
        /\ UNCHANGED <<status, warnings, unread, live, issued,
                       pc, op, from, count>>

Step(w) == \/ ReadCount(w) \/ SaveCount(w) \/ WriteStatus(w) \/ Revoke(w)
           \/ AcknowledgeOld(w) \/ Notify(w)
           \/ Check(w) \/ Lift(w) \/ Admit(w)

Next == \/ Tick
        \/ Acknowledge
        \/ \E w \in Worker : Moderate(w) \/ Request(w) \/ Step(w)

Spec == Init /\ [][Next]_vars

\* A request that is being served is served to its end, and time passes.
FairSpec == Spec /\ WF_vars(Tick) /\ \A w \in Worker : WF_vars(Step(w))

-----------------------------------------------------------------------------
Label == {"idle", "read", "save", "write", "revoke", "acknowledge", "notify",
          "check", "lift", "admit"}

(* Every variable has its type. *)
TypeOK ==
  /\ status \in Status
  /\ warnings \in Nat
  /\ left \in Nat \cup {NoDate}
  /\ unread \subseteq Level
  /\ live \subseteq Browser
  /\ issued \in Nat
  /\ pc \in [Worker -> Label]
  /\ op \in [Worker -> ModeratorOp \cup {"none", "login", "page"}]
  /\ from \in [Worker -> Browser \cup {NoBrowser}]
  /\ count \in [Worker -> Nat]

(* A suspended account always has the date on which its suspension can be
   lifted, and no other account has one: whoever wrote the row last, of racing
   moderators and lifting requests, wrote both fields (suspension_expired in
   models.py needs the date, or the suspension would never end). *)
SuspendedIffDated == status = "suspended" <=> left # NoDate

(* warn_user suspends by itself only when at least Threshold warnings really
   were issued: racing warnings may lose a count, never invent one. *)
NoEarlyEscalation ==
  \A w \in Worker :
    op[w] = "warn" /\ pc[w] \in {"write", "revoke"} => issued >= Threshold

Quiet == \A w \in Worker : op[w] \notin ModeratorOp
Checking == \E w \in Worker : pc[w] = "check"

(* Once moderators leave the account alone, a user who keeps trying is not
   suspended for ever: the first check after the date lifts the suspension. *)
SuspensionEnds ==
  (<>[]Quiet /\ []<>Checking) => <>[](status # "suspended")

(* A lock or a ban that stands ends the account's activity for good: requests
   that had passed the check are finished, and no later one is admitted, not
   even from a browser that logged in while the sessions were being revoked. *)
BlockedStopsServing ==
  <>[](status \in {"locked", "banned"})
    => <>[](\A w \in Worker : pc[w] # "admit")

Decided(w) == op[w] \in {"suspend", "lock", "reactivate"} /\ WriteStatus(w)

(* A banned account is told that it "has been permanently banned" (models.py,
   line 78): only a moderator who chooses another status for it ends the ban,
   neither a warning nor a page request does. *)
BanIsPermanent ==
  [][status = "banned" /\ status' # "banned" => \E w \in Worker : Decided(w)]_vars
=============================================================================
