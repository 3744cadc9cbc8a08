----------------------------- MODULE TwoFactor -----------------------------
(***************************************************************************)
(* Setting up a second factor: one user, who may have the page of sessions *)
(* open in several tabs, enrols an authenticator app, confirms it with a   *)
(* code, and switches it off again.                                        *)
(*                                                                         *)
(* Sources: accounts/security/two_factor.py and sessions_dashboard of      *)
(* accounts/views.py.  A worker serves one request; each of its steps is   *)
(* one statement on the user's TwoFactorSettings row.                      *)
(*                                                                         *)
(* A secret is a number, in the order of drawing; it is encrypted at rest, *)
(* which KeyManagement is about.  A code is the secret it was made from:   *)
(* mistyped codes and codes outside the window of time steps are Wrong.    *)
(***************************************************************************)
EXTENDS Naturals, FiniteSets

CONSTANTS Worker,      \* threads of the server
          Tab,         \* pages of sessions that the user has open
          NoTab,       \* an idle worker
          Wrong,       \* a code of no secret
          MaxSecrets   \* bound: secrets ever drawn

NoSecret == 0

ASSUME NoTabAssumption == NoTab \notin Tab
ASSUME WrongAssumption == Wrong \notin Nat

VARIABLES
  secret,    \* TwoFactorSettings.secret, NoSecret when empty
  enabled,   \* TwoFactorSettings.is_enabled
  drawn,     \* how many secrets were ever drawn
  shown,     \* the secret whose QR code each tab displays
  app,       \* the secrets in the user's authenticator app
  pc, op, tab, code,   \* the workers
  late,      \* history: workers whose checked code was overtaken by an enrolment
  tangled    \* history: whether such a worker was the last to switch it on

row == <<secret, enabled, drawn>>
user == <<shown, app>>
vars == <<secret, enabled, drawn, shown, app, pc, op, tab, code, late, tangled>>

Action == {"begin", "confirm", "disable", "show"}

Init == /\ secret = NoSecret
        /\ enabled = FALSE
        /\ drawn = 0
        /\ shown = [t \in Tab |-> NoSecret]
        /\ app = {}
        /\ pc = [w \in Worker |-> "idle"]
        /\ op = [w \in Worker |-> "none"]
        /\ tab = [w \in Worker |-> NoTab]
        /\ code = [w \in Worker |-> Wrong]
        /\ late = {}
        /\ tangled = FALSE

Goto(w, label) == /\ pc' = [pc EXCEPT ![w] = label]
                  /\ UNCHANGED <<op, tab, code>>

Done(w) == /\ pc' = [pc EXCEPT ![w] = "idle"]
           /\ op' = [op EXCEPT ![w] = "none"]
           /\ tab' = [tab EXCEPT ![w] = NoTab]
           /\ code' = [code EXCEPT ![w] = Wrong]

\* is_required_for: from now on a login asks for a code.
Required == enabled /\ secret # NoSecret

\* is_enrolling: the page displays the secret and asks for a code of it.
Enrolling == secret # NoSecret /\ ~enabled

FirstStep == [begin |-> "enrol", confirm |-> "find", disable |-> "clear",
              show |-> "look"]

\* Bound: an enrolment begins only when it can draw a secret.
Room == drawn + Cardinality({w \in Worker : op[w] = "begin"}) < MaxSecrets

(***************************************************************************)
(* sessions_dashboard.  A tab may be older than the row: it can send any   *)
(* of the forms, whatever state the row is in by now.                      *)
(***************************************************************************)
Request(w) ==
  /\ pc[w] = "idle"
  /\ \E t \in Tab, o \in Action, c \in app \cup {Wrong} :
       /\ o = "begin" => Room
       /\ o # "confirm" => c = Wrong
       /\ pc' = [pc EXCEPT ![w] = FirstStep[o]]
       /\ op' = [op EXCEPT ![w] = o]
       /\ tab' = [tab EXCEPT ![w] = t]
       /\ code' = [code EXCEPT ![w] = c]
  /\ UNCHANGED <<row, user, late, tangled>>

\* Slip: is_enabled is left as it was.
Enrol_StaysOn(w) ==
  /\ pc[w] = "enrol"
  /\ drawn' = drawn + 1
  /\ secret' = drawn'
  /\ late' = late \cup {v \in Worker : pc[v] = "enable"}
  /\ Done(w)
  /\ UNCHANGED <<enabled, user, tangled>>

\* begin_enrolment: a new secret, which is not on before it is confirmed.
Enrol(w) ==
  /\ pc[w] = "enrol"
  /\ drawn' = drawn + 1
  /\ secret' = drawn'
  /\ enabled' = FALSE
  /\ late' = late \cup {v \in Worker : pc[v] = "enable"}
  /\ Done(w)
  /\ UNCHANGED <<user, tangled>>

\* confirm_enrolment reads the row ...
Find(w) ==
  /\ pc[w] = "find"
  /\ \/ /\ secret = NoSecret
        /\ Done(w)
     \/ /\ secret # NoSecret
        /\ Goto(w, "compare")
  /\ UNCHANGED <<row, user, late, tangled>>

\* ... verify_code reads it again, for the secret to compare with ...
Compare(w) ==
  /\ pc[w] = "compare"
  /\ \/ /\ secret = NoSecret \/ code[w] # secret
        /\ Done(w)
     \/ /\ secret # NoSecret
        /\ code[w] = secret
        /\ Goto(w, "enable")
  /\ UNCHANGED <<row, user, late, tangled>>

\* ... and the row read first is saved, its field is_enabled only.
Enable(w) ==
  /\ pc[w] = "enable"
  /\ enabled' = TRUE
  /\ late' = late \ {w}
  /\ tangled' = (w \in late)
  /\ Done(w)
  /\ UNCHANGED <<secret, drawn, user>>

\* Slip: the column is emptied with NULL instead of the empty string.
Clear_Null(w) ==
  /\ pc[w] = "clear"
  /\ secret' = Wrong
  /\ enabled' = FALSE
  /\ Done(w)
  /\ UNCHANGED <<drawn, user, late, tangled>>

\* disable
Clear(w) ==
  /\ pc[w] = "clear"
  /\ secret' = NoSecret
  /\ enabled' = FALSE
  /\ Done(w)
  /\ UNCHANGED <<drawn, user, late, tangled>>

\* The page itself: is_enrolling ...
Look(w) ==
  /\ pc[w] = "look"
  /\ \/ /\ Enrolling
        /\ Goto(w, "reveal")
        /\ UNCHANGED shown
     \/ /\ ~Enrolling
        /\ shown' = [shown EXCEPT ![tab[w]] = NoSecret]
        /\ Done(w)
  /\ UNCHANGED <<row, app, late, tangled>>

\* ... and then current_secret, read once more.
Reveal(w) ==
  /\ pc[w] = "reveal"
  /\ shown' = [shown EXCEPT ![tab[w]] = secret]
  /\ Done(w)
  /\ UNCHANGED <<row, app, late, tangled>>

\* The user scans what a tab displays; the app keeps what it has.
Scan == /\ \E t \in Tab : /\ shown[t] \notin app \cup {NoSecret}
                          /\ app' = app \cup {shown[t]}
        /\ UNCHANGED <<row, shown, pc, op, tab, code, late, tangled>>

Step(w) == \/ Enrol(w) \/ Find(w) \/ Compare(w) \/ Enable(w) \/ Clear(w)
           \/ Look(w) \/ Reveal(w)

Next == Scan \/ \E w \in Worker : Request(w) \/ Step(w)

Spec == Init /\ [][Next]_vars

-----------------------------------------------------------------------------
Label == {"idle", "enrol", "find", "compare", "enable", "clear", "look",
          "reveal"}

(* Every variable has its type. *)
TypeOK ==
  /\ secret \in Nat
  /\ enabled \in BOOLEAN
  /\ drawn \in Nat
  /\ shown \in [Tab -> Nat]
  /\ app \subseteq Nat
  /\ pc \in [Worker -> Label]
  /\ op \in [Worker -> Action \cup {"none"}]
  /\ tab \in [Worker -> Tab \cup {NoTab}]
  /\ code \in [Worker -> Nat \cup {Wrong}]
  /\ late \subseteq Worker
  /\ tangled \in BOOLEAN

LockedOut == Required /\ secret \notin app

(* A user can be locked out, asked at login for codes of a secret that no app
   has, in one way only: an enrolment was begun again between the check of a
   code and the save that switched the second factor on (two_factor.py, lines
   69 to 72). *)
LockoutOnlyByOverlap == LockedOut => tangled
=============================================================================
