-------------------------- MODULE TwoFactor_proofs --------------------------
(***************************************************************************)
(* Proofs about TwoFactor, for any number of workers, tabs and secrets.    *)
(***************************************************************************)
EXTENDS TwoFactor, TLAPS

\* A request that displays something has a tab to display it in.
Placed(w) == pc[w] \in {"look", "reveal"} => tab[w] \in Tab

\* Codes come from the app; a worker about to switch the second factor on has
\* checked a code of the secret there is, or was overtaken, or finds none.
Checked(w) ==
  /\ code[w] \in app \cup {Wrong}
  /\ pc[w] = "enable" => w \in late \/ secret \in app \cup {NoSecret}

Inv == /\ TypeOK
       /\ LockoutOnlyByOverlap
       /\ \A w \in Worker : Placed(w) /\ Checked(w)

LEMMA InvInit == Init => Inv
<1> SUFFICES ASSUME Init PROVE Inv
  OBVIOUS
<1>1. TypeOK
  BY DEF Init, TypeOK, Label, Action, NoSecret
<1>2. LockoutOnlyByOverlap
  BY DEF Init, LockoutOnlyByOverlap, LockedOut, Required
<1>3. ASSUME NEW w \in Worker
      PROVE  Placed(w) /\ Checked(w)
  BY DEF Init, Placed, Checked
<1>4. QED
  BY <1>1, <1>2, <1>3 DEF Inv

(* A step that leaves the row alone, and the app too, only has its worker to
   account for. *)
LEMMA InvKept ==
  ASSUME Inv, NEW w \in Worker, UNCHANGED <<row, app, late, tangled>>,
         shown' \in [Tab -> Nat],
         \/ Done(w)
         \/ \E l \in {"compare", "reveal"} :
              Goto(w, l) /\ (l = "reveal" => tab[w] \in Tab)
         \/ Goto(w, "enable") /\ secret \in app
  PROVE  Inv'
<1>1. TypeOK'
  <2>1. \E l \in Label : pc' = [pc EXCEPT ![w] = l]
    BY DEF Done, Goto, Label
  <2>2. op' \in [Worker -> Action \cup {"none"}]
    BY DEF Inv, TypeOK, Done, Goto
  <2>3. tab' \in [Worker -> Tab \cup {NoTab}]
    BY DEF Inv, TypeOK, Done, Goto
  <2>4. code' \in [Worker -> Nat \cup {Wrong}]
    BY DEF Inv, TypeOK, Done, Goto
  <2>5. QED
    BY <2>1, <2>2, <2>3, <2>4 DEF Inv, TypeOK, row
<1>2. LockoutOnlyByOverlap'
  BY DEF Inv, row, LockoutOnlyByOverlap, LockedOut, Required
<1>3. ASSUME NEW v \in Worker
      PROVE  Placed(v)' /\ Checked(v)'
  BY DEF Inv, Done, Goto, row, TypeOK, Placed, Checked
<1>4. QED
  BY <1>1, <1>2, <1>3 DEF Inv

LEMMA InvStep ==
  ASSUME Inv, [Next]_vars
  PROVE  Inv'
<1>1. ASSUME Scan
      PROVE  Inv'
  <2>1. TypeOK'
    <3>1. app' \subseteq Nat
      <4>1. PICK t \in Tab : app' = app \cup {shown[t]}
        BY <1>1 DEF Scan
      <4>2. shown \in [Tab -> Nat] /\ app \subseteq Nat
        BY DEF Inv, TypeOK
      <4>3. shown[t] \in Nat
        BY <4>2
      <4>4. QED
        BY <4>1, <4>2, <4>3
    <3>2. QED
      BY <1>1, <3>1 DEF Inv, Scan, row, TypeOK
  <2>2. LockoutOnlyByOverlap'
    BY <1>1 DEF Inv, Scan, row, LockoutOnlyByOverlap, LockedOut, Required
  <2>3. ASSUME NEW v \in Worker
        PROVE  Placed(v)' /\ Checked(v)'
    BY <1>1 DEF Inv, Scan, row, Placed, Checked
  <2>4. QED
    BY <2>1, <2>2, <2>3 DEF Inv
<1>2. ASSUME NEW w \in Worker, Request(w)
      PROVE  Inv'
  <2>1. PICK t \in Tab, o \in Action, c \in app \cup {Wrong} :
             /\ pc' = [pc EXCEPT ![w] = FirstStep[o]]
             /\ op' = [op EXCEPT ![w] = o]
             /\ tab' = [tab EXCEPT ![w] = t]
             /\ code' = [code EXCEPT ![w] = c]
    BY <1>2 DEF Request
  <2>2. FirstStep[o] \in {"enrol", "find", "clear", "look"}
    BY DEF Action, FirstStep
  <2>3. UNCHANGED <<secret, enabled, drawn, shown, app, late, tangled>>
    BY <1>2 DEF Request, row, user
  <2>4. TypeOK'
    BY <2>1, <2>2, <2>3 DEF Inv, TypeOK, Label
  <2>5. LockoutOnlyByOverlap'
    BY <2>3 DEF Inv, LockoutOnlyByOverlap, LockedOut, Required
  <2>6. ASSUME NEW v \in Worker
        PROVE  Placed(v)' /\ Checked(v)'
    BY <2>1, <2>2, <2>3 DEF Inv, TypeOK, Placed, Checked
  <2>7. QED
    BY <2>4, <2>5, <2>6 DEF Inv
<1>3. ASSUME NEW w \in Worker, Enrol(w)
      PROVE  Inv'
  <2>1. TypeOK'
    <3>1. drawn' \in Nat /\ secret' \in Nat /\ enabled' \in BOOLEAN
      <4>1. drawn \in Nat
        BY DEF Inv, TypeOK
      <4>2. drawn' = drawn + 1 /\ secret' = drawn' /\ enabled' = FALSE
        BY <1>3 DEF Enrol
      <4>3. drawn' \in Nat
        BY <4>1, <4>2
      <4>4. QED
        BY <4>2, <4>3
    <3>2. late' \subseteq Worker
      BY <1>3 DEF Inv, Enrol, TypeOK
    <3>3. UNCHANGED <<shown, app, tangled>>
      BY <1>3 DEF Enrol, user
    <3>4. /\ pc' \in [Worker -> Label]
          /\ op' \in [Worker -> Action \cup {"none"}]
          /\ tab' \in [Worker -> Tab \cup {NoTab}]
          /\ code' \in [Worker -> Nat \cup {Wrong}]
      BY <1>3 DEF Inv, Enrol, Done, TypeOK, Label
    <3>5. QED
      BY <3>1, <3>2, <3>3, <3>4 DEF Inv, TypeOK
  <2>2. LockoutOnlyByOverlap'
    BY <1>3 DEF Enrol, LockoutOnlyByOverlap, LockedOut, Required
  <2>3. ASSUME NEW v \in Worker
        PROVE  Placed(v)' /\ Checked(v)'
    BY <1>3 DEF Inv, Enrol, Done, user, TypeOK, Placed, Checked
  <2>4. QED
    BY <2>1, <2>2, <2>3 DEF Inv
<1>4. ASSUME NEW w \in Worker, Find(w)
      PROVE  Inv'
  BY <1>4, InvKept DEF Inv, Find, user, TypeOK
<1>5. ASSUME NEW w \in Worker, Compare(w)
      PROVE  Inv'
  <2>1. UNCHANGED <<row, app, late, tangled>> /\ shown' \in [Tab -> Nat]
    BY <1>5 DEF Inv, Compare, user, TypeOK
  <2>2. CASE Done(w)
    BY <2>1, <2>2, InvKept
  <2>3. CASE code[w] = secret /\ Goto(w, "enable")
    <3>1. secret \in app
      BY <2>3, WrongAssumption DEF Inv, TypeOK, Checked
    <3>2. QED
      BY <2>1, <2>3, <3>1, InvKept
  <2>4. QED
    BY <1>5, <2>2, <2>3 DEF Compare
<1>6. ASSUME NEW w \in Worker, Enable(w)
      PROVE  Inv'
  <2>1. TypeOK'
    BY <1>6 DEF Inv, Enable, Done, user, TypeOK, Label
  <2>2. LockoutOnlyByOverlap'
    BY <1>6 DEF Inv, Enable, user, NoSecret, LockoutOnlyByOverlap, LockedOut,
                Required, Checked
  <2>3. ASSUME NEW v \in Worker
        PROVE  Placed(v)' /\ Checked(v)'
    BY <1>6 DEF Inv, Enable, Done, user, TypeOK, Placed, Checked
  <2>4. QED
    BY <2>1, <2>2, <2>3 DEF Inv
<1>7. ASSUME NEW w \in Worker, Clear(w)
      PROVE  Inv'
  <2>1. TypeOK'
    BY <1>7 DEF Inv, Clear, Done, user, TypeOK, Label, NoSecret
  <2>2. LockoutOnlyByOverlap'
    BY <1>7 DEF Clear, LockoutOnlyByOverlap, LockedOut, Required
  <2>3. ASSUME NEW v \in Worker
        PROVE  Placed(v)' /\ Checked(v)'
    BY <1>7 DEF Inv, Clear, Done, user, TypeOK, NoSecret, Placed, Checked
  <2>4. QED
    BY <2>1, <2>2, <2>3 DEF Inv
<1>8. ASSUME NEW w \in Worker, Look(w) \/ Reveal(w)
      PROVE  Inv'
  <2>1. UNCHANGED <<row, app, late, tangled>>
    BY <1>8 DEF Look, Reveal
  <2>2. tab[w] \in Tab /\ shown' \in [Tab -> Nat]
    BY <1>8 DEF Inv, Look, Reveal, TypeOK, NoSecret, Placed
  <2>3. Done(w) \/ Goto(w, "reveal")
    BY <1>8 DEF Look, Reveal
  <2>4. QED
    BY <2>1, <2>2, <2>3, InvKept
<1>9. CASE UNCHANGED vars
  BY <1>9 DEF Inv, vars, TypeOK, LockoutOnlyByOverlap, LockedOut, Required,
              Placed, Checked
<1>10. QED
  BY <1>1, <1>2, <1>3, <1>4, <1>5, <1>6, <1>7, <1>8, <1>9 DEF Next, Step

LEMMA Invariance == Spec => []Inv
<1>1. QED
  BY InvInit, InvStep, PTL DEF Spec

(* Every variable keeps its type, whatever the requests and their order. *)
THEOREM Typing == Spec => []TypeOK
<1>1. Inv => TypeOK
  BY DEF Inv
<1>2. QED
  BY <1>1, Invariance, PTL

(* However many tabs and threads there are, the user is locked out only if an
   enrolment overtook a checked code before it was saved. *)
THEOREM Lockout == Spec => []LockoutOnlyByOverlap
<1>1. Inv => LockoutOnlyByOverlap
  BY DEF Inv
<1>2. QED
  BY <1>1, Invariance, PTL
=============================================================================
