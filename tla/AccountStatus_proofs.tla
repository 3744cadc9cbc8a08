------------------------ MODULE AccountStatus_proofs ------------------------
(***************************************************************************)
(* Proofs about AccountStatus, for any number of workers and browsers, any *)
(* threshold and any bounds.                                               *)
(***************************************************************************)
EXTENDS AccountStatus, TLAPS

\* Which requests reach a label: the moderators' and the owner's do not mix.
Working(w) ==
  /\ pc[w] \in {"read", "save"} => op[w] = "warn"
  /\ pc[w] = "write" => op[w] \in ModeratorOp \ {"revoke"}
  /\ op[w] = "login" => from[w] \in Browser

\* A count in memory is at most the warnings that were really issued.
Counting(w) ==
  /\ pc[w] = "save" => count[w] <= issued + 1
  /\ op[w] = "warn" /\ pc[w] \in {"write", "revoke"} => issued >= Threshold

Inv == /\ TypeOK
       /\ SuspendedIffDated
       /\ warnings <= issued
       /\ \A w \in Worker : Working(w) /\ Counting(w)

LEMMA InvInit == Init => Inv
BY NoDateAssumption
   DEF Init, Inv, TypeOK, Status, Level, Label, SuspendedIffDated,
       Working, Counting

(* A worker whose request is over owes nothing. *)
LEMMA InvDone ==
  ASSUME Inv, NEW w \in Worker, Done(w), UNCHANGED <<row, issued>>,
         live' \subseteq Browser, unread' \subseteq Level
  PROVE  Inv'
BY DEF Inv, Done, Goto, row, TypeOK, Label, SuspendedIffDated, Working, Counting

LEMMA InvStep ==
  ASSUME Inv, [Next]_vars
  PROVE  Inv'
<1> USE DEF Inv
<1>1. CASE Tick
  BY <1>1, NoDateAssumption
     DEF Tick, TypeOK, SuspendedIffDated, Working, Counting
<1>2. CASE Acknowledge
  BY <1>2 DEF Acknowledge, row, TypeOK, SuspendedIffDated, Working, Counting
<1>3. ASSUME NEW w \in Worker, Moderate(w)
      PROVE  Inv'
  <2>1. PICK o \in ModeratorOp : /\ op' = [op EXCEPT ![w] = o]
                                 /\ Goto(w, FirstStep[o])
    BY <1>3 DEF Moderate
  <2>2. /\ o = "warn" => FirstStep[o] = "read"
        /\ o = "revoke" => FirstStep[o] = "revoke"
        /\ o \notin {"warn", "revoke"} => FirstStep[o] = "write"
    BY DEF FirstStep, ModeratorOp
  <2>3. UNCHANGED <<row, unread, live, issued, from, count>>
    BY <1>3 DEF Moderate
  <2>4. FirstStep[o] \in Label
    BY <2>2 DEF Label
  <2>5. TypeOK'
    BY <2>1, <2>3, <2>4 DEF Goto, row, TypeOK
  <2>6. \A v \in Worker : Working(v)' /\ Counting(v)'
    BY <2>1, <2>2, <2>3 DEF Goto, row, TypeOK, Working, Counting, ModeratorOp
  <2>7. QED
    BY <2>3, <2>5, <2>6 DEF row, SuspendedIffDated
<1>4. ASSUME NEW w \in Worker, ReadCount(w)
      PROVE  Inv'
  BY <1>4 DEF ReadCount, Goto, row, TypeOK, Label, SuspendedIffDated,
              Working, Counting
<1>5. ASSUME NEW w \in Worker, SaveCount(w)
      PROVE  Inv'
  <2>1. /\ warnings' \in Nat /\ issued' \in Nat
        /\ warnings' <= issued' /\ issued <= issued'
    BY <1>5 DEF SaveCount, TypeOK, Counting
  <2>2. TypeOK' /\ SuspendedIffDated'
    BY <1>5, <2>1 DEF SaveCount, Goto, TypeOK, Label, SuspendedIffDated
  <2>3. \A v \in Worker : Working(v)'
    BY <1>5 DEF SaveCount, Goto, TypeOK, Working, ModeratorOp
  <2>4. ASSUME NEW v \in Worker
        PROVE  Counting(v)'
    <3>1. count[v] \in Nat /\ issued \in Nat
      BY DEF TypeOK
    <3>2. CASE v = w
      BY <1>5, <3>1, <3>2, ThresholdAssumption DEF SaveCount, Goto, TypeOK, Counting
    <3>3. CASE v # w
      BY <1>5, <3>1, <3>3, ThresholdAssumption DEF SaveCount, Goto, TypeOK, Counting
    <3>4. QED
      BY <3>2, <3>3
  <2>5. QED
    BY <2>1, <2>2, <2>3, <2>4
<1>6. ASSUME NEW w \in Worker, WriteStatus(w)
      PROVE  Inv'
  <2>1. op[w] \in ModeratorOp \ {"revoke"}
    BY <1>6 DEF WriteStatus, Working
  <2>2. /\ status' \in Status
        /\ left' \in Nat \cup {NoDate}
        /\ status' = "suspended" <=> left' # NoDate
    BY <1>6, <2>1, NoDateAssumption, DaysAssumption
       DEF WriteStatus, Target, ModeratorOp, Status
  <2>3. TypeOK'
    BY <1>6, <2>2 DEF WriteStatus, Goto, TypeOK, Label
  <2>4. \A v \in Worker : Working(v)' /\ Counting(v)'
    BY <1>6 DEF WriteStatus, Goto, TypeOK, Working, Counting
  <2>5. QED
    BY <1>6, <2>2, <2>3, <2>4 DEF WriteStatus, SuspendedIffDated
<1>7. ASSUME NEW w \in Worker, Revoke(w)
      PROVE  Inv'
  <2>1. CASE Done(w)
    BY <1>7, <2>1, InvDone DEF Revoke, TypeOK
  <2>2. CASE Goto(w, "notify") /\ UNCHANGED <<op, from, count>>
    BY <1>7, <2>2 DEF Revoke, Goto, row, TypeOK, Label, SuspendedIffDated,
                      Working, Counting
  <2>3. QED
    BY <1>7, <2>1, <2>2 DEF Revoke
<1>8. ASSUME NEW w \in Worker, AcknowledgeOld(w)
      PROVE  Inv'
  BY <1>8 DEF AcknowledgeOld, Goto, row, TypeOK, Label, SuspendedIffDated,
              Working, Counting
<1>9. ASSUME NEW w \in Worker, Notify(w)
      PROVE  Inv'
  <2>1. unread' \subseteq Level
    BY <1>9 DEF Notify, NoticeOf, Level, TypeOK
  <2>2. QED
    BY <1>9, <2>1, InvDone DEF Notify, TypeOK
<1>10. ASSUME NEW w \in Worker, Request(w)
       PROVE  Inv'
  BY <1>10 DEF Request, Goto, row, TypeOK, Label, SuspendedIffDated,
               Working, Counting
<1>11. ASSUME NEW w \in Worker, Check(w)
       PROVE  Inv'
  <2>1. CASE Done(w)
    BY <1>11, <2>1, InvDone DEF Check, TypeOK
  <2>2. CASE (Goto(w, "lift") \/ Goto(w, "admit"))
               /\ UNCHANGED <<live, op, from, count>>
    BY <1>11, <2>2 DEF Check, Goto, row, TypeOK, Label, SuspendedIffDated,
                       Working, Counting
  <2>3. QED
    BY <1>11, <2>1, <2>2 DEF Check
<1>12. ASSUME NEW w \in Worker, Lift(w)
       PROVE  Inv'
  BY <1>12 DEF Lift, Goto, TypeOK, Status, Label, SuspendedIffDated,
               Working, Counting
<1>13. ASSUME NEW w \in Worker, Admit(w)
       PROVE  Inv'
  <2>1. live' \subseteq Browser
    BY <1>13 DEF Admit, TypeOK, Working
  <2>2. QED
    BY <1>13, <2>1, InvDone DEF Admit, TypeOK
<1>14. CASE UNCHANGED vars
  BY <1>14 DEF vars, TypeOK, SuspendedIffDated, Working, Counting
<1>15. QED
  BY <1>1, <1>2, <1>3, <1>4, <1>5, <1>6, <1>7, <1>8, <1>9, <1>10, <1>11,
     <1>12, <1>13, <1>14 DEF Next, Step

LEMMA Invariance == Spec => []Inv
<1>1. Init => Inv
  BY InvInit
<1>2. Inv /\ [Next]_vars => Inv'
  BY InvStep
<1>3. QED
  BY <1>1, <1>2, PTL DEF Spec

(* Every variable of the account keeps its type. *)
THEOREM Typing == Spec => []TypeOK
<1>1. Inv => TypeOK
  BY DEF Inv
<1>2. QED
  BY <1>1, Invariance, PTL

(* A suspension always comes with its date, whichever moderators and lifting
   requests race to write the row. *)
THEOREM Dated == Spec => []SuspendedIffDated
<1>1. Inv => SuspendedIffDated
  BY DEF Inv
<1>2. QED
  BY <1>1, Invariance, PTL

(* No interleaving of warnings suspends an account that was warned fewer than
   Threshold times. *)
THEOREM Escalation == Spec => []NoEarlyEscalation
<1>1. Inv => NoEarlyEscalation
  BY DEF Inv, NoEarlyEscalation, Counting
<1>2. QED
  BY <1>1, Invariance, PTL
=============================================================================
