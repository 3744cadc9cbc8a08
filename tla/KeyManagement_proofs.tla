------------------------ MODULE KeyManagement_proofs ------------------------
(***************************************************************************)
(* Proofs about KeyManagement, for any users, algorithms and workers, any  *)
(* cache limit and any bounds.                                             *)
(***************************************************************************)
EXTENDS KeyManagement, SequenceTheorems, FiniteSetTheorems, TLAPS

(***************************************************************************)
(* The KeyRecord table under its two writers.                              *)
(***************************************************************************)

(* The UPDATE of generate_key_for_user only clears flags: the table keeps its
   rows, and each keeps its owner, algorithm and wrapping. *)
LEMMA RetireKeepsRows ==
  ASSUME keys \in Seq(KeyRow), NEW u, NEW a, RetireAll(u, a)
  PROVE  /\ keys' \in Seq(KeyRow)
         /\ DOMAIN keys' = DOMAIN keys
         /\ \A k \in DOMAIN keys : /\ keys'[k].owner = keys[k].owner
                                   /\ keys'[k].alg = keys[k].alg
                                   /\ keys'[k].wrap = keys[k].wrap
<1>1. Len(keys) \in Nat /\ DOMAIN keys = 1..Len(keys)
  BY LenProperties
<1>2. \A k \in DOMAIN keys : keys[k] \in KeyRow
  BY <1>1, ElementOfSeq
<1>3. /\ DOMAIN keys' = DOMAIN keys
      /\ \A k \in DOMAIN keys :
           /\ keys'[k] \in KeyRow
           /\ keys'[k].owner = keys[k].owner
           /\ keys'[k].alg = keys[k].alg
           /\ keys'[k].wrap = keys[k].wrap
  BY <1>2 DEF RetireAll, KeyRow
<1>4. keys' \in [1..Len(keys) -> KeyRow]
  BY <1>1, <1>3 DEF RetireAll
<1>5. keys' \in Seq(KeyRow)
  BY <1>1, <1>4, SeqDef
<1>6. QED
  BY <1>3, <1>5

(* The INSERT adds one row after the others. *)
LEMMA AppendKeepsRows ==
  ASSUME keys \in Seq(KeyRow), NEW r \in KeyRow, keys' = Append(keys, r)
  PROVE  /\ keys' \in Seq(KeyRow)
         /\ DOMAIN keys' = DOMAIN keys \cup {Len(keys) + 1}
         /\ \A k \in DOMAIN keys : keys'[k] = keys[k]
         /\ keys'[Len(keys) + 1] = r
         /\ Len(keys) + 1 \in Nat \ {0}
<1>1. Len(keys) \in Nat /\ DOMAIN keys = 1..Len(keys)
  BY LenProperties
<1>2. /\ keys' \in Seq(KeyRow)
      /\ Len(keys') = Len(keys) + 1
      /\ \A k \in 1..Len(keys) : keys'[k] = keys[k]
      /\ keys'[Len(keys) + 1] = r
  BY <1>1, AppendProperties
<1>3. DOMAIN keys' = 1..(Len(keys) + 1)
  BY <1>2, LenProperties
<1>4. QED
  BY <1>1, <1>2, <1>3

-----------------------------------------------------------------------------
(***************************************************************************)
(* Type correctness.                                                       *)
(***************************************************************************)

\* What a worker's variables hold at each label, beyond their types.
Ready(w) ==
  /\ pc[w] # "idle" => job[w] \in Job
  /\ pc[w] \in {"open", "unwrap", "evict", "remember"} => reading[w] \in Envelope
  /\ pc[w] \in {"insert", "unwrap"} => mk[w] # 0
  /\ pc[w] = "reload" => master # 0
  /\ pc[w] \in {"refer", "store"} => key[w] # 0

TypeInv == TypeOK /\ \A w \in Worker : Ready(w)

LEMMA TypeInit == Init => TypeInv
BY EmptySeq DEF Init, TypeInv, TypeOK, Ready, Label, ConfiguredMaster

(* A worker whose request is over is back at its initial values. *)
LEMMA TypeDone ==
  ASSUME TypeInv, NEW w \in Worker, Done(w), UNCHANGED master
  PROVE  /\ pc' \in [Worker -> Label]
         /\ job' \in [Worker -> Job \cup {NoJob}]
         /\ key' \in [Worker -> Nat]
         /\ mk' \in [Worker -> Nat]
         /\ reading' \in [Worker -> Envelope \cup {NoEnvelope}]
         /\ \A v \in Worker : Ready(v)'
BY DEF TypeInv, TypeOK, Done, Goto, Label, Ready

(* So does one that finishes with an answer. *)
LEMMA TypeFinish ==
  ASSUME TypeInv, NEW w \in Worker, UNCHANGED <<database, master>>,
         cache' \subseteq Nat \ {0},
         NEW outcome \in {"plaintext", "unreadable"}, Finish(w, outcome)
  PROVE  TypeInv'
<1>1. Done(w)
  BY DEF Finish
<1>2. answer' \in [Worker -> {"none", "plaintext", "unreadable"}]
  BY DEF Finish, TypeInv, TypeOK
<1>3. QED
  BY <1>1, <1>2, TypeDone DEF TypeInv, TypeOK, database

LEMMA TypeStep ==
  ASSUME TypeInv, [Next]_vars
  PROVE  TypeInv'
<1> USE DEF TypeInv
<1>0. Len(keys) \in Nat /\ DOMAIN keys = 1..Len(keys)
  BY LenProperties DEF TypeOK
<1>1. CASE Restart
  BY <1>1 DEF Restart, TypeOK, Ready, Label, Job
<1>2. ASSUME NEW w \in Worker, Begin(w)
      PROVE  TypeInv'
  BY <1>2 DEF Begin, Goto, database, process, TypeOK, Ready, Label, Job
<1>3. ASSUME NEW w \in Worker, Ask(w)
      PROVE  TypeInv'
  BY <1>3 DEF Ask, Goto, database, process, TypeOK, Ready, Label, Job, Envelope
<1>4. ASSUME NEW w \in Worker, Lookup(w)
      PROVE  TypeInv'
  <2> DEFINE mine == Active(job[w].user, job[w].alg)
  <2>1. mine \subseteq Nat \ {0}
    BY <1>0 DEF Active, Records
  <2>2. CASE Goto(w, "retire") /\ UNCHANGED key
    BY <1>4, <2>2 DEF Lookup, Goto, database, process, TypeOK, Ready, Label
  <2>3. ASSUME NEW k \in mine,
               key' = [key EXCEPT ![w] = k], Goto(w, "store")
        PROVE  TypeInv'
    <3>1. k \in Nat /\ k # 0
      BY <2>1
    <3> HIDE DEF mine
    <3>2. QED
      BY <1>4, <2>3, <3>1 DEF Lookup, Goto, database, process,
                              TypeOK, Ready, Label
  <2>4. QED
    BY <1>4, <2>2, <2>3 DEF Lookup
<1>5. ASSUME NEW w \in Worker, Retire(w)
      PROVE  TypeInv'
  <2>1. keys' \in Seq(KeyRow)
    BY <1>5, RetireKeepsRows DEF Retire, TypeOK
  <2>2. QED
    BY <1>5, <2>1 DEF Retire, Goto, process, TypeOK, Ready, Label
<1>6. ASSUME NEW w \in Worker, FindMaster(w)
      PROVE  TypeInv'
  BY <1>6 DEF FindMaster, AfterMaster, Goto, database, process,
              TypeOK, Ready, Label
<1>7. ASSUME NEW w \in Worker, MintMaster(w)
      PROVE  TypeInv'
  BY <1>7 DEF MintMaster, Goto, ConfiguredMaster, TypeOK, Ready, Label
<1>8. ASSUME NEW w \in Worker, ReloadMaster(w)
      PROVE  TypeInv'
  BY <1>8 DEF ReloadMaster, AfterMaster, Goto, database, process,
              TypeOK, Ready, Label
<1>9. ASSUME NEW w \in Worker, Insert(w)
      PROVE  TypeInv'
  <2> DEFINE r == [owner |-> job[w].user, alg |-> job[w].alg,
                   active |-> TRUE, wrap |-> mk[w]]
  <2>1. r \in KeyRow
    BY <1>9 DEF Insert, TypeOK, Ready, KeyRow, Job
  <2>2. keys' \in Seq(KeyRow) /\ Len(keys) + 1 \in Nat \ {0}
    BY <1>9, <2>1, AppendKeepsRows DEF Insert, TypeOK
  <2>3. QED
    BY <1>9, <2>2 DEF Insert, Goto, process, TypeOK, Ready, Label
<1>10. ASSUME NEW w \in Worker, Refer(w)
       PROVE  TypeInv'
  BY <1>10 DEF Refer, Goto, process, TypeOK, Ready, Label, Job
<1>11. ASSUME NEW w \in Worker, Store(w)
       PROVE  TypeInv'
  <2>1. [owner |-> job[w].user, alg |-> job[w].alg, key |-> key[w]] \in Envelope
    BY <1>11 DEF Store, TypeOK, Ready, Job, Envelope
  <2>2. QED
    BY <1>11, <2>1 DEF Store, Done, Goto, process, TypeOK, Ready, Label
<1>12. ASSUME NEW w \in Worker, Verify(w)
       PROVE  TypeInv'
  <2>1. CASE Done(w) /\ UNCHANGED answer
    BY <1>12, <2>1, TypeDone DEF Verify, database, process, TypeOK
  <2>2. ASSUME NEW e \in sealed,
               reading' = [reading EXCEPT ![w] = e],
               Goto(w, "open"),
               answer' = [answer EXCEPT ![w] = "none"],
               UNCHANGED <<job, key, mk>>
        PROVE  TypeInv'
    BY <1>12, <2>2 DEF Verify, Goto, database, process, TypeOK, Ready, Label
  <2>3. QED
    BY <1>12, <2>1, <2>2 DEF Verify
<1>13. ASSUME NEW w \in Worker, Open(w)
       PROVE  TypeInv'
  <2>1. CASE Finish(w, "unreadable") \/ Finish(w, "plaintext")
    BY <1>13, <2>1, TypeFinish DEF Open, database, process, TypeOK
  <2>2. CASE Goto(w, "master") /\ UNCHANGED <<job, key, mk, reading, answer>>
    BY <1>13, <2>2 DEF Open, Goto, database, process, TypeOK, Ready, Label
  <2>3. QED
    BY <1>13, <2>1, <2>2 DEF Open
<1>14. ASSUME NEW w \in Worker, Unwrap(w)
       PROVE  TypeInv'
  <2>1. CASE Finish(w, "unreadable")
    BY <1>14, <2>1, TypeFinish DEF Unwrap, database, process, TypeOK
  <2>2. CASE Goto(w, "evict") /\ UNCHANGED <<job, key, mk, reading, answer>>
    BY <1>14, <2>2 DEF Unwrap, Goto, database, process, TypeOK, Ready, Label
  <2>3. QED
    BY <1>14, <2>1, <2>2 DEF Unwrap
<1>15. ASSUME NEW w \in Worker, Evict(w)
       PROVE  TypeInv'
  BY <1>15 DEF Evict, Goto, database, TypeOK, Ready, Label
<1>16. ASSUME NEW w \in Worker, Remember(w)
       PROVE  TypeInv'
  <2>1. cache' \subseteq Nat \ {0}
    <3>1. reading[w] \in Envelope
      BY <1>16 DEF Remember, Ready
    <3>2. reading[w].key \in Nat \ {0}
      BY <3>1 DEF Envelope
    <3>3. QED
      BY <1>16, <3>2 DEF Remember, TypeOK
  <2>2. QED
    BY <1>16, <2>1, TypeFinish DEF Remember
<1>17. CASE UNCHANGED vars
  BY <1>17 DEF vars, TypeOK, Ready
<1>18. QED
  BY <1>1, <1>2, <1>3, <1>4, <1>5, <1>6, <1>7, <1>8, <1>9, <1>10, <1>11,
     <1>12, <1>13, <1>14, <1>15, <1>16, <1>17 DEF Next, Step

LEMMA TypeInvariance == Spec => []TypeInv
<1>1. Init => TypeInv
  BY TypeInit
<1>2. TypeInv /\ [Next]_vars => TypeInv'
  BY TypeStep
<1>3. QED
  BY <1>1, <1>2, PTL DEF Spec

(* Every variable of the key management module keeps its type: in particular
   no private key is ever stored wrapped by a master key that was not loaded. *)
THEOREM Typing == Spec => []TypeOK
<1>1. TypeInv => TypeOK
  BY DEF TypeInv
<1>2. QED
  BY <1>1, TypeInvariance, PTL

-----------------------------------------------------------------------------
(***************************************************************************)
(* What is sealed stays readable.  The invariant says that every envelope, *)
(* stored or about to be, names a record of its owner and algorithm, and   *)
(* that a configured master key is the only one ever loaded or wrapped     *)
(* with, by whichever worker and after whichever restart.                  *)
(***************************************************************************)
Trusted(w) ==
  /\ configured /\ pc[w] \in {"insert", "unwrap"} => mk[w] = ConfiguredMaster
  /\ pc[w] \in {"refer", "store"} => key[w] \in Records(job[w].user, job[w].alg)
  /\ reading[w] # NoEnvelope => reading[w] \in sealed

KeyInv ==
  /\ configured => master \in {0, ConfiguredMaster}
  /\ configured => \A k \in DOMAIN keys : keys[k].wrap = ConfiguredMaster
  /\ \A e \in sealed : HasRecord(e)
  /\ \A w \in Worker : Trusted(w)

\* A step of the database that loses no row and rewrites no key.
RowsKept == /\ DOMAIN keys \subseteq DOMAIN keys'
            /\ \A k \in DOMAIN keys : /\ keys'[k].owner = keys[k].owner
                                      /\ keys'[k].alg = keys[k].alg
                                      /\ keys'[k].wrap = keys[k].wrap

(* Records found once are found for ever. *)
LEMMA RecordsKept ==
  ASSUME RowsKept, NEW u, NEW a
  PROVE  Records(u, a) \subseteq Records(u, a)'
BY DEF RowsKept, Records

LEMMA KeyInit == Init => KeyInv
BY DEF Init, KeyInv, Trusted, Records

(* A worker that is done holds nothing that must be true. *)
LEMMA KeyDone ==
  ASSUME TypeInv, KeyInv, NEW w \in Worker, Done(w),
         UNCHANGED <<configured, keys, sealed>>
  PROVE  \A v \in Worker : Trusted(v)'
<1> SUFFICES ASSUME NEW v \in Worker
             PROVE  Trusted(v)'
  OBVIOUS
<1>1. Trusted(v)
  BY DEF KeyInv
<1>2. CASE v = w
  BY <1>2 DEF Done, Goto, Trusted, TypeInv, TypeOK
<1>3. CASE v # w
  BY <1>1, <1>3 DEF Done, Goto, Trusted, TypeInv, TypeOK, Records
<1>4. QED
  BY <1>2, <1>3

LEMMA KeyStep ==
  ASSUME TypeInv, KeyInv, [Next]_vars
  PROVE  KeyInv'
<1> USE DEF TypeInv, KeyInv
<1>1. CASE Restart
  BY <1>1 DEF Restart, Trusted, HasRecord, Records
<1>2. ASSUME NEW w \in Worker, Begin(w)
      PROVE  KeyInv'
  BY <1>2 DEF Begin, Goto, database, process, TypeOK, Trusted, HasRecord, Records
<1>3. ASSUME NEW w \in Worker, Ask(w)
      PROVE  KeyInv'
  BY <1>3 DEF Ask, Goto, database, process, TypeOK, Trusted, HasRecord, Records
<1>4. ASSUME NEW w \in Worker, Lookup(w)
      PROVE  KeyInv'
  BY <1>4 DEF Lookup, Goto, Active, database, process, TypeOK, Trusted,
              HasRecord, Records
<1>5. ASSUME NEW w \in Worker, Retire(w)
      PROVE  KeyInv'
  <2>1. RowsKept /\ DOMAIN keys' = DOMAIN keys
    BY <1>5, RetireKeepsRows DEF Retire, TypeOK, RowsKept
  <2>2. \A u, a : Records(u, a) \subseteq Records(u, a)'
    BY <2>1, RecordsKept
  <2>3. \A e \in sealed' : HasRecord(e)'
    BY <1>5, <2>2 DEF Retire, HasRecord
  <2>4. \A v \in Worker : Trusted(v)'
    BY <1>5, <2>2 DEF Retire, Goto, TypeOK, Trusted
  <2>5. configured' => \A k \in DOMAIN keys' : keys'[k].wrap = ConfiguredMaster
    BY <1>5, <2>1 DEF Retire, RowsKept
  <2>6. QED
    BY <1>5, <2>3, <2>4, <2>5 DEF Retire, process
<1>6. ASSUME NEW w \in Worker, FindMaster(w)
      PROVE  KeyInv'
  BY <1>6 DEF FindMaster, AfterMaster, Goto, database, process, TypeOK,
              Trusted, HasRecord, Records
<1>7. ASSUME NEW w \in Worker, MintMaster(w)
      PROVE  KeyInv'
  BY <1>7 DEF MintMaster, Goto, TypeOK, Trusted, HasRecord, Records
<1>8. ASSUME NEW w \in Worker, ReloadMaster(w)
      PROVE  KeyInv'
  BY <1>8 DEF ReloadMaster, AfterMaster, Goto, database, process, TypeOK,
              Ready, Trusted, HasRecord, Records
<1>9. ASSUME NEW w \in Worker, Insert(w)
      PROVE  KeyInv'
  <2> DEFINE r == [owner |-> job[w].user, alg |-> job[w].alg,
                   active |-> TRUE, wrap |-> mk[w]]
             n == Len(keys) + 1
  <2>1. r \in KeyRow
    BY <1>9 DEF Insert, TypeOK, Ready, KeyRow, Job
  <2>2. /\ DOMAIN keys' = DOMAIN keys \cup {n}
        /\ \A k \in DOMAIN keys : keys'[k] = keys[k]
        /\ keys'[n] = r
    BY <1>9, <2>1, AppendKeepsRows DEF Insert, TypeOK
  <2>3. \A u, a : Records(u, a) \subseteq Records(u, a)'
    BY <2>2, RecordsKept DEF RowsKept
  <2>4. \A e \in sealed' : HasRecord(e)'
    BY <1>9, <2>3 DEF Insert, HasRecord
  <2>5. n \in Records(job[w].user, job[w].alg)'
    BY <1>9, <2>2 DEF Insert, Records
  <2>6. \A v \in Worker : Trusted(v)'
    BY <1>9, <2>3, <2>5 DEF Insert, Goto, TypeOK, Trusted
  <2>7. configured' => \A k \in DOMAIN keys' : keys'[k].wrap = ConfiguredMaster
    BY <1>9, <2>2 DEF Insert, Trusted
  <2>8. QED
    BY <1>9, <2>4, <2>6, <2>7 DEF Insert, process
<1>10. ASSUME NEW w \in Worker, Refer(w)
       PROVE  KeyInv'
  BY <1>10 DEF Refer, Goto, process, TypeOK, Trusted, HasRecord, Records
<1>11. ASSUME NEW w \in Worker, Store(w)
       PROVE  KeyInv'
  <2>1. PICK e : e = [owner |-> job[w].user, alg |-> job[w].alg, key |-> key[w]]
    OBVIOUS
  <2>2. HasRecord(e) /\ \A f \in sealed : HasRecord(f)
    BY <1>11, <2>1 DEF Store, HasRecord, Trusted
  <2>3. sealed' = sealed \cup {e}
    BY <1>11, <2>1 DEF Store
  <2>4. \A v \in Worker : Trusted(v)'
    BY <1>11, <2>3 DEF Store, Done, Goto, TypeOK, Trusted, Records
  <2>5. \A f \in sealed' : HasRecord(f)'
    BY <1>11, <2>2, <2>3 DEF Store, HasRecord, Records
  <2>6. QED
    BY <1>11, <2>4, <2>5 DEF Store, process
<1>12. ASSUME NEW w \in Worker, Verify(w)
       PROVE  KeyInv'
  <2>1. UNCHANGED <<configured, keys, sealed, master>>
    BY <1>12 DEF Verify, database, process
  <2>2. \A e \in sealed' : HasRecord(e)'
    BY <2>1 DEF HasRecord, Records
  <2>3. CASE Done(w)
    BY <2>1, <2>2, <2>3, KeyDone
  <2>4. ASSUME NEW e \in sealed, reading' = [reading EXCEPT ![w] = e],
               Goto(w, "open"), UNCHANGED <<job, key, mk>>
        PROVE  KeyInv'
    BY <2>1, <2>2, <2>4 DEF Goto, TypeOK, Trusted, Records
  <2>5. QED
    BY <1>12, <2>3, <2>4 DEF Verify
<1>13. ASSUME NEW w \in Worker, Open(w)
       PROVE  KeyInv'
  <2>1. UNCHANGED <<configured, keys, sealed, master>>
    BY <1>13 DEF Open, database, process
  <2>2. \A e \in sealed' : HasRecord(e)'
    BY <2>1 DEF HasRecord, Records
  <2>3. CASE Done(w)
    BY <2>1, <2>2, <2>3, KeyDone
  <2>4. CASE Goto(w, "master") /\ UNCHANGED <<job, key, mk, reading>>
    BY <2>1, <2>2, <2>4 DEF Goto, TypeOK, Trusted, Records
  <2>5. QED
    BY <1>13, <2>3, <2>4 DEF Open, Finish
<1>14. ASSUME NEW w \in Worker, Unwrap(w)
       PROVE  KeyInv'
  <2>1. UNCHANGED <<configured, keys, sealed, master>>
    BY <1>14 DEF Unwrap, database, process
  <2>2. \A e \in sealed' : HasRecord(e)'
    BY <2>1 DEF HasRecord, Records
  <2>3. CASE Done(w)
    BY <2>1, <2>2, <2>3, KeyDone
  <2>4. CASE Goto(w, "evict") /\ UNCHANGED <<job, key, mk, reading>>
    BY <2>1, <2>2, <2>4 DEF Goto, TypeOK, Trusted, Records
  <2>5. QED
    BY <1>14, <2>3, <2>4 DEF Unwrap, Finish
<1>15. ASSUME NEW w \in Worker, Evict(w)
       PROVE  KeyInv'
  BY <1>15 DEF Evict, Goto, database, TypeOK, Trusted, HasRecord, Records
<1>16. ASSUME NEW w \in Worker, Remember(w)
       PROVE  KeyInv'
  <2>1. UNCHANGED <<configured, keys, sealed, master>>
    BY <1>16 DEF Remember, database
  <2>2. \A e \in sealed' : HasRecord(e)'
    BY <2>1 DEF HasRecord, Records
  <2>3. QED
    BY <1>16, <2>1, <2>2, KeyDone DEF Remember, Finish
<1>17. CASE UNCHANGED vars
  BY <1>17 DEF vars, Trusted, HasRecord, Records
<1>18. QED
  BY <1>1, <1>2, <1>3, <1>4, <1>5, <1>6, <1>7, <1>8, <1>9, <1>10, <1>11,
     <1>12, <1>13, <1>14, <1>15, <1>16, <1>17 DEF Next, Step

LEMMA KeyInvariance == Spec => []KeyInv
<1>1. Init => KeyInv
  BY KeyInit
<1>2. TypeInv /\ KeyInv /\ [Next]_vars => KeyInv'
  BY KeyStep
<1>3. QED
  BY <1>1, <1>2, TypeInvariance, PTL DEF Spec

(* With KMM_MASTER_KEY set, every envelope ever stored can still be opened:
   for any number of users, workers, rotations and restarts. *)
THEOREM Readable == Spec => []SealedStaysReadable
<1>1. KeyInv => SealedStaysReadable
  BY DEF KeyInv, SealedStaysReadable, Openable, HasRecord, Records
<1>2. QED
  BY <1>1, KeyInvariance, PTL

-----------------------------------------------------------------------------
(***************************************************************************)
(* The refinement: with a configured master key every step is a step of    *)
(* SealedStore or changes nothing it can see.                              *)
(***************************************************************************)

\* Who is opening an envelope: nobody while a key is looked up or stored.
Opening(w) ==
  pc[w] \in {"idle", "lookup", "retire", "insert", "refer", "store", "verify"}
    => reading[w] = NoEnvelope

OpenInv == \A w \in Worker : Opening(w)

LEMMA OpenStep ==
  ASSUME TypeInv, OpenInv, [Next]_vars
  PROVE  OpenInv'
<1> USE DEF TypeInv, OpenInv
<1>1. CASE Restart
  BY <1>1 DEF Restart, Opening
<1>2. ASSUME NEW w \in Worker, Begin(w) \/ Lookup(w) \/ Retire(w)
                                \/ Refer(w) \/ Evict(w) \/ Insert(w)
      PROVE  OpenInv'
  BY <1>2 DEF Begin, Lookup, Retire, Insert, Refer, Evict, Goto, TypeOK, Opening
<1>3. ASSUME NEW w \in Worker, Ask(w)
      PROVE  OpenInv'
  BY <1>3 DEF Ask, Goto, TypeOK, Opening
<1>4. ASSUME NEW w \in Worker, FindMaster(w) \/ MintMaster(w) \/ ReloadMaster(w)
      PROVE  OpenInv'
  BY <1>4 DEF FindMaster, MintMaster, ReloadMaster, AfterMaster, Goto, TypeOK,
              Opening
<1>5. ASSUME NEW w \in Worker, Done(w)
      PROVE  OpenInv'
  BY <1>5 DEF Done, Goto, TypeOK, Opening
<1>6. ASSUME NEW w \in Worker, Store(w) \/ Remember(w)
      PROVE  OpenInv'
  BY <1>5, <1>6 DEF Store, Remember, Finish
<1>7. ASSUME NEW w \in Worker, Verify(w) \/ Open(w) \/ Unwrap(w)
      PROVE  OpenInv'
  <2>1. ASSUME NEW e \in sealed, reading' = [reading EXCEPT ![w] = e],
               Goto(w, "open")
        PROVE  OpenInv'
    BY <2>1 DEF Goto, TypeOK, Opening
  <2>2. CASE (Goto(w, "master") \/ Goto(w, "evict")) /\ UNCHANGED reading
    BY <2>2 DEF Goto, TypeOK, Opening
  <2>3. QED
    BY <1>5, <1>7, <2>1, <2>2 DEF Verify, Open, Unwrap, Finish
<1>8. CASE UNCHANGED vars
  BY <1>8 DEF vars, Opening
<1>9. QED
  BY <1>1, <1>2, <1>3, <1>4, <1>6, <1>7, <1>8 DEF Next, Step

LEMMA OpenInvariance == Spec => []OpenInv
<1>1. Init => OpenInv
  BY DEF Init, OpenInv, Opening
<1>2. TypeInv /\ OpenInv /\ [Next]_vars => OpenInv'
  BY OpenStep
<1>3. QED
  BY <1>1, <1>2, TypeInvariance, PTL DEF Spec

LEMMA PromiseInit == Init => Promise!Init
BY DEF Init, Promise!Init

(* An answer of the code is the abstract answer. *)
LEMMA PromiseAnswer ==
  ASSUME TypeInv, NEW w \in Worker, configured, UNCHANGED <<configured, sealed>>,
         reading[w] \in Envelope, Finish(w, "plaintext")
  PROVE  Promise!Answer(w)
BY NoEnvelopeAssumption DEF TypeInv, TypeOK, Finish, Done, Promise!Answer

(* Without a configured master key nothing is promised. *)
LEMMA ConfiguredForGood == [Next]_vars => UNCHANGED configured
BY DEF Next, Step, vars, database, Restart, Begin, Ask, Lookup, Retire, Insert,
       Refer, Store, FindMaster, MintMaster, ReloadMaster, Verify, Open,
       Unwrap, Evict, Remember

LEMMA PromiseStep ==
  ASSUME TypeInv, KeyInv, OpenInv, [Next]_vars, configured
  PROVE  [Promise!Next]_(Promise!vars)
<1> USE DEF TypeInv, KeyInv, OpenInv
<1>0. UNCHANGED configured
  BY ConfiguredForGood
<1>1. CASE Restart
  <2>1. Promise!Restart
    BY <1>0, <1>1 DEF Restart, Promise!Restart
  <2>2. QED
    BY <2>1 DEF Promise!Next
<1>2. ASSUME NEW w \in Worker,
             Begin(w) \/ Lookup(w) \/ Retire(w) \/ Insert(w) \/ Refer(w)
               \/ FindMaster(w) \/ MintMaster(w) \/ ReloadMaster(w) \/ Evict(w)
      PROVE  UNCHANGED Promise!vars
  BY <1>0, <1>2 DEF Begin, Lookup, Retire, Insert, Refer, FindMaster, MintMaster,
              ReloadMaster, Evict, database, process, Promise!vars
<1>3. ASSUME NEW w \in Worker, NEW e \in sealed, reading[w] = NoEnvelope,
             reading' = [reading EXCEPT ![w] = e],
             answer' = [answer EXCEPT ![w] = "none"], UNCHANGED sealed
      PROVE  Promise!Next
  <2>1. Promise!Ask(w)
    BY <1>0, <1>3 DEF Promise!Ask
  <2>2. QED
    BY <2>1 DEF Promise!Next
<1>4. ASSUME NEW w \in Worker, Ask(w)
      PROVE  Promise!Next
  BY <1>3, <1>4 DEF Ask, database, Opening
<1>5. ASSUME NEW w \in Worker, Store(w)
      PROVE  Promise!Next
  <2>1. PICK e : e = [owner |-> job[w].user, alg |-> job[w].alg, key |-> key[w]]
    OBVIOUS
  <2>2. e \in Envelope
    BY <1>5, <2>1 DEF Store, TypeOK, Ready, Job, Envelope
  <2>3. sealed' = sealed \cup {e} /\ UNCHANGED answer
    BY <1>5, <2>1 DEF Store
  <2>4. UNCHANGED reading
    BY <1>5 DEF Store, Done, Opening, TypeOK
  <2>5. Promise!Seal
    BY <1>0, <2>2, <2>3, <2>4 DEF Promise!Seal
  <2>6. QED
    BY <2>5 DEF Promise!Next
<1>6. ASSUME NEW w \in Worker, Finish(w, "plaintext"), reading[w] \in Envelope,
             UNCHANGED sealed
      PROVE  Promise!Next
  BY <1>0, <1>6, PromiseAnswer DEF Promise!Next
<1>7. ASSUME NEW w \in Worker, Verify(w)
      PROVE  [Promise!Next]_(Promise!vars)
  <2>1. CASE Done(w) /\ UNCHANGED answer
    <3>1. UNCHANGED <<sealed, answer, reading>>
      BY <1>7, <2>1 DEF Verify, database, Done, Opening, TypeOK
    <3>2. QED
      BY <1>0, <3>1 DEF Promise!vars
  <2>2. ASSUME NEW e \in sealed, reading' = [reading EXCEPT ![w] = e],
               answer' = [answer EXCEPT ![w] = "none"]
        PROVE  Promise!Next
    BY <1>3, <1>7, <2>2 DEF Verify, database, Opening
  <2>3. QED
    BY <1>7, <2>1, <2>2 DEF Verify
<1>8. ASSUME NEW w \in Worker, Open(w)
      PROVE  [Promise!Next]_(Promise!vars)
  <2>1. reading[w] \in Envelope /\ reading[w] \in sealed
    BY <1>8, NoEnvelopeAssumption DEF Open, Ready, Trusted
  <2>2. HasRecord(reading[w])
    BY <2>1
  <2>3. UNCHANGED sealed
    BY <1>8 DEF Open, database
  <2>4. CASE Finish(w, "plaintext")
    BY <1>6, <2>1, <2>3, <2>4
  <2>5. CASE UNCHANGED <<reading, answer>>
    BY <1>0, <2>3, <2>5 DEF Promise!vars
  <2>6. QED
    BY <1>8, <2>2, <2>4, <2>5 DEF Open
<1>9. ASSUME NEW w \in Worker, Unwrap(w)
      PROVE  [Promise!Next]_(Promise!vars)
  <2>1. reading[w] \in Envelope /\ reading[w] \in sealed
    BY <1>9, NoEnvelopeAssumption DEF Unwrap, Ready, Trusted
  <2>2. reading[w].key \in DOMAIN keys
    BY <2>1 DEF HasRecord, Records
  <2>3. mk[w] = keys[reading[w].key].wrap
    BY <1>9, <2>2 DEF Unwrap, Trusted
  <2>4. UNCHANGED <<sealed, reading, answer>>
    BY <1>9, <2>3 DEF Unwrap, database
  <2>5. QED
    BY <1>0, <2>4 DEF Promise!vars
<1>10. ASSUME NEW w \in Worker, Remember(w)
       PROVE  Promise!Next
  <2>1. reading[w] \in Envelope
    BY <1>10 DEF Remember, Ready
  <2>2. QED
    BY <1>6, <1>10, <2>1 DEF Remember, database
<1>11. CASE UNCHANGED vars
  BY <1>11 DEF vars, Promise!vars
<1>12. QED
  BY <1>1, <1>2, <1>4, <1>5, <1>7, <1>8, <1>9, <1>10, <1>11 DEF Next, Step

(* The key management module keeps the promise of SealedStore, for any number
   of users and workers: whoever asks for a stored envelope and is answered
   gets its plaintext. *)
THEOREM Implementation == Spec => StorePromise
<1>1. Init => Promise!Init
  BY PromiseInit
<1>2. TypeInv /\ KeyInv /\ OpenInv /\ [Next]_vars
        => [Promise!Next]_(Promise!vars)
  <2>1. CASE configured
    BY <2>1, PromiseStep
  <2>2. CASE ~configured
    BY <2>2, ConfiguredForGood DEF Promise!vars
  <2>3. QED
    BY <2>1, <2>2
<1>3. QED
  BY <1>1, <1>2, TypeInvariance, KeyInvariance, OpenInvariance, PTL
     DEF Spec, StorePromise, Promise!Spec

-----------------------------------------------------------------------------
(***************************************************************************)
(* Some key is active, on its way, or known to be torn.                    *)
(***************************************************************************)
Usable(u, a) == Records(u, a) # {} => \/ Active(u, a) # {}
                                     \/ Replacing(u, a) # {}
                                     \/ <<u, a>> \in torn

(* A step that touches neither the table nor a worker between its UPDATE and
   its INSERT cannot take the last key away. *)
LEMMA UsableKept ==
  ASSUME NEW u, NEW a, Usable(u, a), UNCHANGED <<keys, torn>>,
         Replacing(u, a) \subseteq Replacing(u, a)'
  PROVE  Usable(u, a)'
BY DEF Usable, Records, Active

LEMMA UsableStep ==
  ASSUME TypeInv, OpenInv, KeyAlwaysUsable, [Next]_vars
  PROVE  KeyAlwaysUsable'
<1> SUFFICES ASSUME NEW u \in User, NEW a \in Alg
             PROVE  Usable(u, a)'
  BY DEF KeyAlwaysUsable, Usable
<1> USE DEF TypeInv, OpenInv
<1>0. Usable(u, a)
  BY DEF KeyAlwaysUsable, Usable
<1>1. CASE Restart
  BY <1>0, <1>1 DEF Restart, Usable, Records, Active
<1>2. ASSUME NEW w \in Worker,
             Begin(w) \/ Ask(w) \/ Lookup(w) \/ FindMaster(w) \/ MintMaster(w)
               \/ ReloadMaster(w) \/ Refer(w) \/ Evict(w)
      PROVE  Usable(u, a)'
  <2>1. UNCHANGED <<keys, torn>>
    BY <1>2 DEF Begin, Ask, Lookup, FindMaster, MintMaster, ReloadMaster,
                Refer, Evict, database
  <2>2. Replacing(u, a) \subseteq Replacing(u, a)'
    BY <1>2 DEF Begin, Ask, Lookup, FindMaster, MintMaster, ReloadMaster, Refer,
                Evict, AfterMaster, Goto, Replacing, Opening, TypeOK
  <2>3. QED
    BY <1>0, <2>1, <2>2, UsableKept
<1>3. ASSUME NEW w \in Worker, Retire(w)
      PROVE  Usable(u, a)'
  <2>1. CASE job[w].user = u /\ job[w].alg = a
    <3>1. w \in Replacing(u, a)'
      BY <1>3, <2>1 DEF Retire, Goto, Opening, Replacing, TypeOK
    <3>2. QED
      BY <3>1 DEF Usable
  <2>2. CASE ~(job[w].user = u /\ job[w].alg = a)
    <3>1. Records(u, a)' = Records(u, a) /\ Active(u, a)' = Active(u, a)
      BY <1>3, <2>2 DEF Retire, RetireAll, Records, Active, TypeOK, KeyRow
    <3>2. Replacing(u, a) \subseteq Replacing(u, a)' /\ UNCHANGED torn
      BY <1>3 DEF Retire, Goto, Replacing, TypeOK
    <3>3. QED
      BY <1>0, <3>1, <3>2 DEF Usable
  <2>3. QED
    BY <2>1, <2>2
<1>4. ASSUME NEW w \in Worker, Insert(w)
      PROVE  Usable(u, a)'
  <2> DEFINE r == [owner |-> job[w].user, alg |-> job[w].alg,
                   active |-> TRUE, wrap |-> mk[w]]
             n == Len(keys) + 1
  <2>1. r \in KeyRow
    BY <1>4 DEF Insert, TypeOK, Ready, KeyRow, Job
  <2>2. /\ DOMAIN keys' = DOMAIN keys \cup {n}
        /\ \A k \in DOMAIN keys : keys'[k] = keys[k]
        /\ keys'[n] = r
    BY <1>4, <2>1, AppendKeepsRows DEF Insert, TypeOK
  <2>3. CASE job[w].user = u /\ job[w].alg = a
    <3>1. n \in Active(u, a)'
      BY <2>2, <2>3 DEF Active, Records
    <3>2. QED
      BY <3>1 DEF Usable
  <2>4. CASE ~(job[w].user = u /\ job[w].alg = a)
    <3>1. Active(u, a) \subseteq Active(u, a)'
      BY <2>2 DEF Active, Records
    <3>2. Records(u, a)' \subseteq Records(u, a)
      BY <2>2, <2>4 DEF Records
    <3>3. Replacing(u, a) \subseteq Replacing(u, a)'
      BY <1>4, <2>4 DEF Insert, Goto, Replacing, TypeOK
    <3>4. <<u, a>> \in torn => <<u, a>> \in torn'
      BY <1>4, <2>4 DEF Insert
    <3>5. QED
      BY <1>0, <3>1, <3>2, <3>3, <3>4 DEF Usable
  <2>5. QED
    BY <2>3, <2>4
<1>5. ASSUME NEW w \in Worker, Done(w), UNCHANGED <<keys, torn>>,
             pc[w] \notin {"master", "mint", "reload", "insert"}
      PROVE  Usable(u, a)'
  <2>1. Replacing(u, a) \subseteq Replacing(u, a)'
    BY <1>5 DEF Done, Goto, Replacing, TypeOK
  <2>2. QED
    BY <1>0, <1>5, <2>1, UsableKept
<1>6. ASSUME NEW w \in Worker, Goto(w, "open") \/ Goto(w, "evict")
                                \/ Goto(w, "master"),
             pc[w] \in {"verify", "open", "unwrap"},
             UNCHANGED <<keys, torn, job>>,
             UNCHANGED reading \/ \E e : reading' = [reading EXCEPT ![w] = e]
      PROVE  Usable(u, a)'
  <2>1. Replacing(u, a) \subseteq Replacing(u, a)'
    BY <1>6 DEF Goto, Replacing, TypeOK
  <2>2. QED
    BY <1>0, <1>6, <2>1, UsableKept
<1>7. ASSUME NEW w \in Worker, Store(w) \/ Remember(w)
      PROVE  Usable(u, a)'
  BY <1>5, <1>7 DEF Store, Remember, Finish, database
<1>8. ASSUME NEW w \in Worker, Verify(w) \/ Open(w) \/ Unwrap(w)
      PROVE  Usable(u, a)'
  BY <1>5, <1>6, <1>8 DEF Verify, Open, Unwrap, Finish, database
<1>9. CASE UNCHANGED vars
  BY <1>0, <1>9 DEF vars, Usable, Records, Active, Replacing
<1>10. QED
  BY <1>1, <1>2, <1>3, <1>4, <1>7, <1>8, <1>9 DEF Next, Step

(* No interleaving of generators, and no restart, leaves a user who ever had
   a key of an algorithm without one, unless the server stopped just between
   the UPDATE and the INSERT of a generator. *)
THEOREM Usability == Spec => []KeyAlwaysUsable
<1>1. Init => KeyAlwaysUsable
  BY DEF Init, KeyAlwaysUsable, Records
<1>2. TypeInv /\ OpenInv /\ KeyAlwaysUsable /\ [Next]_vars => KeyAlwaysUsable'
  BY UsableStep
<1>3. QED
  BY <1>1, <1>2, TypeInvariance, OpenInvariance, PTL DEF Spec

-----------------------------------------------------------------------------
(***************************************************************************)
(* The cache.  It grows by one for each thread that has passed the check:  *)
(* there is room for all of those above a cache that is not yet full.      *)
(***************************************************************************)
Adding == {w \in Worker : pc[w] = "remember"}

CacheInv == /\ IsFiniteSet(cache)
            /\ Cardinality(cache) + Cardinality(Adding)
                 < CacheLimit + Cardinality(Worker)

\* Sizes of the sets of threads.
LEMMA Threads ==
  ASSUME NEW S \in SUBSET Worker
  PROVE  /\ IsFiniteSet(S)
         /\ Cardinality(S) \in Nat
         /\ Cardinality(Worker) \in Nat
         /\ Cardinality(S) <= Cardinality(Worker)
BY FS_Subset, FS_CardinalityType, WorkerAssumption

LEMMA EmptyCache ==
  ASSUME cache = {}
  PROVE  CacheInv
<1>1. Adding \subseteq Worker
  BY DEF Adding
<1>2. QED
  BY <1>1, Threads, FS_EmptySet, CacheLimitAssumption DEF CacheInv

(* A step that adds nothing to the cache, and nobody to those who will. *)
LEMMA CacheShrinks ==
  ASSUME CacheInv, UNCHANGED cache, Adding' \subseteq Adding
  PROVE  CacheInv'
<1>1. Adding \subseteq Worker /\ Adding' \subseteq Worker
  BY DEF Adding
<1>2. /\ Cardinality(Adding') <= Cardinality(Adding)
      /\ Cardinality(Adding') \in Nat /\ Cardinality(Adding) \in Nat
  BY <1>1, Threads, FS_Subset
<1>3. Cardinality(cache) \in Nat
  BY FS_CardinalityType DEF CacheInv
<1>4. QED
  BY <1>1, <1>2, <1>3, Threads, CacheLimitAssumption DEF CacheInv

LEMMA CacheStep ==
  ASSUME TypeInv, CacheInv, [Next]_vars
  PROVE  CacheInv'
<1>1. CASE cache' = {}
  <2>1. PICK S \in SUBSET Worker : S = Adding'
    BY DEF Adding
  <2>2. IsFiniteSet(cache') /\ Cardinality(cache') = 0
    BY <1>1, FS_EmptySet
  <2>3. /\ Cardinality(Adding') <= Cardinality(Worker)
        /\ Cardinality(Adding') \in Nat /\ Cardinality(Worker) \in Nat
    BY <2>1, Threads
  <2>4. QED
    BY <2>2, <2>3, CacheLimitAssumption DEF CacheInv
<1>2. ASSUME NEW w \in Worker, Evict(w)
      PROVE  CacheInv'
  <2>1. CASE Cardinality(cache) >= CacheLimit
    BY <1>1, <1>2, <2>1 DEF Evict
  <2>2. CASE ~(Cardinality(cache) >= CacheLimit)
    <3>1. UNCHANGED cache /\ Cardinality(cache) \in Nat
      BY <1>2, <2>2, FS_CardinalityType DEF Evict, CacheInv
    <3>2. Adding' \subseteq Worker
      BY DEF Adding
    <3>3. Cardinality(Adding') \in Nat
          /\ Cardinality(Adding') <= Cardinality(Worker)
          /\ Cardinality(Worker) \in Nat
      BY <3>2, Threads
    <3>4. Cardinality(cache) < CacheLimit
      BY <2>2, <3>1, CacheLimitAssumption
    <3>5. QED
      BY <3>1, <3>3, <3>4, CacheLimitAssumption DEF CacheInv
  <2>3. QED
    BY <2>1, <2>2
<1>3. ASSUME NEW w \in Worker, Remember(w)
      PROVE  CacheInv'
  <2>1. /\ cache' = cache \cup {reading[w].key}
        /\ w \in Adding
        /\ pc' = [pc EXCEPT ![w] = "idle"]
    BY <1>3 DEF Remember, Finish, Done, Goto, Adding
  <2>2. Adding' = Adding \ {w}
    BY <2>1 DEF Adding, TypeInv, TypeOK
  <2>3. Adding \subseteq Worker
    BY DEF Adding
  <2>4. IsFiniteSet(Adding) /\ Cardinality(Adding) \in Nat
    BY <2>3, Threads
  <2>5. /\ Cardinality(Adding') = Cardinality(Adding) - 1
        /\ Cardinality(Adding') \in Nat
    BY <2>1, <2>2, <2>4, FS_RemoveElement, FS_CardinalityType
  <2>6. /\ IsFiniteSet(cache')
        /\ Cardinality(cache') <= Cardinality(cache) + 1
        /\ Cardinality(cache) \in Nat /\ Cardinality(cache') \in Nat
    <3>1. PICK k : k = reading[w].key
      OBVIOUS
    <3>2. IsFiniteSet(cache) /\ Cardinality(cache) \in Nat
      BY FS_CardinalityType DEF CacheInv
    <3>3. /\ IsFiniteSet(cache \cup {k})
          /\ Cardinality(cache \cup {k}) \in {Cardinality(cache),
                                             Cardinality(cache) + 1}
      BY <3>2, FS_AddElement
    <3>4. cache' = cache \cup {k}
      BY <2>1, <3>1
    <3>5. QED
      BY <3>2, <3>3, <3>4
  <2>7. Cardinality(Worker) \in Nat
    BY <2>3, Threads
  <2>8. QED
    BY <2>4, <2>5, <2>6, <2>7, CacheLimitAssumption DEF CacheInv
<1>4. ASSUME NEW w \in Worker, NEW l \in Label \ {"remember"},
             pc' = [pc EXCEPT ![w] = l], UNCHANGED cache
      PROVE  CacheInv'
  <2>1. Adding' \subseteq Adding
    BY <1>4 DEF Adding, TypeInv, TypeOK
  <2>2. QED
    BY <1>4, <2>1, CacheShrinks
<1>5. ASSUME NEW w \in Worker, Begin(w) \/ Ask(w) \/ Lookup(w) \/ Retire(w)
      PROVE  CacheInv'
  BY <1>4, <1>5 DEF Begin, Ask, Lookup, Retire, Goto, process, Label
<1>6. ASSUME NEW w \in Worker, FindMaster(w) \/ MintMaster(w) \/ ReloadMaster(w)
      PROVE  CacheInv'
  BY <1>4, <1>6
     DEF FindMaster, MintMaster, ReloadMaster, AfterMaster, Goto, process, Label
<1>7. ASSUME NEW w \in Worker, Insert(w) \/ Refer(w) \/ Store(w)
      PROVE  CacheInv'
  BY <1>4, <1>7 DEF Insert, Refer, Store, Done, Goto, process, Label
<1>8. ASSUME NEW w \in Worker, Verify(w) \/ Open(w) \/ Unwrap(w)
      PROVE  CacheInv'
  BY <1>4, <1>8
     DEF Verify, Open, Unwrap, Finish, Done, Goto, process, database, Label
<1>9. CASE UNCHANGED vars
  BY <1>9, CacheShrinks DEF vars, process, Adding
<1>10. CASE Restart
  BY <1>1, <1>10 DEF Restart
<1>11. QED
  BY <1>2, <1>3, <1>5, <1>6, <1>7, <1>8, <1>9, <1>10 DEF Next, Step

(* The check before the add of get_private_key is not atomic, and yet the
   cache of unwrapped keys never holds more than its limit and one for each
   thread but one (kmm.py, lines 105 to 107). *)
THEOREM Bounded == Spec => []CacheBounded
<1>1. Init => CacheInv
  BY EmptyCache DEF Init
<1>2. TypeInv /\ CacheInv /\ [Next]_vars => CacheInv'
  BY CacheStep
<1>3. CacheInv => CacheBounded
  <2> SUFFICES ASSUME CacheInv PROVE CacheBounded
    OBVIOUS
  <2>1. Adding \subseteq Worker
    BY DEF Adding
  <2>2. QED
    BY <2>1, Threads, FS_CardinalityType, CacheLimitAssumption
       DEF CacheInv, CacheBounded
<1>4. QED
  BY <1>1, <1>2, <1>3, TypeInvariance, PTL DEF Spec
=============================================================================
