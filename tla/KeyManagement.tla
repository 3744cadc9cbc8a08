--------------------------- MODULE KeyManagement ---------------------------
(***************************************************************************)
(* The key management module of SecureShare and the envelopes that the     *)
(* encryption service seals with its keys.                                 *)
(*                                                                         *)
(* Sources: crypto_core/key_management/kmm.py (generation, rotation, the   *)
(* cache of unwrapped private keys), crypto_core/key_management/           *)
(* master_key.py (the lazily loaded master key pair), crypto_core/         *)
(* encryption_service.py (which key seals, which key opens) and            *)
(* moderation/portal_views.py (rotation and its check of older data).      *)
(*                                                                         *)
(* Every ORM statement commits on its own and the server is threaded, so a *)
(* worker is interrupted between any two of its statements.  The database  *)
(* (keys, sealed, ref) survives a restart; the process's globals (master,  *)
(* cache) and the requests in progress do not.                             *)
(***************************************************************************)
EXTENDS Naturals, Sequences, FiniteSets

CONSTANTS User,
          Alg,          \* KeyRecord.Algorithm: rsa, ecc
          Worker,       \* threads of the server
          NoJob,        \* a worker with no request
          NoEnvelope,   \* a worker that is opening nothing
          CacheLimit,   \* 256 in kmm.py
          MaxKeys,      \* bound: rows of KeyRecord
          MaxMasters    \* bound: master keys ever minted

Job == [op : {"seal", "rotate", "read"}, user : User, alg : Alg]
Envelope == [owner : User, alg : Alg, key : Nat \ {0}]

ASSUME NoJobAssumption == NoJob \notin Job
ASSUME NoEnvelopeAssumption == NoEnvelope \notin Envelope
ASSUME WorkerAssumption == IsFiniteSet(Worker)
ASSUME CacheLimitAssumption == CacheLimit \in Nat \ {0}

VARIABLES
  configured,  \* KMM_MASTER_KEY is set in the environment (it never changes)
  master,      \* _cached_keypair: the master key in use, 0 before it is loaded
  minted,      \* how many master keys exist; a configured one is number 1
  keys,        \* the KeyRecord table, in primary key order
  cache,       \* _unwrapped_private_keys: the keys it holds
  ref,         \* Profile.public_key_reference, 0 when empty
  sealed,      \* envelopes in the database: contact info, posts, messages
  torn,        \* history: keys retired by a request the server then dropped
  pc, job, key, mk, reading, answer   \* the workers

database == <<configured, minted, keys, ref, sealed, torn>>
process == <<master, cache>>
vars == <<configured, master, minted, keys, cache, ref, sealed, torn,
          pc, job, key, mk, reading, answer>>

KeyRow == [owner : User, alg : Alg, active : BOOLEAN, wrap : Nat \ {0}]
ConfiguredMaster == 1

Records(u, a) == {k \in DOMAIN keys : keys[k].owner = u /\ keys[k].alg = a}
Active(u, a) == {k \in Records(u, a) : keys[k].active}

\* Workers that retired the active key of (u, a) and have yet to insert the next.
Replacing(u, a) ==
  {w \in Worker : /\ pc[w] \in {"master", "mint", "reload", "insert"}
                  /\ reading[w] = NoEnvelope
                  /\ job[w].user = u /\ job[w].alg = a}

\* Bound: a worker starts a key only when there is room for those under way.
Room == Len(keys)
          + Cardinality({w \in Worker :
                           pc[w] \in {"master", "mint", "reload", "insert"}
                             /\ reading[w] = NoEnvelope}) < MaxKeys

Init == /\ configured \in BOOLEAN
        /\ master = 0
        /\ minted = IF configured THEN ConfiguredMaster ELSE 0
        /\ keys = <<>>
        /\ cache = {}
        /\ ref = [u \in User |-> 0]
        /\ sealed = {}
        /\ torn = {}
        /\ pc = [w \in Worker |-> "idle"]
        /\ job = [w \in Worker |-> NoJob]
        /\ key = [w \in Worker |-> 0]
        /\ mk = [w \in Worker |-> 0]
        /\ reading = [w \in Worker |-> NoEnvelope]
        /\ answer = [w \in Worker |-> "none"]

Goto(w, label) == pc' = [pc EXCEPT ![w] = label]

\* The request is over; the worker keeps only the answer it gave.
Done(w) == /\ Goto(w, "idle")
           /\ job' = [job EXCEPT ![w] = NoJob]
           /\ key' = [key EXCEPT ![w] = 0]
           /\ mk' = [mk EXCEPT ![w] = 0]
           /\ reading' = [reading EXCEPT ![w] = NoEnvelope]

(***************************************************************************)
(* Sealing: EncryptionService.encrypt_* and generate_key_for_user.         *)
(***************************************************************************)
Begin(w) ==
  /\ pc[w] = "idle"
  /\ \E op \in {"seal", "rotate"}, u \in User, a \in Alg :
       /\ job' = [job EXCEPT ![w] = [op |-> op, user |-> u, alg |-> a]]
       /\ Goto(w, IF op = "seal" THEN "lookup" ELSE "retire")
  /\ UNCHANGED <<database, process, key, mk, reading, answer>>

\* _key_record: the newest active key, or else a new one is generated.
Lookup(w) ==
  LET mine == Active(job[w].user, job[w].alg) IN
  /\ pc[w] = "lookup"
  /\ \/ /\ mine = {}
        /\ Goto(w, "retire")
        /\ UNCHANGED key
     \/ \E k \in mine :
          /\ \A j \in mine : j <= k
          /\ key' = [key EXCEPT ![w] = k]
          /\ Goto(w, "store")
  /\ UNCHANGED <<database, process, job, mk, reading, answer>>

\* Slip: the UPDATE forgets owner=user.
RetireAll_AnyOwner(u, a) ==
  keys' = [k \in DOMAIN keys |->
             IF keys[k].alg = a THEN [keys[k] EXCEPT !.active = FALSE]
                                ELSE keys[k]]

\* The UPDATE that deactivates every active key of the user and algorithm.
RetireAll(u, a) ==
  keys' = [k \in DOMAIN keys |->
             IF k \in Records(u, a) THEN [keys[k] EXCEPT !.active = FALSE]
                                    ELSE keys[k]]

Retire(w) ==
  /\ pc[w] = "retire"
  /\ Room
  /\ RetireAll(job[w].user, job[w].alg)
  /\ Goto(w, "master")
  /\ UNCHANGED <<configured, minted, ref, sealed, torn, process,
                 job, key, mk, reading, answer>>

(***************************************************************************)
(* get_master_keypair, run by whoever wraps or unwraps a private key.  Two *)
(* workers may both find the global empty and both assign it; each returns *)
(* what the global holds when it reads it again.                           *)
(***************************************************************************)
AfterMaster(w) == IF reading[w] = NoEnvelope THEN "insert" ELSE "unwrap"

\* Slip: the global is returned even while it is empty.
FindMaster_Unloaded(w) ==
  /\ pc[w] = "master"
  /\ mk' = [mk EXCEPT ![w] = master]
  /\ Goto(w, AfterMaster(w))
  /\ UNCHANGED <<database, process, job, key, reading, answer>>

FindMaster(w) ==
  /\ pc[w] = "master"
  /\ \/ /\ master # 0
        /\ mk' = [mk EXCEPT ![w] = master]
        /\ Goto(w, AfterMaster(w))
     \/ /\ master = 0
        /\ Goto(w, "mint")
        /\ UNCHANGED mk
  /\ UNCHANGED <<database, process, job, key, reading, answer>>

\* Slip: the configured key is ignored and every process makes its own.
MintMaster_Throwaway(w) ==
  /\ pc[w] = "mint"
  /\ minted < MaxMasters
  /\ minted' = minted + 1
  /\ master' = minted + 1
  /\ Goto(w, "reload")
  /\ UNCHANGED <<configured, keys, ref, sealed, torn, cache,
                 job, key, mk, reading, answer>>

\* Parses the configured key, or generates a throwaway one for this process.
MintMaster(w) ==
  /\ pc[w] = "mint"
  /\ \/ /\ configured
        /\ master' = ConfiguredMaster
        /\ UNCHANGED minted
     \/ /\ ~configured
        /\ minted < MaxMasters
        /\ minted' = minted + 1
        /\ master' = minted + 1
  /\ Goto(w, "reload")
  /\ UNCHANGED <<configured, keys, ref, sealed, torn, cache,
                 job, key, mk, reading, answer>>

ReloadMaster(w) ==
  /\ pc[w] = "reload"
  /\ mk' = [mk EXCEPT ![w] = master]
  /\ Goto(w, AfterMaster(w))
  /\ UNCHANGED <<database, process, job, key, reading, answer>>

\* KeyRecord.objects.create, with the private key wrapped by the master key.
Insert(w) ==
  LET u == job[w].user
      a == job[w].alg IN
  /\ pc[w] = "insert"
  /\ keys' = Append(keys, [owner |-> u, alg |-> a, active |-> TRUE,
                           wrap |-> mk[w]])
  /\ key' = [key EXCEPT ![w] = Len(keys) + 1]
  /\ torn' = torn \ {<<u, a>>}
  /\ Goto(w, "refer")
  /\ UNCHANGED <<configured, minted, ref, sealed, process,
                 job, mk, reading, answer>>

\* profile.save(update_fields=["public_key_reference"]), unless the user has no
\* profile yet: registration seals the contact info before it creates one.
Refer(w) ==
  /\ pc[w] = "refer"
  /\ \/ ref' = [ref EXCEPT ![job[w].user] = key[w]]
     \/ ref' = ref
  /\ Goto(w, IF job[w].op = "seal" THEN "store" ELSE "verify")
  /\ UNCHANGED <<configured, minted, keys, sealed, torn, process,
                 job, key, mk, reading, answer>>

\* The caller saves the envelope, which carries the id of the key.
Store(w) ==
  /\ pc[w] = "store"
  /\ sealed' = sealed \cup {[owner |-> job[w].user, alg |-> job[w].alg,
                             key |-> key[w]]}
  /\ Done(w)
  /\ UNCHANGED <<configured, minted, keys, ref, torn, process, answer>>

(***************************************************************************)
(* Opening: EncryptionService.decrypt_* and get_private_key.               *)
(***************************************************************************)
Ask(w) ==
  /\ pc[w] = "idle"
  /\ \E e \in sealed :
       /\ reading' = [reading EXCEPT ![w] = e]
       /\ job' = [job EXCEPT ![w] =
                    [op |-> "read", user |-> e.owner, alg |-> e.alg]]
  /\ Goto(w, "open")
  /\ answer' = [answer EXCEPT ![w] = "none"]
  /\ UNCHANGED <<database, process, key, mk>>

\* _verify_pre_rotation_data: a rotation ends by opening one thing of the user's.
Verify(w) ==
  LET own == {e \in sealed : e.owner = job[w].user} IN
  /\ pc[w] = "verify"
  /\ \/ /\ own = {}
        /\ Done(w)
        /\ UNCHANGED answer
     \/ \E e \in own :
          /\ reading' = [reading EXCEPT ![w] = e]
          /\ Goto(w, "open")
          /\ answer' = [answer EXCEPT ![w] = "none"]
          /\ UNCHANGED <<job, key, mk>>
  /\ UNCHANGED <<database, process>>

Finish(w, outcome) == /\ answer' = [answer EXCEPT ![w] = outcome]
                      /\ Done(w)

\* Slip: only active keys open envelopes.
HasRecord_ActiveOnly(e) == e.key \in Active(e.owner, e.alg)

\* The envelope's key id, owner and algorithm must all match a row.
HasRecord(e) == e.key \in Records(e.owner, e.alg)

Open(w) ==
  LET e == reading[w] IN
  /\ pc[w] = "open"
  /\ \/ /\ ~HasRecord(e)
        /\ Finish(w, "unreadable")
     \/ /\ HasRecord(e)
        /\ e.key \in cache
        /\ Finish(w, "plaintext")
     \/ /\ HasRecord(e)
        /\ e.key \notin cache
        /\ Goto(w, "master")
        /\ UNCHANGED <<job, key, mk, reading, answer>>
  /\ UNCHANGED <<database, process>>

Unwrap(w) ==
  /\ pc[w] = "unwrap"
  /\ \/ /\ mk[w] # keys[reading[w].key].wrap
        /\ Finish(w, "unreadable")
     \/ /\ mk[w] = keys[reading[w].key].wrap
        /\ Goto(w, "evict")
        /\ UNCHANGED <<job, key, mk, reading, answer>>
  /\ UNCHANGED <<database, process>>

\* Slip: the cache is never emptied.
Evict_Never(w) ==
  /\ pc[w] = "evict"
  /\ Goto(w, "remember")
  /\ UNCHANGED <<database, process, job, key, mk, reading, answer>>

\* A full cache is dropped whole before the key is added.
Evict(w) ==
  /\ pc[w] = "evict"
  /\ cache' = IF Cardinality(cache) >= CacheLimit THEN {} ELSE cache
  /\ Goto(w, "remember")
  /\ UNCHANGED <<database, master, job, key, mk, reading, answer>>

Remember(w) ==
  /\ pc[w] = "remember"
  /\ cache' = cache \cup {reading[w].key}
  /\ Finish(w, "plaintext")
  /\ UNCHANGED <<database, master>>

(***************************************************************************)
(* The server stops and comes back: its memory and its requests are gone.  *)
(***************************************************************************)
Restart ==
  /\ master' = 0
  /\ cache' = {}
  /\ torn' = torn \cup {x \in User \X Alg : Replacing(x[1], x[2]) # {}}
  /\ pc' = [w \in Worker |-> "idle"]
  /\ job' = [w \in Worker |-> NoJob]
  /\ key' = [w \in Worker |-> 0]
  /\ mk' = [w \in Worker |-> 0]
  /\ reading' = [w \in Worker |-> NoEnvelope]
  /\ answer' = [w \in Worker |-> "none"]
  /\ UNCHANGED <<configured, minted, keys, ref, sealed>>

Step(w) == \/ Lookup(w) \/ Retire(w) \/ Insert(w) \/ Refer(w) \/ Store(w)
           \/ FindMaster(w) \/ MintMaster(w) \/ ReloadMaster(w)
           \/ Verify(w) \/ Open(w) \/ Unwrap(w) \/ Evict(w) \/ Remember(w)

Next == Restart \/ \E w \in Worker : Begin(w) \/ Ask(w) \/ Step(w)

Spec == Init /\ [][Next]_vars

-----------------------------------------------------------------------------
Label == {"idle", "lookup", "retire", "master", "mint", "reload", "insert",
          "refer", "store", "verify", "open", "unwrap", "evict", "remember"}

(* Every variable has its type: the rows, envelopes and workers of the code. *)
TypeOK ==
  /\ configured \in BOOLEAN
  /\ master \in Nat
  /\ minted \in Nat
  /\ keys \in Seq(KeyRow)
  /\ cache \subseteq Nat \ {0}
  /\ ref \in [User -> Nat]
  /\ sealed \subseteq Envelope
  /\ torn \subseteq User \X Alg
  /\ pc \in [Worker -> Label]
  /\ job \in [Worker -> Job \cup {NoJob}]
  /\ key \in [Worker -> Nat]
  /\ mk \in [Worker -> Nat]
  /\ reading \in [Worker -> Envelope \cup {NoEnvelope}]
  /\ answer \in [Worker -> {"none", "plaintext", "unreadable"}]

\* The master key that every process will load when one is configured.
Openable(e) == HasRecord(e) /\ keys[e.key].wrap = ConfiguredMaster

(* While KMM_MASTER_KEY is set, whatever any user has stored can still be
   opened, by this process or by the next one: its key record is there, it is
   that owner's and that algorithm's, and its private key is wrapped by the
   configured master key.  Rotation, racing generators, cache eviction and
   restarts (kmm.py, encryption_service.py) must not break it. *)
SealedStaysReadable == configured => \A e \in sealed : Openable(e)

(* A user who ever had a key can be sealed for at once: some key of the pair
   is active, or a generator between its UPDATE and its INSERT will add one,
   or the server stopped exactly there (kmm.py, lines 53 to 63). *)
KeyAlwaysUsable ==
  \A u \in User, a \in Alg :
    Records(u, a) # {} => \/ Active(u, a) # {}
                          \/ Replacing(u, a) # {}
                          \/ <<u, a>> \in torn

(* The check-then-add of get_private_key lets the cache of unwrapped private
   keys pass its limit, but by no more than the threads that can all have
   passed the check (kmm.py, lines 105 to 107). *)
CacheBounded == Cardinality(cache) < CacheLimit + Cardinality(Worker)

(* What callers are promised: see SealedStore.  The promise needs a
   configured master key; without one nothing counts as written. *)
Promise == INSTANCE SealedStore WITH
  Reader <- Worker,
  written <- IF configured THEN sealed ELSE {},
  asked <- IF configured THEN reading ELSE [w \in Worker |-> NoEnvelope],
  answer <- IF configured THEN answer ELSE [w \in Worker |-> "none"]

(* The key management module implements the sealed store: with a configured
   master key every read of a stored envelope that is answered is answered
   with its plaintext, and nothing stored is ever lost. *)
StorePromise == Promise!Spec
=============================================================================
