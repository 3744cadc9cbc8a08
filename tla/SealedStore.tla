---------------------------- MODULE SealedStore ----------------------------
(***************************************************************************)
(* What the encryption service promises its callers (profile, posts and    *)
(* messaging), with no keys in sight: what was once sealed stays sealed in *)
(* the database, and whoever asks for it back gets the plaintext, whatever *)
(* was rotated, cached or restarted in between.                            *)
(***************************************************************************)
CONSTANTS Envelope,     \* ciphertexts the callers store
          NoEnvelope,   \* a reader that is not waiting for an answer
          Reader        \* threads of the server

VARIABLES written,      \* the envelopes that are in the database
          asked,        \* asked[r]: the envelope r is waiting for
          answer        \* answer[r]: what r was told last

vars == <<written, asked, answer>>

Init == /\ written = {}
        /\ asked = [r \in Reader |-> NoEnvelope]
        /\ answer = [r \in Reader |-> "none"]

\* Written so that TLC can evaluate it on a step, without listing Envelope.
Seal == /\ \E e \in written' : e \in Envelope /\ written' = written \cup {e}
        /\ UNCHANGED <<asked, answer>>

Ask(r) == /\ asked[r] = NoEnvelope
          /\ \E e \in written : asked' = [asked EXCEPT ![r] = e]
          /\ answer' = [answer EXCEPT ![r] = "none"]
          /\ UNCHANGED written

\* The only answer there is: the plaintext.
Answer(r) == /\ asked[r] # NoEnvelope
             /\ asked' = [asked EXCEPT ![r] = NoEnvelope]
             /\ answer' = [answer EXCEPT ![r] = "plaintext"]
             /\ UNCHANGED written

\* A restart of the server drops the requests it was serving.
Restart == /\ asked' = [r \in Reader |-> NoEnvelope]
           /\ answer' = [r \in Reader |-> "none"]
           /\ UNCHANGED written

Next == \/ Seal
        \/ Restart
        \/ \E r \in Reader : Ask(r) \/ Answer(r)

Spec == Init /\ [][Next]_vars
=============================================================================
