------------------------------- MODULE Logins -------------------------------
(***************************************************************************)
(* What the sessions of a site promise, with no rows, requests or          *)
(* middleware in sight: a session is born with its user and keeps that     *)
(* user until it is over; only the browser it was born in presents it; and *)
(* nobody is logged in where the password was not given.                   *)
(***************************************************************************)
CONSTANTS User, Browser, Key,
          Anon             \* the user of a session that is not logged in

VARIABLES life,            \* of a key: "new", "live" or "over"
          who,             \* whose session a live key is
          hold,            \* the browsers that can present a live key
          given            \* the browsers in which a user's password was given

vars == <<life, who, hold, given>>

Init == /\ life = [k \in Key |-> "new"]
        /\ who = [k \in Key |-> Anon]
        /\ hold = {}
        /\ given = {}

\* Browsers may forget keys in any step.
Give(b, u) == /\ given' = given \cup {<<b, u>>}
              /\ hold' \subseteq hold
              /\ UNCHANGED <<life, who>>

Start(b, k, u) == /\ life[k] = "new"
                  /\ u = Anon \/ <<b, u>> \in given
                  /\ life' = [life EXCEPT ![k] = "live"]
                  /\ who' = [who EXCEPT ![k] = u]
                  /\ hold' \subseteq hold \cup {<<b, k>>}
                  /\ UNCHANGED given

End(ks) == /\ life' = [k \in Key |-> IF k \in ks THEN "over" ELSE life[k]]
           /\ who' = [k \in Key |-> IF k \in ks THEN Anon ELSE who[k]]
           /\ hold' \subseteq {h \in hold : h[2] \notin ks}
           /\ UNCHANGED given

Next == \/ \E b \in Browser, u \in User : Give(b, u)
        \/ \E b \in Browser, k \in Key, u \in User \cup {Anon} : Start(b, k, u)
        \/ \E ks \in SUBSET Key : End(ks)

Spec == Init /\ [][Next]_vars

-----------------------------------------------------------------------------
(* Whoever can present a live session is the only one, and gave the password
   of the user whose session it is. *)
Safe == \A h \in hold :
          /\ life[h[2]] = "live"
          /\ who[h[2]] = Anon \/ <<h[1], who[h[2]]>> \in given
          /\ \A g \in hold : g[2] = h[2] => g = h
=============================================================================
