------------------------------ MODULE Sessions ------------------------------
(***************************************************************************)
(* The life of a login: Django's session rows and cookies, the             *)
(* ActiveSession records the site keeps beside them, and the middleware    *)
(* that makes the two agree.                                               *)
(*                                                                         *)
(* Sources: accounts/security/session_manager.py (issue, check, revoke,    *)
(* SecureSessionMiddleware), accounts/views.py (login, second factor,      *)
(* logout, "log out everywhere"), moderation/account_status.py (the second *)
(* middleware) and moderation/moderation_service.py (a moderator's block). *)
(* Django's sessions and auth functions are external and modelled from     *)
(* their use.                                                              *)
(*                                                                         *)
(* A request loads its session once, works on that copy, and writes it     *)
(* back with the response; every step below is one database statement.     *)
(* Logins are by password or by Google alike.  Device strings are left     *)
(* out: a cookie stays in its browser.                                     *)
(***************************************************************************)
EXTENDS Naturals, FiniteSets

CONSTANTS User,
          TwoFactorUser, \* those for whom two_factor.is_required_for holds
          Browser,
          Network,       \* addresses a browser may come from
          MaxKeys,       \* bound: session keys ever drawn
          Worker,        \* threads of the server
          Anon,          \* nobody
          NoRow,         \* no such row
          NoRequest,     \* an idle worker
          Timeout,       \* APP_SESSION_TIMEOUT_SECONDS, in ticks
          CookieAge      \* SESSION_COOKIE_AGE, in ticks

Someone == User \cup {Anon}
Row == [user : Someone, pend : Someone]

ASSUME TwoFactorAssumption == TwoFactorUser \subseteq User
ASSUME TimeoutAssumption == Timeout \in Nat \ {0}
ASSUME CookieAgeAssumption == CookieAge \in Nat \ {0}
ASSUME MaxKeysAssumption == MaxKeys \in Nat
ASSUME WorkerAssumption == IsFiniteSet(Worker)
ASSUME AnonAssumption == Anon \notin User

VARIABLES
  row,       \* django_session: key -> whose it is and who is half logged in
  lasts,     \* the time left until the expire_date of each such row
  drawn,     \* how many keys were ever drawn
  record,    \* ActiveSession: key -> user, revoked, time left, network
  blocked,   \* users whose AccountState blocks them
  cookie,    \* what each browser holds
  network,   \* where each browser is
  req,       \* the request each worker serves
  switched,  \* history: keys drawn by a login over another user's session
  password   \* history: passwords given right, by browser

vars == <<row, lasts, drawn, record, blocked, cookie, network, req,
          switched, password>>
history == <<switched, password>>

\* Keys are random: they are numbered in the order in which they are drawn.
Key == 1..MaxKeys
NoKey == 0

Record == [user : User, revoked : BOOLEAN, left : 0..Timeout,
           net : Network]
Kind == {"page", "login", "verify", "logout", "logout_all", "block"}
Label == {"gate", "expire", "drop", "status", "view", "enter", "issue", "save",
          "end", "delete", "write", "list", "mark", "purge"}
Request == [pc : Label, kind : Kind, browser : Browser \cup {Anon},
            sent : BOOLEAN,      \* it came with a cookie
            key : Key \cup {NoKey}, user : Someone, pend : Someone,
            target : Someone, keys : SUBSET Key]

ASSUME NoRowAssumption == NoRow \notin Row \cup Record
ASSUME NoRequestAssumption == NoRequest \notin Request

Init ==
  /\ row = [k \in Key |-> NoRow]
  /\ lasts = [k \in Key |-> 0]
  /\ drawn = 0
  /\ record = [k \in Key |-> NoRow]
  /\ blocked = {}
  /\ cookie = [b \in Browser |-> NoKey]
  /\ network \in [Browser -> Network]
  /\ req = [w \in Worker |-> NoRequest]
  /\ switched = {}
  /\ password = {}

At(w, label) == req[w] # NoRequest /\ req[w].pc = label
Goto(w, label) == req' = [req EXCEPT ![w].pc = label]
Done(w) == req' = [req EXCEPT ![w] = NoRequest]

\* Deleting rows by key: whatever requests hold a copy, the key is over.
Delete(ks) == /\ row' = [k \in Key |-> IF k \in ks THEN NoRow ELSE row[k]]
              /\ lasts' = [k \in Key |-> IF k \in ks THEN 0 ELSE lasts[k]]

Draw == drawn' = drawn + 1

\* Bound: a login starts only when every login under way can draw a key.
Room == drawn + Cardinality({w \in Worker :
                   req[w] # NoRequest /\ req[w].kind \in {"login", "verify"}})
          < MaxKeys

\* The ActiveSession a lookup by user and key finds, if any.
Tracked(u, k) == k # NoKey /\ record[k] # NoRow /\ record[k].user = u

(***************************************************************************)
(* A request comes in: the session middleware and request.user.  A row     *)
(* past its expire_date is as good as none to it, but stays in the table.  *)
(***************************************************************************)
Arrive(w) ==
  /\ req[w] = NoRequest
  /\ \E b \in Browser, kind \in Kind \ {"block"}, u \in Someone :
       LET k == cookie[b]
           found == k # NoKey /\ row[k] # NoRow /\ lasts[k] > 0 IN
       /\ (kind = "login") = (u # Anon)
       /\ kind \in {"login", "verify"} => Room
       /\ req' = [req EXCEPT ![w] =
            [pc |-> "gate", kind |-> kind, browser |-> b, sent |-> k # NoKey,
             key |-> IF found THEN k ELSE NoKey,
             user |-> IF found THEN row[k].user ELSE Anon,
             pend |-> IF found THEN row[k].pend ELSE Anon,
             target |-> u, keys |-> {}]]
  /\ UNCHANGED <<row, lasts, drawn, record, blocked, cookie, network, history>>

\* Slip: the network is compared before the expiry.
Verdict_NetworkFirst(w) ==
  LET r == req[w] IN
  IF ~Tracked(r.user, r.key) THEN "ok"
  ELSE IF record[r.key].net # network[r.browser] THEN "mismatch"
  ELSE IF record[r.key].revoked \/ record[r.key].left = 0 THEN "dead"
  ELSE "ok"

\* Slip: expires_at is never looked at.
Verdict_NoExpiry(w) ==
  LET r == req[w] IN
  IF ~Tracked(r.user, r.key) THEN "ok"
  ELSE IF record[r.key].revoked THEN "dead"
  ELSE IF record[r.key].net # network[r.browser] THEN "mismatch"
  ELSE "ok"

\* check_session, in the order of its tests.
Verdict(w) ==
  LET r == req[w] IN
  IF ~Tracked(r.user, r.key) THEN "ok"
  ELSE IF record[r.key].revoked \/ record[r.key].left = 0 THEN "dead"
  ELSE IF record[r.key].net # network[r.browser] THEN "mismatch"
  ELSE "ok"

\* SecureSessionMiddleware; a mismatch answers 403 whatever was asked.
Gate(w) ==
  /\ At(w, "gate")
  /\ \/ /\ req[w].user = Anon
        /\ Goto(w, "view")
     \/ /\ req[w].user # Anon
        /\ \/ Verdict(w) = "ok" /\ Goto(w, "status")
           \/ Verdict(w) = "dead" /\ Goto(w, "expire")
           \/ Verdict(w) = "mismatch" /\ Done(w)
  /\ UNCHANGED <<row, lasts, drawn, record, blocked, cookie, network, history>>

Revoke(ks) == record' = [k \in Key |->
  IF k \in ks /\ record[k] # NoRow THEN [record[k] EXCEPT !.revoked = TRUE]
                                   ELSE record[k]]

\* revoke_session, its UPDATE.
Expire(w) ==
  /\ At(w, "expire")
  /\ Revoke({req[w].key})
  /\ Goto(w, "drop")
  /\ UNCHANGED <<row, lasts, drawn, blocked, cookie, network, history>>

\* revoke_session's DELETE and the logout; the request goes on as nobody's.
Drop(w) ==
  /\ At(w, "drop")
  /\ Delete({req[w].key})
  /\ req' = [req EXCEPT ![w] = [@ EXCEPT !.pc = "view", !.key = NoKey,
                                         !.user = Anon, !.pend = Anon]]
  /\ UNCHANGED <<drawn, record, blocked, cookie, network, history>>

\* The response to a cookie whose session turned out empty clears it.
Respond(w) == cookie' = IF req[w].sent /\ req[w].key = NoKey
                          THEN [cookie EXCEPT ![req[w].browser] = NoKey]
                          ELSE cookie

\* AccountStatusMiddleware; the login and logout pages are exempt.
StatusGate(w) ==
  LET r == req[w] IN
  /\ At(w, "status")
  /\ \/ /\ r.kind \in {"login", "logout"} \/ r.user \notin blocked
        /\ Goto(w, "view")
        /\ UNCHANGED <<row, lasts, cookie>>
     \/ /\ r.kind \notin {"login", "logout"} /\ r.user \in blocked
        /\ Delete({r.key})
        /\ cookie' = [cookie EXCEPT ![r.browser] = NoKey]
        /\ Done(w)
  /\ UNCHANGED <<drawn, record, blocked, network, history>>

(***************************************************************************)
(* The views.                                                              *)
(***************************************************************************)
\* Slip: every request saves its session (SESSION_SAVE_EVERY_REQUEST).
ViewPage_Saves(w) ==
  /\ At(w, "view")
  /\ req[w].kind = "page"
  /\ \/ /\ req[w].key = NoKey
        /\ Respond(w)
        /\ Done(w)
     \/ /\ req[w].key # NoKey
        /\ Goto(w, "save")
        /\ UNCHANGED cookie
  /\ UNCHANGED <<row, lasts, drawn, record, blocked, network, history>>

\* Every page but the login ones is served to its user, or redirects.
ViewPage(w) ==
  /\ At(w, "view")
  /\ req[w].kind = "page"
  /\ Respond(w)
  /\ Done(w)
  /\ UNCHANGED <<row, lasts, drawn, record, blocked, network, history>>

\* login_view with the right password (a wrong one changes nothing).
ViewLogin(w) ==
  LET r == req[w] IN
  /\ At(w, "view")
  /\ r.kind = "login"
  /\ password' = password \cup {<<r.browser, r.target>>}
  /\ \/ /\ r.target \in blocked
        /\ Respond(w)
        /\ Done(w)
     \/ /\ r.target \notin blocked
        /\ r.target \in TwoFactorUser
        /\ req' = [req EXCEPT ![w] = [r EXCEPT !.pc = "save", !.pend = r.target]]
        /\ UNCHANGED cookie
     \/ /\ r.target \notin blocked
        /\ r.target \notin TwoFactorUser
        /\ Goto(w, "enter")
        /\ UNCHANGED cookie
  /\ UNCHANGED <<row, lasts, drawn, record, blocked, network, switched>>

\* Slip: the user is taken from the form and not from the pending login.
ViewVerify_AnyUser(w) ==
  /\ At(w, "view")
  /\ req[w].kind = "verify"
  /\ \E u \in User \ blocked :
       req' = [req EXCEPT ![w] = [@ EXCEPT !.pc = "enter", !.target = u]]
  /\ UNCHANGED <<row, lasts, drawn, record, blocked, cookie, network, history>>

\* verify_2fa: nothing pending, blocked by now, a wrong code, or the right one.
ViewVerify(w) ==
  LET r == req[w] IN
  /\ At(w, "view")
  /\ r.kind = "verify"
  /\ \/ /\ r.pend = Anon
        /\ Respond(w)
        /\ Done(w)
     \/ /\ r.pend \in blocked
        /\ req' = [req EXCEPT ![w] = [r EXCEPT !.pc = "save", !.pend = Anon]]
        /\ UNCHANGED cookie
     \/ /\ r.pend \in User \ blocked
        /\ Done(w)
        /\ UNCHANGED cookie
     \/ /\ r.pend \in User \ blocked
        /\ req' = [req EXCEPT ![w] =
             [r EXCEPT !.pc = "enter", !.target = r.pend, !.pend = Anon]]
        /\ UNCHANGED cookie
  /\ UNCHANGED <<row, lasts, drawn, record, blocked, network, history>>

\* logout_view and "log out everywhere" both want a user.
ViewLeave(w) ==
  LET r == req[w] IN
  /\ At(w, "view")
  /\ r.kind \in {"logout", "logout_all"}
  /\ \/ /\ r.user = Anon
        /\ Respond(w)
        /\ Done(w)
     \/ /\ r.user # Anon
        /\ req' = [req EXCEPT ![w] =
             [r EXCEPT !.pc = IF r.kind = "logout_all" THEN "list"
                              ELSE IF Tracked(r.user, r.key) THEN "end"
                              ELSE "delete",
                       !.target = r.user]]
        /\ UNCHANGED cookie
  /\ UNCHANGED <<row, lasts, drawn, record, blocked, network, history>>

\* logout_view: the UPDATE of revoke_session, when there is a record.
End(w) ==
  /\ At(w, "end")
  /\ Revoke({req[w].key})
  /\ Goto(w, "delete")
  /\ UNCHANGED <<row, lasts, drawn, blocked, cookie, network, history>>

\* logout_view: the DELETE of revoke_session and of django's logout.
DeleteRow(w) ==
  /\ At(w, "delete")
  /\ Delete({req[w].key})
  /\ cookie' = [cookie EXCEPT ![req[w].browser] = NoKey]
  /\ Done(w)
  /\ UNCHANGED <<drawn, record, blocked, network, history>>

(***************************************************************************)
(* Logging in: django's login, issue_session, and the saved session.       *)
(***************************************************************************)
\* A new key for an anonymous session; the same one for the same user; none
\* yet for another user's session, which is flushed.
Enter(w) ==
  LET r == req[w] IN
  /\ At(w, "enter")
  /\ \/ /\ r.user = Anon
        /\ Draw
        /\ row' = [k \in Key |->
             IF k = drawn' THEN [user |-> Anon, pend |-> r.pend]
             ELSE IF k = r.key THEN NoRow ELSE row[k]]
        /\ lasts' = [k \in Key |->
             IF k = drawn' THEN CookieAge
             ELSE IF k = r.key THEN 0 ELSE lasts[k]]
        /\ req' = [req EXCEPT ![w] = [r EXCEPT !.pc = "issue", !.key = drawn',
                                               !.user = r.target]]
     \/ /\ r.user = r.target
        /\ Goto(w, "issue")
        /\ UNCHANGED <<row, lasts, drawn>>
     \/ /\ r.user \notin {Anon, r.target}
        /\ Delete({r.key})
        /\ req' = [req EXCEPT ![w] = [r EXCEPT !.pc = "issue", !.key = NoKey,
                                               !.user = r.target, !.pend = Anon]]
        /\ UNCHANGED drawn
  /\ UNCHANGED <<record, blocked, cookie, network, history>>

\* Slip: the login with a second factor forgets issue_session.
Issue_PasswordOnly(w) ==
  LET r == req[w] IN
  /\ At(w, "issue")
  /\ record' = IF r.key = NoKey \/ r.kind = "verify" THEN record
               ELSE [record EXCEPT ![r.key] =
                       [user |-> r.user, revoked |-> FALSE, left |-> Timeout,
                        net |-> network[r.browser]]]
  /\ Goto(w, "save")
  /\ UNCHANGED <<row, lasts, drawn, blocked, cookie, network, history>>

\* Slip: sessions are issued for longer than the timeout.
Issue_TooLong(w) ==
  LET r == req[w] IN
  /\ At(w, "issue")
  /\ record' = IF r.key = NoKey THEN record
               ELSE [record EXCEPT ![r.key] =
                       [user |-> r.user, revoked |-> FALSE, left |-> Timeout + 1,
                        net |-> network[r.browser]]]
  /\ Goto(w, "save")
  /\ UNCHANGED <<row, lasts, drawn, blocked, cookie, network, history>>

\* issue_session.  Without a key it writes a placeholder record, which no
\* lookup by session key ever finds: nothing here.
Issue(w) ==
  LET r == req[w] IN
  /\ At(w, "issue")
  /\ record' = IF r.key = NoKey THEN record
               ELSE [record EXCEPT ![r.key] =
                       [user |-> r.user, revoked |-> FALSE, left |-> Timeout,
                        net |-> network[r.browser]]]
  /\ Goto(w, "save")
  /\ UNCHANGED <<row, lasts, drawn, blocked, cookie, network, history>>

\* Slip: a save inserts the row again when it is gone.
Save_Upsert(w) ==
  LET r == req[w]
      copy == [user |-> r.user, pend |-> r.pend] IN
  /\ At(w, "save")
  /\ \/ /\ r.key = NoKey
        /\ Draw
        /\ row' = [row EXCEPT ![drawn'] = copy]
        /\ lasts' = [lasts EXCEPT ![drawn'] = CookieAge]
        /\ cookie' = [cookie EXCEPT ![r.browser] = drawn']
        /\ switched' = IF r.user = Anon THEN switched
                                        ELSE switched \cup {drawn'}
     \/ /\ r.key # NoKey
        /\ row' = [row EXCEPT ![r.key] = copy]
        /\ lasts' = [lasts EXCEPT ![r.key] = CookieAge]
        /\ cookie' = [cookie EXCEPT ![r.browser] = r.key]
        /\ UNCHANGED <<drawn, switched>>
  /\ Done(w)
  /\ UNCHANGED <<record, blocked, network, password>>

\* SessionMiddleware saves the request's copy: a session without a key gets
\* one now, a row that is gone by now is an error and is not written again.
Save(w) ==
  LET r == req[w]
      copy == [user |-> r.user, pend |-> r.pend] IN
  /\ At(w, "save")
  /\ \/ /\ r.key = NoKey
        /\ Draw
        /\ row' = [row EXCEPT ![drawn'] = copy]
        /\ lasts' = [lasts EXCEPT ![drawn'] = CookieAge]
        /\ cookie' = [cookie EXCEPT ![r.browser] = drawn']
        /\ switched' = IF r.user = Anon THEN switched
                                        ELSE switched \cup {drawn'}
     \/ /\ r.key # NoKey
        /\ row[r.key] # NoRow
        /\ row' = [row EXCEPT ![r.key] = copy]
        /\ lasts' = [lasts EXCEPT ![r.key] = CookieAge]
        /\ cookie' = [cookie EXCEPT ![r.browser] = r.key]
        /\ UNCHANGED <<drawn, switched>>
     \/ /\ r.key # NoKey
        /\ row[r.key] = NoRow
        /\ UNCHANGED <<row, lasts, drawn, cookie, switched>>
  /\ Done(w)
  /\ UNCHANGED <<record, blocked, network, password>>

(***************************************************************************)
(* revoke_all_sessions_for_user: by its user, or by a moderator who has    *)
(* just blocked the account.                                               *)
(***************************************************************************)
Block(w) ==
  /\ req[w] = NoRequest
  /\ \E u \in User :
       req' = [req EXCEPT ![w] =
         [pc |-> "write", kind |-> "block", browser |-> Anon, sent |-> FALSE,
          key |-> NoKey, user |-> Anon, pend |-> Anon, target |-> u, keys |-> {}]]
  /\ UNCHANGED <<row, lasts, drawn, record, blocked, cookie, network, history>>

WriteBlock(w) ==
  /\ At(w, "write")
  /\ blocked' = blocked \cup {req[w].target}
  /\ Goto(w, "list")
  /\ UNCHANGED <<row, lasts, drawn, record, cookie, network, history>>

List(w) ==
  LET ks == {k \in Key : Tracked(req[w].target, k) /\ ~record[k].revoked} IN
  /\ At(w, "list")
  /\ IF ks = {} THEN Done(w)
     ELSE req' = [req EXCEPT ![w] = [@ EXCEPT !.pc = "mark", !.keys = ks]]
  /\ UNCHANGED <<row, lasts, drawn, record, blocked, cookie, network, history>>

Mark(w) ==
  /\ At(w, "mark")
  /\ Revoke(req[w].keys)
  /\ Goto(w, "purge")
  /\ UNCHANGED <<row, lasts, drawn, blocked, cookie, network, history>>

Purge(w) ==
  /\ At(w, "purge")
  /\ Delete(req[w].keys)
  /\ Done(w)
  /\ UNCHANGED <<drawn, record, blocked, cookie, network, history>>

(***************************************************************************)
(* The world around: a reinstatement, a browser that changes network, time.*)
(***************************************************************************)
Unblock == /\ \E u \in blocked : blocked' = blocked \ {u}
           /\ UNCHANGED <<row, lasts, drawn, record, cookie, network, req, history>>

Move == /\ \E b \in Browser, n \in Network :
             /\ n # network[b]
             /\ network' = [network EXCEPT ![b] = n]
        /\ UNCHANGED <<row, lasts, drawn, record, blocked, cookie, req, history>>

Less(n) == IF n > 0 THEN n - 1 ELSE 0

Tick == /\ \E k \in Key : \/ lasts[k] > 0
                          \/ record[k] # NoRow /\ record[k].left > 0
        /\ record' = [k \in Key |->
             IF record[k] = NoRow THEN NoRow
             ELSE [record[k] EXCEPT !.left = Less(@)]]
        /\ lasts' = [k \in Key |-> Less(lasts[k])]
        /\ UNCHANGED <<row, drawn, blocked, cookie, network, req, history>>

Step(w) == \/ Gate(w) \/ Expire(w) \/ Drop(w) \/ StatusGate(w)
           \/ ViewPage(w) \/ ViewLogin(w) \/ ViewVerify(w) \/ ViewLeave(w)
           \/ End(w) \/ DeleteRow(w)
           \/ Enter(w) \/ Issue(w) \/ Save(w)
           \/ WriteBlock(w) \/ List(w) \/ Mark(w) \/ Purge(w)

Next == \/ Unblock \/ Move \/ Tick
        \/ \E w \in Worker : Arrive(w) \/ Block(w) \/ Step(w)

Spec == Init /\ [][Next]_vars

\* A request that has begun is served to its end, and time passes.
FairSpec == Spec /\ WF_vars(Tick) /\ \A w \in Worker : WF_vars(Step(w))

-----------------------------------------------------------------------------
(* Every variable has its type. *)
TypeOK ==
  /\ row \in [Key -> Row \cup {NoRow}]
  /\ lasts \in [Key -> 0..CookieAge]
  /\ drawn \in 0..MaxKeys
  /\ record \in [Key -> Record \cup {NoRow}]
  /\ blocked \subseteq User
  /\ cookie \in [Browser -> Key \cup {NoKey}]
  /\ network \in [Browser -> Network]
  /\ req \in [Worker -> Request \cup {NoRequest}]
  /\ switched \subseteq 1..drawn
  /\ password \subseteq Browser \X User

(* Once a session was ended, by logout, expiry, a block or "log out
   everywhere", its key is good for nothing: no request in flight that still
   holds a copy of it can bring the row back (session_manager.py, lines 71
   to 82). *)
EndedStaysEnded ==
  [][\A k \in Key : k <= drawn /\ row[k] = NoRow => row'[k] = NoRow]_vars

\* A login has drawn this key and not saved it yet: no browser has seen it.
Unsaved(k) == /\ row[k] # NoRow
              /\ row[k].user = Anon
              /\ \E w \in Worker : /\ req[w] # NoRequest
                                   /\ req[w].key = k
                                   /\ req[w].user # Anon

LifeOf(k) == IF k > drawn \/ Unsaved(k) THEN "new"
             ELSE IF row[k] = NoRow THEN "over" ELSE "live"
WhoOf(k) == IF LifeOf(k) = "live" THEN row[k].user ELSE Anon

\* By its cookie, or by a request that came with it.
Holds(b, k) == \/ cookie[b] = k
               \/ \E w \in Worker : /\ req[w] # NoRequest
                                    /\ req[w].browser = b
                                    /\ req[w].key = k

Promise == INSTANCE Logins WITH
  life <- [k \in Key |-> LifeOf(k)],
  who <- [k \in Key |-> WhoOf(k)],
  hold <- {h \in Browser \X Key : LifeOf(h[2]) = "live" /\ Holds(h[1], h[2])},
  given <- password

(* Rows, cookies, records and requests that work on stale copies implement
   sessions as a user knows them: a key has one user and one browser from its
   first response to its end, a login never takes over a key that a browser
   already had, and no request in flight brings back what was ended
   (session_manager.py, lines 20 to 82, views.py, lines 137 to 189). *)
LoginPromise == Promise!Spec

(* A logged-in session has its ActiveSession record, so that it expires and
   can be revoked, in every case but one: the login took over the session of
   another user (session_manager.py, lines 20 to 29). *)
UntrackedOnlyAfterSwitch ==
  \A k \in Key : row[k] # NoRow /\ row[k].user # Anon /\ k \notin switched
                   => Tracked(row[k].user, k)

(* Whoever is logged in on a key had given that user's password from that
   browser, through both requests of a login with a second factor
   (views.py, lines 137 to 150 and 167 to 189). *)
PasswordGiven ==
  \A b \in Browser : LET k == cookie[b] IN
    k # NoKey /\ row[k] # NoRow =>
      {row[k].user, row[k].pend} \ {Anon} \subseteq
        {u \in User : <<b, u>> \in password}

\* A login that has written its record but not yet its session.
Rewriting(k) == \E w \in Worker : At(w, "save") /\ req[w].key = k

\* Nobody has logged in on this session for as long as the timeout: a login
\* writes the session, and so puts off its expire_date.
Overdue(k) == /\ row[k] # NoRow
              /\ CookieAge - lasts[k] >= Timeout
              /\ ~Rewriting(k)

\* SecureSessionMiddleware lets a request of a user pass, or answers 403.
Admitted(w) == /\ At(w, "gate")
               /\ req[w].user # Anon
               /\ req'[w] # NoRequest
               /\ req'[w].pc = "status"
Refused(w) == /\ At(w, "gate")
              /\ req[w].user # Anon
              /\ req'[w] = NoRequest

(* Activity does not keep a session alive: no request passes on a session on
   which nobody has logged in for the timeout, unless the login took over the
   session of another user (session_manager.py, lines 42 to 63). *)
TrackedSessionsExpire ==
  [][\A w \in Worker : Admitted(w) /\ Overdue(req[w].key)
                          => req[w].key \in switched]_vars

(* The 403 of a browser that changed network, which covers even the login and
   logout pages, ends with the timeout: from then on its session is dropped,
   because check_session looks at expiry before the network
   (session_manager.py, lines 49 to 61). *)
MismatchEnds ==
  [][\A w \in Worker : Refused(w) => ~Overdue(req[w].key)]_vars

(* The page of active sessions promises it of all of them (accounts/templates/
   accounts/sessions.html, line 81). *)
SessionsExpire ==
  [][\A w \in Worker : Admitted(w) => ~Overdue(req[w].key)]_vars

Trying(b) == \E w \in Worker : At(w, "gate") /\ req[w].browser = b

OnlyPages(b) == \A w \in Worker : req[w] # NoRequest /\ req[w].browser = b
                                     => req[w].kind = "page"

LoggedIn(b) == LET k == cookie[b] IN
  k # NoKey /\ row[k] # NoRow /\ row[k].user # Anon

(* A session without a record ends, too: a browser that asks for nothing but
   pages is logged out in the end, because a page does not put off Django's own
   expire_date (settings.py, lines 155 and 156). *)
SessionsEnd ==
  \A b \in Browser : []<>Trying(b) /\ <>[]OnlyPages(b) => <>[]~LoggedIn(b)
=============================================================================
