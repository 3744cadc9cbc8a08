# SecureShare, modelled

TLA+ models of SecureShare (Django, `src/`): what is encrypted under which key,
how moderators change an account, how long a login lives, how a second factor is
set up, who is whose friend, how an account and its photos are stored, what
becomes of a post and the reports about it, and what the ciphers compute. TLC
checks every module on small instances; TLAPS proves every safety property the
passing runs check, for any number of users, threads and rows and any parameters
of the ciphers.

## 1. The system

One Django site, one database (SQLite or MySQL), a threaded server
(`manage.py runserver` or a WSGI server). `ATOMIC_REQUESTS` is not set and no
view opens a transaction: **every ORM statement commits on its own**, and any
other request may run between two statements of one request. That, together
with a few process globals, is where this code is hard. Every module here, but
those of the pure functions, has
the same grain: a *worker* is a thread that serves one request, and each of its
steps is one ORM statement with the Python that follows it.

| part | code | state it keeps | operations | model |
|---|---|---|---|---|
| key management | `crypto_core/key_management/` | `KeyRecord` rows; process globals: master key pair, cache of unwrapped private keys | generate, look up the active key, rotate, unwrap | `KeyManagement` |
| encryption service | `crypto_core/encryption_service.py` | none; envelopes name the key that sealed them | encrypt and decrypt profile data, messages, posts, binaries | `KeyManagement`, promise in `SealedStore` |
| key rotation page | `moderation/portal_views.py` | none | rotate, then open something older | `KeyManagement` |
| account status | `moderation/models.py`, `moderation_service.py`, `account_status.py` | `AccountState` (status, warnings, date), `UserNotice` rows | warn, suspend, lock, ban, reactivate, revoke; lift an expired suspension; refuse pages and logins | `AccountStatus` |
| session security | `accounts/security/session_manager.py` | `ActiveSession` rows beside Django's session rows and the browser's cookie | issue, check, expire, revoke one, revoke all | `Sessions` |
| login and logout | `accounts/views.py` | the session's user and pending user | password login, Google login, second factor, logout, log out everywhere | `Sessions`, `AccountStatus` |
| two-factor settings | `accounts/security/two_factor.py`, `sessions_dashboard` | `TwoFactorSettings` (secret, on or off) | begin, confirm, disable, show; check a code | `TwoFactor` |
| social graph | `social/` | `FriendRequest`, `Friendship` rows | send, accept, reject, remove; all removed on a ban | `SocialGraph` |
| registration and profiles | `accounts/views.py`, `accounts/models.py` | `User`, `Profile`, `TwoFactorSettings` rows | register, sign in with Google, edit, view, visit | `Profiles` |
| roles | `moderation/permissions.py`, `portal_views.py` | `Profile.role` | create and remove an admin; the gate before the profile form | `Profiles` |
| reports | `moderation/views.py` | `Report` rows, a post's flag and deletion mark | file, resolve, dismiss, remove content, clear a flag | `Reports` |
| posts | `posts/` | sealed blobs and tags in `Post`, a cache of plaintexts | upload, edit, feed, page, image | `Posts` |
| media vault | `crypto_core/media_vault.py` | sealed blobs of avatars and attachments, a cache of plaintexts | seal, open, forget | `Profiles`, `Photos` |
| messaging | `messaging/` | `Message` rows | send, with a photo or without, show | sealing in `KeyManagement`, photos in `Photos` |
| management commands | `seed_demo`, `secure_media`, `backfill_post_thumbnails` | rows of every kind, files below `MEDIA_ROOT` | make accounts, seal old images, delete files | `Profiles`, `Photos` |
| ciphers | `crypto_core/asymmetric/` | none | encrypt, decrypt, multiply points, test for primes | `Arithmetic`, `Curve`, `Rsa` |
| second-factor codes | `accounts/security/two_factor.py` | none | make a code, accept it within a window | `Codes` |
| likes, comments, search, audit log, hashing, image preparation | `social/`, `moderation/`, `accounts/security/hashing.py`, `posts/` | rows written in one statement; pure functions | | not modelled, see 5 |

How they interact. A page request passes, in the order of `MIDDLEWARE`, Django's
session and authentication middleware, `SecureSessionMiddleware` (is this
session revoked, expired, or used from elsewhere?), `AccountStatusMiddleware`
(is this account blocked? a suspension that is over is lifted here) and
`RoleAccessMiddleware`, then its view. A moderator's action writes the account's
row and then revokes its sessions. Posts, messages, avatars, contact info and
two-factor secrets are sealed by the encryption service under a key of their
owner or recipient, made on first use.

What is hard: two requests between each other's statements (the same row read,
then saved: warnings, statuses, key rows); a request that goes on with a session
or a row it read before somebody ended or changed it; the server stopping
between two statements; globals of the process that threads share and a restart
forgets; time that passes between a check and what rests on it (sessions, the
403 of a browser that moved); things that must happen in the end (a suspension
is lifted, a blocked account is out, a session ends). `PROJECT.json` lists each
such place at its line, with the property that would catch it going wrong, or
that says what alone does go wrong there.

What makes each part correct, in a sentence: whatever was sealed can be opened
again; a user can always be sealed for; the account's row is consistent and no
one is punished early; a blocked account is out, and a suspended one gets back;
a session that was ended never comes back, every login has its password
behind it, and ends on time; a second factor asks for codes the user can
give; friends are friends by consent, and a ban parts them; a post is shown as it was
last sealed, and what a moderator removed stays removed; an account has all its
rows, keeps its newest photo and the role it was given; an old image is deleted
only once it is sealed; and what a cipher encrypts it decrypts.

## 2. The modules

* `SealedStore` - what callers are promised, without keys: envelopes are
  written, never lost, and a read of a written envelope, if it is answered, is
  answered with its plaintext. Readers may be restarted.
* `KeyManagement` - the code that should keep that promise. `keys` is the
  `KeyRecord` table in primary-key order; `sealed` the stored envelopes, reduced
  to owner, algorithm and the id of the key; `master` and `cache` the two
  process globals; `ref` `Profile.public_key_reference`. A worker seals
  (`Lookup`, then perhaps `Retire`, the master key steps, `Insert`, `Refer`,
  then `Store`), rotates (the same from `Retire`, then `Verify`) or reads
  (`Open`, perhaps the master key steps, `Unwrap`, `Evict`, `Remember`).
  `FindMaster`/`MintMaster`/`ReloadMaster` are `get_master_keypair`, whose
  check, assignment and return read the global three times. `Restart` drops
  globals and workers and keeps the tables. Encryption is the fact that an
  envelope names a key and a key was wrapped by a master key; opening succeeds
  when the two match. `configured` says whether `KMM_MASTER_KEY` is set.
* `KeyManagement_proofs` - typing, the three invariants and the implementation
  of `SealedStore`, for all constants.
* `AccountStatus` - one account (accounts share no row): the fields of its
  `AccountState`, its unread notices, the browsers that are logged in, and
  workers that serve moderators, logins and pages. A moderator's request reads
  and writes exactly where the code does: `warn_user` reads the count
  (`ReadCount`), saves it (`SaveCount`), and from the third warning on goes
  through `suspend_user`'s `WriteStatus`, `Revoke` and `Notify`. `Check` and
  `Lift` are `is_blocking` on a row read earlier. Dates are days left (`Tick`).
* `AccountStatus_proofs` - typing, row consistency and no early escalation.
* `Logins` - what a site's sessions promise, without rows or requests: a key is
  new, live or over; a live one keeps the user and the browser it was born with;
  nobody is logged in where the password was not given.
* `Sessions` - Django's session rows, the `ActiveSession` records and cookies;
  a request loads its session once (`Arrive`), passes the two middlewares
  (`Gate`, `Expire`, `Drop`, `StatusGate`), runs its view (`View...`) and
  writes its copy back (`Save`). `Enter` is Django's `login`: a fresh key for an
  anonymous session, the same key for the same user, a flush for another
  user's session. `Issue` is `issue_session`, `List`/`Mark`/`Purge`
  `revoke_all_sessions_for_user`. Time is the two ages of a session, which `Tick`
  lets pass together: that of its record (`APP_SESSION_TIMEOUT_SECONDS`, set by
  `Issue`), and that of its row (`lasts`, Django's `expire_date`, set from
  `SESSION_COOKIE_AGE` by whatever writes the row; as
  `SESSION_SAVE_EVERY_REQUEST` is off, pages do not). A row past its date stays
  in the table, but no request loads it any more. Two histories, `switched` and `password`,
  only record what happened, for the properties. `Promise` instantiates `Logins`:
  a key is live while it has a row, except that the row of a login counts as new
  until the request that logs in has saved its user (`Unsaved`); its user is the
  row's; a browser presents it by its cookie, or by a request that came with it
  (`Holds`).
* `TwoFactor` - one user's `TwoFactorSettings` row, the tabs that show the page
  of sessions, the secrets in the user's app, and workers. A tab can send any
  form at any time: it may be older than the row. `Find`, `Compare` and `Enable`
  are the two reads and the one-column save of `confirm_enrolment`; `Enrol` and
  `Clear` are `begin_enrolment` and `disable`; `Look` and `Reveal` decide
  whether to show a secret and read it. A code is the secret it was made from,
  or `Wrong`; the QR code is the secret that a tab shows. The histories `late`
  and `tangled` record which checked codes an enrolment overtook.
* `SocialGraph` - the tables `FriendRequest` (by primary key) and `Friendship`
  (unordered pairs, which is what the sorted key and its uniqueness amount to),
  who is banned, and workers that send, accept, reject, remove, ban and
  reactivate. `Gate` is the middleware's refusal of banned users; `Find` is the
  lookup by primary key and receiver, which lasts until `Befriend` and `Delete`;
  `WriteBan`, `Part` and `Purge` are the three statements of a ban. The
  histories `asked`, `agreed` and `loose` record who consented to what, and which
  bans met requests in flight.
* `TwoFactor_proofs`, `SocialGraph_proofs` - typing and the safety properties.
* `Posts` - one post: a column of its row holds the version (the sealing) it
  comes from, a tag checks when the columns it covers hold its version, and a
  cache entry maps a variant and a tag to a version. `Insert` and `Reseal` are
  the two saves of an upload; `Load` reads the row, for the feed without its
  blobs, which `Fetch` reads later; `Verify`, `Lookup`, `Open` are
  `decrypt_caption` and `decrypt_image`; `Purge` and `Save` an edit. The post
  may be from before caption tags existed. The cache may forget any entry (`Cull`).
* `Reports` - extends `Posts`: the post's flag and removal, one message, and
  the `Report` rows. The same workers serve users who report (`See`, `File`,
  `Flag`) and moderators (`Hide`, `Unflag`, `Close` for the moderation page;
  `Look`, `Record`, `Erase` besides for the list of reports). `Record` saves the
  whole row from the copy the request loaded, as `report.save()` does, and
  `Erase` deletes the message with the reports that still refer to it, as the
  foreign key's CASCADE does. `late`, `missed`, `grounds` and `relinked` are histories.
* `Reports_proofs` - typing, and all properties of the two modules.
* `Profiles` - one account (accounts share no row): whether its `User` row is
  there and has a password, whether `TwoFactorSettings` is there, the `Profile`
  row reduced to role, name of the avatar and sealed photo, and the vault's
  cache of plaintexts. Workers are threads and operators' shells. `Make` begins
  `register`, the same by Google, `create_admin` or `seed_demo`; `AddUser`,
  `SetPassword`, `AddProfile`, `AddTwo`, `AddPhoto` are their statements.
  `Gate`, `LoadProfile`, `SaveEdit`, `Forget`, `Attach` are `profile_edit`,
  whose save writes every column of the row it loaded; `SaveSeed` is the same
  save in `seed_demo`. `Visit` is any page that creates what it misses. `View`,
  `Lookup`, `Open` are `avatar_image`. A photo stands for its picture and is
  its own tag. `broken` records that what made the account did not finish,
  `undone` that a photo was put back; `late` and `risen`, in a request, that
  the photo or the role changed under what it carries.
* `Photos` - extends `Profiles` by the files of an older version that kept
  images in plain, one message and one post. `Insert` and `SealSent` are the
  two saves of a message with a photo. `Secure` begins `secure_media`:
  `InspectAvatar`, `SealAvatar`, `InspectMessage`, `SealMessage`, and `Delete`,
  one file after the other, or none with `--keep-files`. `Backfill` and
  `SealPost` are what the backfill does to a post that is a file. `FailPhoto`
  ends any request or command anywhere; `torn` records a message it left
  without its photo.
* `Photos_proofs`, `Sessions_proofs` - typing and every safety property.
* `Arithmetic`, `Curve`, `Rsa`, `Codes` - pure functions, written as the code
  computes them: the Euclidean loop, square-and-multiply, bytes; the curve
  y^2 = x^3 + B with point addition, double-and-add, compression, embedding of
  chunks and the length header; padding, blocks, candidates for primes and
  Miller-Rabin; the window of time steps. What the code draws at random is a
  parameter. A byte has `Base` values, and the curve, the modulus and the
  chunks are constants.
* `MCPrimitives` - draws one input per step; each property compares what the
  code computes with its meaning.
* `Primitives_proofs` - inverses, powers, bytes and blocks, Fermat's theorem, the
  primality test and the bases that let a composite number pass it, addition and multiplication of points, the round trip of
  either cipher and the window of codes, for every value of the parameters.

Django itself (`Session`, `login`, `logout`, the session middleware) is not in
`src/`; its part of `Sessions` is marked external in `PROJECT.json` and written
from how the views and the middleware use it: `save(must_create=False)` on a row
that is gone fails instead of inserting, `cycle_key` on an anonymous session,
`flush` when the user changes, and the cookie of an emptied session deleted.

## 3. Runs

Run one with `tlc -workers 2 -config X.cfg M`; bounds are constants of the
configuration.

| run | instance | shows |
|---|---|---|
| `keys` | 2 users, RSA, 2 threads, cache limit 1, at most 3 key rows and 2 master keys; symmetric users and threads | `SealedStaysReadable`, `KeyAlwaysUsable`, `CacheBounded`, and that the module implements `SealedStore` (`StorePromise`) |
| `accounts` | one account, 2 threads, 1 browser, threshold 3, suspensions of 1 or 2 days, 4 warnings | `SuspendedIffDated`, `NoEarlyEscalation`, and, under fairness, `SuspensionEnds` and `BlockedStopsServing` |
| `ban_is_permanent` | the same | a counterexample: see Findings |
| `sessions_race` | 2 users with a second factor, 1 browser, 2 threads, 3 session keys, timeout and age of cookies 1 | that the module implements `Logins` (`LoginPromise`), `UntrackedOnlyAfterSwitch`, `PasswordGiven` |
| `sessions_time` | 2 users, one with a second factor, 1 thread, 2 networks, 3 keys, timeout 2, age of cookies 3 | `TrackedSessionsExpire`, `MismatchEnds` and, under fairness, `SessionsEnd` |
| `session_outlives_timeout` | 1 thread, 1 network, no second factor | a counterexample: see Findings |
| `two_factor` | 2 threads, 2 tabs, 3 secrets | `LockoutOnlyByOverlap` |
| `social` | 3 users, 2 threads, 2 friend requests; symmetric users and threads | `FriendsByConsent`, `BanIsClean` |
| `reports` | one post, one message, 2 threads, 2 sealings, 2 reports; symmetric threads | `PostWhole`, `FreshAnswers`, `OnlyUntaggedFail`, `RemovedStaysRemoved`, `OpenReportFlagged`, `GroundsAreKept` |
| `photos` | one account, 2 workers, 3 pictures, seeded as an admin; symmetric workers | `AccountComplete`, `RoleStands`, `PhotoStands`, `CacheAnswersRow`, `AttachmentOrTorn`, `SealedBeforeDeleted` |
| `photos_lost` | the same | a counterexample: see Findings |
| `primitives` | bytes of 4 values; the curve y^2 = x^3 + 7 over 67, of prime order 79, 4 candidates, chunks of 2 bytes; RSA of 5-bit primes, exponent 11, padding from 4 bytes; time steps of 30 s, drift 1 | `RoundTrips`, `ScalarIsRepeatedAddition`, `BasesTellPrimes`, `CodesExpire` |

Why the bounds are enough to be interesting. Every race here is between two
requests, so two threads; with a cache limit of 1 a second key already evicts
the first, and three key rows let one user rotate while the other races for a
first key. Two master keys are what it takes for a throwaway one to be replaced.
Threshold 3 is the code's; four warnings let two racing warnings lose a count and
still reach it. One browser can hold one cookie; three session keys allow a
login, a switch to another user and one more login, and keys are never reused.
There every login takes two requests, so two threads may interleave more; the
login of one request is in `sessions_time`. The code's timeout, 5 minutes unless configured,
is shorter than a day, so there Timeout is below CookieAge, and 2 of 3 ticks tell a session that is
served, one past its timeout and one past its `expire_date` from each other; one
thread is enough to break either time property by a slip, and the theorems
`Expiring` and `Mismatching` hold for any number of threads and any two ages. A
login starts only when the keys left suffice for every login under way (`Room`),
so the bound never stops a request in the middle: deadlock is checked in all runs
and never happens.

Other bounds sit in guards in the same way: `MaxWarnings`, `MaxMasters`, `MaxSecrets`,
`MaxRequests`, `MaxSeals`, `MaxReports`, `MaxPictures`. Two friend
requests are what it takes for two users to ask each other, or for a third to
accept; three secrets let an enrolment begun anew be overtaken itself; two
sealings are an upload, or an old post, and one edit; two reports are one that is
resolved and one filed meanwhile; three pictures are the two of an older
version, an avatar and a message's, and one new upload that races with their
sealing, or two uploads to a new account and its message.

The ciphers' parameters are small, but of the kind the code has: the field has
P % 4 = 3, so a root is a power, and the group has prime order, so no point but
infinity is special. Scalars go past twice the order on both sides of 0.
Plaintexts of up to three bytes with their header fill a chunk in part, one
chunk, two in part and two, with every pattern of zeros. Every number up to 400
is tested with every base.

Requests are in unlimited supply, so "finitely many" is never assumed.

### Fairness

`FairSpec` of `AccountStatus` and `Sessions` asks that each thread keeps
executing the request it has begun (`WF_vars(Step(w))`: a thread of a running
server is scheduled, and no step waits for another request) and that time passes
(`WF_vars(Tick)`). That a browser sends requests, that a moderator does anything
or stops doing it, is **not** assumed; where a property needs it, it says so on
its left-hand side (`[]<>Trying(b)`, `<>[]OnlyPages(b)`, `<>[]Quiet`). The other
modules are checked for safety only and have no fairness: `KeyManagement`,
`TwoFactor`, `SocialGraph`, `Reports`, `Profiles` and `Photos` promise nothing about when.

### Findings

1. `BanIsPermanent` - `lift_expired_suspension` decides on the row it read and
   saves *active* unconditionally; a ban written in between is lost. On a longer
   run the third warning, too, writes *suspended* over a ban
   (`moderation_service.py:46`), and the account is out of it when the
   suspension ends, although it is told it "has been permanently banned"
   (`moderation/models.py:78`).
2. `SessionsExpire` - a login over another user's live session is recorded under
   a placeholder key, because Django has just flushed the session; the session
   the browser then gets has no record, so it is served past the timeout and
   cannot be revoked from the site, contrary to the sessions page ("Sessions
   expire ... after login, regardless of activity"). What ends it is a logout
   from its own browser, or Django's `expire_date`, 24 hours after it was last
   written (`settings.py:155`); pages do not write it, so a browser that asks for
   nothing else is out in the end (`SessionsEnd`). `UntrackedOnlyAfterSwitch` and
   `TrackedSessionsExpire` show that this is the only such case.
3. `PostsEncrypted` - `secure_media` seals the images of avatars and messages,
   then unlinks every file below `MEDIA_ROOT`: the image of a post that the
   backfill has not sealed is lost, although the command "encrypts any plaintext
   image left" before it deletes it (`README.md:181`).

Deviations that have no run of their own, because a property of a passing run
has them as its exception:

* Between the check of a code and the save that switches the factor on, another
  tab may begin enrolment again; the factor is then on with a secret that no app
  has, although the page says "you can never lock yourself out"
  (`sessions.html:72`). `LockoutOnlyByOverlap`: only this race does it.
* A friend request accepted while its sender or receiver is banned makes a
  friendship after the others were removed, although the moderator confirmed
  that "all friendships are removed" (`_account_table.html:54`). `BanIsClean`:
  a ban that met no such request leaves nothing behind.
* `profile_edit` and `seed_demo` save the columns of a row they read earlier: a
  newer photo is put back, and an admin's role that was taken away returns.
  `PhotoStands` and `RoleStands` say by whom alone.
* Registration is four statements: a stop in between leaves an account without
  a profile or two-factor row, and a `seed_demo` that stops after its first
  statement leaves one without a password, which the next `seed_demo` finds and
  does not mend. `AccountComplete`: never otherwise.
* Ticking "Clear" on an avatar empties its name only; the sealed photo stays and
  is shown (`SaveEdit`).

## 4. Proofs

`tlapm M_proofs.tla` for `M` one of `KeyManagement`, `AccountStatus`, `TwoFactor`,
`SocialGraph`, `Reports`, `Photos`, `Sessions` and `Primitives`; nothing is assumed beyond the
named `ASSUME`s of those modules (markers such as `NoJob` are not values of the
type they are absent from; limits and thresholds are positive; threads are
finitely many where they are counted), which TLC evaluates in the runs.

**Keys.** `SealedStaysReadable` alone is not inductive: whether the envelope a
worker is about to store can be opened depends on the worker. The invariant
adds, for a configured master key, that the global holds 0 or that one master
key, that a worker past `get_master_keypair` holds it, that every key row is
wrapped by it, and that a worker about to `Refer` or `Store` holds the id of a row of its own
user and algorithm. Rows are only appended and never change owner, algorithm or
wrapping (`RetireAll` only clears `active`), which is one lemma every step uses.
For `KeyAlwaysUsable` the point is who is `Replacing`: a worker that retired keys
stays in that set until its `Insert` puts an active one in its place, or
`Restart` moves its pair to `torn`. `StorePromise` follows step by step: `Store`
is `Seal`, `Ask` and `Verify` are `Ask`, the three endings of a read are `Answer`,
and every other step is a stutter; the invariant adds that what a worker is
reading is, and stays, in `sealed`, which excludes the answer "unreadable" for
a stored envelope; a cache hit answers the plaintext at once. `CacheBounded` counts
threads: every thread past the check of the cache's size may still add an entry,
so the cache with those threads stays below the limit with all threads.

**Accounts.** `SuspendedIffDated` is inductive with typing, because every writer
writes both fields in one statement. `NoEarlyEscalation` needs that no count,
stored or in a worker's memory, exceeds the warnings issued (the stored count may
be less: an update can be lost), with one more allowed to a worker between its read
and its save.

**Two-factor settings.** That a lockout needs the overlap is not inductive: what
matters is a worker between its check and its save. The invariant adds that such
a worker was either overtaken (`late`) or finds in the row a secret that is in
the app, or none, because only `Enrol` puts a new secret there, and it marks
every such worker; and that codes come from the app, which forgets nothing.

**Social graph.** The invariant behind `FriendsByConsent` says that every row of
`FriendRequest` joins two different users of whom the first asked, and that a
worker about to `Befriend` carries such a pair and the acceptance; `Equipped`
keeps the labels apart, so that no send reaches `Befriend` and no ban's worker
is read as a request. Histories only grow, so a stale request object that a
worker still holds, long after its row is gone, is as good as the row. For
`BanIsClean`, a ban that met no request in flight keeps that so: no worker past the gate
concerns a user who is banned and not `loose`, since the gate refuses it and a
ban marks whom it overtakes. Hence the friendships that a finished `Part`
removed, and then the requests that `Purge` removed, do not come back.

**Posts and reports.** The invariant about the post says that every row a request
holds came whole from one sealing, the feed's blobs apart (`Fits`), and that an
entry of the cache holds the version of the tag in its key (`CacheTrue`): then
what is served under the loaded row's tag is that row's content, however long
ago it was cached, and only a check that reads the feed's blobs can fail. The
invariant about reports says that keys in use were given out, so a new report
never overwrites one, and that the report on which a message was removed no
longer refers to it (`Cut`) unless it was saved again from an older copy; the
cascade then leaves it alone. The two invariants need each other only in that no step
writes both sides; `Removal` is an action property and needs neither.
`OpenReportFlagged` is about the moderator who is about to clear the flag: no
other report was open when the request looked, and none came since, or the
request is `late`, which is the exception.

**Accounts and photos.** The invariant says of each request that it fits its
program point: what it holds, which operation reaches which label, and that what
it writes back is what it loaded unless `late` or `risen` says that somebody
changed it; `Write` sets those two for every other worker in the same step, so
they cannot be missed. A cache entry holds the picture of its key's tag
(`CacheTrue`), so a hit is right whenever the row was loaded. `SealedBeforeDeleted`
needs the order of the command: a worker that has reached the messages has left
no unsealed avatar behind, one that deletes no unsealed message either, because
no row becomes a plain file again except by what `undone` records.

**Sessions.** Keys are used once and in order (`Ordered`); no key is in two
browsers, nor in a request of another browser (`Apart`); a request that carries a
user got there by a password (`Backed`), which is
what makes `PasswordGiven` inductive; records are traced to the logins that
made them (`Traced`, `Fresh`), and only the switch of users loses one. `Budget`
counts the keys that logins under way may still draw, so that the bound of the
instance never stops one in the middle. `EndedStaysEnded` then needs typing only:
a session row is written by `Enter` under a key never used, or by `Save` over a row
that exists, so a key that is gone stays gone. For `LoginPromise` one fact more
is needed (`Settled`): a request's copy of a session has the user of the row, or
the request is about to log that session in and nobody else has seen its key; so
a save of a stale copy never gives a live session another user. Then a step that
accepts a password is `Give`, the save of a login, or of a session still without a
user, is `Start`, a flush, an expiry and a purge are `End`, and so is a step that
only lets a browser or a request forget its key. From `Logins` alone follows who can
present which session (`Promise!Safe`), so it holds of `Sessions` (`Isolation`). The two
properties of time rest on `InTime`: a record never has longer to live than the
timeout, counted from when the row was last written, because a login writes the
record first and the row next; while it is between the two (`Rewriting`) nothing
is claimed. So when the timeout has passed since the row was written, the record,
if there is one, has run out, and `check_session` says so before it looks at the
network (`Expiring`, `Mismatching`).

**Ciphers and codes.** The provers know no induction over data. `Primitives_proofs`
derives it for sets from the well-foundedness of the numbers (`SetInduction`), and
from that what any recursion that descends computes (`Recursion`, `Agreement`,
`Descent`): the Euclidean loop, the multiples of a point, double-and-add.
`ModInverse_Correct` follows the invariant of the loop, that each remainder is
congruent to its coefficient times the argument; the last remainder divides both,
so modulo a prime the loop finds an inverse for all but 0. With it, the slopes of
chord and tangent are what the formulas say, and the third point satisfies the
curve's equation by two polynomial identities (`Add_Closed`). The loop of
`_scalar_mult` keeps result + bits * addend constant, and G's order turns
negative scalars and multiples of the order into what the code returns
(`Scalar_IsRepeatedAddition`). Assumed of the parameters, and evaluated on the
instance: P is prime with P % 4 = 3, G is on the curve, adding G is associative
(`GroupAssumption`: the group law is not proved), and N, but no smaller number,
times G is infinity. `Codes_Expire` is arithmetic of the window, for any step and drift.

The round trips need more of numbers. Square-and-multiply computes powers
(`PowModIsPower`). Fermat's theorem is proved by counting: the powers of a number
modulo a prime repeat after its order, and the numbers from 1 to p - 1 fall into
pieces of that size (`OrbitSize`, `OrderDivides`). It says that primes survive the
primality test with every base, as 1 has two roots modulo a prime; a number that
has a divisor does not survive with that divisor as base (`PrimeTest_Correct`).

`PrimeTest_Bound` is Rabin's theorem: at most a quarter of n - 1 is the number of
bases that let a composite n pass. It rests on one exponent M, half of a divisor of
n - 1, that takes every base that passes to 1 or -1 (`Liars`). The numbers prime to n
that it takes to 1 or -1 form a group; four numbers none of which is another times a
member of it give four copies of it that do not overlap, so it is at most a quarter of
the remainders but 0 (`Cosets`). The four are found by cases. When p^2 divides n, they
are 1 + i * n / p: no power prime to p takes one to 1 (`SquareCase`). When n has three
coprime factors, they are the remainders that are 1 modulo some factors and, modulo
the others, a number that M takes to -1 (`ThreeCase`). When n is the product of two
primes, two of that kind, and both times a g with g^(n - 1) other than 1 modulo q:
there is one because a polynomial of degree d has at most d roots modulo a prime
(`MonicRoots`, `NotAllOne`, `TwoCase`). The remainders are combined by the Chinese
remainder theorem (`Mix`). Assumed is that 2 and 3 are among the small primes the test
begins with, as in the code (`_SMALL_PRIMES`): what is left is odd, and p is 5 or
more, so that there are four numbers 1 + i * n / p to take. `Bases_TellPrimes` is the
property of the run, for numbers of any size.

Fermat's theorem also gives the RSA identity: the exponents cancel modulo p and q, so
modulo their product (`PowModsCancel`), for messages that share a factor with it too.
Bytes of a number, and the number of bytes, are inverse to each other below a power of
the base (`ToFromBytes`, `FromToBytes`); the leading 0 of the padding keeps the
message below the modulus; no drawn byte is 0, so the first 0 after the marks ends the
padding (`PadUnpad`); blocks of one size joined and cut again are the blocks
(`BlocksOfJoin`). `Rsa_RoundTrip` puts these together, for any plaintext.

On the curve, a square's power by (P + 1) / 4 is a root of it (`RootOfSquare`), its two
roots differ in parity as P is odd (`DecompressCompress`), and a chunk's x
coordinate divided by the number of candidates is the chunk again (`DecodeEncode`).
Both sides of the exchange come to one multiple of G, whose negative takes the mask
off (`SharedPoint`, `UnmaskMask`). Header and padding make whole chunks
(`FramedDef`), and so `Curve_RoundTrip`, for any plaintext.
It has the premise that encrypting did not raise: a length may exceed the header,
that every chunk has a candidate is not a theorem (the code calls failure practically
impossible), and a chunk may cancel its mask. `Both_RoundTrip` is `RoundTrips` itself, on
the instance: `InstanceAssumption` says that its chunks have candidates and that the padding it
draws is long enough for its keys, which TLC evaluates.

Only model-checked: liveness under fairness (`SuspensionEnds`,
`BlockedStopsServing`, `SessionsEnd`), which is out of this prover's reach.

## 5. Not modelled, and why

* Secrecy and the strength of the ciphers: not a property of states. The bytes
  of envelopes and tags, and that a tag fits its content only, which is what the
  authentication code promises.
* Password hashing and `hmac_scratch.py`: hash functions, right when they agree
  with a standard on long bit strings, which small inputs say nothing about.
* Image preparation: Pillow's work, and a loop over a list of qualities.
* Likes, comments, search, the audit log: one statement each, on rows that no
  other operation relies on. `dbinfo` prints. `seed_demo`'s sample content is
  not modelled; posts, messages and the friend request it makes are like those of
  the site, but it also makes two of its users friends without a request
  (`seed_demo.py:114`), so `FriendsByConsent` is about what the site's users do.
* Google's side of a sign-in and the state token; its outcome is an input.
* The table of roles and the decorators: stateless guards, one view each. Texts,
  templates, forms, settings and URLs.
* `Posts` leaves out who may see a post and rows without sealed columns,
  `Reports` the reports about users and the removal of comments,
  `AccountStatus` `clear_warnings` (no caller passes it), `Sessions` device
  strings (a cookie never leaves its browser in the model), a browser that is
  closed (it forgets its cookie) and the start of a sign-in with Google, which
  writes the session and so puts off its `expire_date` as a login does, `Profiles` names,
  bios and contact info, messaging the friendship check before a message and the
  listing of conversations, which promise nothing about later.

## 6. What could follow

1. An abstract specification of `SocialGraph` (who consented), implemented by it.
2. The state token of a sign-in with Google, kept in the session between two requests.
3. An authentication code as an abstract function in `Photos` and `Posts`, with a
   tag bound to its context, instead of a tag that stands for its content.
4. Avatars in `Photos` composed with the keys of `KeyManagement`.
