# A TLA+ verification of gcp-universal-backend

GUB is an Express service on Cloud Run: it signs users in with Google and keeps
their sessions, brokers OAuth for other applications, holds accounts, campaigns
and who may see them, and keeps these up to date from Google Drive and the
Google directory. All durable state is in PostgreSQL, reached through Prisma;
several instances run side by side and share nothing else. Most handlers read,
decide and write in separate statements, and that is where the hard behaviour
lies: this project models what those statements do when they interleave, when
an instance dies between two of them, and when a call is repeated or lost.

Paths below are relative to the repository; `drive.*.ts` is in
`src/modules/integrations/google-drive/`.

## 1. Inventory

| Component | State | Operations | Correct when |
|---|---|---|---|
| Session tokens: `services/token.service.ts`, `modules/auth/auth.service.ts`, the session-cap trigger, `scripts/cleanup.ts` | `refresh_tokens`, `users.is_active` | login, refresh (rotation), reuse detection, logout, logout-all, cap, cleanup | a revoked session stays revoked; a session has one usable token; the cap holds; a disabled account gets nothing |
| Drive runner: `drive.runner.ts`, `drive.router.ts` | `sync_runs` (status, checkpoint), the executor's memory | start, pause, continue, finish, fail | one run at a time; no linked entity is skipped; the slot comes free |
| Reaper and sweeper: `drive.reaper.ts`, `sync-run.service.ts` | `sync_runs` | fail rows without progress | only dead runs are failed |
| Drive poll: `drive.poll.ts` | `drive_sync_state.page_token` | list changes, dispatch, defer, persist, capture | no edit is behind the token without being read |
| Drive scan: `drive.orchestrator.ts`, `drive.sync.ts`, `drive.traversal.ts`, `drive.snapshot.ts` | `drive_file_snapshots`, observations in memory | list, delta check, extract, interpret, snapshot, distill | a file passed over as unchanged was read; nothing is read twice |
| Discovery and distillation: `drive.discover.ts`, `drive.distill.ts` | `drive_change_proposals` | propose a new entity or a change | nothing is proposed twice; the current value is current |
| Review: `drive.review.ts`, the sweep of `drive.router.ts` | proposals, entities, change rows | open by link, reject, approve (with override), expire | a verdict has its effect once; only the owner decides; the log is the history |
| Notification: `drive.notify.ts` | `notified_at` | collect, mail, stamp | what is stamped was mailed; nobody is mailed twice |
| Sign-in: `modules/auth/broker.service.ts`, `auth.service.ts`, `services/user.service.ts` | `users`, `oauth_clients`, `oauth_pending_auths`, `oauth_auth_codes` | authorize, callback, exchange, three logins, find / claim a stub / provision | a session opens the signer's account; state and code are single use; a disabled account gets nothing |
| Trusted apps and gates: `services/google.service.ts`, `middleware/originAllowList.ts` | `trusted_apps` | tidy and seed at boot; origin gate, audiences, pairing | who was taken off the registry stays out |
| Access JWTs: `services/jwt.service.ts`, `middleware/authenticate.ts` | the key each instance loaded | sign, verify, publish the key, rotate by deployment | both verifiers agree; a rotation's lag ends |
| Back-end SDK: `sdk/backend/index.ts`, `sdk/config.ts` | discovery and key set, cached | discover, verify, refetch, classify, forward | as above |
| Access grants: `modules/org/access.service.ts`, `cascading-access.service.ts` | `access_grants`, `audit_log` | grant, cascade, revoke one or all, expire | what is granted is open, what is revoked is closed |
| Organisation: `modules/org/org.service.ts`, `org.controller.ts` | `access_requests`, `staff_metadata` | gated lists and reads, requests, metadata entries | a list and a single read agree; no double entries; nobody's entry is lost |
| Metadata import: `integrations/staff-metadata-import/` | `staff_metadata` | find, take over or create | as above |
| Directory sync: `integrations/google-directory/` | `staff`, `staff_external_ids`, `staff_changes`, `staff_metadata` | list, classify, find, link, write, log | one record per person; the log is its history; the table catches up |
| Staff classifier: `modules/staff-classifier/` | rules (a stub) | rules, hard filters, model, second pass | nobody is lost because the model did not answer |
| Frontend SDK: `sdk/frontend/index.tsx` | tokens in memory, refresh timer, the application's stored token | exchange, silent refresh, restore, logout, fetch with retry | a refresh never undoes a logout, nor another refresh; the spinner stops |
| Others: frontend demo, workspace, MCP, AI, mail, Workfront, AEM, server and configuration | none shared, or batch imports run by hand | | |

How they meet. Cloud Scheduler posts to `/poll` (`terraform/drive_poll.tf`);
the handler first runs the reaper, then lists Drive's changes and may start a
full sync. The sync leaves a promise behind the answered request; after 50
minutes it writes a checkpoint and posts to its own `/run-full-sync/continue`,
which any instance may serve. A run scans one folder tree after the other,
writes snapshots and proposals, mails the owners of the proposals, and
saves a new page token. Owners decide by link, which writes the entities the
next scan compares with. The directory sync shares the `sync_runs` table with
the Drive sync, and fails its rows. Logins, refreshes and logouts share
`refresh_tokens`, where a trigger enforces the cap and a nightly job deletes
rows. A browser signs in through the gates of the registry, which every booting
instance tidies while it already serves, and is given an access token signed
with the key of the instance that answered; the backend of an application
verifies that token by the key set it has cached and forwards it to the
organisation API, which verifies it again and filters by grants. The directory
sync, the metadata import and the API share `staff_metadata`. Nothing but the
database orders any of these.

The hard behaviours, with the line where each one bites, are the `hazards` of
PROJECT.json, each with the properties that would be violated if it went wrong.

## 2. Modules

| Module | What it is |
|---|---|
| `DriveSyncRun` | the life of a sync run: router, runner, reaper, sweeper |
| `SyncCoverage` | what a run promises: abstract, without processes, pauses or time |
| `DriveSyncRunProofs` | its theorems |
| `SessionTokens` | what the token endpoints promise their clients: abstract, without rows, requests or steps |
| `RefreshTokens` | rotation, revocation, cap, cleanup |
| `RefreshTokensProofs` | its theorems |
| `DriveReview` | proposals: emission, decision, expiry, notification |
| `DriveReviewProofs` | its theorems |
| `DriveFeed` | from an edit in Drive, by the poll or by hand, to a distilled observation |
| `DriveFeedProofs` | its theorems |
| `SignIn` | logins, the OAuth broker and the account they end in |
| `SignInProofs` | its theorems, and those of SdkSession |
| `SdkSession` | a browser's tabs, their tokens and requests, and the server from outside |
| `AccessGrants` | grants and revocations of accounts and campaigns |
| `OrgReads` | what the gated reads answer; extends AccessGrants |
| `OrgRecords` | requests and metadata, and the whole of `modules/org`; extends OrgReads |
| `OrgRecordsProofs` | its theorems, and those of AccessGrants and OrgReads |
| `StaffClassifier` | which directory entries are people: operators only |
| `DirectorySync` | the sync of staff; extends StaffClassifier |
| `DirectorySyncProofs` | its theorems |
| `TrustedApps` | the registry of applications and the gates of a sign-in |
| `AccessTokens` | keys, access tokens and their two verifiers |
| `Gateway` | the two composed on the same server instances |
| `GatewayProofs` | its theorems, and those of TrustedApps |
| `MC*` | constants for TLC |

### DriveSyncRun

`rows` is `sync_runs`; `pc` and `task` are what each request, and the executor
it leaves behind, holds in memory: the run, phase, index and the list it read.
Each `await` of a database call is an action: `CheckNoneInFlight` and `Create`
are `startFullSync`; `Lookup` and `Resume` are `continuePausedSync`; `Load`,
`ScanNext`, `EndPhase`, `Pause`, `Finalize`, `Capture`, `Throw`, `Abort` are
`executeFullSync`. `Reap` and `DirectorySweep` are the two sweeps, `Link` is an
approval elsewhere that links one more entity, and `Crash` may come anywhere.
Time is an age per row: fresh, old (15 minutes from its start, the sweeper's
limit), stale (past the reaper's limit for its status).
Discovery touches no run and is part of `Create`. A continuation
may arrive at any time, twice or never.

History variables: `base` (what was linked when a run began), `scanned`,
and three that say when the code's check-then-act was overtaken: `late`,
`raced`, `disturbed`. The exclusion the code gives is conditional on them, and
the condition is part of the property, not of the model.

### RefreshTokens

`row` is the table; a `pending` row is inserted and not committed, which is how
the trigger of one insert misses the row of another. `rotateRefreshToken` is
`BeginRotation` (or `DetectReuse`), `Insert`, `Commit`, `Mark`; `refreshTokens`
adds `Check`, `Respond` and `RevokeAll`. Logout is `BeginLogout` and
`RevokeFamily`. A client may present any token it was ever sent. Tokens are
numbered in the order of their `issued_at`, and issued in that order.
Administrators disable accounts outside this service (`Disable`, external).

`SessionsSpec` is SessionTokens under a mapping: `usable[s]` is the set of live
tokens of family `s` that were sent to a client, `closed` is `killed`. `Respond` is
`Issue`, a revocation is `Close`, a rotation that overlaps another one of the
same token is `Fork`, and all else is a `Drop` of the tokens it spends, if any.

### DriveReview

A proposal is a `field_change` row, or all rows of one `new_entity` group: these
are created in one transaction and always updated together. A decision is
`OpenReview`, `Check`, and one of `Reject`, `ApplyGroup`, `WriteFails`, or
`InsertChange` and then `ApplyChange`; the write is by id and checks nothing
again, as in the code. An approval of a change inserts its row of the log first,
which locks nothing, and then updates the entity, which locks it until the
commit; so two approvals may insert in one order and update in the other.
`changes` is in the order of the inserts, as `changedAt` is, `version` counts the
updates, and a failure or a death in between undoes the row. A run
reads (`LoadContext`, `ListUnlinked`) and emits later (`EmitChange`,
`ProposeGroup`). A notification pass is `CollectRows`, then for each reviewer
`SendMail` and `Stamp`, or `SkipBatch`, or `LoseAnswer`: a send that throws
although the provider has taken the mail. Values are atoms: an approval writes the
proposed value or the reviewer's own, so any value.

### DriveFeed

Time is the number of edits: a file's `modifiedTime`, a snapshot's, and a page
token's are all points of that time. A scan lists one folder at a time,
passes over or extracts each file it listed, writes a snapshot for it, and
distills at its end; the walk of an account goes down into its campaigns'
folders. A walk ends at `MAX_DEPTH`, below which it passes over everything in
silence (`Within`); the poll asks only whether a file is in a linked folder,
however deep. `told[e][f]` is the newest content of `f` distilled for entity `e`, and
`unread[f]` the newest content that was lost, whatever lost it. Whether two
runs can overlap is DriveSyncRun's question: here they may. What is in common is
small: a run of DriveFeed is a run of DriveSyncRun between `Create` and
`Finalize`, with its pauses (which lie between two entities) left out.

### SignIn

A request is one HTTP call, and its program point the statement it is about to
run. `Callback`, `Consume` and `AskGoogle` are `handleGoogleCallback`;
`Exchange`, `MarkUsed` and `ReadIdentity` are `exchangeAuthCode`; all ways in
share `FindBySub`, `UpdateProfile`, `FindStub`, `ClaimStub` and `Provision`
(`findOrCreateUser`). A write that a unique index rejects, or a delete of a row
that is gone, ends the request with an error. Around them, `Rename` changes an
address at Google, an administrator makes stubs (`CreateStub`) and disables
(`Disable`), clients are deactivated and rows expire and are purged. What a
session then does is RefreshTokens.

### SdkSession

`page` is the module state of the SDK in one tab (token, timer, spinner, the
Google script), `call` the requests under way, `saved` the token the
application stored for the next load. A request is sent with what the page held
then; the server acts (`Serve`), the answer is applied (`Deliver`) to whatever
the page holds by then. A request may be lost or refused (too many requests, a
failure) before it has any effect, and its answer may be lost, or replaced by an
error, after it had its effect (`LoseRequest`, `Refuse`, `Replies`). The server is
seen from outside and takes one step per request: a family, its live token,
reuse, logout. Its own steps, and what interrupts them, are RefreshTokens. The constant
`Nothing` and the names `SdkInit` to `SdkSpec` are this module's own because
SignInProofs extends both it and SignIn.

### AccessGrants, OrgReads, OrgRecords

A grant is a row per user and resource with a state (none, live, ending,
expired) and a number that tells the row found from the row written. Every call
is one or two steps, since the services look first and write in a later
transaction. OrgReads translates every gated read into an operator of the
grants, with the status the controller answers; each takes the flag that
tells an administrator, since for one every gate is open.
OrgRecords adds the rows that the API, the import and the directory sync write,
with the owner tag by which they tell their entries apart, and composes all
three in `Next`. A person may have several entries with one type and label, which
one sync inserts together: `Slots` numbers them.

### StaffClassifier, DirectorySync

A sync lists the directory and classifies it once (`StartSync`), then for each
person: `ApplyDirectoryPerson`, `FindByEmail`, `Link`, `UpdateStaff` (row and log
in one transaction), or `CreateStaff` and `LogCreated` (two statements). A
statement may fail, which ends the person's turn (`PersonFails`), and the process
may die (`Crash`); another sync may be under way. `logged` is the last value in
`staff_changes` of each column.

### TrustedApps, AccessTokens, Gateway

An entry of the registry carries stray whitespace or does not. `ReadRegistry`,
`CleanRow`, `LookForSelf` and `SeedSelf` are the statements of
`ensureSelfTrustedApp`; `originAllowList`, `verifyIdToken` and `Pair` the three
reads a sign-in makes. AccessTokens holds a key per instance, tokens with key
and audiences, and the backend's cached key set; `authenticate` and `middleware`
are the two verifiers, each with its own errors. In Gateway an instance's start
loads the key and begins the boot, and an accepted sign-in is given a token by
the instance that served it.

The type invariants document the shape of the variables: `TypeOK`, and `SdkTypeOK`
in SdkSession. They were model-checked when the modules were written, and are
proved (see §4); the runs spend their time on the other properties. `sync_slot` checks the one that says more, that a paused run has a
checkpoint.

## 3. Runs

| Run | Bounds | Shows |
|---|---|---|
| `sync_slot` | 2 runs, 2 workers, 1 account | exclusion, revival and the freeing of the slot |
| `sync_coverage` | 1 run, 2 workers, 3 accounts, 2 campaigns | checkpoints, completeness, the refinement |
| `refresh_tokens` | 3 tokens, 2 requests, 1 user, cap 2 | revocation, one usable token, the cap, disabling, the refinement |
| `drive_review` | 2 proposals, 2 values, 1 field, 1 folder, 1 run, 2 requests, 2 change rows | decisions |
| `drive_mails` | 2 proposals, 1 folder, 2 runs, 2 passes | notification |
| `drive_feed` | 1 account, 1 campaign, 1 file that both walk and 1 below the depth cap, 2 runs, 1 poll, 1 edit | snapshots, token |
| `sign_in` | 3 requests, 2 users, 2 Google accounts, 2 addresses, 1 client, 1 authorization, 1 rename, 1 disabling | who gets a session |
| `sdk_session` | 2 tabs, 2 calls, 2 tokens | refresh, logout, spinner |
| `org_records` | 1 user, 2 accounts, 2 campaigns, 1 office, 1 team, 1 member of staff, 1 label, 2 entries of it, 2 values, 2 calls | grants, reads, requests, metadata |
| `directory_sync` | 2 syncs, 2 profiles (one may be a robot), 2 addresses, 2 edits, 1 fault | staff, log, catching up |
| `gateway` | 2 rows, 1 origin, 2 client ids, 2 instances, 3 keys, 1 sign-in, 1 token, 2 changes | registry, tokens, rotation |
| `gateway_rotation` | the same | a statement that does not hold |

Why the bounds are enough to be interesting. Every conditional property of
these modules is about two actors; each run has two of the actors that race and
the least data for which the race shows. `sync_coverage` has one run because
visits of different runs touch nothing in common; its three accounts, of which
one is linked late and has the smallest id, are the least that shifts an index
below a checkpoint. In `refresh_tokens` three tokens are a rotation beside a
cap that is full. `drive_review` and `drive_mails` divide one module: a decision
and a mail pass meet only in the proposal's state, which the sweep changes in
both; two change rows are what two overlapping approvals insert, and a third
could only follow. In `drive_feed` one edit falls before, into or after a run, and the
listing of one run may be older than the snapshot of another; with
`MaxEdits = 2` and one file the same properties hold, in several minutes. The depth cap
of 8 is 1 there: the account's walk comes down to one file just at the cap, and no walk
to the other; with one run, a third file that only the campaign's walk reaches was
checked too.
In `sign_in` three requests are a callback and two exchanges, two callbacks and
an exchange, or three logins in `findOrCreateUser`; one renaming lets an address
change hands. `sdk_session` has two tokens because a rotation, a reuse, a
lost or replaced answer and a restore from the other tab's token take no more;
without the spinner, the same holds with three tokens. In
`org_records` two calls overlap; the second campaign does not exist at first and
may be created between the two steps of a grant or revocation, and the second
account is what must not be touched. Two addresses and two edits in
`directory_sync` let an address pass from one profile to the other; one fault is
a crash or a failing statement at any point. Registry edits, rotations and
starts of `gateway` share one bound of 2: a boot and an edit, or
a rotation and a boot; the third key is deployed under the first one's
`JWT_KEY_ID`.

`CHECK_DEADLOCK FALSE` is set where a finite supply of rows, tokens, calls or
proposals can be used up; the feed, whose runs start over, and the directory
sync, which starts over too, are checked for deadlock.

What the properties say:

* `ExclusionUnlessRaced`, `RevivalNeedsInterference`: two runs are in flight
  together, or a finished one comes back to life, only after an overtaken check
  or a sweep (or second continuation) under a live executor. `SlotFreed`: every
  run ends, whatever crashes and whichever continuation is lost.
* `CheckpointCovered`, `SuccessCovers`, `CoverageSpec`: resuming by index into a
  list that is read again skips nothing, because the list is sorted by id and
  only grows: an entity linked meanwhile moves the others up. A
  success has attempted everything that was linked at the start.
* `RevocationIsFinal`: a revoked family has a usable token only if a rotation
  had read its token before and inserted the successor after. `OneUsableToken`:
  clients hold one usable token of a family unless two rotations of one token
  overlapped. `CapUnlessCrowded`: the cap holds whenever a user's last insert
  ran alone. `DisabledGetNothing`: requests begun after the disabling send none.
  `SessionsSpec`: beyond these, a token is sent once, for a session whose first
  token was sent before, and once unusable never becomes usable again.
* `EffectMatchesVerdict`: a proposal that says it is applied has been, once, and
  the others not at all, unless two decisions, or one and the sweep, overlapped.
  `LogTellsValue`: the last row of the log tells the field's value, unless another
  approval for the entity was between its insert and its commit at that time.
  `PreviousUnlessStale`: a row's previous value is the one overwritten, unless
  the field was changed after the scan had read it.
  `OwnerDecides`: whatever link opened the session.
* `AnnouncedWasMailed`: what is stamped was mailed. `AnnouncedOnce`: nothing is
  mailed twice, unless two passes had read it at a time, one died between its
  mail and its stamp, or the provider's answer to a mail it had taken was lost.
* `PassedOverWasRead`: a snapshot never claims content that no run has read.
  `TokenOwesNothing`: an edit that the saved token has passed, of a file not below
  the depth cap, is read or within reach of a run, unless it was made while a run was under way, its run failed,
  or the poll did not find it in scope. `ExtractedOnce`: no content is
  extracted twice, the failing included, unless runs overlap, an edit falls
  between listing and download, or a run dies with the file in hand.

* `SessionOfSigner`: whatever is renamed, claimed or provisioned meanwhile, a
  session opens the account bound to the Google subject that signed in, unless
  two subjects claimed one stub at once; a broker's session goes to the redirect
  URI the flow began with. `OneCodePerAuthorization` and `CodeSpentOnce`: the
  first because a delete of a row that is gone throws, the second only unless
  two exchanges overlapped. `DisabledGetNothing`: for requests begun after it.
* `NoSelfRevocation`: reuse detection hits a browser's own session only after
  two of its requests overlapped, an answer was lost or replaced by an error, or
  a second tab held it. `LogoutSticks`: with no call under way a page stays signed
  out, and after an acknowledged logout no token of the session is usable or saved,
  with the same exceptions: of two tabs, the one whose token the other has rotated
  logs out in vain, and is answered as always. `LoadingEnds`: the spinner
  stops, unless Google's script failed on a page.
* `GrantedIsOpen`, `RevokedIsClosed`: what was reported done is so in every list
  and read, whatever overlapped that was not the opposite operation for the same
  user. `ListedIffReadable`: for administrators and others, an account, campaign,
  office or team is in a list just when it can be read by itself, whoever of the
  staff is listed can be read, and one more grant hides nothing.
  `DoubledOnlyIfOverlapped`: a search before an insert is as good as a constraint
  unless two calls overlap; entries that one sync inserts together are not doubled.
  `OnlyDeleteRemoves`: no sync or import removes an entry that a person owns.
* `LogTellsStaff`, `SharedOnlyAfterReuse`, `CatchesUp`: the log is the history;
  profiles share a row only where addresses were passed on between them, directly
  or through others; after the last edit the table agrees with the directory, but for rows that are
  shared, or whose new address another row holds.
* `DeregisteredStaysOut`: an entry an administrator removed lets nobody in,
  unless a boot had read the untidy row before and wrote it back after.
  `ForwardedTokenAccepted`: backend and server agree on tokens. `LagEnds`: once
  all instances run one key, the backend's cache catches up with it.

`gateway_rotation` is of a statement the repository makes about itself that the
code does not keep: its README promises that the old public key stays in the
key set for a token's lifetime, and `getJwks` serves one key. It is the finding
of PROJECT.json. Other statements that the modelled code does not keep, each seen
as a counterexample while its module was written:

* `drive.runner.ts:18` refuses a start while a run is in flight: two starts whose
  checks come before either's insert both run (the condition of
  `ExclusionUnlessRaced`).
* `drive.reaper.ts:25` fails only what has not moved for 24 hours; the directory
  sync's sweep (`sync-run.service.ts:293`) fails any row after 15 minutes.
* `docs/AUTH-FLOW.md:46` promises single-use rotation: overlapping refreshes
  both rotate (the condition of `OneUsableToken`).
* `google-drive/README.md:39` promises no duplicates on re-run: a folder is
  proposed again while its proposal is pending.
* `drive.orchestrator.ts:13` fills account and campaign: the account's walk
  snapshots the campaign's files first, and the campaign's own scan passes them
  over.
* `drive.poll.ts:212` says every change has been consumed: a run in flight may
  have walked by the folder already. And `:175` dispatches a sync to process
  the changes in scope: the poll's test of that has no depth cap, a walk stops at
  depth 8, so that a deep edit is passed by the token and read by nobody (the
  exception of `TokenOwesNothing`).
* `schema.prisma:247` has the latest change of a property be its current state:
  two approvals may log in one order and update in the other (the condition
  of `LogTellsValue`).
* `jwt.service.ts:71` says of the server's own verifier that tokens with an
  audience the SDK provided "won't match here" and are not for forwarding:
  `signAccessToken` always adds the server's own audience (`:58`), as the comment
  at `:18` wants, so that they do match. `ForwardedTokenAccepted` states what the code
  and `:18` agree on.
* `sdk/frontend/index.tsx:362` takes every refusal of a silent refresh for an expired or
  revoked token: a rate limiter and a failing server refuse as well, and the page of
  a live session is signed out.
* `user.service.ts:36` treats a reused address as a new user: the unique index
  on `email` turns that login into an error.
* `sdk/frontend/index.tsx:149` says `isLoading` covers logout: it does not.
* `cascading-access.service.ts:123` scopes a temporal grant to the account:
  `getTemporalCutoff` finds any temporal grant of the user.

### Fairness

`sync_slot`, for `SlotFreed`: weak fairness of `Step(w)`
(an executor that is not killed runs on: it is one promise chain on Node's
loop), of `Age(r)` (time passes for a row nobody updates), and of `Reap(s)`,
because Cloud Scheduler posts to `/poll` for ever and the reaper is its first
act. No continuation, start, scheduler job of the directory, or approval is
assumed to come. The bounded number of rows does not help the property: what
frees a slot is the run's own end or the reaper.

`sdk_session`, for `LoadingEnds`: a request is answered, refused or lost, an answer that
has come is applied, a script loads or fails, a prompt is answered or dismissed.
Users, timers and 401s owe nothing.

`directory_sync`, for `CatchesUp`: the daily job starts a sync, and a sync that is
not killed goes on; crashes and faults are bounded and owe nothing.

`gateway`, for `LagEnds`: only that time passes for the cached key set
(`AgeJwks`, jose's `cacheMaxAge`). No request or deployment is assumed.

## 4. Proofs

`tlapm` proves, for all constants that satisfy the modules' assumptions:

| Theorem | Module |
|---|---|
| `TypeCorrect`: `Spec => []TypeOK` | `DriveSyncRunProofs` |
| `CheckpointsSkipNothing`: `Spec => []CheckpointCovered` | |
| `SuccessIsComplete`: `Spec => []SuccessCovers` | |
| `SyncImplementsCoverage`: `Spec => CoverageSpec` | |
| `ExclusionHolds`: `Spec => []ExclusionUnlessRaced` | |
| `RevivalIsInterference`: `Spec => RevivalNeedsInterference` | |
| `TokensTypeCorrect`: `Spec => []TypeOK` | `RefreshTokensProofs` |
| `RevocationHolds`: `Spec => []RevocationIsFinal` | |
| `OneTokenHolds`: `Spec => []OneUsableToken` | |
| `CapHolds`: `Spec => []CapUnlessCrowded` | |
| `DisabledHolds`: `Spec => DisabledGetNothing` | |
| `TokensImplementSessions`: `Spec => SessionsSpec` | |
| `FeedTypeCorrect`: `Spec => []TypeOK` | `DriveFeedProofs` |
| `SnapshotsClaimWhatWasRead`: `Spec => []PassedOverWasRead` | |
| `OnceHolds`: `Spec => ExtractedOnce` | |
| `TokenHolds`: `Spec => []TokenOwesNothing` | |
| `ReviewTypeCorrect`: `Spec => []TypeOK` | `DriveReviewProofs` |
| `EffectHolds`: `Spec => []EffectMatchesVerdict` | |
| `LogTells`: `Spec => []LogTellsValue` | |
| `PreviousHolds`: `Spec => []PreviousUnlessStale` | |
| `AnnouncedHolds`: `Spec => []AnnouncedWasMailed` | |
| `AnnouncedOnceHolds`: `Spec => []AnnouncedOnce` | |
| `OwnerHolds`: `Spec => OwnerDecides` | |
| `SessionOfSignerHolds`: `Spec => []SessionOfSigner` | `SignInProofs` |
| `OneCodeHolds`: `Spec => []OneCodePerAuthorization` | |
| `CodeSpentOnceHolds`: `Spec => []CodeSpentOnce` | |
| `DisabledHolds`: `Spec => []DisabledGetNothing` | |
| `TypesHold`: `Spec => []TypeOK` | |
| `NoSelfRevocationHolds`: `SdkSpec => []NoSelfRevocation` | |
| `LogoutSticksHolds`: `SdkSpec => []LogoutSticks` | |
| `BrowserTypesHold`: `SdkSpec => []SdkTypeOK` | |
| `RecordsTypeCorrect`: `Spec => []TypeOK` | `OrgRecordsProofs` |
| `GrantedHolds`: `Spec => []GrantedIsOpen` | |
| `RevokedHolds`: `Spec => []RevokedIsClosed` | |
| `ListedHolds`: `Spec => []ListedIffReadable` | |
| `DoubledHolds`: `Spec => []DoubledOnlyIfOverlapped` | |
| `OnlyDeleteHolds`: `Spec => OnlyDeleteRemoves` | |
| `LogTellsStaffAlways`: `Spec => []LogTellsStaff` | `DirectorySyncProofs` |
| `SharedHolds`: `Spec => []SharedOnlyAfterReuse` | |
| `DirectoryTypeCorrect`: `Spec => []TypeOK` | |
| `SkippedOnlyIfNamed`: what the classifier drops | |
| `ForwardedTokenAcceptedAlways`: `Spec => []ForwardedTokenAccepted` | `GatewayProofs` |
| `DeregisteredHolds`: `Spec => DeregisteredStaysOut` | |
| `GatewayTypeCorrect`: `Spec => []TypeOK` | |

Assumptions. `ConstantsAssumption`: entity ids are a finite set of naturals (a
total order is what the code's `ORDER BY id` needs), and a run id is not
`NoRun`. `TokensAssumption`: tokens are positive naturals and not `None`, the cap
is positive. `FeedAssumption`: every file has a folder, and the parent of a
campaign is an account; depths are naturals. `ReviewAssumption`: entities and
proposed folders are distinct, each has an owner or none, `None` is neither a
person nor a value nor a row; the bound on change rows is a natural. `SignInAssumption`: redirect URIs are registered per client, and `None`
is no account, subject, address, request or authorization. `GrantAssumption`:
what is granted at first is granted on campaigns that exist, `None` is no
account. `ReadAssumption`: offices, teams and the two staff permissions are
distinct resources. `DirectoryAssumption`: `None` is neither an address nor one
of the two sync rules. `GatewayAssumption`: the server's audience is no appId,
and `None` no key; `TrustedAppsAssumption`: the server's own client is one of the
clients, `None` no origin. `SdkAssumption`: `Nothing` is no token, page or kind of
call, and no token is one of the replies `"ok"`, `"rejected"`, `"network"`.
Everything else (how many runs, workers, tokens,
requests, polls, staff, profiles, files and edits) is arbitrary.

Coverage. The checkpoint's property is not inductive: between two checkpoints
what has been visited is in the executor's memory. `CoverageInv` adds
`WorkerCovers` (what a worker has behind it, by its own list and index, is
scanned) to `RunCovers` (the same of the row). The step that matters is a new
entity: a lemma says that `Rank` in a larger list is no smaller, so an entity
at or after the index in the old list is so in the new one, and the scan of the
list a worker read stays sound for entities linked since, which the run does not
owe. The refinement follows from it: `Finalize` is `Succeed` because a worker
past both phases has everything covered.

Exclusion. `SlotInv` has `HeldOnce` (two holders of one run only if it is
disturbed), `HolderAgrees` (a holder's program point matches its row), and
`CheckStands` (whoever has checked, and is not late, is still right), which is
what makes the property survive `Create`.

Tokens. `FinalInv` follows a rotation that carries a token of a killed family;
`ClaimInv` says that a token being rotated has one claimant unless its family is
forked, and which tokens of a family can be live and delivered at each point of
a rotation.

The promise. `PromiseInv` is both of these and `RootSent`: the first token of a
session was sent before any later one is, so that `Issue` opens a session or
continues one. A token that `Respond` sends is the only usable one by `OneClaim`
after the step, and is dead if the family was killed in time by `FamilyDead`;
a revocation of all tokens of a user leaves no family half closed by `OneOwner`.
Every other step only spends tokens that clients hold, which one lemma
(`Dropped`) treats for all.

The cap. `CapInv` says that a user who is not crowded has at most `Cap` live
tokens. An insert that ran alone counted all live sessions of the user, and its
victims, the oldest beyond `Cap - 1`, are gone when it inserts; `FewAtTheTop`
shows by an injection into ranks that what is left is at most `Cap - 1`. That
only finitely many tokens were ever issued is a part of the invariant, for the
cardinalities to mean anything. `DisabledGetNothing` rests on accounts only ever
being disabled in this code: one found active was active when its request began.

Snapshots. `PassedOverWasRead` is not inductive: content counts as read while
it is in a run's hand, between its extraction and its snapshot, and a run that
dies there drops it. `SettledSince` leaves the hand out, and `FeedInv` says that
a snapshot only claims settled content (`SnapSettled`) and that a file in hand
was read after it was listed, or needs no reading (`HandRead`); the step that
joins them is `Snapshot`. What is settled stays so (`KeptStep`): a scan tells
what it holds, or it is recorded as lost. `NotAhead`, nothing is read before it
is written, is needed for that where a failed extraction overwrites `unread`.

Extraction and the token. `ExtractedOnce` rests on `Recorded`: content that was
extracted has its snapshot or is in the extracting run's hand, and every listing
about to be compared shows it, since an older one would set the snapshot back.
For `TokenOwesNothing`, which says that the token never moves past a change
nobody will look at, `OweInv` says of every change that is due (by a run begun since,
by a token already past it, or by a poll about to persist such a token) that it is
settled or within reach of a scan in progress. A poll gives its token away only
to a run that lists everything, and `TodoOrder` (what a run has still to visit)
is what a crashing run needs. The proof showed one alternative of `InReach` to
follow from the others (`PagesFresh`), and it was taken out.

Review. Four invariants, one per thing a decision leaves behind. `FormInv`: whoever
is about to write a decision is the proposal's reviewer. `LogInv`: while nobody
has updated an entity since a run or a proposal took its value, by `version`,
that is still its value, from which `PreviousUnlessStale` follows; of two open
rows of an entity both are beside another, and whatever is open was inserted after
every kept row that is not. So a row that is not beside another is applied before
the next one for its entity is inserted, and the last to update is the last in the
log: `LogTellsValue`.
`HoldInv`: a request that holds a proposal holds it alone and pending, its open
change row is of that proposal, and a proposal had its effect once if applied and not at all otherwise, unless it was
raced. `MailInv`: of a mail pass, a proposal in hand is in no other's, it is
mailed before it is stamped, and a mailed one is stamped or in hand, unless a
crash, an overlap or a lost answer made that doubtful.

Staff log. An update writes the same columns to the row and the log, so it keeps
them equal where they were; the gap is between a row's creation and its first
log entries. `Held` says what those will be: what the row holds, unless somebody
has written it since (`late`).

Sharing. A row of `staff` is shared by two profiles only if an address was
reused. With three profiles that is not a matter between the two: one
can find the row by an address that a third one, with an address of each, had
written to it. A statement about two profiles and their own addresses would
hold for two and fails for three (TLC shows it). So
`SharedOnlyAfterReuse` speaks of every set of profiles that has no
address in common with the others (`Apart`), and `SideInv` says that whoever is
linked or about to be linked to a row is on the same side as a profile which
has had the row's address.

Types of the directory sync. That a row always has an address is not a matter
of types: it rests on the same invariant (`Owned`), since a profile without one
passes no hard filter, and a sync keeps the list it began with.
`SkippedOnlyIfNamed` is about the classifier alone: the language model's silence
drops nobody, and the second answer overrides the first also on entries it was
not asked about.

Organisation. The grants and the staff records share only the requests, so
`GrantInv` and `RecordInv` are proved apart. What a request read
before its write still holds at the write unless it was raced, which the
history records. The proof found `Same`, which says that two metadata entries
have one key, to take entries of different members of staff for one another; a
single member of staff in the runs could not show it.

Sign-in. `IInv` has a part per thing that is handed on. `AuthInv`: a request past
the delete of its authorization found the row, left it gone, and is the only
one; `Consume` keeps that because the delete of a row that is gone throws.
`CodeInv`: a code's row is what its callback was answered with, and of the
exchanges that hold one code, each but one is still before its mark, unless the
code is overlapped. `Exchange` keeps it because an unused code has no exchange
past the mark, `MarkUsed` because it records whom it overtakes. `OpenInv`: the
account of a request past the look-ups is bound to the request's subject, or for
an exchange to the subject of the callback that was issued the code; only
`ClaimStub` rewrites a binding, and a stub that was claimed meanwhile is
contested then. `OffInv`: what was disabled when a request began stays disabled,
so nothing the request reads of it later is active. `QuietStep` and `WorldStep`
prove the invariant once for steps that write no code, from what the tables must
keep (`Kept`) and what the request's new state must fit (`Fits`).

Browser. `reused` grows when a rotated token is presented, so no rotated token of
a family outside `troubled` may ever be on its way to the server. `Quiet` says
three things of each such family. `Alone`, who has a token of it: one page at
most, the session store the same token, and of the requests at most one, sent by
that page with that token, or else a login that nobody has heard the answer of.
`Good`: a token somebody has is not rotated, or its successor is in an answer not
yet delivered. `Over`: once its logout was served no token of it is live, and once
that was acknowledged nobody has one. What would break these, a second request
or page, a lost or replaced answer, a reload, is what puts a family into `troubled`; all
other steps bring nobody a token of the family, which lemmas on `RowsFor`,
`HandsFor` and `CallFor` treat once. `Dead`, of every family: with a revoked token it
has no live one. `StaysOut`: a page logged out with nothing under way has no call
that could still store a token.

Tokens at two verifiers. `Signed`: every issued token carries the server's own
audience, whatever application it was issued for; keys are those of instances
(`KeysOK`). The verifiers can then differ only over the key, and the property
speaks of an instance whose key the backend holds. A removed entry of the
registry stays out by `RegInv`: a boot writes back only the lists it read in
disorder, and what is removed from such a list before the boot writes counts as
contested (`SeenOut`).

Only model-checked: `SlotFreed`, `LoadingEnds`, `CatchesUp` and `LagEnds`, since
liveness under fairness and `ENABLED` are out of this prover's reach.

## 5. What is left out, and why

Totals, summaries, logs, mail and page texts: wording. What a language model
proposes: any value, or none. The validity of one field's value: pure
functions, tested in the repository. Paging of lists: no state is kept between
pages. Google Drive, Google sign-in and the administration application are
external, modelled as far as this code sees them. Moves, renames and deletions
of Drive files: a file keeps its folder in DriveFeed. In the organisation
modules the role of a grant, how far back a temporal grant reaches and audit rows
are left out; the list of users, the search by metadata and the resolution of an
entity's current state are reads nothing depends on. In the back-end SDK the
typed wrappers are pass-through calls. Signatures are the identity of a key,
Google's check of an ID token is external. Client registration, whitespace
inside one value, and case of addresses are abstracted. Not modelled at all: the
workspace, MCP and AI modules (pass-through calls without shared state), the
inside of the mail drivers (a send succeeds, fails, or fails after the fact), the Workfront and AEM imports (batches run by hand), the demonstration
frontend, configuration, health and reports; PROJECT.json gives the reason for
each.

## 6. Plan

Done: the Drive sync (DriveSyncRun with SyncCoverage, DriveFeed, DriveReview),
sessions (RefreshTokens with SessionTokens, SignIn, SdkSession), the organisation (AccessGrants,
OrgReads, OrgRecords), the directory (StaffClassifier, DirectorySync), and the
gateway (TrustedApps, AccessTokens, Gateway).

Every invariant and action property of the passing runs is proved. What could follow
is more of the system: distillation, the Workfront import and the mail drivers.
