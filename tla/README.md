# DockPulse: models and proofs

DockPulse watches the containers of several Docker hosts. An *agent* on each
host lists its containers, asks the registry whether their tags have moved,
collects release notes, and posts what it finds to the *controller*, which
keeps it in SQLite and serves the dashboard. This directory models that
protocol in TLA+, model-checks it with TLC and proves its main safety
properties with TLAPS. Paths below are relative to `src/go/internal/` unless
they begin with `src/`.

## 1. Inventory

| Component | State | Operations | Talks to |
|---|---|---|---|
| Update detection (`agent/daemon.go` `pollRegistry`, `controller/agentapi/updates.go`) | agent: `lastReported` in memory; controller: `images.remote_digest`, `updates` rows | list containers, resolve digests, report deltas; upsert image and update | Docker, registry, controller |
| Enrolment (`daemon.go` `loadOrEnroll`, `enroll`, `loadExistingCert`; `agentapi.go` `HandleEnroll`; `admin_handlers.go`) | agent: `agent.crt`, `agent.key`, `shared.key`, `identity.json`; controller: `enrollment_tokens`, `servers`, `agents` | create token, enrol, write files, load them | controller, disk |
| Agent loop (`daemon.go` `loop`, `tick`, `snapshot`, `pollCommands`; `commands.go`; `HandleHeartbeat`, `HandleContainerSnapshot`) | agent: one goroutine, four tickers; controller: `CommandQueue` in memory, `containers`, `servers.last_seen_at` | heartbeat, snapshot, command poll, registry check, "Scan now" | Docker, controller |
| Release history (`fetchChangelog`, `fetchTagHistory`, `HandleChangelogUpload`, `agent/changelog`) | agent: `lastChangelogFetch`; controller: `changelog_entries` | fetch, fall back to tags, upload | GitHub, Docker Hub, controller |
| Image references (`agent/registry`) | none of its own; the maps of one poll | `Parse`, `String`, `New`, choice of a container per image | registry |
| Users and sessions (`controller/auth`) | `users`, `sessions`; the browser's two cookies, shared by its tabs | first run, log in, look up, judge and touch a session, log out | browser |
| Release view and containers page (`frontend_updates.go`, `HandleListContainers`, `src/web/src/routes/containers/+page.svelte`, `api.ts`) | controller: reads only; page: selected server, its list, the open dialog, calls in flight | list containers, open and close a dialog, current version, newer version, three sections | controller |
| Authentication of agents (`requireAgent`, `VerifySignedRequest`, `NonceStore`) | `agents` rows, nonce map | look up a certificate, verify a signature | agent |
| Certificate authority (`controller/agentca`) | `agent-ca.crt`, `agent-ca.key` | load or create, issue | disk |
| Database (`controller/db`) | one SQLite file, `schema_migrations`, one connection | open, migrate, transactions | all handlers |
| Server (`cmd/dockpulse/main.go`, `controller/server.go`) | where the process is between start and end, requests in flight | open, listen, drain, close | database, authority |
| Registry credentials, configuration, logging, web embedding | read once at start | – | – |

What is hard: the agent is one goroutine, but Docker, the registry, GitHub and
the other agents move under it; every call may fail after the controller has
acted on it, or be handled after the agent has given it up (30 s client
timeout); memory (`lastReported`, the cooldown, the command queue) is lost with
its process, files and rows are not; and some orders in the code decide what a
failure costs (a digest is marked before it is reported, the cooldown starts
before the fetch, notes are uploaded after the report). The controller may end
between any two statements of a migration, between the two files of its
authority, or with handlers waiting for the one connection they share, and come
back as an older release. The page's calls are answered in any order while
snapshots give every container a new id. `PROJECT.json` lists each of these
hazards at its line.

What makes each component correct:

- updates: a delta that persists is recorded; an unchanged registry is quiet;
  image and update rows agree; what counts as reported is recorded;
- enrolment: a token enrols one agent; the identity an agent runs under is one
  the controller issued to it; a crash never mixes two enrolments;
- loop: the dashboard follows the host; a scan runs once and shows the host;
- history: GitHub is asked once per hour and image; uploads remove no digest;
  the newest release arrives;
- references: of the containers of one image the first running one stands for
  it; only Docker Hub's images are compared with Docker Hub;
- controller: the schema is whole and answered rows stay, through crashes and
  other releases; the authority that agents have pinned stays; every request
  ends; a start that was interrupted is made good by the next;
- containers page: list and dialog show what they were asked for; the dialog
  shows each entry of a history once, and announces only what is newer;
- sessions: a log-out is final whatever is under way; a session is not expired
  before its cookies; session and CSRF cookie stay a pair; the set-up is over
  once there is a user.

## 2. Modules

The modules are independent slices of the system, cut where the code passes a
value and not a shared state; each models *all* parties of its slice, agent,
controller and surroundings. Where a slice leaves something to another one, it
lets it happen at any time (ReleaseHistory reports any set of deltas; AgentLoop
lets a registry check begin and end; Dashboard takes snapshots and uploads at any
time, and its update row as there or not).

| Module | Models | Correspondence |
|---|---|---|
| `UpdateReports` | the digest half of `pollRegistry`, `sendUpdatesReport`, `HandleUpdatesReport`, both upserts | `pc` is the goroutine's place in the poll; one action per look-up, `FinishPoll` to the post, `HandleUpdatesReport` is the transaction, `late` holds requests their agent gave up |
| `OneTimeTokens` | the abstract promise of one-time tokens | `accepted` between look-up and commit, `usedBy` after it |
| `Enrollment` | `HandleCreateEnrollmentToken`, `HandleEnroll`, `loadOrEnroll`, `enroll`, `loadExistingCert` | `conn` is the only database connection; `req` is where each handler is; `disk` has four files, any of which may be missing or torn; `WriteFile` follows the order of the code |
| `AgentLoop` | `loop`, `tick`, `snapshot`, `pollCommands`, `CommandQueue`, `HandleHeartbeat`, `HandleContainerSnapshot`, `HandleCommandsPoll`, `HandleRequestScan` | `todo` is the rest of what the goroutine does before it selects; `call` the job under way; `host` numbers the container lists of a host |
| `ReleaseHistory` | `fetchChangelog`, `fetchTagHistory`, the second half of `pollRegistry`, `HandleChangelogUpload` | `cool` is `lastChangelogFetch` younger than an hour; `row` is the `images` row and whether it has a digest |
| `ImageRefs` | `registry.Parse`, `Ref.String`, `registry.New`, the listing loop | a reference is its components, tag and pin; `seen` and `changelogSeen` are the code's maps |
| `Sessions` | `HandleFirstRunCreate`, `HandleLogin`, `HandleLogout`, `Wrap`, `CreateSession`, `TouchSession`, `DeleteSession`, and `request` of `web/src/lib/api.ts` | `req` is where each request is, one action per SQL statement; `rows` is `sessions.expires_at`, `issued` the `ExpiresAt` in the cookies; `jar` the cookies; `answer` what an answer does to them |
| `DurableStore` | the abstract promise of the database to the handlers that write | `version` and `open` are the schema and the release that serves; `stored` the tables that hold a request's rows |
| `Controller` | `run`, `db.Open`, `Migrate`, `applyMigration`, `LoadOrCreate`, `IssueClient`, `Start`, `Shutdown`, and the borrowings of `HandleListUpdates`, `HandleChangelogUpload`, `HandleEnroll` | `phase` is where the process is; `db` and `applied` are the file, `tx` a migration's transaction with its next statement; `files` names the authority each file is of; `conn` is the only connection, `req` where a handler is |
| `Dashboard` | `loadServers`, `loadContainers`, `scanNow`, `open`, `close` of the containers page, `HandleListContainers`, `HandleContainerChangelog`, `listChangelog`, `indexOfVersion`; `HandleContainerSnapshot` and `HandleChangelogUpload` as what moves under them | the page's variables have the source's names; `calls` are requests in flight with their answers; a history maps a version to its date; `mixed` records that the newest call of a kind has overtaken one for something else |
| `MC…` | instances for TLC | sets of references, symmetry, who may use which token |
| `…_proofs` | theorems and their proofs | one per component module |

Definitions such as `KeepLast` or `StillWaitingAll`, which stand beside another
and are used by nobody, are plausible mistakes in that piece of code. Each has
been put in the place of its neighbour to see that a property notices.

## 3. Runs

All runs finish within a few minutes on two workers.

| Run | Bounds | Shows |
|---|---|---|
| `UpdatesFaulty` | 2 hosts, 1 image, 2 digests, 1 move of the tag, 2 starts per agent, faults | rows stay consistent and the registry quiet whatever is lost or late; only failures make an agent remember what is not recorded |
| `UpdatesReliable` | 1 host, 2 images, 2 digests, 1 move each, 2 starts, no faults | a persisting delta is recorded for good |
| `UpdatesLost` *(violated)* | 1 host, 1 image, faults | a failing report leaves the digest marked as reported |
| `Enrollment` | 2 hosts, 2 requests each, 2 tokens, one of them for either host | tokens are one-time (by refinement), identities consistent, complete agents come back |
| `AgentLoop` | 1 host with 2 container lists, 1 scan, 2 starts, 1 late call, faults | scans run once and show the host; the page converges; lost scans are made good |
| `ReleaseHistory` | 2 hosts, 1 image with a source, 2 releases, 2 faults, pages of 1 | one fetch per window, the newest release arrives |
| `ImageRefs` | all lists of up to 3 containers over 9 references, 2 registries, 2 image ids | among containers of one image the first stands for it; Docker Hub is asked about its own images |
| `Sessions` | 2 requests at once, 2 sessions, 2 names, 3 moments and a TTL of 1, faults | log-outs are final, no session is expired before its cookies, cookies stay paired, the set-up ends |
| `Controller` | a list, an upload, an enrolment; 3 releases in any order; 2 ends of the process or failing reads | the database keeps the promise of `DurableStore` (by refinement), the schema is whole, the pinned authority stays, requests end, the controller serves again |
| `Dashboard` | 2 servers, 2 containers, 2 calls at once, 2 snapshots, 1 failure | list and dialog show what they were asked for |
| `ReleaseView` | 4 spellings of 2 versions, 4 pushes, pages and lists of 2 | each entry is shown once; what is announced was pushed later |
| `DetailsNull` *(violated)* | 1 container, no history | `"entries": null` instead of a list |

Why the bounds suffice: two hosts are the least that share an `images` row and
race on it; two starts cover memory lost once, and a third start meets what the
second met; one move of a tag gives a stale and a fresh digest, with two digests
a move back as well (a push may return to a digest the host runs); one late call
is enough to be overtaken by a newer one. Two requests of each of two hosts put
up to four handlers before one connection, and two attempts are the least for
files of a crashed enrolment to meet those of the next. Three containers are
the least with a stopped, a running and another running one of an image. Two
requests are the least that interleave; three moments with a TTL of one let a
request read an `ExpiresAt`, another extend it, and the first judge it too late;
two sessions let an answer of an old one meet the cookies of a new one. The
controller's two faults interrupt a start and then the start that should make it
good, or the making of an authority and then the reading of its files; each of
its handlers is the one kind that can wait for the other two. Two calls of the
page are the least that overtake one another; two snapshots replace a row whose
id the page holds twice; a second server has no containers, so its list can be
told from the first one's. Four pushes let every spelling of a version be pushed
or one pushed again after another, and pages and lists of two leave out what is
older, the running version among it. What
the bounds cannot show the theorems do (section 5): they hold for any bound.

`CHECK_DEADLOCK FALSE` stands where the system may stop for good: an enrolment
whose attempts and tokens are used up (the bound), and a poll that has come to
its end (`ImageRefs` is one poll).

### Disagreements with the documentation

Two runs are violated, each by what a comment or a type says of the code
(quoted in `PROJECT.json` with its line):

- `UpdatesLost`: a digest counts as reported although its report failed;
- `DetailsNull`: a container whose image has no history is answered with `null`
  where the client's type says it is a list, and its dialog fails.

Others follow from a line or two, and no run is spent on them. In the models the
code does what it does:

- An update that was applied stays available (`frontend_updates.go:157`):
  nothing clears its row or compares it with the digest that runs by now.
- An agent whose `identity.json` is missing runs without an identity instead of
  enrolling again (`daemon.go:697-699`).
- Of two running images with one repo:tag on two registries only the first in
  Docker's order is checked, although "every unique running image" should be
  (`daemon.go:369-370`) and a repository is said to be fully-qualified with its
  registry host (`registry.go:74-75`, `0002_updates.sql:10-11`): `Parse` keeps the
  host apart and `Ref.String`, the key of `seen`, leaves it out. So
  `FirstContainerCounts` speaks of containers of one registry only, and the
  theorem `NothingIsOverlookedHolds` names the case as its exception.
- A report its agent gave up can be handled after a newer one and moves
  `to_digest` back, whereas "only to_digest and seen_at move forward"
  (`updates.go:232-233`). `RowsOnlyMoveForward` is about what is left of a row.
- Tag lists of other registries are asked of Docker Hub (`daemon.go:527`),
  since a reference's registry is lost in its key.
- Sessions roll in the database only: the cookie's `Expires` stays that of the
  log-in (`auth.go:121-122`, `middleware.go:136`).
- A second enrolment of a host makes a second server; the agent's start sends no
  snapshot, unlike its comment says.
- `DeleteExpiredSessions`, which its comment wants called "periodically", is
  called by a test only, so rows of sessions nobody logs out of stay.
- Any error of reading a file of the authority, not only its absence, makes a
  new authority (`agentca.go:44`), and every agent is then a stranger. This is the
  exemption `misread` of `AgentsKeepTheirAuthority`.
- After a scan the page "reloads a few times": only the first of its timers loads
  containers (`+page.svelte:127-131`).
- A credential file named `index.docker.io` is stored under that host and never
  found, since look-ups ask for the canonical name.
- `if out == nil` at the end of `HandleListUpdates` can never hold.

Some properties hold with an exemption, which is where the code does not keep
them: a version spelled with a capital `V` is normalised by the page and not by
the controller, so it may be the running one for one of them and not for the
other (`EveryEntryOnce`); a running tag that was pushed again keeps the date of
its first push, and an older version may be announced (`AnnouncedIsNewer`); an
answer that comes after a newer call's is shown in its place (`mixed`, in
`DetailsAreOwn` and `ListIsOwn`); a file of the authority cut short beside the
other keeps the controller from starting (`ComesBack`).

## 4. Fairness

- *UpdateReports*: the registry ticker fires again and again and the goroutine
  goes on (weak fairness of `StartPoll`, `FinishPoll`, `ReceiveAnswer`); a
  registry that is asked in poll after poll answers eventually (strong fairness
  of `CheckRef`: `SkipRef` disables it each time it fails); the controller
  handles requests that keep coming (strong, since a restart withdraws one).
  Liveness is stated in the run without faults only: with them it is false, as
  `UpdatesLost` shows.
- *Enrollment*: `restart: unless-stopped` (`src/deploy/docker-compose.agent.yml`)
  starts an agent that has ended, which is all `CompleteAgentComesBack` needs.
- *AgentLoop*: Go's `select` picks at random among the ready cases, so a ticker
  that keeps firing gets its turn (strong fairness of `Turn` for the snapshot and
  registry cases, and of the begin of these jobs); every job ends, by its
  30 s timeout if need be (weak fairness of "handled or failed"); a controller
  asked again and again answers (strong fairness of `Handle(s, "snapshot")`), and
  so do Docker and the registry; a call that was given up does not stay on its
  way for ever. Starts are bounded, so crashes end.
- *ReleaseHistory*: weak fairness of the steps of the goroutine and of the end
  of the cooldown. Faults are bounded (`MaxFaults`), so calls come to succeed.
  The update *report* of a check is left to chance: `NewestReleaseArrives` holds
  although any check may carry a report that fails.

- *Sessions*, *Dashboard*: safety only.
- *Controller*: a start that can go on does (weak fairness of `Startup`:
  `restart: unless-stopped`, `src/deploy/docker-compose.yml:30`, starts a process
  that has ended); each handler's next step is taken once it can be (weak fairness
  of `Work(r)`: a handler that waits for the connection is queued by the pool, and
  no request is accepted twice, so none is overtaken for ever); `Shutdown` returns
  once its handlers have (weak fairness of `Close`). Neither clients going away
  (`Abort`) nor the operator (`Stop`, `Deploy`) are assumed to do anything. Ends
  of the process are bounded by `MaxFaults`: in the end it stays up.

## 5. Proofs

`tlapm` checks every proof to the last leaf. Each component has type correctness
proved as an inductive invariant of its own. Beyond it:

- `UpdateReports_proofs`. `QuietRegistry` needs a count per reference: reports so
  far, plus one if the registry serves something that is not remembered, are
  bounded by starts plus moves; each action either reports and remembers, or
  moves the tag, or starts over. `ImageHasRow` follows from a batch always
  carrying digests and the two upserts of one transaction.
  `ReportedIsRecorded` is proved without faults and for hosts whose references
  fit one report (assumptions of the theorem; both are needed, see the findings
  and hazards; no run is spent on it beside the one that violates it with
  faults): its inductive form says that what is remembered is either
  recorded or in the batch that is about to be. `OnlyFailuresForget` is what is
  left of it with faults and for any limit: the ways in which an agent comes to
  remember what the controller does not have are a failing report, one that is
  overtaken by a report its agent had given up, and one that is too large. Its
  proof needs that the digest remembered last for a reference is the one in the
  batch as long as there is one (`BatchInv`).
  `RowsOnlyMoveForward` is an action property proved from the type invariant.
- `Enrollment_proofs`. The invariant says that a handler past `BeginTx` is the
  one that holds the connection, that the token it has accepted is unused, and
  that agents rows and tokens are each other's inverse. `TokensAreOneTime` is the
  refinement: the initial states map to initial states, and every step to a step
  of `OneTimeTokens` or to a stutter. `DiskIsOneEnrollment` says in its inductive
  form that files are written only by an enrolment that found no certificate,
  in an order that begins with the certificate. `OnlyTornWritesStrand`, an action
  property stated as a theorem only, says when an agent is beyond a restart: its
  process ended while it wrote one of the first three files, and in no other way;
  `WrittenInOrder` says which files are there at which place of `enroll`.
- `AgentLoop_proofs`. `ScansRunOnce` is a conservation of requests between queue,
  answer and agent. `ScanShowsHost` needs what the code's order gives: while a
  scan that nothing disturbed is under way, its snapshot is still to do, or under
  way with a fresh list, or done. `OnlyLateSnapshotsGoBack` (theorem only) is the
  order of snapshots: by `InOrder`, what the page shows is no newer than the list
  of a snapshot on its way, which is no newer than the host's; so only a snapshot
  its agent has given up takes the page back.
- `ReleaseHistory_proofs`. `RateLimited`: a fetch since the last end of a window
  means that the window is open. `DigestSurvives`, an action property, is stated
  as a theorem only: no upload or report removes a remote digest. So is
  `NotesAreKept`: notes collected for upload leave the agent into the history or
  by a failure; it needs that nothing is left to upload for an image a check has
  still to look at (`OneCheckAtATime`), or the check would overwrite it.
- `ImageRefs_proofs`. The inductive invariant is `FirstOfKey`: the loop keeps the
  first container of a repo:tag, whatever registries the others name. The
  lemma `OneMoreContainer` says how the first container of a kind changes when
  the loop looks at one more. `FirstContainerCounts` is its case of one registry.
  `DigestsAreDockerHubs` follows from it too, and so does its converse, `NothingIsOverlooked` (theorem only): every running container of
  Docker Hub is asked about, unless one of the same repo:tag on another registry
  came first.
- `Sessions_proofs`. What the invariant says of a request (`Sound`) depends on
  the request and four tables. `StaysSound` shows once that no step harms the
  requests it is not about, since clock and users only grow, an issued
  `ExpiresAt` stays and an ended session's row does not return (`Calm`; also the
  theorem `EndedStaysEnded`); each action has a lemma about its own request.
  `NeverDroppedEarly` needs that every row, every `ExpiresAt` read from one and
  every pending `now + TTL` is at least the `ExpiresAt` of the cookies.
  `SessionsEndForAReason` (theorem only) reads the same invariant along a step: a
  row goes only after its cookies expired, by a log-out that has shown its token,
  or because the look-up of the user failed.

- `Controller_proofs`. `SchemaIsWhole`: the file is at `applied = 1 .. n` with the
  tables of `n`, and a transaction under way has the tables that the first
  statements of migration `n + 1` leave (`DuringMigration`); so no statement ever
  fails and its commit leaves the tables of `n + 1`. `RowsSurvive` follows the
  rows of `entries` through the copy, the drop and the renaming of the third
  migration. `StoreIsDurable` is the refinement of `DurableStore`, whose `version`
  is the number of migrations recorded, `open` the release of a serving process
  and `stored` the tables that hold a request's rows. Every step maps to one of
  its steps or to a stutter, which takes an invariant of its own (`ServiceInv`):
  requests are under way only in a process that serves, of a release that has
  their tables (`ServedInv`); the connection is held by the one request that reads
  a cursor or is in its transaction (`ConnectionInv`); and a request's rows are in
  all of its tables or in none, and in none before it commits (`StoredInv`), while
  a migration rebuilds a table as well. The same
  invariant gives `NobodyWaitsInACircle`, the safety half of `EveryRequestEnds`:
  whoever holds the connection can go on without it.
  `AgentsKeepTheirAuthority` uses the order of the two files: as long
  as no reading failed, a key, whole or torn, stands beside its own certificate,
  and none is there while an authority is being made; so what a crash has left
  of one was pinned by nobody.
- `Dashboard_proofs`. Three lemmas say what a step does to the calls
  (`CallsAfter`), to the page (`PageAfter`) and to registry, histories and rows
  (`WorldAfter`), each by the actions that touch it; the invariants are proved
  from these lemmas. `DetailsAreOwn` rests on ids: a snapshot's are newer than all
  before, so a row with the id the page holds is the row it holds; and without
  `mixed` every pending call for details is the open dialog's. `ListIsOwn` is
  the same for lists. `AnnouncedIsNewer` needs that entries carry the dates of
  pushes, and no two the same date; `EveryEntryOnce` that a non-empty history
  has a newest entry (by well-foundedness of the natural numbers) and only one.

Assumptions are the named ASSUMEs of the modules: bounds are natural numbers,
`None` is not a value, the Docker Hub names are registry names. TLC evaluates
them in every run.

Only model-checked: all liveness (`DeltaIsRecorded`, `CompleteAgentComesBack`,
`DashboardConverges`, `LostScanIsHarmless`, `NewestReleaseArrives`, `ComesBack`,
`EveryRequestEnds`): TLAPS does not handle fairness with ENABLED here. The
theorems marked "theorem only" are not listed with a run; each was checked on
the component's instance before it was proved.

## 6. Abstractions and what is not modelled

- A digest, a reference, a token is a value without structure, except for
  references in `ImageRefs`. Digests of containers and of registries are taken
  to be comparable: `pollRegistry` compares Docker's `ImageID` with a manifest
  digest, which is right for Docker's containerd image store only.
- A handler that is one transaction is one step: the pool has one connection
  (`db.Open`), so transactions are serial. `Enrollment` keeps its steps apart
  because its property is about them.
- In `ReleaseHistory` an entry is a source and a version number, and the dates
  are left out; in `Dashboard` it is a version and its date, and the source is
  left out. Titles, bodies and hashes are nowhere.
- In `Dashboard` dates are numbers, no two the same. `HandleContainerChangelog`
  reads row, history and update row by three queries; they are one step, since
  what comes between either adds to the history or replaces the row, and neither
  can be told from an earlier or later moment. The update row may be there or
  not (`updateRow`): `UpdateReports` is about it. Left out are the answers for
  references that are pinned or cannot be parsed, the error text that stands in
  place of a list, the reload of servers every minute, which touches neither
  list nor dialog, and a history cut short by an error between its rows, which
  `listChangelog` does not look for (`rows.Err`).
- In `Controller` two tables stand for those of a migration. A commit is durable:
  a power failure that takes a committed transaction of a WAL with
  `synchronous=NORMAL` is left out, a process that dies is not. A certificate and
  a key are the number of the authority they were made with; that a signature
  needs the key of the certificate is all that is left of the cryptography.
- A host's container list is a version number in `AgentLoop`; a snapshot that
  the tables refuse (two rows with one Docker id) is not modelled.
- In `Sessions` an id and the CSRF token drawn with it are one value; password
  hashing and `last_login_at` are left out; browser and controller have one
  clock; there is one browser, whose tabs share the jar.
- `requireAgent` is taken to name the agent that sent a request.
  `VerifySignedRequest` and `NonceStore` are called by tests only.
- Not modelled: `Registry credentials` (a map read once), configuration and
  logging (read once), routes, headers and rate limits of the server, and the
  pages that read one list each and keep nothing. None of them has a state that
  a later step depends on.

## 7. Plan

Done, in the order of importance: update reports, enrolment with its abstract
specification, the agent loop, release history, image references, sessions; then
the controller's process with its migrations and authority, and the containers
page with the release view; theorems for every safety property of each, the
refinements of both abstract specifications, and action properties that say by
which steps alone something is lost.

Next:

1. The log-in and updates pages, whose calls may also be overtaken, and the
   page's timers, which outlive it.
2. Which of several failing rows fails a snapshot (two containers with one
   Docker id), and what the page shows of such a host.
3. A common abstract specification of "what the dashboard shows" for
   `UpdateReports`, `AgentLoop` and `Dashboard`.
4. Proofs: an abstract specification of sessions and its refinement; that the
   dialog's history misses no version between two of its pages.
