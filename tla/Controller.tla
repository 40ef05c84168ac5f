----------------------------- MODULE Controller -----------------------------
(***************************************************************************)
(* The controller process from its start to its end, again and again: run  *)
(* (cmd/dockpulse/main.go) opens the database and migrates it (db.Open,    *)
(* Migrate, applyMigration in go/internal/controller/db/db.go), loads the  *)
(* files of the agents' certificate authority or makes them (LoadOrCreate  *)
(* in .../agentca/agentca.go), serves (Start in .../server.go) and, when   *)
(* told to stop, waits for its handlers and closes the database.           *)
(*                                                                         *)
(* Between two starts the operator may put another release there, newer or *)
(* older.  The process dies anywhere; what it has committed and written    *)
(* stays.  Handlers share the pool's only connection, and each is the      *)
(* sequence of its borrowings: a list that reads a cursor and then queries *)
(* again, an upload that audits after its commit, an enrolment.            *)
(*                                                                         *)
(* A variant defined beside an operator and used by nobody is a plausible  *)
(* mistake in that code, which breaks one of the properties below.         *)
(***************************************************************************)
EXTENDS Naturals, Sequences

CONSTANTS
    Lists,     \* requests for HandleListUpdates
    Uploads,   \* requests for HandleChangelogUpload
    Enrols,    \* requests for HandleEnroll, with a good token
    None,      \* no table, no file, no transaction
    Torn,      \* a file cut short
    MaxFaults  \* bound: ends of the process and failing reads of an existing file

Requests == Lists \cup Uploads \cup Enrols

ASSUME FaultAssumption == MaxFaults \in Nat
ASSUME RequestAssumption ==
    /\ Lists \cap Uploads = {} /\ Lists \cap Enrols = {} /\ Uploads \cap Enrols = {}
    /\ None \notin Requests
ASSUME FileAssumption == None \notin Nat /\ Torn \notin Nat /\ None # Torn

-----------------------------------------------------------------------------
(* The migrations, as the statements of their files.  Two tables stand for    *)
(* all that a file creates; none of its CREATEs says IF NOT EXISTS.           *)

Tables == {"servers", "agents", "images", "entries", "entries_new"}

Create(t)    == [do |-> "create", on |-> t, from |-> t]
Drop(t)      == [do |-> "drop",   on |-> t, from |-> t]
Copy(t, u)   == [do |-> "copy",   on |-> t, from |-> u]   \* u into t
Rename(t, u) == [do |-> "rename", on |-> u, from |-> t]   \* t becomes u

Migrations == <<
    <<Create("servers"), Create("agents")>>,
    <<Create("images"), Create("entries")>>,
    <<Create("entries_new"), Copy("entries_new", "entries"),
      Drop("entries"), Rename("entries_new", "entries")>> >>

Versions == 1 .. 3

\* The tables after a migration, and what a release, named by its last
\* migration, works with.
Schema(n) == (IF n >= 1 THEN {"servers", "agents"} ELSE {})
             \cup (IF n >= 2 THEN {"images", "entries"} ELSE {})

\* Whether SQLite can run a statement on some tables, and what it leaves of
\* them and their rows.
Runs(s, d) ==
    /\ s.do \in {"create", "rename"} => s.on \notin d.tables
    /\ s.do \in {"drop", "copy"} => s.on \in d.tables
    /\ s.do \in {"copy", "rename"} => s.from \in d.tables
Result(s, d) ==
    [tables |-> CASE s.do = "create" -> d.tables \cup {s.on}
                  [] s.do = "copy"   -> d.tables
                  [] s.do = "drop"   -> d.tables \ {s.on}
                  [] s.do = "rename" -> (d.tables \ {s.from}) \cup {s.on},
     rows |-> [t \in Tables |->
                  IF t = s.on /\ s.do \in {"copy", "rename"} THEN d.rows[s.from]
                  ELSE IF (t = s.on /\ s.do = "drop") \/ (t = s.from /\ s.do = "rename") THEN {}
                  ELSE d.rows[t]]]

-----------------------------------------------------------------------------
VARIABLES
    release,    \* the release that is installed
    phase,      \* where the process is
    applied,    \* the database file: schema_migrations
    db,         \* the database file: the tables that exist and their rows
    tx,         \* a migration's transaction: version, next statement, its tables
    conn,       \* the request that has borrowed the connection
    req,        \* where the handler of a request is
    files,      \* agent-ca.crt and agent-ca.key: which authority they are of
    generated,  \* authorities generated so far
    pin,        \* the authority whose certificate an enrolment has answered with
    misread,    \* whether reading an existing file of the authority ever failed
    faults

handlerVars == <<conn, req, pin>>
caVars      == <<files, generated, misread>>
vars == <<release, phase, applied, db, tx, handlerVars, caVars, faults>>

Authorities == 1 .. MaxFaults + 1
Waiting  == {"sent", "reading", "listing", "writing", "committed"}
InFlight(r) == req[r] \in Waiting

Databases == [tables : SUBSET Tables, rows : [Tables -> SUBSET Requests]]

TypeOK ==
    /\ release \in Versions
    /\ phase \in {"down", "migrating", "authority", "writeCert", "writeKey", "serving", "draining"}
    /\ applied \in SUBSET Versions
    /\ db \in Databases
    /\ tx \in {None} \cup [version : Versions, next : 1 .. 5, db : Databases]
    /\ conn \in Requests \cup {None}
    /\ req \in [Requests -> {"none", "answered", "failed"} \cup Waiting]
    /\ files \in [{"cert", "key"} -> Authorities \cup {None, Torn}]
    /\ generated \in 0 .. MaxFaults + 1
    /\ pin \in [Enrols -> Authorities \cup {None}]
    /\ misread \in BOOLEAN
    /\ faults \in 0 .. MaxFaults

Init ==
    /\ release \in Versions
    /\ phase = "down"
    /\ applied = {}
    /\ db = [tables |-> {}, rows |-> [t \in Tables |-> {}]]
    /\ tx = None
    /\ conn = None
    /\ req = [r \in Requests |-> "none"]
    /\ files = [f \in {"cert", "key"} |-> None]
    /\ generated = 0
    /\ pin = [r \in Enrols |-> None]
    /\ misread = FALSE
    /\ faults = 0

-----------------------------------------------------------------------------
(* The start.  docker-compose.yml's restart policy starts what has ended.     *)

\* The operator installs another release.
Deploy(n) ==
    /\ phase = "down"
    /\ release' = n
    /\ UNCHANGED <<phase, applied, db, tx, handlerVars, caVars, faults>>

\* db.Open up to Migrate's loop.
Open ==
    /\ phase = "down"
    /\ phase' = "migrating"
    /\ UNCHANGED <<release, applied, db, tx, handlerVars, caVars, faults>>

\* The migrations Migrate does not skip; a newer release's are left alone.
Pending == (1 .. release) \ applied

\* applyMigration, BeginTx, of the first pending file in the order of versions.
BeginMigration(v) ==
    /\ phase = "migrating"
    /\ tx = None
    /\ v \in Pending /\ \A w \in Pending : v <= w
    /\ tx' = [version |-> v, next |-> 1, db |-> db]
    /\ UNCHANGED <<release, phase, applied, db, handlerVars, caVars, faults>>

\* What the file holds and records while a migration is under way: nothing of
\* the transaction.
FileDuringAutocommit(d) == d
FileDuring(d) == db
RecordedDuringEarly(v) == applied \cup {v}
RecordedDuring(v) == applied

Body == Migrations[tx.version]

\* The next statement of the file.
ExecStatement ==
    /\ phase = "migrating"
    /\ tx # None
    /\ tx.next <= Len(Body)
    /\ Runs(Body[tx.next], tx.db)
    /\ tx' = [version |-> tx.version, next |-> tx.next + 1, db |-> Result(Body[tx.next], tx.db)]
    /\ db' = FileDuring(Result(Body[tx.next], tx.db))
    /\ applied' = RecordedDuring(tx.version)
    /\ UNCHANGED <<release, phase, handlerVars, caVars, faults>>

\* The version is recorded and the transaction commits.
CommitMigration ==
    /\ phase = "migrating"
    /\ tx # None
    /\ tx.next > Len(Body)
    /\ applied' = applied \cup {tx.version}
    /\ db' = tx.db
    /\ tx' = None
    /\ UNCHANGED <<release, phase, handlerVars, caVars, faults>>

FinishMigrations ==
    /\ phase = "migrating"
    /\ tx = None
    /\ Pending = {}
    /\ phase' = "authority"
    /\ UNCHANGED <<release, applied, db, tx, handlerVars, caVars, faults>>

BothThereIfAny == files["cert"] # None \/ files["key"] # None
BothThereNever == FALSE
BothThere == files["cert"] # None /\ files["key"] # None
Readable  == files["cert"] \in Authorities /\ files["key"] \in Authorities

\* LoadOrCreate finds both files and parses them, and Start listens.
LoadAuthority ==
    /\ phase = "authority"
    /\ Readable
    /\ phase' = "serving"
    /\ UNCHANGED <<release, applied, db, tx, handlerVars, caVars, faults>>

\* LoadOrCreate generates an authority: one of the files is not there, or
\* cannot be read, whatever the reason.
GenerateAuthority ==
    /\ phase = "authority"
    /\ \/ ~BothThere /\ UNCHANGED <<misread, faults>>
       \/ BothThere /\ faults < MaxFaults /\ misread' = TRUE /\ faults' = faults + 1
    /\ generated' = generated + 1
    /\ phase' = "writeCert"
    /\ UNCHANGED <<release, applied, db, tx, handlerVars, files>>

\* The two WriteFiles of LoadOrCreate, the certificate's first; what a crash
\* has left is overwritten.
FileWritten == IF phase = "writeCert" THEN "cert" ELSE "key"
WhatIsWrittenIfNew(f) == IF files[f] = None THEN generated ELSE files[f]
WhatIsWritten(f) == generated

WriteAuthority ==
    /\ phase \in {"writeCert", "writeKey"}
    /\ files' = [files EXCEPT ![FileWritten] = WhatIsWritten(FileWritten)]
    /\ phase' = IF phase = "writeCert" THEN "writeKey" ELSE "serving"
    /\ UNCHANGED <<release, applied, db, tx, handlerVars, generated, misread, faults>>

\* An error ends the start: a statement that cannot be run, or a file of the
\* authority that cannot be parsed.
CannotStart ==
    \/ phase = "migrating" /\ tx # None /\ tx.next <= Len(Body) /\ ~Runs(Body[tx.next], tx.db)
    \/ phase = "authority" /\ BothThere /\ ~Readable
FailToStart ==
    /\ CannotStart
    /\ phase' = "down"
    /\ tx' = None
    /\ UNCHANGED <<release, applied, db, handlerVars, caVars, faults>>

-----------------------------------------------------------------------------
(* The handlers. *)

Serving == phase \in {"serving", "draining"}

Moved(r, to) == req' = [req EXCEPT ![r] = to]

\* A request is accepted; lists and uploads came with the second migration.
Accept(r) ==
    /\ phase = "serving"
    /\ req[r] = "none"
    /\ r \in Enrols \/ release >= 2
    /\ Moved(r, "sent")
    /\ UNCHANGED <<release, phase, applied, db, tx, conn, pin, caVars, faults>>

\* HandleListUpdates opens its cursor and reads the rows.
OpenCursor(r) ==
    /\ Serving /\ req[r] = "sent" /\ r \in Lists
    /\ conn = None
    /\ conn' = r
    /\ Moved(r, "reading")
    /\ UNCHANGED <<release, phase, applied, db, tx, pin, caVars, faults>>

\* rows.Close, before the queries for the histories.
HeldWhileListingByCursor(r) == r
HeldWhileListing(r) == None
CloseCursor(r) ==
    /\ Serving /\ req[r] = "reading"
    /\ conn' = HeldWhileListing(r)
    /\ Moved(r, "listing")
    /\ UNCHANGED <<release, phase, applied, db, tx, pin, caVars, faults>>

\* listChangelog of the last update; it and those before wait for the
\* connection each.
FinishList(r) ==
    /\ Serving /\ req[r] = "listing"
    /\ conn = None
    /\ Moved(r, "answered")
    /\ UNCHANGED <<release, phase, applied, db, tx, conn, pin, caVars, faults>>

\* HandleChangelogUpload and HandleEnroll, BeginTx.
BeginTx(r) ==
    /\ Serving /\ req[r] = "sent" /\ r \notin Lists
    /\ conn = None
    /\ conn' = r
    /\ Moved(r, "writing")
    /\ UNCHANGED <<release, phase, applied, db, tx, pin, caVars, faults>>

\* The rows of a transaction.
Written(r) == IF r \in Enrols THEN {"servers", "agents"} ELSE {"images", "entries"}
WithRows(r) ==
    [db EXCEPT !.rows = [t \in Tables |-> IF t \in Written(r) THEN @[t] \cup {r} ELSE @[t]]]

\* Whether the statements of a transaction succeed: their tables exist, and
\* IssueClient signs, which it does only with a key that is the certificate's.
CanWrite(r) ==
    /\ Written(r) \subseteq db.tables
    /\ r \in Enrols => files["cert"] = files["key"]

\* Upload: what is inserted and commits; the audit record is still to do.
CommitUpload(r) ==
    /\ Serving /\ req[r] = "writing" /\ r \in Uploads
    /\ CanWrite(r)
    /\ db' = WithRows(r)
    /\ conn' = None
    /\ Moved(r, "committed")
    /\ UNCHANGED <<release, phase, applied, tx, pin, caVars, faults>>

\* The audit record is written through the pool, not in the transaction.
Audit(r) ==
    /\ Serving /\ req[r] = "committed"
    /\ conn = None
    /\ Moved(r, "answered")
    /\ UNCHANGED <<release, phase, applied, db, tx, conn, pin, caVars, faults>>

\* Enrolment: the answer carries the authority's certificate, which the agent
\* pins.
CommitEnrol(r) ==
    /\ Serving /\ req[r] = "writing" /\ r \in Enrols
    /\ CanWrite(r)
    /\ db' = WithRows(r)
    /\ conn' = None
    /\ pin' = [pin EXCEPT ![r] = files["cert"]]
    /\ Moved(r, "answered")
    /\ UNCHANGED <<release, phase, applied, tx, caVars, faults>>

\* A statement, or IssueClient, cannot but fail: Rollback, and an error.
RefuseWrite(r) ==
    /\ Serving /\ req[r] = "writing"
    /\ ~CanWrite(r)
    /\ conn' = None
    /\ Moved(r, "failed")
    /\ UNCHANGED <<release, phase, applied, db, tx, pin, caVars, faults>>

\* Any statement fails, or the client goes away and its context with it: the
\* deferred Rollback and rows.Close give the connection back.
Abort(r) ==
    /\ Serving /\ InFlight(r)
    /\ Moved(r, "failed")
    /\ conn' = IF conn = r THEN None ELSE conn
    /\ UNCHANGED <<release, phase, applied, db, tx, pin, caVars, faults>>

-----------------------------------------------------------------------------
(* The end. *)

\* SIGTERM: Shutdown closes the listener.
Stop ==
    /\ phase = "serving"
    /\ phase' = "draining"
    /\ UNCHANGED <<release, applied, db, tx, handlerVars, caVars, faults>>

\* Shutdown returns, main closes the database and ends.
Close ==
    /\ phase = "draining"
    /\ \A r \in Requests : ~InFlight(r)
    /\ phase' = "down"
    /\ UNCHANGED <<release, applied, db, tx, handlerVars, caVars, faults>>

\* The process dies: killed, stopped before it serves, or by an error of the
\* disk or the listener.  A file it was writing may be cut short.
Crash ==
    /\ phase # "down"
    /\ faults < MaxFaults
    /\ faults' = faults + 1
    /\ phase' = "down"
    /\ tx' = None
    /\ conn' = None
    /\ req' = [r \in Requests |-> IF InFlight(r) THEN "failed" ELSE req[r]]
    /\ \/ files' = files
       \/ /\ phase \in {"writeCert", "writeKey"}
          /\ files' = [files EXCEPT ![FileWritten] = Torn]
    /\ UNCHANGED <<release, applied, db, pin, generated, misread>>

-----------------------------------------------------------------------------
Startup ==
    \/ Open
    \/ \E v \in Versions : BeginMigration(v)
    \/ ExecStatement \/ CommitMigration \/ FinishMigrations
    \/ LoadAuthority \/ GenerateAuthority \/ WriteAuthority
    \/ FailToStart

Work(r) ==
    \/ OpenCursor(r) \/ CloseCursor(r) \/ FinishList(r)
    \/ BeginTx(r) \/ CommitUpload(r) \/ Audit(r) \/ CommitEnrol(r) \/ RefuseWrite(r)

Next ==
    \/ \E n \in Versions : Deploy(n)
    \/ Startup
    \/ \E r \in Requests : Accept(r) \/ Work(r) \/ Abort(r)
    \/ Stop \/ Close \/ Crash

Spec == Init /\ [][Next]_vars

\* The supervisor starts the process, code that runs goes on, and handlers and
\* Shutdown do too.
Fairness ==
    /\ WF_vars(Startup)
    /\ WF_vars(Close)
    /\ \A r \in Requests : WF_vars(Work(r))
FairSpec == Spec /\ Fairness

-----------------------------------------------------------------------------
(* Properties. *)

\* "skipping any whose NNNN version is already recorded" (Migrate): the file
\* holds exactly the tables of the versions it records, however often the
\* process died in a migration and whatever releases ran; and a process that
\* serves finds every table of its release.
SchemaIsWhole ==
    /\ \E n \in 0 .. 3 : applied = 1 .. n /\ db.tables = Schema(n)
    /\ Serving => 1 .. release \subseteq applied

\* What was answered stays: the rows of an upload and of an enrolment survive
\* crashes, later migrations (0003 copies and drops their table) and the
\* release that is put back after one.
RowsSurvive ==
    \A r \in Uploads \cup Enrols : req[r] = "answered" =>
        \A t \in Written(r) : t \in db.tables /\ r \in db.rows[t]

\* What callers may rely on: seen from outside, the schema moves on by whole
\* versions while nothing is served, what a request writes is stored in all its
\* tables or in none, and it stays, through the end of the process at any step,
\* migrations that rebuild its table, and other releases (DurableStore).
Writers == Uploads \cup Enrols
schemaVersion == CHOOSE n \in 0 .. 3 : applied = 1 .. n
servedRelease == IF Serving THEN release ELSE 0
storedIn == [r \in Writers |-> {t \in Written(r) : t \in db.tables /\ r \in db.rows[t]}]
Store == INSTANCE DurableStore
    WITH Last <- 3,
         Parts <- [r \in Writers |-> Written(r)],
         Needed <- [r \in Writers |-> IF r \in Enrols THEN 1 ELSE 2],
         version <- schemaVersion,
         open <- servedRelease,
         stored <- storedIn,
         acknowledged <- {r \in Writers : req[r] = "answered"}
StoreIsDurable == Store!Spec

\* "generated on first run if no key file exists, and persisted" (agentca): as
\* long as its files can be read, the authority that enrolled agents have
\* pinned stays, and the files of a process that serves belong together.
AgentsKeepTheirAuthority ==
    ~misread =>
        /\ \A r \in Enrols : pin[r] # None => files["cert"] = pin[r] /\ files["key"] = pin[r]
        /\ Serving => files["cert"] = files["key"]

\* However a start was interrupted, the controller serves again, unless a crash
\* has left one of the authority's files cut short beside the other.
CannotRecover ==
    \E f, g \in {"cert", "key"} : f # g /\ files[f] = Torn /\ files[g] # None
ComesBack == []<>(phase = "serving" \/ CannotRecover)

\* "a second query while this cursor is open would deadlock"
\* (HandleListUpdates): every request that was accepted ends, in a process that
\* is told to stop as well, whoever else uses the connection.
EveryRequestEnds == \A r \in Requests : InFlight(r) ~> ~InFlight(r)
=============================================================================
