------------------------- MODULE Controller_proofs -------------------------
(* What Controller promises for any requests and any number of faults.       *)
EXTENDS Controller, TLAPS

-----------------------------------------------------------------------------
(* A migration under way.  TablesBefore, HistoryTable and DuringMigration   *)
(* say what its transaction has made of the tables before its next statement.*)

TablesBefore(v, k) ==
    CASE v = 1 /\ k = 1 -> {}
      [] v = 1 /\ k = 2 -> {"servers"}
      [] v = 1 /\ k = 3 -> Schema(1)
      [] v = 2 /\ k = 1 -> Schema(1)
      [] v = 2 /\ k = 2 -> Schema(1) \cup {"images"}
      [] v = 2 /\ k = 3 -> Schema(2)
      [] v = 3 /\ k = 1 -> Schema(2)
      [] v = 3 /\ k \in {2, 3} -> Schema(2) \cup {"entries_new"}
      [] v = 3 /\ k = 4 -> Schema(1) \cup {"images", "entries_new"}
      [] v = 3 /\ k = 5 -> Schema(3)

\* The table that holds the history's rows then.
HistoryTable(v, k) == IF v = 3 /\ k = 4 THEN "entries_new" ELSE "entries"

DuringMigration ==
    /\ tx.version \in 1 .. release
    /\ applied = 1 .. tx.version - 1
    /\ tx.next \in 1 .. (IF tx.version = 3 THEN 5 ELSE 3)
    /\ tx.db.tables = TablesBefore(tx.version, tx.next)
    /\ \A t \in {"servers", "agents", "images"} : tx.db.rows[t] = db.rows[t]
    /\ tx.db.rows[HistoryTable(tx.version, tx.next)] = db.rows["entries"]
    /\ tx.version = 3 /\ tx.next = 3 => tx.db.rows["entries_new"] = db.rows["entries"]

\* The database: whole after each commit, and complete for its release from the
\* end of the migrations on.
DatabaseInv ==
    /\ \E n \in 0 .. 3 : applied = 1 .. n /\ db.tables = Schema(n)
    /\ phase \notin {"down", "migrating"} => 1 .. release \subseteq applied
    /\ tx # None => phase = "migrating" /\ DuringMigration

\* The handlers: each request at a place of its own kind, and rows where they
\* have been committed.
HandlerInv ==
    /\ \A r \in Requests : req[r] \in {"reading", "listing"} => r \in Lists
    /\ \A r \in Requests : req[r] = "writing" => r \notin Lists
    /\ \A r \in Requests : req[r] = "committed" => r \in Uploads
    /\ \A r \in Uploads \cup Enrols : req[r] \in {"committed", "answered"} =>
          \A t \in Written(r) : t \in db.tables /\ r \in db.rows[t]

\* The authority: generated at most once more than there were faults; and as
\* long as its files could be read, a key stands beside its own certificate.
AuthorityInv ==
    /\ generated <= faults + 1
    /\ phase \in {"down", "migrating", "authority"} /\ ~BothThere => generated <= faults
    /\ phase \in {"writeCert", "writeKey"} => generated >= 1
    /\ phase = "writeKey" => files["cert"] = generated
    /\ Serving => Readable
    /\ ~misread =>
          /\ files["key"] # None =>
                /\ files["cert"] \in Authorities
                /\ files["key"] \in {files["cert"], Torn}
                /\ phase \notin {"writeCert", "writeKey"}
          /\ Serving => files["cert"] = files["key"]
          /\ \A r \in Enrols : pin[r] # None => files["cert"] = pin[r] /\ files["key"] = pin[r]

IInv == TypeOK /\ DatabaseInv /\ HandlerInv /\ AuthorityInv

-----------------------------------------------------------------------------
(* The statements of the migrations, one by one.                             *)
LEMMA Statements ==
    /\ Len(Migrations[1]) = 2 /\ Len(Migrations[2]) = 2 /\ Len(Migrations[3]) = 4
    /\ Migrations[1][1] = Create("servers") /\ Migrations[1][2] = Create("agents")
    /\ Migrations[2][1] = Create("images") /\ Migrations[2][2] = Create("entries")
    /\ Migrations[3][1] = Create("entries_new")
    /\ Migrations[3][2] = Copy("entries_new", "entries")
    /\ Migrations[3][3] = Drop("entries")
    /\ Migrations[3][4] = Rename("entries_new", "entries")
BY DEF Migrations

LEMMA Lengths == \A v \in Versions : Len(Migrations[v]) = IF v = 3 THEN 4 ELSE 2
<1> SUFFICES ASSUME NEW v \in Versions PROVE Len(Migrations[v]) = IF v = 3 THEN 4 ELSE 2
  OBVIOUS
<1>1. CASE v = 1
  BY <1>1, Statements
<1>2. CASE v = 2
  BY <1>2, Statements
<1>3. CASE v = 3
  BY <1>3, Statements
<1> QED
  BY <1>1, <1>2, <1>3 DEF Versions

(* Each statement leaves a database.                                         *)
LEMMA ResultIsDatabase ==
    ASSUME NEW d \in Databases, NEW v \in Versions, NEW k \in 1 .. Len(Migrations[v])
    PROVE  Result(Migrations[v][k], d) \in Databases
<1> DEFINE s == Migrations[v][k]
<1>1. s.do \in {"create", "copy", "drop", "rename"} /\ s.on \in Tables /\ s.from \in Tables
  BY Statements DEF Versions, Create, Copy, Drop, Rename, Tables
<1> HIDE DEF s
<1>2. (CASE s.do = "create" -> d.tables \cup {s.on}
         [] s.do = "copy"   -> d.tables
         [] s.do = "drop"   -> d.tables \ {s.on}
         [] s.do = "rename" -> (d.tables \ {s.from}) \cup {s.on}) \in SUBSET Tables
  BY <1>1 DEF Databases
<1>3. Result(s, d) \in Databases
  BY <1>1, <1>2 DEF Result, Databases
<1> QED
  BY <1>3 DEF s

LEMMA Initially == Init => IInv
<1> SUFFICES ASSUME Init PROVE IInv
  OBVIOUS
<1> USE FaultAssumption, RequestAssumption, FileAssumption DEF Init
<1>1. TypeOK
  <2>1. db \in Databases
    BY DEF Databases
  <2>2. conn \in Requests \cup {None} /\ tx \in {None} \cup [version : Versions, next : 1 .. 5, db : Databases]
    OBVIOUS
  <2>3. /\ req \in [Requests -> {"none", "answered", "failed"} \cup Waiting]
        /\ files \in [{"cert", "key"} -> Authorities \cup {None, Torn}]
        /\ pin \in [Enrols -> Authorities \cup {None}]
    OBVIOUS
  <2>4. generated \in 0 .. MaxFaults + 1 /\ faults \in 0 .. MaxFaults
    OBVIOUS
  <2> QED
    BY <2>1, <2>2, <2>3, <2>4 DEF TypeOK, Versions
<1>2. DatabaseInv
  <2>1. applied = 1 .. 0 /\ db.tables = Schema(0)
    BY DEF Schema
  <2> QED
    BY <2>1 DEF DatabaseInv
<1>3. HandlerInv
  BY DEF HandlerInv, Requests
<1>4. AuthorityInv
  BY DEF AuthorityInv, Serving, BothThere, Readable
<1> QED
  BY <1>1, <1>2, <1>3, <1>4 DEF IInv

-----------------------------------------------------------------------------
(* Type correctness is inductive with what the migrations and the authority  *)
(* add: the number of the next statement, and how many were generated.       *)
LEMMA TypeStep == IInv /\ [Next]_vars => TypeOK'
<1> SUFFICES ASSUME IInv, [Next]_vars PROVE TypeOK'
  OBVIOUS
<1> USE FaultAssumption, RequestAssumption, FileAssumption
<1>0. TypeOK /\ DatabaseInv /\ AuthorityInv
  BY DEF IInv
<1>1. CASE \E n \in Versions : Deploy(n)
  BY <1>0, <1>1 DEF TypeOK, Deploy, handlerVars, caVars
<1>2. CASE Open
  BY <1>0, <1>2 DEF TypeOK, Open, handlerVars, caVars
<1>3. CASE \E v \in Versions : BeginMigration(v)
  <2>1. PICK v \in Versions : BeginMigration(v)
    BY <1>3
  <2>2. tx' \in [version : Versions, next : 1 .. 5, db : Databases]
    BY <1>0, <2>1 DEF TypeOK, BeginMigration
  <2> QED
    BY <1>0, <2>1, <2>2 DEF TypeOK, BeginMigration, handlerVars, caVars
<1>4. CASE ExecStatement
  <2>1. tx \in [version : Versions, next : 1 .. 5, db : Databases] /\ tx.next \in 1 .. Len(Body)
    BY <1>0, <1>4 DEF TypeOK, ExecStatement
  <2>2. Result(Body[tx.next], tx.db) \in Databases
    BY <2>1, ResultIsDatabase DEF Body
  <2>3. Len(Body) = IF tx.version = 3 THEN 4 ELSE 2
    BY <2>1, Lengths DEF Body
  <2>4. tx' = [version |-> tx.version, next |-> tx.next + 1, db |-> Result(Body[tx.next], tx.db)]
    BY <1>4 DEF ExecStatement
  <2>5. tx.next + 1 \in 1 .. 5
    BY <2>1, <2>3
  <2>6. tx' \in [version : Versions, next : 1 .. 5, db : Databases]
    BY <2>1, <2>2, <2>4, <2>5
  <2> QED
    BY <1>0, <1>4, <2>6 DEF TypeOK, ExecStatement, FileDuring, RecordedDuring, handlerVars, caVars
<1>5. CASE CommitMigration
  BY <1>0, <1>5 DEF TypeOK, CommitMigration, handlerVars, caVars
<1>6. CASE FinishMigrations
  BY <1>0, <1>6 DEF TypeOK, FinishMigrations, handlerVars, caVars
<1>7. CASE LoadAuthority
  BY <1>0, <1>7 DEF TypeOK, LoadAuthority, handlerVars, caVars
<1>8. CASE GenerateAuthority
  <2>1. generated + 1 \in 0 .. MaxFaults + 1
    BY <1>0, <1>8 DEF TypeOK, AuthorityInv, GenerateAuthority
  <2>2. faults' \in 0 .. MaxFaults
    <3>1. faults' = faults \/ (faults < MaxFaults /\ faults' = faults + 1)
      BY <1>8 DEF GenerateAuthority
    <3> QED
      BY <1>0, <3>1 DEF TypeOK
  <2>5. misread' \in BOOLEAN
    <3>1. misread' = misread \/ misread' = TRUE
      BY <1>8 DEF GenerateAuthority
    <3> QED
      BY <1>0, <3>1 DEF TypeOK
  <2>3. UNCHANGED <<release, applied, db, tx, conn, req, pin, files>>
    BY <1>8 DEF GenerateAuthority, handlerVars
  <2>4. phase' = "writeCert" /\ generated' = generated + 1
    BY <1>8 DEF GenerateAuthority
  <2> QED
    BY <1>0, <2>1, <2>2, <2>3, <2>4, <2>5 DEF TypeOK
<1>9. CASE WriteAuthority
  <2>1. generated \in Authorities
    BY <1>0, <1>9 DEF TypeOK, AuthorityInv, WriteAuthority, Authorities
  <2> QED
    BY <1>0, <1>9, <2>1 DEF TypeOK, WriteAuthority, FileWritten, WhatIsWritten, handlerVars
<1>10. CASE FailToStart
  BY <1>0, <1>10 DEF TypeOK, FailToStart, handlerVars, caVars
<1>11. ASSUME NEW r \in Requests, Accept(r) \/ Work(r) \/ Abort(r)
       PROVE  TypeOK'
  <2>1. CASE Accept(r) \/ OpenCursor(r) \/ CloseCursor(r) \/ FinishList(r) \/ BeginTx(r)
             \/ Audit(r) \/ RefuseWrite(r) \/ Abort(r)
    BY <1>0, <2>1 DEF TypeOK, Accept, OpenCursor, CloseCursor, FinishList, BeginTx, Audit,
       RefuseWrite, Abort, Moved, HeldWhileListing, Waiting, caVars
  <2>2. WithRows(r) \in Databases
    BY <1>0 DEF TypeOK, WithRows, Databases
  <2>3. CASE CommitUpload(r)
    BY <1>0, <2>2, <2>3 DEF TypeOK, CommitUpload, Moved, Waiting, caVars
  <2>4. CASE CommitEnrol(r)
    <3>1. files["cert"] \in Authorities
      BY <1>0, <2>4 DEF CommitEnrol, CanWrite, AuthorityInv, Readable, Serving
    <3> QED
      BY <1>0, <2>2, <2>4, <3>1 DEF TypeOK, CommitEnrol, Moved, Waiting, caVars
  <2> QED
    BY <1>11, <2>1, <2>3, <2>4 DEF Work
<1>12. CASE Stop \/ Close
  BY <1>0, <1>12 DEF TypeOK, Stop, Close, handlerVars, caVars
<1>13. CASE Crash
  BY <1>0, <1>13 DEF TypeOK, Crash, FileWritten
<1>14. CASE UNCHANGED vars
  BY <1>0, <1>14 DEF TypeOK, vars, handlerVars, caVars
<1> QED
  BY <1>1, <1>2, <1>3, <1>4, <1>5, <1>6, <1>7, <1>8, <1>9, <1>10, <1>11, <1>12, <1>13, <1>14
     DEF Next, Startup

-----------------------------------------------------------------------------
(* The database.  A statement moves the transaction to its next row of       *)
(* TablesBefore; a commit makes the file the last row, which is the schema.  *)
LEMMA StatementStep ==
    ASSUME TypeOK, tx # None, DuringMigration, tx.next <= Len(Body)
    PROVE  /\ Runs(Body[tx.next], tx.db)
           /\ Result(Body[tx.next], tx.db).tables = TablesBefore(tx.version, tx.next + 1)
           /\ \A t \in {"servers", "agents", "images"} :
                 Result(Body[tx.next], tx.db).rows[t] = db.rows[t]
           /\ Result(Body[tx.next], tx.db).rows[HistoryTable(tx.version, tx.next + 1)]
                 = db.rows["entries"]
           /\ tx.version = 3 /\ tx.next = 2 =>
                 Result(Body[tx.next], tx.db).rows["entries_new"] = db.rows["entries"]
<1>1. tx \in [version : Versions, next : 1 .. 5, db : Databases]
  BY DEF TypeOK
<1>2. \/ tx.version = 1 /\ tx.next = 1
      \/ tx.version = 1 /\ tx.next = 2
      \/ tx.version = 2 /\ tx.next = 1
      \/ tx.version = 2 /\ tx.next = 2
      \/ tx.version = 3 /\ tx.next = 1
      \/ tx.version = 3 /\ tx.next = 2
      \/ tx.version = 3 /\ tx.next = 3
      \/ tx.version = 3 /\ tx.next = 4
  <2>1. tx.version = 1 \/ tx.version = 2 \/ tx.version = 3
    BY <1>1 DEF Versions
  <2>2. tx.next \in 1 .. 5
    BY <1>1
  <2>3. tx.next <= IF tx.version = 3 THEN 4 ELSE 2
    BY <1>1, Lengths DEF Body
  <2> QED
    BY <2>1, <2>2, <2>3
<1> USE DEF DuringMigration, Runs, Result, TablesBefore, HistoryTable, Schema, Tables, Body,
        Create, Copy, Drop, Rename
<1>3. CASE tx.version = 1 /\ tx.next = 1
  BY <1>3, Statements
<1>4. CASE tx.version = 1 /\ tx.next = 2
  BY <1>4, Statements
<1>5. CASE tx.version = 2 /\ tx.next = 1
  BY <1>5, Statements
<1>6. CASE tx.version = 2 /\ tx.next = 2
  BY <1>6, Statements
<1>7. CASE tx.version = 3 /\ tx.next = 1
  BY <1>7, Statements
<1>8. CASE tx.version = 3 /\ tx.next = 2
  BY <1>8, Statements
<1>9. CASE tx.version = 3 /\ tx.next = 3
  BY <1>9, Statements
<1>10. CASE tx.version = 3 /\ tx.next = 4
  BY <1>10, Statements
<1> QED
  BY <1>2, <1>3, <1>4, <1>5, <1>6, <1>7, <1>8, <1>9, <1>10

\* What leaves the database, its version table and its transaction alone.
LEMMA DatabaseUntouched ==
    ASSUME DatabaseInv, UNCHANGED <<applied, db, tx, release>>,
           phase' \notin {"down", "migrating"} => phase \notin {"down", "migrating"} \/ 1 .. release \subseteq applied,
           tx # None => phase' = "migrating"
    PROVE  DatabaseInv'
BY DEF DatabaseInv, DuringMigration

LEMMA DatabaseStep == IInv /\ [Next]_vars => DatabaseInv'
<1> SUFFICES ASSUME IInv, [Next]_vars PROVE DatabaseInv'
  OBVIOUS
<1> USE FaultAssumption, RequestAssumption, FileAssumption
<1>0. TypeOK /\ DatabaseInv
  BY DEF IInv
<1>1. CASE \E n \in Versions : Deploy(n)
  BY <1>0, <1>1 DEF DatabaseInv, Deploy
<1>2. CASE Open
  <2>1. tx = None
    BY <1>0, <1>2 DEF DatabaseInv, Open
  <2> QED
    BY <1>0, <1>2, <2>1, DatabaseUntouched DEF Open
<1>3. CASE \E v \in Versions : BeginMigration(v)
  <2>1. PICK v \in Versions : BeginMigration(v)
    BY <1>3
  <2>2. PICK n \in 0 .. 3 : applied = 1 .. n /\ db.tables = Schema(n)
    BY <1>0 DEF DatabaseInv
  <2>3. v = n + 1 /\ v <= release
    <3>1. v \in 1 .. release /\ v \notin 1 .. n
      BY <2>1, <2>2 DEF BeginMigration, Pending
    <3>2. n + 1 \in 1 .. release
      BY <3>1, <1>0 DEF TypeOK, Versions
    <3>3. n + 1 \in Pending
      BY <2>2, <3>2 DEF Pending
    <3>4. v <= n + 1
      BY <2>1, <3>3 DEF BeginMigration
    <3> QED
      BY <3>1, <3>4, <1>0 DEF TypeOK, Versions
  <2>4. UNCHANGED <<release, phase, applied, db>> /\ phase = "migrating"
        /\ tx' = [version |-> v, next |-> 1, db |-> db]
    BY <2>1 DEF BeginMigration
  <2>5. db.tables = TablesBefore(v, 1)
    <3>1. CASE v = 1
      BY <2>2, <2>3, <3>1 DEF TablesBefore, Schema
    <3>2. CASE v = 2
      BY <2>2, <2>3, <3>2 DEF TablesBefore, Schema
    <3>3. CASE v = 3
      BY <2>2, <2>3, <3>3 DEF TablesBefore, Schema
    <3> QED
      BY <3>1, <3>2, <3>3 DEF Versions
  <2>6. DuringMigration'
    <3>1. v \in 1 .. release /\ applied = 1 .. v - 1
      BY <2>2, <2>3, <1>0 DEF TypeOK, Versions
    <3> QED
      BY <2>4, <2>5, <3>1 DEF DuringMigration, HistoryTable
  <2> QED
    BY <1>0, <2>4, <2>6 DEF DatabaseInv
<1>4. CASE ExecStatement
  <2>1. tx # None /\ DuringMigration /\ tx.next <= Len(Body)
    BY <1>0, <1>4 DEF DatabaseInv, ExecStatement
  <2> DEFINE d == Result(Body[tx.next], tx.db)
  <2>2. /\ d.tables = TablesBefore(tx.version, tx.next + 1)
        /\ \A t \in {"servers", "agents", "images"} : d.rows[t] = db.rows[t]
        /\ d.rows[HistoryTable(tx.version, tx.next + 1)] = db.rows["entries"]
        /\ tx.version = 3 /\ tx.next = 2 => d.rows["entries_new"] = db.rows["entries"]
    BY <1>0, <2>1, StatementStep
  <2>3. UNCHANGED <<release, phase, applied, db>> /\ phase = "migrating"
        /\ tx' = [version |-> tx.version, next |-> tx.next + 1, db |-> d]
    BY <1>4 DEF ExecStatement, FileDuring, RecordedDuring
  <2> HIDE DEF d
  <2>4. tx.next + 1 \in 1 .. (IF tx.version = 3 THEN 5 ELSE 3)
    <3>1. tx.version \in Versions
      BY <1>0, <2>1 DEF TypeOK
    <3>2. tx.next <= IF tx.version = 3 THEN 4 ELSE 2
      BY <2>1, <3>1, Lengths DEF Body
    <3> QED
      BY <2>1, <3>2 DEF DuringMigration
  <2>5. DuringMigration'
    <3>1. tx.next + 1 = 3 => tx.next = 2
      BY <2>1 DEF DuringMigration
    <3>2. tx.version \in 1 .. release /\ applied = 1 .. tx.version - 1
      BY <2>1 DEF DuringMigration
    <3> QED
      BY <2>2, <2>3, <2>4, <3>1, <3>2 DEF DuringMigration
  <2> QED
    BY <1>0, <2>3, <2>5 DEF DatabaseInv
<1>5. CASE CommitMigration
  <2>1. tx # None /\ DuringMigration /\ tx.next > Len(Body)
    BY <1>0, <1>5 DEF DatabaseInv, CommitMigration
  <2>2. tx.version \in Versions
    BY <1>0, <2>1 DEF TypeOK
  <2>3. tx.next = IF tx.version = 3 THEN 5 ELSE 3
    BY <2>1, <2>2, Lengths DEF Body, DuringMigration
  <2>4. tx.db.tables = Schema(tx.version)
    BY <2>1, <2>2, <2>3 DEF DuringMigration, TablesBefore, Versions, Schema
  <2>5. applied \cup {tx.version} = 1 .. tx.version
    BY <2>1, <2>2 DEF DuringMigration, Versions
  <2>6. applied' = 1 .. tx.version /\ db'.tables = Schema(tx.version) /\ tx' = None /\ phase' = "migrating"
    BY <1>5, <2>4, <2>5 DEF CommitMigration
  <2> QED
    BY <2>2, <2>6 DEF DatabaseInv, Versions
<1>6. CASE FinishMigrations
  <2>1. 1 .. release \subseteq applied
    BY <1>6 DEF FinishMigrations, Pending
  <2> QED
    BY <1>0, <1>6, <2>1, DatabaseUntouched DEF FinishMigrations
<1>7. CASE LoadAuthority \/ GenerateAuthority \/ WriteAuthority \/ Stop
  <2>1. UNCHANGED <<applied, db, tx, release>> /\ phase \notin {"down", "migrating"}
    BY <1>7 DEF LoadAuthority, GenerateAuthority, WriteAuthority, Stop
  <2>2. tx = None
    BY <1>0, <2>1 DEF DatabaseInv
  <2> QED
    BY <1>0, <2>1, <2>2, DatabaseUntouched
<1>8. CASE FailToStart \/ Crash
  BY <1>0, <1>8 DEF DatabaseInv, FailToStart, Crash
<1>9. CASE Close
  BY <1>0, <1>9 DEF DatabaseInv, Close
<1>10. ASSUME NEW r \in Requests, Accept(r) \/ Work(r) \/ Abort(r)
       PROVE  DatabaseInv'
  <2>1. Serving /\ UNCHANGED <<release, phase, applied, tx>> /\ (db' = db \/ db' = WithRows(r))
    BY <1>10 DEF Accept, Work, OpenCursor, CloseCursor, FinishList, BeginTx, CommitUpload, Audit,
       CommitEnrol, RefuseWrite, Abort, Serving
  <2>2. tx = None
    BY <1>0, <2>1 DEF DatabaseInv, Serving
  <2>3. db'.tables = db.tables
    BY <1>0, <2>1 DEF TypeOK, Databases, WithRows
  <2> QED
    BY <1>0, <2>1, <2>2, <2>3 DEF DatabaseInv
<1>11. CASE UNCHANGED vars
  BY <1>0, <1>11, DatabaseUntouched DEF vars, DatabaseInv
<1> QED
  BY <1>1, <1>2, <1>3, <1>4, <1>5, <1>6, <1>7, <1>8, <1>9, <1>10, <1>11 DEF Next, Startup

-----------------------------------------------------------------------------
(* The handlers.  A migration that ends has kept every table of the file and *)
(* the rows of those that the handlers write.                                *)
LEMMA MigrationKeepsRows ==
    ASSUME TypeOK, DatabaseInv, tx # None, tx.next > Len(Body)
    PROVE  /\ db.tables \subseteq tx.db.tables
           /\ \A t \in {"servers", "agents", "images", "entries"} : tx.db.rows[t] = db.rows[t]
<1>1. tx.version \in Versions /\ DuringMigration
  BY DEF TypeOK, DatabaseInv
<1>2. tx.next = IF tx.version = 3 THEN 5 ELSE 3
  BY <1>1, Lengths DEF Body, DuringMigration
<1>3. PICK n \in 0 .. 3 : applied = 1 .. n /\ db.tables = Schema(n)
  BY DEF DatabaseInv
<1>4. n = tx.version - 1
  <2>1. 1 .. n = 1 .. tx.version - 1
    BY <1>1, <1>3 DEF DuringMigration
  <2>2. n <= tx.version - 1
    <3>1. CASE n = 0
      BY <1>1, <3>1 DEF Versions
    <3>2. CASE n \in 1 .. 3
      <4>1. n \in 1 .. n
        BY <3>2
      <4> QED
        BY <1>1, <2>1, <4>1 DEF Versions
    <3> QED
      BY <1>3, <3>1, <3>2
  <2>3. tx.version - 1 <= n
    <3>1. CASE tx.version = 1
      BY <1>3, <3>1
    <3>2. CASE tx.version \in 2 .. 3
      <4>1. tx.version - 1 \in 1 .. tx.version - 1
        BY <3>2
      <4> QED
        BY <1>3, <2>1, <4>1
    <3> QED
      BY <1>1, <3>1, <3>2 DEF Versions
  <2> QED
    BY <1>1, <1>3, <2>2, <2>3 DEF Versions
<1>5. tx.db.tables = Schema(tx.version)
  BY <1>1, <1>2 DEF DuringMigration, TablesBefore, Versions, Schema
<1>6. Schema(n) \subseteq Schema(tx.version)
  BY <1>1, <1>4 DEF Schema, Versions
<1>7. \A t \in {"servers", "agents", "images"} : tx.db.rows[t] = db.rows[t]
  BY <1>1 DEF DuringMigration
<1>8. tx.db.rows["entries"] = db.rows["entries"]
  <2>1. HistoryTable(tx.version, tx.next) = "entries"
    BY <1>2 DEF HistoryTable
  <2> QED
    BY <1>1, <2>1 DEF DuringMigration
<1> QED
  BY <1>3, <1>5, <1>6, <1>7, <1>8

\* What leaves the requests alone and keeps tables and rows keeps HandlerInv.
LEMMA HandlersUntouched ==
    ASSUME HandlerInv, UNCHANGED req, db.tables \subseteq db'.tables,
           \A t \in {"servers", "agents", "images", "entries"} : db.rows[t] \subseteq db'.rows[t]
    PROVE  HandlerInv'
BY DEF HandlerInv, Written

LEMMA HandlerStep == IInv /\ [Next]_vars => HandlerInv'
<1> SUFFICES ASSUME IInv, [Next]_vars PROVE HandlerInv'
  OBVIOUS
<1> USE RequestAssumption
<1>0. TypeOK /\ DatabaseInv /\ HandlerInv
  BY DEF IInv
<1>1. CASE UNCHANGED <<req, db>>
  BY <1>0, <1>1, HandlersUntouched
<1>2. CASE CommitMigration
  <2>1. tx # None /\ tx.next > Len(Body) /\ db' = tx.db /\ req' = req
    BY <1>2 DEF CommitMigration, handlerVars
  <2> QED
    BY <1>0, <2>1, MigrationKeepsRows, HandlersUntouched
<1>3. ASSUME NEW r \in Requests, Accept(r) \/ Work(r) \/ Abort(r)
      PROVE  HandlerInv'
  <2>1. req \in [Requests -> {"none", "answered", "failed"} \cup Waiting] /\ db \in Databases
    BY <1>0 DEF TypeOK
  <2>2. CASE OpenCursor(r) \/ CloseCursor(r) \/ FinishList(r)
    <3>1. r \in Lists /\ db' = db
      BY <1>0, <2>2 DEF HandlerInv, OpenCursor, CloseCursor, FinishList
    <3>2. req' = [req EXCEPT ![r] = "reading"] \/ req' = [req EXCEPT ![r] = "listing"]
          \/ req' = [req EXCEPT ![r] = "answered"]
      BY <2>2 DEF OpenCursor, CloseCursor, FinishList, Moved
    <3> QED
      BY <1>0, <2>1, <3>1, <3>2 DEF HandlerInv, Requests
  <2>3. CASE Accept(r) \/ RefuseWrite(r) \/ Abort(r)
    <3>1. db' = db /\ (req' = [req EXCEPT ![r] = "sent"] \/ req' = [req EXCEPT ![r] = "failed"])
      BY <2>3 DEF Accept, RefuseWrite, Abort, Moved
    <3> QED
      BY <1>0, <2>1, <3>1 DEF HandlerInv, Requests
  <2>4. CASE BeginTx(r)
    <3>1. r \notin Lists /\ db' = db /\ req' = [req EXCEPT ![r] = "writing"]
      BY <2>4 DEF BeginTx, Moved
    <3> QED
      BY <1>0, <2>1, <3>1 DEF HandlerInv, Requests
  <2>5. CASE CommitUpload(r) \/ CommitEnrol(r)
    <3>1. /\ r \in Uploads \cup Enrols /\ db' = WithRows(r) /\ Written(r) \subseteq db.tables
          /\ \/ r \in Uploads /\ req' = [req EXCEPT ![r] = "committed"]
             \/ req' = [req EXCEPT ![r] = "answered"]
      BY <2>5 DEF CommitUpload, CommitEnrol, CanWrite, Moved
    <3>2. /\ db'.tables = db.tables
          /\ \A t \in Tables : db'.rows[t] = IF t \in Written(r) THEN db.rows[t] \cup {r} ELSE db.rows[t]
      BY <2>1, <3>1 DEF WithRows, Databases
    <3>3. \A q \in Uploads \cup Enrols : Written(q) \subseteq Tables
      BY DEF Written, Tables
    <3>4. ASSUME NEW q \in Uploads \cup Enrols, req'[q] \in {"committed", "answered"}
          PROVE  \A t \in Written(q) : t \in db'.tables /\ q \in db'.rows[t]
      <4>1. CASE q = r
        BY <3>1, <3>2, <3>3, <4>1
      <4>2. CASE q # r
        <5>1. req[q] \in {"committed", "answered"}
          BY <2>1, <3>1, <3>4, <4>2 DEF Requests
        <5>2. \A t \in Written(q) : t \in db.tables /\ q \in db.rows[t]
          BY <1>0, <5>1 DEF HandlerInv
        <5> QED
          BY <3>2, <3>3, <5>2
      <4> QED
        BY <4>1, <4>2
    <3>5. \A q \in Requests : req'[q] # req[q] => q = r /\ req'[q] \in {"committed", "answered"}
      BY <2>1, <3>1
    <3>6. req'[r] = "committed" => r \in Uploads
      BY <2>1, <3>1 DEF Requests
    <3> QED
      BY <1>0, <3>4, <3>5, <3>6 DEF HandlerInv
  <2>6. CASE Audit(r)
    <3>1. db' = db /\ req[r] = "committed" /\ req' = [req EXCEPT ![r] = "answered"]
      BY <2>6 DEF Audit, Moved
    <3> QED
      BY <1>0, <2>1, <3>1 DEF HandlerInv, Requests
  <2> QED
    BY <1>3, <2>2, <2>3, <2>4, <2>5, <2>6 DEF Work
<1>4. CASE Crash
  <2>1. db' = db /\ req' = [r \in Requests |-> IF InFlight(r) THEN "failed" ELSE req[r]]
    BY <1>4 DEF Crash
  <2>2. \A r \in Requests : req'[r] = req[r] \/ req'[r] = "failed"
    BY <2>1
  <2> QED
    BY <1>0, <2>1, <2>2 DEF HandlerInv, Requests
<1>5. CASE (\E n \in Versions : Deploy(n)) \/ Open \/ (\E v \in Versions : BeginMigration(v))
           \/ ExecStatement \/ FinishMigrations \/ LoadAuthority \/ GenerateAuthority
           \/ WriteAuthority \/ FailToStart \/ Stop \/ Close
  <2>1. UNCHANGED <<req, db>>
    BY <1>5 DEF Deploy, Open, BeginMigration, ExecStatement, FileDuring, FinishMigrations,
       LoadAuthority, GenerateAuthority, WriteAuthority, FailToStart, Stop, Close, handlerVars
  <2> QED
    BY <1>1, <2>1
<1> QED
  BY <1>1, <1>2, <1>3, <1>4, <1>5 DEF Next, Startup, vars, handlerVars

-----------------------------------------------------------------------------
(* The authority.  What leaves its files alone keeps AuthorityInv when it     *)
(* neither enters the phases that the files matter to nor hands out a pin.   *)
LEMMA AuthorityUntouched ==
    ASSUME AuthorityInv, UNCHANGED <<files, generated, misread, faults, pin>>,
           \/ phase' = phase
           \/ /\ phase \in {"down", "migrating", "authority", "serving", "draining"}
              /\ phase' \in {"down", "migrating", "authority"}
           \/ phase = "serving" /\ phase' = "draining"
           \/ phase = "authority" /\ Readable /\ phase' = "serving"
    PROVE  AuthorityInv'
<1> USE FaultAssumption, FileAssumption DEF AuthorityInv, BothThere, Readable, Serving, Authorities
<1>1. CASE phase' = phase
  BY <1>1
<1>2. CASE phase \in {"down", "migrating", "authority"} /\ phase' \in {"down", "migrating", "authority"}
  BY <1>2
<1>3. CASE phase \in {"serving", "draining"} /\ phase' \in {"down", "migrating", "authority"}
  <2>1. BothThere
    BY <1>3
  <2> QED
    BY <1>3, <2>1
<1>4. CASE phase = "serving" /\ phase' = "draining"
  BY <1>4
<1>5. CASE phase = "authority" /\ Readable /\ phase' = "serving"
  BY <1>5
<1> QED
  BY <1>1, <1>2, <1>3, <1>4, <1>5

LEMMA AuthorityStep == IInv /\ [Next]_vars => AuthorityInv'
<1> SUFFICES ASSUME IInv, [Next]_vars PROVE AuthorityInv'
  OBVIOUS
<1> USE FaultAssumption, FileAssumption
<1>0. TypeOK /\ AuthorityInv /\ DatabaseInv
  BY DEF IInv
<1>00. /\ None \notin Authorities /\ Torn \notin Authorities /\ Authorities \subseteq Nat
       /\ generated \in Nat /\ faults \in Nat
       /\ files \in [{"cert", "key"} -> Authorities \cup {None, Torn}]
  BY <1>0 DEF TypeOK, Authorities
<1>1. CASE (\E n \in Versions : Deploy(n)) \/ Open \/ (\E v \in Versions : BeginMigration(v))
           \/ ExecStatement \/ CommitMigration \/ FinishMigrations \/ LoadAuthority \/ FailToStart
           \/ Stop \/ Close
  <2>1. UNCHANGED <<files, generated, misread, faults, pin>>
    BY <1>1 DEF Deploy, Open, BeginMigration, ExecStatement, CommitMigration, FinishMigrations,
       LoadAuthority, FailToStart, Stop, Close, handlerVars, caVars
  <2>2. \/ phase' = phase
        \/ /\ phase \in {"down", "migrating", "authority", "serving", "draining"}
           /\ phase' \in {"down", "migrating", "authority"}
        \/ phase = "serving" /\ phase' = "draining"
        \/ phase = "authority" /\ Readable /\ phase' = "serving"
    BY <1>1 DEF Deploy, Open, BeginMigration, ExecStatement, CommitMigration, FinishMigrations,
       LoadAuthority, FailToStart, CannotStart, Stop, Close
  <2> QED
    BY <1>0, <2>1, <2>2, AuthorityUntouched
<1>2. CASE GenerateAuthority
  <2>1. /\ phase = "authority" /\ phase' = "writeCert" /\ generated' = generated + 1
        /\ UNCHANGED <<files, pin>>
    BY <1>2 DEF GenerateAuthority, handlerVars
  <2>2. CASE ~BothThere /\ UNCHANGED <<misread, faults>>
    <3>1. generated <= faults
      BY <1>0, <2>1, <2>2 DEF AuthorityInv
    <3>2. ~misread => files["key"] = None
      BY <1>0, <1>00, <2>2 DEF AuthorityInv, BothThere
    <3>3. ~misread => \A r \in Enrols : pin[r] = None
      BY <1>0, <3>2 DEF AuthorityInv
    <3> QED
      BY <1>00, <2>1, <2>2, <3>1, <3>2, <3>3 DEF AuthorityInv, Serving
  <2>3. CASE BothThere /\ misread' = TRUE /\ faults' = faults + 1
    <3>1. generated' <= faults' + 1 /\ generated' >= 1
      BY <1>0, <1>00, <2>1, <2>3 DEF AuthorityInv
    <3> QED
      BY <2>1, <2>3, <3>1 DEF AuthorityInv, Serving
  <2> QED
    BY <1>2, <2>2, <2>3 DEF GenerateAuthority
<1>3. CASE WriteAuthority
  <2>1. generated \in Authorities /\ generated <= faults + 1
    BY <1>0, <1>3 DEF TypeOK, AuthorityInv, WriteAuthority, Authorities
  <2>2. UNCHANGED <<generated, misread, faults, pin>>
    BY <1>3 DEF WriteAuthority, handlerVars
  <2>3. ~misread => files["key"] = None /\ \A r \in Enrols : pin[r] = None
    BY <1>0, <1>00, <1>3 DEF AuthorityInv, WriteAuthority
  <2>4. CASE phase = "writeCert"
    <3>1. files' = [files EXCEPT !["cert"] = generated] /\ phase' = "writeKey"
      BY <1>3, <2>4 DEF WriteAuthority, FileWritten, WhatIsWritten
    <3>2. files'["cert"] = generated /\ files'["key"] = files["key"]
      BY <1>00, <3>1
    <3>3. generated' >= 1 /\ generated' <= faults' + 1 /\ phase' = "writeKey"
      BY <2>1, <2>2, <3>1 DEF Authorities
    <3> QED
      BY <1>00, <2>2, <2>3, <3>2, <3>3 DEF AuthorityInv, Serving
  <2>5. CASE phase = "writeKey"
    <3>1. files' = [files EXCEPT !["key"] = generated] /\ phase' = "serving"
      BY <1>3, <2>5 DEF WriteAuthority, FileWritten, WhatIsWritten
    <3>2. files'["key"] = generated /\ files'["cert"] = generated
      BY <1>0, <1>00, <2>5, <3>1 DEF AuthorityInv
    <3> QED
      BY <1>00, <2>1, <2>2, <2>3, <3>1, <3>2 DEF AuthorityInv, Serving, Readable, Authorities
  <2> QED
    BY <1>3, <2>4, <2>5 DEF WriteAuthority
<1>4. ASSUME NEW r \in Requests, Accept(r) \/ Work(r) \/ Abort(r)
      PROVE  AuthorityInv'
  <2>1. CASE pin' = pin
    <3>1. UNCHANGED <<files, generated, misread, faults, phase>>
      BY <1>4 DEF Accept, Work, OpenCursor, CloseCursor, FinishList, BeginTx, CommitUpload, Audit,
         CommitEnrol, RefuseWrite, Abort, caVars
    <3> QED
      BY <1>0, <2>1, <3>1, AuthorityUntouched
  <2>2. CASE CommitEnrol(r)
    <3>1. /\ UNCHANGED <<files, generated, misread, faults, phase>>
          /\ files["cert"] = files["key"] /\ pin' = [pin EXCEPT ![r] = files["cert"]]
      BY <2>2 DEF CommitEnrol, CanWrite, caVars
    <3>2. \A q \in Enrols : pin'[q] = pin[q] \/ pin'[q] = files["cert"]
      BY <1>0, <3>1 DEF TypeOK
    <3> QED
      BY <1>0, <3>1, <3>2 DEF AuthorityInv, Serving, Readable, BothThere
  <2>3. pin' = pin \/ CommitEnrol(r)
    BY <1>4 DEF Accept, Work, OpenCursor, CloseCursor, FinishList, BeginTx, CommitUpload, Audit,
       RefuseWrite, Abort
  <2> QED
    BY <2>1, <2>2, <2>3
<1>5. CASE Crash
  <2>1. phase' = "down" /\ faults' = faults + 1 /\ UNCHANGED <<pin, generated, misread>>
    BY <1>5 DEF Crash
  <2>2. generated' <= faults'
    BY <1>0, <1>00, <2>1 DEF AuthorityInv
  <2>3. CASE files' = files
    BY <1>0, <1>00, <2>1, <2>2, <2>3 DEF AuthorityInv, Serving
  <2>4. CASE phase \in {"writeCert", "writeKey"} /\ files' = [files EXCEPT ![FileWritten] = Torn]
    <3>1. ~misread => files["key"] = None /\ \A r \in Enrols : pin[r] = None
      BY <1>0, <1>00, <2>4 DEF AuthorityInv
    <3>2. CASE phase = "writeCert"
      <4>1. files' = [files EXCEPT !["cert"] = Torn]
        BY <2>4, <3>2 DEF FileWritten
      <4>2. files'["key"] = files["key"]
        BY <1>00, <4>1
      <4> QED
        BY <1>00, <2>1, <2>2, <3>1, <4>2 DEF AuthorityInv, Serving
    <3>3. CASE phase = "writeKey"
      <4>1. files' = [files EXCEPT !["key"] = Torn]
        BY <2>4, <3>3 DEF FileWritten
      <4>2. files'["key"] = Torn /\ files'["cert"] = generated
        BY <1>0, <1>00, <3>3, <4>1 DEF AuthorityInv
      <4>3. generated \in Authorities
        BY <1>0, <3>3 DEF TypeOK, AuthorityInv, Authorities
      <4> QED
        BY <1>00, <2>1, <2>2, <3>1, <4>2, <4>3 DEF AuthorityInv, Serving, Authorities
    <3> QED
      BY <2>4, <3>2, <3>3
  <2> QED
    BY <1>5, <2>3, <2>4 DEF Crash
<1>6. CASE UNCHANGED vars
  BY <1>0, <1>6, AuthorityUntouched DEF vars, handlerVars, caVars
<1> QED
  BY <1>1, <1>2, <1>3, <1>4, <1>5, <1>6 DEF Next, Startup

-----------------------------------------------------------------------------
LEMMA Inductive == Spec => []IInv
<1>1. IInv /\ [Next]_vars => IInv'
  BY TypeStep, DatabaseStep, HandlerStep, AuthorityStep DEF IInv
<1> QED
  BY Initially, <1>1, PTL DEF Spec

(* The controller's state is what TypeOK says, whatever the process's phase.  *)
THEOREM TypeCorrect == Spec => []TypeOK
<1>1. IInv => TypeOK
  BY DEF IInv
<1> QED
  BY Inductive, <1>1, PTL

(* The file holds exactly the tables of the versions it records after any     *)
(* crash, and a process that serves finds every table of its release          *)
(* (Migrate and applyMigration).                                              *)
THEOREM SchemaStaysWhole == Spec => []SchemaIsWhole
<1>1. IInv => SchemaIsWhole
  BY DEF IInv, DatabaseInv, SchemaIsWhole, Serving
<1> QED
  BY Inductive, <1>1, PTL

(* The rows of an answered upload or enrolment survive crashes, migrations    *)
(* and releases.                                                              *)
THEOREM AnsweredRowsSurvive == Spec => []RowsSurvive
<1>1. IInv => RowsSurvive
  BY DEF IInv, HandlerInv, RowsSurvive
<1> QED
  BY Inductive, <1>1, PTL

(* As long as the files of the authority can be read, agents keep the one     *)
(* they have pinned, and the files of a process that serves belong together   *)
(* (LoadOrCreate).                                                            *)
THEOREM AuthorityIsKept == Spec => []AgentsKeepTheirAuthority
<1>1. IInv => AgentsKeepTheirAuthority
  BY DEF IInv, AuthorityInv, AgentsKeepTheirAuthority
<1> QED
  BY Inductive, <1>1, PTL

-----------------------------------------------------------------------------
(* The requests that are under way, and what they have stored.  IInv does not *)
(* need this part; the refinement below and the theorem on the connection do. *)

NotStored(r) == \A t \in Written(r) : r \notin db.rows[t]
AllStored(r) == \A t \in Written(r) : t \in db.tables /\ r \in db.rows[t]

\* Only a process that serves, and has the tables, works on a request.
ServedInv == \A r \in Requests : InFlight(r) => Serving /\ (r \in Enrols \/ release >= 2)

\* The one who reads a cursor or is in a transaction has the connection, and
\* nobody else.
ConnectionInv == \A r \in Requests : req[r] \in {"reading", "writing"} <=> conn = r

\* Rows are there in all tables of a request or in none, and in none before
\* it commits.
StoredInv ==
    \A r \in Writers :
        /\ NotStored(r) \/ AllStored(r)
        /\ req[r] \in {"none", "sent", "writing"} => NotStored(r)

ServiceInv == ServedInv /\ ConnectionInv /\ StoredInv

LEMMA ServiceInitially == Init => ServiceInv
<1> SUFFICES ASSUME Init PROVE ServiceInv
  OBVIOUS
<1>1. ServedInv
  BY DEF Init, ServedInv, InFlight, Waiting
<1>2. ConnectionInv
  BY RequestAssumption DEF Init, ConnectionInv
<1>3. StoredInv
  BY DEF Init, StoredInv, NotStored, Written, Tables
<1> QED
  BY <1>1, <1>2, <1>3 DEF ServiceInv

LEMMA ServiceStep == IInv /\ ServiceInv /\ [Next]_vars => ServiceInv'
<1> SUFFICES ASSUME IInv, ServiceInv, [Next]_vars PROVE ServiceInv'
  OBVIOUS
<1> USE RequestAssumption
<1>0. TypeOK /\ DatabaseInv /\ HandlerInv /\ ServedInv /\ ConnectionInv /\ StoredInv
  BY DEF IInv, ServiceInv
<1>00. /\ req \in [Requests -> {"none", "answered", "failed"} \cup Waiting] /\ db \in Databases
       /\ conn \in Requests \cup {None}
  BY <1>0 DEF TypeOK
(* A start goes on, or ends, before anything is served.                      *)
<1>1. CASE /\ UNCHANGED <<req, conn>>
           /\ ~Serving \/ (Serving' /\ release' = release)
           /\ db' = db \/ CommitMigration
  <2>1. ServedInv'
    BY <1>0, <1>1 DEF ServedInv, InFlight
  <2>2. ConnectionInv'
    BY <1>0, <1>1 DEF ConnectionInv
  <2>3. CASE db' = db
    BY <1>0, <1>1, <2>1, <2>2, <2>3 DEF ServiceInv, StoredInv, NotStored, AllStored
  <2>4. CASE CommitMigration
    <3>1. tx # None /\ tx.next > Len(Body) /\ db' = tx.db
      BY <2>4 DEF CommitMigration
    <3>2. /\ db.tables \subseteq db'.tables
          /\ \A t \in {"servers", "agents", "images", "entries"} : db'.rows[t] = db.rows[t]
      BY <1>0, <3>1, MigrationKeepsRows
    <3>3. \A r \in Writers : (NotStored(r) => NotStored(r)') /\ (AllStored(r) => AllStored(r)')
      BY <3>2 DEF NotStored, AllStored, Written
    <3> QED
      BY <1>0, <1>1, <2>1, <2>2, <3>3 DEF ServiceInv, StoredInv
  <2> QED
    BY <1>1, <2>3, <2>4
<1>2. CASE (\E n \in Versions : Deploy(n)) \/ Startup \/ Stop
  BY <1>1, <1>2 DEF Deploy, Startup, Open, BeginMigration, ExecStatement, FileDuring,
     CommitMigration, FinishMigrations, LoadAuthority, GenerateAuthority, WriteAuthority,
     FailToStart, CannotStart, Stop, Serving, handlerVars
<1>3. CASE Close
  BY <1>0, <1>3 DEF Close, handlerVars, ServiceInv, ServedInv, ConnectionInv, StoredInv, NotStored,
     AllStored, InFlight
(* A request moves on: it, and its hold of the connection, alone changes.    *)
<1>4. ASSUME NEW r \in Requests, Accept(r) \/ Work(r) \/ Abort(r)
      PROVE  ServiceInv'
  <2>1. PICK to \in {"sent", "answered", "failed"} \cup Waiting : req' = [req EXCEPT ![r] = to]
    BY <1>4 DEF Accept, Work, OpenCursor, CloseCursor, FinishList, BeginTx, CommitUpload, Audit,
       CommitEnrol, RefuseWrite, Abort, Moved, Waiting
  <2>2. \A q \in Requests : req'[q] = IF q = r THEN to ELSE req[q]
    BY <1>00, <2>1
  <2>3. ServedInv'
    <3>1. /\ Serving /\ UNCHANGED <<phase, release>>
          /\ InFlight(r) \/ r \in Enrols \/ release >= 2
      BY <1>4 DEF Accept, Work, OpenCursor, CloseCursor, FinishList, BeginTx, CommitUpload, Audit,
         CommitEnrol, RefuseWrite, Abort, Serving, InFlight, Waiting
    <3> QED
      BY <1>0, <2>2, <3>1 DEF ServedInv, InFlight, Serving
  <2>4. ConnectionInv'
    <3>1. CASE to \in {"reading", "writing"}
      <4>1. conn = None /\ conn' = r
        BY <1>00, <1>4, <2>2, <3>1 DEF Accept, Work, OpenCursor, CloseCursor, FinishList, BeginTx,
           CommitUpload, Audit, CommitEnrol, RefuseWrite, Abort, Moved
      <4> QED
        BY <1>0, <2>2, <3>1, <4>1 DEF ConnectionInv
    <3>2. CASE to \notin {"reading", "writing"}
      <4>1. conn' = (IF conn = r THEN None ELSE conn)
        BY <1>0, <1>00, <1>4, <2>2, <3>2 DEF ConnectionInv, Accept, Work, OpenCursor, CloseCursor,
           HeldWhileListing, FinishList, BeginTx, CommitUpload, Audit, CommitEnrol, RefuseWrite,
           Abort, Moved
      <4> QED
        BY <1>0, <2>2, <3>2, <4>1 DEF ConnectionInv
    <3> QED
      BY <3>1, <3>2
  <2>5. StoredInv'
    <3>1. CASE CommitUpload(r) \/ CommitEnrol(r)
      <4>1. /\ r \in Writers /\ db' = WithRows(r) /\ Written(r) \subseteq db.tables
            /\ to \in {"committed", "answered"}
        BY <1>00, <2>2, <3>1 DEF CommitUpload, CommitEnrol, CanWrite, Moved, Writers
      <4>2. /\ db'.tables = db.tables
            /\ \A t \in Tables : db'.rows[t] = IF t \in Written(r) THEN db.rows[t] \cup {r}
                                                ELSE db.rows[t]
        BY <1>00, <4>1 DEF WithRows, Databases
      <4>3. \A q \in Writers : Written(q) \subseteq Tables
        BY DEF Written, Tables
      <4>4. AllStored(r)'
        BY <4>1, <4>2, <4>3 DEF AllStored
      <4>5. \A q \in Writers \ {r} : (NotStored(q) => NotStored(q)') /\ (AllStored(q) => AllStored(q)')
        BY <4>2, <4>3 DEF NotStored, AllStored
      <4>6. \A q \in Writers : q \in Requests
        BY DEF Writers, Requests
      <4> QED
        BY <1>0, <2>2, <4>1, <4>4, <4>5, <4>6 DEF StoredInv
    <3>2. CASE db' = db
      <4>1. to \in {"none", "sent", "writing"} => req[r] \in {"none", "sent", "writing"}
        BY <1>00, <1>4, <2>2 DEF Accept, Work, OpenCursor, CloseCursor, FinishList, BeginTx,
           CommitUpload, Audit, CommitEnrol, RefuseWrite, Abort, Moved
      <4>2. \A q \in Writers : q \in Requests
        BY DEF Writers, Requests
      <4> QED
        BY <1>0, <2>2, <3>2, <4>1, <4>2 DEF StoredInv, NotStored, AllStored
    <3>3. db' = db \/ CommitUpload(r) \/ CommitEnrol(r)
      BY <1>4 DEF Accept, Work, OpenCursor, CloseCursor, FinishList, BeginTx, Audit, RefuseWrite,
         Abort
    <3> QED
      BY <3>1, <3>2, <3>3
  <2> QED
    BY <2>3, <2>4, <2>5 DEF ServiceInv
<1>5. CASE Crash
  <2>1. db' = db /\ conn' = None /\ req' = [r \in Requests |-> IF InFlight(r) THEN "failed" ELSE req[r]]
    BY <1>5 DEF Crash
  <2>2. \A r \in Requests : req'[r] \notin Waiting /\ (req'[r] = req[r] \/ req'[r] = "failed")
    BY <2>1 DEF InFlight, Waiting
  <2>3. \A r \in Writers : r \in Requests
    BY DEF Writers, Requests
  <2> QED
    BY <1>0, <2>1, <2>2, <2>3 DEF ServiceInv, ServedInv, ConnectionInv, StoredInv, NotStored, AllStored,
       InFlight, Waiting
<1>6. CASE UNCHANGED vars
  BY <1>0, <1>6 DEF vars, handlerVars, ServiceInv, ServedInv, ConnectionInv, StoredInv, NotStored,
     AllStored, InFlight, Serving
<1> QED
  BY <1>2, <1>3, <1>4, <1>5, <1>6 DEF Next

LEMMA ServiceInductive == Spec => [](IInv /\ ServiceInv)
<1>1. Spec => []ServiceInv
  BY Inductive, ServiceInitially, ServiceStep, PTL DEF Spec
<1> QED
  BY Inductive, <1>1, PTL

-----------------------------------------------------------------------------
(* Controller implements DurableStore.                                        *)

(* The schema's version is that of the last migration the file records.       *)
LEMMA VersionOfApplied ==
    ASSUME NEW n \in 0 .. 3, NEW m \in 0 .. 3, 1 .. n = 1 .. m
    PROVE  n = m
<1>1. n <= m
  <2>1. n \in 1 .. n \/ n = 0
    OBVIOUS
  <2> QED
    BY <2>1
<1>2. m <= n
  <2>1. m \in 1 .. m \/ m = 0
    OBVIOUS
  <2> QED
    BY <2>1
<1> QED
  BY <1>1, <1>2

LEMMA VersionIs ==
    /\ \A n \in 0 .. 3 : applied = 1 .. n => schemaVersion = n
    /\ \A n \in 0 .. 3 : applied' = 1 .. n => schemaVersion' = n
BY VersionOfApplied DEF schemaVersion

(* What keeps the rows of every writer's tables, and does not take a table    *)
(* away, keeps what is stored.                                                *)
LEMMA SameStored ==
    ASSUME StoredInv, db.tables \subseteq db'.tables,
           \A t \in {"servers", "agents", "images", "entries"} : db'.rows[t] = db.rows[t]
    PROVE  storedIn' = storedIn
<1>1. \A r \in Writers : {t \in Written(r) : t \in db'.tables /\ r \in db'.rows[t]}
                          = {t \in Written(r) : t \in db.tables /\ r \in db.rows[t]}
  BY DEF StoredInv, NotStored, AllStored, Written
<1> QED
  BY <1>1 DEF storedIn

\* The requests that were answered.
Answered == {r \in Writers : req[r] = "answered"}

LEMMA InitRefines == Init => Store!Init
<1> SUFFICES ASSUME Init PROVE Store!Init
  OBVIOUS
<1>1. schemaVersion = 0
  BY VersionIs DEF Init
<1>2. servedRelease = 0
  BY DEF Init, servedRelease, Serving
<1>3. storedIn = [r \in Writers |-> {}]
  BY DEF Init, storedIn
<1>4. {r \in Writers : req[r] = "answered"} = {}
  BY DEF Init, Writers, Requests
<1> QED
  BY <1>1, <1>2, <1>3, <1>4 DEF Store!Init

LEMMA StepRefines == IInv /\ ServiceInv /\ [Next]_vars => [Store!Next]_(Store!vars)
<1> SUFFICES ASSUME IInv, ServiceInv, [Next]_vars PROVE [Store!Next]_(Store!vars)
  OBVIOUS
<1> USE RequestAssumption
<1>0. TypeOK /\ DatabaseInv /\ HandlerInv /\ ServedInv /\ StoredInv
  BY DEF IInv, ServiceInv
<1>00. /\ req \in [Requests -> {"none", "answered", "failed"} \cup Waiting]
       /\ db \in Databases /\ release \in Versions
  BY <1>0 DEF TypeOK
<1> DEFINE SameVersion == schemaVersion' = schemaVersion
           SameService == servedRelease' = servedRelease
           SameRows == storedIn' = storedIn
           SameAnswers == Answered' = Answered
<1>1. ASSUME SameVersion, SameService, SameRows, SameAnswers PROVE UNCHANGED Store!vars
  BY <1>1 DEF Store!vars, Answered
<1>2. applied' = applied => SameVersion
  BY DEF schemaVersion
<1>3. db' = db => SameRows
  BY <1>0, SameStored
<1>4. req' = req => SameAnswers
  BY DEF Answered
(* A migration that commits upgrades; those before it show nothing.          *)
<1>5. CASE CommitMigration
  <2>1. /\ phase = "migrating" /\ tx # None /\ tx.next > Len(Body) /\ db' = tx.db
        /\ applied' = applied \cup {tx.version} /\ UNCHANGED <<release, phase, req>>
    BY <1>5 DEF CommitMigration, handlerVars
  <2>2. tx.version \in Versions /\ applied = 1 .. tx.version - 1
    BY <1>0, <2>1 DEF TypeOK, DatabaseInv, DuringMigration
  <2>3. applied' = 1 .. tx.version
    BY <2>1, <2>2 DEF Versions
  <2>4. schemaVersion = tx.version - 1 /\ schemaVersion' = tx.version
    BY <2>2, <2>3, VersionIs DEF Versions
  <2>5. schemaVersion < 3 /\ schemaVersion' = schemaVersion + 1
    BY <2>2, <2>4 DEF Versions
  <2>6. servedRelease = 0 /\ servedRelease' = 0
    BY <2>1 DEF servedRelease, Serving
  <2>7. SameRows
    BY <1>0, <2>1, MigrationKeepsRows, SameStored
  <2>8. SameAnswers
    BY <1>4, <2>1
  <2>9. Store!Upgrade
    BY <2>5, <2>6, <2>7, <2>8 DEF Store!Upgrade, Answered
  <2> QED
    BY <2>9 DEF Store!Next
<1>6. CASE \/ (\E n \in Versions : Deploy(n)) \/ Open \/ (\E v \in Versions : BeginMigration(v))
           \/ ExecStatement \/ FinishMigrations \/ GenerateAuthority \/ FailToStart
           \/ (WriteAuthority /\ phase = "writeCert")
  <2>1. UNCHANGED <<applied, db, req>> /\ ~Serving /\ ~Serving'
    BY <1>6 DEF Deploy, Open, BeginMigration, ExecStatement, FileDuring, RecordedDuring,
       FinishMigrations, GenerateAuthority, FailToStart, CannotStart, WriteAuthority, Serving,
       handlerVars
  <2>2. SameService
    BY <2>1 DEF servedRelease
  <2> QED
    BY <1>1, <1>2, <1>3, <1>4, <2>1, <2>2
(* The start ends in serving the release, whose schema the file holds.       *)
<1>7. CASE LoadAuthority \/ (WriteAuthority /\ phase = "writeKey")
  <2>1. /\ UNCHANGED <<applied, db, req, release>> /\ ~Serving /\ Serving'
        /\ phase \notin {"down", "migrating"}
    BY <1>7 DEF LoadAuthority, WriteAuthority, Serving, handlerVars
  <2>2. PICK n \in 0 .. 3 : applied = 1 .. n
    BY <1>0 DEF DatabaseInv
  <2>3. release \in 1 .. n
    <3>1. release \in 1 .. release
      BY <1>00 DEF Versions
    <3> QED
      BY <1>0, <2>1, <2>2, <3>1 DEF DatabaseInv
  <2>4. servedRelease = 0 /\ servedRelease' = release /\ release \in 1 .. schemaVersion
    BY <2>1, <2>2, <2>3, VersionIs DEF servedRelease
  <2>5. Store!Open(release)
    BY <1>2, <1>3, <1>4, <2>1, <2>4 DEF Store!Open, Answered
  <2> QED
    BY <2>4, <2>5 DEF Store!Next
(* A process that is told to stop serves on; the end stops the service.      *)
<1>8. CASE Stop
  <2>1. UNCHANGED <<applied, db, req, release>> /\ Serving /\ Serving'
    BY <1>8 DEF Stop, Serving, handlerVars
  <2>2. SameService
    BY <2>1 DEF servedRelease
  <2> QED
    BY <1>1, <1>2, <1>3, <1>4, <2>1, <2>2
<1>9. CASE Close \/ Crash
  <2>1. UNCHANGED <<applied, db>> /\ ~Serving'
    BY <1>9 DEF Close, Crash, Serving
  <2>2. servedRelease' = 0
    BY <2>1 DEF servedRelease
  <2>3. SameAnswers
    <3>1. \A r \in Requests : req'[r] = "answered" <=> req[r] = "answered"
      BY <1>9 DEF Close, Crash, handlerVars, InFlight, Waiting
    <3> QED
      BY <3>1 DEF Answered, Writers, Requests
  <2>4. Store!Close
    BY <1>2, <1>3, <2>1, <2>2, <2>3 DEF Store!Close, Answered
  <2> QED
    BY <2>4 DEF Store!Next
(* A request stores and is answered where its transaction commits.           *)
<1>10. ASSUME NEW r \in Requests, Accept(r) \/ Work(r) \/ Abort(r)
       PROVE  [Store!Next]_(Store!vars)
  <2>1. UNCHANGED <<applied, phase, release>>
    BY <1>10 DEF Accept, Work, OpenCursor, CloseCursor, FinishList, BeginTx, CommitUpload, Audit,
       CommitEnrol, RefuseWrite, Abort
  <2>2. SameVersion /\ SameService
    BY <1>2, <2>1 DEF servedRelease, Serving
  <2>3. CASE Accept(r) \/ OpenCursor(r) \/ CloseCursor(r) \/ FinishList(r) \/ BeginTx(r)
             \/ RefuseWrite(r) \/ Abort(r)
    <3>1. /\ db' = db
          /\ \E to \in {"sent", "reading", "listing", "answered", "writing", "failed"} :
                req' = [req EXCEPT ![r] = to] /\ (to = "answered" => r \in Lists)
          /\ req[r] # "answered"
      BY <1>0, <2>3 DEF Accept, OpenCursor, CloseCursor, FinishList, BeginTx, RefuseWrite, Abort, Moved,
         InFlight, Waiting, HandlerInv
    <3>2. \A q \in Writers : req'[q] = "answered" <=> req[q] = "answered"
      BY <1>00, <3>1 DEF Writers, Requests
    <3>3. SameAnswers
      BY <3>2 DEF Answered
    <3> QED
      BY <1>1, <1>3, <2>2, <3>1, <3>3
  <2>4. ASSUME InFlight(r), r \in Writers
        PROVE  servedRelease >= IF r \in Enrols THEN 1 ELSE 2
    BY <1>0, <1>00, <2>4 DEF ServedInv, servedRelease, Versions
  <2>5. CASE CommitUpload(r) \/ CommitEnrol(r)
    <3>1. /\ r \in Writers /\ req[r] = "writing" /\ db' = WithRows(r) /\ Written(r) \subseteq db.tables
          /\ \/ req' = [req EXCEPT ![r] = "committed"]
             \/ req' = [req EXCEPT ![r] = "answered"]
      BY <2>5 DEF CommitUpload, CommitEnrol, CanWrite, Moved, Writers
    <3>2. /\ db'.tables = db.tables
          /\ \A t \in Tables : db'.rows[t] = IF t \in Written(r) THEN db.rows[t] \cup {r}
                                              ELSE db.rows[t]
      BY <1>00, <3>1 DEF WithRows, Databases
    <3>3. \A q \in Writers : Written(q) \subseteq Tables
      BY DEF Written, Tables
    <3>4. storedIn[r] = {}
      BY <1>0, <3>1 DEF StoredInv, NotStored, storedIn
    <3>5. \A q \in Writers : {t \in Written(q) : t \in db'.tables /\ q \in db'.rows[t]}
                              = IF q = r THEN Written(r)
                                ELSE {t \in Written(q) : t \in db.tables /\ q \in db.rows[t]}
      BY <3>1, <3>2, <3>3
    <3>6. storedIn' = [storedIn EXCEPT ![r] = Written(r)]
      BY <3>1, <3>5 DEF storedIn
    <3>7. Answered' \in {Answered, Answered \cup {r}}
      <4>1. CASE req' = [req EXCEPT ![r] = "committed"]
        <5>1. \A q \in Writers : req'[q] = "answered" <=> req[q] = "answered"
          BY <1>00, <3>1, <4>1 DEF Writers, Requests
        <5> QED
          BY <5>1 DEF Answered
      <4>2. CASE req' = [req EXCEPT ![r] = "answered"]
        <5>1. \A q \in Writers : req'[q] = "answered" <=> (q = r \/ req[q] = "answered")
          BY <1>00, <3>1, <4>2 DEF Writers, Requests
        <5> QED
          BY <3>1, <5>1 DEF Answered
      <4> QED
        BY <3>1, <4>1, <4>2
    <3>8. servedRelease >= IF r \in Enrols THEN 1 ELSE 2
      BY <2>4, <3>1 DEF InFlight, Waiting
    <3>9. Store!Store(r)
      BY <2>2, <3>1, <3>4, <3>6, <3>7, <3>8 DEF Store!Store, Answered
    <3> QED
      BY <3>1, <3>9 DEF Store!Next
  <2>6. CASE Audit(r)
    <3>1. req[r] = "committed" /\ r \in Writers /\ db' = db /\ req' = [req EXCEPT ![r] = "answered"]
      BY <1>0, <2>6 DEF Audit, Moved, HandlerInv, Writers
    <3>2. storedIn[r] = Written(r)
      BY <1>0, <3>1 DEF HandlerInv, storedIn, Writers
    <3>3. \A q \in Writers : req'[q] = "answered" <=> (q = r \/ req[q] = "answered")
      BY <1>00, <3>1 DEF Writers, Requests
    <3>4. Answered' = Answered \cup {r}
      BY <3>1, <3>3 DEF Answered
    <3>5. servedRelease >= IF r \in Enrols THEN 1 ELSE 2
      BY <2>4, <3>1 DEF InFlight, Waiting
    <3>6. Store!Acknowledge(r)
      BY <1>3, <2>2, <3>1, <3>2, <3>4, <3>5 DEF Store!Acknowledge, Answered
    <3> QED
      BY <3>1, <3>6 DEF Store!Next
  <2> QED
    BY <1>10, <2>3, <2>5, <2>6 DEF Work
<1>11. CASE UNCHANGED vars
  <2>1. UNCHANGED <<applied, db, req, phase, release>>
    BY <1>11 DEF vars, handlerVars
  <2>2. SameService
    BY <2>1 DEF servedRelease, Serving
  <2> QED
    BY <1>1, <1>2, <1>3, <1>4, <2>1, <2>2
<1>12. CASE Startup
  <2>1. WriteAuthority => phase \in {"writeCert", "writeKey"}
    BY DEF WriteAuthority
  <2> QED
    BY <1>5, <1>6, <1>7, <1>12, <2>1 DEF Startup
<1>13. CASE \E n \in Versions : Deploy(n)
  BY <1>6, <1>13
<1> QED
  BY <1>8, <1>9, <1>10, <1>11, <1>12, <1>13 DEF Next

(* What callers rely on, whatever requests there are and however often the    *)
(* process ends: whole versions of the schema, rows in all tables of a        *)
(* request or in none, and nothing that was stored is lost (Migrate,          *)
(* applyMigration and the transactions of the handlers).                      *)
THEOREM StoreIsDurableHolds == Spec => StoreIsDurable
<1> QED
  BY ServiceInductive, InitRefines, StepRefines, PTL DEF Spec, StoreIsDurable, Store!Spec

(* No request waits for the pool's only connection while it holds it: the one *)
(* that holds it reads its cursor, which a list closes before it queries      *)
(* again, or is in its transaction; and a process that serves goes on with    *)
(* either ("a second query while this cursor is open would deadlock",         *)
(* HandleListUpdates).                                                        *)
HolderGoesOn ==
    conn # None =>
        /\ Serving
        /\ \/ conn \in Lists /\ req[conn] = "reading"
           \/ conn \in Writers /\ req[conn] = "writing"

THEOREM NobodyWaitsInACircle == Spec => []HolderGoesOn
<1>1. IInv /\ ServiceInv => HolderGoesOn
  <2> SUFFICES ASSUME IInv, ServiceInv, conn # None
               PROVE  /\ Serving
                      /\ \/ conn \in Lists /\ req[conn] = "reading"
                         \/ conn \in Writers /\ req[conn] = "writing"
    BY DEF HolderGoesOn
  <2>1. conn \in Requests /\ req[conn] \in {"reading", "writing"}
    BY DEF IInv, TypeOK, ServiceInv, ConnectionInv
  <2>2. Serving
    BY <2>1 DEF ServiceInv, ServedInv, InFlight, Waiting
  <2> QED
    BY <2>1, <2>2 DEF IInv, HandlerInv, Writers, Requests
<1> QED
  BY ServiceInductive, <1>1, PTL
=============================================================================
