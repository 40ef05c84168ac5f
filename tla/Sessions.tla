------------------------------ MODULE Sessions ------------------------------
(***************************************************************************)
(* A user's session in the controller and in the browser: the first-run    *)
(* set-up, log-in and log-out (go/internal/controller/auth/handlers.go),   *)
(* the middleware that looks up, judges and rolls the session of every     *)
(* request (Wrap in middleware.go, session.go), and the two cookies all    *)
(* tabs of the browser share.                                              *)
(*                                                                         *)
(* A handler is a sequence of single SQL statements without a transaction, *)
(* so the requests of several tabs interleave between any two of them.     *)
(* Statements fail, and answers arrive in any order or never.              *)
(*                                                                         *)
(* A session id and the CSRF token drawn with it are one value.            *)
(*                                                                         *)
(* A variant defined beside an operator and used by nobody is a plausible  *)
(* mistake in that code, which breaks one of the properties below.         *)
(***************************************************************************)
EXTENDS Naturals, FiniteSets

CONSTANTS
    Requests, \* requests that can be under way at once
    Sids,     \* session ids RandomToken may draw; their number bounds the log-ins
    Names,    \* names the set-up may be sent with
    None,     \* no row, no cookie
    TTL,      \* DefaultSessionTTL
    Faults,   \* whether statements may fail and answers get lost
    MaxClock  \* bound: the last moment of the model

ASSUME BoundsAssumption == TTL \in Nat /\ MaxClock \in Nat /\ Faults \in BOOLEAN

Kinds == {"page", "change", "logout", "login", "setup"}
Wrapped == {"page", "change", "logout"} \* routes behind Wrap
isMutating(k) == k \in {"change", "logout"}

\* What an answer does to the cookies; a session id stands for SetSessionCookies.
Cleared == {"keep", "clear", "clearBoth"}

ASSUME NamesAssumption == None \notin Sids \cup Nat /\ Sids \cap Cleared = {}

VARIABLES
    clock,
    users,  \* controller: users, all of them administrators
    rows,   \* controller: sessions.expires_at by id
    issued, \* history: the ExpiresAt a session began with, which its cookies have
    jar,    \* browser: the cookies dockpulse_session and dockpulse_csrf
    req     \* requests, from the call in the page to the answer

vars == <<clock, users, rows, issued, jar, req>>

Cookies == Sids \cup {None}
Times == 0 .. MaxClock + TTL
Steps == {"free", "called", "look", "judge", "load", "drop", "touch", "serve",
          "verify", "count", "hash", "start", "answered"}
Request == [pc : Steps, kind : Kinds,
            header : Cookies,  \* X-CSRF-Token
            session : Cookies, \* the session cookie sent along
            csrf : Cookies,    \* the CSRF cookie sent along
            time : Times,      \* ExpiresAt as read, then the now of TouchSession
            answer : Cleared \cup Sids,
            late : BOOLEAN,    \* history: sent after its session, or the set-up, was over
            failed : BOOLEAN]  \* history: one of its statements failed

Idle == [pc |-> "free", kind |-> "page", header |-> None, session |-> None, csrf |-> None,
         time |-> 0, answer |-> "keep", late |-> FALSE, failed |-> FALSE]

TypeOK ==
    /\ clock \in 0 .. MaxClock
    /\ users \in SUBSET Names
    /\ rows \in [Sids -> Times \cup {None}]
    /\ issued \in [Sids -> Times \cup {None}]
    /\ jar \in [session : Cookies, csrf : Cookies]
    /\ req \in [Requests -> Request]

Init ==
    /\ clock = 0
    /\ users = {}
    /\ rows = [s \in Sids |-> None]
    /\ issued = [s \in Sids |-> None]
    /\ jar = [session |-> None, csrf |-> None]
    /\ req = [r \in Requests |-> Idle]

Tick ==
    /\ clock < MaxClock
    /\ clock' = clock + 1
    /\ UNCHANGED <<users, rows, issued, jar, req>>

Becomes(r, q) == req' = [req EXCEPT ![r] = q]

-----------------------------------------------------------------------------
(* The browser. *)

\* It keeps a cookie until its Expires.
Sent(c) == IF c # None /\ clock <= issued[c] THEN c ELSE None

\* request in api.ts: the page reads the CSRF cookie for the header.
Call(r, k) ==
    /\ req[r].pc = "free"
    /\ Becomes(r, [Idle EXCEPT !.pc = "called", !.kind = k,
                               !.header = IF isMutating(k) THEN Sent(jar.csrf) ELSE None])
    /\ UNCHANGED <<clock, users, rows, issued, jar>>

\* fetch attaches the cookies, and the router picks Wrap or a handler.  Without
\* a session cookie Wrap calls a handler that finds no user: it changes nothing,
\* and a log-out clears the cookies.
Anonymous(q, a) ==
    [q EXCEPT !.pc = "answered", !.answer = IF q.kind = "logout" THEN "clearBoth" ELSE a]
Routed(q) ==
    CASE q.kind = "login" -> [q EXCEPT !.pc = "verify"]
      [] q.kind = "setup" -> [q EXCEPT !.pc = "count", !.late = users # {}]
      [] q.kind \in Wrapped ->
            IF q.session = None THEN Anonymous(q, "keep")
            ELSE [q EXCEPT !.pc = "look", !.late = rows[q.session] = None]
Send(r) ==
    /\ req[r].pc = "called"
    /\ Becomes(r, Routed([req[r] EXCEPT !.session = Sent(jar.session), !.csrf = Sent(jar.csrf)]))
    /\ UNCHANGED <<clock, users, rows, issued, jar>>

\* What the Set-Cookie lines of an answer leave in the jar.
AppliedWrongName(a) ==
    CASE a = "keep" -> jar
      [] a = "clear" -> [jar EXCEPT !.csrf = None]
      [] a = "clearBoth" -> [session |-> None, csrf |-> None]
      [] a \in Sids -> [session |-> a, csrf |-> a]
Applied(a) ==
    CASE a = "keep" -> jar
      [] a = "clear" -> [jar EXCEPT !.session = None]
      [] a = "clearBoth" -> [session |-> None, csrf |-> None]
      [] a \in Sids -> [session |-> a, csrf |-> a]
Deliver(r) ==
    /\ req[r].pc = "answered"
    /\ jar' = Applied(req[r].answer)
    /\ Becomes(r, Idle)
    /\ UNCHANGED <<clock, users, rows, issued>>

\* The tab is closed, the connection breaks or the controller is restarted.
Lose(r) ==
    /\ Faults
    /\ req[r].pc # "free"
    /\ Becomes(r, Idle)
    /\ UNCHANGED <<clock, users, rows, issued, jar>>

-----------------------------------------------------------------------------
(* The middleware. *)

\* GetSession.  Every error counts as "invalid or expired".
LookUp(r) ==
    LET q == req[r] IN
    /\ q.pc = "look"
    /\ \/ /\ rows[q.session] # None
          /\ Becomes(r, [q EXCEPT !.pc = "judge", !.time = rows[q.session]])
       \/ /\ rows[q.session] = None
          /\ Becomes(r, Anonymous(q, "clear"))
       \/ /\ Faults
          /\ Becomes(r, Anonymous([q EXCEPT !.failed = TRUE], "clear"))
    /\ UNCHANGED <<clock, users, rows, issued, jar>>

ValidCSRF(q) == q.header # None /\ q.header = q.csrf /\ q.csrf = q.session

\* ExpiresAt, as it was when it was read, against the clock, and the CSRF check.
Judge(r) ==
    LET q == req[r] IN
    /\ q.pc = "judge"
    /\ Becomes(r, [q EXCEPT !.pc =
          IF clock > q.time THEN "drop"
          ELSE IF isMutating(q.kind) /\ ~ValidCSRF(q) THEN "answered" \* 403
          ELSE "load"])
    /\ UNCHANGED <<clock, users, rows, issued, jar>>

\* GetUserByID; no code disables or removes a user, so only an error ends the
\* session.  TouchSession reads the clock before it waits for the database.
Load(r) ==
    LET q == req[r] IN
    /\ q.pc = "load"
    /\ \/ Becomes(r, [q EXCEPT !.pc = "touch", !.time = clock])
       \/ Faults /\ Becomes(r, [q EXCEPT !.pc = "drop", !.failed = TRUE])
    /\ UNCHANGED <<clock, users, rows, issued, jar>>

\* DeleteSession, whose error is ignored, of a session Wrap has refused.
Drop(r) ==
    LET q == req[r] IN
    /\ q.pc = "drop"
    /\ \/ /\ rows' = [rows EXCEPT ![q.session] = None]
          /\ Becomes(r, Anonymous(q, "clear"))
       \/ /\ Faults
          /\ rows' = rows
          /\ Becomes(r, Anonymous([q EXCEPT !.failed = TRUE], "clear"))
    /\ UNCHANGED <<clock, users, issued, jar>>

\* The UPDATE of TouchSession: it changes the row if there is one.
TouchedByInsert(s, t) == [rows EXCEPT ![s] = t + TTL]
TouchedByAddition(s, t) == IF rows[s] = None THEN rows ELSE [rows EXCEPT ![s] = @ + TTL]
TouchedToNow(s, t) == IF rows[s] = None THEN rows ELSE [rows EXCEPT ![s] = t]
Touched(s, t) == IF rows[s] = None THEN rows ELSE [rows EXCEPT ![s] = t + TTL]
Touch(r) ==
    LET q == req[r] IN
    /\ q.pc = "touch"
    /\ \/ /\ rows' = Touched(q.session, q.time)
          /\ Becomes(r, [q EXCEPT !.pc = "serve"])
       \/ /\ Faults
          /\ rows' = rows
          /\ Becomes(r, [q EXCEPT !.pc = "serve", !.failed = TRUE])
    /\ UNCHANGED <<clock, users, issued, jar>>

-----------------------------------------------------------------------------
(* The handlers. *)

\* A handler with a user.  Only a log-out touches the session; it ignores the
\* error of DeleteSession.
RowsAfterForgetfulLogout(s) == rows
RowsAfterLogout(s) == [rows EXCEPT ![s] = None]
Serve(r) ==
    LET q == req[r] IN
    /\ q.pc = "serve"
    /\ \/ /\ q.kind # "logout"
          /\ rows' = rows
          /\ Becomes(r, [q EXCEPT !.pc = "answered"])
       \/ /\ q.kind = "logout"
          /\ rows' = RowsAfterLogout(q.session)
          /\ Becomes(r, [q EXCEPT !.pc = "answered", !.answer = "clearBoth"])
       \/ /\ q.kind = "logout" /\ Faults
          /\ rows' = rows
          /\ Becomes(r, [q EXCEPT !.pc = "answered", !.answer = "clearBoth", !.failed = TRUE])
    /\ UNCHANGED <<clock, users, issued, jar>>

\* HandleFirstRunCreate, CountUsers.
NeedsSetupForOne == Cardinality(users) <= 1
NeedsSetup == users = {}
Count(r) ==
    /\ req[r].pc = "count"
    /\ NeedsSetup
    /\ Becomes(r, [req[r] EXCEPT !.pc = "hash"])
    /\ UNCHANGED <<clock, users, rows, issued, jar>>

\* CreateUser, once the password is hashed; usernames are UNIQUE.
Create(r, n) ==
    /\ req[r].pc = "hash"
    /\ n \notin users
    /\ users' = users \cup {n}
    /\ Becomes(r, [req[r] EXCEPT !.pc = "start"])
    /\ UNCHANGED <<clock, rows, issued, jar>>

\* CreateSession, after the set-up or with the credentials of a user, and
\* SetSessionCookies.
StartSession(r, s) ==
    /\ \/ req[r].pc = "start"
       \/ req[r].pc = "verify" /\ users # {}
    /\ issued[s] = None
    /\ rows' = [rows EXCEPT ![s] = clock + TTL]
    /\ issued' = [issued EXCEPT ![s] = clock + TTL]
    /\ Becomes(r, [req[r] EXCEPT !.pc = "answered", !.answer = s])
    /\ UNCHANGED <<clock, users, jar>>

\* Every other end of a log-in or a set-up: wrong credentials, a user there
\* already, an invalid or taken name, a failing statement.
Refuse(r) ==
    LET q == req[r] IN
    /\ \/ q.pc \in {"verify", "hash"}
       \/ q.pc = "count" /\ ~NeedsSetup
       \/ q.pc \in {"count", "start"} /\ Faults
    /\ Becomes(r, [q EXCEPT !.pc = "answered"])
    /\ UNCHANGED <<clock, users, rows, issued, jar>>

-----------------------------------------------------------------------------
Next ==
    \/ Tick
    \/ \E r \in Requests :
          \/ \E k \in Kinds : Call(r, k)
          \/ Send(r) \/ Deliver(r) \/ Lose(r)
          \/ LookUp(r) \/ Judge(r) \/ Load(r) \/ Drop(r) \/ Touch(r) \/ Serve(r)
          \/ Count(r) \/ (\E n \in Names : Create(r, n))
          \/ (\E s \in Sids : StartSession(r, s)) \/ Refuse(r)

Spec == Init /\ [][Next]_vars

-----------------------------------------------------------------------------
(* Properties. *)

\* HandleLogout: when a log-out is answered and none of its statements failed,
\* its session is over, whatever requests of other tabs that were already past
\* the look-up do to the row meanwhile.
LogOutEndsSession ==
    \A r \in Requests : LET q == req[r] IN
        q.pc = "answered" /\ q.answer = "clearBoth" /\ ~q.failed /\ q.session # None
            => rows[q.session] = None

\* A request sent after its session had ended is served to nobody: an ended
\* session does not come back, not by a TouchSession that is late either.
EndedIsRefused ==
    \A r \in Requests : LET q == req[r] IN
        q.late /\ q.kind \in Wrapped => q.pc \in {"look", "answered"}

\* The middleware expires a session only after its cookies have expired, also
\* when it judges an ExpiresAt that another request has moved since, and also
\* when two UPDATEs are applied in the other order than they read the clock.
NeverDroppedEarly ==
    \A r \in Requests : LET q == req[r] IN
        q.pc = "drop" /\ ~q.failed => issued[q.session] < clock

\* A request that carries a session carries the CSRF token of that session:
\* clearing one cookie, clearing both and setting both, by answers in any
\* order, never leaves a session with another's token.
CookiesMatch ==
    \A r \in Requests : req[r].session # None => req[r].csrf = req[r].session

\* The set-up "is only honoured when the users table is empty": one that is
\* sent when there is a user never gets to create another.
SetupIsOver ==
    \A r \in Requests : LET q == req[r] IN
        q.late /\ q.kind = "setup" => q.pc \in {"count", "answered"}
=============================================================================
