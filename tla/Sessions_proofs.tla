--------------------------- MODULE Sessions_proofs ---------------------------
(***************************************************************************)
(* Safety of sessions for any number of tabs, sessions, users and moments. *)
(*                                                                         *)
(* What an invariant says of one request, Sound, depends on the request    *)
(* and on four tables.  The argument has two halves: the tables change     *)
(* only in ways that keep every request sound that is not part of the step *)
(* (Calm, StaysSound), and the request of the step is sound in its new     *)
(* state (one lemma per action).                                           *)
(***************************************************************************)
EXTENDS Sessions, TLAPS

InWrap == {"look", "judge", "load", "drop", "touch", "serve"}

\* A request q, at time c, with users us, rows rw and issued is.
Sound(q, c, us, rw, is) ==
    /\ q.session # None => is[q.session] # None /\ q.csrf = q.session
    /\ q.answer \in Sids => is[q.answer] # None
    /\ q.pc # "answered" => q.answer = "keep"
    /\ q.pc \in InWrap => q.session # None /\ q.kind \in Wrapped
    /\ q.late /\ q.kind \in Wrapped =>
          q.pc \in {"look", "answered"} /\ q.session # None /\ rw[q.session] = None
    /\ q.late /\ q.kind = "setup" => q.pc \in {"count", "answered"} /\ us # {}
    /\ q.pc \in {"load", "touch", "serve"} /\ isMutating(q.kind) => ValidCSRF(q)
    /\ q.pc = "judge" => is[q.session] <= q.time
    /\ q.pc = "touch" => is[q.session] <= q.time + TTL /\ q.time <= c
    /\ q.pc = "drop" /\ ~q.failed => is[q.session] < c
    /\ q.pc = "answered" /\ q.answer = "clearBoth" /\ ~q.failed /\ q.session # None
          => rw[q.session] = None

\* A row lasts at least as long as the cookies of its session, and a session in
\* the jar has its own token beside it.
Tables ==
    /\ \A s \in Sids : rows[s] # None => issued[s] # None /\ issued[s] <= rows[s]
    /\ \A s \in Sids : issued[s] # None => issued[s] <= clock + TTL
    /\ jar.session # None => issued[jar.session] # None /\ jar.csrf = jar.session

IInv ==
    /\ TypeOK
    /\ Tables
    /\ \A r \in Requests : Sound(req[r], clock, users, rows, issued)

\* Time and users only grow, an ExpiresAt once issued stays, and the row of a
\* session that has ended does not come back.
Calm ==
    /\ clock <= clock'
    /\ users \subseteq users'
    /\ \A s \in Sids : issued[s] # None => issued'[s] = issued[s]
    /\ \A s \in Sids : issued[s] # None /\ rows[s] = None => rows'[s] = None

-----------------------------------------------------------------------------
LEMMA StaysSound ==
    ASSUME IInv, TypeOK', Calm, NEW r \in Requests, req'[r] = req[r]
    PROVE  Sound(req[r], clock, users, rows, issued)'
<1> DEFINE q == req[r]
<1>1. q \in Request /\ Sound(q, clock, users, rows, issued)
    BY DEF IInv, TypeOK
<1>2. q.session \in Sids \cup {None} /\ q.time \in Nat /\ clock \in Nat /\ clock' \in Nat
    BY <1>1, BoundsAssumption DEF Request, Cookies, Times, TypeOK, IInv
<1>3. q.session # None => issued'[q.session] = issued[q.session] /\ issued[q.session] \in Nat
    BY <1>1, <1>2, BoundsAssumption DEF Sound, Calm, IInv, TypeOK, Times
<1>4. q.answer \in Sids => issued'[q.answer] # None
    BY <1>1 DEF Sound, Calm
<1>5. q.session # None /\ rows[q.session] = None => rows'[q.session] = None
    BY <1>1, <1>2 DEF Sound, Calm
<1>6. Sound(q, clock', users', rows', issued')
    BY <1>1, <1>2, <1>3, <1>4, <1>5, BoundsAssumption DEF Sound, InWrap, Calm
<1> QED BY <1>6

\* A step that gives one request a sound new state, and leaves the tables calm.
LEMMA OneRequest ==
    ASSUME IInv, Calm, NEW r \in Requests, NEW q \in Request, Becomes(r, q),
           clock' \in 0 .. MaxClock, users' \in SUBSET Names,
           rows' \in [Sids -> Times \cup {None}], issued' \in [Sids -> Times \cup {None}],
           jar' \in [session : Cookies, csrf : Cookies], Tables',
           Sound(q, clock', users', rows', issued')
    PROVE  IInv'
<1>1. TypeOK'
    BY DEF IInv, TypeOK, Becomes
<1>2. ASSUME NEW t \in Requests
      PROVE  Sound(req[t], clock, users, rows, issued)'
    <2>1. CASE t = r
        <3>1. req'[t] = q
            BY <2>1 DEF IInv, TypeOK, Becomes
        <3> QED BY <3>1
    <2>2. CASE t # r
        <3>1. req'[t] = req[t]
            BY <2>2 DEF IInv, TypeOK, Becomes
        <3> QED BY <1>1, <3>1, StaysSound
    <2> QED BY <2>1, <2>2
<1> QED BY <1>1, <1>2 DEF IInv

\* The same for the many steps that change the request and nothing else.
LEMMA OnlyRequest ==
    ASSUME IInv, NEW r \in Requests, NEW q \in Request, Becomes(r, q),
           UNCHANGED <<clock, users, rows, issued, jar>>,
           Sound(q, clock, users, rows, issued)
    PROVE  IInv'
<1>1. Calm
    BY BoundsAssumption DEF Calm, IInv, TypeOK
<1>2. Tables'
    BY DEF Tables, IInv
<1> QED BY <1>1, <1>2, OneRequest DEF IInv, TypeOK

\* What is known of a request that Wrap handles.
LEMMA WrapFacts ==
    ASSUME IInv, NEW r \in Requests, req[r].pc \in InWrap
    PROVE  /\ req[r] \in Request
           /\ req[r].session \in Sids
           /\ req[r].kind \in Wrapped
           /\ req[r].csrf = req[r].session
           /\ req[r].answer = "keep"
           /\ req[r].time \in Nat
           /\ clock \in Nat
           /\ issued[req[r].session] \in Nat
           /\ issued[req[r].session] <= clock + TTL
           /\ Sound(req[r], clock, users, rows, issued)
    BY BoundsAssumption DEF IInv, TypeOK, Tables, Sound, InWrap, Request, Cookies, Times

-----------------------------------------------------------------------------
LEMMA Initially == Init => IInv
<1> SUFFICES ASSUME Init
             PROVE  IInv
    OBVIOUS
<1>1. Idle \in Request
    BY BoundsAssumption DEF Idle, Request, Steps, Kinds, Cookies, Times, Cleared
<1>2. TypeOK
    BY <1>1, BoundsAssumption DEF Init, TypeOK, Times, Cookies
<1>3. Tables
    BY DEF Init, Tables
<1>4. ASSUME NEW r \in Requests
      PROVE  Sound(req[r], clock, users, rows, issued)
    BY NamesAssumption DEF Init, Idle, Sound, InWrap, Cleared
<1> QED BY <1>2, <1>3, <1>4 DEF IInv

LEMMA TickStep == IInv /\ Tick => IInv'
<1> SUFFICES ASSUME IInv, Tick
             PROVE  IInv'
    OBVIOUS
<1>1. TypeOK'
    BY BoundsAssumption DEF IInv, TypeOK, Tick
<1>2. Calm
    BY DEF Tick, Calm, IInv, TypeOK
<1>3. Tables'
    BY BoundsAssumption DEF Tick, Tables, IInv, TypeOK, Times
<1>4. ASSUME NEW r \in Requests
      PROVE  Sound(req[r], clock, users, rows, issued)'
    BY <1>1, <1>2, StaysSound DEF Tick
<1> QED BY <1>1, <1>3, <1>4 DEF IInv

LEMMA IdleIsSound == Idle \in Request /\ Sound(Idle, clock, users, rows, issued)
    BY BoundsAssumption, NamesAssumption
       DEF Idle, Request, Steps, Kinds, Cookies, Times, Cleared, Sound, InWrap

\* A fresh request carries nothing yet.
LEMMA CallStep == ASSUME IInv, NEW r \in Requests, NEW k \in Kinds, Call(r, k) PROVE IInv'
<1> DEFINE q == [Idle EXCEPT !.pc = "called", !.kind = k,
                             !.header = IF isMutating(k) THEN Sent(jar.csrf) ELSE None]
<1>1. Sent(jar.csrf) \in Cookies
    BY DEF IInv, TypeOK, Sent, Cookies
<1>2. q \in Request
    <2>1. (IF isMutating(k) THEN Sent(jar.csrf) ELSE None) \in Cookies
        BY <1>1 DEF Cookies
    <2> QED BY <2>1, IdleIsSound DEF Request, Steps
<1>3. Sound(q, clock, users, rows, issued)
    BY NamesAssumption DEF Idle, Sound, InWrap, Cleared
<1>4. Becomes(r, q) /\ UNCHANGED <<clock, users, rows, issued, jar>>
    BY DEF Call
<1> QED BY <1>2, <1>3, <1>4, OnlyRequest

\* The two cookies of the jar expire together, so a request has both or only
\* the CSRF cookie or none.
LEMMA SendStep == ASSUME IInv, NEW r \in Requests, Send(r) PROVE IInv'
<1> DEFINE c == [req[r] EXCEPT !.session = Sent(jar.session), !.csrf = Sent(jar.csrf)]
           q == Routed(c)
<1>1. req[r] \in Request /\ Sound(req[r], clock, users, rows, issued) /\ req[r].pc = "called"
    BY DEF IInv, TypeOK, Send
<1>2. /\ Sent(jar.session) \in Cookies
      /\ Sent(jar.csrf) \in Cookies
      /\ Sent(jar.session) # None =>
            issued[Sent(jar.session)] # None /\ Sent(jar.csrf) = Sent(jar.session)
    BY DEF IInv, TypeOK, Tables, Sent, Cookies
<1>3. req[r].answer = "keep"
    BY <1>1 DEF Sound
<1>4. /\ c \in Request
      /\ c.answer = "keep" /\ c.pc = "called"
      /\ c.session # None => issued[c.session] # None /\ c.csrf = c.session
      /\ ~(c.late /\ c.kind \in Wrapped \cup {"setup"})
    BY <1>1, <1>2, <1>3 DEF Request, Sound
<1>5. c.kind \in Kinds
    BY <1>4 DEF Request
<1> HIDE DEF c
<1>6. ASSUME c.kind \in {"login", "setup"}
      PROVE  q \in Request /\ Sound(q, clock, users, rows, issued)
    <2>1. CASE c.kind = "login"
        <3>1. q = [c EXCEPT !.pc = "verify"]
            BY <2>1 DEF Routed, Wrapped
        <3>2. q \in Request
            BY <3>1, <1>4 DEF Request, Steps
        <3> QED BY <3>1, <3>2, <2>1, <1>4, NamesAssumption DEF Request, Sound, InWrap, Cleared, Wrapped
    <2>2. CASE c.kind = "setup"
        <3>1. q = [c EXCEPT !.pc = "count", !.late = users # {}]
            BY <2>2 DEF Routed, Wrapped
        <3>2. q \in Request
            BY <3>1, <1>4 DEF Request, Steps
        <3> QED BY <3>1, <3>2, <2>2, <1>4, NamesAssumption DEF Request, Sound, InWrap, Cleared, Wrapped
    <2> QED BY <1>6, <2>1, <2>2
<1>7. ASSUME c.kind \in Wrapped /\ c.session = None
      PROVE  q \in Request /\ Sound(q, clock, users, rows, issued)
    <2>1. q = Anonymous(c, "keep")
        BY <1>7 DEF Routed, Wrapped
    <2>2. q \in Request
        BY <2>1, <1>4 DEF Request, Steps, Anonymous, Cleared
    <2>3. Sound(q, clock, users, rows, issued)
        BY <2>1, <1>4, <1>7, NamesAssumption DEF Request, Sound, InWrap, Anonymous, Cleared, Wrapped
    <2> QED BY <2>2, <2>3
<1>8. ASSUME c.kind \in Wrapped /\ c.session # None
      PROVE  q \in Request /\ Sound(q, clock, users, rows, issued)
    <2>1. q = [c EXCEPT !.pc = "look", !.late = rows[c.session] = None]
        BY <1>8 DEF Routed, Wrapped
    <2>2. q \in Request
        BY <2>1, <1>4 DEF Request, Steps
    <2>3. Sound(q, clock, users, rows, issued)
        BY <2>1, <1>4, <1>8, NamesAssumption DEF Request, Sound, InWrap, Cleared, Wrapped
    <2> QED BY <2>2, <2>3
<1>9. q \in Request /\ Sound(q, clock, users, rows, issued)
    BY <1>5, <1>6, <1>7, <1>8 DEF Kinds, Wrapped
<1>10. Becomes(r, q) /\ UNCHANGED <<clock, users, rows, issued, jar>>
    BY DEF Send, c
<1> QED BY <1>9, <1>10, OnlyRequest

LEMMA DeliverStep == ASSUME IInv, NEW r \in Requests, Deliver(r) PROVE IInv'
<1>1. req[r] \in Request /\ Sound(req[r], clock, users, rows, issued)
    BY DEF IInv, TypeOK
<1>2. /\ jar' \in [session : Cookies, csrf : Cookies]
      /\ jar'.session # None => issued[jar'.session] # None /\ jar'.csrf = jar'.session
    <2>1. CASE req[r].answer \in Sids
        BY <2>1, <1>1, NamesAssumption DEF Deliver, Applied, Sound, Cookies, Cleared
    <2>2. CASE req[r].answer \in Cleared
        BY <2>2, NamesAssumption DEF Deliver, Applied, IInv, TypeOK, Tables, Cookies, Cleared
    <2> QED BY <1>1, <2>1, <2>2 DEF Request
<1>3. Calm
    BY DEF Deliver, Calm, IInv, TypeOK
<1>4. Tables'
    BY <1>2 DEF Deliver, Tables, IInv
<1>5. Sound(Idle, clock', users', rows', issued') /\ Becomes(r, Idle)
    BY IdleIsSound DEF Deliver
<1> QED BY <1>2, <1>3, <1>4, <1>5, IdleIsSound, OneRequest DEF Deliver, IInv, TypeOK

LEMMA LoseStep == ASSUME IInv, NEW r \in Requests, Lose(r) PROVE IInv'
    BY IdleIsSound, OnlyRequest DEF Lose

-----------------------------------------------------------------------------
LEMMA LookUpStep == ASSUME IInv, NEW r \in Requests, LookUp(r) PROVE IInv'
<1> DEFINE s == req[r].session
           found == [req[r] EXCEPT !.pc = "judge", !.time = rows[s]]
           lost == Anonymous(req[r], "clear")
           failed == Anonymous([req[r] EXCEPT !.failed = TRUE], "clear")
<1>1. /\ req[r] \in Request /\ s \in Sids /\ req[r].kind \in Wrapped
      /\ req[r].answer = "keep" /\ Sound(req[r], clock, users, rows, issued)
    BY WrapFacts DEF LookUp, InWrap
<1>2. ASSUME rows[s] # None
      PROVE  found \in Request /\ Sound(found, clock, users, rows, issued)
    <2>1. rows[s] \in Times /\ issued[s] <= rows[s]
        BY <1>1, <1>2 DEF IInv, TypeOK, Tables
    <2>2. found \in Request
        BY <2>1, <1>1 DEF Request, Steps
    <2> QED BY <2>1, <2>2, <1>1, <1>2, NamesAssumption DEF Sound, InWrap, Request, Wrapped, Cleared
<1>3. lost \in Request /\ failed \in Request
    BY <1>1 DEF Request, Steps, Anonymous, Cleared
<1>4. ASSUME rows[s] = None
      PROVE  Sound(lost, clock, users, rows, issued)
    BY <1>1, <1>4, NamesAssumption DEF Sound, InWrap, Request, Anonymous, Cleared, Wrapped
<1>5. Sound(failed, clock, users, rows, issued)
    BY <1>1, NamesAssumption DEF Sound, InWrap, Request, Anonymous, Cleared, Wrapped
<1> HIDE DEF found, lost, failed
<1>6. \/ rows[s] # None /\ Becomes(r, found)
      \/ rows[s] = None /\ Becomes(r, lost)
      \/ Becomes(r, failed)
    BY DEF LookUp, found, lost, failed
<1>7. UNCHANGED <<clock, users, rows, issued, jar>>
    BY DEF LookUp
<1> QED BY <1>2, <1>3, <1>4, <1>5, <1>6, <1>7, OnlyRequest

\* What was read is an upper bound of the cookies' ExpiresAt: a session that is
\* judged expired has expired in the browser too.
LEMMA JudgeStep == ASSUME IInv, NEW r \in Requests, Judge(r) PROVE IInv'
<1> DEFINE q == [req[r] EXCEPT !.pc =
                    IF clock > req[r].time THEN "drop"
                    ELSE IF isMutating(req[r].kind) /\ ~ValidCSRF(req[r]) THEN "answered"
                    ELSE "load"]
<1>1. /\ req[r] \in Request /\ req[r].session \in Sids /\ req[r].kind \in Wrapped
      /\ req[r].answer = "keep" /\ req[r].time \in Nat /\ clock \in Nat
      /\ issued[req[r].session] \in Nat
      /\ Sound(req[r], clock, users, rows, issued) /\ req[r].pc = "judge"
    BY WrapFacts DEF Judge, InWrap
<1>2. ~req[r].late
    BY <1>1 DEF Sound, Request
<1>3. q \in Request
    BY <1>1 DEF Request, Steps
<1>4. clock > req[r].time => issued[req[r].session] < clock
    BY <1>1 DEF Sound
<1>5. Sound(q, clock, users, rows, issued)
    BY <1>1, <1>2, <1>4, NamesAssumption DEF Sound, InWrap, Request, Cleared, ValidCSRF
<1> QED BY <1>3, <1>5, OnlyRequest DEF Judge

LEMMA LoadStep == ASSUME IInv, NEW r \in Requests, Load(r) PROVE IInv'
<1> DEFINE loaded == [req[r] EXCEPT !.pc = "touch", !.time = clock]
           failed == [req[r] EXCEPT !.pc = "drop", !.failed = TRUE]
<1>1. /\ req[r] \in Request /\ req[r].session \in Sids /\ req[r].kind \in Wrapped
      /\ req[r].answer = "keep" /\ clock \in Times /\ clock \in Nat
      /\ issued[req[r].session] \in Nat /\ issued[req[r].session] <= clock + TTL
      /\ Sound(req[r], clock, users, rows, issued) /\ req[r].pc = "load"
    BY WrapFacts, BoundsAssumption DEF Load, InWrap, IInv, TypeOK, Times
<1>2. ~req[r].late
    BY <1>1 DEF Sound, Request
<1>3. loaded \in Request /\ Sound(loaded, clock, users, rows, issued)
    <2>1. loaded \in Request
        BY <1>1 DEF Request, Steps
    <2> QED BY <2>1, <1>1, <1>2, NamesAssumption DEF Sound, InWrap, Request, Cleared, ValidCSRF
<1>4. failed \in Request /\ Sound(failed, clock, users, rows, issued)
    BY <1>1, <1>2, NamesAssumption DEF Sound, InWrap, Request, Steps, Cleared
<1> QED BY <1>3, <1>4, OnlyRequest DEF Load

\* A row that is deleted, by Wrap or by a log-out.
LEMMA DeleteStep ==
    ASSUME IInv, NEW r \in Requests, NEW q \in Request, Becomes(r, q),
           rows' = [rows EXCEPT ![req[r].session] = None], req[r].session \in Sids,
           UNCHANGED <<clock, users, issued, jar>>,
           Sound(q, clock, users, rows', issued)
    PROVE  IInv'
<1>1. Calm
    BY BoundsAssumption DEF Calm, IInv, TypeOK
<1>2. Tables' /\ rows' \in [Sids -> Times \cup {None}]
    BY DEF Tables, IInv, TypeOK
<1> QED BY <1>1, <1>2, OneRequest DEF IInv, TypeOK

LEMMA DropStep == ASSUME IInv, NEW r \in Requests, Drop(r) PROVE IInv'
<1> DEFINE dropped == Anonymous(req[r], "clear")
           failed == Anonymous([req[r] EXCEPT !.failed = TRUE], "clear")
<1>1. /\ req[r] \in Request /\ req[r].session \in Sids /\ req[r].kind \in Wrapped
      /\ req[r].answer = "keep"
      /\ Sound(req[r], clock, users, rows, issued) /\ req[r].pc = "drop"
    BY WrapFacts DEF Drop, InWrap
<1>2. ~req[r].late
    BY <1>1 DEF Sound, Request
<1>3. dropped \in Request /\ failed \in Request
    BY <1>1 DEF Request, Steps, Anonymous, Cleared
<1>4. Sound(failed, clock, users, rows, issued)
    BY <1>1, <1>2, NamesAssumption DEF Sound, InWrap, Request, Anonymous, Cleared, Wrapped
<1>5. CASE rows' = [rows EXCEPT ![req[r].session] = None] /\ Becomes(r, dropped)
    <2>1. rows'[req[r].session] = None
        BY <1>1, <1>5 DEF IInv, TypeOK
    <2>2. Sound(dropped, clock, users, rows', issued)
        BY <2>1, <1>1, <1>2, NamesAssumption DEF Sound, InWrap, Request, Anonymous, Cleared, Wrapped
    <2> QED BY <2>2, <1>1, <1>3, <1>5, DeleteStep DEF Drop
<1>6. CASE rows' = rows /\ Becomes(r, failed)
    BY <1>3, <1>4, <1>6, OnlyRequest DEF Drop
<1> QED BY <1>5, <1>6 DEF Drop

\* The row of a session lasts at least as long as its cookies, whichever of two
\* requests comes last; without a row nothing happens.
LEMMA TouchStep == ASSUME IInv, NEW r \in Requests, Touch(r) PROVE IInv'
<1> DEFINE touched == [req[r] EXCEPT !.pc = "serve"]
           failed == [req[r] EXCEPT !.pc = "serve", !.failed = TRUE]
           s == req[r].session
<1>1. /\ req[r] \in Request /\ s \in Sids /\ req[r].kind \in Wrapped
      /\ req[r].answer = "keep" /\ req[r].time \in Nat
      /\ Sound(req[r], clock, users, rows, issued) /\ req[r].pc = "touch"
    BY WrapFacts DEF Touch, InWrap
<1>2. ~req[r].late /\ issued[s] <= req[r].time + TTL /\ req[r].time <= clock
    BY <1>1 DEF Sound, Request
<1>3. touched \in Request /\ Sound(touched, clock, users, rows', issued)
    BY <1>1, <1>2, NamesAssumption DEF Sound, InWrap, Request, Steps, Cleared, ValidCSRF
<1>4. failed \in Request /\ Sound(failed, clock, users, rows, issued)
    BY <1>1, <1>2, NamesAssumption DEF Sound, InWrap, Request, Steps, Cleared, ValidCSRF
<1>5. CASE rows' = Touched(s, req[r].time) /\ Becomes(r, touched)
    <2>1. req[r].time + TTL \in Times
        BY <1>1, <1>2, BoundsAssumption DEF IInv, TypeOK, Times
    <2>2. rows' \in [Sids -> Times \cup {None}]
        BY <2>1, <1>1, <1>5 DEF Touched, IInv, TypeOK
    <2>3. Tables'
        BY <2>1, <1>1, <1>2, <1>5 DEF Touched, Tables, IInv, TypeOK, Touch
    <2>4. Calm
        BY <1>1, <1>5, BoundsAssumption DEF Touched, Calm, Touch, IInv, TypeOK
    <2>5. UNCHANGED <<clock, users, issued, jar>>
        BY DEF Touch
    <2>6. Sound(touched, clock', users', rows', issued')
        BY <1>3, <2>5
    <2> HIDE DEF touched
    <2> QED BY <1>3, <1>5, <2>2, <2>3, <2>4, <2>5, <2>6, OneRequest DEF IInv, TypeOK
<1>6. CASE rows' = rows /\ Becomes(r, failed)
    BY <1>4, <1>6, OnlyRequest DEF Touch
<1> QED BY <1>5, <1>6 DEF Touch

-----------------------------------------------------------------------------
LEMMA ServeStep == ASSUME IInv, NEW r \in Requests, Serve(r) PROVE IInv'
<1> DEFINE s == req[r].session
           page == [req[r] EXCEPT !.pc = "answered"]
           out == [req[r] EXCEPT !.pc = "answered", !.answer = "clearBoth"]
           failed == [req[r] EXCEPT !.pc = "answered", !.answer = "clearBoth", !.failed = TRUE]
<1>1. /\ req[r] \in Request /\ s \in Sids /\ req[r].kind \in Wrapped
      /\ req[r].answer = "keep"
      /\ Sound(req[r], clock, users, rows, issued) /\ req[r].pc = "serve"
    BY WrapFacts DEF Serve, InWrap
<1>2. ~req[r].late
    BY <1>1 DEF Sound, Request
<1>3. page \in Request /\ out \in Request /\ failed \in Request
    BY <1>1 DEF Request, Steps, Cleared
<1>4. Sound(page, clock, users, rows, issued) /\ Sound(failed, clock, users, rows, issued)
    BY <1>1, <1>2, NamesAssumption DEF Sound, InWrap, Request, Cleared
<1>5. CASE rows' = rows /\ (Becomes(r, page) \/ Becomes(r, failed))
    BY <1>3, <1>4, <1>5, OnlyRequest DEF Serve
<1>6. CASE rows' = [rows EXCEPT ![s] = None] /\ Becomes(r, out)
    <2>1. rows'[s] = None
        BY <1>1, <1>6 DEF IInv, TypeOK
    <2>2. Sound(out, clock, users, rows', issued)
        BY <2>1, <1>1, <1>2, NamesAssumption DEF Sound, InWrap, Request, Cleared
    <2> QED BY <2>2, <1>1, <1>3, <1>6, DeleteStep DEF Serve
<1> QED BY <1>5, <1>6 DEF Serve, RowsAfterLogout

\* A set-up that goes on has found no user, so it was not late.
LEMMA CountStep == ASSUME IInv, NEW r \in Requests, Count(r) PROVE IInv'
<1> DEFINE q == [req[r] EXCEPT !.pc = "hash"]
<1>1. /\ req[r] \in Request /\ Sound(req[r], clock, users, rows, issued)
      /\ req[r].pc = "count" /\ users = {}
    BY DEF IInv, TypeOK, Count, NeedsSetup
<1>2. q \in Request /\ Sound(q, clock, users, rows, issued)
    BY <1>1, NamesAssumption DEF Sound, InWrap, Request, Steps, Cleared
<1> QED BY <1>2, OnlyRequest DEF Count

LEMMA CreateStep ==
    ASSUME IInv, NEW r \in Requests, NEW n \in Names, Create(r, n) PROVE IInv'
<1> DEFINE q == [req[r] EXCEPT !.pc = "start"]
<1>1. /\ req[r] \in Request /\ Sound(req[r], clock, users, rows, issued)
      /\ req[r].pc = "hash"
    BY DEF IInv, TypeOK, Create
<1>2. q \in Request /\ Sound(q, clock', users', rows', issued')
    BY <1>1, NamesAssumption DEF Sound, InWrap, Request, Steps, Cleared, Create
<1>3. Calm /\ Tables' /\ users' \in SUBSET Names
    BY BoundsAssumption DEF Create, Calm, Tables, IInv, TypeOK
<1> QED BY <1>2, <1>3, OneRequest DEF Create, IInv, TypeOK

LEMMA StartSessionStep ==
    ASSUME IInv, NEW r \in Requests, NEW s \in Sids, StartSession(r, s) PROVE IInv'
<1> DEFINE q == [req[r] EXCEPT !.pc = "answered", !.answer = s]
<1>1. /\ req[r] \in Request /\ Sound(req[r], clock, users, rows, issued)
      /\ req[r].pc \in {"start", "verify"}
    BY DEF IInv, TypeOK, StartSession
<1>2. clock + TTL \in Times /\ clock + TTL # None
    BY BoundsAssumption, NamesAssumption DEF IInv, TypeOK, Times
<1>3. /\ rows' \in [Sids -> Times \cup {None}]
      /\ issued' \in [Sids -> Times \cup {None}]
      /\ issued'[s] = clock + TTL /\ rows'[s] = clock + TTL
      /\ \A t \in Sids : t # s => issued'[t] = issued[t] /\ rows'[t] = rows[t]
    BY <1>2 DEF StartSession, IInv, TypeOK
<1>4. Calm
    BY <1>3, BoundsAssumption DEF StartSession, Calm, IInv, TypeOK
<1>5. Tables'
    BY <1>2, <1>3 DEF StartSession, Tables, IInv, TypeOK, Cookies, Times
<1>6. q \in Request
    BY <1>1 DEF Request, Steps
<1>7. /\ ~(req[r].late /\ req[r].kind \in Wrapped \cup {"setup"})
      /\ req[r].session # None => issued'[req[r].session] # None /\ req[r].csrf = req[r].session
    BY <1>1, <1>4 DEF Sound, Request, Calm, Cookies
<1>8. Sound(q, clock', users', rows', issued')
    BY <1>1, <1>2, <1>3, <1>6, <1>7, NamesAssumption DEF Sound, InWrap, Request, Cleared
<1> QED BY <1>3, <1>4, <1>5, <1>6, <1>8, OneRequest DEF StartSession, IInv, TypeOK

LEMMA RefuseStep == ASSUME IInv, NEW r \in Requests, Refuse(r) PROVE IInv'
<1> DEFINE q == [req[r] EXCEPT !.pc = "answered"]
<1>1. /\ req[r] \in Request /\ Sound(req[r], clock, users, rows, issued)
      /\ req[r].pc \in {"verify", "hash", "count", "start"}
    BY DEF IInv, TypeOK, Refuse
<1>2. q \in Request /\ Sound(q, clock, users, rows, issued)
    BY <1>1, NamesAssumption DEF Sound, InWrap, Request, Steps, Cleared
<1> QED BY <1>2, OnlyRequest DEF Refuse

-----------------------------------------------------------------------------
LEMMA InvariantStep == IInv /\ [Next]_vars => IInv'
<1> SUFFICES ASSUME IInv, [Next]_vars
             PROVE  IInv'
    OBVIOUS
<1>1. CASE Tick
    BY <1>1, TickStep
<1>2. ASSUME NEW r \in Requests,
             \/ \E k \in Kinds : Call(r, k)
             \/ Send(r) \/ Deliver(r) \/ Lose(r)
      PROVE  IInv'
    BY <1>2, CallStep, SendStep, DeliverStep, LoseStep
<1>3. ASSUME NEW r \in Requests,
             LookUp(r) \/ Judge(r) \/ Load(r) \/ Drop(r) \/ Touch(r) \/ Serve(r)
      PROVE  IInv'
    BY <1>3, LookUpStep, JudgeStep, LoadStep, DropStep, TouchStep, ServeStep
<1>4. ASSUME NEW r \in Requests,
             \/ Count(r) \/ Refuse(r)
             \/ \E n \in Names : Create(r, n)
             \/ \E s \in Sids : StartSession(r, s)
      PROVE  IInv'
    BY <1>4, CountStep, RefuseStep, CreateStep, StartSessionStep
<1>5. CASE UNCHANGED vars
    BY <1>5 DEF vars, IInv, TypeOK, Tables, Sound
<1> QED BY <1>1, <1>2, <1>3, <1>4, <1>5 DEF Next

\* The inductive invariant holds in every reachable state.
THEOREM Invariant == Spec => []IInv
    BY Initially, InvariantStep, PTL DEF Spec

\* Every variable keeps its type; expiry stays within DefaultSessionTTL of the
\* clock's range.
THEOREM TypeCorrect == Spec => []TypeOK
<1>1. IInv => TypeOK
    BY DEF IInv
<1> QED BY <1>1, Invariant, PTL

\* An answered log-out whose statements succeeded has ended its session, for any
\* number of concurrent requests of that session.
THEOREM LogOutEndsSessionHolds == Spec => []LogOutEndsSession
<1>1. IInv => LogOutEndsSession
    BY DEF IInv, Sound, LogOutEndsSession
<1> QED BY <1>1, Invariant, PTL

\* A request sent after the end of its session is never attributed to a user.
THEOREM EndedIsRefusedHolds == Spec => []EndedIsRefused
<1>1. IInv => EndedIsRefused
    BY DEF IInv, Sound, EndedIsRefused
<1> QED BY <1>1, Invariant, PTL

\* The middleware expires no session whose cookies have not expired.
THEOREM NeverDroppedEarlyHolds == Spec => []NeverDroppedEarly
<1>1. IInv => NeverDroppedEarly
    BY DEF IInv, Sound, NeverDroppedEarly
<1> QED BY <1>1, Invariant, PTL

\* A request with a session carries that session's CSRF token.
THEOREM CookiesMatchHolds == Spec => []CookiesMatch
<1>1. IInv => CookiesMatch
    BY DEF IInv, Sound, CookiesMatch
<1> QED BY <1>1, Invariant, PTL

\* A set-up sent when there is a user creates none.
THEOREM SetupIsOverHolds == Spec => []SetupIsOver
<1>1. IInv => SetupIsOver
    BY DEF IInv, Sound, SetupIsOver
<1> QED BY <1>1, Invariant, PTL

\* The sessions table never takes an ended session back (TouchSession updates,
\* it does not insert).
THEOREM EndedStaysEnded ==
    Spec => [][\A s \in Sids : issued[s] # None /\ rows[s] = None => rows'[s] = None]_vars
<1>1. IInv /\ Next => \A s \in Sids : issued[s] # None /\ rows[s] = None => rows'[s] = None
    <2> SUFFICES ASSUME IInv, Next, NEW s \in Sids, issued[s] # None, rows[s] = None
                 PROVE  rows'[s] = None
        OBVIOUS
    <2>1. TypeOK
        BY DEF IInv
    <2>2. CASE Tick
        BY <2>2 DEF Tick
    <2>3. ASSUME NEW r \in Requests,
                 \/ \E k \in Kinds : Call(r, k)
                 \/ Send(r) \/ Deliver(r) \/ Lose(r) \/ LookUp(r) \/ Judge(r) \/ Load(r)
                 \/ Count(r) \/ Refuse(r) \/ \E n \in Names : Create(r, n)
          PROVE  rows' = rows
        BY <2>3 DEF Call, Send, Deliver, Lose, LookUp, Judge, Load, Count, Create, Refuse
    <2>4. ASSUME NEW r \in Requests, Drop(r) \/ Touch(r) \/ Serve(r)
          PROVE  rows'[s] = None
        BY <2>1, <2>4 DEF Drop, Touch, Touched, Serve, RowsAfterLogout, TypeOK
    <2>5. ASSUME NEW r \in Requests, NEW t \in Sids, StartSession(r, t)
          PROVE  rows'[s] = None
        BY <2>1, <2>5 DEF StartSession, TypeOK
    <2> QED BY <2>2, <2>3, <2>4, <2>5 DEF Next
<1> QED BY <1>1, Invariant, PTL DEF Spec
-----------------------------------------------------------------------------
(* Why a session ends: its cookies have expired, or a log-out that carries    *)
(* its CSRF token is served, or the look-up of its user has failed (Wrap,     *)
(* which takes any error of GetUserByID for a user that is gone).  Nothing    *)
(* else ends it: no judgement of an old ExpiresAt, no request of another tab  *)
(* or of another session, no answer that is lost.                             *)
EndsForAReason ==
    \A s \in Sids : rows[s] # None /\ rows'[s] = None =>
        \/ issued[s] < clock
        \/ \E r \in Requests :
              /\ req[r].session = s
              /\ \/ req[r].pc = "serve" /\ req[r].kind = "logout" /\ ValidCSRF(req[r])
                 \/ req[r].pc = "drop" /\ req[r].failed

LEMMA EndStep == IInv /\ [Next]_vars => EndsForAReason
<1> SUFFICES ASSUME IInv, [Next]_vars,
                    NEW s \in Sids, rows[s] # None, rows'[s] = None
             PROVE  \/ issued[s] < clock
                    \/ \E r \in Requests :
                          /\ req[r].session = s
                          /\ \/ /\ req[r].pc = "serve" /\ req[r].kind = "logout"
                                /\ ValidCSRF(req[r])
                             \/ req[r].pc = "drop" /\ req[r].failed
    BY DEF EndsForAReason
<1>0. rows \in [Sids -> Times \cup {None}]
    BY DEF IInv, TypeOK
<1>1. ASSUME NEW r \in Requests, Drop(r)
      PROVE  req[r].session = s /\ (issued[s] < clock \/ req[r].failed) /\ req[r].pc = "drop"
    <2>1. req[r].pc = "drop" /\ req[r].session = s
        BY <1>0, <1>1 DEF Drop
    <2> QED BY <1>1, <2>1 DEF IInv, Sound
<1>2. ASSUME NEW r \in Requests, Serve(r)
      PROVE  req[r].session = s /\ req[r].pc = "serve" /\ req[r].kind = "logout" /\ ValidCSRF(req[r])
    <2>1. req[r].pc = "serve" /\ req[r].session = s /\ req[r].kind = "logout"
        BY <1>0, <1>2 DEF Serve, RowsAfterLogout
    <2> QED BY <2>1 DEF IInv, Sound, isMutating
<1>3. ASSUME NEW r \in Requests, Touch(r)
      PROVE  FALSE
    <2>1. req[r] \in Request /\ req[r].time + TTL # None
        BY BoundsAssumption, NamesAssumption DEF IInv, TypeOK, Request, Times
    <2> QED BY <1>0, <1>3, <2>1 DEF Touch, Touched
<1>4. ASSUME NEW r \in Requests, NEW t \in Sids, StartSession(r, t)
      PROVE  FALSE
    <2>1. clock + TTL # None
        BY BoundsAssumption, NamesAssumption DEF IInv, TypeOK
    <2> QED BY <1>0, <1>4, <2>1 DEF StartSession
<1>5. rows' # rows
    OBVIOUS
<1>6. \E r \in Requests : Drop(r) \/ Serve(r) \/ Touch(r) \/ \E t \in Sids : StartSession(r, t)
    BY <1>5 DEF Next, Tick, Call, Send, Deliver, Lose, LookUp, Judge, Load, Count, Create,
                Refuse, vars
<1> QED BY <1>1, <1>2, <1>3, <1>4, <1>6

\* For any number of tabs, sessions and users, failing statements and lost
\* answers.
THEOREM SessionsEndForAReason == Spec => [][EndsForAReason]_vars
<1>1. IInv /\ [Next]_vars => [EndsForAReason]_vars
    BY EndStep
<1> QED BY <1>1, Invariant, PTL DEF Spec
=============================================================================
