----------------------------- MODULE Enrollment -----------------------------
(***************************************************************************)
(* How an agent gets its identity, and keeps it through crashes: an agent  *)
(* without a certificate posts its enrolment token (loadOrEnroll, enroll   *)
(* in go/internal/agent/daemon.go); the controller checks and consumes the *)
(* token in one transaction on its only database connection (HandleEnroll  *)
(* in go/internal/controller/agentapi/agentapi.go); the agent then writes  *)
(* four files one after the other, and finds what is left of them when it  *)
(* starts again.                                                           *)
(*                                                                         *)
(* Both sides die at any point.  A request outlives the agent that sent    *)
(* it, so one agent can have several in the controller, for one token.     *)
(*                                                                         *)
(* A variant defined beside an operator and used by nobody is a plausible  *)
(* mistake in that code, which breaks one of the properties below.         *)
(***************************************************************************)
EXTENDS Naturals

CONSTANTS
    Agents,      \* agent processes, each with a data directory
    Tokens,      \* enrolment tokens
    Entitled,    \* <<agent, token>>: the names match and the agent's CA pin is right
    None,        \* no file, no row, no identity
    Torn,        \* a file cut short by a crash
    MaxAttempts  \* bound: enrolment requests of one agent

ASSUME AttemptAssumption == MaxAttempts \in Nat

\* An enrolment request, and the ids of the server and the agent the controller
\* draws for it.
Ids == Agents \X (1 .. MaxAttempts)
Files == {"crt", "key", "shared", "identity"}

ASSUME NamesAssumption == None \notin Ids \cup Tokens /\ Torn \notin Ids /\ Torn # None

VARIABLES
    life,       \* controller: whether a token exists and has expired
    consumedBy, \* controller: enrollment_tokens.consumed_by_agent_id
    agents,     \* controller: the servers and agents rows of an id, by the token it used
    conn,       \* controller: the request that holds the database connection
    req,        \* controller: where the handler of a request is
    token,      \* the token a request carries
    pc,         \* agent: what it is doing, the file it writes next included
    disk,       \* agent: its data directory
    identity,   \* agent: Daemon.agentID of the running process
    attempts    \* agent: enrolment requests sent so far

controllerVars == <<life, consumedBy, agents, conn>>
agentVars      == <<pc, disk, identity, attempts>>
requestVars    == <<req, token>>
vars == <<controllerVars, requestVars, agentVars>>

Current(a) == <<a, attempts[a]>>
Empty == [f \in Files |-> None]

TypeOK ==
    /\ life \in [Tokens -> {"unissued", "open", "expired"}]
    /\ consumedBy \in [Tokens -> Ids \cup {None}]
    /\ agents \in [Ids -> Tokens \cup {None}]
    /\ conn \in Ids \cup {None}
    /\ req \in [Ids -> {"none", "sent", "begun", "accepted", "done", "failed"}]
    /\ token \in [Ids -> Tokens \cup {None}]
    /\ pc \in [Agents -> {"down", "waiting", "running"} \cup Files]
    /\ disk \in [Agents -> [Files -> Ids \cup {None, Torn}]]
    /\ identity \in [Agents -> Ids \cup {None}]
    /\ attempts \in [Agents -> 0 .. MaxAttempts]

Init ==
    /\ life = [t \in Tokens |-> "unissued"]
    /\ consumedBy = [t \in Tokens |-> None]
    /\ agents = [i \in Ids |-> None]
    /\ conn = None
    /\ req = [i \in Ids |-> "none"]
    /\ token = [i \in Ids |-> None]
    /\ pc = [a \in Agents |-> "down"]
    /\ disk = [a \in Agents |-> Empty]
    /\ identity = [a \in Agents |-> None]
    /\ attempts = [a \in Agents |-> 0]

-----------------------------------------------------------------------------
(* The controller.  The pool has one connection (db.Open): a statement or a   *)
(* transaction waits until no transaction holds it.                           *)

\* HandleCreateEnrollmentToken, by an admin.
CreateToken(t) ==
    /\ life[t] = "unissued"
    /\ conn = None
    /\ life' = [life EXCEPT ![t] = "open"]
    /\ UNCHANGED <<consumedBy, agents, conn, requestVars, agentVars>>

\* Time passes expires_at.
ExpireToken(t) ==
    /\ life[t] = "open"
    /\ life' = [life EXCEPT ![t] = "expired"]
    /\ UNCHANGED <<consumedBy, agents, conn, requestVars, agentVars>>

\* HandleEnroll, BeginTx.
BeginEnroll(i) ==
    /\ req[i] = "sent"
    /\ conn = None
    /\ conn' = i
    /\ req' = [req EXCEPT ![i] = "begun"]
    /\ UNCHANGED <<life, consumedBy, agents, token, agentVars>>

\* The token is known, not expired and not used, was made for this agent's
\* name, and the CA fingerprint the agent pins, if any, is the controller's.
AcceptableIfConsumed(i) ==
    life[token[i]] = "open" /\ <<i[1], token[i]>> \in Entitled
AcceptableIfExpired(i) ==
    life[token[i]] # "unissued" /\ consumedBy[token[i]] = None /\ <<i[1], token[i]>> \in Entitled
Acceptable(i) ==
    /\ life[token[i]] = "open"
    /\ consumedBy[token[i]] = None
    /\ <<i[1], token[i]>> \in Entitled

\* HandleEnroll, the token row is read and judged.
AcceptToken(i) ==
    /\ req[i] = "begun"
    /\ Acceptable(i)
    /\ req' = [req EXCEPT ![i] = "accepted"]
    /\ UNCHANGED <<controllerVars, token, agentVars>>

\* Any refusal, failing statement, cancelled context or failing commit: the
\* deferred Rollback gives the connection back and nothing is stored.
AbortEnroll(i) ==
    /\ \/ req[i] = "begun" /\ ~Acceptable(i)
       \/ req[i] \in {"sent", "accepted"}
    /\ req' = [req EXCEPT ![i] = "failed"]
    /\ conn' = IF conn = i THEN None ELSE conn
    /\ UNCHANGED <<life, consumedBy, agents, token, agentVars>>

\* HandleEnroll, the certificate is signed, the server, agent and token rows
\* are written and the transaction commits.
CommitEnroll(i) ==
    /\ req[i] = "accepted"
    /\ req' = [req EXCEPT ![i] = "done"]
    /\ agents' = [agents EXCEPT ![i] = token[i]]
    /\ consumedBy' = [consumedBy EXCEPT ![token[i]] = i]
    /\ conn' = None
    /\ UNCHANGED <<life, token, agentVars>>

UnderWay(i) == req[i] \in {"sent", "begun", "accepted"}

\* The controller process ends and starts again: every handler is gone, the
\* database keeps what was committed.
RestartController ==
    /\ \E i \in Ids : UnderWay(i)
    /\ req' = [i \in Ids |-> IF UnderWay(i) THEN "failed" ELSE req[i]]
    /\ conn' = None
    /\ UNCHANGED <<life, consumedBy, agents, token, agentVars>>

-----------------------------------------------------------------------------
(* The agent. *)

\* loadOrEnroll decides by the existence of agent.crt alone.
EnrolledByIdentity(a) == disk[a]["identity"] # None
Enrolled(a) == disk[a]["crt"] # None

\* loadOrEnroll posts the token the operator has put into the token file.
SendEnroll(a, t) ==
    /\ pc[a] = "down"
    /\ ~Enrolled(a)
    /\ attempts[a] < MaxAttempts
    /\ attempts' = [attempts EXCEPT ![a] = @ + 1]
    /\ req' = [req EXCEPT ![<<a, attempts[a] + 1>>] = "sent"]
    /\ token' = [token EXCEPT ![<<a, attempts[a] + 1>>] = t]
    /\ pc' = [pc EXCEPT ![a] = "waiting"]
    /\ UNCHANGED <<controllerVars, disk, identity>>

\* The credentials arrive, after the commit.
AnsweredBeforeCommit(a) == req[Current(a)] \in {"accepted", "done"}
Answered(a) == req[Current(a)] = "done"
ReceiveCert(a) ==
    /\ pc[a] = "waiting"
    /\ Answered(a)
    /\ pc' = [pc EXCEPT ![a] = "crt"]
    /\ UNCHANGED <<controllerVars, requestVars, disk, identity, attempts>>

\* enroll writes agent.crt, agent.key, shared.key and identity.json, in this
\* order; with the last one the process has its identity.
NextAfter(f) == CASE f = "crt" -> "key"
                  [] f = "key" -> "shared"
                  [] f = "shared" -> "identity"
                  [] f = "identity" -> "running"
WriteFile(a) ==
    /\ pc[a] \in Files
    /\ disk' = [disk EXCEPT ![a][pc[a]] = Current(a)]
    /\ pc' = [pc EXCEPT ![a] = NextAfter(pc[a])]
    /\ identity' = IF NextAfter(pc[a]) = "running"
                   THEN [identity EXCEPT ![a] = Current(a)] ELSE identity
    /\ UNCHANGED <<controllerVars, requestVars, attempts>>

\* The process ends: killed, refused by the controller, out of patience with
\* it, or unable to write.  A file it was writing may be cut short.
Crash(a) ==
    /\ pc[a] # "down"
    /\ pc' = [pc EXCEPT ![a] = "down"]
    /\ identity' = [identity EXCEPT ![a] = None]
    /\ \/ disk' = disk
       \/ pc[a] \in Files /\ disk' = [disk EXCEPT ![a][pc[a]] = Torn]
    /\ UNCHANGED <<controllerVars, requestVars, attempts>>

\* What loadExistingCert must be able to read and parse; shared.key is bytes.
Loadable(a) == disk[a]["crt"] \in Ids /\ disk[a]["key"] \in Ids /\ disk[a]["shared"] # None

\* An identity.json that is missing or cannot be parsed is passed over.
NoStoredIdentity(a) == None
UnparsedIdentity(a) == disk[a]["identity"]
StoredIdentity(a) == IF disk[a]["identity"] \in Ids THEN disk[a]["identity"] ELSE None

\* loadExistingCert; after an error in it Run ends and is started again.
LoadIdentity(a) ==
    /\ pc[a] = "down"
    /\ Enrolled(a)
    /\ Loadable(a)
    /\ pc' = [pc EXCEPT ![a] = "running"]
    /\ identity' = [identity EXCEPT ![a] = StoredIdentity(a)]
    /\ UNCHANGED <<controllerVars, requestVars, disk, attempts>>

-----------------------------------------------------------------------------
Next ==
    \/ \E t \in Tokens : CreateToken(t) \/ ExpireToken(t)
    \/ \E i \in Ids : BeginEnroll(i) \/ AcceptToken(i) \/ AbortEnroll(i) \/ CommitEnroll(i)
    \/ RestartController
    \/ \E a \in Agents :
          (\E t \in Tokens : SendEnroll(a, t)) \/ ReceiveCert(a) \/ WriteFile(a) \/ Crash(a) \/ LoadIdentity(a)

Spec == Init /\ [][Next]_vars

\* The supervisor restarts a stopped agent (restart: unless-stopped).
Fairness == \A a \in Agents : WF_vars(LoadIdentity(a))
FairSpec == Spec /\ Fairness

-----------------------------------------------------------------------------
(* Properties. *)

\* A token enrols at most one agent, whatever requests carry it and however
\* they interleave with crashes, restarts and expiry; and a token is marked
\* as consumed exactly by the agent it enrolled.
TokenEnrolsOneAgent ==
    /\ \A i, j \in Ids : agents[i] # None /\ agents[i] = agents[j] => i = j
    /\ \A i \in Ids, t \in Tokens : agents[i] = t <=> consumedBy[t] = i

\* An agent that runs under an id is one the controller knows (requireAgent
\* finds its row), and the id is the one issued to this very host.
RunningAgentIsKnown ==
    \A a \in Agents : pc[a] = "running" /\ identity[a] # None =>
        /\ agents[identity[a]] # None
        /\ identity[a][1] = a

\* The data directory never mixes two enrolments, although files of a crashed
\* one are not removed: the certificate, the key and the identity an agent
\* loads belong together.
DiskIsOneEnrollment ==
    \A a \in Agents : \A f, g \in Files :
        disk[a][f] \in Ids /\ disk[a][g] \in Ids => disk[a][f] = disk[a][g]

\* An agent whose four files are complete comes back under its identity after
\* every crash.
CompleteAgentComesBack ==
    \A a \in Agents :
        (\A f \in Files : disk[a][f] \in Ids)
            ~> (pc[a] = "running" /\ identity[a] = disk[a]["identity"])

\* The controller keeps the promise of one-time tokens: a handler has accepted
\* a token from the moment it has judged it to the end of its transaction.
acceptedFor == [t \in Tokens |->
    IF conn \in Ids /\ req[conn] = "accepted" /\ token[conn] = t THEN conn ELSE None]
OneTime == INSTANCE OneTimeTokens
    WITH Holders <- Ids, accepted <- acceptedFor, usedBy <- consumedBy
TokensAreOneTime == OneTime!Spec
=============================================================================
