--------------------------- MODULE UpdateReports ---------------------------
(***************************************************************************)
(* Update detection, end to end: an agent on each Docker host compares the *)
(* digest its running containers use with the digest the registry serves   *)
(* (pollRegistry in go/internal/agent/daemon.go), remembers in memory what *)
(* it has reported, and posts the deltas to the controller, which upserts  *)
(* one image row per repo:tag and one update row per image and server      *)
(* (go/internal/controller/agentapi/updates.go).                           *)
(*                                                                         *)
(* An agent is one goroutine, so its poll is a small program counter; the  *)
(* registry and the Docker host change under it between any two steps, and *)
(* the request it posts can fail, be answered late, or be handled after    *)
(* the agent has stopped waiting for it.                                   *)
(*                                                                         *)
(* Each group of definitions that begins with a variant nobody uses names  *)
(* a plausible mistake in that piece of code: put in its place, it breaks  *)
(* one of the properties below.                                            *)
(***************************************************************************)
EXTENDS Naturals, FiniteSets

CONSTANTS
    Servers,    \* enrolled hosts, one agent each
    Refs,       \* image references, the canonical repo:tag of registry.Ref
    Digests,    \* image digests
    None,       \* no container, no row, nothing remembered
    MaxReport,  \* deltas one report may carry (200 in the code)
    Faults,     \* whether a report may fail or be handled late
    MaxMoves,   \* bound: tag moves per reference
    MaxStarts   \* bound: starts of one agent process

ASSUME NoneAssumption   == None \notin Digests \cup [from : Digests, to : Digests]
ASSUME BoundsAssumption == MaxMoves \in Nat /\ MaxStarts \in Nat
ASSUME FaultsAssumption == Faults \in BOOLEAN

VARIABLES
    remote,       \* registry: the digest each reference points at
    local,        \* Docker: per host, the digest of the running container
    pc,           \* agent: where its goroutine is
    listed,       \* agent: the container list the poll began with
    todo,         \* agent: references of that list not resolved yet
    batch,        \* agent: deltas collected by this poll, then its request
    lastReported, \* agent: Daemon.lastReported, lost when the process ends
    late,         \* requests given up by their agent that may still be handled
    images,       \* controller: images.remote_digest per repo:tag
    updates,      \* controller: the updates row per server and image
    moves,        \* history: how often a reference moved
    starts,       \* history: how often an agent process started
    reported      \* history: deltas the agent decided to report

registryVars   == <<remote, moves>>
agentVars      == <<pc, listed, todo, batch, lastReported, starts, reported>>
controllerVars == <<images, updates>>
vars == <<registryVars, local, agentVars, late, controllerVars>>

-----------------------------------------------------------------------------
Delta    == [from : Digests, to : Digests]
Body     == [Refs -> Delta \cup {None}]
NoDeltas == [r \in Refs |-> None]
Carried(body) == {r \in Refs : body[r] # None}

TypeOK ==
    /\ remote \in [Refs -> Digests]
    /\ local \in [Servers -> [Refs -> Digests \cup {None}]]
    /\ pc \in [Servers -> {"idle", "resolving", "sending", "answered"}]
    /\ listed \in [Servers -> [Refs -> Digests \cup {None}]]
    /\ todo \in [Servers -> SUBSET Refs]
    /\ batch \in [Servers -> Body]
    /\ lastReported \in [Servers -> [Refs -> Digests \cup {None}]]
    /\ late \subseteq [server : Servers, body : Body]
    /\ images \in [Refs -> Digests \cup {None}]
    /\ updates \in [Servers -> [Refs -> Delta \cup {None}]]
    /\ moves \in [Refs -> 0 .. MaxMoves]
    /\ starts \in [Servers -> Nat]
    /\ reported \in [Servers -> [Refs -> Nat]]

Init ==
    /\ remote \in [Refs -> Digests]
    /\ local \in [Servers -> [Refs -> Digests \cup {None}]]
    /\ pc = [s \in Servers |-> "idle"]
    /\ listed = [s \in Servers |-> NoDeltas]
    /\ todo = [s \in Servers |-> {}]
    /\ batch = [s \in Servers |-> NoDeltas]
    /\ lastReported = [s \in Servers |-> NoDeltas]
    /\ late = {}
    /\ images = NoDeltas
    /\ updates = [s \in Servers |-> NoDeltas]
    /\ moves = [r \in Refs |-> 0]
    /\ starts = [s \in Servers |-> 1]
    /\ reported = [s \in Servers |-> [r \in Refs |-> 0]]

-----------------------------------------------------------------------------
(* The world outside the program. *)

\* Somebody pushes the tag: to a new image, or back to an old one.
Push(r, d) ==
    /\ moves[r] < MaxMoves
    /\ remote[r] # d
    /\ remote' = [remote EXCEPT ![r] = d]
    /\ moves' = [moves EXCEPT ![r] = @ + 1]
    /\ UNCHANGED <<local, agentVars, late, controllerVars>>

\* The operator recreates the container from another image, or stops it.
Recreate(s, r, d) ==
    /\ local[s][r] # d
    /\ local' = [local EXCEPT ![s][r] = d]
    /\ UNCHANGED <<registryVars, agentVars, late, controllerVars>>

-----------------------------------------------------------------------------
(* The agent: pollRegistry, run by loop on its ticker or by a scan command. *)

\* The references of running containers: the ones the registry is asked about.
WatchedUntilReported(s) == {r \in Refs : local[s][r] # None /\ lastReported[s][r] = None}
Watched(s) == {r \in Refs : local[s][r] # None}

\* The containers are listed once, before the registry is asked anything.
StartPoll(s) ==
    /\ pc[s] = "idle"
    /\ pc' = [pc EXCEPT ![s] = "resolving"]
    /\ listed' = [listed EXCEPT ![s] = local[s]]
    /\ todo' = [todo EXCEPT ![s] = Watched(s)]
    /\ UNCHANGED <<registryVars, local, batch, lastReported, starts, reported, late, controllerVars>>

\* No provider, or ResolveDigest fails: the reference waits for the next poll.
SkipRef(s, r) ==
    /\ pc[s] = "resolving"
    /\ r \in todo[s]
    /\ todo' = [todo EXCEPT ![s] = @ \ {r}]
    /\ UNCHANGED <<registryVars, local, pc, listed, batch, lastReported, starts, reported,
                   late, controllerVars>>

\* The container already runs the digest the registry serves, or that digest
\* was reported before.
NothingNewSinceListed(s, r) == remote[r] = listed[s][r]
NothingNew(s, r) == remote[r] \in {listed[s][r], lastReported[s][r]}

\* The digest counts as reported from here on, before anything is sent. The
\* delta starts at the digest that was listed, whatever runs by now.
NewDeltaRereadingDocker(s, r) == [from |-> local[s][r], to |-> remote[r]]
NewDelta(s, r) == [from |-> listed[s][r], to |-> remote[r]]
MarkReported(s, r) ==
    /\ lastReported' = [lastReported EXCEPT ![s][r] = remote[r]]
    /\ batch' = [batch EXCEPT ![s][r] = NewDelta(s, r)]
    /\ reported' = [reported EXCEPT ![s][r] = @ + 1]

\* ResolveDigest answers.
CheckRef(s, r) ==
    /\ pc[s] = "resolving"
    /\ r \in todo[s]
    /\ todo' = [todo EXCEPT ![s] = @ \ {r}]
    /\ IF NothingNew(s, r)
       THEN UNCHANGED <<batch, lastReported, reported>>
       ELSE MarkReported(s, r)
    /\ UNCHANGED <<registryVars, local, pc, listed, starts, late, controllerVars>>

\* Every reference is done: post the deltas, if there are any.
FinishPoll(s) ==
    /\ pc[s] = "resolving"
    /\ todo[s] = {}
    /\ pc' = [pc EXCEPT ![s] = IF batch[s] = NoDeltas THEN "idle" ELSE "sending"]
    /\ listed' = [listed EXCEPT ![s] = NoDeltas]
    /\ UNCHANGED <<registryVars, local, todo, batch, lastReported, starts, reported,
                   late, controllerVars>>

\* The answer arrives; an error status is logged and forgotten like a success.
ReceiveAnswer(s) ==
    /\ pc[s] = "answered"
    /\ pc' = [pc EXCEPT ![s] = "idle"]
    /\ batch' = [batch EXCEPT ![s] = NoDeltas]
    /\ UNCHANGED <<registryVars, local, listed, todo, lastReported, starts, reported,
                   late, controllerVars>>

\* A request whose agent no longer waits: it is gone, or still on its way.
GiveUp(s) ==
    \/ late' = late
    \/ Faults /\ pc[s] = "sending" /\ late' = late \cup {[server |-> s, body |-> batch[s]]}

\* Connection error, 30s client timeout or 5xx: logged, nothing is undone.
ReportFails(s) ==
    /\ Faults
    /\ pc[s] \in {"sending", "answered"}
    /\ pc' = [pc EXCEPT ![s] = "idle"]
    /\ batch' = [batch EXCEPT ![s] = NoDeltas]
    /\ GiveUp(s)
    /\ UNCHANGED <<registryVars, local, listed, todo, lastReported, starts, reported,
                   controllerVars>>

\* The process ends and starts again: what it remembered is gone.
Restart(s) ==
    /\ starts[s] < MaxStarts
    /\ starts' = [starts EXCEPT ![s] = @ + 1]
    /\ pc' = [pc EXCEPT ![s] = "idle"]
    /\ listed' = [listed EXCEPT ![s] = NoDeltas]
    /\ todo' = [todo EXCEPT ![s] = {}]
    /\ batch' = [batch EXCEPT ![s] = NoDeltas]
    /\ lastReported' = [lastReported EXCEPT ![s] = NoDeltas]
    /\ GiveUp(s)
    /\ UNCHANGED <<registryVars, local, reported, controllerVars>>

-----------------------------------------------------------------------------
(* The controller: HandleUpdatesReport, one transaction on the only connection. *)

\* upsertImage: the digest reported replaces the one stored.
KeepImage(old, new) == IF old = None THEN new ELSE old
UpsertImage(old, new) == IF new = None THEN old ELSE new

\* upsertUpdate: the first from_digest stays, to_digest follows the report.
ReplaceUpdate(row, delta) == delta
IgnoreUpdate(row, delta) == IF row = None THEN delta ELSE row
UpsertUpdate(row, delta) ==
    [from |-> IF row = None THEN delta.from ELSE row.from, to |-> delta.to]

\* upsertImage then upsertUpdate for every delta; an oversized report is refused.
Record(s, body) ==
    IF Cardinality(Carried(body)) > MaxReport
    THEN UNCHANGED controllerVars
    ELSE /\ images' = [r \in Refs |->
                IF body[r] = None THEN images[r] ELSE UpsertImage(images[r], body[r].to)]
         /\ updates' = [updates EXCEPT ![s] =
                [r \in Refs |-> IF body[r] = None THEN updates[s][r]
                                ELSE UpsertUpdate(updates[s][r], body[r])]]

HandleUpdatesReport(s) ==
    /\ pc[s] = "sending"
    /\ pc' = [pc EXCEPT ![s] = "answered"]
    /\ Record(s, batch[s])
    /\ UNCHANGED <<registryVars, local, listed, todo, batch, lastReported, starts, reported, late>>

\* A request the agent gave up is handled all the same, or its context is
\* cancelled in time and the transaction is rolled back.
HandleLateReport(m) ==
    /\ m \in late
    /\ late' = late \ {m}
    /\ Record(m.server, m.body)
    /\ UNCHANGED <<registryVars, local, agentVars>>

CancelLateReport(m) ==
    /\ m \in late
    /\ late' = late \ {m}
    /\ UNCHANGED <<registryVars, local, agentVars, controllerVars>>

-----------------------------------------------------------------------------
AgentStep(s) ==
    \/ StartPoll(s)
    \/ \E r \in Refs : SkipRef(s, r) \/ CheckRef(s, r)
    \/ FinishPoll(s)
    \/ ReceiveAnswer(s)
    \/ ReportFails(s)
    \/ Restart(s)

WorldStep ==
    \/ \E r \in Refs, d \in Digests : Push(r, d)
    \/ \E s \in Servers, r \in Refs, d \in Digests \cup {None} : Recreate(s, r, d)

Next ==
    \/ WorldStep
    \/ \E s \in Servers : AgentStep(s) \/ HandleUpdatesReport(s)
    \/ \E m \in late : HandleLateReport(m) \/ CancelLateReport(m)

Spec == Init /\ [][Next]_vars

\* The tickers keep firing, the goroutine keeps running, a reachable controller
\* keeps handling requests, and a registry asked again and again answers.
Fairness ==
    \A s \in Servers :
        /\ WF_vars(StartPoll(s))
        /\ \A r \in Refs : SF_vars(CheckRef(s, r))
        /\ WF_vars(FinishPoll(s))
        /\ SF_vars(HandleUpdatesReport(s))
        /\ WF_vars(ReceiveAnswer(s))

FairSpec == Spec /\ Fairness

-----------------------------------------------------------------------------
(* Properties. *)

\* An unchanged registry stays quiet: over any number of polls, failures and
\* scans an agent reports a reference at most once per start of its process
\* and once more per move of the tag (pollRegistry's lastReported check).
QuietRegistry ==
    \A s \in Servers, r \in Refs : reported[s][r] <= starts[s] + moves[r]

\* The image row and the update rows are written together: the remote digest
\* the controller shows for an image is always the target of some server's
\* update row, whichever server reported last and however late its request
\* was handled; and an update row never stands without its image.
ImageHasRow ==
    \A r \in Refs :
        /\ images[r] # None =>
              \E s \in Servers : updates[s][r] # None /\ updates[s][r].to = images[r]
        /\ images[r] = None => \A s \in Servers : updates[s][r] = None

\* lastReported "tracks the last remote digest reported to the controller":
\* between polls, what the agent remembers is what the controller recorded.
ReportedIsRecorded ==
    \A s \in Servers, r \in Refs :
        pc[s] = "idle" /\ lastReported[s][r] # None =>
            updates[s][r] # None /\ updates[s][r].to = lastReported[s][r]

\* An update row is never lost, its from_digest is fixed by the first report
\* ever recorded, and no report touches another server's rows (upsertUpdate).
MovesForward ==
    \A s \in Servers, r \in Refs :
        /\ updates[s][r] # None =>
              updates'[s][r] # None /\ updates'[s][r].from = updates[s][r].from
        /\ updates'[s][r] # updates[s][r] =>
              \/ pc[s] = "sending" /\ batch[s][r] # None
              \/ \E m \in late : m.server = s /\ m.body[r] # None

RowsOnlyMoveForward == [][MovesForward]_vars

\* What an agent remembers is recorded, or is under way to be.
Told(s, r) ==
    lastReported[s][r] # None =>
        \/ updates[s][r] # None /\ updates[s][r].to = lastReported[s][r]
        \/ pc[s] \in {"resolving", "sending"} /\ batch[s][r] # None /\ batch[s][r].to = lastReported[s][r]

\* An agent comes to remember what the controller does not have in three ways
\* only: its report fails, is handled after a later one of the same host, or
\* carries more deltas than HandleUpdatesReport takes. No poll, scan, move of
\* the tag, restart or report of another host does it.
ForgottenByFailure ==
    \A s \in Servers, r \in Refs :
        Told(s, r) /\ ~Told(s, r)' =>
            \/ pc[s] = "sending" /\ pc'[s] = "idle"
            \/ pc[s] = "sending" /\ Cardinality(Carried(batch[s])) > MaxReport
            \/ \E m \in late \ late' : m.server = s /\ m.body[r] # None

OnlyFailuresForget == [][ForgottenByFailure]_vars

\* A delta that persists reaches the dashboard: if the tag stays at d while the
\* host keeps running something else, the update row comes to point at d for
\* good, through restarts of the agent and failed look-ups.
DeltaIsRecorded ==
    \A s \in Servers, r \in Refs, d \in Digests :
        <>[](remote[r] = d /\ local[s][r] \in Digests \ {d})
            => <>[](updates[s][r] # None /\ updates[s][r].to = d)
=============================================================================
