----------------------------- MODULE AgentLoop -----------------------------
(***************************************************************************)
(* What an agent does after it has its identity, and how the dashboard     *)
(* follows its host: one goroutine (loop in go/internal/agent/daemon.go)   *)
(* runs heartbeats, container snapshots, registry checks and command polls *)
(* one after the other, each as its ticker fires; a user's "Scan now" goes *)
(* through an in-memory queue of the controller, which the command poll    *)
(* drains (go/internal/controller/agentapi/commands.go).                   *)
(*                                                                         *)
(* Calls fail, are answered after the agent gave up, or die with either    *)
(* process.  What a registry check does in detail is UpdateReports.        *)
(*                                                                         *)
(* A variant defined beside an operator and used by nobody is a plausible  *)
(* mistake in that code, which breaks one of the properties below.         *)
(***************************************************************************)
EXTENDS Integers, FiniteSets, Sequences

CONSTANTS
    Servers,     \* enrolled hosts, one agent each
    None,        \* no call under way
    Polling,     \* whether --registry-poll is not 0
    Faults,      \* whether calls may fail or be handled late
    MaxVersions, \* bound: container lists a host goes through
    MaxScans,    \* bound: scans requested for a host
    MaxStarts,   \* bound: starts of an agent process
    MaxLate      \* bound: calls given up and still on their way at once

ASSUME SwitchAssumption == Polling \in BOOLEAN /\ Faults \in BOOLEAN
ASSUME BoundsAssumption ==
    MaxVersions \in Nat \ {0} /\ MaxScans \in Nat /\ MaxStarts \in Nat \ {0} /\ MaxLate \in Nat

VARIABLES
    host,    \* Docker: the container list of a host, by its version
    queue,   \* controller: CommandQueue.q, scans waiting per server
    shown,   \* controller: the version its containers rows show, 0 for none
    seen,    \* controller: heard from the host since its agent started
    todo,    \* agent: jobs the goroutine still has to do before it selects
    call,    \* agent: the job under way
    late,    \* calls their agent has given up that may still be handled
    checked, \* agent: the version of the last list checked with the registry
    starts,  \* history: starts of the agent process
    asked,   \* history: scans requested
    ran,     \* history: scans carried out
    owed     \* history: the version at the last request, unless disturbed since

controllerVars == <<queue, shown, seen>>
agentVars      == <<todo, call, checked, starts>>
historyVars    == <<asked, ran, owed>>
vars == <<host, controllerVars, agentVars, late, historyVars>>

Kinds == {"tick", "snapshot", "registry", "poll"}
Calls == [kind : Kinds, version : 1 .. MaxVersions, stage : {"sent", "answered"}, scans : 0 .. MaxScans]

ASSUME NoneAssumption == None \notin Calls

TypeOK ==
    /\ host \in [Servers -> 1 .. MaxVersions]
    /\ queue \in [Servers -> 0 .. MaxScans]
    /\ shown \in [Servers -> 0 .. MaxVersions]
    /\ seen \in [Servers -> BOOLEAN]
    /\ todo \in [Servers -> Seq(Kinds)]
    /\ call \in [Servers -> Calls \cup {None}]
    /\ late \subseteq [server : Servers, kind : Kinds, version : 1 .. MaxVersions]
    /\ checked \in [Servers -> 0 .. MaxVersions]
    /\ starts \in [Servers -> 1 .. MaxStarts]
    /\ asked \in [Servers -> 0 .. MaxScans]
    /\ ran \in [Servers -> 0 .. MaxScans]
    /\ owed \in [Servers -> 0 .. MaxVersions]

-----------------------------------------------------------------------------
(* The jobs of one goroutine. *)

\* What loop does before its first select.
StartJobs == <<"tick", "registry">>

\* The cases of its select.
TickersWithoutSnapshot == {"tick", "poll"} \cup (IF Polling THEN {"registry"} ELSE {})
TickersWithoutRegistry == {"tick", "snapshot", "poll"}
Tickers == {"tick", "snapshot", "poll"} \cup (IF Polling THEN {"registry"} ELSE {})

\* What pollCommands does for each "scan".
ScanJobsWithoutSnapshot == <<"tick", "registry">>
ScanJobs == <<"tick", "snapshot", "registry">>
JobsOf(scans) ==
    [i \in 1 .. scans * Len(ScanJobs) |-> ScanJobs[1 + ((i - 1) % Len(ScanJobs))]]

Idle(s) == todo[s] = <<>> /\ call[s] = None

Init ==
    /\ host = [s \in Servers |-> 1]
    /\ queue = [s \in Servers |-> 0]
    /\ shown = [s \in Servers |-> 0]
    /\ seen = [s \in Servers |-> FALSE]
    /\ todo = [s \in Servers |-> StartJobs]
    /\ call = [s \in Servers |-> None]
    /\ late = {}
    /\ checked = [s \in Servers |-> 0]
    /\ starts = [s \in Servers |-> 1]
    /\ asked = [s \in Servers |-> 0]
    /\ ran = [s \in Servers |-> 0]
    /\ owed = [s \in Servers |-> 0]

-----------------------------------------------------------------------------
(* The world outside the program. *)

\* A container of the host is created, changed or removed.
ChangeHost(s) ==
    /\ host[s] < MaxVersions
    /\ host' = [host EXCEPT ![s] = @ + 1]
    /\ UNCHANGED <<controllerVars, agentVars, late, historyVars>>

\* HandleRequestScan: a user presses "Scan now"; Enqueue appends.
RequestScan(s) ==
    /\ asked[s] < MaxScans
    /\ queue' = [queue EXCEPT ![s] = @ + 1]
    /\ asked' = [asked EXCEPT ![s] = @ + 1]
    /\ owed' = [owed EXCEPT ![s] = host[s]]
    /\ UNCHANGED <<host, shown, seen, agentVars, late, ran>>

-----------------------------------------------------------------------------
(* The agent. *)

\* A ticker has fired and its case of the select is taken.
Turn(s, kind) ==
    /\ Idle(s)
    /\ kind \in Tickers
    /\ todo' = [todo EXCEPT ![s] = <<kind>>]
    /\ UNCHANGED <<host, controllerVars, call, checked, starts, late, historyVars>>

\* A job lists the containers (a command poll does not look) and is under way.
Begin(s, kind) ==
    /\ call[s] = None
    /\ todo[s] # <<>> /\ Head(todo[s]) = kind
    /\ todo' = [todo EXCEPT ![s] = Tail(@)]
    /\ call' = [call EXCEPT ![s] =
            [kind |-> kind, version |-> host[s], stage |-> "sent", scans |-> 0]]
    /\ UNCHANGED <<host, controllerVars, checked, starts, late, historyVars>>

\* Ping or ListContainers fails: the job is over before it began, the jobs
\* after it are not.
SkipJob(s) ==
    /\ Faults
    /\ call[s] = None
    /\ todo[s] # <<>> /\ Head(todo[s]) # "poll"
    /\ todo' = [todo EXCEPT ![s] = Tail(@)]
    /\ owed' = [owed EXCEPT ![s] = 0]
    /\ UNCHANGED <<host, controllerVars, call, checked, starts, late, asked, ran>>

\* pollRegistry has gone through the list it began with.
FinishRegistryCheck(s) ==
    /\ call[s] # None /\ call[s].kind = "registry"
    /\ checked' = [checked EXCEPT ![s] = call[s].version]
    /\ call' = [call EXCEPT ![s] = None]
    /\ UNCHANGED <<host, controllerVars, todo, starts, late, historyVars>>

\* A call is answered; pollCommands carries out what it was given, in turn.
Finish(s) ==
    /\ call[s] # None /\ call[s].stage = "answered"
    /\ call' = [call EXCEPT ![s] = None]
    /\ todo' = [todo EXCEPT ![s] = JobsOf(call[s].scans) \o @]
    /\ ran' = [ran EXCEPT ![s] = @ + call[s].scans]
    /\ UNCHANGED <<host, controllerVars, checked, starts, late, asked, owed>>

\* A call given up by its agent is gone, or still on its way to the controller.
GiveUp(s) ==
    \/ late' = late
    \/ /\ Faults
       /\ call[s] # None /\ call[s].stage = "sent" /\ call[s].kind # "registry"
       /\ Cardinality(late) < MaxLate
       /\ late' = late \cup {[server |-> s, kind |-> call[s].kind, version |-> call[s].version]}

\* Connection error, client timeout, error status or undecodable answer; every
\* job logs it and returns.
CallFails(s) ==
    /\ Faults
    /\ call[s] # None
    /\ call' = [call EXCEPT ![s] = None]
    /\ owed' = [owed EXCEPT ![s] = 0]
    /\ GiveUp(s)
    /\ UNCHANGED <<host, controllerVars, todo, checked, starts, asked, ran>>

\* The agent process ends and is started again.
RestartAgent(s) ==
    /\ starts[s] < MaxStarts
    /\ starts' = [starts EXCEPT ![s] = @ + 1]
    /\ todo' = [todo EXCEPT ![s] = StartJobs]
    /\ call' = [call EXCEPT ![s] = None]
    /\ checked' = [checked EXCEPT ![s] = 0]
    /\ seen' = [seen EXCEPT ![s] = FALSE]
    /\ owed' = [owed EXCEPT ![s] = 0]
    /\ GiveUp(s)
    /\ UNCHANGED <<host, queue, shown, asked, ran>>

-----------------------------------------------------------------------------
(* The controller. *)

\* Drain returns the commands waiting for a server and clears them.
StillWaitingAll(waiting) == waiting
StillWaitingLess(waiting) == waiting - 1
StillWaiting(waiting) == 0

\* HandleHeartbeat sets last_seen_at; HandleContainerSnapshot does, too, and
\* replaces the rows of the server in one transaction; HandleCommandsPoll
\* drains the queue.
Effect(s, kind, version) ==
    /\ seen' = IF kind \in {"tick", "snapshot"} THEN [seen EXCEPT ![s] = TRUE] ELSE seen
    /\ shown' = IF kind = "snapshot" THEN [shown EXCEPT ![s] = version] ELSE shown
    /\ queue' = IF kind = "poll" THEN [queue EXCEPT ![s] = StillWaiting(@)] ELSE queue

Handle(s, kind) ==
    /\ call[s] # None /\ call[s].stage = "sent" /\ call[s].kind = kind
    /\ kind # "registry"
    /\ Effect(s, kind, call[s].version)
    /\ call' = [call EXCEPT ![s] =
            [@ EXCEPT !.stage = "answered", !.scans = IF kind = "poll" THEN queue[s] ELSE 0]]
    /\ UNCHANGED <<host, todo, checked, starts, late, historyVars>>

\* A call given up is handled all the same, or cancelled in time.
HandleLate(m) ==
    /\ m \in late
    /\ late' = late \ {m}
    /\ Effect(m.server, m.kind, m.version)
    /\ owed' = [owed EXCEPT ![m.server] = 0]
    /\ UNCHANGED <<host, agentVars, asked, ran>>

CancelLate(m) ==
    /\ m \in late
    /\ late' = late \ {m}
    /\ UNCHANGED <<host, controllerVars, agentVars, historyVars>>

\* The controller process ends and is started again: the queue was in memory.
RestartController ==
    /\ Faults
    /\ \E s \in Servers : queue[s] > 0
    /\ queue' = [s \in Servers |-> 0]
    /\ owed' = [s \in Servers |-> 0]
    /\ UNCHANGED <<host, shown, seen, agentVars, late, asked, ran>>

-----------------------------------------------------------------------------
Next ==
    \/ \E s \in Servers :
          \/ ChangeHost(s) \/ RequestScan(s)
          \/ \E kind \in Kinds : Turn(s, kind) \/ Begin(s, kind) \/ Handle(s, kind)
          \/ SkipJob(s) \/ FinishRegistryCheck(s) \/ Finish(s) \/ CallFails(s) \/ RestartAgent(s)
    \/ \E m \in late : HandleLate(m) \/ CancelLate(m)
    \/ RestartController

Spec == Init /\ [][Next]_vars

\* Tickers keep firing and select picks among the ready cases at random; every
\* job ends, if only by a timeout; a Docker daemon, a registry and a controller
\* asked again and again answer; a call given up is not on its way for ever.
Fairness ==
    /\ \A s \in Servers :
          /\ \A kind \in {"snapshot", "registry"} : SF_vars(Turn(s, kind)) /\ SF_vars(Begin(s, kind))
          /\ WF_vars(SkipJob(s) \/ \E kind \in Kinds : Begin(s, kind))
          /\ WF_vars(CallFails(s) \/ \E kind \in Kinds : Handle(s, kind))
          /\ SF_vars(Handle(s, "snapshot"))
          /\ SF_vars(FinishRegistryCheck(s))
          /\ WF_vars(Finish(s))
    /\ WF_vars(\E m \in late : HandleLate(m) \/ CancelLate(m))
FairSpec == Spec /\ Fairness

-----------------------------------------------------------------------------
(* Properties. *)

\* A requested scan is carried out at most once: a poll whose answer is lost,
\* repeated or handled late never makes the agent scan twice for one request
\* (CommandQueue.Drain).
Answered(s) == IF call[s] = None THEN 0 ELSE call[s].scans
ScansRunOnce == \A s \in Servers : ran[s] + Answered(s) + queue[s] <= asked[s]

\* After a scan that nothing disturbed, the container page shows the host as
\* it was when the user asked, or later, whatever snapshots were under way.
ScanShowsHost == \A s \in Servers : Idle(s) /\ queue[s] = 0 => shown[s] >= owed[s]

\* Once a host stays as it is, the container page comes to show it, and keeps
\* showing it, through lost and late snapshots and restarts.
DashboardConverges ==
    \A s \in Servers, v \in 1 .. MaxVersions :
        <>[](host[s] = v) => <>[](shown[s] = v /\ seen[s])

\* "a scan request lost on restart is harmless (the agent re-polls on its own
\* schedule)" (CommandQueue): what a host runs is checked with the registry
\* whether or not a scan for it arrives.
LostScanIsHarmless ==
    \A s \in Servers, v \in 1 .. MaxVersions :
        <>[](host[s] = v) => <>[](checked[s] = v)
=============================================================================
