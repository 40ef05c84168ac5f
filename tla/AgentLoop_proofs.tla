-------------------------- MODULE AgentLoop_proofs --------------------------
(* What AgentLoop promises for any number of hosts, scans and restarts.      *)
EXTENDS AgentLoop, TLAPS

(* Only the answer to a poll brings scans, and only once it is there.        *)
ScansComeWithPolls ==
    \A s \in Servers : call[s] # None =>
        call[s].scans = 0 \/ (call[s].kind = "poll" /\ call[s].stage = "answered")

(* No scan is run, handed over and waiting at once. With the types this is   *)
(* inductive: a poll moves what waits into its answer, the end of the poll   *)
(* moves it on, and whatever fails only loses it.                            *)
ScanInv == TypeOK /\ ScansComeWithPolls /\ ScansRunOnce

LEMMA JobsOfType ==
    ASSUME NEW n \in Nat
    PROVE  /\ JobsOf(n) \in Seq(Kinds)
           /\ Len(JobsOf(n)) = 3 * n
           /\ n > 0 => 2 \in 1 .. Len(JobsOf(n)) /\ JobsOf(n)[2] = "snapshot"
<1>1. Len(ScanJobs) = 3 /\ \A i \in 1 .. 3 : ScanJobs[i] \in Kinds
  BY DEF ScanJobs, Kinds
<1>2. \A i \in 1 .. 3 * n : 1 + ((i - 1) % 3) \in 1 .. 3
  OBVIOUS
<1>3. JobsOf(n) = [i \in 1 .. 3 * n |-> ScanJobs[1 + ((i - 1) % 3)]]
  BY <1>1 DEF JobsOf
<1>4. JobsOf(n) \in [1 .. 3 * n -> Kinds]
  BY <1>1, <1>2, <1>3
<1>5. JobsOf(n) \in Seq(Kinds) /\ Len(JobsOf(n)) = 3 * n
  BY <1>4
<1>6. n > 0 => JobsOf(n)[2] = "snapshot"
  <2>1. n > 0 => 2 \in 1 .. 3 * n
    OBVIOUS
  <2>2. 1 + ((2 - 1) % 3) = 2
    OBVIOUS
  <2>3. n > 0 => JobsOf(n)[2] = ScanJobs[2]
    BY <1>3, <2>1, <2>2
  <2> QED BY <2>3 DEF ScanJobs
<1> QED BY <1>5, <1>6

(* A job under way is a well-typed call; so is one given up.                 *)
LEMMA CallType ==
    ASSUME TypeOK, NEW s \in Servers, call[s] # None
    PROVE  /\ call[s] \in Calls /\ call[s].kind \in Kinds
           /\ call[s].version \in 1 .. MaxVersions
           /\ call[s].stage \in {"sent", "answered"} /\ call[s].scans \in 0 .. MaxScans
BY DEF TypeOK, Calls

LEMMA GiveUpType ==
    ASSUME TypeOK, NEW s \in Servers, GiveUp(s)
    PROVE  late' \subseteq [server : Servers, kind : Kinds, version : 1 .. MaxVersions]
<1>1. CASE late' = late
  BY <1>1 DEF TypeOK
<1>2. CASE /\ call[s] # None
           /\ late' = late \cup {[server |-> s, kind |-> call[s].kind, version |-> call[s].version]}
  <2>1. call[s].kind \in Kinds /\ call[s].version \in 1 .. MaxVersions
    BY <1>2, CallType
  <2> QED BY <1>2, <2>1 DEF TypeOK
<1> QED BY <1>1, <1>2 DEF GiveUp

LEMMA AnsweredType ==
    ASSUME TypeOK, NEW s \in Servers
    PROVE  Answered(s) \in 0 .. MaxScans
BY CallType, BoundsAssumption DEF Answered

(* Handling a call keeps the controller's part well typed.                   *)
LEMMA EffectType ==
    ASSUME TypeOK, NEW s \in Servers, NEW kind \in Kinds, NEW version \in 1 .. MaxVersions,
           Effect(s, kind, version)
    PROVE  /\ seen' \in [Servers -> BOOLEAN]
           /\ shown' \in [Servers -> 0 .. MaxVersions]
           /\ queue' \in [Servers -> 0 .. MaxScans]
           /\ queue' = IF kind = "poll" THEN [queue EXCEPT ![s] = 0] ELSE queue
           /\ shown' = IF kind = "snapshot" THEN [shown EXCEPT ![s] = version] ELSE shown
<1>1. /\ seen \in [Servers -> BOOLEAN] /\ shown \in [Servers -> 0 .. MaxVersions]
      /\ queue \in [Servers -> 0 .. MaxScans]
  BY DEF TypeOK
<1>2. version \in 0 .. MaxVersions /\ 0 \in 0 .. MaxScans
  BY BoundsAssumption
<1>3. /\ queue' = IF kind = "poll" THEN [queue EXCEPT ![s] = 0] ELSE queue
      /\ shown' = IF kind = "snapshot" THEN [shown EXCEPT ![s] = version] ELSE shown
  BY DEF Effect, StillWaiting
<1>4. seen' \in [Servers -> BOOLEAN]
  BY <1>1 DEF Effect
<1>5. shown' \in [Servers -> 0 .. MaxVersions] /\ queue' \in [Servers -> 0 .. MaxScans]
  BY <1>1, <1>2, <1>3
<1> QED BY <1>3, <1>4, <1>5

LEMMA ScanInvInit == Init => ScanInv
BY BoundsAssumption, NoneAssumption
DEF Init, ScanInv, TypeOK, ScansComeWithPolls, ScansRunOnce, StartJobs, Kinds, Answered

(* What the agent has been given and not yet begun, after one of its calls.  *)
HandledCall(s, kind) ==
    [call[s] EXCEPT !.stage = "answered", !.scans = IF kind = "poll" THEN queue[s] ELSE 0]

LEMMA HandledCallType ==
    ASSUME TypeOK, NEW s \in Servers, NEW kind \in Kinds, call[s] # None, call[s].kind = kind
    PROVE  /\ HandledCall(s, kind) \in Calls
           /\ HandledCall(s, kind) # None
           /\ HandledCall(s, kind).kind = kind
           /\ HandledCall(s, kind).version = call[s].version
           /\ HandledCall(s, kind).stage = "answered"
           /\ HandledCall(s, kind).scans = IF kind = "poll" THEN queue[s] ELSE 0
<1>1. call[s] \in Calls /\ queue[s] \in 0 .. MaxScans
  BY CallType DEF TypeOK
<1>2. (IF kind = "poll" THEN queue[s] ELSE 0) \in 0 .. MaxScans
  BY <1>1, BoundsAssumption
<1>3. HandledCall(s, kind) \in Calls
  BY <1>1, <1>2 DEF HandledCall, Calls
<1> QED BY <1>1, <1>3, NoneAssumption DEF HandledCall, Calls

LEMMA NewCallType ==
    ASSUME TypeOK, NEW s \in Servers, NEW kind \in Kinds
    PROVE  /\ [kind |-> kind, version |-> host[s], stage |-> "sent", scans |-> 0] \in Calls
           /\ [kind |-> kind, version |-> host[s], stage |-> "sent", scans |-> 0] # None
<1>1. [kind |-> kind, version |-> host[s], stage |-> "sent", scans |-> 0] \in Calls
  BY BoundsAssumption DEF Calls, TypeOK
<1> QED BY <1>1, NoneAssumption

LEMMA TypeStep == ScanInv /\ [Next]_vars => TypeOK'
<1> SUFFICES ASSUME ScanInv, [Next]_vars PROVE TypeOK'
  OBVIOUS
<1> TypeOK /\ ScansRunOnce
  BY DEF ScanInv
<1> USE BoundsAssumption
<1>a. ASSUME NEW s \in Servers
      PROVE  /\ Answered(s) \in Nat /\ ran[s] \in Nat /\ queue[s] \in Nat /\ asked[s] \in 0 .. MaxScans
             /\ ran[s] + Answered(s) + queue[s] <= asked[s]
  <2>1. /\ Answered(s) \in 0 .. MaxScans /\ ran[s] \in 0 .. MaxScans
        /\ queue[s] \in 0 .. MaxScans /\ asked[s] \in 0 .. MaxScans
    BY AnsweredType DEF TypeOK
  <2> QED BY <2>1 DEF ScansRunOnce
<1>z. 0 \in 0 .. MaxScans /\ 0 \in 0 .. MaxVersions
  OBVIOUS
<1>1. ASSUME NEW s \in Servers, ChangeHost(s) PROVE TypeOK'
  <2>1. host[s] + 1 \in 1 .. MaxVersions
    BY <1>1 DEF ChangeHost, TypeOK
  <2> QED BY <1>1, <2>1 DEF ChangeHost, TypeOK, controllerVars, agentVars, historyVars
<1>2. ASSUME NEW s \in Servers, RequestScan(s) PROVE TypeOK'
  <2>1. queue[s] + 1 \in 0 .. MaxScans /\ asked[s] + 1 \in 0 .. MaxScans
    BY <1>2, <1>a DEF RequestScan
  <2>2. host[s] \in 0 .. MaxVersions
    BY DEF TypeOK
  <2>3. /\ queue' \in [Servers -> 0 .. MaxScans] /\ asked' \in [Servers -> 0 .. MaxScans]
        /\ owed' \in [Servers -> 0 .. MaxVersions]
    BY <1>2, <2>1, <2>2 DEF RequestScan, TypeOK
  <2> QED BY <1>2, <2>3 DEF RequestScan, TypeOK, agentVars
<1>3. ASSUME NEW s \in Servers, NEW kind \in Kinds, Turn(s, kind) PROVE TypeOK'
  <2>1. todo' \in [Servers -> Seq(Kinds)]
    BY <1>3 DEF Turn, TypeOK
  <2> QED BY <1>3, <2>1 DEF Turn, TypeOK, controllerVars, historyVars
<1>4. ASSUME NEW s \in Servers, NEW kind \in Kinds, Begin(s, kind) PROVE TypeOK'
  <2>1. call' \in [Servers -> Calls \cup {None}]
    BY <1>4, NewCallType DEF Begin, TypeOK
  <2>2. todo' \in [Servers -> Seq(Kinds)]
    BY <1>4 DEF Begin, TypeOK
  <2> QED BY <1>4, <2>1, <2>2 DEF Begin, TypeOK, controllerVars, historyVars
<1>5. ASSUME NEW s \in Servers, SkipJob(s) PROVE TypeOK'
  <2>1. todo[s] \in Seq(Kinds) /\ todo[s] # <<>>
    BY <1>5 DEF SkipJob, TypeOK
  <2>2. Tail(todo[s]) \in Seq(Kinds)
    BY <2>1
  <2> QED BY <1>5, <1>z, <2>2 DEF SkipJob, TypeOK, controllerVars
<1>6. ASSUME NEW s \in Servers, FinishRegistryCheck(s) PROVE TypeOK'
  <2>1. call[s].version \in 0 .. MaxVersions
    BY <1>6, CallType DEF FinishRegistryCheck
  <2> QED BY <1>6, <2>1 DEF FinishRegistryCheck, TypeOK, controllerVars, historyVars
<1>7. ASSUME NEW s \in Servers, Finish(s) PROVE TypeOK'
  <2>1. call[s] # None /\ call[s].scans \in 0 .. MaxScans
    BY <1>7, CallType DEF Finish
  <2>2. ran[s] + call[s].scans \in 0 .. MaxScans
    BY <2>1, <1>a DEF Answered
  <2>3. JobsOf(call[s].scans) \in Seq(Kinds)
    <3>1. call[s].scans \in Nat
      BY <2>1
    <3> QED BY <3>1, JobsOfType
  <2>4. todo[s] \in Seq(Kinds)
    BY DEF TypeOK
  <2>5. JobsOf(call[s].scans) \o todo[s] \in Seq(Kinds)
    BY <2>3, <2>4
  <2> QED BY <1>7, <2>2, <2>5 DEF Finish, TypeOK, controllerVars
<1>8. ASSUME NEW s \in Servers, CallFails(s) PROVE TypeOK'
  <2>1. late' \subseteq [server : Servers, kind : Kinds, version : 1 .. MaxVersions]
    BY <1>8, GiveUpType DEF CallFails
  <2> QED BY <1>8, <1>z, <2>1 DEF CallFails, TypeOK, controllerVars
<1>9. ASSUME NEW s \in Servers, RestartAgent(s) PROVE TypeOK'
  <2>1. late' \subseteq [server : Servers, kind : Kinds, version : 1 .. MaxVersions]
    BY <1>9, GiveUpType DEF RestartAgent
  <2>2. StartJobs \in Seq(Kinds)
    BY DEF StartJobs, Kinds
  <2>3. starts[s] + 1 \in 1 .. MaxStarts
    BY <1>9 DEF RestartAgent, TypeOK
  <2>4. /\ starts' \in [Servers -> 1 .. MaxStarts]
        /\ todo' \in [Servers -> Seq(Kinds)]
        /\ call' \in [Servers -> Calls \cup {None}]
    BY <1>9, <2>2, <2>3 DEF RestartAgent, TypeOK
  <2>5. /\ checked' \in [Servers -> 0 .. MaxVersions]
        /\ seen' \in [Servers -> BOOLEAN]
        /\ owed' \in [Servers -> 0 .. MaxVersions]
    BY <1>9, <1>z DEF RestartAgent, TypeOK
  <2> QED BY <1>9, <2>1, <2>4, <2>5 DEF RestartAgent, TypeOK
<1>10. ASSUME NEW s \in Servers, NEW kind \in Kinds, Handle(s, kind) PROVE TypeOK'
  <2>1. HandledCall(s, kind) \in Calls /\ call' = [call EXCEPT ![s] = HandledCall(s, kind)]
    BY <1>10, HandledCallType DEF Handle, HandledCall
  <2>2. call[s].version \in 1 .. MaxVersions
    BY <1>10, CallType DEF Handle
  <2>3. /\ seen' \in [Servers -> BOOLEAN] /\ shown' \in [Servers -> 0 .. MaxVersions]
        /\ queue' \in [Servers -> 0 .. MaxScans]
    BY <1>10, <2>2, EffectType DEF Handle
  <2>4. call' \in [Servers -> Calls \cup {None}]
    BY <2>1 DEF TypeOK
  <2> QED BY <1>10, <2>3, <2>4 DEF Handle, TypeOK, historyVars
<1>11. ASSUME NEW m \in late, HandleLate(m) PROVE TypeOK'
  <2>1. m.server \in Servers /\ m.kind \in Kinds /\ m.version \in 1 .. MaxVersions
    BY DEF TypeOK
  <2>2. /\ seen' \in [Servers -> BOOLEAN] /\ shown' \in [Servers -> 0 .. MaxVersions]
        /\ queue' \in [Servers -> 0 .. MaxScans]
    BY <1>11, <2>1, EffectType DEF HandleLate
  <2> QED BY <1>11, <1>z, <2>1, <2>2 DEF HandleLate, TypeOK, agentVars
<1>12. ASSUME NEW m \in late, CancelLate(m) PROVE TypeOK'
  BY <1>12 DEF CancelLate, TypeOK, controllerVars, agentVars, historyVars
<1>13. CASE RestartController
  BY <1>13, <1>z DEF RestartController, TypeOK, agentVars
<1>14. CASE UNCHANGED vars
  BY <1>14 DEF vars, TypeOK, controllerVars, agentVars, historyVars
<1> QED
  BY <1>1, <1>2, <1>3, <1>4, <1>5, <1>6, <1>7, <1>8, <1>9, <1>10, <1>11, <1>12, <1>13, <1>14
  DEF Next

(* Every step changes what is asked, waiting, handed over and run of one     *)
(* host at most, and never by more than it was asked for.                    *)
LEMMA ScanStep == ScanInv /\ [Next]_vars => ScansComeWithPolls' /\ ScansRunOnce'
<1> SUFFICES ASSUME ScanInv, [Next]_vars PROVE ScansComeWithPolls' /\ ScansRunOnce'
  OBVIOUS
<1> TypeOK /\ ScansComeWithPolls /\ ScansRunOnce
  BY DEF ScanInv
<1> USE DEF ScansComeWithPolls, ScansRunOnce
<1>b. /\ call \in [Servers -> Calls \cup {None}] /\ ran \in [Servers -> 0 .. MaxScans]
      /\ queue \in [Servers -> 0 .. MaxScans] /\ asked \in [Servers -> 0 .. MaxScans]
  BY DEF TypeOK
<1>a. \A z \in Servers : /\ Answered(z) \in Nat /\ ran[z] \in Nat /\ queue[z] \in Nat /\ asked[z] \in Nat
                         /\ ran[z] + Answered(z) + queue[z] <= asked[z]
  BY <1>b, AnsweredType, BoundsAssumption
<1>1. ASSUME NEW s \in Servers, RequestScan(s) PROVE ScansComeWithPolls' /\ ScansRunOnce'
  BY <1>1, <1>a, <1>b DEF RequestScan, agentVars, Answered
<1>2. ASSUME NEW s \in Servers, NEW kind \in Kinds, Begin(s, kind)
      PROVE  ScansComeWithPolls' /\ ScansRunOnce'
  <2> DEFINE new == [kind |-> kind, version |-> host[s], stage |-> "sent", scans |-> 0]
  <2>1. new # None /\ new.scans = 0
    BY NewCallType
  <2>2. call' = [call EXCEPT ![s] = new] /\ call[s] = None /\ UNCHANGED <<ran, queue, asked>>
    BY <1>2 DEF Begin, controllerVars, historyVars
  <2> HIDE DEF new
  <2>3. \A z \in Servers : Answered(z)' = Answered(z)
    BY <2>1, <2>2, <1>b DEF Answered
  <2> QED BY <1>a, <1>b, <2>1, <2>2, <2>3
<1>3. ASSUME NEW s \in Servers, Finish(s) PROVE ScansComeWithPolls' /\ ScansRunOnce'
  <2>1. /\ call' = [call EXCEPT ![s] = None] /\ call[s] # None
        /\ ran' = [ran EXCEPT ![s] = @ + call[s].scans] /\ UNCHANGED <<queue, asked>>
    BY <1>3 DEF Finish, controllerVars
  <2>2. Answered(s) = call[s].scans /\ \A z \in Servers : Answered(z)' = IF z = s THEN 0 ELSE Answered(z)
    BY <2>1, <1>b DEF Answered
  <2> QED BY <1>a, <1>b, <2>1, <2>2
<1>4. ASSUME NEW s \in Servers,
             call' = [call EXCEPT ![s] = None], UNCHANGED <<ran, queue, asked>>
      PROVE  ScansComeWithPolls' /\ ScansRunOnce'
  <2>1. \A z \in Servers : Answered(z)' = IF z = s THEN 0 ELSE Answered(z)
    BY <1>4, <1>b DEF Answered
  <2> QED BY <1>a, <1>b, <1>4, <2>1
<1>5. ASSUME NEW s \in Servers, NEW kind \in Kinds, Handle(s, kind)
      PROVE  ScansComeWithPolls' /\ ScansRunOnce'
  <2> DEFINE new == HandledCall(s, kind)
  <2>1. call[s] # None /\ call[s].kind = kind /\ call[s].scans = 0
    BY <1>5 DEF Handle
  <2>2. /\ new # None /\ new.kind = kind /\ new.stage = "answered"
        /\ new.scans = IF kind = "poll" THEN queue[s] ELSE 0
    BY <2>1, HandledCallType
  <2>3. call' = [call EXCEPT ![s] = new] /\ UNCHANGED <<ran, asked>>
    BY <1>5 DEF Handle, HandledCall, historyVars
  <2>4. queue' = IF kind = "poll" THEN [queue EXCEPT ![s] = 0] ELSE queue
    BY <1>5 DEF Handle, Effect, StillWaiting
  <2> HIDE DEF new
  <2>5. /\ Answered(s) = 0
        /\ \A z \in Servers : Answered(z)' = IF z = s THEN new.scans ELSE Answered(z)
    BY <2>1, <2>2, <2>3, <1>b DEF Answered
  <2>6. ScansComeWithPolls'
    BY <2>2, <2>3, <1>b
  <2> QED BY <1>a, <1>b, <2>2, <2>3, <2>4, <2>5, <2>6
<1>6. ASSUME NEW m \in late, HandleLate(m) PROVE ScansComeWithPolls' /\ ScansRunOnce'
  <2>1. /\ queue' = IF m.kind = "poll" THEN [queue EXCEPT ![m.server] = 0] ELSE queue
        /\ UNCHANGED <<call, ran, asked>>
    BY <1>6 DEF HandleLate, Effect, StillWaiting, agentVars
  <2>2. \A z \in Servers : Answered(z)' = Answered(z)
    BY <2>1 DEF Answered
  <2> QED BY <1>a, <1>b, <2>1, <2>2
<1>7. CASE RestartController
  <2>1. queue' = [z \in Servers |-> 0] /\ UNCHANGED <<call, ran, asked>>
    BY <1>7 DEF RestartController, agentVars
  <2>2. \A z \in Servers : Answered(z)' = Answered(z)
    BY <2>1 DEF Answered
  <2> QED BY <1>a, <1>b, <2>1, <2>2
<1>8. CASE UNCHANGED <<call, ran, queue, asked>>
  <2>1. \A z \in Servers : Answered(z)' = Answered(z)
    BY <1>8 DEF Answered
  <2> QED BY <1>a, <1>8, <2>1
<1>9. ASSUME NEW s \in Servers, FinishRegistryCheck(s) \/ CallFails(s) \/ RestartAgent(s)
      PROVE  ScansComeWithPolls' /\ ScansRunOnce'
  BY <1>4, <1>9 DEF FinishRegistryCheck, CallFails, RestartAgent, controllerVars, historyVars
<1>10. \/ UNCHANGED <<call, ran, queue, asked>>
       \/ RestartController
       \/ \E s \in Servers : \/ RequestScan(s) \/ Finish(s)
                             \/ FinishRegistryCheck(s) \/ CallFails(s) \/ RestartAgent(s)
                             \/ \E kind \in Kinds : Begin(s, kind) \/ Handle(s, kind)
       \/ \E m \in late : HandleLate(m)
  BY DEF Next, ChangeHost, Turn, SkipJob, CancelLate, vars, controllerVars, agentVars, historyVars
<1> QED BY <1>1, <1>2, <1>3, <1>5, <1>6, <1>7, <1>8, <1>9, <1>10

LEMMA ScanInvStep == ScanInv /\ [Next]_vars => ScanInv'
BY TypeStep, ScanStep DEF ScanInv

LEMMA ScanInvariant == Spec => []ScanInv
BY ScanInvInit, ScanInvStep, PTL DEF Spec

-----------------------------------------------------------------------------
(* Every variable keeps its type, the bound on the queue included.           *)
THEOREM TypeCorrect == Spec => []TypeOK
<1>1. ScanInv => TypeOK
  BY DEF ScanInv
<1> QED BY <1>1, ScanInvariant, PTL

(* However polls fail, repeat or arrive late, no scan is carried out twice.  *)
THEOREM ScansRunOnceHolds == Spec => []ScansRunOnce
<1>1. ScanInv => ScansRunOnce
  BY DEF ScanInv
<1> QED BY <1>1, ScanInvariant, PTL

-----------------------------------------------------------------------------
(* Versions are handed on in the order they were read: what is shown was     *)
(* read before what is under way, and neither is newer than the host.        *)
InOrder ==
    /\ \A s \in Servers : shown[s] <= host[s] /\ owed[s] <= host[s]
    /\ \A s \in Servers : call[s] # None =>
          shown[s] <= call[s].version /\ call[s].version <= host[s]
    /\ \A m \in late :
          /\ m.version <= host[m.server]
          /\ call[m.server] # None => m.version <= call[m.server].version

(* A scan that is owed is waiting, handed over, about to list the            *)
(* containers, or on its way with them. ScanShowsHost alone is not inductive *)
(* as it speaks of idle agents only.                                         *)
SnapshotAhead(s) == \E i \in 1 .. Len(todo[s]) : todo[s][i] = "snapshot"
SnapshotSent(s) ==
    call[s] # None /\ call[s].kind = "snapshot" /\ call[s].stage = "sent" /\ call[s].version >= owed[s]
Kept(s) ==
    \/ shown[s] >= owed[s]
    \/ queue[s] > 0
    \/ Answered(s) > 0
    \/ SnapshotAhead(s)
    \/ SnapshotSent(s)

OwedInv == ScanInv /\ InOrder /\ \A s \in Servers : Kept(s)

(* The numbers of a state, for the arithmetic below.                         *)
LEMMA Numbers ==
    ASSUME TypeOK
    PROVE  /\ \A s \in Servers : /\ host[s] \in Nat /\ shown[s] \in Nat /\ owed[s] \in Nat
                                 /\ queue[s] \in Nat /\ Answered(s) \in Nat
           /\ \A s \in Servers : call[s] # None => call[s].version \in Nat
           /\ \A m \in late : m.version \in Nat /\ m.server \in Servers
           /\ \A s \in Servers : Answered(s) > 0 => call[s] # None
<1>1. \A s \in Servers : /\ host[s] \in 1 .. MaxVersions /\ shown[s] \in 0 .. MaxVersions
                         /\ owed[s] \in 0 .. MaxVersions /\ queue[s] \in 0 .. MaxScans
  BY DEF TypeOK
<1>2. \A s \in Servers : Answered(s) \in Nat
  BY AnsweredType, BoundsAssumption
<1>3. \A s \in Servers : call[s] # None => call[s].version \in Nat
  BY CallType, BoundsAssumption
<1>4. \A m \in late : m.version \in 1 .. MaxVersions /\ m.server \in Servers
  BY DEF TypeOK
<1> QED BY <1>1, <1>2, <1>3, <1>4, BoundsAssumption DEF Answered

LEMMA InOrderStep == ScanInv /\ InOrder /\ [Next]_vars => InOrder'
<1> SUFFICES ASSUME ScanInv, InOrder, [Next]_vars PROVE InOrder'
  OBVIOUS
<1> TypeOK
  BY DEF ScanInv
<1>a. /\ host \in [Servers -> 1 .. MaxVersions] /\ shown \in [Servers -> 0 .. MaxVersions]
      /\ owed \in [Servers -> 0 .. MaxVersions] /\ call \in [Servers -> Calls \cup {None}]
  BY DEF TypeOK
<1> USE Numbers, <1>a DEF InOrder
<1>1. ASSUME NEW s \in Servers, ChangeHost(s) PROVE InOrder'
  BY <1>1 DEF ChangeHost, controllerVars, agentVars, historyVars
<1>2. ASSUME NEW s \in Servers, RequestScan(s) PROVE InOrder'
  BY <1>2 DEF RequestScan, agentVars
<1>3. ASSUME NEW s \in Servers, NEW kind \in Kinds, Begin(s, kind) PROVE InOrder'
  <2> DEFINE new == [kind |-> kind, version |-> host[s], stage |-> "sent", scans |-> 0]
  <2>1. new # None /\ new.version = host[s]
    BY NewCallType
  <2>2. call' = [call EXCEPT ![s] = new] /\ UNCHANGED <<host, shown, owed, late>>
    BY <1>3 DEF Begin, controllerVars, historyVars
  <2> HIDE DEF new
  <2> QED BY <2>1, <2>2
<1>4. ASSUME NEW s \in Servers, NEW kind \in Kinds, Handle(s, kind) PROVE InOrder'
  <2> DEFINE new == HandledCall(s, kind)
  <2>1. call[s] # None /\ new # None /\ new.version = call[s].version
    BY <1>4, HandledCallType DEF Handle
  <2>2. call' = [call EXCEPT ![s] = new] /\ UNCHANGED <<host, owed, late>>
    BY <1>4 DEF Handle, HandledCall, historyVars
  <2>3. shown' = IF kind = "snapshot" THEN [shown EXCEPT ![s] = call[s].version] ELSE shown
    BY <1>4 DEF Handle, Effect
  <2> HIDE DEF new
  <2> QED BY <2>1, <2>2, <2>3
<1>5. ASSUME NEW s \in Servers, GiveUp(s), call' = [call EXCEPT ![s] = None],
             owed' = [owed EXCEPT ![s] = 0], UNCHANGED <<host, shown>>
      PROVE  InOrder'
  <2>1. CASE late' = late
    BY <1>5, <2>1
  <2>2. CASE /\ call[s] # None
             /\ late' = late \cup {[server |-> s, kind |-> call[s].kind, version |-> call[s].version]}
    BY <1>5, <2>2
  <2> QED BY <1>5, <2>1, <2>2 DEF GiveUp
<1>6. ASSUME NEW m \in late, HandleLate(m) PROVE InOrder'
  <2>1. shown' = IF m.kind = "snapshot" THEN [shown EXCEPT ![m.server] = m.version] ELSE shown
    BY <1>6 DEF HandleLate, Effect
  <2> QED BY <1>6, <2>1 DEF HandleLate, agentVars
<1>7. CASE RestartController
  BY <1>7 DEF RestartController, agentVars
<1>8. ASSUME NEW s \in Servers, SkipJob(s) PROVE InOrder'
  BY <1>8 DEF SkipJob, controllerVars
<1>9. ASSUME NEW s \in Servers, FinishRegistryCheck(s) \/ Finish(s) PROVE InOrder'
  BY <1>9 DEF FinishRegistryCheck, Finish, controllerVars, historyVars
<1>10. CASE UNCHANGED <<host, shown, owed, call>> /\ late' \subseteq late
  BY <1>10
<1>11. ASSUME NEW s \in Servers, CallFails(s) \/ RestartAgent(s) PROVE InOrder'
  BY <1>5, <1>11 DEF CallFails, RestartAgent, controllerVars
<1>12. \/ UNCHANGED <<host, shown, owed, call>> /\ late' \subseteq late
       \/ RestartController
       \/ \E s \in Servers : \/ ChangeHost(s) \/ RequestScan(s) \/ SkipJob(s)
                             \/ FinishRegistryCheck(s) \/ Finish(s) \/ CallFails(s) \/ RestartAgent(s)
                             \/ \E kind \in Kinds : Begin(s, kind) \/ Handle(s, kind)
       \/ \E m \in late : HandleLate(m)
  BY DEF Next, Turn, CancelLate, vars, controllerVars, agentVars, historyVars
<1> QED BY <1>1, <1>2, <1>3, <1>4, <1>6, <1>7, <1>8, <1>9, <1>10, <1>11, <1>12

(* What is not about a host leaves what is owed to it as it is.              *)
LEMMA KeptElsewhere ==
    ASSUME NEW z \in Servers, Kept(z),
           shown'[z] = shown[z], owed'[z] = owed[z], queue'[z] = queue[z],
           call'[z] = call[z], todo'[z] = todo[z]
    PROVE  Kept(z)'
BY DEF Kept, SnapshotAhead, SnapshotSent, Answered

LEMMA KeptStep == OwedInv /\ [Next]_vars => \A z \in Servers : Kept(z)'
<1> SUFFICES ASSUME OwedInv, [Next]_vars, NEW z \in Servers PROVE Kept(z)'
  OBVIOUS
<1> TypeOK /\ InOrder /\ Kept(z) /\ ScansComeWithPolls
  BY DEF OwedInv, ScanInv
<1>a. /\ shown \in [Servers -> 0 .. MaxVersions] /\ owed \in [Servers -> 0 .. MaxVersions]
      /\ queue \in [Servers -> 0 .. MaxScans] /\ call \in [Servers -> Calls \cup {None}]
      /\ todo \in [Servers -> Seq(Kinds)]
  BY DEF TypeOK
<1>b. TypeOK'
  BY TypeStep DEF OwedInv
<1>c. (owed'[z] = 0) => Kept(z)'
  <2>1. shown'[z] \in Nat
    BY <1>b, BoundsAssumption DEF TypeOK
  <2> QED BY <2>1 DEF Kept
<1> USE Numbers, <1>a
<1>1. ASSUME RequestScan(z) PROVE Kept(z)'
  BY <1>1 DEF RequestScan, Kept
<1>2. ASSUME NEW kind \in Kinds, Turn(z, kind) PROVE Kept(z)'
  <2>1. todo[z] = <<>> /\ UNCHANGED <<shown, owed, queue, call>>
    BY <1>2 DEF Turn, Idle, controllerVars, historyVars
  <2>2. ~ SnapshotAhead(z)
    BY <2>1 DEF SnapshotAhead
  <2> QED BY <2>1, <2>2 DEF Kept, SnapshotSent, Answered
<1>3. ASSUME NEW kind \in Kinds, Begin(z, kind) PROVE Kept(z)'
  <2> DEFINE new == [kind |-> kind, version |-> host[z], stage |-> "sent", scans |-> 0]
  <2>1. new # None /\ new.kind = kind /\ new.version = host[z] /\ new.stage = "sent"
    BY NewCallType
  <2>2. /\ call[z] = None /\ call'[z] = new /\ UNCHANGED <<shown, owed, queue>>
        /\ todo[z] # <<>> /\ Head(todo[z]) = kind /\ todo'[z] = Tail(todo[z])
    BY <1>3 DEF Begin, controllerVars, historyVars
  <2> HIDE DEF new
  <2>3. CASE kind = "snapshot"
    <3>1. SnapshotSent(z)'
      BY <2>1, <2>2, <2>3 DEF SnapshotSent, InOrder
    <3> QED BY <3>1 DEF Kept
  <2>4. CASE kind # "snapshot"
    <3>1. SnapshotAhead(z) => SnapshotAhead(z)'
      <4>1. todo[z] \in Seq(Kinds)
        OBVIOUS
      <4> SUFFICES ASSUME NEW i \in 1 .. Len(todo[z]), todo[z][i] = "snapshot" PROVE SnapshotAhead(z)'
        BY DEF SnapshotAhead
      <4>2. i # 1 /\ i - 1 \in 1 .. Len(Tail(todo[z])) /\ Tail(todo[z])[i - 1] = todo[z][i]
        BY <2>2, <2>4, <4>1
      <4> QED BY <2>2, <4>2 DEF SnapshotAhead
    <3> QED BY <2>2, <3>1 DEF Kept, SnapshotSent, Answered
  <2> QED BY <2>3, <2>4
<1>4. ASSUME NEW kind \in Kinds, Handle(z, kind) PROVE Kept(z)'
  <2> DEFINE new == HandledCall(z, kind)
  <2>1. /\ call[z] # None /\ call[z].kind = kind /\ call[z].stage = "sent" /\ call[z].scans = 0
    BY <1>4 DEF Handle, ScansComeWithPolls
  <2>2. new # None /\ new.scans = IF kind = "poll" THEN queue[z] ELSE 0
    BY <2>1, HandledCallType
  <2>3. call'[z] = new /\ UNCHANGED <<owed, todo>>
    BY <1>4 DEF Handle, HandledCall, historyVars
  <2>4. /\ shown'[z] = IF kind = "snapshot" THEN call[z].version ELSE shown[z]
        /\ kind # "poll" => queue'[z] = queue[z]
    BY <1>4 DEF Handle, Effect
  <2> HIDE DEF new
  <2>5. Answered(z) = 0 /\ Answered(z)' = new.scans
    BY <2>1, <2>2, <2>3 DEF Answered
  <2>6. SnapshotAhead(z) => SnapshotAhead(z)'
    BY <2>3 DEF SnapshotAhead
  <2>7. CASE kind = "snapshot"
    <3>1. shown[z] <= call[z].version
      BY <2>1 DEF InOrder
    <3> QED BY <2>1, <2>3, <2>4, <2>5, <2>6, <2>7, <3>1 DEF Kept, SnapshotSent
  <2>8. CASE kind = "poll"
    <3>1. Answered(z)' = queue[z]
      BY <2>2, <2>5, <2>8
    <3>2. ~ SnapshotSent(z) /\ shown'[z] = shown[z] /\ owed'[z] = owed[z]
      BY <2>1, <2>3, <2>4, <2>8 DEF SnapshotSent
    <3> QED BY <2>5, <2>6, <3>1, <3>2 DEF Kept
  <2>9. CASE kind \notin {"snapshot", "poll"}
    <3>1. ~ SnapshotSent(z) /\ shown'[z] = shown[z] /\ owed'[z] = owed[z] /\ queue'[z] = queue[z]
      BY <2>1, <2>3, <2>4, <2>9 DEF SnapshotSent
    <3> QED BY <2>5, <2>6, <3>1 DEF Kept
  <2> QED BY <2>7, <2>8, <2>9
<1>5. ASSUME Finish(z) PROVE Kept(z)'
  <2>1. /\ call[z] # None /\ call[z].stage = "answered" /\ call'[z] = None
        /\ todo'[z] = JobsOf(call[z].scans) \o todo[z] /\ UNCHANGED <<shown, owed, queue>>
    BY <1>5 DEF Finish, controllerVars
  <2>2. call[z].scans \in Nat /\ Answered(z) = call[z].scans /\ ~ SnapshotSent(z)
    BY <2>1 DEF Answered, SnapshotSent
  <2> DEFINE jobs == JobsOf(call[z].scans)
  <2>3. jobs \in Seq(Kinds) /\ (call[z].scans > 0 => 2 \in 1 .. Len(jobs) /\ jobs[2] = "snapshot")
    BY <2>2, JobsOfType
  <2>4. todo'[z] = jobs \o todo[z] /\ todo[z] \in Seq(Kinds)
    BY <2>1
  <2> HIDE DEF jobs
  <2>5. call[z].scans > 0 => SnapshotAhead(z)'
    <3> SUFFICES ASSUME call[z].scans > 0 PROVE SnapshotAhead(z)'
      OBVIOUS
    <3>1. 2 \in 1 .. Len(jobs \o todo[z]) /\ (jobs \o todo[z])[2] = "snapshot"
      BY <2>3, <2>4
    <3> QED BY <2>4, <3>1 DEF SnapshotAhead
  <2>6. SnapshotAhead(z) => SnapshotAhead(z)'
    <3> SUFFICES ASSUME NEW i \in 1 .. Len(todo[z]), todo[z][i] = "snapshot" PROVE SnapshotAhead(z)'
      BY DEF SnapshotAhead
    <3>1. /\ Len(jobs) + i \in 1 .. Len(jobs \o todo[z])
          /\ (jobs \o todo[z])[Len(jobs) + i] = "snapshot"
      BY <2>3, <2>4
    <3> QED BY <2>4, <3>1 DEF SnapshotAhead
  <2> QED BY <2>1, <2>2, <2>5, <2>6 DEF Kept
<1>6. ASSUME FinishRegistryCheck(z) PROVE Kept(z)'
  <2>1. /\ call[z] # None /\ call[z].kind = "registry" /\ call'[z] = None
        /\ UNCHANGED <<shown, owed, queue, todo>>
    BY <1>6 DEF FinishRegistryCheck, controllerVars, historyVars
  <2>2. Answered(z) = 0 /\ ~ SnapshotSent(z)
    BY <2>1 DEF Answered, SnapshotSent, ScansComeWithPolls
  <2>3. SnapshotAhead(z) => SnapshotAhead(z)'
    BY <2>1 DEF SnapshotAhead
  <2> QED BY <2>1, <2>2, <2>3 DEF Kept
<1>7. ASSUME SkipJob(z) \/ CallFails(z) \/ RestartAgent(z) \/ RestartController PROVE Kept(z)'
  BY <1>c, <1>7 DEF SkipJob, CallFails, RestartAgent, RestartController
<1>8. ASSUME NEW m \in late, HandleLate(m) PROVE Kept(z)'
  <2>1. CASE m.server = z
    BY <1>c, <1>8, <2>1 DEF HandleLate
  <2>2. CASE m.server # z
    BY <1>8, <2>2, KeptElsewhere DEF HandleLate, Effect, agentVars
  <2> QED BY <2>1, <2>2
<1>9. ASSUME NEW s \in Servers \ {z},
             \/ RequestScan(s) \/ SkipJob(s) \/ FinishRegistryCheck(s) \/ Finish(s)
             \/ CallFails(s) \/ RestartAgent(s)
             \/ \E kind \in Kinds : Turn(s, kind) \/ Begin(s, kind) \/ Handle(s, kind)
      PROVE  Kept(z)'
  <2> DEFINE Same == /\ shown'[z] = shown[z] /\ owed'[z] = owed[z] /\ queue'[z] = queue[z]
                     /\ call'[z] = call[z] /\ todo'[z] = todo[z]
  <2>1. CASE RequestScan(s) \/ SkipJob(s) \/ FinishRegistryCheck(s)
    <3>1. Same
      BY <2>1 DEF RequestScan, SkipJob, FinishRegistryCheck, controllerVars, agentVars, historyVars
    <3> QED BY <3>1, KeptElsewhere
  <2>2. CASE Finish(s) \/ CallFails(s) \/ RestartAgent(s)
    <3>1. Same
      BY <2>2 DEF Finish, CallFails, RestartAgent, controllerVars
    <3> QED BY <3>1, KeptElsewhere
  <2>3. ASSUME NEW kind \in Kinds, Turn(s, kind) \/ Begin(s, kind) PROVE Kept(z)'
    <3>1. Same
      BY <2>3 DEF Turn, Begin, controllerVars, historyVars
    <3> QED BY <3>1, KeptElsewhere
  <2>4. ASSUME NEW kind \in Kinds, Handle(s, kind) PROVE Kept(z)'
    <3>1. Same
      BY <2>4 DEF Handle, Effect, historyVars
    <3> QED BY <3>1, KeptElsewhere
  <2> QED BY <1>9, <2>1, <2>2, <2>3, <2>4
<1>10. CASE UNCHANGED <<shown, owed, queue, call, todo>>
  BY <1>10, KeptElsewhere
<1>11. ASSUME NEW s \in Servers, ChangeHost(s) PROVE Kept(z)'
  BY <1>10, <1>11 DEF ChangeHost, controllerVars, agentVars, historyVars
<1>12. ASSUME NEW m \in late, CancelLate(m) PROVE Kept(z)'
  BY <1>10, <1>12 DEF CancelLate, controllerVars, agentVars, historyVars
<1>13. CASE UNCHANGED vars
  BY <1>10, <1>13 DEF vars, controllerVars, agentVars, historyVars
<1>14. ASSUME NEW s \in Servers,
              \/ ChangeHost(s) \/ RequestScan(s)
              \/ \E kind \in Kinds : Turn(s, kind) \/ Begin(s, kind) \/ Handle(s, kind)
              \/ SkipJob(s) \/ FinishRegistryCheck(s) \/ Finish(s) \/ CallFails(s) \/ RestartAgent(s)
       PROVE  Kept(z)'
  <2>1. CASE s = z
    BY <1>1, <1>2, <1>3, <1>4, <1>5, <1>6, <1>7, <1>11, <1>14, <2>1
  <2>2. CASE s # z
    BY <1>9, <1>11, <1>14, <2>2
  <2> QED BY <2>1, <2>2
<1> QED BY <1>7, <1>8, <1>12, <1>13, <1>14 DEF Next

(* After an undisturbed scan the page shows the host as of the request.      *)
THEOREM ScanShowsHostHolds == Spec => []ScanShowsHost
<1>1. Init => OwedInv
  <2> SUFFICES ASSUME Init PROVE InOrder /\ \A s \in Servers : Kept(s)
    BY ScanInvInit DEF OwedInv
  <2> QED BY DEF Init, InOrder, Kept
<1>2. OwedInv /\ [Next]_vars => OwedInv'
  BY ScanInvStep, InOrderStep, KeptStep DEF OwedInv
<1>3. OwedInv => ScanShowsHost
  <2> SUFFICES ASSUME OwedInv, NEW s \in Servers, Idle(s), queue[s] = 0 PROVE shown[s] >= owed[s]
    BY DEF ScanShowsHost
  <2>1. Kept(s) /\ todo[s] = <<>> /\ call[s] = None
    BY DEF OwedInv, Idle
  <2>2. Answered(s) = 0 /\ ~ SnapshotSent(s) /\ ~ SnapshotAhead(s)
    BY <2>1 DEF Answered, SnapshotSent, SnapshotAhead
  <2> QED BY <2>1, <2>2 DEF Kept
<1> QED BY <1>1, <1>2, <1>3, PTL DEF Spec

-----------------------------------------------------------------------------
(* The page goes back to an older list only when a snapshot that its agent    *)
(* has given up is handled after a newer one; and it never shows a list the   *)
(* host has not had (HandleContainerSnapshot, which replaces the rows by what *)
(* arrives, whatever stands there).                                           *)
PageGoesOn ==
    \A s \in Servers :
        /\ shown'[s] <= host'[s]
        /\ shown'[s] < shown[s] =>
              \E m \in late \ late' : m.server = s /\ m.kind = "snapshot" /\ m.version = shown'[s]

LEMMA PageStep == ScanInv /\ InOrder /\ [Next]_vars => PageGoesOn
<1> SUFFICES ASSUME ScanInv, InOrder, [Next]_vars, NEW s \in Servers
             PROVE  /\ shown'[s] <= host'[s]
                    /\ shown'[s] < shown[s] =>
                          \E m \in late \ late' : /\ m.server = s /\ m.kind = "snapshot"
                                                 /\ m.version = shown'[s]
  BY DEF PageGoesOn
<1>0. TypeOK /\ shown \in [Servers -> 0 .. MaxVersions] /\ shown[s] \in Nat
  BY Numbers DEF ScanInv, TypeOK
<1>1. shown'[s] <= host'[s]
  BY InOrderStep DEF InOrder
<1>2. ASSUME NEW t \in Servers, NEW kind \in Kinds, Handle(t, kind) PROVE ~(shown'[s] < shown[s])
  <2>1. /\ call[t] # None
        /\ shown' = shown \/ shown' = [shown EXCEPT ![t] = call[t].version]
    BY <1>2 DEF Handle, Effect
  <2>2. shown[t] <= call[t].version /\ call[t].version \in Nat
    BY <1>0, <2>1, Numbers DEF InOrder
  <2>3. shown'[s] = shown[s] \/ (s = t /\ shown'[s] = call[s].version)
    BY <1>0, <2>1
  <2> QED BY <1>0, <2>2, <2>3
<1>3. ASSUME NEW m \in late, HandleLate(m), shown'[s] # shown[s]
      PROVE  m \notin late' /\ m.server = s /\ m.kind = "snapshot" /\ m.version = shown'[s]
  <2>1. late' = late \ {m}
    BY <1>3 DEF HandleLate
  <2>2. shown' = IF m.kind = "snapshot" THEN [shown EXCEPT ![m.server] = m.version] ELSE shown
    BY <1>3 DEF HandleLate, Effect
  <2> QED BY <1>0, <1>3, <2>1, <2>2
<1>4. \/ shown' = shown
      \/ \E t \in Servers, kind \in Kinds : Handle(t, kind)
      \/ \E m \in late : HandleLate(m)
  BY DEF Next, ChangeHost, RequestScan, Turn, Begin, SkipJob, FinishRegistryCheck, Finish, CallFails,
         RestartAgent, CancelLate, RestartController, vars, controllerVars
<1>5. ~(shown[s] < shown[s])
  BY <1>0
<1> QED BY <1>1, <1>2, <1>3, <1>4, <1>5

(* Snapshots in time never take the page back, for any number of hosts,       *)
(* failing calls and restarts of either side.                                 *)
THEOREM OnlyLateSnapshotsGoBack == Spec => [][PageGoesOn]_vars
<1>1. Init => InOrder
  BY DEF Init, InOrder
<1>2. Spec => [](ScanInv /\ InOrder)
  BY <1>1, InOrderStep, ScanInvariant, PTL DEF Spec
<1>3. ScanInv /\ InOrder /\ [Next]_vars => [PageGoesOn]_vars
  BY PageStep
<1> QED BY <1>2, <1>3, PTL DEF Spec
=============================================================================
