------------------------- MODULE Enrollment_proofs -------------------------
(* What Enrollment promises for any number of hosts, tokens and attempts.    *)
EXTENDS Enrollment, TLAPS

(* The first three conjuncts are the database's: only the request that holds *)
(* the connection has begun, what it has accepted is still unused, and the   *)
(* two rows written by one commit agree.                                     *)
OneHolder == \A i \in Ids : req[i] \in {"begun", "accepted"} <=> conn = i

AcceptedIsUnused == \A i \in Ids : req[i] = "accepted" => consumedBy[token[i]] = None

RowsAgree == \A i \in Ids, t \in Tokens : agents[i] = t <=> consumedBy[t] = i

(* Requests carry a token, leave a row exactly when they are done, and those *)
(* of the future are untouched.                                              *)
RequestsInOrder ==
    /\ \A i \in Ids : req[i] # "none" => token[i] \in Tokens
    /\ \A i \in Ids : req[i] = "done" <=> agents[i] # None
    /\ \A a \in Agents, n \in 1 .. MaxAttempts : n > attempts[a] => req[<<a, n>>] = "none"

(* A data directory starts with its certificate; as loadOrEnroll never       *)
(* enrols again once that exists, all it holds is from the last request,     *)
(* which is done.                                                            *)
FromLastRequest(a) == 1 <= attempts[a] /\ req[Current(a)] = "done"
InOrder(a) ==
    /\ disk[a]["crt"] = None => \A f \in Files : disk[a][f] = None
    /\ \A f \in Files : disk[a][f] \in Ids => disk[a][f] = Current(a)
    /\ disk[a]["crt"] # None => FromLastRequest(a)
    /\ pc[a] = "waiting" => disk[a]["crt"] = None
    /\ pc[a] \in Files => FromLastRequest(a)
    /\ pc[a] \in Files \ {"crt"} => disk[a]["crt"] # None
    /\ identity[a] # None => identity[a] = Current(a) /\ disk[a]["crt"] # None
    /\ pc[a] = "down" => identity[a] = None
    /\ pc[a] = "waiting" => 1 <= attempts[a]

DiskInOrder == \A a \in Agents : InOrder(a)

IInv ==
    /\ TypeOK
    /\ OneHolder
    /\ AcceptedIsUnused
    /\ RowsAgree
    /\ RequestsInOrder
    /\ DiskInOrder

(* The request an agent has sent last is a request.                          *)
LEMMA CurrentIsId ==
    ASSUME TypeOK, NEW a \in Agents, 1 <= attempts[a]
    PROVE  Current(a) \in Ids
BY AttemptAssumption DEF Current, Ids, TypeOK

LEMMA Initially == Init => IInv
<1> SUFFICES ASSUME Init PROVE IInv
  OBVIOUS
<1> USE NamesAssumption, AttemptAssumption DEF Init
<1>1. TypeOK
  BY DEF TypeOK, Empty
<1>2. OneHolder /\ AcceptedIsUnused
  BY DEF OneHolder, AcceptedIsUnused
<1>3. RowsAgree
  BY DEF RowsAgree
<1>4. RequestsInOrder
  BY DEF RequestsInOrder, Ids
<1>5. DiskInOrder
  BY DEF DiskInOrder, InOrder, Empty, Files
<1> QED BY <1>1, <1>2, <1>3, <1>4, <1>5 DEF IInv

LEMMA TypeStep == IInv /\ [Next]_vars => TypeOK'
<1> SUFFICES ASSUME IInv, [Next]_vars PROVE TypeOK'
  OBVIOUS
<1> TypeOK /\ DiskInOrder
  BY DEF IInv
<1> USE NamesAssumption, AttemptAssumption DEF TypeOK, controllerVars, requestVars, agentVars
<1>1. ASSUME NEW t \in Tokens, CreateToken(t) \/ ExpireToken(t) PROVE TypeOK'
  BY <1>1 DEF CreateToken, ExpireToken
<1>2. ASSUME NEW i \in Ids, BeginEnroll(i) \/ AcceptToken(i) \/ AbortEnroll(i) PROVE TypeOK'
  BY <1>2 DEF BeginEnroll, AcceptToken, AbortEnroll
<1>3. ASSUME NEW i \in Ids, CommitEnroll(i) PROVE TypeOK'
  BY <1>3 DEF CommitEnroll
<1>4. CASE RestartController
  BY <1>4 DEF RestartController
<1>5. ASSUME NEW a \in Agents, NEW t \in Tokens, SendEnroll(a, t) PROVE TypeOK'
  <2>1. attempts[a] + 1 \in 0 .. MaxAttempts
    BY <1>5 DEF SendEnroll
  <2>2. /\ attempts' \in [Agents -> 0 .. MaxAttempts]
        /\ token' \in [Ids -> Tokens \cup {None}]
        /\ pc' \in [Agents -> {"down", "waiting", "running"} \cup Files]
    BY <1>5, <2>1 DEF SendEnroll
  <2>3. req' \in [Ids -> {"none", "sent", "begun", "accepted", "done", "failed"}]
    BY <1>5 DEF SendEnroll
  <2> QED BY <1>5, <2>2, <2>3 DEF SendEnroll
<1>6. ASSUME NEW a \in Agents, ReceiveCert(a) \/ LoadIdentity(a) PROVE TypeOK'
  BY <1>6 DEF ReceiveCert, LoadIdentity, StoredIdentity, Files
<1>7. ASSUME NEW a \in Agents, WriteFile(a) PROVE TypeOK'
  <2>1. Current(a) \in Ids
    BY <1>7, CurrentIsId DEF WriteFile, DiskInOrder, InOrder, FromLastRequest
  <2>2. pc[a] \in Files /\ NextAfter(pc[a]) \in {"running"} \cup Files
    BY <1>7 DEF WriteFile, NextAfter, Files
  <2>3. disk' \in [Agents -> [Files -> Ids \cup {None, Torn}]]
    <3> DEFINE mine == [disk[a] EXCEPT ![pc[a]] = Current(a)]
    <3>1. mine \in [Files -> Ids \cup {None, Torn}]
      BY <2>1, <2>2
    <3>2. disk' = [disk EXCEPT ![a] = mine]
      BY <1>7 DEF WriteFile
    <3> QED BY <3>1, <3>2
  <2>4. /\ pc' \in [Agents -> {"down", "waiting", "running"} \cup Files]
        /\ identity' \in [Agents -> Ids \cup {None}]
    BY <1>7, <2>1, <2>2 DEF WriteFile
  <2> QED BY <1>7, <2>3, <2>4 DEF WriteFile
<1>8. ASSUME NEW a \in Agents, Crash(a) PROVE TypeOK'
  <2>1. disk' \in [Agents -> [Files -> Ids \cup {None, Torn}]]
    <3>1. CASE disk' = disk
      BY <3>1
    <3>2. CASE pc[a] \in Files /\ disk' = [disk EXCEPT ![a][pc[a]] = Torn]
      BY <3>2
    <3> QED BY <1>8, <3>1, <3>2 DEF Crash
  <2> QED BY <1>8, <2>1 DEF Crash
<1>9. CASE UNCHANGED vars
  BY <1>9 DEF vars
<1> QED BY <1>1, <1>2, <1>3, <1>4, <1>5, <1>6, <1>7, <1>8, <1>9 DEF Next

(* The agents do nothing in the database.                                    *)
AgentStep ==
    \E a \in Agents :
        ReceiveCert(a) \/ WriteFile(a) \/ Crash(a) \/ LoadIdentity(a)

LEMMA AgentsStayOut ==
    ASSUME AgentStep
    PROVE  UNCHANGED <<controllerVars, requestVars, attempts>>
BY DEF AgentStep, ReceiveCert, WriteFile, Crash, LoadIdentity

LEMMA DatabaseStep ==
    IInv /\ [Next]_vars => OneHolder' /\ AcceptedIsUnused' /\ RowsAgree'
<1> SUFFICES ASSUME IInv, [Next]_vars PROVE OneHolder' /\ AcceptedIsUnused' /\ RowsAgree'
  OBVIOUS
<1> TypeOK /\ OneHolder /\ AcceptedIsUnused /\ RowsAgree /\ RequestsInOrder
  BY DEF IInv
<1> USE NamesAssumption DEF TypeOK, OneHolder, AcceptedIsUnused, RowsAgree
<1>1. ASSUME NEW t \in Tokens, CreateToken(t) \/ ExpireToken(t)
      PROVE  OneHolder' /\ AcceptedIsUnused' /\ RowsAgree'
  BY <1>1 DEF CreateToken, ExpireToken, requestVars
<1>2. ASSUME NEW i \in Ids, BeginEnroll(i)
      PROVE  OneHolder' /\ AcceptedIsUnused' /\ RowsAgree'
  BY <1>2 DEF BeginEnroll
<1>3. ASSUME NEW i \in Ids, AcceptToken(i)
      PROVE  OneHolder' /\ AcceptedIsUnused' /\ RowsAgree'
  BY <1>3 DEF AcceptToken, Acceptable, controllerVars
<1>4. ASSUME NEW i \in Ids, AbortEnroll(i)
      PROVE  OneHolder' /\ AcceptedIsUnused' /\ RowsAgree'
  BY <1>4 DEF AbortEnroll
<1>5. ASSUME NEW i \in Ids, CommitEnroll(i)
      PROVE  OneHolder' /\ AcceptedIsUnused' /\ RowsAgree'
  <2>1. /\ req[i] = "accepted" /\ conn = i
        /\ req' = [req EXCEPT ![i] = "done"] /\ conn' = None /\ token' = token
        /\ \A j \in Ids : j # i => req[j] \notin {"begun", "accepted"}
    BY <1>5 DEF CommitEnroll
  <2>2. OneHolder' /\ AcceptedIsUnused'
    BY <2>1
  <2>3. token[i] \in Tokens /\ consumedBy[token[i]] = None /\ agents[i] = None
    BY <2>1 DEF RequestsInOrder
  <2>4. /\ agents' = [agents EXCEPT ![i] = token[i]]
        /\ consumedBy' = [consumedBy EXCEPT ![token[i]] = i]
    BY <1>5 DEF CommitEnroll
  <2>5. RowsAgree'
    BY <2>3, <2>4
  <2> QED BY <2>2, <2>5
<1>6. CASE RestartController
  BY <1>6 DEF RestartController, UnderWay
<1>7. ASSUME NEW a \in Agents, NEW t \in Tokens, SendEnroll(a, t)
      PROVE  OneHolder' /\ AcceptedIsUnused' /\ RowsAgree'
  <2> DEFINE new == <<a, attempts[a] + 1>>
  <2>1. new \in Ids /\ req[new] = "none"
    BY <1>7, AttemptAssumption DEF SendEnroll, Ids, RequestsInOrder
  <2>2. /\ req' = [req EXCEPT ![new] = "sent"] /\ token' = [token EXCEPT ![new] = t]
        /\ UNCHANGED controllerVars
    BY <1>7 DEF SendEnroll
  <2> HIDE DEF new
  <2> QED BY <2>1, <2>2 DEF controllerVars
<1>8. CASE AgentStep
  BY <1>8, AgentsStayOut DEF controllerVars, requestVars
<1>9. CASE UNCHANGED vars
  BY <1>9 DEF vars, controllerVars, requestVars
<1> QED BY <1>1, <1>2, <1>3, <1>4, <1>5, <1>6, <1>7, <1>8, <1>9 DEF Next, AgentStep

LEMMA RequestStep == IInv /\ [Next]_vars => RequestsInOrder'
<1> SUFFICES ASSUME IInv, [Next]_vars PROVE RequestsInOrder'
  OBVIOUS
<1> TypeOK /\ RequestsInOrder
  BY DEF IInv
<1> USE NamesAssumption DEF TypeOK, RequestsInOrder
<1>1. ASSUME NEW t \in Tokens, CreateToken(t) \/ ExpireToken(t) PROVE RequestsInOrder'
  BY <1>1 DEF CreateToken, ExpireToken, requestVars, agentVars
<1>2. ASSUME NEW i \in Ids, BeginEnroll(i) \/ AcceptToken(i) \/ AbortEnroll(i)
      PROVE  RequestsInOrder'
  <2>1. /\ \A j \in Ids : /\ req'[j] = "done" <=> req[j] = "done"
                          /\ req'[j] = "none" <=> req[j] = "none"
        /\ UNCHANGED <<agents, token, attempts>>
    BY <1>2 DEF BeginEnroll, AcceptToken, AbortEnroll, controllerVars, agentVars
  <2>2. \A a \in Agents, n \in 1 .. MaxAttempts : <<a, n>> \in Ids
    BY DEF Ids
  <2> QED BY <2>1, <2>2
<1>3. ASSUME NEW i \in Ids, CommitEnroll(i) PROVE RequestsInOrder'
  <2>1. /\ req[i] = "accepted" /\ token[i] \in Tokens
        /\ req' = [req EXCEPT ![i] = "done"] /\ agents' = [agents EXCEPT ![i] = token[i]]
        /\ token' = token /\ attempts' = attempts
    BY <1>3 DEF CommitEnroll, agentVars
  <2>2. \A j \in Ids : /\ req'[j] = IF j = i THEN "done" ELSE req[j]
                       /\ agents'[j] = IF j = i THEN token[i] ELSE agents[j]
    BY <2>1
  <2>3. \A j \in Ids : /\ req'[j] # "none" => token'[j] \in Tokens
                       /\ req'[j] = "done" <=> agents'[j] # None
    BY <2>1, <2>2
  <2>4. ASSUME NEW a \in Agents, NEW n \in 1 .. MaxAttempts, n > attempts'[a]
        PROVE  req'[<<a, n>>] = "none"
    <3>1. <<a, n>> \in Ids
      BY DEF Ids
    <3>2. req[<<a, n>>] = "none" /\ <<a, n>> # i
      BY <2>1, <2>4
    <3> QED BY <2>2, <3>1, <3>2
  <2> QED BY <2>3, <2>4
<1>4. CASE RestartController
  <2>1. \A i \in Ids : /\ req'[i] = "done" <=> req[i] = "done"
                       /\ req'[i] = "none" <=> req[i] = "none"
    BY <1>4 DEF RestartController, UnderWay
  <2>2. \A a \in Agents, n \in 1 .. MaxAttempts : <<a, n>> \in Ids
    BY DEF Ids
  <2>3. UNCHANGED <<agents, token, attempts>>
    BY <1>4 DEF RestartController, agentVars
  <2> QED BY <2>1, <2>2, <2>3
<1>5. ASSUME NEW a \in Agents, NEW t \in Tokens, SendEnroll(a, t) PROVE RequestsInOrder'
  <2> DEFINE new == <<a, attempts[a] + 1>>
  <2>1. new \in Ids /\ req[new] = "none"
    BY <1>5, AttemptAssumption DEF SendEnroll, Ids
  <2>2. /\ req' = [req EXCEPT ![new] = "sent"] /\ token' = [token EXCEPT ![new] = t]
        /\ agents' = agents
    BY <1>5 DEF SendEnroll, controllerVars
  <2>3. ASSUME NEW b \in Agents, NEW n \in 1 .. MaxAttempts, n > attempts'[b]
        PROVE  req'[<<b, n>>] = "none"
    <3>1. n > attempts[b] /\ <<b, n>> # new /\ <<b, n>> \in Ids
      BY <1>5, <2>3, AttemptAssumption DEF SendEnroll, Ids
    <3> QED BY <2>1, <2>2, <3>1
  <2> HIDE DEF new
  <2>4. \A i \in Ids : /\ req'[i] # "none" => token'[i] \in Tokens
                       /\ req'[i] = "done" <=> agents'[i] # None
    BY <2>1, <2>2
  <2> QED BY <2>3, <2>4
<1>6. CASE AgentStep
  BY <1>6, AgentsStayOut DEF controllerVars, requestVars
<1>7. CASE UNCHANGED vars
  BY <1>7 DEF vars, controllerVars, requestVars, agentVars
<1> QED BY <1>1, <1>2, <1>3, <1>4, <1>5, <1>6, <1>7 DEF Next, AgentStep

(* What the controller does leaves every data directory in order: a request  *)
(* that is done stays done.                                                  *)
LEMMA DoneStays ==
    ASSUME TypeOK, DiskInOrder, UNCHANGED agentVars,
           \A i \in Ids : req[i] = "done" => req'[i] = "done"
    PROVE  DiskInOrder'
<1>1. \A a \in Agents : FromLastRequest(a) => FromLastRequest(a)'
  BY CurrentIsId DEF FromLastRequest, Current, agentVars
<1> QED BY <1>1 DEF DiskInOrder, InOrder, Current, agentVars

(* The same for what one agent does, as long as the directories, the         *)
(* requests and the counters of the others stay.                             *)
LEMMA OneAgentMoves ==
    ASSUME TypeOK, DiskInOrder, NEW a \in Agents, InOrder(a)',
           \A b \in Agents \ {a} :
              /\ pc'[b] = pc[b] /\ disk'[b] = disk[b] /\ identity'[b] = identity[b]
              /\ attempts'[b] = attempts[b]
              /\ req[Current(b)] = "done" => req'[Current(b)] = "done"
    PROVE  DiskInOrder'
<1>1. \A b \in Agents : InOrder(b)
  BY DEF DiskInOrder, InOrder
<1>2. \A b \in Agents \ {a} : InOrder(b)'
  <2> SUFFICES ASSUME NEW b \in Agents \ {a} PROVE InOrder(b)'
    OBVIOUS
  <2>1. InOrder(b)
    BY <1>1
  <2>2. Current(b)' = Current(b)
    BY DEF Current
  <2>3. FromLastRequest(b) => FromLastRequest(b)'
    BY <2>2 DEF FromLastRequest
  <2> QED BY <2>1, <2>2, <2>3 DEF InOrder
<1>3. \A b \in Agents : InOrder(b)'
  BY <1>2
<1> QED BY <1>3 DEF DiskInOrder, InOrder

LEMMA DiskStep == IInv /\ [Next]_vars => DiskInOrder'
<1> SUFFICES ASSUME IInv, [Next]_vars PROVE DiskInOrder'
  OBVIOUS
<1> TypeOK /\ RequestsInOrder /\ DiskInOrder
  BY DEF IInv
<1> USE NamesAssumption DEF TypeOK
<1>1. ASSUME NEW t \in Tokens, CreateToken(t) \/ ExpireToken(t) PROVE DiskInOrder'
  BY <1>1, DoneStays DEF CreateToken, ExpireToken, requestVars
<1>2. ASSUME NEW i \in Ids, BeginEnroll(i) \/ AcceptToken(i) \/ AbortEnroll(i) \/ CommitEnroll(i)
      PROVE  DiskInOrder'
  <2>1. \A j \in Ids : req[j] = "done" => req'[j] = "done"
    BY <1>2 DEF BeginEnroll, AcceptToken, AbortEnroll, CommitEnroll
  <2> QED BY <1>2, <2>1, DoneStays DEF BeginEnroll, AcceptToken, AbortEnroll, CommitEnroll
<1>3. CASE RestartController
  <2>1. \A j \in Ids : req[j] = "done" => req'[j] = "done"
    BY <1>3 DEF RestartController, UnderWay
  <2> QED BY <1>3, <2>1, DoneStays DEF RestartController
<1>4. ASSUME NEW a \in Agents, NEW t \in Tokens, SendEnroll(a, t) PROVE DiskInOrder'
  <2>1. /\ disk[a]["crt"] = None /\ pc'[a] = "waiting" /\ identity'[a] = None
        /\ disk' = disk /\ attempts'[a] = attempts[a] + 1
    BY <1>4 DEF SendEnroll, Enrolled, DiskInOrder, InOrder
  <2>2. InOrder(a)'
    BY <2>1 DEF DiskInOrder, InOrder, Files
  <2>3. ASSUME NEW b \in Agents \ {a}
        PROVE  req[Current(b)] = "done" => req'[Current(b)] = "done"
    <3>1. Current(b) # <<a, attempts[a] + 1>>
      BY DEF Current
    <3> QED BY <1>4, <3>1 DEF SendEnroll
  <2> QED BY <1>4, <2>2, <2>3, OneAgentMoves DEF SendEnroll
<1>5. ASSUME NEW a \in Agents, ReceiveCert(a) PROVE DiskInOrder'
  <2>1. InOrder(a)'
    BY <1>5 DEF ReceiveCert, Answered, DiskInOrder, InOrder, FromLastRequest, Current, Files,
                requestVars
  <2> QED BY <1>5, <2>1, OneAgentMoves DEF ReceiveCert, requestVars
<1>6. ASSUME NEW a \in Agents, WriteFile(a) PROVE DiskInOrder'
  <2>1. /\ pc[a] \in Files /\ FromLastRequest(a) /\ Current(a) \in Ids
        /\ UNCHANGED <<req, attempts>>
    BY <1>6, CurrentIsId DEF WriteFile, DiskInOrder, InOrder, FromLastRequest, requestVars
  <2>2. \A f \in Files : disk'[a][f] = IF f = pc[a] THEN Current(a) ELSE disk[a][f]
    BY <1>6 DEF WriteFile
  <2>3. disk'[a]["crt"] # None
    BY <2>1, <2>2 DEF DiskInOrder, InOrder, Files
  <2>4. /\ pc'[a] = NextAfter(pc[a]) /\ NextAfter(pc[a]) \in {"key", "shared", "identity", "running"}
        /\ identity'[a] \in {identity[a], Current(a)}
    BY <1>6, <2>1 DEF WriteFile, NextAfter, Files
  <2>5. FromLastRequest(a)' /\ Current(a)' = Current(a)
    BY <2>1 DEF FromLastRequest, Current
  <2>6. InOrder(a)'
    BY <2>1, <2>2, <2>3, <2>4, <2>5 DEF InOrder, DiskInOrder
  <2> QED BY <1>6, <2>1, <2>6, OneAgentMoves DEF WriteFile
<1>7. ASSUME NEW a \in Agents, Crash(a) PROVE DiskInOrder'
  <2>1. /\ pc'[a] = "down" /\ identity'[a] = None /\ UNCHANGED <<req, attempts>>
    BY <1>7 DEF Crash, requestVars
  <2>2. FromLastRequest(a)' = FromLastRequest(a) /\ Current(a)' = Current(a)
    BY <2>1 DEF FromLastRequest, Current
  <2>3. InOrder(a)'
    <3>1. CASE disk' = disk
      BY <2>1, <2>2, <3>1 DEF InOrder, DiskInOrder, Files
    <3>2. CASE pc[a] \in Files /\ disk' = [disk EXCEPT ![a][pc[a]] = Torn]
      <4>1. \A f \in Files : disk'[a][f] = IF f = pc[a] THEN Torn ELSE disk[a][f]
        BY <3>2
      <4>2. disk'[a]["crt"] # None
        BY <3>2, <4>1 DEF DiskInOrder, InOrder, Files
      <4> QED BY <2>1, <2>2, <3>2, <4>1, <4>2 DEF InOrder, DiskInOrder, Files
    <3> QED BY <1>7, <3>1, <3>2 DEF Crash
  <2> QED BY <1>7, <2>1, <2>3, OneAgentMoves DEF Crash
<1>8. ASSUME NEW a \in Agents, LoadIdentity(a) PROVE DiskInOrder'
  <2>1. /\ pc'[a] = "running" /\ disk' = disk /\ disk[a]["crt"] # None
        /\ identity'[a] = StoredIdentity(a) /\ UNCHANGED <<req, attempts>>
    BY <1>8 DEF LoadIdentity, Enrolled, requestVars
  <2>2. FromLastRequest(a)' = FromLastRequest(a) /\ Current(a)' = Current(a)
    BY <2>1 DEF FromLastRequest, Current
  <2>3. InOrder(a)'
    BY <2>1, <2>2 DEF InOrder, DiskInOrder, StoredIdentity, Files
  <2> QED BY <1>8, <2>1, <2>3, OneAgentMoves DEF LoadIdentity
<1>9. CASE UNCHANGED vars
  BY <1>9, DoneStays DEF vars, requestVars
<1> QED BY <1>1, <1>2, <1>3, <1>4, <1>5, <1>6, <1>7, <1>8, <1>9 DEF Next

LEMMA Invariant == Spec => []IInv
<1>1. IInv /\ [Next]_vars => IInv'
  BY TypeStep, DatabaseStep, RequestStep, DiskStep DEF IInv
<1> QED BY <1>1, Initially, PTL DEF Spec

-----------------------------------------------------------------------------
(* Every variable keeps its type, through crashes of both sides.             *)
THEOREM TypeCorrect == Spec => []TypeOK
<1>1. IInv => TypeOK
  BY DEF IInv
<1> QED BY <1>1, Invariant, PTL

(* However many requests carry a token and wherever they are interrupted, it *)
(* enrols at most one agent: the transaction holds the only connection from  *)
(* the look-up of the token to its commit.                                   *)
THEOREM TokenEnrolsOneAgentHolds == Spec => []TokenEnrolsOneAgent
<1>1. IInv => TokenEnrolsOneAgent
  <2> SUFFICES ASSUME IInv PROVE TokenEnrolsOneAgent
    OBVIOUS
  <2>1. TypeOK /\ RowsAgree
    BY DEF IInv
  <2>2. ASSUME NEW i \in Ids, NEW j \in Ids, agents[i] # None, agents[i] = agents[j]
        PROVE  i = j
    <3>1. agents[i] \in Tokens
      BY <2>1, <2>2 DEF TypeOK
    <3>2. consumedBy[agents[i]] = i /\ consumedBy[agents[i]] = j
      BY <2>1, <2>2, <3>1 DEF RowsAgree
    <3> QED BY <3>2
  <2> QED BY <2>1, <2>2 DEF TokenEnrolsOneAgent, RowsAgree
<1> QED BY <1>1, Invariant, PTL

(* An agent that runs under an id runs under its own, with a row in the      *)
(* controller's database.                                                    *)
THEOREM RunningAgentIsKnownHolds == Spec => []RunningAgentIsKnown
<1>1. IInv => RunningAgentIsKnown
  <2> SUFFICES ASSUME IInv, NEW a \in Agents, identity[a] # None
               PROVE  agents[identity[a]] # None /\ identity[a][1] = a
    BY DEF RunningAgentIsKnown
  <2>1. identity[a] = Current(a) /\ FromLastRequest(a)
    BY DEF IInv, DiskInOrder, InOrder
  <2>2. Current(a) \in Ids
    BY <2>1, CurrentIsId DEF IInv, FromLastRequest
  <2> QED BY <2>1, <2>2 DEF IInv, RequestsInOrder, FromLastRequest, Current
<1> QED BY <1>1, Invariant, PTL

(* A data directory holds the files of one enrolment only.                   *)
THEOREM DiskIsOneEnrollmentHolds == Spec => []DiskIsOneEnrollment
<1>1. IInv => DiskIsOneEnrollment
  BY DEF IInv, DiskInOrder, InOrder, DiskIsOneEnrollment
<1> QED BY <1>1, Invariant, PTL

-----------------------------------------------------------------------------
(* The refinement: a token is accepted for the request that holds the        *)
(* connection, once its handler has judged it.                               *)
(* A step that accepts nothing and settles nothing is invisible.             *)
LEMMA SameAcceptances ==
    ASSUME conn' \in Ids /\ req'[conn'] = "accepted"
              => conn \in Ids /\ req[conn] = "accepted" /\ conn' = conn /\ token'[conn] = token[conn],
           conn \in Ids /\ req[conn] = "accepted"
              => conn' = conn /\ req'[conn] = "accepted" /\ token'[conn] = token[conn]
    PROVE  acceptedFor' = acceptedFor
BY DEF acceptedFor

LEMMA RefinementStep == IInv /\ [Next]_vars => [OneTime!Next]_(OneTime!vars)
<1> SUFFICES ASSUME IInv, [Next]_vars PROVE [OneTime!Next]_(OneTime!vars)
  OBVIOUS
<1> TypeOK /\ OneHolder /\ AcceptedIsUnused /\ RequestsInOrder
  BY DEF IInv
<1> USE NamesAssumption DEF OneTime!vars, OneTime!Next
<1> DEFINE Hidden == UNCHANGED <<life, acceptedFor, consumedBy>>
<1>1. ASSUME NEW t \in Tokens, CreateToken(t) PROVE OneTime!Issue(t)
  BY <1>1 DEF CreateToken, OneTime!Issue, acceptedFor, requestVars
<1>2. ASSUME NEW t \in Tokens, ExpireToken(t) PROVE OneTime!Expire(t)
  BY <1>2 DEF ExpireToken, OneTime!Expire, acceptedFor, requestVars
<1>3. ASSUME NEW i \in Ids, BeginEnroll(i) PROVE Hidden
  BY <1>3, SameAcceptances DEF BeginEnroll, TypeOK
<1>4. ASSUME NEW i \in Ids, AcceptToken(i) PROVE OneTime!Accept(token[i], i)
  <2>1. /\ conn = i /\ token[i] \in Tokens /\ req[i] = "begun"
        /\ req' = [req EXCEPT ![i] = "accepted"] /\ UNCHANGED <<life, consumedBy, conn, token>>
    BY <1>4 DEF AcceptToken, OneHolder, RequestsInOrder, controllerVars
  <2>2. acceptedFor = [t \in Tokens |-> None]
    BY <2>1 DEF acceptedFor
  <2>3. acceptedFor' = [t \in Tokens |-> IF token[i] = t THEN i ELSE None]
    BY <2>1 DEF acceptedFor, TypeOK
  <2> QED BY <1>4, <2>1, <2>2, <2>3 DEF AcceptToken, Acceptable, OneTime!Accept
<1>5. ASSUME NEW i \in Ids, AbortEnroll(i), req[i] # "accepted" PROVE Hidden
  <2>1. \A j \in Ids : req'[j] = "accepted" <=> req[j] = "accepted"
    BY <1>5 DEF AbortEnroll, TypeOK
  <2>2. conn' = (IF conn = i THEN None ELSE conn) /\ token' = token
    BY <1>5 DEF AbortEnroll
  <2>3. acceptedFor' = acceptedFor
    BY <1>5, <2>1, <2>2, SameAcceptances
  <2> QED BY <1>5, <2>3 DEF AbortEnroll
(* Commit, abort and restart settle the one accepted token.                  *)
<1>6. ASSUME NEW i \in Ids, req[i] = "accepted"
      PROVE  /\ conn = i /\ token[i] \in Tokens /\ consumedBy[token[i]] = None
             /\ acceptedFor = [t \in Tokens |-> IF token[i] = t THEN i ELSE None]
             /\ conn' = None => acceptedFor' = [acceptedFor EXCEPT ![token[i]] = None]
  <2>1. conn = i /\ token[i] \in Tokens /\ consumedBy[token[i]] = None
    BY <1>6 DEF OneHolder, RequestsInOrder, AcceptedIsUnused
  <2>2. acceptedFor = [t \in Tokens |-> IF token[i] = t THEN i ELSE None]
    BY <1>6, <2>1 DEF acceptedFor
  <2>3. conn' = None => acceptedFor' = [t \in Tokens |-> None]
    BY DEF acceptedFor
  <2> QED BY <2>1, <2>2, <2>3
<1>7. ASSUME NEW i \in Ids, AbortEnroll(i), req[i] = "accepted" PROVE OneTime!Drop(token[i])
  <2>1. conn' = None /\ UNCHANGED <<life, consumedBy>>
    BY <1>6, <1>7 DEF AbortEnroll
  <2> QED BY <1>6, <1>7, <2>1 DEF OneTime!Drop
<1>8. ASSUME NEW i \in Ids, CommitEnroll(i) PROVE OneTime!Use(token[i])
  <2>1. /\ req[i] = "accepted" /\ conn' = None /\ life' = life
        /\ consumedBy' = [consumedBy EXCEPT ![token[i]] = i]
    BY <1>8 DEF CommitEnroll
  <2> QED BY <1>6, <2>1 DEF OneTime!Use
<1>9. CASE RestartController
  <2>0. conn' = None /\ UNCHANGED <<life, consumedBy>>
    BY <1>9 DEF RestartController
  <2>1. CASE \E i \in Ids : req[i] = "accepted"
    <3>1. PICK i \in Ids : req[i] = "accepted"
      BY <2>1
    <3>2. OneTime!Drop(token[i]) /\ token[i] \in Tokens
      BY <1>6, <2>0, <3>1 DEF OneTime!Drop
    <3> QED BY <3>2
  <2>2. CASE \A i \in Ids : req[i] # "accepted"
    <3>1. acceptedFor' = acceptedFor
      BY <2>0, <2>2 DEF acceptedFor
    <3> QED BY <2>0, <3>1
  <2> QED BY <2>1, <2>2
<1>10. ASSUME NEW a \in Agents, NEW t \in Tokens, SendEnroll(a, t) PROVE Hidden
  <2> DEFINE new == <<a, attempts[a] + 1>>
  <2>1. new \in Ids /\ req[new] = "none"
    BY <1>10, AttemptAssumption DEF SendEnroll, Ids, RequestsInOrder, TypeOK
  <2>2. /\ req' = [req EXCEPT ![new] = "sent"] /\ token' = [token EXCEPT ![new] = t]
        /\ UNCHANGED controllerVars
    BY <1>10 DEF SendEnroll
  <2> HIDE DEF new
  <2>3. acceptedFor' = acceptedFor
    BY <2>1, <2>2, SameAcceptances DEF controllerVars, TypeOK
  <2> QED BY <2>2, <2>3 DEF controllerVars
<1>11. CASE AgentStep
  BY <1>11, AgentsStayOut DEF acceptedFor, controllerVars, requestVars
<1>12. CASE UNCHANGED vars
  BY <1>12 DEF acceptedFor, vars, controllerVars, requestVars
<1>13. ASSUME NEW i \in Ids, AbortEnroll(i) \/ CommitEnroll(i) \/ AcceptToken(i)
       PROVE  OneTime!Next \/ Hidden
  <2>1. req[i] # "none"
    BY <1>13 DEF AbortEnroll, CommitEnroll, AcceptToken
  <2>2. token[i] \in Tokens
    BY <2>1 DEF RequestsInOrder
  <2> QED BY <1>4, <1>5, <1>7, <1>8, <1>13, <2>2
<1> QED BY <1>1, <1>2, <1>3, <1>9, <1>10, <1>11, <1>12, <1>13 DEF Next, AgentStep

(* The controller implements the abstract promise of one-time tokens: every  *)
(* step of a handler, an agent or a crash is a step of OneTimeTokens, or     *)
(* invisible to it.                                                          *)
THEOREM TokensAreOneTimeHolds == Spec => TokensAreOneTime
<1>1. Init => OneTime!Init
  BY NamesAssumption DEF Init, OneTime!Init, acceptedFor
<1> QED BY <1>1, RefinementStep, Invariant, PTL DEF Spec, TokensAreOneTime, OneTime!Spec

-----------------------------------------------------------------------------
(* An agent that is stranded: loadOrEnroll finds a certificate, which it does *)
(* not enrol over, and loadExistingCert cannot use what is beside it. Every   *)
(* start ends with that error.                                                *)
Stranded(a) == pc[a] = "down" /\ Enrolled(a) /\ ~Loadable(a)

(* Files are there before those that are written after them.                  *)
WrittenSoFar(a) ==
    /\ pc[a] \in {"key", "shared", "identity"} => disk[a]["crt"] \in Ids
    /\ pc[a] \in {"shared", "identity"} => disk[a]["key"] \in Ids
    /\ pc[a] = "identity" => disk[a]["shared"] # None
    /\ pc[a] = "running" => Loadable(a)
WrittenInOrder == \A a \in Agents : WrittenSoFar(a)

LEMMA WrittenStep == IInv /\ WrittenInOrder /\ [Next]_vars => WrittenInOrder'
<1> SUFFICES ASSUME IInv, WrittenInOrder, [Next]_vars, NEW b \in Agents PROVE WrittenSoFar(b)'
  BY DEF WrittenInOrder
<1> TypeOK /\ DiskInOrder /\ WrittenSoFar(b)
  BY DEF IInv, WrittenInOrder
<1>0. /\ pc \in [Agents -> {"down", "waiting", "running"} \cup Files]
      /\ disk \in [Agents -> [Files -> Ids \cup {None, Torn}]]
  BY DEF TypeOK
<1>1. ASSUME pc'[b] = pc[b], disk'[b] = disk[b] PROVE WrittenSoFar(b)'
  BY <1>1 DEF WrittenSoFar, Loadable
<1>2. ASSUME NEW a \in Agents, WriteFile(a) PROVE WrittenSoFar(b)'
  <2>1. Current(a) \in Ids /\ pc[a] \in Files
    BY <1>2, CurrentIsId DEF WriteFile, DiskInOrder, InOrder, FromLastRequest
  <2>2. /\ pc' = [pc EXCEPT ![a] = NextAfter(pc[a])]
        /\ disk' = [disk EXCEPT ![a][pc[a]] = Current(a)]
    BY <1>2 DEF WriteFile
  <2>3. CASE a = b
    <3>1. /\ pc'[b] = NextAfter(pc[b]) /\ pc[b] \in Files /\ Current(a) # None
          /\ \A f \in Files : disk'[b][f] = IF f = pc[b] THEN Current(a) ELSE disk[b][f]
      BY <1>0, <2>1, <2>2, <2>3, NamesAssumption
    <3> QED BY <2>1, <3>1 DEF WrittenSoFar, Loadable, NextAfter, Files
  <2>4. CASE a # b
    BY <1>0, <1>1, <2>2, <2>4
  <2> QED BY <2>3, <2>4
<1>3. ASSUME NEW a \in Agents, NEW t \in Tokens, SendEnroll(a, t) PROVE WrittenSoFar(b)'
  BY <1>0, <1>1, <1>3 DEF SendEnroll, WrittenSoFar
<1>4. ASSUME NEW a \in Agents, ReceiveCert(a) \/ LoadIdentity(a) PROVE WrittenSoFar(b)'
  BY <1>0, <1>1, <1>4 DEF ReceiveCert, LoadIdentity, WrittenSoFar, Loadable
<1>5. ASSUME NEW a \in Agents, Crash(a) PROVE WrittenSoFar(b)'
  <2>1. CASE a = b
    BY <1>0, <1>5, <2>1 DEF Crash, WrittenSoFar
  <2>2. CASE a # b
    <3>1. pc'[b] = pc[b] /\ disk'[b] = disk[b]
      BY <1>0, <1>5, <2>2 DEF Crash
    <3> QED BY <1>1, <3>1
  <2> QED BY <2>1, <2>2
<1>6. CASE UNCHANGED <<pc, disk>>
  BY <1>1, <1>6
<1>7. \/ UNCHANGED <<pc, disk>>
      \/ \E a \in Agents : \/ \E t \in Tokens : SendEnroll(a, t)
                           \/ ReceiveCert(a) \/ WriteFile(a) \/ Crash(a) \/ LoadIdentity(a)
  BY DEF Next, CreateToken, ExpireToken, BeginEnroll, AcceptToken, AbortEnroll, CommitEnroll,
         RestartController, vars, agentVars
<1> QED BY <1>2, <1>3, <1>4, <1>5, <1>6, <1>7

(* Only the end of the process while it writes one of the first three files   *)
(* strands an agent: no refusal, lost answer, crash of the controller, late   *)
(* request or end at any other time does; and what is stranded stays so.      *)
OnlyTornWritesStrand ==
    \A a \in Agents :
        /\ ~Stranded(a) /\ Stranded(a)' => pc[a] \in {"crt", "key", "shared"}
        /\ Stranded(a) => Stranded(a)'

LEMMA StrandedStep == IInv /\ WrittenInOrder /\ [Next]_vars => OnlyTornWritesStrand
<1> SUFFICES ASSUME IInv, WrittenInOrder, [Next]_vars, NEW b \in Agents
             PROVE  /\ ~Stranded(b) /\ Stranded(b)' => pc[b] \in {"crt", "key", "shared"}
                    /\ Stranded(b) => Stranded(b)'
  BY DEF OnlyTornWritesStrand
<1> DEFINE Goal == /\ ~Stranded(b) /\ Stranded(b)' => pc[b] \in {"crt", "key", "shared"}
                   /\ Stranded(b) => Stranded(b)'
<1> TypeOK /\ DiskInOrder /\ WrittenSoFar(b)
  BY DEF IInv, WrittenInOrder
<1>0. /\ pc \in [Agents -> {"down", "waiting", "running"} \cup Files]
      /\ disk \in [Agents -> [Files -> Ids \cup {None, Torn}]]
  BY DEF TypeOK
<1>1. ASSUME pc'[b] = pc[b], disk'[b] = disk[b] PROVE Goal
  BY <1>1 DEF Stranded, Enrolled, Loadable
<1>2. ASSUME NEW a \in Agents, WriteFile(a) PROVE Goal
  <2>1. pc[a] \in Files /\ NextAfter(pc[a]) # "down" /\ pc[a] # "down"
    BY <1>2 DEF WriteFile, NextAfter, Files
  <2>2. a = b => pc[b] # "down" /\ pc'[b] # "down"
    BY <1>0, <1>2, <2>1 DEF WriteFile
  <2>3. a # b => pc'[b] = pc[b] /\ disk'[b] = disk[b]
    BY <1>0, <1>2 DEF WriteFile
  <2> QED BY <1>1, <2>2, <2>3 DEF Stranded
<1>3. ASSUME NEW a \in Agents, NEW t \in Tokens, SendEnroll(a, t) PROVE Goal
  BY <1>0, <1>1, <1>3 DEF SendEnroll, Stranded
<1>4. ASSUME NEW a \in Agents, ReceiveCert(a) \/ LoadIdentity(a) PROVE Goal
  BY <1>0, <1>1, <1>4 DEF ReceiveCert, LoadIdentity, Stranded, Files
<1>5. ASSUME NEW a \in Agents, Crash(a) PROVE Goal
  <2>1. CASE a # b
    <3>1. pc'[b] = pc[b] /\ disk'[b] = disk[b]
      BY <1>0, <1>5, <2>1 DEF Crash
    <3> QED BY <1>1, <3>1
  <2>2. CASE a = b
    <3>1. pc[b] # "down" /\ pc[b] \in {"waiting", "running", "crt", "key", "shared", "identity"}
      BY <1>0, <1>5, <2>2 DEF Crash, Files
    <3>2. CASE pc[b] \in {"waiting", "running"}
      <4>1. disk'[b] = disk[b]
        BY <1>0, <1>5, <2>2, <3>2 DEF Crash, Files
      <4>2. ~Stranded(b)'
        BY <3>2, <4>1 DEF Stranded, Enrolled, Loadable, WrittenSoFar, DiskInOrder, InOrder
      <4> QED BY <3>1, <4>2 DEF Stranded
    <3>3. CASE pc[b] = "identity"
      <4>1. \A f \in {"crt", "key", "shared"} : disk'[b][f] = disk[b][f]
        BY <1>0, <1>5, <2>2, <3>3 DEF Crash, Files
      <4>2. ~Stranded(b)'
        BY <3>3, <4>1 DEF Stranded, Enrolled, Loadable, WrittenSoFar
      <4> QED BY <3>1, <4>2 DEF Stranded
    <3>4. CASE pc[b] \in {"crt", "key", "shared"}
      BY <3>4 DEF Stranded
    <3> QED BY <3>1, <3>2, <3>3, <3>4
  <2> QED BY <2>1, <2>2
<1>6. CASE UNCHANGED <<pc, disk>>
  BY <1>1, <1>6
<1>7. \/ UNCHANGED <<pc, disk>>
      \/ \E a \in Agents : \/ \E t \in Tokens : SendEnroll(a, t)
                           \/ ReceiveCert(a) \/ WriteFile(a) \/ Crash(a) \/ LoadIdentity(a)
  BY DEF Next, CreateToken, ExpireToken, BeginEnroll, AcceptToken, AbortEnroll, CommitEnroll,
         RestartController, vars, agentVars
<1> QED BY <1>2, <1>3, <1>4, <1>5, <1>6, <1>7

THEOREM OnlyTornWritesStrandHolds == Spec => [][OnlyTornWritesStrand]_vars
<1>1. Init => WrittenInOrder
  BY DEF Init, WrittenInOrder, WrittenSoFar
<1>2. Spec => []WrittenInOrder
  BY <1>1, WrittenStep, Invariant, PTL DEF Spec
<1>3. IInv /\ WrittenInOrder /\ [Next]_vars => [OnlyTornWritesStrand]_vars
  BY StrandedStep
<1> QED BY <1>2, <1>3, Invariant, PTL DEF Spec
=============================================================================
