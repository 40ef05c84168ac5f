------------------------ MODULE UpdateReports_proofs ------------------------
(* What UpdateReports promises for any number of hosts, references and       *)
(* digests, and any bounds.                                                  *)
EXTENDS UpdateReports, FiniteSetTheorems, TLAPS

(* Nothing remembered, nothing listed, no delta: one function serves all.    *)
LEMMA NoDeltasType ==
    /\ NoDeltas \in Body
    /\ NoDeltas \in [Refs -> Digests \cup {None}]
    /\ NoDeltas \in [Refs -> Delta \cup {None}]
    /\ \A r \in Refs : NoDeltas[r] = None
BY DEF NoDeltas, Body

(* A delta is a record, so it is never the value None of a missing one: what *)
(* a body carries for r is a delta.                                          *)
LEMMA CarriedIsDelta ==
    ASSUME NEW body \in Body, NEW r \in Refs, body[r] # None
    PROVE  body[r] \in Delta
BY DEF Body

(* Recording a report keeps the tables well typed.                           *)
LEMMA RecordType ==
    ASSUME TypeOK, NEW s \in Servers, NEW body \in Body, Record(s, body)
    PROVE  /\ images' \in [Refs -> Digests \cup {None}]
           /\ updates' \in [Servers -> [Refs -> Delta \cup {None}]]
<1>1. CASE Cardinality(Carried(body)) > MaxReport
  BY <1>1 DEF Record, TypeOK, controllerVars
<1>2. CASE ~(Cardinality(Carried(body)) > MaxReport)
  <2>1. \A r \in Refs : body[r] # None => body[r].from \in Digests /\ body[r].to \in Digests
    BY CarriedIsDelta DEF Delta
  <2>2. images' \in [Refs -> Digests \cup {None}]
    <3>1. images' = [r \in Refs |->
                        IF body[r] = None THEN images[r] ELSE UpsertImage(images[r], body[r].to)]
      BY <1>2 DEF Record
    <3>2. \A r \in Refs : body[r] # None =>
              UpsertImage(images[r], body[r].to) \in Digests \cup {None}
      BY <2>1 DEF UpsertImage, TypeOK
    <3> QED BY <3>1, <3>2 DEF TypeOK
  <2>3. \A r \in Refs : body[r] # None => UpsertUpdate(updates[s][r], body[r]) \in Delta
    BY <2>1 DEF UpsertUpdate, Delta, TypeOK
  <2> DEFINE rows == [r \in Refs |-> IF body[r] = None THEN updates[s][r]
                                     ELSE UpsertUpdate(updates[s][r], body[r])]
  <2>5. rows \in [Refs -> Delta \cup {None}]
    BY <2>3 DEF TypeOK
  <2>6. updates' = [updates EXCEPT ![s] = rows]
    BY <1>2 DEF Record
  <2> HIDE DEF rows
  <2>4. updates' \in [Servers -> [Refs -> Delta \cup {None}]]
    BY <2>5, <2>6 DEF TypeOK
  <2> QED BY <2>2, <2>4
<1> QED BY <1>1, <1>2

(* A poll only asks about references it listed, so a delta always starts at  *)
(* a digest. TypeOK needs this to be inductive.                              *)
TodoIsListed == \A s \in Servers : \A r \in todo[s] : listed[s][r] # None
TypeInv == TypeOK /\ TodoIsListed

(* A request given up by its agent is still a well-typed request.            *)
LEMMA GiveUpType ==
    ASSUME TypeOK, NEW s \in Servers, GiveUp(s)
    PROVE  late' \subseteq [server : Servers, body : Body]
BY DEF GiveUp, TypeOK

(* Type correctness: TypeInv is inductive.                                   *)
LEMMA TypeStep == TypeInv /\ [Next]_vars => TypeInv'
<1> SUFFICES ASSUME TypeInv, [Next]_vars PROVE TypeInv'
  OBVIOUS
<1> TypeOK /\ TodoIsListed
  BY DEF TypeInv
<1> USE NoDeltasType, NoneAssumption, BoundsAssumption DEF TypeInv
<1>1. ASSUME NEW r \in Refs, NEW d \in Digests, Push(r, d) PROVE TypeInv'
  BY <1>1 DEF Push, TypeOK, TodoIsListed, agentVars, controllerVars
<1>2. ASSUME NEW s \in Servers, NEW r \in Refs, NEW d \in Digests \cup {None}, Recreate(s, r, d)
      PROVE TypeInv'
  BY <1>2 DEF Recreate, TypeOK, TodoIsListed, agentVars, registryVars, controllerVars
<1>3. ASSUME NEW s \in Servers, StartPoll(s) PROVE TypeInv'
  BY <1>3 DEF StartPoll, Watched, TypeOK, TodoIsListed, registryVars, controllerVars
<1>4. ASSUME NEW s \in Servers, NEW r \in Refs, SkipRef(s, r) PROVE TypeInv'
  BY <1>4 DEF SkipRef, TypeOK, TodoIsListed, registryVars, controllerVars
<1>5. ASSUME NEW s \in Servers, NEW r \in Refs, CheckRef(s, r) PROVE TypeInv'
  <2>1. listed[s][r] \in Digests
    BY <1>5 DEF CheckRef, TypeOK, TodoIsListed
  <2>2. NewDelta(s, r) \in Delta
    BY <2>1 DEF NewDelta, Delta, TypeOK
  <2>3. /\ batch' \in [Servers -> Body]
        /\ lastReported' \in [Servers -> [Refs -> Digests \cup {None}]]
        /\ reported' \in [Servers -> [Refs -> Nat]]
    <3>1. CASE NothingNew(s, r)
      BY <1>5, <3>1 DEF CheckRef, TypeOK
    <3>2. CASE ~NothingNew(s, r)
      <4>1. MarkReported(s, r)
        BY <1>5, <3>2 DEF CheckRef
      <4> DEFINE mine == [batch[s] EXCEPT ![r] = NewDelta(s, r)]
      <4>2. mine \in Body
        BY <2>2 DEF Body, TypeOK
      <4>3. batch' = [batch EXCEPT ![s] = mine]
        BY <4>1 DEF MarkReported
      <4>4. batch' \in [Servers -> Body]
        BY <4>2, <4>3 DEF TypeOK
      <4>5. remote[r] \in Digests
        BY DEF TypeOK
      <4>6. lastReported' \in [Servers -> [Refs -> Digests \cup {None}]]
        BY <4>1, <4>5 DEF MarkReported, TypeOK
      <4>7. reported' \in [Servers -> [Refs -> Nat]]
        BY <4>1 DEF MarkReported, TypeOK
      <4> QED BY <4>4, <4>6, <4>7
    <3> QED BY <3>1, <3>2
  <2>4. todo' \in [Servers -> SUBSET Refs]
    BY <1>5 DEF CheckRef, TypeOK
  <2>5. TodoIsListed'
    BY <1>5 DEF CheckRef, TypeOK, TodoIsListed
  <2> QED
    BY <1>5, <2>3, <2>4, <2>5 DEF CheckRef, TypeOK, registryVars, controllerVars
<1>6. ASSUME NEW s \in Servers, FinishPoll(s) PROVE TypeInv'
  BY <1>6 DEF FinishPoll, TypeOK, TodoIsListed, registryVars, controllerVars
<1>7. ASSUME NEW s \in Servers, ReceiveAnswer(s) PROVE TypeInv'
  BY <1>7 DEF ReceiveAnswer, TypeOK, TodoIsListed, registryVars, controllerVars
<1>8. ASSUME NEW s \in Servers, ReportFails(s) PROVE TypeInv'
  BY <1>8, GiveUpType DEF ReportFails, TypeOK, TodoIsListed, registryVars, controllerVars
<1>9. ASSUME NEW s \in Servers, Restart(s) PROVE TypeInv'
  BY <1>9, GiveUpType DEF Restart, TypeOK, TodoIsListed, registryVars, controllerVars
<1>10. ASSUME NEW s \in Servers, HandleUpdatesReport(s) PROVE TypeInv'
  <2>1. batch[s] \in Body
    BY DEF TypeOK
  <2> QED BY <1>10, <2>1, RecordType
          DEF HandleUpdatesReport, TypeOK, TodoIsListed, registryVars
<1>11. ASSUME NEW m \in late, HandleLateReport(m) PROVE TypeInv'
  <2>1. m.server \in Servers /\ m.body \in Body
    BY DEF TypeOK
  <2> QED BY <1>11, <2>1, RecordType
          DEF HandleLateReport, TypeOK, TodoIsListed, registryVars, agentVars
<1>12. ASSUME NEW m \in late, CancelLateReport(m) PROVE TypeInv'
  BY <1>12 DEF CancelLateReport, TypeOK, TodoIsListed, registryVars, agentVars, controllerVars
<1>13. CASE UNCHANGED vars
  BY <1>13 DEF vars, TypeOK, TodoIsListed, registryVars, agentVars, controllerVars
<1> QED
  BY <1>1, <1>2, <1>3, <1>4, <1>5, <1>6, <1>7, <1>8, <1>9, <1>10, <1>11, <1>12, <1>13
  DEF Next, WorldStep, AgentStep

LEMMA TypeInit == Init => TypeInv
BY NoDeltasType, BoundsAssumption DEF Init, TypeInv, TypeOK, TodoIsListed

LEMMA TypeInvariant == Spec => []TypeInv
BY TypeInit, TypeStep, PTL DEF Spec

(* Every variable keeps its type in every reachable state, whatever the      *)
(* registry, the hosts, the network and the processes do.                    *)
THEOREM TypeCorrect == Spec => []TypeOK
<1>1. TypeInv => TypeOK
  BY DEF TypeInv
<1> QED BY <1>1, TypeInvariant, PTL

-----------------------------------------------------------------------------
(* Quiet registries. An agent may report a reference once per start and once *)
(* per move of the tag; while what it remembers is not what the registry     *)
(* serves, one of these reports is still unused.                             *)
QuietInv ==
    \A s \in Servers, r \in Refs :
        /\ reported[s][r] <= starts[s] + moves[r]
        /\ lastReported[s][r] # remote[r] => reported[s][r] < starts[s] + moves[r]

LEMMA QuietInit == Init => QuietInv
BY NoDeltasType, NoneAssumption DEF Init, QuietInv

LEMMA QuietStep == TypeInv /\ QuietInv /\ [Next]_vars => QuietInv'
<1> SUFFICES ASSUME TypeInv, QuietInv, [Next]_vars,
                    NEW t \in Servers, NEW q \in Refs
             PROVE  /\ reported'[t][q] <= starts'[t] + moves'[q]
                    /\ lastReported'[t][q] # remote'[q] =>
                          reported'[t][q] < starts'[t] + moves'[q]
  BY DEF QuietInv
<1>0. /\ reported[t][q] \in Nat /\ starts[t] \in Nat /\ moves[q] \in Nat
      /\ reported[t][q] <= starts[t] + moves[q]
      /\ lastReported[t][q] # remote[q] => reported[t][q] < starts[t] + moves[q]
  BY BoundsAssumption DEF QuietInv, TypeInv, TypeOK
<1>1. ASSUME NEW r \in Refs, NEW d \in Digests, Push(r, d)
      PROVE  /\ reported'[t][q] <= starts'[t] + moves'[q]
             /\ lastReported'[t][q] # remote'[q] => reported'[t][q] < starts'[t] + moves'[q]
  BY <1>0, <1>1 DEF Push, agentVars, TypeInv, TypeOK
<1>2. ASSUME NEW s \in Servers, NEW r \in Refs, CheckRef(s, r)
      PROVE  /\ reported'[t][q] <= starts'[t] + moves'[q]
             /\ lastReported'[t][q] # remote'[q] => reported'[t][q] < starts'[t] + moves'[q]
  <2>1. CASE NothingNew(s, r)
    BY <1>0, <1>2, <2>1 DEF CheckRef, registryVars
  <2>2. CASE ~NothingNew(s, r)
    <3>1. MarkReported(s, r) /\ remote[r] # lastReported[s][r] /\ UNCHANGED <<remote, moves, starts>>
      BY <1>2, <2>2 DEF CheckRef, NothingNew, registryVars
    <3>2. CASE s = t /\ r = q
      <4>1. lastReported'[t][q] = remote[q] /\ reported'[t][q] = reported[t][q] + 1
        BY <3>1, <3>2 DEF MarkReported, TypeInv, TypeOK
      <4> QED BY <1>0, <3>1, <3>2, <4>1
    <3>3. CASE ~(s = t /\ r = q)
      <4>1. lastReported'[t][q] = lastReported[t][q] /\ reported'[t][q] = reported[t][q]
        BY <3>1, <3>3 DEF MarkReported, TypeInv, TypeOK
      <4> QED BY <1>0, <3>1, <4>1
    <3> QED BY <3>2, <3>3
  <2> QED BY <2>1, <2>2
<1>3. ASSUME NEW s \in Servers, Restart(s)
      PROVE  /\ reported'[t][q] <= starts'[t] + moves'[q]
             /\ lastReported'[t][q] # remote'[q] => reported'[t][q] < starts'[t] + moves'[q]
  <2>1. CASE s = t
    <3>1. starts'[t] = starts[t] + 1 /\ UNCHANGED <<reported, moves>>
      BY <1>3, <2>1 DEF Restart, registryVars, TypeInv, TypeOK
    <3> QED BY <1>0, <3>1
  <2>2. CASE s # t
    <3>1. /\ starts'[t] = starts[t] /\ lastReported'[t] = lastReported[t]
          /\ UNCHANGED <<reported, moves, remote>>
      BY <1>3, <2>2 DEF Restart, registryVars, TypeInv, TypeOK
    <3> QED BY <1>0, <3>1
  <2> QED BY <2>1, <2>2
<1>4. CASE UNCHANGED <<remote, moves, lastReported, starts, reported>>
  BY <1>0, <1>4
<1>5. \/ UNCHANGED <<remote, moves, lastReported, starts, reported>>
      \/ \E r \in Refs, d \in Digests : Push(r, d)
      \/ \E s \in Servers, r \in Refs : CheckRef(s, r)
      \/ \E s \in Servers : Restart(s)
  BY DEF Next, WorldStep, AgentStep, Recreate, StartPoll, SkipRef, FinishPoll, ReceiveAnswer,
         ReportFails, HandleUpdatesReport, HandleLateReport, CancelLateReport,
         vars, registryVars, agentVars
<1> QED BY <1>1, <1>2, <1>3, <1>4, <1>5

(* The number of reports about an image is bounded by the starts of the      *)
(* agent and the moves of the tag, never by the number of polls.             *)
THEOREM QuietRegistryHolds == Spec => []QuietRegistry
<1>1. QuietInv => QuietRegistry
  BY DEF QuietInv, QuietRegistry
<1> QED BY <1>1, QuietInit, QuietStep, TypeInvariant, PTL DEF Spec

-----------------------------------------------------------------------------
(* The tables stay together: recording a report, in time or late, leaves     *)
(* every image digest with a row that points at it.                          *)
LEMMA RecordKeepsRow ==
    ASSUME TypeInv, ImageHasRow, NEW s \in Servers, NEW body \in Body, Record(s, body)
    PROVE  ImageHasRow'
<1>1. CASE Cardinality(Carried(body)) > MaxReport
  BY <1>1 DEF Record, ImageHasRow, controllerVars
<1>2. CASE ~(Cardinality(Carried(body)) > MaxReport)
  <2> SUFFICES ASSUME NEW r \in Refs
               PROVE  /\ images'[r] # None =>
                           \E t \in Servers : updates'[t][r] # None /\ updates'[t][r].to = images'[r]
                      /\ images'[r] = None => \A t \in Servers : updates'[t][r] = None
    BY DEF ImageHasRow
  <2>0. /\ images'[r] = IF body[r] = None THEN images[r] ELSE UpsertImage(images[r], body[r].to)
        /\ \A t \in Servers \ {s} : updates'[t][r] = updates[t][r]
        /\ updates'[s][r] = IF body[r] = None THEN updates[s][r]
                            ELSE UpsertUpdate(updates[s][r], body[r])
    BY <1>2 DEF Record, TypeInv, TypeOK
  <2>1. CASE body[r] = None
    <3>1. images'[r] = images[r] /\ \A t \in Servers : updates'[t][r] = updates[t][r]
      BY <2>0, <2>1
    <3> QED BY <3>1 DEF ImageHasRow
  <2>2. CASE body[r] # None
    <3>1. body[r].from \in Digests /\ body[r].to \in Digests
      BY <2>2, CarriedIsDelta DEF Delta
    <3>2. images'[r] = body[r].to /\ images'[r] # None
      BY <2>0, <2>2, <3>1, NoneAssumption DEF UpsertImage
    <3>3. updates'[s][r] \in Delta /\ updates'[s][r].to = body[r].to
      BY <2>0, <2>2, <3>1 DEF UpsertUpdate, Delta, TypeInv, TypeOK
    <3>4. updates'[s][r] # None
      BY <3>3, NoneAssumption DEF Delta
    <3> QED BY <3>2, <3>3, <3>4
  <2> QED BY <2>1, <2>2
<1> QED BY <1>1, <1>2

LEMMA ImageInit == Init => ImageHasRow
BY NoDeltasType DEF Init, ImageHasRow

LEMMA ImageStep == TypeInv /\ ImageHasRow /\ [Next]_vars => ImageHasRow'
<1> SUFFICES ASSUME TypeInv, ImageHasRow, [Next]_vars PROVE ImageHasRow'
  OBVIOUS
<1>1. ASSUME NEW s \in Servers, HandleUpdatesReport(s) PROVE ImageHasRow'
  <2>1. batch[s] \in Body /\ Record(s, batch[s])
    BY <1>1 DEF HandleUpdatesReport, TypeInv, TypeOK
  <2> QED BY <2>1, RecordKeepsRow
<1>2. ASSUME NEW m \in late, HandleLateReport(m) PROVE ImageHasRow'
  <2>1. m.server \in Servers /\ m.body \in Body /\ Record(m.server, m.body)
    BY <1>2 DEF HandleLateReport, TypeInv, TypeOK
  <2> QED BY <2>1, RecordKeepsRow
<1>3. CASE UNCHANGED controllerVars
  BY <1>3 DEF ImageHasRow, controllerVars
<1>4. \/ UNCHANGED controllerVars
      \/ \E s \in Servers : HandleUpdatesReport(s)
      \/ \E m \in late : HandleLateReport(m)
  BY DEF Next, WorldStep, AgentStep, Push, Recreate, StartPoll, SkipRef, CheckRef, FinishPoll,
         ReceiveAnswer, ReportFails, Restart, CancelLateReport, vars
<1> QED BY <1>1, <1>2, <1>3, <1>4

(* Whoever reported last, the image digest the controller shows is backed by *)
(* an update row, for any number of hosts and any delay of their requests.   *)
THEOREM ImageHasRowHolds == Spec => []ImageHasRow
BY ImageInit, ImageStep, TypeInvariant, PTL DEF Spec

-----------------------------------------------------------------------------
(* What lastReported promises when no report is ever lost or refused: what   *)
(* the agent remembers is in its request while that is under way, and in the *)
(* controller's row otherwise.                                               *)
Pending(s, r) == pc[s] \in {"resolving", "sending"} /\ batch[s][r] # None

Recorded(s, r) == updates[s][r] # None /\ updates[s][r].to = lastReported[s][r]

ReportedInv ==
    /\ late = {}
    /\ \A s \in Servers : pc[s] = "idle" => batch[s] = NoDeltas
    /\ \A s \in Servers, r \in Refs :
          /\ Pending(s, r) => batch[s][r].to = lastReported[s][r]
          /\ lastReported[s][r] # None /\ ~Pending(s, r) => Recorded(s, r)

(* A body names each reference once, so it fits when MaxReport is no less    *)
(* than the number of references.                                            *)
LEMMA BodyFits ==
    ASSUME IsFiniteSet(Refs), MaxReport \in Nat, Cardinality(Refs) <= MaxReport, NEW body
    PROVE  ~(Cardinality(Carried(body)) > MaxReport)
<1>1. Carried(body) \subseteq Refs
  BY DEF Carried
<1>2. /\ IsFiniteSet(Carried(body))
      /\ Cardinality(Carried(body)) <= Cardinality(Refs)
  BY <1>1, FS_Subset
<1>3. Cardinality(Carried(body)) \in Nat /\ Cardinality(Refs) \in Nat
  BY <1>2, FS_CardinalityType
<1> QED BY <1>2, <1>3

LEMMA ReportedInit == Init => ReportedInv
BY NoDeltasType DEF Init, ReportedInv, Pending

LEMMA ReportedStep ==
    ASSUME ~Faults, IsFiniteSet(Refs), MaxReport \in Nat, Cardinality(Refs) <= MaxReport
    PROVE  TypeInv /\ ReportedInv /\ [Next]_vars => ReportedInv'
<1> SUFFICES ASSUME TypeInv, ReportedInv, [Next]_vars PROVE ReportedInv'
  OBVIOUS
<1> USE DEF ReportedInv, Pending, Recorded
<1>1. ASSUME NEW s \in Servers, StartPoll(s) PROVE ReportedInv'
  BY <1>1, NoDeltasType DEF StartPoll, TypeInv, TypeOK, registryVars, controllerVars
<1>2. ASSUME NEW s \in Servers, NEW r \in Refs, CheckRef(s, r) PROVE ReportedInv'
  <2>1. CASE NothingNew(s, r)
    BY <1>2, <2>1 DEF CheckRef, controllerVars
  <2>2. CASE ~NothingNew(s, r)
    <3>1. MarkReported(s, r) /\ pc[s] = "resolving" /\ UNCHANGED <<pc, late, updates>>
      BY <1>2, <2>2 DEF CheckRef, controllerVars
    <3>2. /\ batch' = [batch EXCEPT ![s][r] = NewDelta(s, r)]
          /\ lastReported' = [lastReported EXCEPT ![s][r] = remote[r]]
      BY <3>1 DEF MarkReported
    <3>3. NewDelta(s, r) \in Delta /\ NewDelta(s, r).to = remote[r]
      BY <1>2 DEF CheckRef, NewDelta, Delta, TypeInv, TypeOK, TodoIsListed
    <3>4. NewDelta(s, r) # None
      BY <3>3, NoneAssumption DEF Delta
    <3>5. \A t \in Servers : t # s => batch'[t] = batch[t] /\ lastReported'[t] = lastReported[t]
      BY <3>2 DEF TypeInv, TypeOK
    <3>6. \A q \in Refs : q # r => batch'[s][q] = batch[s][q] /\ lastReported'[s][q] = lastReported[s][q]
      BY <3>2 DEF TypeInv, TypeOK, Body
    <3>7. batch'[s][r] = NewDelta(s, r) /\ lastReported'[s][r] = remote[r]
      BY <3>2 DEF TypeInv, TypeOK, Body
    <3>8. \A t \in Servers, q \in Refs :
             /\ Pending(t, q)' => batch'[t][q].to = lastReported'[t][q]
             /\ lastReported'[t][q] # None /\ ~Pending(t, q)' => Recorded(t, q)'
      BY <3>1, <3>3, <3>4, <3>5, <3>6, <3>7
    <3> QED BY <3>1, <3>5, <3>8
  <2> QED BY <2>1, <2>2
<1>3. ASSUME NEW s \in Servers, FinishPoll(s) PROVE ReportedInv'
  BY <1>3, NoDeltasType DEF FinishPoll, TypeInv, TypeOK, registryVars, controllerVars
<1>4. ASSUME NEW s \in Servers, ReceiveAnswer(s) PROVE ReportedInv'
  BY <1>4, NoDeltasType DEF ReceiveAnswer, TypeInv, TypeOK, registryVars, controllerVars
<1>5. ASSUME NEW s \in Servers, ReportFails(s) PROVE ReportedInv'
  BY <1>5 DEF ReportFails
<1>6. ASSUME NEW s \in Servers, Restart(s) PROVE ReportedInv'
  BY <1>6, NoDeltasType DEF Restart, GiveUp, TypeInv, TypeOK, registryVars, controllerVars
<1>7. ASSUME NEW s \in Servers, HandleUpdatesReport(s) PROVE ReportedInv'
  <2>1. /\ pc[s] = "sending" /\ batch[s] \in Body
        /\ pc' = [pc EXCEPT ![s] = "answered"]
        /\ UNCHANGED <<batch, lastReported, late>>
    BY <1>7 DEF HandleUpdatesReport, TypeInv, TypeOK
  <2>2. /\ \A t \in Servers \ {s} : updates'[t] = updates[t]
        /\ \A r \in Refs : updates'[s][r] = IF batch[s][r] = None THEN updates[s][r]
                                            ELSE UpsertUpdate(updates[s][r], batch[s][r])
    BY <1>7, BodyFits DEF HandleUpdatesReport, Record, TypeInv, TypeOK
  <2>3. \A r \in Refs : batch[s][r] # None =>
            updates'[s][r] # None /\ updates'[s][r].to = lastReported[s][r]
    <3> SUFFICES ASSUME NEW r \in Refs, batch[s][r] # None
                 PROVE  updates'[s][r] # None /\ updates'[s][r].to = lastReported[s][r]
      OBVIOUS
    <3>1. batch[s][r] \in Delta /\ batch[s][r].to = lastReported[s][r]
      BY <2>1, CarriedIsDelta
    <3>3. updates[s][r] \in Delta \cup {None}
      BY DEF TypeInv, TypeOK
    <3>4. /\ UpsertUpdate(updates[s][r], batch[s][r]) \in Delta
          /\ UpsertUpdate(updates[s][r], batch[s][r]).to = batch[s][r].to
      BY <3>1, <3>3 DEF UpsertUpdate, Delta
    <3>2. updates'[s][r] \in Delta /\ updates'[s][r].to = batch[s][r].to
      BY <2>2, <3>1, <3>4
    <3> QED BY <3>1, <3>2, NoneAssumption DEF Delta
  <2>4. \A r \in Refs : batch[s][r] = None => updates'[s][r] = updates[s][r]
    BY <2>2
  <2>5. pc'[s] = "answered" /\ \A t \in Servers \ {s} : pc'[t] = pc[t]
    BY <2>1 DEF TypeInv, TypeOK
  <2> QED BY <2>1, <2>2, <2>3, <2>4, <2>5
<1>8. ASSUME NEW m \in late, HandleLateReport(m) \/ CancelLateReport(m) PROVE ReportedInv'
  BY <1>8
<1>9. CASE UNCHANGED <<pc, batch, lastReported, late, updates>>
  BY <1>9
<1>10. \/ UNCHANGED <<pc, batch, lastReported, late, updates>>
       \/ \E s \in Servers : \/ StartPoll(s)
                             \/ \E r \in Refs : CheckRef(s, r)
                             \/ FinishPoll(s) \/ ReceiveAnswer(s) \/ ReportFails(s)
                             \/ Restart(s) \/ HandleUpdatesReport(s)
       \/ \E m \in late : HandleLateReport(m) \/ CancelLateReport(m)
  BY DEF Next, WorldStep, AgentStep, Push, Recreate, SkipRef, vars, agentVars, controllerVars,
         registryVars
<1> QED BY <1>1, <1>2, <1>3, <1>4, <1>5, <1>6, <1>7, <1>8, <1>9, <1>10

(* lastReported tells the truth only when every report arrives in time and   *)
(* fits: under exactly these assumptions an idle agent remembers nothing the *)
(* controller has not recorded, restarts of the agent included.              *)
THEOREM ReportedIsRecordedHolds ==
    ASSUME ~Faults, IsFiniteSet(Refs), MaxReport \in Nat, Cardinality(Refs) <= MaxReport
    PROVE  Spec => []ReportedIsRecorded
<1>1. ReportedInv => ReportedIsRecorded
  BY DEF ReportedInv, ReportedIsRecorded, Pending, Recorded
<1>2. TypeInv /\ ReportedInv /\ [Next]_vars => ReportedInv'
  BY ReportedStep
<1> QED BY <1>1, <1>2, ReportedInit, TypeInvariant, PTL DEF Spec

-----------------------------------------------------------------------------
(* Recording a report keeps every row and its from_digest, and changes only  *)
(* rows of the server and the references it names.                           *)
LEMMA RecordMovesForward ==
    ASSUME TypeOK, NEW s \in Servers, NEW body \in Body, Record(s, body)
    PROVE  \A t \in Servers, r \in Refs :
              /\ updates[t][r] # None =>
                    updates'[t][r] # None /\ updates'[t][r].from = updates[t][r].from
              /\ updates'[t][r] # updates[t][r] => t = s /\ body[r] # None
<1>1. CASE Cardinality(Carried(body)) > MaxReport
  BY <1>1 DEF Record, controllerVars
<1>2. CASE ~(Cardinality(Carried(body)) > MaxReport)
  <2> SUFFICES ASSUME NEW t \in Servers, NEW r \in Refs
               PROVE  /\ updates[t][r] # None =>
                            updates'[t][r] # None /\ updates'[t][r].from = updates[t][r].from
                      /\ updates'[t][r] # updates[t][r] => t = s /\ body[r] # None
    OBVIOUS
  <2>1. updates'[t][r] = IF t # s \/ body[r] = None THEN updates[t][r]
                         ELSE UpsertUpdate(updates[t][r], body[r])
    BY <1>2 DEF Record, TypeOK
  <2>2. CASE t # s \/ body[r] = None
    BY <2>1, <2>2
  <2>3. CASE t = s /\ body[r] # None
    <3>1. body[r] \in Delta
      BY <2>3, CarriedIsDelta
    <3>2. updates[t][r] \in Delta \cup {None}
      BY DEF TypeOK
    <3>3. updates'[t][r] = UpsertUpdate(updates[t][r], body[r])
      BY <2>1, <2>3
    <3>4. updates'[t][r] \in Delta
      BY <3>1, <3>2, <3>3 DEF UpsertUpdate, Delta
    <3>5. updates[t][r] # None => updates'[t][r].from = updates[t][r].from
      BY <3>3 DEF UpsertUpdate
    <3>6. updates'[t][r] # None
      BY <3>4, NoneAssumption DEF Delta
    <3> QED BY <2>3, <3>5, <3>6
  <2> QED BY <2>2, <2>3
<1> QED BY <1>1, <1>2

LEMMA MovesForwardStep == TypeInv /\ [Next]_vars => MovesForward
<1> SUFFICES ASSUME TypeInv, [Next]_vars PROVE MovesForward
  OBVIOUS
<1>1. ASSUME NEW s \in Servers, HandleUpdatesReport(s) PROVE MovesForward
  <2>1. pc[s] = "sending" /\ batch[s] \in Body /\ Record(s, batch[s])
    BY <1>1 DEF HandleUpdatesReport, TypeInv, TypeOK
  <2> QED BY <2>1, RecordMovesForward DEF MovesForward, TypeInv
<1>2. ASSUME NEW m \in late, HandleLateReport(m) PROVE MovesForward
  <2>1. m.server \in Servers /\ m.body \in Body /\ Record(m.server, m.body)
    BY <1>2 DEF HandleLateReport, TypeInv, TypeOK
  <2> QED BY <2>1, RecordMovesForward DEF MovesForward, TypeInv
<1>3. CASE UNCHANGED controllerVars
  BY <1>3 DEF MovesForward, controllerVars
<1>4. \/ UNCHANGED controllerVars
      \/ \E s \in Servers : HandleUpdatesReport(s)
      \/ \E m \in late : HandleLateReport(m)
  BY DEF Next, WorldStep, AgentStep, Push, Recreate, StartPoll, SkipRef, CheckRef, FinishPoll,
         ReceiveAnswer, ReportFails, Restart, CancelLateReport, vars
<1> QED BY <1>1, <1>2, <1>3, <1>4

(* No report, late or repeated, ever loses a row, rewrites where an update   *)
(* came from, or reaches into another host's rows.                           *)
THEOREM RowsOnlyMoveForwardHolds == Spec => RowsOnlyMoveForward
<1>1. TypeInv /\ [Next]_vars => [MovesForward]_vars
  BY MovesForwardStep
<1> QED BY <1>1, TypeInvariant, PTL DEF Spec, RowsOnlyMoveForward

-----------------------------------------------------------------------------
(* What an agent remembers without the controller: with failures, too, the    *)
(* request of an agent carries exactly what it has come to remember since.    *)
BatchInv ==
    \A s \in Servers, r \in Refs : batch[s][r] # None => batch[s][r].to = lastReported[s][r]

LEMMA BatchInit == Init => BatchInv
BY NoDeltasType DEF Init, BatchInv

(* CheckRef with a new digest adds it to the request as it remembers it.      *)
LEMMA MarkedIsInBatch ==
    ASSUME TypeInv, NEW s \in Servers, NEW r \in Refs, CheckRef(s, r), ~NothingNew(s, r)
    PROVE  /\ batch'[s][r] # None /\ batch'[s][r].to = lastReported'[s][r]
           /\ \A t \in Servers, q \in Refs : t # s \/ q # r =>
                 batch'[t][q] = batch[t][q] /\ lastReported'[t][q] = lastReported[t][q]
           /\ pc[s] = "resolving" /\ UNCHANGED <<pc, updates>>
<1>1. MarkReported(s, r) /\ pc[s] = "resolving" /\ UNCHANGED <<pc, updates>>
  BY DEF CheckRef, controllerVars
<1>2. NewDelta(s, r) \in Delta /\ NewDelta(s, r).to = remote[r]
  BY DEF CheckRef, NewDelta, Delta, TypeInv, TypeOK, TodoIsListed
<1>3. NewDelta(s, r) # None
  BY <1>2, NoneAssumption DEF Delta
<1>4. batch \in [Servers -> [Refs -> Delta \cup {None}]] /\ lastReported \in [Servers -> [Refs -> Digests \cup {None}]]
  BY DEF TypeInv, TypeOK, Body
<1> QED
  BY <1>1, <1>2, <1>3, <1>4 DEF MarkReported

LEMMA BatchStep == TypeInv /\ BatchInv /\ [Next]_vars => BatchInv'
<1> SUFFICES ASSUME TypeInv, BatchInv, [Next]_vars PROVE BatchInv'
  OBVIOUS
<1>1. ASSUME NEW s \in Servers, NEW r \in Refs, CheckRef(s, r), ~NothingNew(s, r) PROVE BatchInv'
  BY <1>1, MarkedIsInBatch DEF BatchInv
<1>2. ASSUME NEW s \in Servers, batch' = [batch EXCEPT ![s] = NoDeltas],
             \A t \in Servers \ {s} : lastReported'[t] = lastReported[t]
      PROVE  BatchInv'
  BY <1>2, NoDeltasType DEF BatchInv, TypeInv, TypeOK
<1>3. CASE UNCHANGED <<batch, lastReported>>
  BY <1>3 DEF BatchInv
<1>4. ASSUME NEW s \in Servers, Restart(s) PROVE BatchInv'
  <2>1. \A t \in Servers \ {s} : lastReported'[t] = lastReported[t]
    BY <1>4 DEF Restart, TypeInv, TypeOK
  <2> QED BY <1>2, <1>4, <2>1 DEF Restart
<1>5. ASSUME NEW s \in Servers, ReceiveAnswer(s) \/ ReportFails(s) PROVE BatchInv'
  BY <1>2, <1>5 DEF ReceiveAnswer, ReportFails
<1>6. \/ UNCHANGED <<batch, lastReported>>
      \/ \E s \in Servers : \/ \E r \in Refs : CheckRef(s, r) /\ ~NothingNew(s, r)
                            \/ ReceiveAnswer(s) \/ ReportFails(s) \/ Restart(s)
  BY DEF Next, WorldStep, AgentStep, Push, Recreate, StartPoll, SkipRef, CheckRef, FinishPoll,
         HandleUpdatesReport, HandleLateReport, CancelLateReport, vars, agentVars
<1> QED BY <1>1, <1>3, <1>4, <1>5, <1>6

LEMMA ForgottenStep == TypeInv /\ BatchInv /\ [Next]_vars => ForgottenByFailure
<1> SUFFICES ASSUME TypeInv, BatchInv, [Next]_vars,
                    NEW t \in Servers, NEW q \in Refs, Told(t, q), ~Told(t, q)'
             PROVE  \/ pc[t] = "sending" /\ pc'[t] = "idle"
                    \/ pc[t] = "sending" /\ Cardinality(Carried(batch[t])) > MaxReport
                    \/ \E m \in late \ late' : m.server = t /\ m.body[q] # None
  BY DEF ForgottenByFailure
<1> DEFINE Goal == \/ pc[t] = "sending" /\ pc'[t] = "idle"
                   \/ pc[t] = "sending" /\ Cardinality(Carried(batch[t])) > MaxReport
                   \/ \E m \in late \ late' : m.server = t /\ m.body[q] # None
(* Told looks at one host's goroutine, memory, request and row.              *)
<1>1. ~(/\ pc'[t] = pc[t] /\ batch'[t][q] = batch[t][q]
        /\ lastReported'[t][q] = lastReported[t][q] /\ updates'[t][q] = updates[t][q])
  BY DEF Told
<1>2. /\ pc \in [Servers -> {"idle", "resolving", "sending", "answered"}]
      /\ batch \in [Servers -> Body] /\ lastReported \in [Servers -> [Refs -> Digests \cup {None}]]
      /\ updates \in [Servers -> [Refs -> Delta \cup {None}]]
  BY DEF TypeInv, TypeOK
(* The steps of another agent touch none of it.                              *)
<1>3. ASSUME NEW s \in Servers, AgentStep(s) PROVE s = t
  <2>1. CASE \E r \in Refs : CheckRef(s, r) /\ ~NothingNew(s, r)
    BY <1>1, <2>1, MarkedIsInBatch
  <2>2. CASE \A r \in Refs : CheckRef(s, r) => NothingNew(s, r)
    BY <1>1, <1>2, <1>3, <2>2 DEF AgentStep, StartPoll, SkipRef, CheckRef, FinishPoll, ReceiveAnswer,
       ReportFails, Restart, controllerVars
  <2> QED BY <2>1, <2>2
<1>4. CASE AgentStep(t)
  <2>1. CASE \E r \in Refs : CheckRef(t, r) /\ ~NothingNew(t, r)
    <3>1. PICK r \in Refs : CheckRef(t, r) /\ ~NothingNew(t, r)
      BY <2>1
    <3>2. r = q
      BY <1>1, <3>1, MarkedIsInBatch
    <3> QED BY <3>1, <3>2, MarkedIsInBatch DEF Told
  <2>2. CASE \E r \in Refs : SkipRef(t, r) \/ (CheckRef(t, r) /\ NothingNew(t, r))
    BY <1>1, <2>2 DEF SkipRef, CheckRef, controllerVars
  <2>3. CASE StartPoll(t) \/ FinishPoll(t) \/ ReceiveAnswer(t)
    BY <1>2, <2>3, NoDeltasType DEF Told, StartPoll, FinishPoll, ReceiveAnswer, controllerVars
  <2>4. CASE ReportFails(t)
    BY <1>2, <2>4 DEF Told, ReportFails, controllerVars
  <2>5. CASE Restart(t)
    BY <1>2, <2>5, NoDeltasType DEF Told, Restart
  <2> QED BY <1>4, <2>1, <2>2, <2>3, <2>4, <2>5 DEF AgentStep
(* A report in time records what it carries, unless it carries too much.     *)
<1>5. ASSUME NEW s \in Servers, HandleUpdatesReport(s) PROVE Goal
  <2>1. /\ pc[s] = "sending" /\ pc' = [pc EXCEPT ![s] = "answered"] /\ Record(s, batch[s])
        /\ UNCHANGED <<batch, lastReported>>
    BY <1>5 DEF HandleUpdatesReport
  <2>2. CASE Cardinality(Carried(batch[s])) > MaxReport
    <3>1. updates' = updates
      BY <2>1, <2>2 DEF Record, controllerVars
    <3>2. s = t
      BY <1>1, <1>2, <2>1, <3>1
    <3> QED BY <2>1, <2>2, <3>2
  <2>3. CASE ~(Cardinality(Carried(batch[s])) > MaxReport)
    <3>1. updates' = [updates EXCEPT ![s] =
                        [r \in Refs |-> IF batch[s][r] = None THEN updates[s][r]
                                        ELSE UpsertUpdate(updates[s][r], batch[s][r])]]
      BY <2>1, <2>3 DEF Record
    <3>2. s = t
      BY <1>1, <1>2, <2>1, <3>1
    <3>3. CASE batch[t][q] = None
      <4>1. updates'[t][q] = updates[t][q]
        BY <1>2, <3>1, <3>2, <3>3
      <4> QED BY <2>1, <3>3, <4>1 DEF Told
    <3>4. CASE batch[t][q] # None
      <4>1. batch[t][q] \in Delta /\ batch[t][q].to = lastReported[t][q]
        BY <1>2, <3>4, CarriedIsDelta DEF BatchInv
      <4>2. updates'[t][q] = UpsertUpdate(updates[t][q], batch[t][q])
        BY <1>2, <3>1, <3>2, <3>4
      <4>3. updates[t][q] \in Delta \cup {None}
        BY <1>2
      <4>4. updates'[t][q] \in Delta /\ updates'[t][q].to = lastReported[t][q]
        BY <4>1, <4>2, <4>3 DEF UpsertUpdate, Delta
      <4>5. updates'[t][q] # None
        BY <4>4, NoneAssumption DEF Delta
      <4> QED BY <2>1, <4>4, <4>5 DEF Told
    <3> QED BY <3>3, <3>4
  <2> QED BY <2>2, <2>3
(* A late one can only take back what it names.                              *)
<1>6. ASSUME NEW m \in late, HandleLateReport(m) PROVE Goal
  <2>1. /\ m.server \in Servers /\ m.body \in Body /\ Record(m.server, m.body) /\ late' = late \ {m}
        /\ UNCHANGED <<pc, batch, lastReported>>
    BY <1>6 DEF HandleLateReport, TypeInv, TypeOK, agentVars
  <2>2. updates'[t][q] # updates[t][q]
    BY <1>1, <2>1
  <2>3. t = m.server /\ m.body[q] # None
    BY <2>1, <2>2, RecordMovesForward DEF TypeInv
  <2> QED BY <2>1, <2>3
<1>7. ASSUME NEW m \in late, CancelLateReport(m) PROVE FALSE
  BY <1>1, <1>7 DEF CancelLateReport, agentVars, controllerVars
<1>8. ~WorldStep
  BY <1>1 DEF WorldStep, Push, Recreate, agentVars, controllerVars
<1>9. ~UNCHANGED vars
  BY <1>1 DEF vars, agentVars, controllerVars
<1> QED BY <1>3, <1>4, <1>5, <1>6, <1>7, <1>8, <1>9 DEF Next

(* What an agent remembers goes unrecorded only by a failing, a late or an    *)
(* oversized report, for any limit on reports, with failures and without.     *)
THEOREM OnlyFailuresForgetHolds == Spec => OnlyFailuresForget
<1>1. Spec => []BatchInv
  BY BatchInit, BatchStep, TypeInvariant, PTL DEF Spec
<1>2. TypeInv /\ BatchInv /\ [Next]_vars => [ForgottenByFailure]_vars
  BY ForgottenStep
<1> QED BY <1>1, <1>2, TypeInvariant, PTL DEF Spec, OnlyFailuresForget
=============================================================================
