-------------------------- MODULE Dashboard_proofs --------------------------
(* What Dashboard promises for any servers, containers and versions, and any *)
(* number of calls, snapshots and faults.                                    *)
EXTENDS Dashboard, WellFoundedInduction, TLAPS

-----------------------------------------------------------------------------
(* A row that is held somewhere was inserted by one of the snapshots so far, *)
(* under an id of its own container.                                         *)
Named(r) == r.id[2] = r.of /\ r.id[1] <= snaps

\* An answer to a question for a row: of its container; or empty, and then the
\* row is gone for good.
Own(a, r) == a.of = r.of \/ (a.of = None /\ (r \notin rows \/ faults > 0))

RowsInv ==
    /\ \A r \in rows : Named(r)
    /\ \A r \in containers.rows : Named(r)
    /\ selected # None => Named(selected)
    /\ \A k \in Pending("list") : calls[k].answer # None =>
          \A r \in calls[k].answer.rows : Named(r)
    /\ \A k \in Pending("details") :
          Named(calls[k].row) /\ (calls[k].answer # None => Own(calls[k].answer, calls[k].row))

\* Without an overtaken call, all that is under way is for the open dialog.
DialogInv ==
    selected # None /\ "details" \notin mixed =>
        /\ \A k \in Pending("details") : calls[k].row = selected
        /\ changelog # None => Own(changelog, selected)

\* Without an overtaken call, all that is under way is for the selected server.
ListInv ==
    /\ \A k \in Pending("list") : calls[k].answer # None => calls[k].answer.server = calls[k].server
    /\ selectedId = None => Pending("list") = {}
    /\ selectedId # None /\ "list" \notin mixed =>
          /\ \A k \in Pending("list") : calls[k].server = selectedId
          /\ ~loadingContainers => containers.server \in {selectedId, None}

\* An entry is dated with a push of its version, and what is announced stands
\* before the running version.
SoundAnswer(a) ==
    a.of # None /\ a.entries # None =>
        /\ \A v \in Versions : a.entries[v] <= pushed[v]
        /\ a.newVersion # None =>
              \A m \in IndexOfVersion(a.entries, Running[a.of]) :
                  a.entries[a.newVersion] > a.entries[m]

HistoryInv ==
    /\ \A i \in Images, v \in Versions : history[i][v] <= pushed[v]
    /\ \A k \in Pending("details") : calls[k].answer # None => SoundAnswer(calls[k].answer)
    /\ changelog # None => SoundAnswer(changelog)

\* No two pushes have one date, so neither have two entries; and what is
\* announced is what NewVersion finds in the entries that are sent.
Distinct(h) == \A v, w \in Versions : v # w /\ h[v] # 0 => h[v] # h[w]
FaithfulAnswer(a) ==
    a.of # None /\ a.entries # None =>
        Distinct(a.entries) /\ a.newVersion = NewVersion(a.entries, Running[a.of])

DatesInv ==
    /\ Distinct(pushed)
    /\ \A i \in Images :
          /\ Distinct(history[i])
          /\ \A v, w \in Versions : v # w /\ history[i][v] # 0 => history[i][v] # pushed[w]
    /\ \A k \in Pending("details") : calls[k].answer # None => FaithfulAnswer(calls[k].answer)
    /\ changelog # None => FaithfulAnswer(changelog)

IInv == TypeOK /\ RowsInv /\ DialogInv /\ ListInv /\ HistoryInv /\ DatesInv

-----------------------------------------------------------------------------
LEMMA FrontIsHistory ==
    ASSUME NEW h \in Histories, NEW n
    PROVE  Front(h, n) \in Histories /\ \A v \in Versions : Front(h, n)[v] <= h[v]
<1>1. \A v \in Versions : Front(h, n)[v] \in {0, h[v]}
  BY DEF Front
<1>2. Front(h, n) = [v \in Versions |-> Front(h, n)[v]]
  BY DEF Front
<1>3. \A v \in Versions : h[v] \in 0 .. MaxPushes
  BY DEF Histories
<1>4. \A v \in Versions : Front(h, n)[v] \in 0 .. MaxPushes /\ Front(h, n)[v] <= h[v]
  BY <1>1, <1>3, BoundsAssumption
<1> QED
  BY <1>2, <1>4 DEF Histories

LEMMA NewVersionIsVersion ==
    ASSUME NEW h, NEW tag
    PROVE  NewVersion(h, tag) \in Versions \cup {None}
<1> DEFINE ahead == {v \in Newest(h, Entries(h)) :
                       \E m \in IndexOfVersion(h, tag) : IsAhead(h, v, m)}
<1>1. ahead \subseteq Versions
  BY DEF Newest, Entries
<1>2. NewVersion(h, tag) = IF ahead = {} THEN None ELSE CHOOSE v \in ahead : TRUE
  BY DEF NewVersion
<1> HIDE DEF ahead
<1> QED
  BY <1>1, <1>2

\* What NewVersion announces is newer than every entry that IndexOfVersion finds.
LEMMA NewVersionIsAhead ==
    ASSUME NEW h \in Histories, NEW tag, NewVersion(h, tag) # None
    PROVE  \A m \in IndexOfVersion(h, tag) : h[NewVersion(h, tag)] > h[m]
<1> DEFINE found == IndexOfVersion(h, tag)
           ahead == {v \in Newest(h, Entries(h)) : \E m \in found : IsAhead(h, v, m)}
<1>1. NewVersion(h, tag) = IF ahead = {} THEN None ELSE CHOOSE v \in ahead : TRUE
  BY DEF NewVersion
<1>2. NewVersion(h, tag) \in ahead
  <2> HIDE DEF ahead
  <2> QED
    BY <1>1
<1>3. PICK c \in found : h[NewVersion(h, tag)] > h[c]
  BY <1>2 DEF IsAhead
<1>4. \A m \in found : m \in Versions /\ h[m] <= h[c]
  BY <1>3 DEF IndexOfVersion, Newest, Entries
<1>5. NewVersion(h, tag) \in Versions /\ c \in Versions
  BY <1>2, <1>4 DEF Newest, Entries
<1>6. \A v \in Versions : h[v] \in Nat
  BY BoundsAssumption DEF Histories
<1> QED
  BY <1>3, <1>4, <1>5, <1>6

LEMMA NoHistoryIsHistory == NoHistory \in Histories
BY BoundsAssumption DEF NoHistory, Histories

LEMMA Initially == Init => IInv
<1> SUFFICES ASSUME Init PROVE IInv
  OBVIOUS
<1>1. TypeOK
  <2>1. pushed \in Histories /\ history \in [Images -> Histories]
    BY NoHistoryIsHistory DEF Init
  <2>2. snaps \in 0 .. MaxSnapshots /\ faults \in 0 .. MaxFaults
    BY BoundsAssumption DEF Init
  <2>3. containers \in List /\ rows \subseteq Row /\ host \subseteq Containers
    BY DEF Init, List
  <2>4. calls \in [Slots -> ListCall \cup DetailsCall \cup {None}]
    BY DEF Init
  <2>5. {loadingContainers, loadingChangelog, changelogError} \subseteq BOOLEAN
    BY DEF Init
  <2>6. selectedId = None /\ selected = None /\ changelog = None /\ mixed = {}
    BY DEF Init
  <2> QED
    BY <2>1, <2>2, <2>3, <2>4, <2>5, <2>6 DEF TypeOK
<1>2. \A kind : Pending(kind) = {}
  BY DEF Init, Pending
<1>3. RowsInv /\ DialogInv /\ ListInv
  BY <1>2 DEF Init, RowsInv, DialogInv, ListInv
<1>4. HistoryInv
  <2>1. \A i \in Images, v \in Versions : history[i][v] = 0 /\ pushed[v] = 0
    BY DEF Init, NoHistory
  <2> QED
    BY <1>2, <2>1 DEF Init, HistoryInv
<1>5. DatesInv
  <2>1. \A v \in Versions : pushed[v] = 0 /\ \A i \in Images : history[i][v] = 0
    BY DEF Init, NoHistory
  <2> QED
    BY <1>2, <2>1 DEF Init, DatesInv, Distinct
<1> QED
  BY <1>1, <1>3, <1>4, <1>5 DEF IInv

-----------------------------------------------------------------------------
(* Types. *)

LEMMA CallKinds ==
    ASSUME TypeOK
    PROVE  /\ \A k \in Pending("list") : k \in Slots /\ calls[k] \in ListCall
           /\ \A k \in Pending("details") : k \in Slots /\ calls[k] \in DetailsCall
<1> "list" # "details"
  OBVIOUS
<1>1. \A k \in Slots : calls[k] \in ListCall \cup DetailsCall \cup {None}
  BY DEF TypeOK
<1> QED
  BY <1>1 DEF Pending, ListCall, DetailsCall

LEMMA DetailsIsAnswer ==
    ASSUME NEW c \in Containers, NEW e \in Histories \cup {None}
    PROVE  Details(c, e) \in Answer
<1>1. NewVersion(e, Running[c]) \in Versions \cup {None}
  BY NewVersionIsVersion
<1> QED
  BY <1>1 DEF Details, Answer

LEMMA ListChangelogIsHistory ==
    ASSUME TypeOK, NEW i \in Images
    PROVE  ListChangelog(i) \in Histories \cup {None}
<1>1. history[i] \in Histories
  BY DEF TypeOK
<1> QED
  BY <1>1, FrontIsHistory DEF ListChangelog

LEMMA FoundIsContainer ==
    ASSUME TypeOK, NEW k, NEW c \in Found(k)
    PROVE  c \in Containers /\ Running[c] \in Images
BY DEF TypeOK, Found, Row, Images

LEMMA NoRowIsAnswer == NoRow \in Answer
BY NoHistoryIsHistory DEF NoRow, Answer

\* A reply fits the call it answers.
LEMMA ReplyTyped ==
    ASSUME TypeOK, NEW k, NEW a, Reply(k, a),
           (k \in Pending("list") /\ a \in List) \/ (k \in Pending("details") /\ a \in Answer)
    PROVE  calls' \in [Slots -> ListCall \cup DetailsCall \cup {None}]
<1>1. calls' = [calls EXCEPT ![k] = [calls[k] EXCEPT !.answer = a]]
  BY DEF Reply
<1>2. [calls[k] EXCEPT !.answer = a] \in ListCall \cup DetailsCall
  <2>1. CASE k \in Pending("list") /\ a \in List
    BY <2>1, CallKinds DEF ListCall
  <2>2. CASE k \in Pending("details") /\ a \in Answer
    BY <2>2, CallKinds DEF DetailsCall
  <2> QED
    BY <2>1, <2>2
<1> QED
  BY <1>1, <1>2 DEF TypeOK

\* The answer to a details call that a handler sends, whichever it is.
ServedWith(k, a) ==
    \/ a = NoRow /\ (Found(k) = {} \/ faults' > 0)
    \/ \E c \in Found(k) : a = Details(c, ListChangelog(Running[c])) \/ a = Details(c, NoHistory)

LEMMA ServedIsAnswer ==
    ASSUME TypeOK, NEW k, NEW a, ServedWith(k, a)
    PROVE  a \in Answer
BY NoRowIsAnswer, FoundIsContainer, DetailsIsAnswer, ListChangelogIsHistory, NoHistoryIsHistory
   DEF ServedWith

LEMMA ServedSomehow ==
    ASSUME TypeOK, NEW k, ServeDetails(k) \/ ServeDetailsBadly(k)
    PROVE  \E a : ServedWith(k, a) /\ Reply(k, a)
<1>1. CASE ServeDetails(k)
  BY <1>1 DEF ServeDetails, ServedWith
<1>2. CASE ServeDetailsBadly(k)
  <2>1. faults' > 0
    BY <1>2 DEF ServeDetailsBadly, Fault, TypeOK
  <2> QED
    BY <1>2, <2>1 DEF ServeDetailsBadly, ServedWith
<1> QED
  BY <1>1, <1>2

LEMMA TypeStep == ASSUME TypeOK, Next PROVE TypeOK'
<1>1. ASSUME NEW v \in Versions, NEW d \in 1 .. MaxPushes, Push(v, d) PROVE TypeOK'
  <2>1. pushed' \in Histories
    BY <1>1 DEF Push, TypeOK, Histories
  <2> QED
    BY <1>1, <2>1 DEF Push, TypeOK, pageVars, listVars, dialogVars
<1>2. ASSUME NEW i \in Images, Upload(i) PROVE TypeOK'
  <2> DEFINE h == [v \in Versions |-> IF history[i][v] # 0 THEN history[i][v]
                                                      ELSE Front(pushed, PageSize)[v]]
  <2>1. h \in Histories
    <3>1. history[i] \in Histories /\ Front(pushed, PageSize) \in Histories
      BY FrontIsHistory DEF TypeOK
    <3> QED
      BY <3>1 DEF Histories
  <2>2. history' = [history EXCEPT ![i] = h]
    BY <1>2 DEF Upload
  <2>3. history' \in [Images -> Histories]
    BY <2>1, <2>2 DEF TypeOK
  <2> QED
    BY <1>2, <2>3 DEF Upload, TypeOK, pageVars, listVars, dialogVars
<1>3. ASSUME NEW c \in Containers, Change(c) PROVE TypeOK'
  <2>1. host' \subseteq Containers
    BY <1>3 DEF Change, TypeOK
  <2> QED
    BY <1>3, <2>1 DEF Change, TypeOK, pageVars, listVars, dialogVars
<1>4. ASSUME NEW s \in Servers, Snapshot(s) PROVE TypeOK'
  <2>1. snaps' \in 1 .. MaxSnapshots /\ snaps' = snaps + 1
    BY <1>4, BoundsAssumption DEF Snapshot, TypeOK
  <2>2. \A c \in host : [id |-> NewId(s, c), of |-> c] \in Row
    BY <2>1 DEF NewId, Row, Ids, TypeOK
  <2>3. rows' \subseteq Row
    BY <1>4, <2>2 DEF Snapshot, TypeOK
  <2> QED
    BY <1>4, <2>1, <2>3 DEF Snapshot, TypeOK, pageVars, listVars, dialogVars
<1>5. \A s \in Servers : ListCallOf(s) \in ListCall
  BY DEF ListCallOf, ListCall
<1>6. ASSUME NEW s \in Servers, LoadServers(s) PROVE TypeOK'
  <2>1. calls' \in [Slots -> ListCall \cup DetailsCall \cup {None}]
    BY <1>6, <1>5 DEF LoadServers, TypeOK
  <2> QED
    BY <1>6, <2>1 DEF LoadServers, TypeOK, worldVars, dialogVars
<1>7. ASSUME NEW s \in Servers, LoadContainers(s), selectedId' \in Servers PROVE TypeOK'
  <2>1. calls' \in [Slots -> ListCall \cup DetailsCall \cup {None}]
    BY <1>7, <1>5 DEF LoadContainers, TypeOK
  <2>2. mixed' \subseteq {"list", "details"}
    BY <1>7 DEF LoadContainers, MixedAfter, TypeOK
  <2> QED
    BY <1>7, <2>1, <2>2 DEF LoadContainers, TypeOK, worldVars, dialogVars
<1>8. ASSUME NEW r \in Row, Open(r) PROVE TypeOK'
  <2>1. [kind |-> "details", row |-> r, answer |-> None] \in DetailsCall
    BY DEF DetailsCall
  <2>2. calls' \in [Slots -> ListCall \cup DetailsCall \cup {None}]
    BY <1>8, <2>1 DEF Open, TypeOK
  <2>3. mixed' \subseteq {"list", "details"}
    BY <1>8 DEF Open, MixedAfter, TypeOK
  <2> QED
    BY <1>8, <2>2, <2>3 DEF Open, TypeOK, worldVars, listVars
<1>9. ASSUME Close PROVE TypeOK'
  BY <1>9 DEF Close, TypeOK, worldVars, listVars
<1>10. ASSUME NEW k \in Slots, ServeList(k) PROVE TypeOK'
  <2>1. [server |-> calls[k].server, rows |-> {r \in rows : Home[r.of] = calls[k].server}] \in List
    BY <1>10, CallKinds DEF ServeList, Unanswered, ListCall, List, TypeOK
  <2>2. calls' \in [Slots -> ListCall \cup DetailsCall \cup {None}]
    BY <1>10, <2>1, ReplyTyped DEF ServeList, Unanswered, ListAnswer, RowsOf
  <2> QED
    BY <1>10, <2>2 DEF ServeList, TypeOK, worldVars, listVars, dialogVars
<1>11. \A k \in Slots : Fault => faults' \in 0 .. MaxFaults
  BY BoundsAssumption DEF Fault, TypeOK
<1>12. ASSUME NEW k \in Slots, ServeDetails(k) \/ ServeDetailsBadly(k) PROVE TypeOK'
  <2>1. calls' \in [Slots -> ListCall \cup DetailsCall \cup {None}]
    BY <1>12, ServedSomehow, ServedIsAnswer, ReplyTyped
       DEF ServeDetails, ServeDetailsBadly, Unanswered
  <2>2. faults' \in 0 .. MaxFaults
    BY <1>12, <1>11 DEF ServeDetails, ServeDetailsBadly, TypeOK
  <2> QED
    BY <1>12, <2>1, <2>2
       DEF ServeDetails, ServeDetailsBadly, TypeOK, worldVars, listVars, dialogVars
<1>13. ASSUME NEW k \in Slots, calls' = [calls EXCEPT ![k] = None]
       PROVE  calls' \in [Slots -> ListCall \cup DetailsCall \cup {None}]
  BY <1>13 DEF TypeOK
<1>14. ASSUME NEW k \in Slots, ReceiveList(k) PROVE TypeOK'
  <2>1. containers' \in List
    BY <1>14, CallKinds DEF ReceiveList, ListCall
  <2> QED
    BY <1>14, <1>13, <2>1 DEF ReceiveList, TypeOK, worldVars, dialogVars
<1>15. ASSUME NEW k \in Slots, ReceiveDetails(k) PROVE TypeOK'
  <2>1. changelog' \in Answer
    BY <1>15, CallKinds DEF ReceiveDetails, DetailsCall
  <2> QED
    BY <1>15, <1>13, <2>1 DEF ReceiveDetails, TypeOK, worldVars, listVars
<1>16. ASSUME NEW k \in Slots, ListFails(k) PROVE TypeOK'
  <2>1. containers' \in List
    BY <1>16 DEF ListFails, ListAfterError, List
  <2> QED
    BY <1>16, <1>11, <1>13, <2>1 DEF ListFails, TypeOK, worldVars, dialogVars
<1>17. ASSUME NEW k \in Slots, DetailsFail(k) PROVE TypeOK'
  BY <1>17, <1>11, <1>13 DEF DetailsFail, TypeOK, worldVars, listVars
<1>18. ASSUME NEW s \in Servers, Select(s) PROVE TypeOK'
  BY <1>18, <1>7 DEF Select
<1>19. ASSUME Reload PROVE TypeOK'
  BY <1>19, <1>7 DEF Reload, TypeOK
<1> QED
  BY <1>1, <1>2, <1>3, <1>4, <1>6, <1>8, <1>9, <1>10, <1>12, <1>14, <1>15, <1>16, <1>17,
     <1>18, <1>19 DEF Next

-----------------------------------------------------------------------------
(* What the steps do to the calls and to the rows. *)

\* A reply changes the answer of its call.
LEMMA Replied ==
    ASSUME TypeOK, NEW k \in Pending("list") \cup Pending("details"), NEW a, Reply(k, a)
    PROVE  /\ \A j \in Slots \ {k} : calls'[j] = calls[j]
           /\ calls'[k].answer = a
           /\ k \in Pending("list") =>
                 calls'[k].kind = "list" /\ calls'[k].server = calls[k].server
           /\ k \in Pending("details") =>
                 calls'[k].kind = "details" /\ calls'[k].row = calls[k].row
           /\ \A kind : Pending(kind)' \subseteq Pending(kind)
<1>1. calls' = [calls EXCEPT ![k] = [calls[k] EXCEPT !.answer = a]]
  BY DEF Reply
<1>2. calls'[k] = [calls[k] EXCEPT !.answer = a] /\ \A j \in Slots \ {k} : calls'[j] = calls[j]
  BY <1>1, CallKinds DEF TypeOK
<1>3. k \in Pending("list") =>
         calls'[k].answer = a /\ calls'[k].kind = "list" /\ calls'[k].server = calls[k].server
  BY <1>2, CallKinds DEF ListCall
<1>4. k \in Pending("details") =>
         calls'[k].answer = a /\ calls'[k].kind = "details" /\ calls'[k].row = calls[k].row
  BY <1>2, CallKinds DEF DetailsCall
<1>5. ASSUME NEW kind, NEW j \in Pending(kind)' PROVE j \in Pending(kind)
  BY <1>2, <1>3, <1>4, <1>5 DEF Pending
<1> QED
  BY <1>2, <1>3, <1>4, <1>5

\* A call that was received or failed is gone.
LEMMA Dropped ==
    ASSUME TypeOK, NEW k \in Slots, calls' = [calls EXCEPT ![k] = None]
    PROVE  /\ \A kind : Pending(kind)' \subseteq Pending(kind) \ {k}
           /\ \A j \in Slots \ {k} : calls'[j] = calls[j]
BY DEF TypeOK, Pending

\* New calls are under way unanswered.
LEMMA Called ==
    ASSUME TypeOK, NEW K \in SUBSET Slots, NEW call,
           calls' = [j \in Slots |-> IF j \in K THEN call ELSE calls[j]]
    PROVE  /\ \A kind : Pending(kind)' \subseteq Pending(kind) \cup K
           /\ \A j \in K : calls'[j] = call
           /\ \A j \in Slots \ K : calls'[j] = calls[j]
BY DEF TypeOK, Pending

\* The steps that send a list call, seen alike.
LEMMA ListSent ==
    ASSUME TypeOK, NEW s \in Servers, LoadServers(s) \/ LoadContainers(s)
    PROVE  /\ \A j \in Pending("list")' :
                 \/ j \in Pending("list") /\ calls'[j] = calls[j]
                 \/ calls'[j] = ListCallOf(s)
           /\ \A j \in Pending("details")' : j \in Pending("details") /\ calls'[j] = calls[j]
<1>1. PICK K \in SUBSET Slots :
         /\ \A j \in K : calls[j] = None
         /\ calls' = [j \in Slots |-> IF j \in K THEN ListCallOf(s) ELSE calls[j]]
  <2>1. CASE LoadServers(s)
    <3>1. PICK j \in Slots, k \in Slots :
             /\ calls[j] = None /\ calls[k] = None
             /\ calls' = [calls EXCEPT ![j] = ListCallOf(s), ![k] = ListCallOf(s)]
      BY <2>1 DEF LoadServers
    <3>2. calls' = [i \in Slots |-> IF i \in {j, k} THEN ListCallOf(s) ELSE calls[i]]
      BY <3>1 DEF TypeOK
    <3>3. {j, k} \in SUBSET Slots /\ \A i \in {j, k} : calls[i] = None
      BY <3>1
    <3> QED
      BY <3>2, <3>3
  <2>2. CASE LoadContainers(s)
    <3>1. PICK k \in Slots : calls[k] = None /\ calls' = [calls EXCEPT ![k] = ListCallOf(s)]
      BY <2>2 DEF LoadContainers
    <3>2. calls' = [i \in Slots |-> IF i \in {k} THEN ListCallOf(s) ELSE calls[i]]
      BY <3>1 DEF TypeOK
    <3>3. {k} \in SUBSET Slots /\ \A i \in {k} : calls[i] = None
      BY <3>1
    <3> QED
      BY <3>2, <3>3
  <2> QED
    BY <2>1, <2>2
<1>2. ListCallOf(s).kind = "list" /\ "list" # "details"
  BY DEF ListCallOf
<1> QED
  BY <1>1, <1>2 DEF Pending

LEMMA DetailsSent ==
    ASSUME TypeOK, NEW r, Open(r)
    PROVE  /\ \A j \in Pending("details")' :
                 \/ j \in Pending("details") /\ calls'[j] = calls[j]
                 \/ calls'[j].row = r /\ calls'[j].answer = None
           /\ \A j \in Pending("list")' : j \in Pending("list") /\ calls'[j] = calls[j]
<1> DEFINE call == [kind |-> "details", row |-> r, answer |-> None]
<1>1. PICK k \in Slots : calls[k] = None /\ calls' = [calls EXCEPT ![k] = call]
  BY DEF Open
<1>2. calls' = [i \in Slots |-> IF i = k THEN call ELSE calls[i]]
  BY <1>1 DEF TypeOK
<1>3. call.kind = "details" /\ call.row = r /\ call.answer = None /\ "list" # "details"
  OBVIOUS
<1> HIDE DEF call
<1> QED
  BY <1>1, <1>2, <1>3 DEF Pending

\* No row comes back: new rows have new ids.
LEMMA Growth ==
    ASSUME TypeOK, Next
    PROVE  /\ snaps' >= snaps /\ faults' >= faults
           /\ \A r \in rows' \ rows : r.id[1] = snaps + 1 /\ r.id[1] <= snaps' /\ r.id[2] = r.of
<1>1. snaps \in Nat /\ faults \in Nat
  BY BoundsAssumption DEF TypeOK
<1>2. CASE UNCHANGED <<rows, snaps>> /\ (UNCHANGED faults \/ Fault)
  BY <1>1, <1>2 DEF Fault
<1>3. CASE \E s \in Servers : Snapshot(s)
  <2>1. PICK s \in Servers : Snapshot(s)
    BY <1>3
  <2>2. \A r \in rows' \ rows : \E c \in Containers : r = [id |-> <<snaps + 1, c>>, of |-> c]
    BY <2>1 DEF Snapshot, NewId, TypeOK
  <2> QED
    BY <1>1, <2>1, <2>2 DEF Snapshot
<1>4. \A k \in Slots :
         /\ ServeList(k) \/ ReceiveList(k) \/ ListFails(k) => UNCHANGED <<rows, snaps>> /\ (UNCHANGED faults \/ Fault)
         /\ ServeDetails(k) \/ ServeDetailsBadly(k) => UNCHANGED <<rows, snaps>> /\ (UNCHANGED faults \/ Fault)
         /\ ReceiveDetails(k) \/ DetailsFail(k) => UNCHANGED <<rows, snaps>> /\ (UNCHANGED faults \/ Fault)
  BY DEF ServeList, ReceiveList, ListFails, ServeDetails, ServeDetailsBadly, ReceiveDetails,
         DetailsFail, worldVars
<1>5. \A s \in Servers : LoadServers(s) \/ Select(s) => UNCHANGED <<rows, snaps>> /\ UNCHANGED faults
  BY DEF LoadServers, Select, LoadContainers, worldVars
<1>6. /\ Reload \/ Close => UNCHANGED <<rows, snaps>> /\ UNCHANGED faults
      /\ \A r \in Row : Open(r) => UNCHANGED <<rows, snaps>> /\ UNCHANGED faults
  BY DEF Reload, LoadContainers, Close, Open, worldVars
<1>7. /\ \A v \in Versions, d \in 1 .. MaxPushes : Push(v, d) => UNCHANGED <<rows, snaps>> /\ UNCHANGED faults
      /\ \A i \in Images : Upload(i) => UNCHANGED <<rows, snaps>> /\ UNCHANGED faults
      /\ \A c \in Containers : Change(c) => UNCHANGED <<rows, snaps>> /\ UNCHANGED faults
  BY DEF Push, Upload, Change
<1> QED
  BY <1>2, <1>3, <1>4, <1>5, <1>6, <1>7 DEF Next

LEMMA NamedStable ==
    ASSUME TypeOK, Next, NEW r, r \in Row, Named(r)
    PROVE  /\ r.id[2] = r.of /\ r.id[1] <= snaps'
           /\ r \in rows' => r \in rows
           /\ faults > 0 => faults' > 0
<1>1. snaps' >= snaps /\ snaps \in Nat /\ snaps' \in Nat /\ faults \in Nat /\ faults' \in Nat
  BY TypeStep, Growth, BoundsAssumption DEF TypeOK
<1>2. r.id[1] \in Nat
  BY BoundsAssumption DEF Row, Ids
<1>3. r \in rows' => r \in rows
  BY <1>1, <1>2, Growth DEF Named
<1> QED
  BY <1>1, <1>2, <1>3, Growth DEF Named

\* What becomes of the calls: they stay as they are, are new, or are answered.
ListCalled(s) == (LoadServers(s) \/ LoadContainers(s)) /\ selectedId' = s

ListCallAfter(j) ==
    \/ j \in Pending("list") /\ calls'[j] = calls[j]
    \/ \E s \in Servers : ListCalled(s) /\ calls'[j] = ListCallOf(s)
    \/ /\ j \in Pending("list")
       /\ calls'[j].server = calls[j].server
       /\ calls'[j].answer = [server |-> calls[j].server,
                              rows |-> {r \in rows : Home[r.of] = calls[j].server}]

DetailsCallAfter(j) ==
    \/ j \in Pending("details") /\ calls'[j] = calls[j]
    \/ \E r \in Row : Open(r) /\ calls'[j].row = r /\ calls'[j].answer = None
    \/ /\ j \in Pending("details")
       /\ calls'[j].row = calls[j].row
       /\ ServedWith(j, calls'[j].answer)
       /\ UNCHANGED worldVars

LEMMA CallsAfter ==
    ASSUME TypeOK, Next
    PROVE  /\ \A j \in Pending("list")' : ListCallAfter(j)
           /\ \A j \in Pending("details")' : DetailsCallAfter(j)
<1> DEFINE Good == /\ \A j \in Pending("list")' : ListCallAfter(j)
                   /\ \A j \in Pending("details")' : DetailsCallAfter(j)
<1>1. ASSUME UNCHANGED calls PROVE Good
  BY <1>1 DEF Pending, ListCallAfter, DetailsCallAfter
<1>2. ASSUME \E s \in Servers : ListCalled(s) PROVE Good
  BY <1>2, ListSent DEF ListCalled, ListCallAfter, DetailsCallAfter
<1>3. ASSUME \E r \in Row : Open(r) PROVE Good
  BY <1>3, DetailsSent DEF ListCallAfter, DetailsCallAfter
<1>4. ASSUME NEW k \in Slots, ServeList(k) PROVE Good
  <2> DEFINE a == [server |-> calls[k].server,
                   rows |-> {r \in rows : Home[r.of] = calls[k].server}]
  <2>1. k \in Pending("list") /\ Reply(k, a)
    BY <1>4 DEF ServeList, Unanswered, ListAnswer, RowsOf
  <2>2. /\ \A j \in Slots \ {k} : calls'[j] = calls[j]
        /\ calls'[k].answer = a /\ calls'[k].server = calls[k].server
        /\ \A kind : Pending(kind)' \subseteq Pending(kind)
        /\ k \notin Pending("details")
    <3>1. k \notin Pending("details")
      BY <2>1 DEF Pending
    <3> HIDE DEF a
    <3> QED
      BY <2>1, <3>1, Replied
  <2>3. \A j \in Pending("list")' : ListCallAfter(j)
    <3> TAKE j \in Pending("list")'
    <3>1. j \in Pending("list") /\ j \in Slots
      BY <2>2 DEF Pending
    <3>2. CASE j = k
      BY <2>1, <2>2, <3>2 DEF ListCallAfter
    <3>3. CASE j # k
      BY <2>2, <3>1, <3>3 DEF ListCallAfter
    <3> QED
      BY <3>2, <3>3
  <2>4. \A j \in Pending("details")' : j \in Pending("details") /\ calls'[j] = calls[j]
    BY <2>2 DEF Pending
  <2> QED
    BY <2>3, <2>4 DEF DetailsCallAfter
<1>5. ASSUME NEW k \in Slots, ServeDetails(k) \/ ServeDetailsBadly(k) PROVE Good
  <2>1. PICK a : ServedWith(k, a) /\ Reply(k, a)
    BY <1>5, ServedSomehow
  <2>2. k \in Pending("details") /\ UNCHANGED worldVars
    BY <1>5 DEF ServeDetails, ServeDetailsBadly, Unanswered
  <2>3. /\ \A j \in Slots \ {k} : calls'[j] = calls[j]
        /\ calls'[k].answer = a /\ calls'[k].row = calls[k].row
        /\ \A kind : Pending(kind)' \subseteq Pending(kind)
        /\ k \notin Pending("list")
    <3>1. k \notin Pending("list")
      BY <2>2 DEF Pending
    <3> QED
      BY <2>1, <2>2, <3>1, Replied
  <2>4. \A j \in Pending("list")' : j \in Pending("list") /\ calls'[j] = calls[j]
    BY <2>3 DEF Pending
  <2>5. \A j \in Pending("details")' : DetailsCallAfter(j)
    <3> TAKE j \in Pending("details")'
    <3>1. j \in Pending("details") /\ j \in Slots
      BY <2>3 DEF Pending
    <3>2. CASE j = k
      BY <2>1, <2>2, <2>3, <3>2 DEF DetailsCallAfter
    <3>3. CASE j # k
      BY <2>3, <3>1, <3>3 DEF DetailsCallAfter
    <3> QED
      BY <3>2, <3>3
  <2> QED
    BY <2>4, <2>5 DEF ListCallAfter
<1>6. ASSUME NEW k \in Slots, calls' = [calls EXCEPT ![k] = None] PROVE Good
  <2>1. \A kind, j : j \in Pending(kind)' => j \in Pending(kind) /\ calls'[j] = calls[j]
    BY <1>6, Dropped DEF Pending
  <2> QED
    BY <2>1 DEF ListCallAfter, DetailsCallAfter
<1>7. \A k \in Slots :
         ReceiveList(k) \/ ReceiveDetails(k) \/ ListFails(k) \/ DetailsFail(k)
            => calls' = [calls EXCEPT ![k] = None]
  BY DEF ReceiveList, ReceiveDetails, ListFails, DetailsFail
<1>8. /\ \A v \in Versions, d \in 1 .. MaxPushes : Push(v, d) => UNCHANGED calls
      /\ \A i \in Images : Upload(i) => UNCHANGED calls
      /\ \A c \in Containers : Change(c) => UNCHANGED calls
      /\ \A s \in Servers : Snapshot(s) => UNCHANGED calls
      /\ Close => UNCHANGED calls
  BY DEF Push, Upload, Change, Snapshot, Close, pageVars
<1>9. /\ \A s \in Servers : LoadServers(s) \/ Select(s) => ListCalled(s)
      /\ Reload => \E s \in Servers : ListCalled(s)
  BY DEF LoadServers, Select, Reload, ListCalled, TypeOK
<1> HIDE DEF Good
<1>10. ASSUME NEW k \in Slots,
              \/ ServeList(k) \/ ReceiveList(k) \/ ListFails(k)
              \/ ServeDetails(k) \/ ServeDetailsBadly(k) \/ ReceiveDetails(k) \/ DetailsFail(k)
       PROVE  Good
  BY <1>4, <1>5, <1>6, <1>7, <1>10
<1>11. ASSUME NEW s \in Servers, Snapshot(s) \/ LoadServers(s) \/ Select(s)
       PROVE  Good
  BY <1>1, <1>2, <1>8, <1>9, <1>11
<1>12. Good
  BY <1>1, <1>2, <1>3, <1>8, <1>9, <1>10, <1>11 DEF Next
<1> QED
  BY <1>12 DEF Good

\* What becomes of what the page holds.
LEMMA PageAfter ==
    ASSUME Next
    PROVE  /\ \/ containers' = containers
              \/ \E k \in Pending("list") : calls[k].answer # None /\ containers' = calls[k].answer
              \/ containers' = [server |-> None, rows |-> {}]
           /\ UNCHANGED selected \/ (\E r \in Row : Open(r)) \/ Close
           /\ \/ UNCHANGED changelog
              \/ \E k \in Slots : ReceiveDetails(k)
              \/ changelog' = None
<1> DEFINE Good == /\ \/ containers' = containers
                      \/ \E k \in Pending("list") :
                            calls[k].answer # None /\ containers' = calls[k].answer
                      \/ containers' = [server |-> None, rows |-> {}]
                   /\ UNCHANGED selected \/ (\E r \in Row : Open(r)) \/ Close
                   /\ \/ UNCHANGED changelog
                      \/ \E k \in Slots : ReceiveDetails(k)
                      \/ changelog' = None
<1>1. \A v \in Versions, d \in 1 .. MaxPushes : Push(v, d) => Good
  BY DEF Push, pageVars, listVars, dialogVars
<1>2. \A i \in Images : Upload(i) => Good
  BY DEF Upload, pageVars, listVars, dialogVars
<1>3. \A c \in Containers : Change(c) => Good
  BY DEF Change, pageVars, listVars, dialogVars
<1>4. \A s \in Servers : Snapshot(s) => Good
  BY DEF Snapshot, pageVars, listVars, dialogVars
<1>5. \A s \in Servers : LoadServers(s) \/ LoadContainers(s) => Good
  BY DEF LoadServers, LoadContainers, dialogVars
<1>6. \A s \in Servers : Select(s) => Good
  BY <1>5 DEF Select
<1>7. Reload => Good
  BY DEF Reload, LoadContainers, dialogVars
<1>8. \A r \in Row : Open(r) => Good
  BY DEF Open, listVars
<1>9. Close => Good
  BY DEF Close, listVars
<1>10. \A k \in Slots : ServeList(k) \/ ServeDetails(k) \/ ServeDetailsBadly(k) => Good
  BY DEF ServeList, ServeDetails, ServeDetailsBadly, listVars, dialogVars
<1>11. \A k \in Slots : ReceiveList(k) => Good
  BY DEF ReceiveList, dialogVars
<1>12. \A k \in Slots : ListFails(k) => Good
  BY DEF ListFails, ListAfterError, dialogVars
<1>13. \A k \in Slots : ReceiveDetails(k) \/ DetailsFail(k) => Good
  BY DEF ReceiveDetails, DetailsFail, listVars
<1> HIDE DEF Good
<1>14. Good
  BY <1>1, <1>2, <1>3, <1>4, <1>6, <1>7, <1>8, <1>9, <1>10, <1>11, <1>12, <1>13, <1>5 DEF Next
<1> QED
  BY <1>14 DEF Good

-----------------------------------------------------------------------------
(* The invariant's parts. *)

\* A handler answers for the container it was asked for.
LEMMA ServedIsOwn ==
    ASSUME TypeOK, RowsInv, NEW k \in Pending("details"), NEW a, ServedWith(k, a),
           UNCHANGED worldVars
    PROVE  \/ a.of = calls[k].row.of
           \/ a.of = None /\ (calls[k].row \notin rows' \/ faults' > 0)
<1>1. calls[k].row \in Row /\ Named(calls[k].row)
  BY CallKinds DEF RowsInv, DetailsCall
<1>2. \A c \in Found(k) : c = calls[k].row.of
  BY <1>1 DEF Found, RowsInv, Named
<1>3. Found(k) = {} => calls[k].row \notin rows
  BY DEF Found
<1>4. rows' = rows
  BY DEF worldVars
<1>5. CASE a = NoRow /\ (Found(k) = {} \/ faults' > 0)
  BY <1>3, <1>4, <1>5 DEF NoRow
<1>6. CASE \E c \in Found(k) : a.of = c
  BY <1>2, <1>6
<1> QED
  BY <1>5, <1>6 DEF ServedWith, Details

LEMMA RowsStep == ASSUME TypeOK, RowsInv, Next PROVE RowsInv'
<1>1. \A r \in Row : Named(r) =>
         /\ r.id[2] = r.of /\ r.id[1] <= snaps'
         /\ r \in rows' => r \in rows
         /\ faults > 0 => faults' > 0
  BY NamedStable
<1>2. \A r \in rows' : r.id[2] = r.of /\ r.id[1] <= snaps'
  BY <1>1, Growth DEF RowsInv, TypeOK
<1>3. \A r \in containers.rows : r \in Row /\ Named(r)
  BY DEF RowsInv, TypeOK, List
<1>4. \A k \in Pending("list") : calls[k].answer # None =>
         \A r \in calls[k].answer.rows : r \in Row /\ Named(r)
  BY CallKinds DEF RowsInv, ListCall, List
<1>5. \A r \in containers'.rows : r.id[2] = r.of /\ r.id[1] <= snaps'
  <2>1. \A r \in containers'.rows : r \in Row /\ Named(r)
    BY <1>3, <1>4, PageAfter
  <2> QED
    BY <2>1, <1>1
<1>6. selected' # None => selected'.id[2] = selected'.of /\ selected'.id[1] <= snaps'
  <2>1. CASE selected' = selected
    <3>1. selected # None => selected \in Row /\ Named(selected)
      BY DEF RowsInv, TypeOK
    <3> QED
      BY <2>1, <3>1, <1>1
  <2>2. CASE \E r \in Row : Open(r)
    BY <1>1, <1>3, <2>2 DEF Open
  <2>3. CASE Close
    BY <2>3 DEF Close
  <2> QED
    BY <2>1, <2>2, <2>3, PageAfter
<1>7. ASSUME NEW j \in Pending("list")', calls'[j].answer # None, NEW r \in calls'[j].answer.rows
      PROVE  r.id[2] = r.of /\ r.id[1] <= snaps'
  <2>1. (r \in rows /\ Named(r)) \/ (r \in Row /\ Named(r))
    <3>1. CASE j \in Pending("list") /\ calls'[j] = calls[j]
      BY <1>4, <1>7, <3>1
    <3>2. CASE \E s \in Servers : calls'[j] = ListCallOf(s)
      BY <1>7, <3>2 DEF ListCallOf
    <3>3. CASE \E s : calls'[j].answer = [server |-> s, rows |-> {q \in rows : Home[q.of] = s}]
      BY <1>7, <3>3 DEF RowsInv
    <3> QED
      BY <3>1, <3>2, <3>3, CallsAfter DEF ListCallAfter
  <2> QED
    BY <1>1, <2>1 DEF TypeOK
<1>8. ASSUME NEW j \in Pending("details")'
      PROVE  /\ calls'[j].row.id[2] = calls'[j].row.of /\ calls'[j].row.id[1] <= snaps'
             /\ calls'[j].answer # None =>
                   \/ calls'[j].answer.of = calls'[j].row.of
                   \/ /\ calls'[j].answer.of = None
                      /\ calls'[j].row \notin rows' \/ faults' > 0
  <2>1. j \in Pending("details") => calls[j].row \in Row /\ Named(calls[j].row)
    BY CallKinds DEF DetailsCall, RowsInv
  <2>2. CASE j \in Pending("details") /\ calls'[j] = calls[j]
    <3>1. calls[j].answer # None => Own(calls[j].answer, calls[j].row)
      BY <2>2 DEF RowsInv
    <3> QED
      BY <1>1, <2>1, <2>2, <3>1 DEF Own
  <2>3. CASE \E r \in Row : Open(r) /\ calls'[j].row = r /\ calls'[j].answer = None
    BY <1>1, <1>3, <2>3 DEF Open
  <2>4. CASE /\ j \in Pending("details") /\ calls'[j].row = calls[j].row
             /\ ServedWith(j, calls'[j].answer) /\ UNCHANGED worldVars
    BY <1>1, <2>1, <2>4, ServedIsOwn
  <2> QED
    BY <2>2, <2>3, <2>4, CallsAfter DEF DetailsCallAfter
<1> QED
  BY <1>2, <1>5, <1>6, <1>7, <1>8 DEF RowsInv, Named, Own

LEMMA DialogStep == ASSUME TypeOK, RowsInv, DialogInv, Next PROVE DialogInv'
<1> SUFFICES ASSUME selected' # None, "details" \notin mixed'
             PROVE  /\ \A j \in Pending("details")' : calls'[j].row = selected'
                    /\ changelog' # None =>
                          \/ changelog'.of = selected'.of
                          \/ changelog'.of = None /\ (selected' \notin rows' \/ faults' > 0)
  BY DEF DialogInv, Own
<1>1. CASE \E r \in Row : Open(r)
  <2>1. PICK r \in Row : Open(r)
    BY <1>1
  <2>2. Pending("details") = {}
    BY <2>1 DEF Open, MixedAfter
  <2>3. \A j \in Pending("details")' : calls'[j].row = r
    BY <2>1, <2>2, DetailsSent
  <2> QED
    BY <2>1, <2>3 DEF Open
<1>2. ASSUME ~ \E r \in Row : Open(r)
      PROVE  /\ selected' = selected
             /\ "details" \notin mixed
             /\ \A j \in Pending("details") : calls[j].row = selected
             /\ changelog # None => Own(changelog, selected)
  <2>1. ~Close
    BY DEF Close
  <2>2. selected' = selected
    BY <1>2, <2>1, PageAfter
  <2>3. "details" \notin mixed
    <3>1. \A s \in Servers : LoadContainers(s) => "details" \notin mixed
      BY DEF LoadContainers, MixedAfter
    <3>2. \A s \in Servers : Select(s) => "details" \notin mixed
      BY <3>1 DEF Select
    <3>3. Reload => "details" \notin mixed
      BY <3>1 DEF Reload, TypeOK
    <3>4. \A s \in Servers : Snapshot(s) \/ LoadServers(s) => UNCHANGED mixed
      BY DEF Snapshot, LoadServers, pageVars
    <3>5. \A k \in Slots :
             /\ ServeList(k) \/ ReceiveList(k) \/ ListFails(k) => UNCHANGED mixed
             /\ ServeDetails(k) \/ ServeDetailsBadly(k) => UNCHANGED mixed
             /\ ReceiveDetails(k) \/ DetailsFail(k) => UNCHANGED mixed
      BY DEF ServeList, ReceiveList, ListFails, ServeDetails, ServeDetailsBadly, ReceiveDetails,
             DetailsFail
    <3>6. /\ \A v \in Versions, d \in 1 .. MaxPushes : Push(v, d) => UNCHANGED mixed
          /\ \A i \in Images : Upload(i) => UNCHANGED mixed
          /\ \A c \in Containers : Change(c) => UNCHANGED mixed
      BY DEF Push, Upload, Change, pageVars
    <3> QED
      BY <1>2, <2>1, <3>2, <3>3, <3>4, <3>5, <3>6 DEF Next
  <2> QED
    BY <2>2, <2>3 DEF DialogInv
<1>3. ASSUME ~ \E r \in Row : Open(r), NEW j \in Pending("details")'
      PROVE  calls'[j].row = selected'
  BY <1>2, <1>3, CallsAfter DEF DetailsCallAfter
<1>4. ASSUME ~ \E r \in Row : Open(r), changelog' # None
      PROVE  \/ changelog'.of = selected'.of
             \/ changelog'.of = None /\ (selected' \notin rows' \/ faults' > 0)
  <2>1. selected \in Row /\ Named(selected)
    BY <1>2, <1>4 DEF TypeOK, RowsInv
  <2>2. Own(changelog', selected)
    <3>1. CASE changelog' = changelog
      BY <1>2, <1>4, <3>1
    <3>2. CASE \E k \in Slots : ReceiveDetails(k)
      BY <1>2, <1>4, <3>2 DEF ReceiveDetails, RowsInv
    <3> QED
      BY <1>4, <3>1, <3>2, PageAfter
  <2> QED
    BY <1>2, <1>4, <2>1, <2>2, NamedStable DEF Own
<1> QED
  BY <1>1, <1>2, <1>3, <1>4

LEMMA ListStep == ASSUME TypeOK, ListInv, Next PROVE ListInv'
<1>1. ASSUME NEW j \in Pending("list")', calls'[j].answer # None
      PROVE  calls'[j].answer.server = calls'[j].server
  <2>1. CASE j \in Pending("list") /\ calls'[j] = calls[j]
    BY <1>1, <2>1 DEF ListInv
  <2>2. CASE \E s \in Servers : calls'[j] = ListCallOf(s)
    BY <1>1, <2>2 DEF ListCallOf
  <2>3. CASE \E s : /\ calls'[j].server = s
                    /\ calls'[j].answer = [server |-> s, rows |-> {r \in rows : Home[r.of] = s}]
    BY <2>3
  <2> QED
    BY <1>1, <2>1, <2>2, <2>3, CallsAfter DEF ListCallAfter
<1>2. ASSUME NEW s \in Servers, LoadServers(s) \/ LoadContainers(s), selectedId' = s,
             "list" \notin mixed'
      PROVE  \A j \in Pending("list")' : calls'[j].server = s
  <2>1. \A j \in Pending("list") : calls[j].server = s
    <3>1. CASE LoadServers(s)
      BY <3>1 DEF LoadServers, ListInv
    <3>2. CASE LoadContainers(s)
      <4>1. ~Overtakes(s)
        BY <1>2, <3>2 DEF LoadContainers, MixedAfter
      <4> QED
        BY <4>1 DEF Overtakes
    <3> QED
      BY <1>2, <3>1, <3>2
  <2> QED
    <3>1. ListCallOf(s).server = s
      BY DEF ListCallOf
    <3>2. \A j \in Pending("list")' : (j \in Pending("list") /\ calls'[j] = calls[j])
                                    \/ calls'[j] = ListCallOf(s)
      BY <1>2, ListSent
    <3> QED
      BY <2>1, <3>1, <3>2
<1>3. CASE \E s \in Servers : ListCalled(s)
  <2>1. PICK s \in Servers : (LoadServers(s) \/ LoadContainers(s)) /\ selectedId' = s
    BY <1>3 DEF ListCalled
  <2>2. selectedId' # None /\ loadingContainers'
    BY <2>1, NoneAssumption DEF LoadServers, LoadContainers
  <2> QED
    BY <1>1, <1>2, <2>1, <2>2 DEF ListInv
<1>4. ASSUME ~ \E s \in Servers : ListCalled(s)
      PROVE  /\ selectedId' = selectedId
             /\ "list" \in mixed => "list" \in mixed'
             /\ \/ UNCHANGED <<containers, loadingContainers>>
                \/ \E k \in Slots : ReceiveList(k) \/ ListFails(k)
  <2> DEFINE Good == /\ selectedId' = selectedId
                     /\ "list" \in mixed => "list" \in mixed'
                     /\ \/ UNCHANGED <<containers, loadingContainers>>
                        \/ \E k \in Slots : ReceiveList(k) \/ ListFails(k)
  <2>1. \A s \in Servers : ~LoadServers(s) /\ ~Select(s)
    BY <1>4 DEF LoadServers, Select, ListCalled
  <2>2. ~Reload
    BY <1>4 DEF Reload, ListCalled, TypeOK
  <2>3. /\ \A v \in Versions, d \in 1 .. MaxPushes : Push(v, d) => Good
        /\ \A i \in Images : Upload(i) => Good
        /\ \A c \in Containers : Change(c) => Good
        /\ \A s \in Servers : Snapshot(s) => Good
    BY DEF Push, Upload, Change, Snapshot, pageVars, listVars
  <2>4. /\ \A r \in Row : Open(r) => Good
        /\ Close => Good
    BY DEF Open, Close, MixedAfter, listVars
  <2>5. \A k \in Slots :
           /\ ServeList(k) \/ ServeDetails(k) \/ ServeDetailsBadly(k) => Good
           /\ ReceiveDetails(k) \/ DetailsFail(k) => Good
    BY DEF ServeList, ServeDetails, ServeDetailsBadly, ReceiveDetails, DetailsFail, listVars
  <2>6. \A k \in Slots : ReceiveList(k) \/ ListFails(k) => Good
    BY DEF ReceiveList, ListFails
  <2> HIDE DEF Good
  <2>7. Good
    BY <2>1, <2>2, <2>3, <2>4, <2>5, <2>6 DEF Next
  <2> QED
    BY <2>7 DEF Good
<1>5. CASE ~ \E s \in Servers : ListCalled(s)
  <2>1. \A j \in Pending("list")' : j \in Pending("list") /\ calls'[j].server = calls[j].server
    BY <1>5, CallsAfter DEF ListCallAfter
  <2>2. ASSUME selectedId # None, "list" \notin mixed, ~loadingContainers'
        PROVE  containers'.server \in {selectedId, None}
    <3>1. CASE UNCHANGED <<containers, loadingContainers>>
      BY <2>2, <3>1 DEF ListInv
    <3>2. ASSUME NEW k \in Slots, ReceiveList(k)
          PROVE  containers'.server \in {selectedId, None}
      BY <2>2, <3>2 DEF ReceiveList, ListInv
    <3>3. ASSUME NEW k \in Slots, ListFails(k)
          PROVE  containers'.server \in {selectedId, None}
      BY <3>3 DEF ListFails, ListAfterError
    <3> QED
      BY <1>4, <1>5, <3>1, <3>2, <3>3
  <2> QED
    BY <1>1, <1>4, <1>5, <2>1, <2>2 DEF ListInv
<1> QED
  BY <1>3, <1>5

\* The answer of a handler is sound.
LEMMA ServedIsSound ==
    ASSUME TypeOK, HistoryInv, NEW k, NEW a, ServedWith(k, a)
    PROVE  SoundAnswer(a)
<1>1. ASSUME NEW c \in Containers, NEW e \in Histories, \A v \in Versions : e[v] <= pushed[v]
      PROVE  SoundAnswer(Details(c, e))
  <2>1. NewVersion(e, Running[c]) # None =>
           \A m \in IndexOfVersion(e, Running[c]) : e[NewVersion(e, Running[c])] > e[m]
    BY NewVersionIsAhead
  <2> QED
    BY <1>1, <2>1 DEF SoundAnswer, Details
<1>2. SoundAnswer(NoRow)
  BY DEF SoundAnswer, NoRow
<1>3. ASSUME NEW c \in Containers PROVE SoundAnswer(Details(c, NoHistory))
  <2>1. \A v \in Versions : NoHistory[v] <= pushed[v]
    BY BoundsAssumption DEF NoHistory, TypeOK, Histories
  <2> QED
    BY <1>1, <2>1, NoHistoryIsHistory
<1>4. ASSUME NEW c \in Found(k) PROVE SoundAnswer(Details(c, ListChangelog(Running[c])))
  <2>1. c \in Containers /\ Running[c] \in Images
    BY FoundIsContainer
  <2>2. CASE ListChangelog(Running[c]) = None
    BY <2>2 DEF SoundAnswer, Details
  <2>3. CASE ListChangelog(Running[c]) = Front(history[Running[c]], Limit)
    <3> DEFINE h == history[Running[c]]
    <3>1. h \in Histories /\ pushed \in Histories
      BY <2>1 DEF TypeOK
    <3>2. \A v \in Versions : h[v] <= pushed[v]
      BY <2>1 DEF HistoryInv
    <3>3. \A v \in Versions : h[v] \in Nat /\ pushed[v] \in Nat
      BY <3>1, BoundsAssumption DEF Histories
    <3> HIDE DEF h
    <3>4. Front(h, Limit) \in Histories /\ \A v \in Versions : Front(h, Limit)[v] <= h[v]
      BY <3>1, FrontIsHistory
    <3>5. \A v \in Versions : Front(h, Limit)[v] <= pushed[v]
      <4>1. \A v \in Versions : Front(h, Limit)[v] \in Nat
        BY <3>4, BoundsAssumption DEF Histories
      <4> QED
        BY <3>2, <3>3, <3>4, <4>1
    <3> QED
      BY <1>1, <2>1, <2>3, <3>4, <3>5 DEF h
  <2> QED
    BY <2>2, <2>3 DEF ListChangelog
<1> QED
  BY <1>2, <1>3, <1>4, FoundIsContainer DEF ServedWith

\* What becomes of the registry and of the histories.
LEMMA WorldAfter ==
    ASSUME Next
    PROVE  /\ UNCHANGED pushed \/ \E v \in Versions, d \in 1 .. MaxPushes : Push(v, d)
           /\ UNCHANGED history \/ \E i \in Images : Upload(i)
<1>1. /\ \A v \in Versions, d \in 1 .. MaxPushes : Push(v, d) => UNCHANGED history
      /\ \A i \in Images : Upload(i) => UNCHANGED pushed
      /\ \A c \in Containers : Change(c) => UNCHANGED <<pushed, history>>
      /\ \A s \in Servers : Snapshot(s) => UNCHANGED <<pushed, history>>
  BY DEF Push, Upload, Change, Snapshot
<1>2. /\ \A s \in Servers : LoadServers(s) \/ Select(s) => UNCHANGED <<pushed, history>>
      /\ Reload \/ Close => UNCHANGED <<pushed, history>>
      /\ \A r \in Row : Open(r) => UNCHANGED <<pushed, history>>
  BY DEF LoadServers, Select, Reload, LoadContainers, Close, Open, worldVars
<1>3. \A k \in Slots :
         /\ ServeList(k) \/ ReceiveList(k) \/ ListFails(k) => UNCHANGED <<pushed, history>>
         /\ ServeDetails(k) \/ ServeDetailsBadly(k) => UNCHANGED <<pushed, history>>
         /\ ReceiveDetails(k) \/ DetailsFail(k) => UNCHANGED <<pushed, history>>
  BY DEF ServeList, ReceiveList, ListFails, ServeDetails, ServeDetailsBadly, ReceiveDetails,
         DetailsFail, worldVars
<1> QED
  BY <1>1, <1>2, <1>3 DEF Next

\* Pushes date a version later than before.
LEMMA HistoryStep == ASSUME TypeOK, HistoryInv, Next PROVE HistoryInv'
<1>1. \A v \in Versions : pushed[v] \in Nat /\ pushed'[v] \in Nat
  BY TypeStep, BoundsAssumption DEF TypeOK, Histories
<1>2. \A v \in Versions : pushed[v] <= pushed'[v]
  <2>1. ASSUME NEW w \in Versions, NEW d \in 1 .. MaxPushes, Push(w, d)
        PROVE  \A v \in Versions : pushed[v] <= pushed'[v]
    BY <1>1, <2>1, BoundsAssumption DEF Push, TypeOK, Histories
  <2> QED
    BY <1>1, <2>1, WorldAfter
<1>3. ASSUME NEW a \in Answer, SoundAnswer(a), a.of # None, a.entries # None
      PROVE  /\ \A v \in Versions : a.entries[v] <= pushed'[v]
             /\ a.newVersion # None =>
                   \A m \in IndexOfVersion(a.entries, Running[a.of]) :
                       a.entries[a.newVersion] > a.entries[m]
  <2>1. \A v \in Versions : a.entries[v] \in Nat
    BY <1>3, BoundsAssumption DEF Answer, Histories
  <2> QED
    BY <1>1, <1>2, <1>3, <2>1 DEF SoundAnswer
<1>4. \A k \in Pending("details") : calls[k].answer # None =>
         calls[k].answer \in Answer /\ SoundAnswer(calls[k].answer)
  BY CallKinds DEF HistoryInv, DetailsCall
<1>5. changelog # None => changelog \in Answer /\ SoundAnswer(changelog)
  BY DEF HistoryInv, TypeOK
<1>6. ASSUME NEW j \in Pending("details")', calls'[j].answer # None
      PROVE  calls'[j].answer \in Answer /\ SoundAnswer(calls'[j].answer)
  <2>1. CASE j \in Pending("details") /\ calls'[j] = calls[j]
    BY <1>4, <1>6, <2>1
  <2>2. CASE \E k : ServedWith(k, calls'[j].answer)
    BY <2>2, ServedIsSound, ServedIsAnswer
  <2> QED
    BY <1>6, <2>1, <2>2, CallsAfter DEF DetailsCallAfter
<1>7. changelog' # None => changelog' \in Answer /\ SoundAnswer(changelog')
  <2>1. CASE \E k \in Slots : ReceiveDetails(k)
    BY <1>4, <2>1 DEF ReceiveDetails
  <2> QED
    BY <1>5, <2>1, PageAfter
<1>8. \A i \in Images, v \in Versions : history'[i][v] <= pushed'[v]
  <2>1. \A i \in Images, v \in Versions : history[i][v] \in Nat
    BY BoundsAssumption DEF TypeOK, Histories
  <2>2. CASE UNCHANGED history
    BY <1>1, <1>2, <2>1, <2>2 DEF HistoryInv
  <2>3. ASSUME NEW i \in Images, Upload(i)
        PROVE  \A j \in Images, v \in Versions : history'[j][v] <= pushed'[v]
    <3> DEFINE h == [v \in Versions |-> IF history[i][v] # 0 THEN history[i][v]
                                                        ELSE Front(pushed, PageSize)[v]]
    <3>1. history' = [history EXCEPT ![i] = h] /\ pushed' = pushed
      BY <2>3 DEF Upload
    <3>2. \A v \in Versions : Front(pushed, PageSize)[v] <= pushed[v]
      BY FrontIsHistory DEF TypeOK
    <3>3. \A v \in Versions : h[v] <= pushed[v]
      BY <3>2 DEF HistoryInv
    <3> HIDE DEF h
    <3>4. \A j \in Images : history'[j] = IF j = i THEN h ELSE history[j]
      BY <3>1 DEF TypeOK
    <3> QED
      BY <3>1, <3>3, <3>4 DEF HistoryInv
  <2> QED
    BY <2>2, <2>3, WorldAfter
<1> QED
  BY <1>3, <1>6, <1>7, <1>8 DEF HistoryInv, SoundAnswer

LEMMA FrontIsDistinct ==
    ASSUME NEW h, NEW n, Distinct(h)
    PROVE  Distinct(Front(h, n))
<1>1. \A v \in Versions : Front(h, n)[v] \in {0, h[v]}
  BY DEF Front
<1> QED
  BY <1>1 DEF Distinct

LEMMA ServedIsFaithful ==
    ASSUME TypeOK, DatesInv, NEW k, NEW a, ServedWith(k, a)
    PROVE  FaithfulAnswer(a)
<1>1. ASSUME NEW c, NEW e, Distinct(e) PROVE FaithfulAnswer(Details(c, e))
  BY <1>1 DEF FaithfulAnswer, Details
<1>2. FaithfulAnswer(NoRow)
  BY DEF FaithfulAnswer, NoRow
<1>3. Distinct(NoHistory)
  BY DEF Distinct, NoHistory
<1>4. ASSUME NEW c \in Found(k) PROVE FaithfulAnswer(Details(c, ListChangelog(Running[c])))
  <2>1. Running[c] \in Images
    BY FoundIsContainer
  <2>2. CASE ListChangelog(Running[c]) = None
    BY <2>2 DEF FaithfulAnswer, Details
  <2>3. CASE ListChangelog(Running[c]) = Front(history[Running[c]], Limit)
    BY <1>1, <2>1, <2>3, FrontIsDistinct DEF DatesInv
  <2> QED
    BY <2>2, <2>3 DEF ListChangelog
<1> QED
  BY <1>1, <1>2, <1>3, <1>4 DEF ServedWith

LEMMA DatesStep == ASSUME TypeOK, HistoryInv, DatesInv, Next PROVE DatesInv'
<1>1. \A k \in Pending("details") : calls[k].answer # None => FaithfulAnswer(calls[k].answer)
  BY DEF DatesInv
<1>2. ASSUME NEW j \in Pending("details")', calls'[j].answer # None
      PROVE  FaithfulAnswer(calls'[j].answer)
  <2>1. CASE j \in Pending("details") /\ calls'[j] = calls[j]
    BY <1>1, <1>2, <2>1
  <2>2. CASE \E k : ServedWith(k, calls'[j].answer)
    BY <2>2, ServedIsFaithful
  <2> QED
    BY <1>2, <2>1, <2>2, CallsAfter DEF DetailsCallAfter
<1>3. changelog' # None => FaithfulAnswer(changelog')
  <2>1. CASE \E k \in Slots : ReceiveDetails(k)
    BY <1>1, <2>1 DEF ReceiveDetails
  <2> QED
    BY <2>1, PageAfter DEF DatesInv
<1>4. /\ \A v \in Versions : pushed[v] \in Nat
      /\ \A i \in Images, v \in Versions : history[i][v] \in Nat /\ history[i][v] <= pushed[v]
  BY BoundsAssumption DEF TypeOK, Histories, HistoryInv
<1> DEFINE Dated == /\ Distinct(pushed')
                    /\ \A i \in Images :
                          /\ Distinct(history'[i])
                          /\ \A v, w \in Versions :
                                v # w /\ history'[i][v] # 0 => history'[i][v] # pushed'[w]
<1>5. ASSUME NEW u \in Versions, NEW d \in 1 .. MaxPushes, Push(u, d) PROVE Dated
  <2>1. /\ history' = history
        /\ \A v \in Versions : pushed'[v] = IF v = u THEN d ELSE pushed[v]
        /\ \A v \in Versions : pushed[v] < d
    BY <1>5 DEF Push, TypeOK, Histories
  <2>2. Distinct(pushed')
    BY <1>4, <2>1 DEF DatesInv, Distinct
  <2>3. \A i \in Images, v, w \in Versions :
           v # w /\ history[i][v] # 0 => history[i][v] # pushed'[w]
    <3>1. \A i \in Images, v \in Versions : history[i][v] < d
      BY <1>4, <2>1
    <3> QED
      BY <1>4, <2>1, <3>1 DEF DatesInv
  <2> QED
    BY <2>1, <2>2, <2>3 DEF DatesInv
<1>6. ASSUME NEW i \in Images, Upload(i), pushed' = pushed PROVE Dated
  <2> DEFINE h == [v \in Versions |-> IF history[i][v] # 0 THEN history[i][v]
                                                      ELSE Front(pushed, PageSize)[v]]
  <2>1. history' = [history EXCEPT ![i] = h]
    BY <1>6 DEF Upload
  <2>2. \A v \in Versions : Front(pushed, PageSize)[v] \in {0, pushed[v]}
    BY DEF Front
  <2>3. \A v \in Versions :
           h[v] = 0 \/ (h[v] = history[i][v] /\ history[i][v] # 0) \/ h[v] = pushed[v]
    BY <2>2
  <2> HIDE DEF h
  <2>4. \A v, w \in Versions : v # w /\ h[v] # 0 => h[v] # h[w] /\ h[v] # pushed[w]
    BY <1>4, <2>3 DEF DatesInv, Distinct
  <2>5. \A j \in Images : history'[j] = IF j = i THEN h ELSE history[j]
    BY <2>1 DEF TypeOK
  <2> QED
    BY <1>6, <2>4, <2>5 DEF DatesInv, Distinct
<1>7. CASE UNCHANGED <<pushed, history>>
  BY <1>2, <1>3, <1>7 DEF DatesInv
<1>8. \A i \in Images : Upload(i) => pushed' = pushed
  BY DEF Upload
<1> HIDE DEF Dated
<1>9. Dated \/ UNCHANGED <<pushed, history>>
  BY <1>5, <1>6, <1>8, WorldAfter
<1> QED
  BY <1>2, <1>3, <1>7, <1>9 DEF Dated, DatesInv

-----------------------------------------------------------------------------
LEMMA Inductive == IInv /\ [Next]_vars => IInv'
<1> SUFFICES ASSUME IInv, [Next]_vars PROVE IInv'
  OBVIOUS
<1>1. CASE Next
  BY <1>1, TypeStep, RowsStep, DialogStep, ListStep, HistoryStep, DatesStep DEF IInv
<1>2. CASE UNCHANGED vars
  <2>1. /\ UNCHANGED <<pushed, history, host, rows, snaps, selectedId, containers>>
        /\ UNCHANGED <<loadingContainers, selected, changelog, loadingChangelog>>
        /\ UNCHANGED <<changelogError, calls, mixed, faults>>
    BY <1>2 DEF vars, worldVars, pageVars, listVars, dialogVars
  <2>2. TypeOK'
    BY <2>1 DEF IInv, TypeOK
  <2>3. RowsInv' /\ DialogInv' /\ ListInv'
    BY <2>1 DEF IInv, RowsInv, DialogInv, ListInv, Named, Own, Pending
  <2>4. HistoryInv'
    BY <2>1 DEF IInv, HistoryInv, SoundAnswer, Pending
  <2>5. DatesInv'
    BY <2>1 DEF IInv, DatesInv, FaithfulAnswer, Distinct, Pending
  <2> QED
    BY <2>2, <2>3, <2>4, <2>5 DEF IInv
<1> QED
  BY <1>1, <1>2

LEMMA Always == Spec => []IInv
BY Initially, Inductive, PTL DEF Spec

\* The variables of the controller and of the page keep their types.
THEOREM TypeCorrect == Spec => []TypeOK
<1>1. IInv => TypeOK
  BY DEF IInv
<1> QED
  BY <1>1, Always, PTL

\* Whatever snapshots replace the rows and whichever calls fail, the dialog
\* shows the answer for the container it was opened for, as long as no call of
\* an earlier dialog is under way.
THEOREM DialogIsForItsContainer == Spec => []DetailsAreOwn
<1>1. IInv => DetailsAreOwn
  BY DEF IInv, DialogInv, Own, DetailsAreOwn, Shown
<1> QED
  BY <1>1, Always, PTL

\* The list under a server is that server's, as long as no call for another
\* one is under way.
THEOREM ListIsForItsServer == Spec => []ListIsOwn
<1>1. IInv => ListIsOwn
  BY DEF IInv, ListInv, ListIsOwn
<1> QED
  BY <1>1, Always, PTL

\* The version that is announced was pushed after the running one, unless that
\* was pushed again, for any uploads, sizes of a page and limits of a list.
THEOREM AnnouncedWasPushedLater == Spec => []AnnouncedIsNewer
<1>1. IInv => AnnouncedIsNewer
  <2> SUFFICES ASSUME IInv, HasHistory, changelog.newVersion # None,
                      NEW m \in IndexOfVersion(changelog.entries, Running[changelog.of]),
                      pushed[m] = changelog.entries[m]
               PROVE  pushed[changelog.newVersion] > pushed[m]
    BY DEF AnnouncedIsNewer
  <2>1. SoundAnswer(changelog) /\ changelog \in Answer /\ changelog.of # None
        /\ changelog.entries # None
    BY DEF IInv, HistoryInv, HasHistory, Shown, TypeOK
  <2>2. /\ changelog.newVersion \in Versions /\ m \in Versions
        /\ changelog.entries \in Histories /\ pushed \in Histories
    BY <2>1 DEF Answer, IInv, TypeOK, IndexOfVersion, Newest, Entries
  <2>3. /\ changelog.entries[changelog.newVersion] \in Nat /\ changelog.entries[m] \in Nat
        /\ pushed[changelog.newVersion] \in Nat /\ pushed[m] \in Nat
    BY <2>2, BoundsAssumption DEF Histories
  <2>4. /\ changelog.entries[changelog.newVersion] > changelog.entries[m]
        /\ changelog.entries[changelog.newVersion] <= pushed[changelog.newVersion]
    BY <2>1, <2>2 DEF SoundAnswer
  <2> QED
    BY <2>3, <2>4
<1> QED
  BY <1>1, Always, PTL

-----------------------------------------------------------------------------
(* Sections. *)

LEMMA NewestExists ==
    ASSUME NEW h \in Histories, NEW S \in SUBSET Versions, S # {}
    PROVE  Newest(h, S) # {}
<1> DEFINE R == {ss \in Nat \X Nat : ss[1] < ss[2]}
           U == {MaxPushes - h[v] : v \in S}
<1>1. \A v \in S : h[v] \in Nat /\ MaxPushes - h[v] \in Nat
  BY BoundsAssumption DEF Histories
<1>2. IsWellFoundedOn(R, Nat)
  BY NatLessThanWellFounded DEF OpToRel
<1>3. U \subseteq Nat /\ U # {}
  BY <1>1
<1>4. PICK u \in U : \A x \in U : <<x, u>> \notin R
  <2> HIDE DEF R, U
  <2> QED
    BY <1>2, <1>3, WFMin
<1>5. PICK v \in S : u = MaxPushes - h[v]
  OBVIOUS
<1>6. ASSUME NEW w \in S PROVE h[w] <= h[v]
  <2>1. ~(MaxPushes - h[w] < u)
    BY <1>1, <1>4, <1>5
  <2> QED
    BY <1>1, <1>5, <2>1, BoundsAssumption
<1>7. v \in Newest(h, S)
  BY <1>5, <1>6 DEF Newest
<1> QED
  BY <1>7

\* The three sections of a dialog part the entries it was sent.
THEOREM SectionsAreComplete == Spec => []EveryEntryOnce
<1>1. IInv => EveryEntryOnce
  <2> SUFFICES ASSUME IInv, HasHistory,
                      \A v \in Entries(changelog.entries) \cup {Running[changelog.of]} :
                          v.prefix # "V",
                      NEW updateRow \in BOOLEAN
               PROVE  /\ Entries(changelog.entries)
                            = UpdateSection(updateRow) \cup CurrentSection \cup HistorySection
                      /\ UpdateSection(updateRow) \cap (CurrentSection \cup HistorySection) = {}
                      /\ CurrentSection \cap HistorySection = {}
    BY DEF EveryEntryOnce
  <2> DEFINE h == changelog.entries
             tag == Running[changelog.of]
  <2>1. /\ FaithfulAnswer(changelog) /\ changelog \in Answer
        /\ changelog.of # None /\ h # None
    BY DEF IInv, DatesInv, HasHistory, Shown, TypeOK
  <2>2. h \in Histories /\ Distinct(h) /\ changelog.newVersion = NewVersion(h, tag)
    BY <2>1 DEF FaithfulAnswer, Answer
  <2>3. \A v \in Entries(h) :
           NormalizeVersion(v) = NormalizeVersion(tag) <=> NormVersion(v) = NormVersion(tag)
    BY DEF NormalizeVersion, NormVersion
  <2>4. CurrentSection = IndexOfVersion(h, tag)
    BY <2>3 DEF CurrentSection, CurrentIndex, IndexOfVersion
  <2> DEFINE current == CurrentSection
  <2>5. /\ current \subseteq Entries(h) /\ Entries(h) \subseteq Versions
        /\ \A c, d \in current : h[c] = h[d]
    <3>1. \A v \in Versions : h[v] \in Nat
      BY <2>2, BoundsAssumption DEF Histories
    <3> QED
      BY <3>1 DEF CurrentSection, CurrentIndex, Newest, Entries
  <2>6. \A v, w \in Entries(h) : h[v] = h[w] => v = w
    BY <2>2 DEF Distinct, Entries
  <2>7. \A v \in Versions : h[v] \in Nat
    BY <2>2, BoundsAssumption DEF Histories
  <2>8. ASSUME NEW v \in Entries(h), NEW c \in current, h[v] > h[c]
        PROVE  v \in UpdateSection(updateRow)
    <3>1. PICK top \in Newest(h, Entries(h)) : TRUE
      BY <2>2, <2>5, NewestExists
    <3>2. top \in Versions /\ h[top] >= h[v]
      BY <2>5, <2>7, <3>1 DEF Newest
    <3>3. h[top] > h[c]
      BY <2>5, <2>7, <2>8, <3>2
    <3> DEFINE ahead == {w \in Newest(h, Entries(h)) :
                            \E m \in IndexOfVersion(h, tag) : IsAhead(h, w, m)}
    <3>4. top \in ahead
      BY <2>4, <3>1, <3>3 DEF IsAhead
    <3>5. ahead \subseteq Versions
      BY <2>5 DEF Newest
    <3>6. NewVersion(h, tag) = IF ahead = {} THEN None ELSE CHOOSE w \in ahead : TRUE
      BY DEF NewVersion
    <3> HIDE DEF ahead
    <3>7. NewVersion(h, tag) # None
      BY <3>4, <3>5, <3>6, NoneAssumption
    <3> QED
      BY <2>2, <2>8, <3>7 DEF UpdateSection
  <2>9. \A v \in Entries(h) :
           v \in UpdateSection(updateRow) <=> \E c \in current : h[v] > h[c]
    BY <2>8 DEF UpdateSection
  <2>10. \A v \in Entries(h) : v \in HistorySection <=> \A c \in current : h[v] < h[c]
    BY DEF HistorySection
  <2>11. UpdateSection(updateRow) \subseteq Entries(h) /\ HistorySection \subseteq Entries(h)
    BY DEF UpdateSection, HistorySection
  <2>12. \A v \in Entries(h) :
            /\ v \in current \/ (\E c \in current : h[v] > h[c]) \/ \A c \in current : h[v] < h[c]
            /\ ~((\E c \in current : h[v] > h[c]) /\ \A c \in current : h[v] < h[c])
            /\ v \in current => ~(\E c \in current : h[v] > h[c]) /\ ~(\A c \in current : h[v] < h[c])
    <3> HIDE DEF current, h
    <3> QED
      BY <2>5, <2>6, <2>7
  <2> HIDE DEF current, h
  <2> QED
    BY <2>5, <2>9, <2>10, <2>11, <2>12 DEF current, h
<1> QED
  BY <1>1, Always, PTL
=============================================================================
