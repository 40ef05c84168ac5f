------------------------ MODULE ReleaseHistory_proofs ------------------------
(* What ReleaseHistory promises for any number of hosts, images, versions    *)
(* and faults.                                                               *)
EXTENDS ReleaseHistory, TLAPS

(* A fetch is counted only while the image is in its window.                 *)
HitsAreCooling ==
    \A s \in Servers, i \in Images :
        hits[s][i] = 0 \/ (hits[s][i] = 1 /\ i \in cool[s])

(* Pages hold versions that have been published.                             *)
LEMMA PagesAreEntries ==
    ASSUME TypeOK, NEW i \in Images
    PROVE  Releases(i) \subseteq Entries /\ Tags(i) \subseteq Entries
<1>1. published[i] \in 0 .. MaxVersions
  BY DEF TypeOK
<1>2. Page(i) \subseteq 1 .. MaxVersions
  BY <1>1, BoundsAssumption DEF Page
<1> QED
  BY <1>2 DEF Releases, Tags, Entries

(* Every variable stays in its set, for every value of the constants.        *)
THEOREM TypeCorrect == Spec => []TypeOK
<1>1. Init => TypeOK
  BY BoundsAssumption DEF Init, TypeOK, NoUploads
<1>2. TypeOK /\ [Next]_vars => TypeOK'
  <2> SUFFICES ASSUME TypeOK, [Next]_vars PROVE TypeOK'
    OBVIOUS
  <2>1. ASSUME NEW i \in Images, Publish(i) PROVE TypeOK'
    BY <2>1, BoundsAssumption DEF Publish, agentVars, controllerVars, TypeOK
  <2>2. ASSUME NEW s \in Servers, StartPoll(s) PROVE TypeOK'
    BY <2>2 DEF StartPoll, controllerVars, TypeOK
  <2>3. ASSUME NEW s \in Servers, NEW i \in Images, Fetch(s, i) PROVE TypeOK'
    <3>1. faults' \in 0 .. MaxFaults
      BY <2>3, BoundsAssumption DEF Fetch, Fault, TypeOK
    <3>2. /\ todo' \in [Servers -> SUBSET Images]
          /\ uploads' \in [Servers -> [Images -> SUBSET Entries]]
          /\ cool' \in [Servers -> SUBSET Images]
      BY <2>3 DEF Fetch, Collected, Armed, TypeOK
    <3>3. hits' \in [Servers -> [Images -> Nat]]
      BY <2>3 DEF Fetch, TypeOK
    <3> QED
      BY <2>3, <3>1, <3>2, <3>3 DEF Fetch, controllerVars, TypeOK
  <2>4. ASSUME NEW s \in Servers, NEW i \in Images, SkipFetch(s, i) PROVE TypeOK'
    <3>1. faults' \in 0 .. MaxFaults
      BY <2>4, BoundsAssumption DEF SkipFetch, Fault, TypeOK
    <3>2. Tags(i) \in SUBSET Entries
      BY PagesAreEntries
    <3>3. /\ todo' \in [Servers -> SUBSET Images]
          /\ uploads' \in [Servers -> [Images -> SUBSET Entries]]
      <4>1. PICK entries \in SUBSET Entries : Collected(s, i, entries)
        BY <2>4, <3>2 DEF SkipFetch
      <4> QED
        BY <4>1 DEF Collected, TypeOK
    <3> QED
      BY <2>4, <3>1, <3>3 DEF SkipFetch, controllerVars, TypeOK
  <2>5. ASSUME NEW s \in Servers, NEW i \in Images, EndCooldown(s, i) PROVE TypeOK'
    BY <2>5 DEF EndCooldown, controllerVars, TypeOK
  <2>6. ASSUME NEW s \in Servers, FinishCollecting(s) PROVE TypeOK'
    BY <2>6 DEF FinishCollecting, controllerVars, TypeOK
  <2>7. ASSUME NEW s \in Servers, SendReport(s) PROVE TypeOK'
    BY <2>7 DEF SendReport, RowAfterReport, TypeOK
  <2>8. ASSUME NEW s \in Servers, ReportFails(s) PROVE TypeOK'
    <3>1. faults' \in 0 .. MaxFaults
      BY <2>8, BoundsAssumption DEF ReportFails, Fault, TypeOK
    <3>2. row' \in [Images -> {"none", "bare", "digest"}]
      BY <2>8 DEF ReportFails, RowAfterReport, TypeOK
    <3> QED
      BY <2>8, <3>1, <3>2 DEF ReportFails, NoUploads, TypeOK
  <2>9. ASSUME NEW s \in Servers, NEW i \in Images, Upload(s, i) PROVE TypeOK'
    <3>1. faults' \in 0 .. MaxFaults
      BY <2>9, BoundsAssumption DEF Upload, Fault, TypeOK
    <3>2. uploads[s][i] \in SUBSET Entries
      BY DEF TypeOK
    <3>3. /\ row' \in [Images -> {"none", "bare", "digest"}]
          /\ history' \in [Images -> SUBSET Entries]
      <4>1. CASE Store(i, uploads[s][i])
        BY <4>1, <3>2 DEF Store, RowAfterUpload, AddEntries, TypeOK
      <4>2. CASE UNCHANGED controllerVars
        BY <4>2 DEF controllerVars, TypeOK
      <4> QED
        BY <2>9, <4>1, <4>2 DEF Upload
    <3>4. uploads' \in [Servers -> [Images -> SUBSET Entries]]
      BY <2>9 DEF Upload, TypeOK
    <3> QED
      BY <2>9, <3>1, <3>3, <3>4 DEF Upload, TypeOK
  <2>10. ASSUME NEW s \in Servers, FinishPoll(s) PROVE TypeOK'
    BY <2>10 DEF FinishPoll, controllerVars, TypeOK
  <2>11. ASSUME NEW s \in Servers, Restart(s) PROVE TypeOK'
    BY <2>11, BoundsAssumption DEF Restart, Fault, NoUploads, controllerVars, TypeOK
  <2>12. CASE UNCHANGED vars
    BY <2>12 DEF vars, agentVars, controllerVars, TypeOK
  <2> QED
    BY <2>1, <2>2, <2>3, <2>4, <2>5, <2>6, <2>7, <2>8, <2>9, <2>10, <2>11, <2>12 DEF Next
<1> QED
  BY <1>1, <1>2, PTL DEF Spec

(* Between two ends of a cooldown window an agent fetches an image's release *)
(* notes at most once, whatever fails: the window is armed before the fetch. *)
THEOREM RateLimitedHolds == Spec => []RateLimited
<1>1. Init => HitsAreCooling
  BY DEF Init, HitsAreCooling
<1>2. TypeOK /\ HitsAreCooling /\ [Next]_vars => HitsAreCooling'
  <2> SUFFICES ASSUME TypeOK, HitsAreCooling, [Next]_vars PROVE HitsAreCooling'
    OBVIOUS
  <2>0. /\ hits \in [Servers -> [Images -> Nat]]
        /\ cool \in [Servers -> SUBSET Images]
    BY DEF TypeOK
  <2>1. ASSUME NEW s \in Servers, NEW i \in Images, Fetch(s, i) PROVE HitsAreCooling'
    <3>1. /\ hits' = [hits EXCEPT ![s][i] = @ + 1]
          /\ cool' = [cool EXCEPT ![s] = cool[s] \cup {i}]
          /\ i \notin cool[s]
      BY <2>1 DEF Fetch, Armed
    <3>2. hits[s][i] = 0
      BY <3>1 DEF HitsAreCooling
    <3> QED
      BY <2>0, <3>1, <3>2 DEF HitsAreCooling
  <2>2. ASSUME NEW s \in Servers, NEW i \in Images, EndCooldown(s, i) PROVE HitsAreCooling'
    BY <2>0, <2>2 DEF EndCooldown, HitsAreCooling
  <2>3. ASSUME NEW s \in Servers, Restart(s) PROVE HitsAreCooling'
    BY <2>0, <2>3 DEF Restart, HitsAreCooling
  <2>4. ASSUME UNCHANGED <<hits, cool>> PROVE HitsAreCooling'
    BY <2>4 DEF HitsAreCooling
  <2>5. ASSUME NEW i \in Images, Publish(i) PROVE UNCHANGED <<hits, cool>>
    BY <2>5 DEF Publish, agentVars
  <2>6. ASSUME NEW s \in Servers, NEW i \in Images, SkipFetch(s, i) \/ Upload(s, i)
        PROVE  UNCHANGED <<hits, cool>>
    BY <2>6 DEF SkipFetch, Upload
  <2>7. ASSUME NEW s \in Servers,
               \/ StartPoll(s) \/ FinishCollecting(s) \/ SendReport(s)
               \/ ReportFails(s) \/ FinishPoll(s)
        PROVE  UNCHANGED <<hits, cool>>
    BY <2>7 DEF StartPoll, FinishCollecting, SendReport, ReportFails, FinishPoll
  <2>8. CASE UNCHANGED vars
    BY <2>4, <2>8 DEF vars, agentVars
  <2> QED
    BY <2>1, <2>2, <2>3, <2>4, <2>5, <2>6, <2>7, <2>8 DEF Next
<1>3. HitsAreCooling => RateLimited
  BY DEF HitsAreCooling, RateLimited
<1> QED
  BY <1>1, <1>2, <1>3, TypeCorrect, PTL DEF Spec

(* A remote digest, once stored for an image, survives every later upload    *)
(* and report from any host.                                                 *)
THEOREM DigestSurvives ==
    Spec => [][\A i \in Images : row[i] = "digest" => row'[i] = "digest"]_row
<1> DEFINE Survives == \A i \in Images : row[i] = "digest" => row'[i] = "digest"
<1>1. TypeOK /\ [Next]_vars => [Survives]_row
  <2> SUFFICES ASSUME TypeOK, [Next]_vars, row' # row PROVE Survives
    BY DEF Survives
  <2>0. row \in [Images -> {"none", "bare", "digest"}]
    BY DEF TypeOK
  <2>1. ASSUME NEW s \in Servers, SendReport(s) \/ ReportFails(s) PROVE Survives
    BY <2>0, <2>1 DEF SendReport, ReportFails, RowAfterReport
  <2>2. ASSUME NEW s \in Servers, NEW i \in Images, Upload(s, i) PROVE Survives
    BY <2>0, <2>2 DEF Upload, Store, RowAfterUpload, controllerVars
  <2>3. ASSUME NEW i \in Images, Publish(i) PROVE FALSE
    BY <2>3 DEF Publish, controllerVars
  <2>4. ASSUME NEW s \in Servers, NEW i \in Images,
               Fetch(s, i) \/ SkipFetch(s, i) \/ EndCooldown(s, i)
        PROVE  FALSE
    BY <2>4 DEF Fetch, SkipFetch, EndCooldown, controllerVars
  <2>5. ASSUME NEW s \in Servers,
               StartPoll(s) \/ FinishCollecting(s) \/ FinishPoll(s) \/ Restart(s)
        PROVE  FALSE
    BY <2>5 DEF StartPoll, FinishCollecting, FinishPoll, Restart, controllerVars
  <2>6. ~ UNCHANGED vars
    BY DEF vars, controllerVars
  <2> QED
    BY <2>1, <2>2, <2>3, <2>4, <2>5, <2>6 DEF Next
<1> QED
  BY <1>1, TypeCorrect, PTL DEF Spec, Survives

(* What has been collected for upload leaves the agent only into the history, *)
(* where it stays, or by a failing call or the end of the process; a check    *)
(* never overwrites what an earlier one has left to upload.                   *)
NotesAreKept ==
    \A i \in Images :
        /\ history[i] \subseteq history'[i]
        /\ \A s \in Servers :
              uploads[s][i] \subseteq uploads'[s][i] \cup history'[i] \/ faults' = faults + 1

(* Nothing is left to upload for an image that a check has still to look at.  *)
OneCheckAtATime ==
    \A s \in Servers :
        /\ pc[s] # "collecting" => todo[s] = {}
        /\ pc[s] = "idle" => uploads[s] = NoUploads
        /\ \A i \in todo[s] : uploads[s][i] = {}

LEMMA OneCheckStep == TypeOK /\ OneCheckAtATime /\ [Next]_vars => OneCheckAtATime'
<1> SUFFICES ASSUME TypeOK, OneCheckAtATime, [Next]_vars PROVE OneCheckAtATime'
  OBVIOUS
<1>0. /\ pc \in [Servers -> {"idle", "collecting", "reporting", "uploading"}]
      /\ todo \in [Servers -> SUBSET Images]
      /\ uploads \in [Servers -> [Images -> SUBSET Entries]]
  BY DEF TypeOK
<1>1. ASSUME NEW s \in Servers, NEW i \in Images, NEW entries, i \in todo[s],
             Collected(s, i, entries), pc' = pc
      PROVE  OneCheckAtATime'
  <2>1. /\ todo' = [todo EXCEPT ![s] = todo[s] \ {i}]
        /\ uploads' = [uploads EXCEPT ![s] = [uploads[s] EXCEPT ![i] = entries]]
        /\ pc[s] = "collecting"
    BY <1>0, <1>1 DEF Collected, OneCheckAtATime
  <2>2. ASSUME NEW r \in Servers, r # s
        PROVE  todo'[r] = todo[r] /\ uploads'[r] = uploads[r]
    BY <1>0, <2>1, <2>2
  <2>3. \A j \in todo'[s] : j \in todo[s] /\ uploads'[s][j] = uploads[s][j]
    BY <1>0, <2>1
  <2> QED
    BY <1>0, <1>1, <2>1, <2>2, <2>3 DEF OneCheckAtATime
<1>2. ASSUME NEW s \in Servers, NEW i \in Images, Fetch(s, i) \/ SkipFetch(s, i)
      PROVE  OneCheckAtATime'
  BY <1>1, <1>2 DEF Fetch, SkipFetch
<1>3. ASSUME NEW s \in Servers, NEW i \in Images, Upload(s, i) PROVE OneCheckAtATime'
  BY <1>0, <1>3 DEF Upload, OneCheckAtATime, NoUploads
<1>4. ASSUME NEW s \in Servers, StartPoll(s) PROVE OneCheckAtATime'
  BY <1>0, <1>4 DEF StartPoll, OneCheckAtATime, NoUploads
<1>5. ASSUME NEW s \in Servers,
             FinishCollecting(s) \/ SendReport(s) \/ ReportFails(s) \/ FinishPoll(s) \/ Restart(s)
      PROVE  OneCheckAtATime'
  BY <1>0, <1>5 DEF FinishCollecting, SendReport, ReportFails, FinishPoll, Restart,
                    OneCheckAtATime, NoUploads
<1>6. CASE UNCHANGED <<pc, todo, uploads>>
  BY <1>6 DEF OneCheckAtATime
<1> QED
  BY <1>2, <1>3, <1>4, <1>5, <1>6 DEF Next, Publish, EndCooldown, vars, agentVars

LEMMA KeepStep == TypeOK /\ OneCheckAtATime /\ [Next]_vars => NotesAreKept
<1> SUFFICES ASSUME TypeOK, OneCheckAtATime, [Next]_vars PROVE NotesAreKept
  OBVIOUS
<1>0. /\ uploads \in [Servers -> [Images -> SUBSET Entries]]
      /\ history \in [Images -> SUBSET Entries]
  BY DEF TypeOK
<1>1. ASSUME NEW s \in Servers, NEW i \in Images, Upload(s, i) PROVE NotesAreKept
  <2>1. /\ uploads' = [uploads EXCEPT ![s] = [uploads[s] EXCEPT ![i] = {}]]
        /\ \/ history' = [history EXCEPT ![i] = history[i] \cup uploads[s][i]]
           \/ history' = history /\ faults' = faults + 1
    BY <1>0, <1>1 DEF Upload, Store, AddEntries, Fault, controllerVars
  <2> QED
    BY <1>0, <2>1 DEF NotesAreKept
<1>2. ASSUME NEW s \in Servers, NEW i \in Images, NEW entries, i \in todo[s],
             Collected(s, i, entries), history' = history
      PROVE  NotesAreKept
  <2>1. uploads' = [uploads EXCEPT ![s] = [uploads[s] EXCEPT ![i] = entries]]
    BY <1>0, <1>2 DEF Collected
  <2>2. uploads[s][i] = {}
    BY <1>2 DEF OneCheckAtATime
  <2> QED
    BY <1>0, <1>2, <2>1, <2>2 DEF NotesAreKept
<1>3. ASSUME NEW s \in Servers, NEW i \in Images, Fetch(s, i) \/ SkipFetch(s, i)
      PROVE  NotesAreKept
  BY <1>2, <1>3 DEF Fetch, SkipFetch, controllerVars
<1>4. ASSUME NEW s \in Servers, ReportFails(s) \/ Restart(s) PROVE NotesAreKept
  BY <1>4 DEF ReportFails, Restart, Fault, controllerVars, NotesAreKept
<1>5. CASE UNCHANGED <<uploads, history>>
  BY <1>5 DEF NotesAreKept
<1> QED
  BY <1>1, <1>3, <1>4, <1>5 DEF Next, Publish, EndCooldown, StartPoll, FinishCollecting, SendReport,
                                FinishPoll, vars, agentVars, controllerVars

(* For any number of hosts that share images, however reports and uploads     *)
(* interleave: notes are lost by failures only.                               *)
THEOREM NotesAreKeptHolds == Spec => [][NotesAreKept]_vars
<1>1. Init => OneCheckAtATime
  BY DEF Init, OneCheckAtATime
<1>2. Spec => [](TypeOK /\ OneCheckAtATime)
  BY <1>1, OneCheckStep, TypeCorrect, PTL DEF Spec
<1>3. TypeOK /\ OneCheckAtATime /\ [Next]_vars => [NotesAreKept]_vars
  BY KeepStep
<1> QED
  BY <1>2, <1>3, PTL DEF Spec
=============================================================================
