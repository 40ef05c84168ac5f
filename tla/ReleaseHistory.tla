--------------------------- MODULE ReleaseHistory ---------------------------
(***************************************************************************)
(* How release notes reach the dashboard: in every registry check an agent *)
(* collects a history for each image of its host, from GitHub at most once *)
(* per cooldown and else from the registry's tags (the second half of      *)
(* pollRegistry, fetchChangelog and fetchTagHistory in                     *)
(* go/internal/agent/daemon.go), sends its update report, and only then    *)
(* uploads what it collected; the controller adds the entries to the image *)
(* row all hosts share (HandleChangelogUpload in                           *)
(* go/internal/controller/agentapi/updates.go).                            *)
(*                                                                         *)
(* Which deltas a check reports is the business of UpdateReports; here any *)
(* set of them may come with a check.                                      *)
(*                                                                         *)
(* A variant defined beside an operator and used by nobody is a plausible  *)
(* mistake in that code, which breaks one of the properties below.         *)
(***************************************************************************)
EXTENDS Integers

CONSTANTS
    Servers,     \* enrolled hosts, one agent each; every host runs every image
    Images,      \* image references
    WithSource,  \* the images whose labels name a GitHub repository
    PageSize,    \* entries asked for at once (5 in the code)
    MaxVersions, \* bound: versions published per image
    MaxFaults    \* bound: failing calls and restarts, taken together

ASSUME SourceAssumption == WithSource \subseteq Images
ASSUME BoundsAssumption ==
    PageSize \in Nat \ {0} /\ MaxVersions \in Nat /\ MaxFaults \in Nat

VARIABLES
    published, \* GitHub and the registry: versions of an image so far
    cool,      \* agent: images of lastChangelogFetch younger than the cooldown
    pc,        \* agent: where pollRegistry is
    todo,      \* agent: images it still has to collect a history for
    deltas,    \* agent: images with a digest delta to report
    uploads,   \* agent: histories it still has to upload
    row,       \* controller: the images row and whether it has a remote digest
    history,   \* controller: changelog_entries of an image
    hits,      \* history: fetches since the last window of an image ended
    faults     \* history: failing calls and restarts so far

agentVars == <<cool, pc, todo, deltas, uploads, hits>>
controllerVars == <<row, history>>
vars == <<published, agentVars, controllerVars, faults>>

Entries == [source : {"github", "registry"}, version : 1 .. MaxVersions]

TypeOK ==
    /\ published \in [Images -> 0 .. MaxVersions]
    /\ cool \in [Servers -> SUBSET Images]
    /\ pc \in [Servers -> {"idle", "collecting", "reporting", "uploading"}]
    /\ todo \in [Servers -> SUBSET Images]
    /\ deltas \in [Servers -> SUBSET Images]
    /\ uploads \in [Servers -> [Images -> SUBSET Entries]]
    /\ row \in [Images -> {"none", "bare", "digest"}]
    /\ history \in [Images -> SUBSET Entries]
    /\ hits \in [Servers -> [Images -> Nat]]
    /\ faults \in 0 .. MaxFaults

NoUploads == [i \in Images |-> {}]

Init ==
    /\ published \in [Images -> 0 .. MaxVersions]
    /\ cool = [s \in Servers |-> {}]
    /\ pc = [s \in Servers |-> "idle"]
    /\ todo = [s \in Servers |-> {}]
    /\ deltas = [s \in Servers |-> {}]
    /\ uploads = [s \in Servers |-> NoUploads]
    /\ row = [i \in Images |-> "none"]
    /\ history = [i \in Images |-> {}]
    /\ hits = [s \in Servers |-> [i \in Images |-> 0]]
    /\ faults = 0

-----------------------------------------------------------------------------
(* The world outside the program. *)

\* A version is released on GitHub and its tag pushed to the registry.
Publish(i) ==
    /\ published[i] < MaxVersions
    /\ published' = [published EXCEPT ![i] = @ + 1]
    /\ UNCHANGED <<agentVars, controllerVars, faults>>

\* The newest versions, one page of them.
PageUncut(i) == {published[i] - k : k \in 0 .. PageSize - 1}
Page(i) == {v \in 1 .. published[i] : v > published[i] - PageSize}

\* FetchSources for the labels of an image, and fetchTagHistory.
Releases(i) == IF i \in WithSource THEN [source : {"github"}, version : Page(i)] ELSE {}
Tags(i) == [source : {"registry"}, version : Page(i)]

-----------------------------------------------------------------------------
(* The agent: pollRegistry from the container list on. *)

\* A call fails, or a process ends.
Fault == faults < MaxFaults /\ faults' = faults + 1

StartPoll(s) ==
    /\ pc[s] = "idle"
    /\ \E d \in SUBSET Images : deltas' = [deltas EXCEPT ![s] = d]
    /\ pc' = [pc EXCEPT ![s] = "collecting"]
    /\ todo' = [todo EXCEPT ![s] = Images]
    /\ UNCHANGED <<published, cool, uploads, hits, controllerVars, faults>>

Collected(s, i, entries) ==
    /\ todo' = [todo EXCEPT ![s] = @ \ {i}]
    /\ uploads' = [uploads EXCEPT ![s][i] = entries]

\* lastChangelogFetch is set before the image is inspected, whatever comes of it.
ArmedBySuccess(s, i, entries) ==
    IF \E e \in entries : e.source = "github" THEN cool[s] \cup {i} ELSE cool[s]
Armed(s, i, entries) == cool[s] \cup {i}

\* fetchChangelog outside the cooldown; no entries, for whatever reason, means
\* the tags of the registry, and these may fail as well.
Fetch(s, i) ==
    /\ i \in todo[s] /\ i \notin cool[s]
    /\ hits' = [hits EXCEPT ![s][i] = @ + 1]
    /\ \E entries \in SUBSET Entries :
          /\ \/ entries = (IF Releases(i) # {} THEN Releases(i) ELSE Tags(i)) /\ UNCHANGED faults
             \/ entries \in {Tags(i), {}} /\ Fault
          /\ Collected(s, i, entries)
          /\ cool' = [cool EXCEPT ![s] = Armed(s, i, entries)]
    /\ UNCHANGED <<published, pc, deltas, controllerVars>>

\* fetchChangelog within the cooldown returns nothing, so again the tags.
SkipFetch(s, i) ==
    /\ i \in todo[s] /\ i \in cool[s]
    /\ \/ Collected(s, i, Tags(i)) /\ UNCHANGED faults
       \/ Collected(s, i, {}) /\ Fault
    /\ UNCHANGED <<published, cool, pc, deltas, hits, controllerVars>>

\* changelogFetchCooldown has passed since the last fetch.
EndCooldown(s, i) ==
    /\ i \in cool[s]
    /\ cool' = [cool EXCEPT ![s] = @ \ {i}]
    /\ hits' = [hits EXCEPT ![s][i] = 0]
    /\ UNCHANGED <<published, pc, todo, deltas, uploads, controllerVars, faults>>

FinishCollecting(s) ==
    /\ pc[s] = "collecting"
    /\ todo[s] = {}
    /\ pc' = [pc EXCEPT ![s] = IF deltas[s] = {} THEN "uploading" ELSE "reporting"]
    /\ UNCHANGED <<published, cool, todo, deltas, uploads, hits, controllerVars, faults>>

\* HandleUpdatesReport stores a remote digest for every delta.
RowAfterReport(i, d) == IF i \in d THEN "digest" ELSE row[i]

\* sendUpdatesReport succeeds.
SendReport(s) ==
    /\ pc[s] = "reporting"
    /\ row' = [i \in Images |-> RowAfterReport(i, deltas[s])]
    /\ pc' = [pc EXCEPT ![s] = "uploading"]
    /\ deltas' = [deltas EXCEPT ![s] = {}]
    /\ UNCHANGED <<published, cool, todo, uploads, hits, history, faults>>

\* sendUpdatesReport fails, recorded by the controller or not: pollRegistry
\* returns its error at once, and what was collected for upload is dropped.
ReportFails(s) ==
    /\ pc[s] = "reporting"
    /\ Fault
    /\ \/ row' = row
       \/ row' = [i \in Images |-> RowAfterReport(i, deltas[s])]
    /\ pc' = [pc EXCEPT ![s] = "idle"]
    /\ deltas' = [deltas EXCEPT ![s] = {}]
    /\ uploads' = [uploads EXCEPT ![s] = NoUploads]
    /\ UNCHANGED <<published, cool, todo, hits, history>>

\* HandleChangelogUpload: upsertImage without a digest leaves a known one
\* alone, and an entry the image has already is not inserted again.
RowAfterUpload(old) == IF old = "none" THEN "bare" ELSE old
FirstHistory(old, entries) == IF old = {} THEN entries ELSE old
AddEntries(old, entries) == old \cup entries
Store(i, entries) ==
    /\ row' = [row EXCEPT ![i] = RowAfterUpload(@)]
    /\ history' = [history EXCEPT ![i] = AddEntries(@, entries)]

\* One sendChangelogUpload.  One that fails is logged and the next follows;
\* what a late one adds, it may as well have added before the agent gave up.
Upload(s, i) ==
    /\ pc[s] = "uploading"
    /\ uploads[s][i] # {}
    /\ \/ Store(i, uploads[s][i]) /\ UNCHANGED faults
       \/ Store(i, uploads[s][i]) /\ Fault
       \/ UNCHANGED controllerVars /\ Fault
    /\ uploads' = [uploads EXCEPT ![s][i] = {}]
    /\ UNCHANGED <<published, cool, pc, todo, deltas, hits>>

FinishPoll(s) ==
    /\ pc[s] = "uploading"
    /\ uploads[s] = NoUploads
    /\ pc' = [pc EXCEPT ![s] = "idle"]
    /\ UNCHANGED <<published, cool, todo, deltas, uploads, hits, controllerVars, faults>>

\* The agent process ends and is started again; both maps were in memory.
Restart(s) ==
    /\ Fault
    /\ cool' = [cool EXCEPT ![s] = {}]
    /\ hits' = [hits EXCEPT ![s] = [i \in Images |-> 0]]
    /\ pc' = [pc EXCEPT ![s] = "idle"]
    /\ todo' = [todo EXCEPT ![s] = {}]
    /\ deltas' = [deltas EXCEPT ![s] = {}]
    /\ uploads' = [uploads EXCEPT ![s] = NoUploads]
    /\ UNCHANGED <<published, controllerVars>>

-----------------------------------------------------------------------------
Next ==
    \/ \E i \in Images : Publish(i)
    \/ \E s \in Servers :
          \/ StartPoll(s) \/ FinishCollecting(s) \/ SendReport(s) \/ ReportFails(s)
          \/ FinishPoll(s) \/ Restart(s)
          \/ \E i \in Images : Fetch(s, i) \/ SkipFetch(s, i) \/ EndCooldown(s, i) \/ Upload(s, i)

Spec == Init /\ [][Next]_vars

\* The ticker keeps firing, an hour passes, every call ends; and as faults are
\* bounded, calls come to succeed.
Fairness ==
    \A s \in Servers :
        /\ WF_vars(StartPoll(s))
        /\ WF_vars(FinishCollecting(s))
        /\ WF_vars(SendReport(s))
        /\ WF_vars(FinishPoll(s))
        /\ \A i \in Images :
              /\ WF_vars(Fetch(s, i) \/ SkipFetch(s, i))
              /\ WF_vars(EndCooldown(s, i))
              /\ WF_vars(Upload(s, i))

FairSpec == Spec /\ Fairness

-----------------------------------------------------------------------------
(* Properties. *)

\* changelogFetchCooldown "protects the unauthenticated GitHub API rate limit":
\* between two ends of a window an agent fetches an image at most once, however
\* many checks and scans run and however many fetches fail.
RateLimited == \A s \in Servers, i \in Images : hits[s][i] <= 1

\* Release notes are not lost for good: once the newest release of an image
\* stands, the dashboard comes to have it, although a failing report drops the
\* uploads behind it and the cooldown keeps the agent from fetching again.
NewestReleaseArrives ==
    \A i \in WithSource, v \in 1 .. MaxVersions :
        <>[](published[i] = v) => <>([source |-> "github", version |-> v] \in history[i])
=============================================================================
