------------------------------ MODULE Dashboard ------------------------------
(***************************************************************************)
(* The containers page (web/src/routes/containers/+page.svelte) and what   *)
(* answers it: the list of a server's containers (HandleListContainers in  *)
(* .../agentapi/admin_handlers.go) and the details of one, the history of  *)
(* its image and what is newer (HandleContainerChangelog in                *)
(* .../agentapi/frontend_updates.go).  Meanwhile snapshots replace the     *)
(* rows of the containers (HandleContainerSnapshot in agentapi.go), and    *)
(* tags are pushed, pushed again and uploaded to the history               *)
(* (HandleChangelogUpload in updates.go).                                  *)
(*                                                                         *)
(* The page's calls are answered in any order, or fail; what it holds      *)
(* grows old, for it loads its list only when a server is selected and     *)
(* once after a scan was asked for.                                        *)
(*                                                                         *)
(* A variant defined beside an operator and used by nobody is a plausible  *)
(* mistake in that code, which breaks one of the properties below.         *)
(***************************************************************************)
EXTENDS Naturals, FiniteSets

CONSTANTS
    Servers,      \* enrolled hosts
    Containers,   \* containers, by docker_id
    Home,         \* the host of a container
    Versions,     \* tags and release names of a repository: [prefix, base]
    Running,      \* the tag a container runs
    PageSize,     \* versions an upload carries (5 in the code)
    Limit,        \* entries of a history that are listed (50 in the code)
    Slots,        \* bound: calls of the page in flight
    None,         \* nothing there
    MaxPushes,    \* bound: pushes to the registry
    MaxSnapshots, \* bound: snapshots of all hosts together
    MaxFaults     \* bound: failing calls and queries

ASSUME HomeAssumption == Home \in [Containers -> Servers] /\ Running \in [Containers -> Versions]
ASSUME NoneAssumption == None \notin Servers /\ None \notin Containers /\ None \notin Versions
ASSUME BoundsAssumption ==
    /\ PageSize \in Nat \ {0} /\ Limit \in Nat \ {0}
    /\ MaxPushes \in Nat /\ MaxSnapshots \in Nat /\ MaxFaults \in Nat

-----------------------------------------------------------------------------
(* Histories.  One gives each version the date of its entry, 0 for none.      *)

Histories == [Versions -> 0 .. MaxPushes]
NoHistory == [v \in Versions |-> 0]
Images == {Running[c] : c \in Containers}

Entries(h) == {v \in Versions : h[v] # 0}
After(h, v) == {w \in Entries(h) : h[w] > h[v]}
Newest(h, S) == {v \in S : \A w \in S : h[w] <= h[v]}

\* The newest n versions: what the registry's page holds and what
\* listChangelog's ORDER BY and LIMIT leave.
Front(h, n) ==
    [v \in Versions |-> IF Cardinality(After(h, v)) < n THEN h[v] ELSE 0]

\* normalizeVersion of the controller strips a "v" and then ignores case;
\* normVersion of the page strips a "V" too.
NormalizeVersion(v) == IF v.prefix = "V" THEN v ELSE [prefix |-> "", base |-> v.base]
NormVersion(v) == [prefix |-> "", base |-> v.base]

\* indexOfVersion of the controller and currentIndex of the page: the first,
\* newest, entry that is the running version.
IndexOfVersion(h, v) ==
    Newest(h, {w \in Entries(h) : NormalizeVersion(w) = NormalizeVersion(v)})
CurrentIndex(h, v) == Newest(h, {w \in Entries(h) : NormVersion(w) = NormVersion(v)})

-----------------------------------------------------------------------------
VARIABLES
    pushed,    \* registry: when a version was pushed last
    history,   \* controller: changelog_entries of an image
    host,      \* the containers there are
    rows,      \* controller: containers, [id, of]
    snaps,     \* controller: snapshots handled so far
    selectedId, containers, loadingContainers, \* page: the server, its list
    selected, changelog, loadingChangelog, changelogError, \* page: the dialog
    calls,     \* calls in flight
    mixed,     \* history: kinds of calls the newest of which overtook another
    faults

worldVars  == <<pushed, history, host, rows, snaps>>
listVars   == <<selectedId, containers, loadingContainers>>
dialogVars == <<selected, changelog, loadingChangelog, changelogError>>
pageVars   == <<listVars, dialogVars, calls, mixed>>
vars       == <<worldVars, pageVars, faults>>

Ids   == (1 .. MaxSnapshots) \X Containers
Row   == [id : Ids, of : Containers]
List  == [server : Servers \cup {None}, rows : SUBSET Row]

\* ContainerChangelogResponse.  Its entries are None where a nil slice was
\* encoded, which JSON calls null.
Answer ==
    [of : Containers \cup {None}, entries : Histories \cup {None},
     newVersion : Versions \cup {None}]

ListCall    == [kind : {"list"}, server : Servers, answer : List \cup {None}]
DetailsCall == [kind : {"details"}, row : Row, answer : Answer \cup {None}]

TypeOK ==
    /\ pushed \in Histories
    /\ history \in [Images -> Histories]
    /\ host \subseteq Containers
    /\ rows \subseteq Row
    /\ snaps \in 0 .. MaxSnapshots
    /\ selectedId \in Servers \cup {None}
    /\ containers \in List
    /\ selected \in Row \cup {None}
    /\ changelog \in Answer \cup {None}
    /\ {loadingContainers, loadingChangelog, changelogError} \subseteq BOOLEAN
    /\ calls \in [Slots -> ListCall \cup DetailsCall \cup {None}]
    /\ mixed \subseteq {"list", "details"}
    /\ faults \in 0 .. MaxFaults

Init ==
    /\ pushed = NoHistory
    /\ history = [i \in Images |-> NoHistory]
    /\ host \in SUBSET Containers
    /\ rows = {}
    /\ snaps = 0
    /\ selectedId = None
    /\ containers = [server |-> None, rows |-> {}]
    /\ loadingContainers = FALSE
    /\ selected = None
    /\ changelog = None
    /\ loadingChangelog = FALSE
    /\ changelogError = FALSE
    /\ calls = [k \in Slots |-> None]
    /\ mixed = {}
    /\ faults = 0

-----------------------------------------------------------------------------
(* The registry, the hosts and the agents. *)

\* A version is pushed, for the first time or again, or released on GitHub; no
\* two at the same moment.
Push(v, d) ==
    /\ \A w \in Versions : pushed[w] < d
    /\ d = 1 \/ \E w \in Versions : pushed[w] = d - 1
    /\ pushed' = [pushed EXCEPT ![v] = d]
    /\ UNCHANGED <<history, host, rows, snaps, pageVars, faults>>

\* HandleChangelogUpload: ON CONFLICT DO NOTHING keeps the date of an entry.
Upload(i) ==
    /\ history' = [history EXCEPT ![i] =
                     [v \in Versions |-> IF @[v] # 0 THEN @[v] ELSE Front(pushed, PageSize)[v]]]
    /\ UNCHANGED <<pushed, host, rows, snaps, pageVars, faults>>

\* A container is created or removed.
Change(c) ==
    /\ host' = IF c \in host THEN host \ {c} ELSE host \cup {c}
    /\ UNCHANGED <<pushed, history, rows, snaps, pageVars, faults>>

\* HandleContainerSnapshot: the rows of a server are deleted and inserted, each
\* under an id that was never used.
NewIdByPlace(s, c) == <<1, Cardinality({d \in host : Home[d] = s /\ d <= c})>>
NewId(s, c) == <<snaps + 1, c>>
Snapshot(s) ==
    /\ snaps < MaxSnapshots
    /\ snaps' = snaps + 1
    /\ rows' = {r \in rows : Home[r.of] # s}
               \cup {[id |-> NewId(s, c), of |-> c] : c \in {d \in host : Home[d] = s}}
    /\ UNCHANGED <<pushed, history, host, pageVars, faults>>

-----------------------------------------------------------------------------
(* The page: its list. *)

Pending(kind) == {k \in Slots : calls[k] # None /\ calls[k].kind = kind}

\* The call of loadContainers.
ListCallOf(s) == [kind |-> "list", server |-> s, answer |-> None]
Overtakes(s) == \E k \in Pending("list") : calls[k].server # s
MixedAfter(kind, overtakes) == IF overtakes THEN mixed \cup {kind} ELSE mixed \ {kind}

\* loadServers, as long as no server is selected: it selects one and loads its
\* containers, and so does the effect of the selection.
LoadServers(s) ==
    /\ selectedId = None
    /\ selectedId' = s
    /\ loadingContainers' = TRUE
    /\ \E j, k \in Slots :
          /\ j # k /\ calls[j] = None /\ calls[k] = None
          /\ calls' = [calls EXCEPT ![j] = ListCallOf(s), ![k] = ListCallOf(s)]
    /\ UNCHANGED <<worldVars, containers, dialogVars, mixed, faults>>

LoadContainers(s) ==
    /\ loadingContainers' = TRUE
    /\ \E k \in Slots :
          /\ calls[k] = None
          /\ calls' = [calls EXCEPT ![k] = ListCallOf(s)]
    /\ mixed' = MixedAfter("list", Overtakes(s))
    /\ UNCHANGED <<worldVars, containers, dialogVars, faults>>

\* A click on a server, and the effect that follows it.
Select(s) ==
    /\ selectedId \notin {s, None}
    /\ selectedId' = s
    /\ LoadContainers(s)

\* The reload three seconds after scanNow, which may be asked for at any time.
\* loadServers, ten seconds later and every minute, loads no containers while a
\* server is selected.
Reload ==
    /\ selectedId # None
    /\ LoadContainers(selectedId)
    /\ UNCHANGED selectedId

-----------------------------------------------------------------------------
(* The page: its dialog. *)

\* open: a click on a card.
Open(r) ==
    /\ ~loadingContainers
    /\ r \in containers.rows
    /\ selected' = r
    /\ changelog' = None
    /\ loadingChangelog' = TRUE
    /\ changelogError' = FALSE
    /\ \E k \in Slots :
          /\ calls[k] = None
          /\ calls' = [calls EXCEPT ![k] = [kind |-> "details", row |-> r, answer |-> None]]
    /\ mixed' = MixedAfter("details", Pending("details") # {})
    /\ UNCHANGED <<worldVars, listVars, faults>>

\* close
Close ==
    /\ selected # None
    /\ selected' = None
    /\ changelog' = None
    /\ UNCHANGED <<worldVars, listVars, loadingChangelog, changelogError, calls, mixed, faults>>

-----------------------------------------------------------------------------
(* The handlers.  HandleContainerChangelog reads the row, the history and the *)
(* update row one after the other; what comes between adds to the history or  *)
(* replaces the row, and either is as if it came before or after all three.   *)

Unanswered(k, kind) == k \in Pending(kind) /\ calls[k].answer = None
Reply(k, a) == calls' = [calls EXCEPT ![k].answer = a]

\* HandleListContainers replaces a nil slice by an empty one, as listChangelog
\* below does not: encoded as null, it would be an answer without rows.
RowsOf(s) == {r \in rows : Home[r.of] = s}
ListAnswerOfNil(s) ==
    IF RowsOf(s) = {} THEN [server |-> s] ELSE [server |-> s, rows |-> RowsOf(s)]
ListAnswer(s) == [server |-> s, rows |-> RowsOf(s)]
ServeList(k) ==
    /\ Unanswered(k, "list")
    /\ Reply(k, ListAnswer(calls[k].server))
    /\ UNCHANGED <<worldVars, listVars, dialogVars, mixed, faults>>

NoRow == [of |-> None, entries |-> NoHistory, newVersion |-> None]

\* The newer-version heuristic: what stands first, if it is not the running one.
IsAheadOrFirst(h, v, m) == h[v] >= h[m]
IsAhead(h, v, m) == h[v] > h[m]
NewVersion(h, tag) ==
    LET ahead == {v \in Newest(h, Entries(h)) :
                     \E m \in IndexOfVersion(h, tag) : IsAhead(h, v, m)}
    IN  IF ahead = {} THEN None ELSE CHOOSE v \in ahead : TRUE

\* The answer for a container, from the entries that are listed for its image.
Details(c, entries) ==
    [of |-> c, entries |-> entries,
     newVersion |-> IF entries = None THEN None ELSE NewVersion(entries, Running[c])]

\* listChangelog: nothing is appended to a nil slice.
ListChangelog(i) == IF history[i] = NoHistory THEN None ELSE Front(history[i], Limit)

Found(k) == {r.of : r \in {q \in rows : q.id = calls[k].row.id}}

ServeDetails(k) ==
    /\ Unanswered(k, "details")
    /\ \/ Found(k) = {} /\ Reply(k, NoRow)
       \/ \E c \in Found(k) : Reply(k, Details(c, ListChangelog(Running[c])))
    /\ UNCHANGED <<worldVars, listVars, dialogVars, mixed, faults>>

Fault == faults < MaxFaults /\ faults' = faults + 1

\* A query fails, and the answer is as if it had found nothing; the update row's
\* touches nothing here.
ServeDetailsBadly(k) ==
    /\ Fault
    /\ Unanswered(k, "details")
    /\ \/ Reply(k, NoRow)
       \/ \E c \in Found(k) : Reply(k, Details(c, NoHistory))
    /\ UNCHANGED <<worldVars, listVars, dialogVars, mixed>>

\* An answer arrives at the page.
ReceiveList(k) ==
    /\ k \in Pending("list") /\ calls[k].answer # None
    /\ containers' = calls[k].answer
    /\ loadingContainers' = FALSE
    /\ calls' = [calls EXCEPT ![k] = None]
    /\ UNCHANGED <<worldVars, selectedId, dialogVars, mixed, faults>>

ReceiveDetails(k) ==
    /\ k \in Pending("details") /\ calls[k].answer # None
    /\ changelog' = calls[k].answer
    /\ loadingChangelog' = FALSE
    /\ calls' = [calls EXCEPT ![k] = None]
    /\ UNCHANGED <<worldVars, listVars, selected, changelogError, mixed, faults>>

\* A call fails, on its way or with a status.
ListAfterErrorAsBefore == containers
ListAfterError == [server |-> None, rows |-> {}]
ListFails(k) ==
    /\ Fault
    /\ k \in Pending("list")
    /\ containers' = ListAfterError
    /\ loadingContainers' = FALSE
    /\ calls' = [calls EXCEPT ![k] = None]
    /\ UNCHANGED <<worldVars, selectedId, dialogVars, mixed>>

DetailsFail(k) ==
    /\ Fault
    /\ k \in Pending("details")
    /\ changelogError' = TRUE
    /\ loadingChangelog' = FALSE
    /\ calls' = [calls EXCEPT ![k] = None]
    /\ UNCHANGED <<worldVars, listVars, selected, changelog, mixed>>

-----------------------------------------------------------------------------
Next ==
    \/ \E v \in Versions, d \in 1 .. MaxPushes : Push(v, d)
    \/ \E i \in Images : Upload(i)
    \/ \E c \in Containers : Change(c)
    \/ \E s \in Servers : Snapshot(s) \/ LoadServers(s) \/ Select(s)
    \/ Reload
    \/ \E r \in Row : Open(r)
    \/ Close
    \/ \E k \in Slots :
          \/ ServeList(k) \/ ReceiveList(k) \/ ListFails(k)
          \/ ServeDetails(k) \/ ServeDetailsBadly(k) \/ ReceiveDetails(k) \/ DetailsFail(k)

Spec == Init /\ [][Next]_vars

-----------------------------------------------------------------------------
(* What the dialog shows of an answer, in its three sections. *)

Shown == selected # None /\ changelog # None /\ ~loadingChangelog /\ ~changelogError
HasHistory == Shown /\ changelog.of # None /\ changelog.entries # None

\* The entry beside "running".
CurrentSection == CurrentIndex(changelog.entries, Running[changelog.of])

\* Under "Update available", which is there for a newer version and for an
\* update row; whether one stands is for UpdateReports to say.
UpdateSection(updateRow) ==
    {v \in Entries(changelog.entries) :
        /\ updateRow \/ changelog.newVersion # None
        /\ \E c \in CurrentSection : changelog.entries[v] > changelog.entries[c]}

\* "Release history".
HistorySectionWithCurrent ==
    {v \in Entries(changelog.entries) :
        \A c \in CurrentSection : changelog.entries[v] <= changelog.entries[c]}
HistorySection ==
    {v \in Entries(changelog.entries) :
        \A c \in CurrentSection : changelog.entries[v] < changelog.entries[c]}

-----------------------------------------------------------------------------
(* Properties. *)

\* "entries published after the running version are the 'new' changelog shown
\* above the current one" (HandleContainerChangelog): although the controller
\* and the page look for the running version each in its own way, the dialog
\* shows every entry it was sent once, in one of its sections; unless a version
\* is spelled with a capital V, which only the page takes off.
EveryEntryOnce ==
    HasHistory
    /\ (\A v \in Entries(changelog.entries) \cup {Running[changelog.of]} : v.prefix # "V") =>
        \A updateRow \in BOOLEAN :
            /\ Entries(changelog.entries)
                  = UpdateSection(updateRow) \cup CurrentSection \cup HistorySection
            /\ UpdateSection(updateRow) \cap (CurrentSection \cup HistorySection) = {}
            /\ CurrentSection \cap HistorySection = {}

\* "a newer version present in the release history" (ContainerChangelogUpdate):
\* the version that is announced was pushed after the running one, however
\* often either was pushed and whichever uploads the history is from; unless
\* the running one was pushed again since its entry was dated, which
\* ON CONFLICT DO NOTHING (HandleChangelogUpload) does not notice.
AnnouncedIsNewer ==
    HasHistory /\ changelog.newVersion # None =>
        \A m \in IndexOfVersion(changelog.entries, Running[changelog.of]) :
            pushed[m] = changelog.entries[m] => pushed[changelog.newVersion] > pushed[m]

\* "the release history for the image the container is running"
\* (HandleContainerChangelog): whatever snapshots came between the page's list
\* and its question, the dialog never shows the answer for another container,
\* and an empty one only if the row is gone or the query failed; unless the
\* call was sent while that of an earlier dialog was under way.
DetailsAreOwn ==
    Shown /\ "details" \notin mixed =>
        \/ changelog.of = selected.of
        \/ changelog.of = None /\ (selected \notin rows \/ faults > 0)

\* The list that is shown under a server is that server's: failing loads and
\* those of a scan's timers included; unless the call overtook one for another
\* server.
ListIsOwn ==
    selectedId # None /\ ~loadingContainers /\ "list" \notin mixed =>
        containers.server \in {selectedId, None}

\* "entries: ChangelogEntry[]" (ContainerChangelog in api.ts): the answer for a
\* container has a list of entries, if an empty one.
EntriesAreList == changelog # None => changelog.entries # None
=============================================================================
