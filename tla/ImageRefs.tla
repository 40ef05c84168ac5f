----------------------------- MODULE ImageRefs -----------------------------
(***************************************************************************)
(* Which images a registry check asks about, and whom it asks:             *)
(* pollRegistry (go/internal/agent/daemon.go) goes through the containers, *)
(* parses the image reference of each (go/internal/agent/registry/         *)
(* registry.go), and keeps one container for every repo:tag; it then asks  *)
(* Docker Hub for digests, and for tags where there are no release notes.  *)
(*                                                                         *)
(* A reference is what its text consists of: the components between the    *)
(* slashes, the tag if there is one, and whether a digest is pinned.       *)
(*                                                                         *)
(* A variant defined beside an operator and used by nobody is a plausible  *)
(* mistake in that code, which breaks one of the properties below.         *)
(***************************************************************************)
EXTENDS Naturals, Sequences

CONSTANTS
    References,   \* image references; one without components cannot be parsed
    Hosts,        \* components that name a registry: with a dot or colon, or localhost
    HubHosts,     \* the names of Docker Hub among them
    Library,      \* the namespace of Docker Hub's official images
    Latest,       \* the default tag
    None,         \* no tag, no registry, nothing kept
    ImageIds,     \* image ids of the Docker host
    MaxContainers \* bound: containers of the host

ASSUME HubAssumption == HubHosts \subseteq Hosts
ASSUME BoundAssumption == MaxContainers \in Nat

-----------------------------------------------------------------------------
(* Image references. *)

HasRegistry(raw) == Len(raw.path) > 1 /\ raw.path[1] \in Hosts

\* Parse; an official image is in Docker Hub's library.
Parse(raw) ==
    [registry |-> IF HasRegistry(raw) THEN raw.path[1] ELSE None,
     repo     |-> CASE Len(raw.path) = 1 -> <<Library>> \o raw.path
                    [] HasRegistry(raw)  -> Tail(raw.path)
                    [] OTHER             -> raw.path,
     tag      |-> IF raw.tag = None THEN Latest ELSE raw.tag]

\* Ref.String: repo:tag, without the registry.
String(ref) == [repo |-> ref.repo, tag |-> ref.tag]

\* A canonical repo:tag is read as a reference again.
Reread(key) == Parse([path |-> key.repo, tag |-> key.tag, pinned |-> FALSE])

\* New has a provider for Docker Hub only.
Supported(ref) == ref.registry \in HubHosts \cup {None}

\* What pollRegistry passes over at once.
Skipped(raw) == raw.path = <<>> \/ raw.pinned

Keys == {String(Parse(raw)) : raw \in {r \in References : ~Skipped(r)}}
Containers == [image : References, running : BOOLEAN, id : ImageIds]

\* What is kept of a container.
Target == [ref : {Parse(raw) : raw \in {r \in References : ~Skipped(r)}}, id : ImageIds]

ASSUME NoneAssumption == None \notin Target

-----------------------------------------------------------------------------
VARIABLES
    containers,    \* what ListContainers returned, in its order
    pos,           \* the container pollRegistry looks at next
    seen,          \* the running container kept for a repo:tag
    changelogSeen, \* the container kept for a repo:tag, running or not
    resolved,      \* entries of seen that are done
    asked,         \* those Docker Hub was asked a digest for
    collected,     \* entries of changelogSeen that are done
    tagged         \* those Docker Hub was asked the tags for

vars == <<containers, pos, seen, changelogSeen, resolved, asked, collected, tagged>>

TypeOK ==
    /\ containers \in Seq(Containers) /\ Len(containers) <= MaxContainers
    /\ pos \in 1 .. Len(containers) + 1
    /\ seen \in [Keys -> Target \cup {None}]
    /\ changelogSeen \in [Keys -> Target \cup {None}]
    /\ resolved \subseteq Keys /\ asked \subseteq resolved
    /\ collected \subseteq Keys /\ tagged \subseteq collected

Init ==
    /\ \E n \in 0 .. MaxContainers : containers \in [1 .. n -> Containers]
    /\ pos = 1
    /\ seen = [k \in Keys |-> None]
    /\ changelogSeen = [k \in Keys |-> None]
    /\ resolved = {} /\ asked = {} /\ collected = {} /\ tagged = {}

\* The first container with a repo:tag is the one that counts.
KeepLast(kept, c) ==
    [kept EXCEPT ![String(Parse(c.image))] = [ref |-> Parse(c.image), id |-> c.id]]
KeepUnparsed(kept, c) ==
    [kept EXCEPT ![String(Parse(c.image))] = IF @ = None THEN [ref |-> c.image, id |-> c.id] ELSE @]
Keep(kept, c) ==
    [kept EXCEPT ![String(Parse(c.image))] =
        IF @ = None THEN [ref |-> Parse(c.image), id |-> c.id] ELSE @]

\* One round of the loop over the containers.
Visit ==
    /\ pos <= Len(containers)
    /\ pos' = pos + 1
    /\ LET c == containers[pos] IN
          /\ changelogSeen' = IF Skipped(c.image) THEN changelogSeen ELSE Keep(changelogSeen, c)
          /\ seen' = IF Skipped(c.image) \/ ~c.running THEN seen ELSE Keep(seen, c)
    /\ UNCHANGED <<containers, resolved, asked, collected, tagged>>

Listed == pos > Len(containers)

\* The provider of a target is made from the reference its container carries.
HasProviderByKey(target) == Supported(Reread(String(target.ref)))
HasProvider(target) == Supported(target.ref)

\* One round of the loop over seen; its order is that of a Go map.
Resolve(k) ==
    /\ Listed
    /\ seen[k] # None /\ k \notin resolved
    /\ resolved' = resolved \cup {k}
    /\ asked' = IF HasProvider(seen[k]) THEN asked \cup {k} ELSE asked
    /\ UNCHANGED <<containers, pos, seen, changelogSeen, collected, tagged>>

\* fetchTagHistory makes its provider from the canonical repo:tag.
HasTagLister(k) == Supported(Reread(k))

\* One round of the loop over changelogSeen: release notes are found, or the
\* registry's tags stand in for them.
Collect(k) ==
    /\ \A r \in Keys : seen[r] # None => r \in resolved
    /\ Listed
    /\ changelogSeen[k] # None /\ k \notin collected
    /\ collected' = collected \cup {k}
    /\ \/ tagged' = tagged
       \/ HasTagLister(k) /\ tagged' = tagged \cup {k}
    /\ UNCHANGED <<containers, pos, seen, changelogSeen, resolved, asked>>

Next == Visit \/ \E k \in Keys : Resolve(k) \/ Collect(k)

Spec == Init /\ [][Next]_vars

-----------------------------------------------------------------------------
(* Properties. *)

\* The containers looked at so far that carry a repo:tag, pinned ones aside.
Carrying(k) ==
    {i \in 1 .. pos - 1 : /\ ~Skipped(containers[i].image)
                         /\ String(Parse(containers[i].image)) = k}

KeepsFirst(kept, S) ==
    IF S = {} THEN kept = None
    ELSE \E i \in S : /\ \A j \in S : i <= j
                      /\ kept = [ref |-> Parse(containers[i].image), id |-> containers[i].id]

\* The registry a reference names; Docker Hub goes by several names.
Registry(ref) == IF Supported(ref) THEN None ELSE ref.registry
OneRegistry(S) ==
    \A i, j \in S : Registry(Parse(containers[i].image)) = Registry(Parse(containers[j].image))

\* Of the containers of one image, in whatever spellings, the first stands for
\* all of them in the release notes, and the first running one for the digest:
\* a stopped container never hides a running one, and a pinned one hides
\* nothing (the order of the checks in pollRegistry's loop).  A repository is
\* "fully-qualified" (Ref.Repo), and so containers that carry a repo:tag from
\* different registries have different images; String does not tell them apart,
\* and nothing is said of which of them stands for the others.
FirstContainerCounts ==
    \A k \in Keys :
        LET carrying == Carrying(k)
            running  == {i \in carrying : containers[i].running}
        IN  /\ OneRegistry(carrying) => KeepsFirst(changelogSeen[k], carrying)
            /\ OneRegistry(running) => KeepsFirst(seen[k], running)

\* Docker Hub is asked for the digest of an image only if some running
\* container has that image from Docker Hub: a host that also runs the image
\* of another registry never gets that one compared with Docker Hub's.
DigestsAreDockerHubs ==
    \A k \in asked : \E i \in DOMAIN containers :
        /\ containers[i].running
        /\ ~Skipped(containers[i].image)
        /\ String(Parse(containers[i].image)) = k
        /\ Supported(Parse(containers[i].image))
        /\ seen[k].id = containers[i].id
=============================================================================
