-------------------------- MODULE ImageRefs_proofs --------------------------
(* What ImageRefs promises for any references, registries and containers.    *)
EXTENDS ImageRefs, TLAPS

(* A reference that is not passed over has a key and makes a target.         *)
LEMMA KeysAndTargets ==
    ASSUME NEW c \in Containers, ~Skipped(c.image)
    PROVE  /\ String(Parse(c.image)) \in Keys
           /\ [ref |-> Parse(c.image), id |-> c.id] \in Target
<1>1. c.image \in References /\ c.id \in ImageIds
  BY DEF Containers
<1>2. Parse(c.image) \in {Parse(raw) : raw \in {r \in References : ~Skipped(r)}}
  BY <1>1
<1> QED
  BY <1>1, <1>2 DEF Keys, Target

(* Keep fills the entry of the container's key, if it is empty, and no other. *)
LEMMA KeepFills ==
    ASSUME NEW kept \in [Keys -> Target \cup {None}],
           NEW c \in Containers, ~Skipped(c.image)
    PROVE  /\ Keep(kept, c) \in [Keys -> Target \cup {None}]
           /\ \A k \in Keys : Keep(kept, c)[k] =
                 IF k = String(Parse(c.image)) /\ kept[k] = None
                 THEN [ref |-> Parse(c.image), id |-> c.id] ELSE kept[k]
<1> DEFINE key == String(Parse(c.image))
           target == [ref |-> Parse(c.image), id |-> c.id]
<1>1. key \in Keys /\ target \in Target
  BY KeysAndTargets
<1>2. Keep(kept, c) = [kept EXCEPT ![key] = IF kept[key] = None THEN target ELSE kept[key]]
  BY DEF Keep
<1> HIDE DEF key, target
<1>3. /\ Keep(kept, c) \in [Keys -> Target \cup {None}]
      /\ \A k \in Keys : Keep(kept, c)[k] =
            IF k = key /\ kept[k] = None THEN target ELSE kept[k]
  BY <1>1, <1>2
<1> QED
  BY <1>3 DEF key, target

(* Every variable stays in its set, for every value of the constants.        *)
THEOREM TypeCorrect == Spec => []TypeOK
<1>1. Init => TypeOK
  <2> SUFFICES ASSUME Init PROVE TypeOK
    OBVIOUS
  <2>1. PICK n \in 0 .. MaxContainers : containers \in [1 .. n -> Containers]
    BY DEF Init
  <2>2. containers \in Seq(Containers) /\ Len(containers) = n
    BY <2>1, BoundAssumption
  <2> QED
    BY <2>2, BoundAssumption DEF Init, TypeOK
<1>2. TypeOK /\ [Next]_vars => TypeOK'
  <2> SUFFICES ASSUME TypeOK, [Next]_vars PROVE TypeOK'
    OBVIOUS
  <2>1. CASE Visit
    <3> DEFINE c == containers[pos]
    <3>1. /\ containers \in Seq(Containers) /\ pos \in 1 .. Len(containers)
          /\ seen \in [Keys -> Target \cup {None}]
          /\ changelogSeen \in [Keys -> Target \cup {None}]
      BY <2>1 DEF Visit, TypeOK
    <3>2. c \in Containers
      BY <3>1
    <3>3. /\ changelogSeen' = IF Skipped(c.image) THEN changelogSeen ELSE Keep(changelogSeen, c)
          /\ seen' = IF Skipped(c.image) \/ ~c.running THEN seen ELSE Keep(seen, c)
      BY <2>1 DEF Visit
    <3> HIDE DEF c
    <3>4. /\ seen' \in [Keys -> Target \cup {None}]
          /\ changelogSeen' \in [Keys -> Target \cup {None}]
      BY <3>1, <3>2, <3>3, KeepFills
    <3>5. pos' \in 1 .. Len(containers) + 1
      BY <2>1, <3>1 DEF Visit
    <3> QED
      BY <2>1, <3>4, <3>5 DEF Visit, TypeOK
  <2>2. ASSUME NEW k \in Keys, Resolve(k) PROVE TypeOK'
    BY <2>2 DEF Resolve, TypeOK
  <2>3. ASSUME NEW k \in Keys, Collect(k) PROVE TypeOK'
    BY <2>3 DEF Collect, TypeOK
  <2>4. CASE UNCHANGED vars
    BY <2>4 DEF vars, TypeOK
  <2> QED
    BY <2>1, <2>2, <2>3, <2>4 DEF Next
<1> QED
  BY <1>1, <1>2, PTL DEF Spec

(* One more container: either it is the first of its kind, and kept, or what *)
(* was kept stays.                                                           *)
LEMMA OneMoreContainer ==
    ASSUME containers \in Seq(Containers), pos \in 1 .. Len(containers),
           NEW S \in SUBSET (1 .. pos - 1), NEW kept,
           NEW T, T = S \/ T = S \cup {pos},
           KeepsFirst(kept, S),
           NEW after,
           after = (IF T # S /\ kept = None
                    THEN [ref |-> Parse(containers[pos].image), id |-> containers[pos].id]
                    ELSE kept),
           kept \in Target \cup {None},
           \A i \in S : [ref |-> Parse(containers[i].image), id |-> containers[i].id] \in Target
    PROVE  KeepsFirst(after, T)
<1>1. CASE T = S
  BY <1>1
<1>2. CASE T # S /\ S = {}
  <2>1. kept = None /\ T = {pos}
    BY <1>2 DEF KeepsFirst
  <2> QED
    BY <1>2, <2>1 DEF KeepsFirst
<1>3. CASE T # S /\ S # {}
  <2>1. PICK i \in S : /\ \A j \in S : i <= j
                       /\ kept = [ref |-> Parse(containers[i].image), id |-> containers[i].id]
    BY <1>3 DEF KeepsFirst
  <2>2. kept # None
    BY <2>1, NoneAssumption
  <2>3. after = kept /\ T = S \cup {pos} /\ T # {}
    BY <1>3, <2>2
  <2>4. i \in T /\ \A j \in T : i <= j
    BY <2>1, <2>3
  <2> QED
    BY <2>1, <2>3, <2>4 DEF KeepsFirst
<1> QED
  BY <1>1, <1>2, <1>3

(* What the loop does with every repo:tag, whatever registries the containers *)
(* that carry it name: it keeps the first one.  Where they name several, that *)
(* is one image in the place of others; it is what the code does, and the    *)
(* inductive invariant from which the theorems below follow.                 *)
FirstOfKey ==
    \A k \in Keys :
        /\ KeepsFirst(changelogSeen[k], Carrying(k))
        /\ KeepsFirst(seen[k], {i \in Carrying(k) : containers[i].running})

LEMMA FirstOfKeyIsKept == Spec => []FirstOfKey
<1>1. Init => FirstOfKey
  <2> SUFFICES ASSUME Init, NEW k \in Keys
               PROVE  /\ KeepsFirst(changelogSeen[k], Carrying(k))
                      /\ KeepsFirst(seen[k], {i \in Carrying(k) : containers[i].running})
    BY DEF FirstOfKey
  <2>1. Carrying(k) = {}
    BY DEF Init, Carrying
  <2> QED
    BY <2>1 DEF Init, KeepsFirst
<1>2. TypeOK /\ FirstOfKey /\ [Next]_vars => FirstOfKey'
  <2> SUFFICES ASSUME TypeOK, FirstOfKey, [Next]_vars PROVE FirstOfKey'
    OBVIOUS
  <2>1. ASSUME UNCHANGED <<containers, pos, seen, changelogSeen>> PROVE FirstOfKey'
    BY <2>1 DEF FirstOfKey, KeepsFirst, Carrying
  <2>2. CASE Visit
    <3> DEFINE c == containers[pos]
    <3>1. /\ containers \in Seq(Containers) /\ pos \in 1 .. Len(containers)
          /\ seen \in [Keys -> Target \cup {None}]
          /\ changelogSeen \in [Keys -> Target \cup {None}]
          /\ pos' = pos + 1 /\ containers' = containers
      BY <2>2 DEF Visit, TypeOK
    <3>2. c \in Containers /\ \A i \in 1 .. pos : containers[i] \in Containers
      BY <3>1
    <3>3. /\ changelogSeen' = IF Skipped(c.image) THEN changelogSeen ELSE Keep(changelogSeen, c)
          /\ seen' = IF Skipped(c.image) \/ ~c.running THEN seen ELSE Keep(seen, c)
      BY <2>2 DEF Visit
    <3> SUFFICES ASSUME NEW k \in Keys
                 PROVE  /\ KeepsFirst(changelogSeen[k], Carrying(k))'
                        /\ KeepsFirst(seen[k], {i \in Carrying(k) : containers[i].running})'
      BY DEF FirstOfKey
    <3> DEFINE mine == ~Skipped(c.image) /\ String(Parse(c.image)) = k
               S == Carrying(k)
               R == {i \in S : containers[i].running}
               T == IF mine THEN S \cup {pos} ELSE S
               Q == IF mine /\ c.running THEN R \cup {pos} ELSE R
    <3>4. S \in SUBSET (1 .. pos - 1) /\ R \in SUBSET (1 .. pos - 1) /\ pos \notin 1 .. pos - 1
      BY <3>1 DEF Carrying
    <3>5. \A i \in S : [ref |-> Parse(containers[i].image), id |-> containers[i].id] \in Target
      BY <3>1, <3>2, KeysAndTargets DEF Carrying
    <3>6. 1 .. pos' - 1 = (1 .. pos - 1) \cup {pos}
      BY <3>1
    <3>7. Carrying(k)' = T
      BY <3>1, <3>6 DEF Carrying
    <3>8. {i \in Carrying(k) : containers[i].running}' = Q
      BY <3>1, <3>7
    <3>9. KeepsFirst(changelogSeen[k], S) /\ KeepsFirst(seen[k], R)
      BY DEF FirstOfKey
    <3>10. changelogSeen'[k] = IF T # S /\ changelogSeen[k] = None
                               THEN [ref |-> Parse(c.image), id |-> c.id] ELSE changelogSeen[k]
      <4>1. CASE Skipped(c.image)
        BY <4>1, <3>3
      <4>2. CASE ~Skipped(c.image)
        <5>1. changelogSeen'[k] = IF k = String(Parse(c.image)) /\ changelogSeen[k] = None
                                  THEN [ref |-> Parse(c.image), id |-> c.id] ELSE changelogSeen[k]
          <6> HIDE DEF c
          <6> QED BY <4>2, <3>1, <3>2, <3>3, KeepFills
        <5>2. (T # S) <=> (k = String(Parse(c.image)))
          BY <4>2, <3>4
        <5> QED
          BY <5>1, <5>2
      <4> QED
        BY <4>1, <4>2
    <3>11. seen'[k] = IF Q # R /\ seen[k] = None
                      THEN [ref |-> Parse(c.image), id |-> c.id] ELSE seen[k]
      <4>1. CASE Skipped(c.image) \/ ~c.running
        BY <4>1, <3>3
      <4>2. CASE ~(Skipped(c.image) \/ ~c.running)
        <5>1. seen'[k] = IF k = String(Parse(c.image)) /\ seen[k] = None
                         THEN [ref |-> Parse(c.image), id |-> c.id] ELSE seen[k]
          <6> HIDE DEF c
          <6> QED BY <4>2, <3>1, <3>2, <3>3, KeepFills
        <5>2. (Q # R) <=> (k = String(Parse(c.image)))
          BY <4>2, <3>4
        <5> QED
          BY <5>1, <5>2
      <4> QED
        BY <4>1, <4>2
    <3>12. changelogSeen[k] \in Target \cup {None} /\ seen[k] \in Target \cup {None}
      BY <3>1
    <3>13. T = S \/ T = S \cup {pos}
      OBVIOUS
    <3>14. Q = R \/ Q = R \cup {pos}
      OBVIOUS
    <3>15. \A i \in R : [ref |-> Parse(containers[i].image), id |-> containers[i].id] \in Target
      BY <3>5
    <3> HIDE DEF T, S, R, Q
    <3>16. KeepsFirst(changelogSeen'[k], T)
      BY <3>1, <3>4, <3>5, <3>9, <3>10, <3>12, <3>13, OneMoreContainer
    <3>17. KeepsFirst(seen'[k], Q)
      BY <3>1, <3>4, <3>9, <3>11, <3>12, <3>14, <3>15, OneMoreContainer
    <3> QED
      BY <3>1, <3>7, <3>8, <3>16, <3>17 DEF KeepsFirst
  <2>3. ASSUME NEW k \in Keys, Resolve(k) \/ Collect(k)
        PROVE  UNCHANGED <<containers, pos, seen, changelogSeen>>
    BY <2>3 DEF Resolve, Collect
  <2>4. CASE UNCHANGED vars
    BY <2>1, <2>4 DEF vars
  <2> QED
    BY <2>1, <2>2, <2>3, <2>4 DEF Next
<1> QED
  BY <1>1, <1>2, TypeCorrect, PTL DEF Spec

(* Of the containers of one image the first stands for all of them, and the   *)
(* first running one for its digest: no stopped container hides a running    *)
(* one, and no pinned one hides any.                                         *)
THEOREM FirstContainerCountsHolds == Spec => []FirstContainerCounts
<1>1. FirstOfKey => FirstContainerCounts
  BY DEF FirstOfKey, FirstContainerCounts
<1> QED
  BY <1>1, FirstOfKeyIsKept, PTL

(* A digest is asked for only after the listing, of the container kept for   *)
(* its key, and only from a provider for that container's registry.          *)
AskedOfKept ==
    \A k \in asked : Listed /\ k \in Keys /\ seen[k] # None /\ HasProvider(seen[k])

(* Docker Hub's digest is compared only with that of a running container     *)
(* whose reference names Docker Hub.                                         *)
THEOREM DigestsAreDockerHubsHolds == Spec => []DigestsAreDockerHubs
<1>1. Init => AskedOfKept
  BY DEF Init, AskedOfKept
<1>2. TypeOK /\ AskedOfKept /\ [Next]_vars => AskedOfKept'
  <2> SUFFICES ASSUME TypeOK, AskedOfKept, [Next]_vars PROVE AskedOfKept'
    OBVIOUS
  <2>1. CASE Visit
    <3>1. ~Listed
      BY <2>1 DEF Visit, Listed, TypeOK
    <3>2. asked = {}
      BY <3>1 DEF AskedOfKept
    <3> QED
      BY <2>1, <3>2 DEF Visit, AskedOfKept
  <2>2. ASSUME NEW k \in Keys, Resolve(k) PROVE AskedOfKept'
    BY <2>2 DEF Resolve, AskedOfKept, Listed
  <2>3. ASSUME NEW k \in Keys, Collect(k) PROVE AskedOfKept'
    BY <2>3 DEF Collect, AskedOfKept, Listed
  <2>4. CASE UNCHANGED vars
    BY <2>4 DEF vars, AskedOfKept, Listed
  <2> QED
    BY <2>1, <2>2, <2>3, <2>4 DEF Next
<1>3. TypeOK /\ FirstOfKey /\ AskedOfKept => DigestsAreDockerHubs
  <2> SUFFICES ASSUME TypeOK, FirstOfKey, AskedOfKept, NEW k \in asked
               PROVE  \E i \in DOMAIN containers :
                         /\ containers[i].running
                         /\ ~Skipped(containers[i].image)
                         /\ String(Parse(containers[i].image)) = k
                         /\ Supported(Parse(containers[i].image))
                         /\ seen[k].id = containers[i].id
    BY DEF DigestsAreDockerHubs
  <2>1. k \in Keys /\ seen[k] # None /\ HasProvider(seen[k])
    BY DEF AskedOfKept
  <2>2. PICK i \in {j \in Carrying(k) : containers[j].running} :
            seen[k] = [ref |-> Parse(containers[i].image), id |-> containers[i].id]
    BY <2>1 DEF FirstOfKey, KeepsFirst
  <2>3. i \in DOMAIN containers
    BY <2>2 DEF Carrying, TypeOK
  <2>4. Supported(Parse(containers[i].image)) /\ seen[k].id = containers[i].id
    BY <2>1, <2>2 DEF HasProvider
  <2> QED
    BY <2>2, <2>3, <2>4 DEF Carrying
<1> QED
  BY <1>1, <1>2, <1>3, TypeCorrect, FirstOfKeyIsKept, PTL DEF Spec

(* The other side: once the check has gone through what it kept, a running    *)
(* container's Docker Hub image has been asked about, unless an earlier       *)
(* running container has the same repo:tag from a registry without provider,  *)
(* and so stands for both (pollRegistry's seen).                              *)
Chosen(i, k) ==
    /\ containers[i].running /\ ~Skipped(containers[i].image)
    /\ String(Parse(containers[i].image)) = k
NothingIsOverlooked ==
    (Listed /\ \A k \in Keys : seen[k] # None => k \in resolved) =>
        \A k \in Keys, i \in DOMAIN containers :
            Chosen(i, k) /\ Supported(Parse(containers[i].image)) =>
                \/ k \in asked
                \/ \E j \in 1 .. i - 1 : Chosen(j, k) /\ ~Supported(Parse(containers[j].image))

\* Whoever has a provider is asked about when it is resolved.
ResolvedIsAsked == \A k \in resolved : seen[k] # None /\ HasProvider(seen[k]) => Listed /\ k \in asked
ResolvedIsListed == resolved # {} => Listed

THEOREM NothingIsOverlookedHolds == Spec => []NothingIsOverlooked
<1> DEFINE Inv == ResolvedIsAsked /\ ResolvedIsListed
<1>1. Init => Inv
  BY DEF Init, ResolvedIsAsked, ResolvedIsListed
<1>2. TypeOK /\ Inv /\ [Next]_vars => Inv'
  <2> SUFFICES ASSUME TypeOK, Inv, [Next]_vars PROVE Inv'
    OBVIOUS
  <2>1. CASE Visit
    <3>1. resolved = {} /\ resolved' = {}
      BY <2>1 DEF Visit, Listed, ResolvedIsListed, TypeOK
    <3> QED
      BY <3>1 DEF ResolvedIsAsked, ResolvedIsListed
  <2>2. ASSUME NEW k \in Keys, Resolve(k) PROVE Inv'
    BY <2>2 DEF Resolve, ResolvedIsAsked, ResolvedIsListed, Listed, HasProvider
  <2>3. ASSUME NEW k \in Keys, Collect(k) PROVE Inv'
    BY <2>3 DEF Collect, ResolvedIsAsked, ResolvedIsListed, Listed, HasProvider
  <2>4. CASE UNCHANGED vars
    BY <2>4 DEF vars, ResolvedIsAsked, ResolvedIsListed, Listed, HasProvider
  <2> QED
    BY <2>1, <2>2, <2>3, <2>4 DEF Next
<1>3. TypeOK /\ FirstOfKey /\ Inv => NothingIsOverlooked
  <2> SUFFICES ASSUME TypeOK, FirstOfKey, Inv, Listed,
                      \A k \in Keys : seen[k] # None => k \in resolved,
                      NEW k \in Keys, NEW i \in DOMAIN containers,
                      Chosen(i, k), Supported(Parse(containers[i].image)),
                      ~ \E j \in 1 .. i - 1 : Chosen(j, k) /\ ~Supported(Parse(containers[j].image))
               PROVE  k \in asked
    BY DEF NothingIsOverlooked
  <2> DEFINE R == {j \in Carrying(k) : containers[j].running}
  <2>1. i \in 1 .. Len(containers) /\ pos \in 1 .. Len(containers) + 1 /\ pos > Len(containers)
    BY DEF TypeOK, Listed
  <2>2. i \in R
    BY <2>1 DEF Carrying, Chosen
  <2>3. PICK j \in R : /\ \A n \in R : j <= n
                       /\ seen[k] = [ref |-> Parse(containers[j].image), id |-> containers[j].id]
    BY <2>2 DEF FirstOfKey, KeepsFirst
  <2>4. j <= i /\ j \in 1 .. Len(containers) /\ Chosen(j, k)
    BY <2>1, <2>2, <2>3 DEF Carrying, Chosen
  <2>5. Supported(Parse(containers[j].image))
    BY <2>1, <2>4
  <2>6. seen[k] # None
    <3>1. containers[j] \in Containers
      BY <2>4 DEF TypeOK
    <3>2. seen[k] \in Target
      BY <2>3, <2>4, <3>1, KeysAndTargets DEF Chosen
    <3> QED
      BY <3>2, NoneAssumption
  <2> QED
    BY <2>3, <2>5, <2>6 DEF ResolvedIsAsked, HasProvider
<1> QED
  BY <1>1, <1>2, <1>3, TypeCorrect, FirstOfKeyIsKept, PTL DEF Spec
=============================================================================
