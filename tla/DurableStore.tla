---------------------------- MODULE DurableStore ----------------------------
(***************************************************************************)
(* What the controller's database promises the handlers that write into    *)
(* it, with nothing of transactions, the statements of a migration,        *)
(* crashes and the order of a start (Open, Migrate and applyMigration in   *)
(* go/internal/controller/db/db.go).  The schema moves on by one whole     *)
(* version at a time, and only while nobody is served; a release is served *)
(* with the schema it knows or a later one; what a request writes is there *)
(* in all its tables or in none; and what was stored, acknowledged or not, *)
(* stays.                                                                  *)
(***************************************************************************)
EXTENDS Naturals

CONSTANTS
    Last,    \* the last version of the schema
    Writers, \* requests that write
    Parts,   \* the tables a request writes into
    Needed   \* the version that has them

VARIABLES
    version,     \* of the schema
    open,        \* the release that serves, 0 for none
    stored,      \* the tables that hold the rows of a request
    acknowledged \* requests that were answered

vars == <<version, open, stored, acknowledged>>

Init ==
    /\ version = 0
    /\ open = 0
    /\ stored = [r \in Writers |-> {}]
    /\ acknowledged = {}

Upgrade ==
    /\ open = 0
    /\ version < Last
    /\ version' = version + 1
    /\ UNCHANGED <<open, stored, acknowledged>>

Open(release) ==
    /\ open = 0
    /\ open' = release
    /\ UNCHANGED <<version, stored, acknowledged>>

\* The release that serves stops or dies.
Close ==
    /\ open' = 0
    /\ UNCHANGED <<version, stored, acknowledged>>

\* A request is stored, and answered at once or later or never.
Store(r) ==
    /\ open >= Needed[r]
    /\ stored[r] = {}
    /\ stored' = [stored EXCEPT ![r] = Parts[r]]
    /\ acknowledged' \in {acknowledged, acknowledged \cup {r}}
    /\ UNCHANGED <<version, open>>

Acknowledge(r) ==
    /\ open >= Needed[r]
    /\ stored[r] = Parts[r]
    /\ acknowledged' = acknowledged \cup {r}
    /\ UNCHANGED <<version, open, stored>>

Next ==
    \/ Upgrade
    \/ \E release \in 1 .. version : Open(release)
    \/ Close
    \/ \E r \in Writers : Store(r) \/ Acknowledge(r)

Spec == Init /\ [][Next]_vars
=============================================================================
