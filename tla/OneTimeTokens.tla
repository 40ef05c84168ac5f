--------------------------- MODULE OneTimeTokens ---------------------------
(***************************************************************************)
(* What one-time enrolment tokens promise, with nothing of how the         *)
(* controller keeps the promise: HandleEnroll "accepts a one-time          *)
(* enrollment token" and "the token is consumed atomically"                *)
(* (go/internal/controller/agentapi/agentapi.go).  A token is accepted for *)
(* one holder at a time, only while it is open and unused; what was        *)
(* accepted is then used or dropped; what was used stays used.             *)
(***************************************************************************)
CONSTANTS Tokens, Holders, None

VARIABLES
    life,      \* "unissued", "open" or "expired"
    accepted,  \* the holder a token was accepted for, and not settled yet
    usedBy     \* the holder that used the token

vars == <<life, accepted, usedBy>>

Init ==
    /\ life = [t \in Tokens |-> "unissued"]
    /\ accepted = [t \in Tokens |-> None]
    /\ usedBy = [t \in Tokens |-> None]

Issue(t) ==
    /\ life[t] = "unissued"
    /\ life' = [life EXCEPT ![t] = "open"]
    /\ UNCHANGED <<accepted, usedBy>>

Expire(t) ==
    /\ life[t] = "open"
    /\ life' = [life EXCEPT ![t] = "expired"]
    /\ UNCHANGED <<accepted, usedBy>>

Accept(t, h) ==
    /\ life[t] = "open"
    /\ accepted[t] = None
    /\ usedBy[t] = None
    /\ accepted' = [accepted EXCEPT ![t] = h]
    /\ UNCHANGED <<life, usedBy>>

Use(t) ==
    /\ accepted[t] # None
    /\ usedBy[t] = None
    /\ usedBy' = [usedBy EXCEPT ![t] = accepted[t]]
    /\ accepted' = [accepted EXCEPT ![t] = None]
    /\ UNCHANGED life

Drop(t) ==
    /\ accepted[t] # None
    /\ accepted' = [accepted EXCEPT ![t] = None]
    /\ UNCHANGED <<life, usedBy>>

Next ==
    \E t \in Tokens :
        Issue(t) \/ Expire(t) \/ Use(t) \/ Drop(t) \/ \E h \in Holders : Accept(t, h)

Spec == Init /\ [][Next]_vars
=============================================================================
