---------------------------- MODULE MCEnrollment ----------------------------
(* Instances of Enrollment for TLC: two hosts, whose operators may give either *)
(* of them either token; one token is not for the second host.                *)
EXTENDS Enrollment

CONSTANTS a1, a2, t1, t2

SharedToken == (Agents \X Tokens) \ {<<a2, t2>>}
=============================================================================
