------------------------- MODULE MCSessionBoundary --------------------------
(* Two tabs of one browser: the session is lost, or the user of one tab      *)
(* links or logs in with a Google account, and once an answer is lost or     *)
(* damaged or a page is loaded again.                                        *)
EXTENDS SessionBoundary

MCLoss == [losses |-> 1, logins |-> 0, faults |-> 1]
MCLogin == [losses |-> 0, logins |-> 1, faults |-> 1]
MCLimits == {MCLoss, MCLogin}
=============================================================================
