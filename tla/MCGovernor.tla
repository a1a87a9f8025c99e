----------------------------- MODULE MCGovernor -----------------------------
(***************************************************************************)
(* One issuer of one method, a window of two hours.  The issuers of the    *)
(* governor share nothing, so that one of them stands for all.             *)
(***************************************************************************)
EXTENDS Governor
=============================================================================
