------------------------------ MODULE MCOpsJobs ------------------------------
(***************************************************************************)
(* OpsJobs with a job that may be repeated, and one that may not, which is *)
(* due with it and again when it has finished ok.                          *)
(***************************************************************************)
EXTENDS OpsJobs, TLC

CONSTANTS economics, drills

MCRank  == economics :> 1 @@ drills :> 2
MCAt    == economics :> {0} @@ drills :> {0}
MCAfter == economics :> {} @@ drills :> {economics}
MCGrace == economics :> 1 @@ drills :> 1
=============================================================================
