------------------------------ MODULE ScanJobs ------------------------------
(***************************************************************************)
(* What a client of GET /scans/{id} and GET /findings may rely on: the     *)
(* life of a scan job, whatever queue and workers are behind it.           *)
(*                                                                         *)
(* A job is inserted queued, started at most once, gets findings only      *)
(* while it runs, and is then completed or failed.  It may fail before it  *)
(* ever runs, and a completed job may still turn failed (the statement     *)
(* that completed it was applied but its answer was lost); nothing else    *)
(* changes once it is decided.                                             *)
(***************************************************************************)
CONSTANT Jobs

VARIABLES status, found

Init == status = [j \in Jobs |-> "absent"] /\ found = {}

Move(j, from, to) ==
  /\ status[j] \in from
  /\ status' = [status EXCEPT ![j] = to]
  /\ UNCHANGED found

Insert(j)   == Move(j, {"absent"}, "queued")
Start(j)    == Move(j, {"queued"}, "running")
Complete(j) == Move(j, {"running"}, "completed")
Fail(j)     == Move(j, {"queued", "running", "completed"}, "failed")

Find(j) ==
  /\ status[j] = "running"
  /\ found' = found \cup {j}
  /\ UNCHANGED status

Next == \E j \in Jobs : Insert(j) \/ Start(j) \/ Find(j) \/ Complete(j) \/ Fail(j)

Spec == Init /\ [][Next]_<<status, found>>
=============================================================================
