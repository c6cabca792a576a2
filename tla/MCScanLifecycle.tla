-------------------------- MODULE MCScanLifecycle ---------------------------
(* Small instances of ScanLifecycle for TLC. *)
EXTENDS ScanLifecycle

CONSTANTS src

\* Every scan id is for the one source.
MCSourceOf == [s \in Scan |-> src]

\* Every report an engine can send.
AllReports == Report

\* One report of each kind the outcome of a task can turn on.
FewReports ==
  {[status |-> "completed", coverage |-> "complete", unreadable |-> FALSE],
   [status |-> "completed", coverage |-> "skipped", unreadable |-> FALSE],
   [status |-> "completed", coverage |-> "gaps", unreadable |-> FALSE]}
=============================================================================
