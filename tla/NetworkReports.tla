--------------------------- MODULE NetworkReports ---------------------------
(***************************************************************************)
(* What a NetworkState backed by the system promises its readers, with no  *)
(* threads, locks or reference counts: the system's path may change at any *)
(* time, the last change is reported, now and then a report is empty, and  *)
(* the reports are applied in order, each as a whole.                      *)
(***************************************************************************)
EXTENDS NetworkState, Naturals, Sequences

CONSTANT MaxReports     \* bound: reports that were made and not yet applied

Empty == [f \in {} |-> FALSE]

VARIABLES
  path,         \* the system's
  open,         \* whether it is being watched
  owed,         \* whether it has changed since it was last reported
  reports,      \* those not yet applied
  snapshot,     \* what the readers read
  ready         \* whether any report was applied

reportVars == <<path, open, owed, reports, snapshot, ready>>

Init ==
  /\ path \in Networks
  /\ open = FALSE
  /\ owed = FALSE
  /\ reports = <<>>
  /\ snapshot = AllClear
  /\ ready = FALSE

Open ==
  /\ ~open
  /\ open' = TRUE
  /\ owed' = TRUE
  /\ UNCHANGED <<path, reports, snapshot, ready>>

Change ==
  /\ path' \in Networks \ {path}
  /\ owed' = open
  /\ UNCHANGED <<open, reports, snapshot, ready>>

Report ==
  /\ open /\ owed
  /\ Len(reports) < MaxReports
  /\ reports' = Append(reports, path)
  /\ owed' = FALSE
  /\ UNCHANGED <<path, open, snapshot, ready>>

EmptyReport ==
  /\ open
  /\ Len(reports) < MaxReports
  /\ reports' = Append(reports, Empty)
  /\ UNCHANGED <<path, open, owed, snapshot, ready>>

\* Mutant of Apply: the report that came last is applied first.
Apply_Newest ==
  /\ reports # <<>>
  /\ reports' = SubSeq(reports, 1, Len(reports) - 1)
  /\ IF reports[Len(reports)] = Empty
       THEN UNCHANGED <<snapshot, ready>>
       ELSE snapshot' = reports[Len(reports)] /\ ready' = TRUE
  /\ UNCHANGED <<path, open, owed>>

Apply ==
  /\ reports # <<>>
  /\ reports' = Tail(reports)
  /\ IF Head(reports) = Empty
       THEN UNCHANGED <<snapshot, ready>>
       ELSE snapshot' = Head(reports) /\ ready' = TRUE
  /\ UNCHANGED <<path, open, owed>>

Close ==
  /\ open
  /\ open' = FALSE
  /\ owed' = FALSE
  /\ UNCHANGED <<path, reports, snapshot, ready>>

Next == Open \/ Change \/ Report \/ EmptyReport \/ Apply \/ Close

Spec == Init /\ [][Next]_reportVars
=============================================================================
