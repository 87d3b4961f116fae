---------------------------- MODULE AppendOnlyLog ----------------------------
(***************************************************************************)
(* What cms-core/src/audit_log.rs promises of the log: "append-only on     *)
(* disk", a "monotonic sequence number", and in each entry the hash of the *)
(* one before it; and what is left of the promise by a write that is cut   *)
(* short.                                                                  *)
(***************************************************************************)
EXTENDS Naturals, Sequences

CONSTANTS Entry, Genesis

VARIABLES log, intact

Init == log = <<>> /\ intact = TRUE

Follows(e, s) ==
  /\ e.seq = Len(s)
  /\ e.prev = IF s = <<>> THEN Genesis ELSE s[Len(s)].hash

\* the log grows by one entry that follows its last
Grows == \E e \in {log'[i] : i \in DOMAIN log'} :
  /\ e \in Entry
  /\ Follows(e, log)
  /\ log' = Append(log, e)

AppendEntry == intact /\ intact' /\ Grows

\* a write is cut short: some of the last entries are lost, or none is and the
\* new one is complete
CutShort ==
  /\ intact /\ ~intact'
  /\ Grows \/ \E n \in 0..Len(log) : log' = SubSeq(log, 1, n)

\* from then on nothing is promised
Broken == ~intact /\ ~intact'

Spec == Init /\ [][AppendEntry \/ CutShort \/ Broken]_<<log, intact>>

=============================================================================
