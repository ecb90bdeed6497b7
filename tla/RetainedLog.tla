---------------------------- MODULE RetainedLog ----------------------------
(***************************************************************************)
(* What a job journal is to the code that uses it: a list of records to    *)
(* which one record is added at a time and which keeps the newest Retain.  *)
(* MemoryLog of internal/jobs/log.go is this specification as it stands;   *)
(* JobJournal shows in which circumstances FileLog implements it.          *)
(***************************************************************************)
EXTENDS Integers, Sequences

CONSTANTS Record, Retain   \* Retain <= 0 means "keep everything"

VARIABLE log

Newest(s) == IF Retain > 0 /\ Len(s) > Retain
             THEN SubSeq(s, Len(s) - Retain + 1, Len(s)) ELSE s

Init == log = <<>>
Write(r) == log' = Newest(Append(log, r))
Next == \E r \in Record : Write(r)
Spec == Init /\ [][Next]_log
=============================================================================
