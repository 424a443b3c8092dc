-------------------------- MODULE MCExamLifecycle --------------------------
(* Small instances of ExamLifecycle for TLC. *)
EXTENDS ExamLifecycle, TLC

CONSTANTS a, b, c, x, y

MCSectionOf == [st \in Students |-> IF st = a \/ y \notin Sections THEN x ELSE y]

\* A few batches that overlap on one student, and some that tie two of three.
FewEntryBatches == {a :> 1 @@ c :> 1, b :> 0}
RankedEntryBatches == {a :> 2 @@ b :> 1, c :> 2}
FewRecordBatches == {a :> Absent @@ c :> 1, b :> 1}

RequestSymmetry == Permutations(Requests)
=============================================================================
