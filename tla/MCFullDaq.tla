----------------------------- MODULE MCFullDaq -----------------------------
(* Instance of FullDaq for TLC: the two-parameter scan of MCRunPipeline.   *)
EXTENDS FullDaq

ScanParams == {"outer", "inner"}
Point(o, i) == [p \in ScanParams |-> IF p = "outer" THEN o ELSE i]
ScanInit == Point(0, 0)
ScanRuns == [r \in 0 .. RunCount - 1 |-> Point((r + 1) \div 2, (r + 1) % 2)]
=============================================================================
