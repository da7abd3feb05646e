--------------------------- MODULE MCRunPipeline ---------------------------
(* Instance of RunPipeline for TLC: a scan over two parameters, the inner  *)
(* one fastest, as build_scan_patches orders it.                           *)
EXTENDS RunPipeline

ScanParams == {"outer", "inner"}
Point(o, i) == [p \in ScanParams |-> IF p = "outer" THEN o ELSE i]
ScanInit == Point(0, 0)
ScanRuns == [r \in 0 .. RunCount - 1 |-> Point(r \div 2, r % 2)]
=============================================================================
