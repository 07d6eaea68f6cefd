----------------------------- MODULE MCProcScan -----------------------------
(* Instances of ProcScan for TLC: four files, three of which pass the        *)
(* filter, make the slice grow twice and two appends interleave in every way;*)
(* a schedule in which they take turns is one of them.  Glob lists by name:  *)
(* 10 comes before 2.                                                        *)
EXTENDS ProcScan

MCFiles == <<1, 10, 2, 3>>
=============================================================================
