------------------------------- MODULE MCMain -------------------------------
(* Main on two files: the output may be the input itself, an existing file *)
(* that is executable or not, or a new one.                                *)
EXTENDS Main

MCPaths == {"in", "out"}
=============================================================================
