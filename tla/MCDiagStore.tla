---------------------------- MODULE MCDiagStore ----------------------------
(* Bounds for DiagStore: an unlimited store, one whose cap cuts the first  *)
(* allocation (1), and one whose cap cuts a doubling (5: 0, 2, 4, 5).      *)
EXTENDS DiagStore

MCMaxes == {0, 1, 5}
MCSpans == {"s"}
=============================================================================
