---------------------------- MODULE MCSourceFile ----------------------------
(* Files of up to four bytes of two kinds, where four bytes are one too    *)
(* many and three are the longest accepted.                                *)
EXTENDS SourceFile

MCBytes == {"x", "y"}
=============================================================================
