--------------------------- MODULE MCDefineTable ---------------------------
(* Four names in two buckets, three of them in one.                          *)
EXTENDS DefineTable, TLC

CONSTANTS a, b, c, d, v, w

MCKeys == {a, b, c, d}
MCValues == {v, w}
MCHash == (a :> 0) @@ (b :> 0) @@ (c :> 0) @@ (d :> 1)
=============================================================================
