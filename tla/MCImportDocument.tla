------------------------- MODULE MCImportDocument -------------------------
(* A small instance of ImportDocument for TLC: two services with a         *)
(* variable each.                                                          *)
EXTENDS ImportDocument

CONSTANTS k1, k2, v1

MCDocument == <<k1, k2>>
MCContent == [k \in Keys |-> {v1}]
=============================================================================
