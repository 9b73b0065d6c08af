--------------------------- MODULE MCConnTracking ---------------------------
(* Small instances of ConnTracking for TLC.                                *)
EXTENDS ConnTracking
=============================================================================
