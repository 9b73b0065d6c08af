--------------------------- MODULE MCConfigStream ---------------------------
(* Small instances of ConfigStream for TLC.                                *)
EXTENDS ConfigStream

\* The behaviors in which no two handlers have unpublished changes of a key.
ApartSpec == Init /\ [][Next /\ Apart']_vars /\ Fairness
=============================================================================
