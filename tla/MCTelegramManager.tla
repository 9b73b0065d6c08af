------------------------ MODULE MCTelegramManager ------------------------
(* Small instances of TelegramManager for TLC.                            *)
EXTENDS TelegramManager

CONSTANTS a1, a2, b1

\* On with one admin, on with another and the token kept, off.
MCChoices == {[enabled |-> TRUE, bot |-> b1, admins |-> {a1}],
              [enabled |-> TRUE, bot |-> None, admins |-> {a2}],
              [enabled |-> FALSE, bot |-> None, admins |-> {a1}]}
=============================================================================
