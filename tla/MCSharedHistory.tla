--------------------------- MODULE MCSharedHistory ---------------------------
(***************************************************************************)
(* The small window beside a CLI scan and a long reader.                   *)
(***************************************************************************)
EXTENDS SharedHistory

MCTabs    == {"analyze", "identities"}
MCGuarded == {"analyze"}
MCStored  == {11}
=============================================================================
