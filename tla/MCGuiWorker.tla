----------------------------- MODULE MCGuiWorker -----------------------------
(***************************************************************************)
(* A small window: one guarded tab and the preloaded list beside Scan and  *)
(* Delta, a tree of one object, two stored runs, two clicks that send a    *)
(* request after the history has been loaded.                              *)
(***************************************************************************)
EXTENDS GuiWorker

MCTabs    == {"analyze", "identities"}
MCGuarded == {"analyze"}
MCStored  == {11, 12}
=============================================================================
