-------------------------- MODULE MCWebsocketClient --------------------------
(***************************************************************************)
(* The listeners are alike.                                                *)
(***************************************************************************)
EXTENDS WebsocketClient, TLC

Alike == Permutations(Subs)
=============================================================================
