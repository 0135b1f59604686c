------------------------------ MODULE MCAvatar ------------------------------
(* The avatar on the game's own board: its numbers and its wall map.       *)
EXTENDS Picture, Maps
=============================================================================
