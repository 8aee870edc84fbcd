----------------------------- MODULE MCPathfinder -----------------------------
(***************************************************************************)
(* Pathfinder for TLC: each collision type, with the marks that matter to  *)
(* it.  A world and its mirror image behave alike (the one-sided tile, too, *)
(* is there in both directions): the bot starts in the left half.          *)
(***************************************************************************)
EXTENDS Pathfinder

Kinds ==
  {[type |-> "FULL_COLLISION", marks |-> {}],
   [type |-> "COLLISION_ON_TOP", marks |-> {}],
   [type |-> "ONE_SIDE_COLLISION_HORIZONTAL", marks |-> {}],
   [type |-> "ONE_SIDE_COLLISION_HORIZONTAL", marks |-> {"FLIPPED"}],
   [type |-> "NO_COLLISION_IF_ACCESSED", marks |-> {}],
   [type |-> "NO_COLLISION_IF_ACCESSED", marks |-> {"PUBLIC"}],
   [type |-> "NO_COLLISION_IF_VIP", marks |-> {}],
   [type |-> "NO_COLLISION_IF_VIP", marks |-> {"LISTED"}]}

Left == {t \in Place : 2 * t[1] < m_width}
=============================================================================
