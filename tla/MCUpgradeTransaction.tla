------------------------ MODULE MCUpgradeTransaction ------------------------
(* The upgrade transaction at the bounds its .cfg files name.               *)
EXTENDS UpgradeTransaction
=============================================================================
