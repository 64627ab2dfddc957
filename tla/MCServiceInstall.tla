-------------------------- MODULE MCServiceInstall --------------------------
(***************************************************************************)
(* Two published images, which are alike, and an altered one; one name to  *)
(* move an image in use to.                                                *)
(***************************************************************************)
EXTENDS ServiceInstall, TLC

CONSTANTS v1, v2

MCImages == {v1, v2}
MCStrays == {"old0"}
Alike == Permutations(MCImages)
=============================================================================
