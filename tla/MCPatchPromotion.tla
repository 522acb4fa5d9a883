-------------------------- MODULE MCPatchPromotion --------------------------
(* Small instances of PatchPromotion for TLC.                              *)
EXTENDS PatchPromotion

(* One path exists at the checkpoint, the others do not. *)
OnePath(e) == [p \in Path |-> IF p = 1 THEN e ELSE NoFile]
MCBase == OnePath(CHOOSE e \in Entry : TRUE)
=============================================================================
