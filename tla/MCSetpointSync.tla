--------------------------- MODULE MCSetpointSync ---------------------------
(* Instances of SetpointSync for TLC: the values that a cfg cannot write.  *)
EXTENDS SetpointSync

NoneDead == {}
FirstDead == {1}

=============================================================================
