-------------------------- MODULE MCArtifactWatch --------------------------
(* ArtifactWatch with the values of the .cfg files. *)
EXTENDS ArtifactWatch

=============================================================================
