-------------------------- MODULE MCArtifactBundle --------------------------
(* Three runs that write a bundle of three members; any may take over from any. *)
EXTENDS ArtifactBundle

MCMembers == <<"m1", "m2", "m3">>

=============================================================================
