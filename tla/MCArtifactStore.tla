--------------------------- MODULE MCArtifactStore ---------------------------
(* ArtifactStore for TLC.                                                    *)
EXTENDS ArtifactStore
=============================================================================
