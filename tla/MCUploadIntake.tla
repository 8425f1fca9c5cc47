--------------------------- MODULE MCUploadIntake ---------------------------
(* Instances of UploadIntake for TLC.                                        *)
EXTENDS UploadIntake

Sftp == {"sftp"}
BothOrigins == {"browser", "sftp"}
=============================================================================
