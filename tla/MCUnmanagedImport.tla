------------------------- MODULE MCUnmanagedImport -------------------------
(* Instances of UnmanagedImport for TLC.                                     *)
EXTENDS UnmanagedImport

AllTroubles == {"crash", "abort", "bad_track", "occupied", "unseen", "unplanned"}
CrashOnly == {"crash"}
=============================================================================
