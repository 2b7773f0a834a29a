------------------------------- MODULE MCBackup -------------------------------
(* Two runs, an image and an asset backup; artifacts are kept for two     *)
(* ticks and the check is content with one.                                 *)
EXTENDS Backup, TLC

CONSTANTS r1, r2

MCSymmetry == Permutations({r1, r2})
=============================================================================
