---------------------------- MODULE MCStateFiles ----------------------------
(* Small instance of StateFiles: see MCStateFiles.cfg.                       *)
EXTENDS StateFiles
=============================================================================
