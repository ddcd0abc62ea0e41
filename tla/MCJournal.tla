----------------------------- MODULE MCJournal -----------------------------
(* Small instance of Journal.  Transaction identifiers, workloads and         *)
(* processes are interchangeable.                                            *)
EXTENDS Journal, TLC

JournalSymmetry ==
    Permutations(Processes) \cup Permutations(TxIds) \cup Permutations(Workloads)
=============================================================================
