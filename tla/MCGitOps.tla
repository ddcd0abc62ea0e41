------------------------------ MODULE MCGitOps ------------------------------
(* A branch c0 - c1 - c2 and a forced push c3 beside c2 with a broken file.  *)
EXTENDS GitOps

MCCommits  == {"c0", "c1", "c2", "c3"}
MCParent   == [c \in MCCommits |-> CASE c = "c0" -> NoCommit [] c = "c1" -> "c0" [] OTHER -> "c1"]
MCProcesses == <<"d1", "d2">>
MCServices == <<"a", "b">>
MCContent  ==
    [c \in MCCommits |->
        CASE c = "c0" -> [s \in {"a", "b"} |-> Absent]
          [] c = "c1" -> [a |-> "v1", b |-> Absent]
          [] c = "c2" -> [a |-> "v2", b |-> "v2"]
          [] c = "c3" -> [a |-> "v3", b |-> Invalid]]
=============================================================================
