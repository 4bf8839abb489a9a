-------------------------- MODULE MCContainerResume --------------------------
(* Small instances of ContainerResume. *)
EXTENDS ContainerResume, TLC

CONSTANTS s1, s2

(* Two sources of one name in different directories: the output path and  *)
(* the name in the progress file are the same.                            *)
MCSources == {s1, s2}
MCOneName == [s \in MCSources |-> "disk.dd"]

Swap == Permutations(MCSources)

(* Nothing outside the program happens in a session but retries. *)
OneSource == {s1}
OneSourceName == [s \in OneSource |-> "disk.dd"]

=============================================================================
