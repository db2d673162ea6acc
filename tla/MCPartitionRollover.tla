------------------------ MODULE MCPartitionRollover ------------------------
(* Small instances of PartitionRollover.                                     *)
EXTENDS PartitionRollover, TLC

\* Also set up later in July, while the migration's partitions are current.
InJuneOrJuly == InTime \cup [month : {date(2026, 7)}, ticked : {TRUE}]

WorkerSymmetry == Permutations(Workers)
=============================================================================
