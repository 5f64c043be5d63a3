-------------------------- MODULE MCBackupCoverage --------------------------
(* BackupCoverage with contents that tell its thresholds apart: the floor, *)
(* and half of what was there.                                             *)
EXTENDS BackupCoverage, TLC

Holding(main, side, whole) ==
    [main |-> main, side |-> side, whole |-> whole, files |-> TRUE]

\* No files, empty ones, almost the floor, the floor, and the floor beside
\* a WAL.
Volumes == {[Holding(0, 0, TRUE) EXCEPT !.files = FALSE],
            Holding(0, 0, TRUE), Holding(3, 0, TRUE),
            Holding(4, 0, TRUE), Holding(4, 5, TRUE)}

\* Nothing, little and that cut short, and the floor.
Dumps == {Holding(0, 0, TRUE), Holding(1, 0, FALSE), Holding(4, 0, TRUE)}

Kinds == "volume" :> Volumes @@ "dump" :> Dumps
=============================================================================
