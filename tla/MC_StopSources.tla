--------------------------- MODULE MC_StopSources ---------------------------
(* Values for the configurations of StopSources.  Angles are twentieths of *)
(* a degree, so that roundings to a tenth happen; limits are scaled down.  *)
EXTENDS StopSources

Level == [roll |-> 0, pitch |-> 2, lag |-> 0, defect |-> FALSE, framed |-> FALSE,
          oriented |-> TRUE]

(* Level, a warning, a roll that only its rounding makes a stop, a stop in *)
(* both axes that needs the transform, a defect, and a stale stamp.        *)
SixMessages ==
    {Level,
     [Level EXCEPT !.pitch = 6],
     [Level EXCEPT !.roll = -7],
     [Level EXCEPT !.roll = 9, !.pitch = -8, !.framed = TRUE],
     [Level EXCEPT !.defect = TRUE],
     [Level EXCEPT !.roll = 9, !.lag = 2]}

BothSources == {"attitude", "collision"}
OneImu == {"imu"}
OneMotor == {"motor"}
TwoLags == {0, 2}
=============================================================================
