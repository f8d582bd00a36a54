-------------------------- MODULE MCSnapshotStatus --------------------------
(***************************************************************************)
(* The sample reports of ReportLists for the minute 15, with the           *)
(* thresholds of the source.                                               *)
(***************************************************************************)
EXTENDS ReportLists

\* ages 1, 5, 10 and 15 are the last minute of each weight, 6 and 11 the first
SampleReports ==
  <<[at |-> 14, status |-> "NO_QUEUE",   conf |-> 100],
    [at |-> 14, status |-> "FOOD_ENDED", conf |-> 100],
    [at |-> 14, status |-> "LARGE",      conf |-> 100],
    [at |-> 14, status |-> "SMALL",      conf |-> 35],
    [at |-> 10, status |-> "MEDIUM",     conf |-> 100],
    [at |-> 10, status |-> "LARGE",      conf |-> 100],
    [at |-> 10, status |-> "FOOD_ENDED", conf |-> 55],
    [at |-> 9,  status |-> "NO_QUEUE",   conf |-> 100],
    [at |-> 9,  status |-> "FOOD_ENDED", conf |-> 55],
    [at |-> 5,  status |-> "MEDIUM",     conf |-> 100],
    [at |-> 5,  status |-> "SMALL",      conf |-> 35],
    [at |-> 4,  status |-> "LARGE",      conf |-> 100],
    [at |-> 0,  status |-> "NO_QUEUE",   conf |-> 100],
    [at |-> 0,  status |-> "FOOD_ENDED", conf |-> 55]>>

\* a row without a mean, and the two ends and the middle of the scale
ShownAverages == {Null, 0, 150, 300}
=============================================================================
