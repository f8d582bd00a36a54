------------------------------ MODULE MCStartup ------------------------------
(***************************************************************************)
(* Instances of Startup: when the container starts for the first time      *)
(* there are two restaurants, one of them the program's, with a lunch.     *)
(***************************************************************************)
EXTENDS Startup, TLC

CONSTANTS k1, k2, x1, n1, n2, c1, c2

SeededRestaurant == [name |-> n1, campus |-> c1, active |-> TRUE]
OtherRestaurant == [name |-> n2, campus |-> c2, active |-> TRUE]
OneSeeded == {SeededRestaurant}
Hours == [p \in Period |-> IF p = "LUNCH" THEN [opens |-> 0, closes |-> 1]
                           ELSE [opens |-> 1, closes |-> 2]]

TwoRestaurants ==
  [k \in Key |-> CASE k = k1 -> SeededRestaurant [] k = k2 -> OtherRestaurant [] OTHER -> Absent]
OneLunch ==
  [x \in ScheduleKey |->
     IF x = x1 THEN [SeedSchedule(k1, Today, "LUNCH") EXCEPT !.closes = 2] ELSE Absent]

\* requests, and the keys of schedules that no row has at first, are interchangeable
StartupSymmetry == Permutations(Request) \cup Permutations(ScheduleKey \ {x1})
=============================================================================
