------------------------------- MODULE Startup -------------------------------
(***************************************************************************)
(* The life of the API's container around Administration: start.sh runs    *)
(* the seed, which puts the restaurants of the program, their regular      *)
(* schedules and their snapshot rows where they are missing, and only then *)
(* serves requests, until the process ends in the middle of whatever they  *)
(* were doing.  The container starts again ("unless-stopped").             *)
(***************************************************************************)
EXTENDS Administration, Functions

CONSTANTS
  Seeded,        \* RESTAURANTS
  SeedHours,     \* SCHEDULES: opens_at and closes_at of each period
  MaxStarts      \* (bound)

ASSUME StartupAssumption ==
  /\ Seeded \subseteq {r \in Restaurant : r.active}
  /\ \A r, s \in Seeded : Clash(r, s) => r = s
  /\ SeedHours \in [Period -> [opens : Hour, closes : Hour]]
  /\ \A p \in Period : SeedHours[p].opens < SeedHours[p].closes
  /\ MaxStarts \in Nat

VARIABLES server, starts

allvars == <<restaurants, schedules, snapshots, request, server, starts>>

StartupInit == Init /\ server = "down" /\ starts = 0

-----------------------------------------------------------------------------
(* seed_restaurants *)

\* the row of a restaurant of the program: by its name, active or not
Found(r, table) == {k \in Stored(table) : table[k].name = r.name}

MissingRestaurants == {r \in Seeded : Found(r, restaurants) = {}}

SeedKeys(table) == UNION {Found(r, table) : r \in Seeded}

SeedSchedule(k, weekday, period) ==
  [ru |-> k, weekday |-> weekday, period |-> period, active |-> TRUE,
   opens |-> SeedHours[period].opens, closes |-> SeedHours[period].closes]

\* Faulty variant: a restaurant that exists is skipped, its schedules too.
MissingSchedules_NewOnly(keys) ==
  {SeedSchedule(k, d, p) : k \in keys \ Stored(restaurants), d \in Weekday, p \in Period}

\* a schedule for every weekday and period that has none, active or not
MissingSchedules(keys) ==
  {s \in {SeedSchedule(k, d, p) : k \in keys, d \in Weekday, p \in Period} :
     \A x \in Stored(schedules) : ~ SameSlot(schedules[x], s)}

\* a table with these rows added, whatever keys they get
Inserted(table, rows) ==
  {[k \in DOMAIN table |-> IF k \in DOMAIN new THEN new[k] ELSE table[k]] :
     new \in UNION {Bijection(K, rows) : K \in SUBSET (DOMAIN table \ Stored(table))}}

\* The seed, one transaction, and then the workers.  If the campus of a missing
\* restaurant is taken by a row of another name, the seed raises IntegrityError and the
\* container exits ("set -e"): it is as down as before.
Start ==
  /\ server = "down"
  /\ starts < MaxStarts
  /\ \A r \in MissingRestaurants : ~ ClashesStored(Stored(restaurants), r)
  /\ \E table \in Inserted(restaurants, MissingRestaurants) :
       LET keys == SeedKeys(table)
       IN  /\ restaurants' = table
           /\ \E s \in Inserted(schedules, MissingSchedules(keys)) : schedules' = s
           /\ snapshots' = snapshots \cup (keys \X Period)
  /\ server' = "up"
  /\ starts' = starts + 1
  /\ UNCHANGED request

\* the process ends: the database rolls back what its requests have not committed
Crash ==
  /\ server = "up"
  /\ server' = "down"
  /\ request' = [q \in Request |->
       IF request[q].step \in {"new", "end"} THEN request[q]
       ELSE [step |-> "end", open |-> {}, items |-> {}]]
  /\ UNCHANGED <<restaurants, schedules, snapshots, starts>>

StartupNext ==
  \/ Start \/ Crash
  \/ server = "up" /\ Next /\ UNCHANGED <<server, starts>>

StartupSpec == StartupInit /\ [][StartupNext]_allvars

-----------------------------------------------------------------------------
(* Properties *)

\* Whatever administrators have done since the last start, the next one changes no row of
\* theirs, and leaves every restaurant of the program with all its schedules and rows.
StartKeepsEdits ==
  [][server' = "up" /\ server = "down" =>
       /\ \A k \in Stored(restaurants) : restaurants'[k] = restaurants[k]
       /\ \A x \in Stored(schedules) : schedules'[x] = schedules[x]
       /\ \A r \in Seeded : \E k \in Stored(restaurants)' :
            /\ restaurants'[k].name = r.name
            /\ {k} \X Period \subseteq snapshots'
            /\ \A d \in Weekday, p \in Period : \E x \in Stored(schedules)' :
                 SameSlot(schedules'[x], [ru |-> k, weekday |-> d, period |-> p])]_allvars
=============================================================================
