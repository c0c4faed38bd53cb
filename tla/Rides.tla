------------------------------- MODULE Rides -------------------------------
(***************************************************************************)
(* What a ride is to whoever pays for one: coins sit at a trip's address   *)
(* until the fare is whole, and then that trip, and no other, moves the    *)
(* player once.  The requests of Travel, and what they leave on the way,   *)
(* are not to be seen here.                                                *)
(***************************************************************************)
EXTENDS Naturals

CONSTANTS Players, Towns, StartingTown, RideFare, MaxTrips

VARIABLES
  paid,   \* what has arrived at the address of each player's each trip
  trips,  \* the rides each has taken
  town    \* where each stands

rides == <<paid, trips, town>>

Init ==
  /\ paid = [p \in Players |-> [k \in 0 .. MaxTrips |-> 0]]
  /\ trips = [p \in Players |-> 0]
  /\ town = StartingTown

Pay(p, k) ==
  /\ paid' = [paid EXCEPT ![p][k] = @ + 1]
  /\ UNCHANGED <<trips, town>>

\* The next trip, if its own address holds the fare.  Riding to where one stands is
\* a ride.
Ride(p, t) ==
  /\ trips[p] < MaxTrips
  /\ paid[p][trips[p]] >= RideFare
  /\ trips' = [trips EXCEPT ![p] = @ + 1]
  /\ town' = [town EXCEPT ![p] = t]
  /\ UNCHANGED paid

Next ==
  \E p \in Players :
    \/ \E k \in 0 .. MaxTrips : Pay(p, k)
    \/ \E t \in Towns : Ride(p, t)

Spec == Init /\ [][Next]_rides
=============================================================================
