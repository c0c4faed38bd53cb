------------------------------- MODULE Travel -------------------------------
(***************************************************************************)
(* Where a player's box is: the network it occupies, the address it leases *)
(* there, the town its owner stands in and the rides that move them.       *)
(*                                                                         *)
(* registerNetwork (join), unregisterOccupant (leave) and rideit's board   *)
(* are sequences of database calls, and requests by one player interleave  *)
(* as freely as requests by two.  The sessions they close on the way are   *)
(* module Sessions'; here that stretch is one step a request may die in.   *)
(***************************************************************************)
EXTENDS Naturals, FiniteSets

CONSTANTS
  Players,      \* owner keys
  Essids,       \* the declared networks
  Towns,
  TownOf,       \* the town whose scan shows a network
  StartingTown, \* the town a key draws, for a player who never travelled
  Octets,       \* host octets an address may end in
  Npc,          \* the octets of a network's generated hosts, never issued
  Preferred,    \* the octet the derivation gives a player on a network
  RideFare,
  MaxAttempts,  \* draws before an allocation gives up
  MaxTrips,     \* bound: boardings start only below this many trips
  Workers,      \* request slots (the bound on concurrent requests)
  None          \* no lease, no network, no player

Ops == {"join", "leave", "board"}

ASSUME PlacesAssumption ==
  /\ TownOf \in [Essids -> Towns]
  /\ StartingTown \in [Players -> Towns]
ASSUME LeaseAssumption ==
  /\ None \notin Octets /\ None \notin Essids \cup Players /\ None \notin Ops
  /\ Npc \in [Essids -> SUBSET Octets]
  /\ Preferred \in [Essids \X Players -> Octets]
ASSUME RideAssumption == RideFare \in Nat \ {0} /\ MaxTrips \in Nat /\ MaxAttempts \in Nat \ {0}

VARIABLES
  occupants,  \* home_network_occupants, as <<essid, owner_key>> pairs
  leases,     \* network_lan_leases: the octet of each such pair
  town,       \* player_locations.town, the starting town where there is no row
  trips,      \* player_locations.trips, 0 where there is no row
  paid,       \* what the ledger holds at each trip's address
  calls       \* the request each worker is serving

vars == <<occupants, leases, town, trips, paid, calls>>

Steps == {"idle", "lease", "claim", "others", "fare", "leave", "drop", "occupy",
          "move", "answer"}

\* A request names what its next step writes.
Call == {c \in [op: Ops \cup {None}, step: Steps,
                player: Players \cup {None}, essid: Essids \cup {None},
                town: Towns \cup {None}, tripsTaken: 0 .. MaxTrips,
                attempt: 0 .. MaxAttempts - 1, octet: Octets \cup {None}] :
           /\ c.step # "idle" => c.player \in Players
           /\ c.step \in {"lease", "claim", "others", "occupy"} => c.op = "join"
           /\ c.step \in {"fare", "leave", "move"} => c.op = "board"
           /\ c.op = "join" => c.essid \in Essids
           /\ c.op = "board" => c.town \in Towns /\ c.tripsTaken < MaxTrips
           /\ c.octet # None => c.op = "join" /\ c.step # "idle"}

Request(op, step, p, e, t, n) ==
  [op |-> op, step |-> step, player |-> p, essid |-> e, town |-> t, tripsTaken |-> n,
   attempt |-> 0, octet |-> None]
NoCall == Request(None, "idle", None, None, None, 0)

\* Nobody has joined or travelled yet.
Init ==
  /\ occupants = {}
  /\ leases = [o \in Essids \X Players |-> None]
  /\ town = StartingTown
  /\ trips = [p \in Players |-> 0]
  /\ paid = [p \in Players |-> [k \in 0 .. MaxTrips |-> 0]]
  /\ calls = [w \in Workers |-> NoCall]

-----------------------------------------------------------------------------
Begin(w, call) == calls[w].step = "idle" /\ calls' = [calls EXCEPT ![w] = call]
Goto(w, step) == calls' = [calls EXCEPT ![w].step = step]
Done(w) == calls' = [calls EXCEPT ![w] = NoCall]

\* The pair a request is about.
Seat(call) == <<call.essid, call.player>>

\* Who holds an octet of a network.
Holders(e, octet) == {p \in Players : leases[<<e, p>>] = octet}

-----------------------------------------------------------------------------
(* Joining: town check, lease, off the other networks, onto this one.      *)

\* A network of another town is refused before anything is written.
StartJoin(w, p) ==
  /\ \E e \in Essids :
       /\ TownOf[e] = town[p]
       /\ Begin(w, Request("join", "lease", p, e, None, 0))
  /\ UNCHANGED <<occupants, leases, town, trips, paid>>

\* An address already held outranks every rule on what may be issued.
ReadLease(w) ==
  LET held == leases[Seat(calls[w])] IN
  /\ calls[w].step = "lease"
  /\ IF held = None THEN Goto(w, "claim")
     ELSE calls' = [calls EXCEPT ![w].octet = held, ![w].step = "others"]
  /\ UNCHANGED <<occupants, leases, town, trips, paid>>

\* The preferred octet first, where a generated host does not stand on it, and
\* redraws after that.
Candidates(call) ==
  LET usable == Octets \ Npc[call.essid]
      preferred == Preferred[Seat(call)]
  IN IF call.attempt = 0 /\ preferred \in usable THEN {preferred} ELSE usable

\* Mutant: one draw more than the allocator allows.
RedrawOnceMore(call) ==
  IF call.attempt = MaxAttempts THEN NoCall ELSE [call EXCEPT !.attempt = @ + 1]

\* The next draw, or a join that fails once they are used up.
Redraw(call) ==
  IF call.attempt + 1 = MaxAttempts THEN NoCall ELSE [call EXCEPT !.attempt = @ + 1]

\* Mutant: the claim overwrites the lease a racing request bound.
OverwriteLease(w) ==
  LET call == calls[w] IN
  /\ call.step = "claim"
  /\ \E octet \in Candidates(call) :
       IF Holders(call.essid, octet) \subseteq {call.player}
       THEN /\ leases' = [leases EXCEPT ![Seat(call)] = octet]
            /\ calls' = [calls EXCEPT ![w].octet = octet, ![w].step = "others"]
       ELSE calls' = [calls EXCEPT ![w] = Redraw(call)] /\ UNCHANGED leases
  /\ UNCHANGED <<occupants, town, trips, paid>>

\* Mutant: an octet another occupant holds is taken for free.
ClaimTakenLease(w) ==
  LET call == calls[w] IN
  /\ call.step = "claim"
  /\ \E octet \in Candidates(call) :
       IF leases[Seat(call)] # None
       THEN Goto(w, "lease") /\ UNCHANGED leases
       ELSE /\ leases' = [leases EXCEPT ![Seat(call)] = octet]
            /\ calls' = [calls EXCEPT ![w].octet = octet, ![w].step = "others"]
  /\ UNCHANGED <<occupants, town, trips, paid>>

\* INSERT ... ON CONFLICT (essid, owner_key) DO NOTHING: a lease this player got
\* meanwhile is read and adopted; an octet another holds breaks UNIQUE (essid,
\* octet) and is drawn again.
ClaimLease(w) ==
  LET call == calls[w] IN
  /\ call.step = "claim"
  /\ \E octet \in Candidates(call) :
       IF leases[Seat(call)] # None
       THEN Goto(w, "lease") /\ UNCHANGED leases
       ELSE IF Holders(call.essid, octet) = {}
       THEN /\ leases' = [leases EXCEPT ![Seat(call)] = octet]
            /\ calls' = [calls EXCEPT ![w].octet = octet, ![w].step = "others"]
       ELSE calls' = [calls EXCEPT ![w] = Redraw(call)] /\ UNCHANGED leases
  /\ UNCHANGED <<occupants, town, trips, paid>>

DeleteOtherOccupancies(w) ==
  LET call == calls[w]
      left == {o \in occupants : o[2] = call.player /\ o[1] # call.essid}
  IN /\ call.step = "others"
     /\ occupants' = occupants \ left
     /\ Goto(w, IF left = {} THEN "occupy" ELSE "drop")
     /\ UNCHANGED <<leases, town, trips, paid>>

UpsertOccupant(w) ==
  /\ calls[w].step = "occupy"
  /\ occupants' = occupants \cup {Seat(calls[w])}
  /\ Goto(w, "answer")
  /\ UNCHANGED <<leases, town, trips, paid>>

-----------------------------------------------------------------------------
(* Leaving, and what a box that left drops.                                *)

\* The lease stays; a player who was not there is answered at once.
DeleteOccupant(w, p) ==
  /\ \E e \in Essids :
       /\ <<e, p>> \in occupants
       /\ occupants' = occupants \ {<<e, p>>}
       /\ Begin(w, Request("leave", "drop", p, e, None, 0))
  /\ UNCHANGED <<leases, town, trips, paid>>

\* dropConnectionsThrough, whose writes are module Sessions'.
DropConnections(w) ==
  /\ calls[w].step = "drop"
  /\ Goto(w, CASE calls[w].op = "join" -> "occupy"
               [] calls[w].op = "board" -> "move"
               [] OTHER -> "answer")
  /\ UNCHANGED <<occupants, leases, town, trips, paid>>

-----------------------------------------------------------------------------
(* Riding.                                                                 *)

\* A transfer reaches a trip's address, which no key ever spends from.
PayFare(p) ==
  /\ \E k \in 0 .. MaxTrips :
       /\ paid[p][k] < RideFare
       /\ paid' = [paid EXCEPT ![p][k] = @ + 1]
  /\ UNCHANGED <<occupants, leases, town, trips, calls>>

\* nextTrip's first read: the trips taken, which name the address to look at.
StartBoard(w, p) ==
  /\ trips[p] < MaxTrips
  /\ \E t \in Towns : Begin(w, Request("board", "fare", p, None, t, trips[p]))
  /\ UNCHANGED <<occupants, leases, town, trips, paid>>

\* Mutant: whatever has been paid for any trip pays for this one.
ReadAnyFare(w) ==
  LET call == calls[w] IN
  /\ call.step = "fare"
  /\ IF \E k \in 0 .. MaxTrips : paid[call.player][k] >= RideFare
       THEN Goto(w, "leave") ELSE Done(w)
  /\ UNCHANGED <<occupants, leases, town, trips, paid>>

\* Its second: the whole fare has arrived there, or the boarding is refused.
ReadFare(w) ==
  LET call == calls[w] IN
  /\ call.step = "fare"
  /\ IF paid[call.player][call.tripsTaken] >= RideFare
       THEN Goto(w, "leave") ELSE Done(w)
  /\ UNCHANGED <<occupants, leases, town, trips, paid>>

DeleteOccupancies(w) ==
  LET left == {o \in occupants : o[2] = calls[w].player} IN
  /\ calls[w].step = "leave"
  /\ occupants' = occupants \ left
  /\ Goto(w, IF left = {} THEN "move" ELSE "drop")
  /\ UNCHANGED <<leases, town, trips, paid>>

\* Mutant: the move does not name the trip count it read.
MoveLocationBlindly(w) ==
  LET call == calls[w] IN
  /\ call.step = "move"
  /\ town' = [town EXCEPT ![call.player] = call.town]
  /\ trips' = [trips EXCEPT ![call.player] = call.tripsTaken + 1]
  /\ Goto(w, "answer")
  /\ UNCHANGED <<occupants, leases, paid>>

\* The move holds only if the trip count it read still stands: the first trip
\* inserts the row, a later one updates the row holding that count.
MoveLocation(w) ==
  LET call == calls[w] IN
  /\ call.step = "move"
  /\ IF trips[call.player] = call.tripsTaken
     THEN /\ town' = [town EXCEPT ![call.player] = call.town]
          /\ trips' = [trips EXCEPT ![call.player] = @ + 1]
     ELSE UNCHANGED <<town, trips>>
  /\ Goto(w, "answer")
  /\ UNCHANGED <<occupants, leases, paid>>

Answer(w) ==
  /\ calls[w].step = "answer"
  /\ Done(w)
  /\ UNCHANGED <<occupants, leases, town, trips, paid>>

\* A database error or a cut-off function: what was written stays written.
Fail(w) ==
  /\ calls[w].step # "idle"
  /\ Done(w)
  /\ UNCHANGED <<occupants, leases, town, trips, paid>>

-----------------------------------------------------------------------------
Continue(w) ==
  \/ ReadLease(w) \/ ClaimLease(w) \/ DeleteOtherOccupancies(w) \/ UpsertOccupant(w)
  \/ DropConnections(w) \/ ReadFare(w) \/ DeleteOccupancies(w) \/ MoveLocation(w)
  \/ Answer(w)

Next ==
  \/ \E w \in Workers, p \in Players :
       StartJoin(w, p) \/ DeleteOccupant(w, p) \/ StartBoard(w, p)
  \/ \E w \in Workers : Continue(w) \/ Fail(w)
  \/ \E p \in Players : PayFare(p)

Spec == Init /\ [][Next]_vars

-----------------------------------------------------------------------------
TypeOK ==
  /\ occupants \subseteq Essids \X Players
  /\ leases \in [Essids \X Players -> Octets \cup {None}]
  /\ town \in [Players -> Towns]
  /\ trips \in [Players -> 0 .. MaxTrips]
  /\ paid \in [Players -> [0 .. MaxTrips -> Nat]]
  /\ calls \in [Workers -> Call]

\* One address, one occupant: everybody on a network holds a lease there, no two
\* players hold the same one, and none was issued over a generated host.
OccupantsAddressed ==
  /\ \A o \in occupants : leases[o] # None
  /\ \A e \in Essids : \A octet \in Octets :
       /\ Cardinality(Holders(e, octet)) <= 1
       /\ octet \in Npc[e] => Holders(e, octet) = {}

\* The address a join will answer with is the one leased, even where two joins
\* of one player race for it: nobody is told an address another write replaced.
AnswersTheLease ==
  \A w \in Workers :
    calls[w].octet # None => leases[Seat(calls[w])] = calls[w].octet

\* Every trip taken was paid for at its own address: one fare buys one trip,
\* however many boardings of it race.
EveryTripPaid ==
  \A p \in Players : \A k \in 0 .. MaxTrips :
    k < trips[p] => paid[p][k] >= RideFare

\* A boarding is one ride to whoever paid for it: what it read of the trips and the
\* fare still holds when it moves the player, or it moves nobody, so two boardings on
\* one ticket are one ride (board.ts:33-37).
Boarding == INSTANCE Rides
RidesAreAtomic == Boarding!Spec

-----------------------------------------------------------------------------
(* What a comment in the code says, and TLC refutes.                       *)

\* board.ts: the leaving comes before the move, so that a traveller is never
\* moved while still on a network in another town.
NeverAbroad == \A o \in occupants : TownOf[o[1]] = town[o[2]]
=============================================================================
