---------------------------- MODULE TravelProofs ----------------------------
(* What holds of addresses and trips for any number of players, networks,  *)
(* towns, octets and requests in flight.                                   *)
EXTENDS Travel, FiniteSetTheorems, TLAPS

-----------------------------------------------------------------------------
(* The invariants the theorems rest on.                                    *)

\* A boarding past its fare check read a fare that is still there.
PaidBoardings ==
  \A w \in Workers :
    calls[w].op = "board" /\ calls[w].step \in {"leave", "drop", "move"}
    => paid[calls[w].player][calls[w].tripsTaken] >= RideFare

\* A join past its lease knows the address it holds.
JoinsHoldAddress ==
  \A w \in Workers :
    calls[w].op = "join" /\ calls[w].step \in {"others", "drop", "occupy"}
    => calls[w].octet # None

\* What OccupantsAddressed counts, said of pairs of players.
OneHolderEach ==
  \A e \in Essids : \A p, q \in Players :
    leases[<<e, p>>] # None /\ leases[<<e, p>>] = leases[<<e, q>>] => p = q

HostsKeepOctets == \A e \in Essids : \A p \in Players : leases[<<e, p>>] \notin Npc[e]

OccupantsLease == \A o \in occupants : leases[o] # None

Addressing ==
  /\ JoinsHoldAddress
  /\ OneHolderEach
  /\ HostsKeepOctets
  /\ OccupantsLease
  /\ AnswersTheLease

-----------------------------------------------------------------------------
(* The helpers.                                                            *)

\* The requests a worker takes up, and the idle slot.
LEMMA JoinTyped ==
  ASSUME NEW p \in Players, NEW e \in Essids
  PROVE  /\ Request("join", "lease", p, e, None, 0) \in Call
         /\ Request("leave", "drop", p, e, None, 0) \in Call
<1>1. 0 \in 0 .. MaxTrips /\ 0 \in 0 .. MaxAttempts - 1
  BY RideAssumption
<1> QED
  BY <1>1 DEF Request, Call, Steps, Ops

LEMMA BoardTyped ==
  ASSUME NEW p \in Players, NEW t \in Towns, NEW n \in 0 .. MaxTrips, n < MaxTrips
  PROVE  Request("board", "fare", p, None, t, n) \in Call
<1>1. 0 \in 0 .. MaxAttempts - 1
  BY RideAssumption
<1> QED
  BY <1>1 DEF Request, Call, Steps, Ops

LEMMA NoCallTyped == NoCall \in Call
<1>1. 0 \in 0 .. MaxTrips /\ 0 \in 0 .. MaxAttempts - 1
  BY RideAssumption
<1> QED
  BY <1>1, LeaseAssumption DEF NoCall, Request, Call, Steps, Ops

\* Putting a request in a slot keeps the slots typed, and leaves the others alone.
LEMMA SlotTyped ==
  ASSUME calls \in [Workers -> Call], NEW w \in Workers, NEW call \in Call,
         calls' = [calls EXCEPT ![w] = call]
  PROVE  /\ calls' \in [Workers -> Call]
         /\ calls'[w] = call
         /\ \A v \in Workers \ {w} : calls'[v] = calls[v]
  OBVIOUS

\* A draw is an octet no generated host stands on.
LEMMA DrawsAreFree ==
  ASSUME NEW call \in Call, call.op = "join", call.step # "idle"
  PROVE  /\ Seat(call) \in Essids \X Players
         /\ Candidates(call) \subseteq Octets \ Npc[call.essid]
BY DEF Call, Seat, Candidates

\* The next draw is a request of the same join, or none.
LEMMA RedrawTyped ==
  ASSUME NEW call \in Call
  PROVE  Redraw(call) \in Call /\ Redraw(call) \in {NoCall, [call EXCEPT !.attempt = @ + 1]}
<1>1. CASE call.attempt + 1 = MaxAttempts
  BY <1>1, NoCallTyped DEF Redraw
<1>2. CASE call.attempt + 1 # MaxAttempts
  <2>1. call.attempt + 1 \in 0 .. MaxAttempts - 1
    BY <1>2, RideAssumption DEF Call
  <2>2. [call EXCEPT !.attempt = call.attempt + 1] \in Call
    BY <2>1 DEF Call
  <2> QED
    BY <1>2, <2>2 DEF Redraw
<1> QED
  BY <1>1, <1>2

-----------------------------------------------------------------------------
(* Types.                                                                  *)

\* The tables and the requests in flight keep their shape: every request carries
\* what its next database call writes.
THEOREM Typing == Spec => []TypeOK
<1>1. Init => TypeOK
  <2> SUFFICES ASSUME Init PROVE TypeOK
    OBVIOUS
  <2>1. 0 \in 0 .. MaxTrips
    BY RideAssumption
  <2> QED
    BY <2>1, NoCallTyped, PlacesAssumption DEF Init, TypeOK
<1>2. TypeOK /\ [Next]_vars => TypeOK'
  <2> SUFFICES ASSUME TypeOK, [Next]_vars PROVE TypeOK'
    OBVIOUS
  <2> USE DEF TypeOK
  <2>1. ASSUME NEW w \in Workers, NEW p \in Players, StartJoin(w, p) PROVE TypeOK'
    <3>1. PICK e \in Essids : Begin(w, Request("join", "lease", p, e, None, 0))
      BY <2>1 DEF StartJoin
    <3> QED
      BY <2>1, <3>1, JoinTyped, SlotTyped DEF StartJoin, Begin
  <2>2. ASSUME NEW w \in Workers, NEW p \in Players, DeleteOccupant(w, p) PROVE TypeOK'
    <3>1. PICK e \in Essids :
            /\ occupants' = occupants \ {<<e, p>>}
            /\ Begin(w, Request("leave", "drop", p, e, None, 0))
      BY <2>2 DEF DeleteOccupant
    <3> QED
      BY <2>2, <3>1, JoinTyped, SlotTyped DEF DeleteOccupant, Begin
  <2>3. ASSUME NEW w \in Workers, NEW p \in Players, StartBoard(w, p) PROVE TypeOK'
    <3>1. PICK t \in Towns : Begin(w, Request("board", "fare", p, None, t, trips[p]))
      BY <2>3 DEF StartBoard
    <3>2. trips[p] \in 0 .. MaxTrips /\ trips[p] < MaxTrips
      BY <2>3 DEF StartBoard
    <3>3. Request("board", "fare", p, None, t, trips[p]) \in Call
      BY <3>2, BoardTyped
    <3> QED
      BY <2>3, <3>1, <3>3, SlotTyped DEF StartBoard, Begin
  <2>4. ASSUME NEW w \in Workers, ReadLease(w) PROVE TypeOK'
    <3> DEFINE held == leases[Seat(calls[w])]
    <3>1. calls[w] \in Call /\ calls[w].step = "lease" /\ calls[w].op = "join"
      BY <2>4 DEF ReadLease, Call
    <3>2. held \in Octets \cup {None}
      BY <3>1, DrawsAreFree
    <3>3. CASE held = None
      <4>1. [calls[w] EXCEPT !.step = "claim"] \in Call
        BY <3>1 DEF Call, Steps
      <4> QED
        BY <2>4, <3>3, <4>1, SlotTyped DEF ReadLease, Goto
    <3>4. CASE held # None
      <4>1. [calls[w] EXCEPT !.octet = held, !.step = "others"] \in Call
        BY <3>1, <3>2 DEF Call, Steps
      <4>2. calls' = [calls EXCEPT ![w] = [calls[w] EXCEPT !.octet = held, !.step = "others"]]
        BY <2>4, <3>4 DEF ReadLease
      <4> QED
        BY <2>4, <4>1, <4>2, SlotTyped DEF ReadLease
    <3> QED
      BY <3>3, <3>4
  <2>5. ASSUME NEW w \in Workers, ClaimLease(w) PROVE TypeOK'
    <3>1. calls[w] \in Call /\ calls[w].step = "claim" /\ calls[w].op = "join"
      BY <2>5 DEF ClaimLease, Call
    <3>2. PICK octet \in Candidates(calls[w]) :
            IF leases[Seat(calls[w])] # None
            THEN Goto(w, "lease") /\ UNCHANGED leases
            ELSE IF Holders(calls[w].essid, octet) = {}
            THEN /\ leases' = [leases EXCEPT ![Seat(calls[w])] = octet]
                 /\ calls' = [calls EXCEPT ![w].octet = octet, ![w].step = "others"]
            ELSE calls' = [calls EXCEPT ![w] = Redraw(calls[w])] /\ UNCHANGED leases
      BY <2>5 DEF ClaimLease
    <3>3. octet \in Octets /\ Seat(calls[w]) \in Essids \X Players
      BY <3>1, <3>2, DrawsAreFree
    <3>4. /\ [calls[w] EXCEPT !.step = "lease"] \in Call
          /\ [calls[w] EXCEPT !.octet = octet, !.step = "others"] \in Call
          /\ Redraw(calls[w]) \in Call
      BY <3>1, <3>3, RedrawTyped DEF Call, Steps
    <3>5. leases' \in [Essids \X Players -> Octets \cup {None}]
      BY <3>2, <3>3
    <3>6. calls' \in [Workers -> Call]
      BY <3>2, <3>4 DEF Goto
    <3> QED
      BY <2>5, <3>5, <3>6 DEF ClaimLease
  <2>6. ASSUME NEW w \in Workers, DeleteOtherOccupancies(w) PROVE TypeOK'
    <3>1. calls[w] \in Call /\ calls[w].step = "others"
      BY <2>6 DEF DeleteOtherOccupancies
    <3>2. /\ [calls[w] EXCEPT !.step = "occupy"] \in Call
          /\ [calls[w] EXCEPT !.step = "drop"] \in Call
      BY <3>1 DEF Call, Steps
    <3>3. calls' \in [Workers -> Call]
      BY <2>6, <3>2 DEF DeleteOtherOccupancies, Goto
    <3> QED
      BY <2>6, <3>3 DEF DeleteOtherOccupancies
  <2>7. ASSUME NEW w \in Workers, UpsertOccupant(w) PROVE TypeOK'
    <3>1. calls[w] \in Call /\ calls[w].step = "occupy" /\ calls[w].op = "join"
      BY <2>7 DEF UpsertOccupant, Call
    <3>2. Seat(calls[w]) \in Essids \X Players
      BY <3>1, DrawsAreFree
    <3>3. [calls[w] EXCEPT !.step = "answer"] \in Call
      BY <3>1 DEF Call, Steps
    <3> QED
      BY <2>7, <3>2, <3>3, SlotTyped DEF UpsertOccupant, Goto
  <2>8. ASSUME NEW w \in Workers, DropConnections(w) PROVE TypeOK'
    <3>1. calls[w] \in Call /\ calls[w].step = "drop"
      BY <2>8 DEF DropConnections
    <3> DEFINE step == CASE calls[w].op = "join" -> "occupy"
                          [] calls[w].op = "board" -> "move"
                          [] OTHER -> "answer"
    <3>2. \/ step = "occupy" /\ calls[w].op = "join"
          \/ step = "move" /\ calls[w].op = "board"
          \/ step = "answer"
      OBVIOUS
    <3>3. calls' = [calls EXCEPT ![w].step = step]
      BY <2>8 DEF DropConnections, Goto
    <3> HIDE DEF step
    <3>4. [calls[w] EXCEPT !.step = step] \in Call
      BY <3>1, <3>2 DEF Call, Steps
    <3> QED
      BY <2>8, <3>3, <3>4, SlotTyped DEF DropConnections
  <2>9. ASSUME NEW w \in Workers, ReadFare(w) PROVE TypeOK'
    <3>1. calls[w] \in Call /\ calls[w].step = "fare"
      BY <2>9 DEF ReadFare
    <3>2. [calls[w] EXCEPT !.step = "leave"] \in Call
      BY <3>1 DEF Call, Steps
    <3>3. calls' \in [Workers -> Call]
      BY <2>9, <3>2, NoCallTyped DEF ReadFare, Goto, Done
    <3> QED
      BY <2>9, <3>3 DEF ReadFare
  <2>10. ASSUME NEW w \in Workers, DeleteOccupancies(w) PROVE TypeOK'
    <3>1. calls[w] \in Call /\ calls[w].step = "leave"
      BY <2>10 DEF DeleteOccupancies
    <3>2. /\ [calls[w] EXCEPT !.step = "move"] \in Call
          /\ [calls[w] EXCEPT !.step = "drop"] \in Call
      BY <3>1 DEF Call, Steps
    <3>3. calls' \in [Workers -> Call]
      BY <2>10, <3>2 DEF DeleteOccupancies, Goto
    <3> QED
      BY <2>10, <3>3 DEF DeleteOccupancies
  <2>11. ASSUME NEW w \in Workers, MoveLocation(w) PROVE TypeOK'
    <3>1. /\ calls[w] \in Call /\ calls[w].step = "move"
          /\ calls[w].player \in Players /\ calls[w].town \in Towns
          /\ calls[w].tripsTaken \in 0 .. MaxTrips /\ calls[w].tripsTaken < MaxTrips
      BY <2>11 DEF MoveLocation, Call
    <3>2. [calls[w] EXCEPT !.step = "answer"] \in Call
      BY <3>1 DEF Call, Steps
    <3>3. town' \in [Players -> Towns] /\ trips' \in [Players -> 0 .. MaxTrips]
      <4>1. CASE trips[calls[w].player] = calls[w].tripsTaken
        <5>1. trips[calls[w].player] + 1 \in 0 .. MaxTrips
          BY <3>1, <4>1, RideAssumption
        <5> QED
          BY <2>11, <3>1, <4>1, <5>1 DEF MoveLocation
      <4>2. CASE trips[calls[w].player] # calls[w].tripsTaken
        BY <2>11, <4>2 DEF MoveLocation
      <4> QED
        BY <4>1, <4>2
    <3> QED
      BY <2>11, <3>2, <3>3, SlotTyped DEF MoveLocation, Goto
  <2>12. ASSUME NEW w \in Workers, Answer(w) \/ Fail(w) PROVE TypeOK'
    BY <2>12, NoCallTyped, SlotTyped DEF Answer, Fail, Done
  <2>13. ASSUME NEW p \in Players, PayFare(p) PROVE TypeOK'
    <3>1. PICK k \in 0 .. MaxTrips : paid' = [paid EXCEPT ![p][k] = @ + 1]
      BY <2>13 DEF PayFare
    <3>2. paid[p] \in [0 .. MaxTrips -> Nat]
      OBVIOUS
    <3>5. paid[p][k] \in Nat
      BY <3>2
    <3>6. paid[p][k] + 1 \in Nat
      BY <3>5
    <3>3. paid' = [paid EXCEPT ![p] = [paid[p] EXCEPT ![k] = paid[p][k] + 1]]
      BY <3>1
    <3>4. paid' \in [Players -> [0 .. MaxTrips -> Nat]]
      BY <3>2, <3>3, <3>6
    <3> QED
      BY <2>13, <3>4 DEF PayFare
  <2>14. CASE UNCHANGED vars
    BY <2>14 DEF vars
  <2> QED
    BY <2>1, <2>2, <2>3, <2>4, <2>5, <2>6, <2>7, <2>8, <2>9, <2>10, <2>11, <2>12, <2>13, <2>14
       DEF Next, Continue
<1> QED
  BY <1>1, <1>2, PTL DEF Spec
-----------------------------------------------------------------------------
(* Trips.                                                                  *)

\* No transfer leaves a trip's address, and no trip is taken back.
LEMMA PaidGrows ==
  ASSUME TypeOK, [Next]_vars, NEW p \in Players, NEW k \in 0 .. MaxTrips
  PROVE  /\ paid[p][k] \in Nat
         /\ paid'[p][k] \in Nat
         /\ paid[p][k] >= RideFare => paid'[p][k] >= RideFare
<1>1. paid[p][k] \in Nat
  BY DEF TypeOK
<1>2. RideFare \in Nat
  BY RideAssumption
<1>3. CASE UNCHANGED paid
  BY <1>1, <1>3
<1>4. ASSUME NEW q \in Players, PayFare(q)
      PROVE  paid'[p][k] = paid[p][k] \/ paid'[p][k] = paid[p][k] + 1
  <2>1. PICK j \in 0 .. MaxTrips : paid' = [paid EXCEPT ![q][j] = @ + 1]
    BY <1>4 DEF PayFare
  <2>2. paid' = [paid EXCEPT ![q] = [paid[q] EXCEPT ![j] = paid[q][j] + 1]]
    BY <2>1
  <2> QED
    BY <2>2 DEF TypeOK
<1>5. UNCHANGED paid \/ \E q \in Players : PayFare(q)
  BY DEF Next, Continue, vars, StartJoin, DeleteOccupant, StartBoard, ReadLease, ClaimLease,
         DeleteOtherOccupancies, UpsertOccupant, DropConnections, ReadFare,
         DeleteOccupancies, MoveLocation, Answer, Fail
<1>6. ASSUME NEW q \in Players, PayFare(q)
      PROVE  /\ paid'[p][k] \in Nat
             /\ paid[p][k] >= RideFare => paid'[p][k] >= RideFare
  BY <1>1, <1>2, <1>4, <1>6
<1> QED
  BY <1>1, <1>3, <1>5, <1>6

\* What a step does to the slot it serves, by the action.
LEMMA StepOp ==
  ASSUME TypeOK, NEW w \in Workers, Continue(w) \/ Fail(w)
  PROVE  /\ \A v \in Workers \ {w} : calls'[v] = calls[v]
         /\ \/ calls'[w] = NoCall
            \/ /\ calls'[w].op = calls[w].op /\ calls'[w].player = calls[w].player
               /\ calls'[w].essid = calls[w].essid /\ calls'[w].town = calls[w].town
               /\ calls'[w].tripsTaken = calls[w].tripsTaken
<1>1. calls \in [Workers -> Call] /\ calls[w] \in Call
  BY DEF TypeOK
<1>2. ASSUME NEW step, Goto(w, step)
      PROVE  calls' = [calls EXCEPT ![w] = [calls[w] EXCEPT !.step = step]]
  BY <1>2 DEF Goto
<1>3. ASSUME NEW octet, calls' = [calls EXCEPT ![w].octet = octet, ![w].step = "others"]
      PROVE  calls' = [calls EXCEPT ![w] = [calls[w] EXCEPT !.octet = octet, !.step = "others"]]
  BY <1>3
<1>4. Redraw(calls[w]) \in {NoCall, [calls[w] EXCEPT !.attempt = @ + 1]}
  BY <1>1, RedrawTyped
<1>5. PICK call : /\ calls' = [calls EXCEPT ![w] = call]
                  /\ \/ call = NoCall
                     \/ \E step : call = [calls[w] EXCEPT !.step = step]
                     \/ \E octet : call = [calls[w] EXCEPT !.octet = octet, !.step = "others"]
                     \/ call = [calls[w] EXCEPT !.attempt = @ + 1]
  <2>1. CASE ReadLease(w)
    BY ZenonT(40), <2>1, <1>2, <1>3 DEF ReadLease
  <2>2. CASE ClaimLease(w)
    BY ZenonT(40), <2>2, <1>2, <1>3, <1>4 DEF ClaimLease
  <2>3. CASE ReadFare(w)
    BY <2>3, <1>2 DEF ReadFare, Done
  <2>4. CASE Answer(w) \/ Fail(w)
    BY <2>4 DEF Answer, Fail, Done
  <2>5. CASE DeleteOtherOccupancies(w) \/ UpsertOccupant(w) \/ DropConnections(w)
             \/ DeleteOccupancies(w) \/ MoveLocation(w)
    BY <2>5, <1>2 DEF DeleteOtherOccupancies, UpsertOccupant, DropConnections,
                      DeleteOccupancies, MoveLocation
  <2> QED
    BY <2>1, <2>2, <2>3, <2>4, <2>5 DEF Continue
<1>6. calls'[w] = call /\ \A v \in Workers \ {w} : calls'[v] = calls[v]
  BY <1>1, <1>5
<1>7. calls[w] = [op |-> calls[w].op, step |-> calls[w].step, player |-> calls[w].player,
                  essid |-> calls[w].essid, town |-> calls[w].town,
                  tripsTaken |-> calls[w].tripsTaken, attempt |-> calls[w].attempt,
                  octet |-> calls[w].octet]
  BY <1>1 DEF Call
<1> QED
  BY ZenonT(40), <1>5, <1>6, <1>7

\* A slot changes by a step of its own.
LEMMA StepsAlone ==
  ASSUME TypeOK, [Next]_vars, NEW v \in Workers, calls'[v] # calls[v]
  PROVE  \/ \E p \in Players : StartJoin(v, p) \/ DeleteOccupant(v, p) \/ StartBoard(v, p)
         \/ Continue(v) \/ Fail(v)
<1>1. calls \in [Workers -> Call]
  BY DEF TypeOK
<1>2. UNCHANGED calls \/ \E w \in Workers :
         \/ \E p \in Players : StartJoin(w, p) \/ DeleteOccupant(w, p) \/ StartBoard(w, p)
         \/ Continue(w) \/ Fail(w)
  BY DEF Next, vars, PayFare
<1>3. PICK w \in Workers :
         \/ \E p \in Players : StartJoin(w, p) \/ DeleteOccupant(w, p) \/ StartBoard(w, p)
         \/ Continue(w) \/ Fail(w)
  BY <1>2
<1>4. ASSUME NEW p \in Players, StartJoin(w, p) \/ DeleteOccupant(w, p) \/ StartBoard(w, p)
      PROVE  v = w
  <2>1. PICK call : calls' = [calls EXCEPT ![w] = call]
    BY <1>4 DEF StartJoin, DeleteOccupant, StartBoard, Begin
  <2> QED
    BY <1>1, <2>1
<1>5. CASE Continue(w) \/ Fail(w)
  BY <1>3, <1>5, StepOp
<1> QED
  BY <1>3, <1>4, <1>5

\* A request starts at its first database call, knowing no address yet.
LEMMA StartsFresh ==
  ASSUME TypeOK, NEW w \in Workers, NEW p \in Players,
         StartJoin(w, p) \/ DeleteOccupant(w, p) \/ StartBoard(w, p)
  PROVE  /\ calls'[w].octet = None
         /\ calls'[w].op = "join" => calls'[w].step = "lease"
         /\ calls'[w].op = "board" => calls'[w].step = "fare"
<1>1. CASE StartJoin(w, p)
  <2>1. PICK e \in Essids : calls' = [calls EXCEPT ![w] = Request("join", "lease", p, e, None, 0)]
    BY <1>1 DEF StartJoin, Begin
  <2> QED
    BY <2>1 DEF TypeOK, Request
<1>2. CASE DeleteOccupant(w, p)
  <2>1. PICK e \in Essids : calls' = [calls EXCEPT ![w] = Request("leave", "drop", p, e, None, 0)]
    BY <1>2 DEF DeleteOccupant, Begin
  <2> QED
    BY <2>1 DEF TypeOK, Request
<1>3. CASE StartBoard(w, p)
  <2>1. PICK t \in Towns :
          calls' = [calls EXCEPT ![w] = Request("board", "fare", p, None, t, trips[p])]
    BY <1>3 DEF StartBoard, Begin
  <2> QED
    BY <2>1 DEF TypeOK, Request
<1> QED
  BY <1>1, <1>2, <1>3

\* A request past its fare check was past it before this step, or checks now.
LEMMA BoardingsStep ==
  ASSUME TypeOK, [Next]_vars, NEW v \in Workers,
         calls'[v].op = "board", calls'[v].step \in {"leave", "drop", "move"}
  PROVE  /\ calls[v].player \in Players /\ calls[v].tripsTaken \in 0 .. MaxTrips
         /\ calls'[v].player = calls[v].player
         /\ calls'[v].tripsTaken = calls[v].tripsTaken
         /\ \/ calls[v].op = "board" /\ calls[v].step \in {"leave", "drop", "move"}
            \/ paid[calls[v].player][calls[v].tripsTaken] >= RideFare
<1>1. calls[v] \in Call
  BY DEF TypeOK
<1>2. calls[v].tripsTaken \in 0 .. MaxTrips
  BY <1>1 DEF Call
<1>3. CASE calls'[v] = calls[v]
  BY <1>1, <1>2, <1>3 DEF Call
<1>4. CASE calls'[v] # calls[v]
  <2>1. ASSUME NEW p \in Players, StartJoin(v, p) \/ DeleteOccupant(v, p) \/ StartBoard(v, p)
        PROVE  FALSE
    BY <2>1, StartsFresh
  <2>2. ASSUME Continue(v) \/ Fail(v)
        PROVE  /\ calls[v].op = "board" /\ calls'[v].player = calls[v].player
               /\ calls'[v].tripsTaken = calls[v].tripsTaken
    <3>1. calls'[v] # NoCall
      BY LeaseAssumption DEF NoCall, Request, Ops
    <3> QED
      BY <2>2, <3>1, StepOp
  <2>3. CASE ReadLease(v) \/ ClaimLease(v) \/ DeleteOtherOccupancies(v) \/ UpsertOccupant(v)
    <3>1. calls[v].op = "join"
      BY <1>1, <2>3 DEF ReadLease, ClaimLease, DeleteOtherOccupancies, UpsertOccupant, Call
    <3> QED
      BY <2>2, <2>3, <3>1 DEF Continue
  <2>4. CASE DropConnections(v) \/ DeleteOccupancies(v)
    <3>1. calls[v].step \in {"leave", "drop"}
      BY <2>4 DEF DropConnections, DeleteOccupancies
    <3>2. calls[v].player \in Players
      BY <1>1, <3>1 DEF Call
    <3> QED
      BY <1>2, <2>2, <2>4, <3>1, <3>2 DEF Continue
  <2>5. CASE ReadFare(v)
    <3>1. calls[v].player \in Players
      BY <1>1, <2>5 DEF ReadFare, Call
    <3>2. CASE paid[calls[v].player][calls[v].tripsTaken] >= RideFare
      BY <1>2, <2>2, <2>5, <3>1, <3>2 DEF Continue
    <3>3. CASE ~(paid[calls[v].player][calls[v].tripsTaken] >= RideFare)
      <4>1. calls'[v] = NoCall
        BY <2>5, <3>3 DEF ReadFare, Done, TypeOK
      <4> QED
        BY <4>1, LeaseAssumption DEF NoCall, Request, Ops
    <3> QED
      BY <3>2, <3>3
  <2>6. CASE MoveLocation(v)
    <3>1. calls'[v] = [calls[v] EXCEPT !.step = "answer"]
      BY <2>6 DEF MoveLocation, Goto, TypeOK
    <3>2. calls'[v].step = "answer"
      BY <1>1, <3>1 DEF Call
    <3> QED
      BY <3>2
  <2>7. CASE Answer(v) \/ Fail(v)
    <3>1. calls'[v] = NoCall
      BY <2>7 DEF Answer, Fail, Done, TypeOK
    <3> QED
      BY <3>1, LeaseAssumption DEF NoCall, Request, Ops
  <2> QED
    BY <1>4, <2>1, <2>3, <2>4, <2>5, <2>6, <2>7, StepsAlone DEF Continue
<1> QED
  BY <1>3, <1>4

\* Only a move changes a town or counts a trip, and it counts the next one.
LEMMA TripsStay ==
  ASSUME TypeOK, [Next]_vars, NEW p \in Players, ~(town'[p] = town[p] /\ trips'[p] = trips[p])
  PROVE  \E w \in Workers :
           /\ calls[w].op = "board" /\ calls[w].step = "move"
           /\ calls[w].player = p /\ calls[w].tripsTaken = trips[p]
           /\ trips'[p] = trips[p] + 1
<1>1. \E w \in Workers : MoveLocation(w)
  BY DEF Next, Continue, vars, StartJoin, DeleteOccupant, StartBoard, ReadLease, ClaimLease,
         DeleteOtherOccupancies, UpsertOccupant, DropConnections, ReadFare,
         DeleteOccupancies, PayFare, Answer, Fail
<1>2. PICK w \in Workers : MoveLocation(w)
  BY <1>1
<1>3. calls[w].step = "move" /\ calls[w].op = "board"
  BY <1>2 DEF TypeOK, MoveLocation, Call
<1>4. calls[w].player = p /\ trips[p] = calls[w].tripsTaken
  BY <1>2 DEF MoveLocation, TypeOK
<1>5. trips'[p] = trips[p] + 1
  BY <1>2, <1>4 DEF MoveLocation, TypeOK
<1> QED
  BY <1>3, <1>4, <1>5

\* What a boarding read at the trip's address does not go away.
LEMMA PaidBoardingsStep ==
  ASSUME TypeOK, [Next]_vars, PaidBoardings
  PROVE  PaidBoardings'
<1> SUFFICES ASSUME NEW v \in Workers, calls'[v].op = "board",
                    calls'[v].step \in {"leave", "drop", "move"}
             PROVE  paid'[calls'[v].player][calls'[v].tripsTaken] >= RideFare
  BY DEF PaidBoardings
<1>1. paid[calls[v].player][calls[v].tripsTaken] >= RideFare
  BY BoardingsStep DEF PaidBoardings
<1> QED
  BY <1>1, BoardingsStep, PaidGrows

\* One fare buys one trip: the row a boarding writes still names the trip whose
\* fare it read.
THEOREM TripsArePaid == Spec => []EveryTripPaid
<1>1. Init => PaidBoardings /\ EveryTripPaid
  <2> SUFFICES ASSUME Init PROVE PaidBoardings /\ EveryTripPaid
    OBVIOUS
  <2>1. PaidBoardings
    BY DEF Init, PaidBoardings, NoCall, Request
  <2>2. EveryTripPaid
    BY DEF Init, EveryTripPaid
  <2> QED
    BY <2>1, <2>2
<1>2. TypeOK /\ [Next]_vars /\ PaidBoardings /\ EveryTripPaid
      => PaidBoardings' /\ EveryTripPaid'
  <2> SUFFICES ASSUME TypeOK, [Next]_vars, PaidBoardings, EveryTripPaid
               PROVE  PaidBoardings' /\ EveryTripPaid'
    OBVIOUS
  <2>1. PaidBoardings'
    BY PaidBoardingsStep
  <2>2. EveryTripPaid'
    <3> SUFFICES ASSUME NEW p \in Players, NEW k \in 0 .. MaxTrips, k < trips'[p]
                 PROVE  paid'[p][k] >= RideFare
      BY DEF EveryTripPaid
    <3>1. CASE k < trips[p]
      BY <3>1, PaidGrows DEF EveryTripPaid
    <3>2. CASE ~(k < trips[p])
      <4>1. trips'[p] # trips[p]
        BY <3>2
      <4>2. PICK w \in Workers :
              /\ calls[w].op = "board" /\ calls[w].step = "move"
              /\ calls[w].player = p /\ calls[w].tripsTaken = trips[p]
              /\ trips'[p] = trips[p] + 1
        BY <4>1, TripsStay
      <4>3. k = trips[p]
        BY <3>2, <4>2 DEF TypeOK
      <4>4. paid[p][k] >= RideFare
        BY <4>2, <4>3 DEF PaidBoardings
      <4> QED
        BY <4>4, PaidGrows
    <3> QED
      BY <3>1, <3>2
  <2> QED
    BY <2>1, <2>2
<1> QED
  BY <1>1, <1>2, Typing, PTL DEF Spec

\* Only a fare that arrives and a move are seen by the rides, and each is one of them.
LEMMA RideStep ==
  ASSUME TypeOK, PaidBoardings, [Next]_vars
  PROVE  [Boarding!Next]_(Boarding!rides)
<1>1. \/ UNCHANGED Boarding!rides
      \/ \E p \in Players : PayFare(p)
      \/ \E w \in Workers : MoveLocation(w)
  BY DEF Next, Continue, vars, StartJoin, DeleteOccupant, StartBoard, ReadLease, ClaimLease,
         DeleteOtherOccupancies, UpsertOccupant, DropConnections, ReadFare,
         DeleteOccupancies, Answer, Fail, Boarding!rides
<1>2. ASSUME NEW p \in Players, PayFare(p) PROVE Boarding!Next
  BY <1>2 DEF PayFare, Boarding!Next, Boarding!Pay
<1>3. ASSUME NEW w \in Workers, MoveLocation(w) PROVE [Boarding!Next]_(Boarding!rides)
  <2> DEFINE p == calls[w].player
             t == calls[w].town
  <2>1. /\ calls[w].op = "board" /\ calls[w].step = "move"
        /\ p \in Players /\ t \in Towns /\ calls[w].tripsTaken < MaxTrips
    BY <1>3 DEF TypeOK, MoveLocation, Call
  <2>2. CASE trips[p] # calls[w].tripsTaken
    BY <1>3, <2>2 DEF MoveLocation, Boarding!rides
  <2>3. CASE trips[p] = calls[w].tripsTaken
    <3>1. paid[p][trips[p]] >= RideFare
      BY <2>1, <2>3 DEF PaidBoardings
    <3>2. Boarding!Ride(p, t)
      BY <1>3, <2>1, <2>3, <3>1 DEF MoveLocation, Boarding!Ride
    <3> QED
      BY <2>1, <3>2 DEF Boarding!Next
  <2> QED
    BY <2>2, <2>3
<1> QED
  BY <1>1, <1>2, <1>3

\* A boarding is one ride: whatever boardings race, a move takes the next trip of its
\* player, at whose address the fare lies, or moves nobody.
THEOREM OneRide == Spec => RidesAreAtomic
<1>1. Init => PaidBoardings
  BY DEF Init, PaidBoardings, NoCall, Request
<1>2. Init => Boarding!Init
  BY DEF Init, Boarding!Init
<1>3. TypeOK /\ [Next]_vars /\ PaidBoardings => PaidBoardings'
  BY PaidBoardingsStep
<1> QED
  BY <1>1, <1>2, <1>3, RideStep, Typing, PTL DEF Spec, RidesAreAtomic, Boarding!Spec

-----------------------------------------------------------------------------
(* Addresses.                                                              *)

\* A lease is bound once, by a claim, to an octet nobody on the network holds and
\* no generated host stands on.
LEMMA LeasesGrow ==
  ASSUME TypeOK, [Next]_vars, NEW e \in Essids, NEW p \in Players,
         leases'[<<e, p>>] # leases[<<e, p>>]
  PROVE  /\ leases[<<e, p>>] = None
         /\ leases'[<<e, p>>] \in Octets \ Npc[e]
         /\ \A q \in Players : leases[<<e, q>>] # leases'[<<e, p>>]
         /\ \A q \in Players \ {p} : leases'[<<e, q>>] = leases[<<e, q>>]
<1>1. \E w \in Workers : ClaimLease(w)
  BY DEF Next, Continue, vars, StartJoin, DeleteOccupant, StartBoard, ReadLease,
         DeleteOtherOccupancies, UpsertOccupant, DropConnections, ReadFare,
         DeleteOccupancies, MoveLocation, PayFare, Answer, Fail
<1>2. PICK w \in Workers : ClaimLease(w)
  BY <1>1
<1>3. PICK octet \in Candidates(calls[w]) :
        /\ leases[Seat(calls[w])] = None
        /\ Holders(calls[w].essid, octet) = {}
        /\ leases' = [leases EXCEPT ![Seat(calls[w])] = octet]
  BY <1>2 DEF ClaimLease
<1>4. calls[w] \in Call /\ calls[w].op = "join" /\ calls[w].step # "idle"
  BY <1>2 DEF TypeOK, ClaimLease, Call
<1>5. Seat(calls[w]) \in Essids \X Players /\ octet \in Octets \ Npc[calls[w].essid]
  BY <1>3, <1>4, DrawsAreFree
<1>6. Seat(calls[w]) = <<e, p>>
  BY <1>3, <1>5 DEF TypeOK
<1>7. calls[w].essid = e /\ leases'[<<e, p>>] = octet
  BY <1>3, <1>5, <1>6 DEF TypeOK, Seat
<1>8. \A q \in Players \ {p} : leases'[<<e, q>>] = leases[<<e, q>>]
  BY <1>3, <1>6 DEF TypeOK
<1> QED
  BY <1>3, <1>5, <1>6, <1>7, <1>8 DEF Holders

\* A held lease is never rebound: every write names the pair it found empty.
LEMMA LeasesStand ==
  ASSUME TypeOK, [Next]_vars, NEW o \in Essids \X Players, leases[o] # None
  PROVE  leases'[o] = leases[o]
<1>1. PICK e \in Essids, p \in Players : o = <<e, p>>
  OBVIOUS
<1> QED
  BY <1>1, LeasesGrow

\* A request that knows its address knew it before this step, or just read it off
\* the lease.
LEMMA OctetsStep ==
  ASSUME TypeOK, [Next]_vars, NEW v \in Workers, calls'[v].octet # None
  PROVE  /\ Seat(calls'[v]) = Seat(calls[v]) /\ Seat(calls[v]) \in Essids \X Players
         /\ calls[v].octet = calls'[v].octet \/ leases'[Seat(calls[v])] = calls'[v].octet
<1>1. calls[v] \in Call
  BY DEF TypeOK
<1>2. ASSUME calls[v].op = "join", calls[v].step # "idle"
      PROVE  Seat(calls[v]) \in Essids \X Players
  BY <1>1, <1>2 DEF Call, Seat
<1>3. ASSUME calls[v].octet # None
      PROVE  Seat(calls[v]) \in Essids \X Players
  BY <1>1, <1>2, <1>3 DEF Call
<1>4. CASE calls'[v] = calls[v]
  BY <1>3, <1>4
<1>5. CASE calls'[v] # calls[v]
  <2>1. ASSUME NEW p \in Players, StartJoin(v, p) \/ DeleteOccupant(v, p) \/ StartBoard(v, p)
        PROVE  FALSE
    BY <2>1, StartsFresh
  <2>2. ASSUME Continue(v) \/ Fail(v) PROVE Seat(calls'[v]) = Seat(calls[v])
    <3>1. calls'[v] # NoCall
      BY DEF NoCall, Request
    <3> QED
      BY <2>2, <3>1, StepOp DEF Seat
  <2>3. ASSUME NEW step, Goto(v, step) PROVE calls'[v].octet = calls[v].octet
    BY <1>1, <2>3 DEF Goto, TypeOK, Call
  <2>4. CASE ReadLease(v)
    <3>1. Seat(calls[v]) \in Essids \X Players
      BY <1>1, <1>2, <2>4 DEF ReadLease, Call
    <3>2. CASE leases[Seat(calls[v])] = None
      BY <2>2, <2>3, <2>4, <3>1, <3>2 DEF ReadLease, Continue
    <3>3. CASE leases[Seat(calls[v])] # None
      <4>1. calls'[v].octet = leases[Seat(calls[v])]
        BY <1>1, <2>4, <3>3 DEF ReadLease, TypeOK, Call
      <4> QED
        BY <2>2, <2>4, <3>1, <4>1 DEF ReadLease, Continue
    <3> QED
      BY <3>2, <3>3
  <2>5. CASE ClaimLease(v)
    <3>1. Seat(calls[v]) \in Essids \X Players
      BY <1>1, <1>2, <2>5 DEF ClaimLease, Call
    <3>2. PICK octet \in Candidates(calls[v]) :
            \/ Goto(v, "lease")
            \/ /\ leases' = [leases EXCEPT ![Seat(calls[v])] = octet]
               /\ calls' = [calls EXCEPT ![v].octet = octet, ![v].step = "others"]
            \/ calls' = [calls EXCEPT ![v] = Redraw(calls[v])]
      BY <2>5 DEF ClaimLease
    <3>3. CASE /\ leases' = [leases EXCEPT ![Seat(calls[v])] = octet]
               /\ calls' = [calls EXCEPT ![v].octet = octet, ![v].step = "others"]
      <4>1. calls'[v].octet = octet
        BY <1>1, <3>3 DEF TypeOK, Call
      <4>2. leases'[Seat(calls[v])] = octet
        BY <3>1, <3>3 DEF TypeOK
      <4> QED
        BY <2>2, <2>5, <3>1, <4>1, <4>2 DEF Continue
    <3>4. CASE calls' = [calls EXCEPT ![v] = Redraw(calls[v])]
      <4>1. calls'[v] = Redraw(calls[v])
        BY <3>4 DEF TypeOK
      <4>2. calls'[v] = [calls[v] EXCEPT !.attempt = @ + 1]
        BY <1>1, <4>1, RedrawTyped DEF NoCall, Request
      <4>3. calls'[v].octet = calls[v].octet
        BY <1>1, <4>2 DEF Call
      <4> QED
        BY <2>2, <2>5, <3>1, <4>3 DEF Continue
    <3> QED
      BY <2>2, <2>3, <2>5, <3>1, <3>2, <3>3, <3>4 DEF Continue
  <2>6. CASE DeleteOtherOccupancies(v) \/ UpsertOccupant(v) \/ DropConnections(v)
             \/ DeleteOccupancies(v) \/ MoveLocation(v)
    <3>1. \E step : Goto(v, step)
      BY <2>6 DEF DeleteOtherOccupancies, UpsertOccupant, DropConnections,
                  DeleteOccupancies, MoveLocation
    <3> QED
      BY <1>3, <2>2, <2>3, <2>6, <3>1 DEF Continue
  <2>7. CASE ReadFare(v)
    <3>1. Goto(v, "leave") \/ calls'[v] = NoCall
      BY <2>7 DEF ReadFare, Done, TypeOK
    <3> QED
      BY <1>3, <2>2, <2>3, <2>7, <3>1 DEF Continue, NoCall, Request
  <2>8. CASE Answer(v) \/ Fail(v)
    <3>1. calls'[v] = NoCall
      BY <2>8 DEF Answer, Fail, Done, TypeOK
    <3> QED
      BY <3>1 DEF NoCall, Request
  <2> QED
    BY <1>5, <2>1, <2>4, <2>5, <2>6, <2>7, <2>8, StepsAlone DEF Continue
<1> QED
  BY <1>4, <1>5

\* A join past its lease got there by a step that learnt the address, or was past
\* it before.
LEMMA JoinsStep ==
  ASSUME TypeOK, [Next]_vars, JoinsHoldAddress
  PROVE  JoinsHoldAddress'
<1> SUFFICES ASSUME NEW v \in Workers, calls'[v].op = "join",
                    calls'[v].step \in {"others", "drop", "occupy"}
             PROVE  calls'[v].octet # None
  BY DEF JoinsHoldAddress
<1>1. calls[v] \in Call
  BY DEF TypeOK
<1>2. CASE calls'[v] = calls[v]
  BY <1>2 DEF JoinsHoldAddress
<1>3. CASE calls'[v] # calls[v]
  <2>1. ASSUME NEW p \in Players, StartJoin(v, p) \/ DeleteOccupant(v, p) \/ StartBoard(v, p)
        PROVE  FALSE
    BY <2>1, StartsFresh
  <2>2. ASSUME Continue(v) \/ Fail(v) PROVE calls[v].op = "join"
    <3>1. calls'[v] # NoCall
      BY LeaseAssumption DEF NoCall, Request, Ops
    <3> QED
      BY <2>2, <3>1, StepOp
  <2>3. ASSUME NEW step, Goto(v, step)
        PROVE  calls'[v].octet = calls[v].octet /\ calls'[v].step = step
    BY <1>1, <2>3 DEF Goto, TypeOK, Call
  <2>4. ASSUME NEW octet \in Octets, calls' = [calls EXCEPT ![v].octet = octet, ![v].step = "others"]
        PROVE  calls'[v].octet # None
    BY <1>1, <2>4, LeaseAssumption DEF TypeOK, Call
  <2>5. CASE ReadLease(v)
    <3>1. Seat(calls[v]) \in Essids \X Players
      BY <1>1, <2>5 DEF ReadLease, Call, Seat
    <3>2. leases[Seat(calls[v])] \in Octets \cup {None}
      BY <3>1 DEF TypeOK
    <3>3. CASE leases[Seat(calls[v])] = None
      <4>1. calls'[v].step = "claim"
        BY <2>3, <2>5, <3>3 DEF ReadLease
      <4> QED
        BY <4>1
    <3>4. CASE leases[Seat(calls[v])] # None
      BY <1>1, <2>5, <3>4 DEF ReadLease, TypeOK, Call
    <3> QED
      BY <3>3, <3>4
  <2>6. CASE ClaimLease(v)
    <3>1. Candidates(calls[v]) \subseteq Octets
      BY <1>1, <2>6, DrawsAreFree DEF ClaimLease, Call
    <3>2. CASE calls' = [calls EXCEPT ![v] = Redraw(calls[v])]
      <4>1. calls'[v] = NoCall \/ calls'[v] = [calls[v] EXCEPT !.attempt = @ + 1]
        BY <1>1, <3>2, RedrawTyped DEF TypeOK
      <4>2. calls'[v].step \in {"idle", "claim"}
        BY <1>1, <2>6, <4>1 DEF NoCall, Request, Call, ClaimLease
      <4> QED
        BY <4>2
    <3> QED
      BY <2>3, <2>4, <2>6, <3>1, <3>2 DEF ClaimLease
  <2>7. CASE DeleteOtherOccupancies(v) \/ DropConnections(v)
    <3>1. calls[v].op = "join" /\ calls[v].step \in {"others", "drop"}
      BY <2>2, <2>7 DEF DeleteOtherOccupancies, DropConnections, Continue
    <3>2. calls'[v].octet = calls[v].octet
      BY <2>3, <2>7 DEF DeleteOtherOccupancies, DropConnections
    <3> QED
      BY <3>1, <3>2 DEF JoinsHoldAddress
  <2>8. CASE UpsertOccupant(v) \/ MoveLocation(v)
    BY <2>3, <2>8 DEF UpsertOccupant, MoveLocation
  <2>9. CASE ReadFare(v) \/ DeleteOccupancies(v)
    <3>1. calls[v].op = "board"
      BY <1>1, <2>9 DEF ReadFare, DeleteOccupancies, Call
    <3> QED
      BY <2>2, <2>9, <3>1 DEF Continue
  <2>10. CASE Answer(v) \/ Fail(v)
    <3>1. calls'[v] = NoCall
      BY <2>10 DEF Answer, Fail, Done, TypeOK
    <3> QED
      BY <3>1, LeaseAssumption DEF NoCall, Request, Ops
  <2> QED
    BY <1>3, <2>1, <2>5, <2>6, <2>7, <2>8, <2>9, <2>10, StepsAlone DEF Continue
<1> QED
  BY <1>2, <1>3

\* Everything the addresses rest on survives a step.
LEMMA AddressingStep ==
  ASSUME TypeOK, TypeOK', [Next]_vars, Addressing
  PROVE  Addressing'
<1>1. JoinsHoldAddress'
  BY JoinsStep DEF Addressing
<1>2. OneHolderEach'
  <2> SUFFICES ASSUME NEW e \in Essids, NEW p \in Players, NEW q \in Players,
                      leases'[<<e, p>>] # None, leases'[<<e, p>>] = leases'[<<e, q>>]
               PROVE  p = q
    BY DEF OneHolderEach
  <2>1. CASE leases'[<<e, p>>] # leases[<<e, p>>]
    BY <2>1, LeasesGrow
  <2>2. CASE leases'[<<e, q>>] # leases[<<e, q>>]
    BY <2>2, LeasesGrow
  <2>3. CASE leases'[<<e, p>>] = leases[<<e, p>>] /\ leases'[<<e, q>>] = leases[<<e, q>>]
    BY <2>3 DEF Addressing, OneHolderEach
  <2> QED
    BY <2>1, <2>2, <2>3
<1>3. HostsKeepOctets'
  <2> SUFFICES ASSUME NEW e \in Essids, NEW p \in Players
               PROVE  leases'[<<e, p>>] \notin Npc[e]
    BY DEF HostsKeepOctets
  <2>1. CASE leases'[<<e, p>>] # leases[<<e, p>>]
    BY <2>1, LeasesGrow
  <2>2. CASE leases'[<<e, p>>] = leases[<<e, p>>]
    BY <2>2 DEF Addressing, HostsKeepOctets
  <2> QED
    BY <2>1, <2>2
<1>4. OccupantsLease'
  <2> SUFFICES ASSUME NEW o \in occupants' PROVE leases'[o] # None
    BY DEF OccupantsLease
  <2>1. o \in Essids \X Players
    BY DEF TypeOK
  <2>2. CASE o \in occupants
    BY <2>1, <2>2, LeasesStand DEF Addressing, OccupantsLease
  <2>3. CASE o \notin occupants
    <3>1. PICK w \in Workers : UpsertOccupant(w)
      BY <2>3 DEF Next, Continue, vars, StartJoin, DeleteOccupant, StartBoard, ReadLease,
                  ClaimLease, DeleteOtherOccupancies, DropConnections, ReadFare,
                  DeleteOccupancies, MoveLocation, PayFare, Answer, Fail
    <3>2. o = Seat(calls[w]) /\ calls[w].step = "occupy"
      BY <2>3, <3>1 DEF UpsertOccupant
    <3>3. calls[w].op = "join"
      BY <3>2 DEF TypeOK, Call
    <3>4. leases[o] # None
      BY <3>2, <3>3 DEF Addressing, JoinsHoldAddress, AnswersTheLease
    <3> QED
      BY <2>1, <3>4, LeasesStand
  <2> QED
    BY <2>2, <2>3
<1>5. AnswersTheLease'
  <2> SUFFICES ASSUME NEW v \in Workers, calls'[v].octet # None
               PROVE  leases'[Seat(calls'[v])] = calls'[v].octet
    BY DEF AnswersTheLease, Seat
  <2>1. Seat(calls'[v]) = Seat(calls[v]) /\ Seat(calls[v]) \in Essids \X Players
    BY OctetsStep
  <2>2. CASE calls[v].octet = calls'[v].octet
    <3>1. leases[Seat(calls[v])] = calls'[v].octet
      BY <2>2 DEF Addressing, AnswersTheLease
    <3> QED
      BY <2>1, <3>1, LeasesStand
  <2>3. CASE leases'[Seat(calls[v])] = calls'[v].octet
    BY <2>1, <2>3
  <2> QED
    BY <2>2, <2>3, OctetsStep
<1> QED
  BY <1>1, <1>2, <1>3, <1>4, <1>5 DEF Addressing

\* One address, one occupant, and the address a join answers is the one leased, for
\* any number of players racing for any number of octets.
THEOREM Addressed == Spec => [](OccupantsAddressed /\ AnswersTheLease)
<1>1. Init => Addressing
  <2> SUFFICES ASSUME Init PROVE Addressing
    OBVIOUS
  <2>1. /\ \A o \in Essids \X Players : leases[o] = None
        /\ occupants = {}
        /\ \A w \in Workers : calls[w].op = None /\ calls[w].octet = None
    BY DEF Init, NoCall, Request
  <2>2. \A e \in Essids : None \notin Npc[e]
    BY LeaseAssumption
  <2>3. None # "join"
    BY LeaseAssumption DEF Ops
  <2> QED
    BY <2>1, <2>2, <2>3 DEF Addressing, JoinsHoldAddress, OneHolderEach, HostsKeepOctets,
                            OccupantsLease, AnswersTheLease
<1>2. Addressing => OccupantsAddressed /\ AnswersTheLease
  <2> SUFFICES ASSUME Addressing PROVE OccupantsAddressed
    BY DEF Addressing
  <2>1. ASSUME NEW e \in Essids, NEW octet \in Octets
        PROVE  /\ Cardinality(Holders(e, octet)) <= 1
               /\ octet \in Npc[e] => Holders(e, octet) = {}
    <3>1. CASE Holders(e, octet) = {}
      <4>1. Cardinality(Holders(e, octet)) = 0
        BY <3>1, FS_EmptySet
      <4> QED
        BY <3>1, <4>1
    <3>2. CASE Holders(e, octet) # {}
      <4>1. PICK p \in Players : leases[<<e, p>>] = octet
        BY <3>2 DEF Holders
      <4>2. Holders(e, octet) = {p}
        BY <4>1, LeaseAssumption DEF Addressing, OneHolderEach, Holders
      <4>3. Cardinality(Holders(e, octet)) = 1
        BY <4>2, FS_Singleton
      <4>4. octet \notin Npc[e]
        BY <4>1 DEF Addressing, HostsKeepOctets
      <4> QED
        BY <4>3, <4>4
    <3> QED
      BY <3>1, <3>2
  <2> QED
    BY <2>1 DEF OccupantsAddressed, Addressing, OccupantsLease
<1> QED
  BY <1>1, <1>2, AddressingStep, Typing, PTL DEF Spec

\* The address a join answers with is the one leased to its player on that network,
\* whatever races for the same octet.
THEOREM LeaseAnswered == Spec => []AnswersTheLease
BY Addressed, PTL

-----------------------------------------------------------------------------
(* One request at a time.  A player may have any number of requests in     *)
(* flight, and then two joins leave them on two networks and a boarding    *)
(* moves them past a join.  Where each waits for its answer, neither can.  *)

\* The condition, on the schedule and not on the code: nobody has two requests in
\* flight.  Those of different players still interleave freely, and each may fail.
OneRequestEach ==
  \A v, w \in Workers :
    calls[v].step # "idle" /\ calls[w].step # "idle" /\ calls[v].player = calls[w].player
    => v = w

\* A player is on one network at most.
AtMostOneNetwork == \A o, q \in occupants : o[2] = q[2] => o = q

\* Whoever joins still stands in that network's town.
JoinsStandThere ==
  \A w \in Workers :
    calls[w].op = "join" /\ calls[w].step \in {"lease", "claim", "others", "drop", "occupy"}
    => TownOf[calls[w].essid] = town[calls[w].player]

\* A join past its sweep of the other networks is on none of them, and a boarding past
\* its own is on none at all.
JoinsAreOff ==
  \A w \in Workers : \A o \in occupants :
    /\ calls[w].op = "join" /\ calls[w].step \in {"drop", "occupy"} /\ o[2] = calls[w].player
    => o = Seat(calls[w])

BoardingsAreOff ==
  \A w \in Workers : \A o \in occupants :
    calls[w].op = "board" /\ calls[w].step \in {"drop", "move"} => o[2] # calls[w].player

OneAtATime ==
  JoinsStandThere /\ JoinsAreOff /\ BoardingsAreOff /\ NeverAbroad /\ AtMostOneNetwork

\* An occupancy is written by a join at its last write.
LEMMA NewOccupants ==
  ASSUME TypeOK, [Next]_vars, NEW o \in occupants' \ occupants
  PROVE  \E w \in Workers :
           /\ calls[w].op = "join" /\ calls[w].step = "occupy"
           /\ o = Seat(calls[w]) /\ occupants' = occupants \cup {o} /\ town' = town
<1>1. PICK w \in Workers : UpsertOccupant(w)
  BY DEF Next, Continue, vars, StartJoin, DeleteOccupant, StartBoard, ReadLease,
         ClaimLease, DeleteOtherOccupancies, DropConnections, ReadFare,
         DeleteOccupancies, MoveLocation, PayFare, Answer, Fail
<1>2. calls[w].step = "occupy" /\ calls[w].op = "join"
  BY <1>1 DEF UpsertOccupant, TypeOK, Call
<1> QED
  BY <1>1, <1>2 DEF UpsertOccupant

\* A request that goes on is the one it was; one that begins, begins at its first call.
LEMMA RequestsGoOn ==
  ASSUME TypeOK, [Next]_vars, NEW v \in Workers, calls'[v].op \in Ops, calls'[v].step # "idle"
  PROVE  \/ /\ calls[v].step # "idle" /\ calls[v].op = calls'[v].op
            /\ calls[v].player = calls'[v].player /\ calls[v].essid = calls'[v].essid
         \/ \E p \in Players : \/ StartJoin(v, p)
                               \/ DeleteOccupant(v, p)
                               \/ StartBoard(v, p)
<1>1. CASE calls'[v] = calls[v]
  BY <1>1
<1>2. CASE calls'[v] # calls[v] /\ (Continue(v) \/ Fail(v))
  <2>1. calls[v].step # "idle"
    BY <1>2 DEF Continue, ReadLease, ClaimLease, DeleteOtherOccupancies, UpsertOccupant,
                DropConnections, ReadFare, DeleteOccupancies, MoveLocation, Answer, Fail
  <2>2. calls'[v] # NoCall
    BY LeaseAssumption DEF NoCall, Request
  <2> QED
    BY <1>2, <2>1, <2>2, StepOp
<1> QED
  BY <1>1, <1>2, StepsAlone

\* A leave begins as a leave, and a boarding as a boarding.
LEMMA BeginsAs ==
  ASSUME TypeOK, NEW v \in Workers, NEW p \in Players
  PROVE  /\ DeleteOccupant(v, p) => calls'[v].op = "leave"
         /\ StartBoard(v, p) => calls'[v].op = "board"
         /\ DeleteOccupant(v, p) \/ StartBoard(v, p) \/ StartJoin(v, p) =>
              calls[v].step = "idle" /\ calls'[v].player = p
<1>1. ASSUME DeleteOccupant(v, p)
      PROVE  calls'[v].op = "leave" /\ calls[v].step = "idle" /\ calls'[v].player = p
  <2>1. PICK e \in Essids : calls' = [calls EXCEPT ![v] = Request("leave", "drop", p, e, None, 0)]
    BY <1>1 DEF DeleteOccupant, Begin
  <2> QED
    BY <1>1, <2>1 DEF TypeOK, Request, DeleteOccupant, Begin
<1>2. ASSUME StartBoard(v, p)
      PROVE  calls'[v].op = "board" /\ calls[v].step = "idle" /\ calls'[v].player = p
  <2>1. PICK t \in Towns : calls' = [calls EXCEPT ![v] = Request("board", "fare", p, None, t, trips[p])]
    BY <1>2 DEF StartBoard, Begin
  <2> QED
    BY <1>2, <2>1 DEF TypeOK, Request, StartBoard, Begin
<1>3. ASSUME StartJoin(v, p)
      PROVE  calls[v].step = "idle" /\ calls'[v].player = p
  <2>1. PICK e \in Essids : calls' = [calls EXCEPT ![v] = Request("join", "lease", p, e, None, 0)]
    BY <1>3 DEF StartJoin, Begin
  <2> QED
    BY <1>3, <2>1 DEF TypeOK, Request, StartJoin, Begin
<1> QED
  BY <1>1, <1>2, <1>3

\* A step leads on from where the request is.
LEMMA AtAnswer ==
  ASSUME NEW v \in Workers, Continue(v) \/ Fail(v), calls[v].step = "answer"
  PROVE  Answer(v) \/ Fail(v)
BY DEF Continue, ReadLease, ClaimLease, DeleteOtherOccupancies, UpsertOccupant,
       DropConnections, ReadFare, DeleteOccupancies, MoveLocation

LEMMA NeverAbroadStep ==
  ASSUME TypeOK, [Next]_vars, OneAtATime
  PROVE  NeverAbroad'
<1> SUFFICES ASSUME NEW o \in occupants' PROVE TownOf[o[1]] = town'[o[2]]
  BY DEF NeverAbroad
<1>1. CASE o \in occupants
  <2>1. TownOf[o[1]] = town[o[2]] /\ o[2] \in Players
    BY <1>1 DEF OneAtATime, NeverAbroad, TypeOK
  <2>2. CASE town'[o[2]] # town[o[2]]
    <3>1. PICK w \in Workers :
            calls[w].op = "board" /\ calls[w].step = "move" /\ calls[w].player = o[2]
      BY <2>1, <2>2, TripsStay
    <3> QED
      BY <1>1, <3>1 DEF OneAtATime, BoardingsAreOff
  <2> QED
    BY <2>1, <2>2
<1>2. CASE o \notin occupants
  <2>1. PICK w \in Workers :
          /\ calls[w].op = "join" /\ calls[w].step = "occupy"
          /\ o = Seat(calls[w]) /\ town' = town
    BY <1>2, NewOccupants
  <2> QED
    BY <2>1 DEF OneAtATime, JoinsStandThere, Seat
<1> QED
  BY <1>1, <1>2

LEMMA AtMostOneStep ==
  ASSUME TypeOK, [Next]_vars, OneAtATime
  PROVE  AtMostOneNetwork'
<1>1. ASSUME NEW o \in occupants' \ occupants, NEW q \in occupants', o[2] = q[2]
      PROVE  o = q
  <2>1. PICK w \in Workers :
          /\ calls[w].op = "join" /\ calls[w].step = "occupy"
          /\ o = Seat(calls[w]) /\ occupants' = occupants \cup {o}
    BY <1>1, NewOccupants
  <2>2. CASE q \in occupants
    <3>1. q[2] = calls[w].player
      BY <1>1, <2>1 DEF Seat
    <3> QED
      BY <2>1, <2>2, <3>1 DEF OneAtATime, JoinsAreOff
  <2> QED
    BY <2>1, <2>2
<1>2. ASSUME NEW o \in occupants, NEW q \in occupants, o[2] = q[2] PROVE o = q
  BY <1>2 DEF OneAtATime, AtMostOneNetwork
<1> QED
  BY <1>1, <1>2 DEF AtMostOneNetwork

\* Only a boarding of one's own moves one, and a join's player has none.
LEMMA JoinsStandStep ==
  ASSUME TypeOK, [Next]_vars, OneAtATime, OneRequestEach
  PROVE  JoinsStandThere'
<1> SUFFICES ASSUME NEW v \in Workers, calls'[v].op = "join",
                    calls'[v].step \in {"lease", "claim", "others", "drop", "occupy"}
             PROVE  TownOf[calls'[v].essid] = town'[calls'[v].player]
  BY DEF JoinsStandThere
<1>1. calls[v] \in Call
  BY DEF TypeOK
<1>2. ASSUME NEW p \in Players, StartJoin(v, p)
      PROVE  TownOf[calls'[v].essid] = town'[calls'[v].player]
  <2>1. PICK e \in Essids :
          /\ TownOf[e] = town[p]
          /\ calls' = [calls EXCEPT ![v] = Request("join", "lease", p, e, None, 0)]
    BY <1>2 DEF StartJoin, Begin
  <2>2. calls'[v].essid = e /\ calls'[v].player = p
    BY <2>1 DEF TypeOK, Request
  <2> QED
    BY <1>2, <2>1, <2>2 DEF StartJoin
<1>3. ASSUME NEW p \in Players, DeleteOccupant(v, p) \/ StartBoard(v, p)
      PROVE  FALSE
  BY <1>3, BeginsAs
<1>4. CASE /\ calls[v].step # "idle" /\ calls[v].op = "join"
           /\ calls[v].player = calls'[v].player /\ calls[v].essid = calls'[v].essid
  <2>1. calls[v].player \in Players
    BY <1>1, <1>4 DEF Call
  <2>2. calls[v].step # "answer"
    <3>1. CASE calls'[v] = calls[v]
      BY <3>1
    <3>2. CASE calls'[v] # calls[v]
      <4>1. ASSUME calls[v].step = "answer" PROVE calls'[v] = NoCall
        <5>1. Answer(v) \/ Fail(v)
          BY <3>2, <4>1, BeginsAs, StepsAlone, AtAnswer
        <5> QED
          BY <5>1 DEF Answer, Fail, Done, TypeOK
      <4> QED
        BY <4>1, LeaseAssumption DEF NoCall, Request, Ops
    <3> QED
      BY <3>1, <3>2
  <2>3. calls[v].step \in {"lease", "claim", "others", "drop", "occupy"}
    BY <1>1, <1>4, <2>2 DEF Call, Steps
  <2>4. town'[calls[v].player] = town[calls[v].player]
    <3> SUFFICES ASSUME town'[calls[v].player] # town[calls[v].player] PROVE FALSE
      OBVIOUS
    <3>1. PICK w \in Workers :
            calls[w].op = "board" /\ calls[w].step = "move" /\ calls[w].player = calls[v].player
      BY <2>1, TripsStay
    <3> QED
      BY <1>4, <3>1 DEF OneRequestEach
  <2> QED
    BY <1>4, <2>3, <2>4 DEF OneAtATime, JoinsStandThere
<1> QED
  BY <1>2, <1>3, <1>4, RequestsGoOn DEF Ops

\* A request past its sweep was past it before, or sweeps now.
LEMMA SweepsFirst ==
  ASSUME TypeOK, [Next]_vars, NEW v \in Workers
  PROVE  /\ calls'[v].op = "join" /\ calls'[v].step \in {"drop", "occupy"} =>
              \/ calls[v].op = "join" /\ calls[v].step \in {"drop", "occupy"}
              \/ DeleteOtherOccupancies(v)
         /\ calls'[v].op = "board" /\ calls'[v].step \in {"drop", "move"} =>
              \/ calls[v].op = "board" /\ calls[v].step \in {"drop", "move"}
              \/ DeleteOccupancies(v)
<1>1. calls[v] \in Call
  BY DEF TypeOK
<1>2. CASE calls'[v] = calls[v]
  BY <1>2
<1>3. ASSUME NEW p \in Players, StartJoin(v, p) \/ DeleteOccupant(v, p) \/ StartBoard(v, p)
      PROVE  /\ calls'[v].op = "join" => calls'[v].step = "lease"
             /\ calls'[v].op = "board" => calls'[v].step = "fare"
  BY <1>3, StartsFresh
<1>4. ASSUME NEW step, Goto(v, step) PROVE calls'[v].step = step /\ calls'[v].op = calls[v].op
  BY <1>1, <1>4 DEF Goto, TypeOK, Call
<1>5. CASE ReadLease(v)
  <2>1. calls'[v].op = "join" /\ calls'[v].step \in {"claim", "others"}
    <3>1. CASE leases[Seat(calls[v])] = None
      BY <1>1, <1>4, <1>5, <3>1 DEF ReadLease, Call
    <3>2. CASE leases[Seat(calls[v])] # None
      BY <1>1, <1>5, <3>2 DEF ReadLease, TypeOK, Call
    <3> QED
      BY <3>1, <3>2
  <2> QED
    BY <2>1
<1>6. CASE ClaimLease(v)
  <2>1. calls'[v].step \in {"idle", "lease", "claim", "others"}
    <3>1. CASE calls' = [calls EXCEPT ![v] = Redraw(calls[v])]
      <4>1. calls'[v] = NoCall \/ calls'[v] = [calls[v] EXCEPT !.attempt = @ + 1]
        BY <1>1, <3>1, RedrawTyped DEF TypeOK
      <4> QED
        BY <1>1, <1>6, <4>1 DEF NoCall, Request, Call, ClaimLease
    <3>2. ASSUME NEW octet, calls' = [calls EXCEPT ![v].octet = octet, ![v].step = "others"]
          PROVE  calls'[v].step = "others"
      BY <1>1, <3>2 DEF TypeOK, Call
    <3> QED
      BY <1>4, <1>6, <3>1, <3>2 DEF ClaimLease
  <2> QED
    BY <2>1
<1>7. CASE DeleteOtherOccupancies(v) \/ DeleteOccupancies(v)
  <2>1. /\ DeleteOtherOccupancies(v) => calls'[v].op = "join"
        /\ DeleteOccupancies(v) => calls'[v].op = "board"
    BY <1>1, <1>4 DEF DeleteOtherOccupancies, DeleteOccupancies, Call
  <2> QED
    BY <1>7, <2>1
<1>8. CASE DropConnections(v)
  <2>1. calls'[v].op = calls[v].op /\ calls[v].step = "drop"
    BY <1>4, <1>8 DEF DropConnections
  <2> QED
    BY <2>1
<1>9. CASE UpsertOccupant(v) \/ ReadFare(v) \/ MoveLocation(v) \/ Answer(v) \/ Fail(v)
  <2>1. /\ UpsertOccupant(v) \/ MoveLocation(v) => calls'[v].step = "answer"
        /\ Answer(v) \/ Fail(v) => calls'[v].step = "idle"
        /\ ReadFare(v) => calls'[v].step = "idle" \/ calls'[v].step = "leave"
    BY <1>4 DEF UpsertOccupant, ReadFare, MoveLocation, Answer, Fail, Done, NoCall, Request, TypeOK
  <2> QED
    BY <1>9, <2>1
<1> QED
  BY <1>2, <1>3, <1>5, <1>6, <1>7, <1>8, <1>9, StepsAlone DEF Continue

LEMMA SweptStep ==
  ASSUME TypeOK, [Next]_vars, OneAtATime, OneRequestEach
  PROVE  JoinsAreOff' /\ BoardingsAreOff'
<1>1. ASSUME NEW v \in Workers, NEW o \in occupants',
             calls'[v].op = "join", calls'[v].step \in {"drop", "occupy"},
             o[2] = calls'[v].player
      PROVE  o = Seat(calls'[v])
  <2>1. /\ calls[v].step # "idle" /\ calls[v].op = "join"
        /\ calls[v].player = calls'[v].player /\ calls[v].essid = calls'[v].essid
    <3>1. ASSUME NEW p \in Players, StartJoin(v, p) \/ DeleteOccupant(v, p) \/ StartBoard(v, p)
          PROVE  FALSE
      BY <1>1, <3>1, StartsFresh
    <3> QED
      BY <1>1, <3>1, RequestsGoOn DEF Ops
  <2>2. CASE o \in occupants /\ DeleteOtherOccupancies(v)
    <3>1. o[1] = calls[v].essid
      BY <1>1, <2>1, <2>2 DEF DeleteOtherOccupancies
    <3>2. o \in Essids \X Players
      BY <2>2 DEF TypeOK
    <3> QED
      BY <1>1, <2>1, <3>1, <3>2 DEF Seat
  <2>3. CASE o \in occupants /\ calls[v].op = "join" /\ calls[v].step \in {"drop", "occupy"}
    BY <1>1, <2>1, <2>3 DEF OneAtATime, JoinsAreOff, Seat
  <2>4. CASE o \notin occupants
    <3>1. PICK w \in Workers :
            /\ calls[w].op = "join" /\ calls[w].step = "occupy" /\ o = Seat(calls[w])
      BY <2>4, NewOccupants
    <3>2. w = v
      BY <1>1, <2>1, <3>1 DEF OneRequestEach, Seat
    <3> QED
      BY <2>1, <3>1, <3>2 DEF Seat
  <2> QED
    BY <1>1, <2>2, <2>3, <2>4, SweepsFirst
<1>2. ASSUME NEW v \in Workers, NEW o \in occupants',
             calls'[v].op = "board", calls'[v].step \in {"drop", "move"},
             o[2] = calls'[v].player
      PROVE  FALSE
  <2>1. /\ calls[v].step # "idle" /\ calls[v].op = "board"
        /\ calls[v].player = calls'[v].player
    <3>1. ASSUME NEW p \in Players, StartJoin(v, p) \/ DeleteOccupant(v, p) \/ StartBoard(v, p)
          PROVE  FALSE
      BY <1>2, <3>1, StartsFresh
    <3> QED
      BY <1>2, <3>1, RequestsGoOn DEF Ops
  <2>2. CASE o \in occupants /\ DeleteOccupancies(v)
    BY <1>2, <2>1, <2>2 DEF DeleteOccupancies
  <2>3. CASE o \in occupants /\ calls[v].op = "board" /\ calls[v].step \in {"drop", "move"}
    BY <1>2, <2>1, <2>3 DEF OneAtATime, BoardingsAreOff
  <2>4. CASE o \notin occupants
    <3>1. PICK w \in Workers :
            /\ calls[w].op = "join" /\ calls[w].step = "occupy" /\ o = Seat(calls[w])
      BY <2>4, NewOccupants
    <3> QED
      BY <1>2, <2>1, <3>1 DEF OneRequestEach, Seat
  <2> QED
    BY <1>2, <2>2, <2>3, <2>4, SweepsFirst
<1> QED
  BY <1>1, <1>2 DEF JoinsAreOff, BoardingsAreOff, Seat

\* Where each player waits for an answer before the next request, a traveller is
\* never on a network of another town, as board.ts:16-18 has it, and nobody is on two
\* networks: whatever requests of other players run beside, and wherever each dies.
\* Without that condition TLC finds both.
THEOREM AtHomeInTurn == Spec /\ []OneRequestEach => [](NeverAbroad /\ AtMostOneNetwork)
<1>1. Init => OneAtATime
  BY LeaseAssumption DEF Init, OneAtATime, JoinsStandThere, JoinsAreOff, BoardingsAreOff,
     NeverAbroad, AtMostOneNetwork, NoCall, Request, Ops
<1>2. TypeOK /\ OneRequestEach /\ OneAtATime /\ [Next]_vars => OneAtATime'
  BY NeverAbroadStep, AtMostOneStep, JoinsStandStep, SweptStep DEF OneAtATime
<1>3. OneAtATime => NeverAbroad /\ AtMostOneNetwork
  BY DEF OneAtATime
<1> QED
  BY <1>1, <1>2, <1>3, Typing, PTL DEF Spec
=============================================================================
