---------------------------- MODULE SessionProofs ----------------------------
(* What holds of the sessions tables for any number of players, machines,  *)
(* networks, sessions and requests in flight.                              *)
EXTENDS Sessions, FiniteSetTheorems, TLAPS

USE NoneAssumption, BoxAssumption, NetworkAssumption, BoundsAssumption

\* Every row a walk starts from or stands on has ended, and the rung it stands
\* on is one player's.
WalksStandOnEndedRows ==
  \A w \in Workers :
    /\ calls[w].todo \cup calls[w].rung \subseteq Ended
    /\ \A i \in calls[w].rung : rows[i].player = calls[w].who

-----------------------------------------------------------------------------
(* The helpers.                                                            *)

\* Rows counted so far: created_at is a number.
LEMMA InsertedCounts == IsFiniteSet(Inserted) => Cardinality(Inserted) \in Nat
  BY FS_CardinalityType

\* Closing rows yields rows, ends exactly the rows named, keeps their owner and
\* their parent, and leaves every other row alone.
LEMMA CloseEnds ==
  ASSUME rows \in [Ids -> Row], NEW which \in SUBSET Open, NEW reason \in Reasons,
         Close(which, reason)
  PROVE  /\ rows' \in [Ids -> Row]
         /\ \A i \in which : /\ rows'[i].state = "ended"
                             /\ rows'[i].reason = reason
                             /\ rows'[i].player = rows[i].player
                             /\ rows'[i].parent = rows[i].parent
         /\ \A i \in Ids \ which : rows'[i] = rows[i]
<1> DEFINE ended(i) == [NoRow EXCEPT !.state = "ended", !.player = rows[i].player,
                          !.parent = rows[i].parent, !.reason = reason]
<1>1. \A i \in Ids : /\ i \in which => ended(i) \in Row
                     /\ ended(i).state = "ended"
                     /\ ended(i).reason = reason
                     /\ ended(i).player = rows[i].player
                     /\ ended(i).parent = rows[i].parent
  BY DEF NoRow, Row, Open
<1>2. rows' = [i \in Ids |-> IF i \in which THEN ended(i) ELSE rows[i]]
  BY DEF Close
<1>3. which \subseteq Ids
  BY DEF Open
<1> HIDE DEF ended
<1> QED
  BY <1>1, <1>2, <1>3

\* An insert fills one absent row and leaves every other alone.
LEMMA InsertFills ==
  ASSUME rows \in [Ids -> Row], IsFiniteSet(Inserted),
         NEW i \in Ids, NEW p \in Players, NEW b \in Boxes, NEW parent \in Ids \cup {None},
         NEW e \in Essids \cup {None}, NEW root \in BOOLEAN,
         InsertSession(i, p, b, parent, e, root)
  PROVE  /\ rows' \in [Ids -> Row]
         /\ rows[i].state = "absent"
         /\ rows'[i].state = "open"
         /\ rows'[i].reason = None
         /\ rows'[i].player = p
         /\ \A j \in Ids \ {i} : rows'[j] = rows[j]
<1> DEFINE new == [state |-> "open", player |-> p, box |-> b, parent |-> parent,
                   essid |-> e, root |-> root, born |-> Cardinality(Inserted) + 1,
                   reason |-> None]
<1>1. new \in Row /\ new.state = "open" /\ new.reason = None /\ new.player = p
  BY InsertedCounts DEF Row
<1>2. rows' = [rows EXCEPT ![i] = new] /\ rows[i].state = "absent"
  BY DEF InsertSession
<1> HIDE DEF new
<1> QED
  BY <1>1, <1>2

LEMMA NoCallTyped == NoCall \in Call
  BY DEF NoCall, Call, Steps, Ops

\* Wherever a request goes after a sweep, it is still a request.
LEMMA OnwardTyped ==
  ASSUME NEW call \in Call, call.step # "idle"
  PROVE  Onward(call) \in Call
<1>1. [call EXCEPT !.step = "cascade"] \in Call
  BY DEF Call, Steps
<1>2. call.op = "join" => [call EXCEPT !.step = "occupy", !.who = None] \in Call
  BY DEF Call, Steps
<1>3. [call EXCEPT !.step = "answer", !.who = None] \in Call
  BY DEF Call, Steps
<1> QED
  BY <1>1, <1>2, <1>3, NoCallTyped DEF Onward

\* Putting a request in a slot keeps the slots typed.
LEMMA SlotTyped ==
  ASSUME calls \in [Workers -> Call], NEW w \in Workers, NEW call \in Call,
         calls' = [calls EXCEPT ![w] = call]
  PROVE  calls' \in [Workers -> Call]
  OBVIOUS

-----------------------------------------------------------------------------
(* What a step writes in the sessions table.                               *)

\* A step is at most one statement on the table: it ends open rows or inserts one.
LEMMA OneStatement ==
  ASSUME [Next]_vars
  PROVE  \/ UNCHANGED rows
         \/ \E which \in SUBSET Open : \E reason : Close(which, reason)
         \/ \E i \in Ids : \E p, b, parent, e, root : InsertSession(i, p, b, parent, e, root)
<1>1. ASSUME NEW p \in Players, CreateSession(p)
      PROVE  \E i \in Ids : \E q, b, parent, e, root : InsertSession(i, q, b, parent, e, root)
  BY <1>1 DEF CreateSession
<1>2. ASSUME NEW p \in Players, EndSession(p)
      PROVE  \E which \in SUBSET Open : \E reason : Close(which, reason)
  <2>1. PICK i \in Open : Close({i}, "exit")
    BY <1>2 DEF EndSession
  <2>2. {i} \in SUBSET Open
    OBVIOUS
  <2> QED
    BY <2>1, <2>2
<1>3. ASSUME NEW w \in Workers, NEW p \in Players, Start(w, p) PROVE UNCHANGED rows
  BY <1>3 DEF Start, StartLogin, StartSu, StartReboot, ListSessions, DeleteOccupant,
              DeleteOccupancies, StartJoin
<1>4. ASSUME NEW w \in Workers,
             \/ Resolve(w) \/ WriteBootId(w) \/ FindEndedSessions(w) \/ Answer(w)
             \/ DeleteOtherOccupancies(w) \/ UpsertOccupant(w) \/ Fail(w)
      PROVE  UNCHANGED rows
  BY <1>4 DEF Resolve, WriteBootId, FindEndedSessions, Answer, DeleteOtherOccupancies,
              UpsertOccupant, Fail
<1>5. ASSUME NEW w \in Workers, Insert(w)
      PROVE  \/ UNCHANGED rows
             \/ \E i \in Ids : \E p, b, parent, e, root :
                  InsertSession(i, p, b, parent, e, root)
  BY <1>5 DEF Insert
<1>6. ASSUME NEW w \in Workers,
             EndSessionsAbove(w) \/ EndMachineSessions(w) \/ EndVisitorSessions(w)
             \/ EndOwnSessionsAway(w)
      PROVE  \E which \in SUBSET Open : \E reason : Close(which, reason)
  <2>1. CASE EndSessionsAbove(w)
    BY <2>1 DEF EndSessionsAbove
  <2>2. CASE EndMachineSessions(w)
    BY <2>2 DEF EndMachineSessions
  <2>3. CASE EndVisitorSessions(w)
    BY <2>3 DEF EndVisitorSessions
  <2>4. CASE EndOwnSessionsAway(w)
    BY <2>4 DEF EndOwnSessionsAway
  <2> QED
    BY <1>6, <2>1, <2>2, <2>3, <2>4
<1> QED
  BY <1>1, <1>2, <1>3, <1>4, <1>5, <1>6 DEF Next, Continue, vars

\* Only an insert adds an id to those inserted, one at a time, and none is taken away:
\* the rows inserted so far are finitely many, however many ids there are to mint.
LEMMA InsertedMoves ==
  ASSUME rows \in [Ids -> Row], IsFiniteSet(Inserted), [Next]_vars
  PROVE  Inserted \in SUBSET Inserted' /\ IsFiniteSet(Inserted')
<1>1. CASE UNCHANGED rows
  BY <1>1 DEF Inserted
<1>2. ASSUME NEW which \in SUBSET Open, NEW reason, Close(which, reason)
      PROVE  Inserted' = Inserted
  <2> DEFINE gone(i) == [NoRow EXCEPT !.state = "ended", !.player = rows[i].player,
                           !.parent = rows[i].parent, !.reason = reason]
  <2>1. \A i : gone(i).state = "ended"
    BY DEF NoRow
  <2>2. \A i \in Ids : rows'[i] = IF i \in which THEN gone(i) ELSE rows[i]
    BY <1>2 DEF Close
  <2> HIDE DEF gone
  <2>3. \A i \in Ids : rows'[i].state # "absent" <=> rows[i].state # "absent"
    BY <2>1, <2>2 DEF Open
  <2> QED
    BY <2>3 DEF Inserted
<1>3. ASSUME NEW i \in Ids, NEW p, NEW b, NEW parent, NEW e, NEW root,
             InsertSession(i, p, b, parent, e, root)
      PROVE  Inserted' = Inserted \cup {i}
  <2> DEFINE new == [state |-> "open", player |-> p, box |-> b, parent |-> parent,
                     essid |-> e, root |-> root, born |-> Cardinality(Inserted) + 1,
                     reason |-> None]
  <2>1. rows' = [rows EXCEPT ![i] = new] /\ new.state = "open"
    BY <1>3 DEF InsertSession
  <2> HIDE DEF new
  <2> QED
    BY <2>1 DEF Inserted
<1>4. \A i : IsFiniteSet(Inserted \cup {i})
  BY FS_AddElement
<1>5. CASE \E which \in SUBSET Open : \E reason : Close(which, reason)
  BY <1>2, <1>5
<1>6. CASE \E i \in Ids : \E p, b, parent, e, root : InsertSession(i, p, b, parent, e, root)
  <2>1. PICK i \in Ids : \E p, b, parent, e, root : InsertSession(i, p, b, parent, e, root)
    BY <1>6
  <2>2. Inserted' = Inserted \cup {i}
    BY <1>3, <2>1
  <2> QED
    BY <1>4, <2>2
<1> QED
  BY <1>1, <1>5, <1>6, OneStatement

-----------------------------------------------------------------------------
(* Types.                                                                  *)

\* Whatever the requests do to each other, the tables and the requests in flight
\* keep their shape.
THEOREM Typing == Spec => []TypeOK
<1>1. Init => TypeOK
  <2> SUFFICES ASSUME Init PROVE TypeOK
    OBVIOUS
  <2>1. NoRow \in Row /\ Inserted = {} /\ IsFiniteSet({})
    BY FS_EmptySet DEF NoRow, Row, Init, Inserted
  <2>2. occupants \subseteq Essids \X Players
    BY DEF Init, SeatedOccupancies
  <2> QED
    BY <2>1, <2>2, NoCallTyped DEF Init, TypeOK
<1>2. TypeOK /\ [Next]_vars => TypeOK'
  <2> SUFFICES ASSUME TypeOK, [Next]_vars PROVE TypeOK'
    OBVIOUS
  <2> USE DEF TypeOK
  <2> IsFiniteSet(Inserted')
    BY InsertedMoves
  <2>1. ASSUME NEW p \in Players, CreateSession(p) PROVE TypeOK'
    <3>1. PICK i \in Ids, parent \in Ids \cup {None}, root \in Tiers :
            InsertSession(i, p, p, parent, None, root)
      BY <2>1 DEF CreateSession, Parents
    <3>2. parent \in Ids \cup {None} /\ root \in BOOLEAN /\ p \in Boxes
      BY BoundsAssumption DEF Boxes
    <3> QED
      BY <2>1, <3>1, <3>2, InsertFills DEF CreateSession
  <2>2. ASSUME NEW p \in Players, EndSession(p) PROVE TypeOK'
    <3>1. PICK i \in Open : Close({i}, "exit")
      BY <2>2 DEF EndSession
    <3>2. {i} \in SUBSET Open /\ "exit" \in Reasons
      BY DEF Reasons
    <3> QED
      BY <2>2, <3>1, <3>2, CloseEnds DEF EndSession
  <2>3. ASSUME NEW w \in Workers, NEW p \in Players, StartLogin(w, p) PROVE TypeOK'
    <3>1. PICK b \in Boxes \ {p}, e \in Essids :
            calls' = [calls EXCEPT ![w] =
              [NoCall EXCEPT !.op = "login", !.player = p, !.box = b, !.essid = e,
                 !.step = IF b \in Hosts THEN "insert" ELSE "resolve"]]
      BY <2>3 DEF StartLogin, Begin
    <3>2. [NoCall EXCEPT !.op = "login", !.player = p, !.box = b, !.essid = e,
             !.step = IF b \in Hosts THEN "insert" ELSE "resolve"] \in Call
      BY ZenonT(40) DEF NoCall, Call, Steps, Ops
    <3> QED
      BY <2>3, <3>1, <3>2, SlotTyped DEF StartLogin
  <2>4. ASSUME NEW w \in Workers, NEW p \in Players, StartSu(w, p) PROVE TypeOK'
    <3>1. PICK b \in Boxes \ {p} : \E i \in FindActiveSession(p, b) :
            calls' = [calls EXCEPT ![w] =
              [NoCall EXCEPT !.op = "su", !.player = p, !.box = b, !.essid = rows[i].essid,
                 !.step = IF b \in Hosts THEN "insert" ELSE "resolve"]]
      BY <2>4 DEF StartSu, Begin
    <3>2. PICK i \in FindActiveSession(p, b) :
            calls' = [calls EXCEPT ![w] =
              [NoCall EXCEPT !.op = "su", !.player = p, !.box = b, !.essid = rows[i].essid,
                 !.step = IF b \in Hosts THEN "insert" ELSE "resolve"]]
      BY <3>1
    <3>3. rows[i].essid \in Essids \cup {None}
      BY DEF FindActiveSession, Standing, Open, Row
    <3>4. [NoCall EXCEPT !.op = "su", !.player = p, !.box = b, !.essid = rows[i].essid,
             !.step = IF b \in Hosts THEN "insert" ELSE "resolve"] \in Call
      BY ZenonT(40), <3>3 DEF NoCall, Call, Steps, Ops
    <3> QED
      BY <2>4, <3>2, <3>4, SlotTyped DEF StartSu
  <2>5. ASSUME NEW w \in Workers, Resolve(w) PROVE TypeOK'
    <3>1. [calls[w] EXCEPT !.step = "insert"] \in Call
      <4>1. calls[w] \in Call
        OBVIOUS
      <4>2. calls[w].step = "resolve"
        BY <2>5 DEF Resolve
      <4> QED
        BY <4>1, <4>2 DEF Call, Steps
    <3>2. \/ calls' = [calls EXCEPT ![w] = [calls[w] EXCEPT !.step = "insert"]]
          \/ calls' = [calls EXCEPT ![w] = NoCall]
      BY <2>5 DEF Resolve, Goto, Done
    <3> QED
      BY <2>5, <3>1, <3>2, NoCallTyped, SlotTyped DEF Resolve
  <2>6. ASSUME NEW w \in Workers, Insert(w) PROVE TypeOK'
    <3>1. calls' \in [Workers -> Call]
      BY <2>6, NoCallTyped, SlotTyped DEF Insert, Done
    <3>2. CASE UNCHANGED rows
      BY <2>6, <3>1, <3>2 DEF Insert
    <3>3. CASE \E i \in Ids, root \in Tiers : \E parent \in Parents(i) :
                 InsertSession(i, calls[w].player, calls[w].box, parent, calls[w].essid, root)
      <4>1. PICK i \in Ids, parent \in Ids \cup {None}, root \in Tiers :
              InsertSession(i, calls[w].player, calls[w].box, parent, calls[w].essid, root)
        BY <3>3 DEF Parents
      <4>2. /\ parent \in Ids \cup {None} /\ root \in BOOLEAN
            /\ calls[w].player \in Players
            /\ calls[w].box \in Boxes
            /\ calls[w].essid \in Essids \cup {None}
        <5>1. calls[w] \in Call /\ calls[w].step = "insert"
          BY <2>6 DEF Insert
        <5> QED
          BY <5>1 DEF Call
      <4>3. rows' \in [Ids -> Row]
        BY <4>1, <4>2, InsertFills
      <4> QED
        BY <2>6, <3>1, <4>3 DEF Insert
    <3> QED
      BY <2>6, <3>2, <3>3 DEF Insert
  <2>7. ASSUME NEW w \in Workers, EndSessionsAbove(w) PROVE TypeOK'
    <3> DEFINE call == calls[w]
               seeds(p) == {i \in call.todo : rows[i].player = p}
               parents(p) == IF call.rung # {} THEN call.rung ELSE seeds(p)
               above(p) == {i \in Open : rows[i].player = p /\ rows[i].parent \in parents(p)}
               rest(p) == IF call.rung # {} THEN call.todo ELSE call.todo \ seeds(p)
               on(p) == [call EXCEPT !.who = p, !.rung = above(p), !.todo = rest(p),
                           !.listed = @ \ above(p)]
    <3>1. PICK p \in IF call.rung # {} THEN {call.who} ELSE Owners(call.todo) :
            /\ Close(above(p), "upstream_lost")
            /\ calls' = [calls EXCEPT ![w] = Onward(on(p))]
      BY <2>7 DEF EndSessionsAbove
    <3>2. call \in Call /\ call.step = "cascade"
      BY <2>7 DEF EndSessionsAbove
    <3>3. p \in Players \cup {None}
      BY <3>2 DEF Owners, Call, Row
    <3>4. above(p) \in SUBSET Open /\ Open \subseteq Ids
      BY DEF Open
    <3>5. on(p) \in Call /\ on(p).step = "cascade"
      <4>1. rest(p) \in SUBSET Ids
        BY <3>2 DEF Call
      <4> HIDE DEF above, rest
      <4> QED
        BY <3>2, <3>3, <3>4, <4>1 DEF Call
    <3>6. "upstream_lost" \in Reasons
      BY DEF Reasons
    <3> HIDE DEF above, on
    <3>7. rows' \in [Ids -> Row]
      BY <3>1, <3>4, <3>6, CloseEnds
    <3>8. calls' \in [Workers -> Call]
      BY <3>1, <3>5, OnwardTyped, SlotTyped
    <3> QED
      BY <2>7, <3>7, <3>8 DEF EndSessionsAbove
  <2>8. ASSUME NEW w \in Workers, NEW p \in Players, StartReboot(w, p) PROVE TypeOK'
    <3>1. PICK b \in Boxes :
            calls' = [calls EXCEPT ![w] =
              [NoCall EXCEPT !.op = "reboot", !.player = p, !.box = b,
                 !.stamp = Cardinality(Inserted), !.step = "close"]]
      BY <2>8 DEF StartReboot, Begin
    <3>2. [NoCall EXCEPT !.op = "reboot", !.player = p, !.box = b,
             !.stamp = Cardinality(Inserted), !.step = "close"] \in Call
      BY InsertedCounts DEF NoCall, Call, Steps, Ops
    <3> QED
      BY <2>8, <3>1, <3>2, SlotTyped DEF StartReboot
  <2>9. ASSUME NEW w \in Workers, EndMachineSessions(w) PROVE TypeOK'
    <3> DEFINE on == {i \in Open : rows[i].box = calls[w].box}
    <3>1. on \in SUBSET Open /\ Open \subseteq Ids /\ "rebooted" \in Reasons
      BY DEF Open, Reasons
    <3>2. Close(on, "rebooted") /\ calls' = [calls EXCEPT ![w].todo = on, ![w].step = "marker"]
      BY <2>9 DEF EndMachineSessions
    <3>3. rows' \in [Ids -> Row]
      BY <3>1, <3>2, CloseEnds
    <3>4. [calls[w] EXCEPT !.todo = on, !.step = "marker"] \in Call
      <4>1. calls[w] \in Call /\ calls[w].step = "close"
        BY <2>9 DEF EndMachineSessions
      <4> HIDE DEF on
      <4> QED
        BY <4>1, <3>1 DEF Call, Steps
    <3>5. calls' \in [Workers -> Call]
      <4> HIDE DEF on
      <4> QED
        BY <3>2, <3>4
    <3> QED
      BY <2>9, <3>3, <3>5 DEF EndMachineSessions
  <2>10. ASSUME NEW w \in Workers, WriteBootId(w) PROVE TypeOK'
    <3> DEFINE on == [calls[w] EXCEPT !.box = None, !.stamp = 0]
    <3>1. on \in Call /\ on.step = "marker"
      <4>1. calls[w] \in Call /\ calls[w].step = "marker"
        BY <2>10 DEF WriteBootId
      <4> QED
        BY <4>1 DEF Call
    <3>2. calls' \in [Workers -> Call]
      <4>1. calls' = [calls EXCEPT ![w] = Onward(on)]
        BY <2>10 DEF WriteBootId
      <4> HIDE DEF on
      <4> QED
        BY <3>1, <4>1, OnwardTyped, SlotTyped
    <3>3. boots' \in [Boxes -> Nat]
      <4>1. boots' = [boots EXCEPT ![calls[w].box] = boots[calls[w].box] + 1]
        BY <2>10 DEF WriteBootId
      <4>2. CASE calls[w].box \in Boxes
        <5>1. boots[calls[w].box] + 1 \in Nat
          BY <4>2
        <5> QED
          BY <4>1, <5>1
      <4>3. CASE calls[w].box \notin Boxes
        BY <4>1, <4>3
      <4> QED
        BY <4>2, <4>3
    <3> QED
      BY <2>10, <3>2, <3>3 DEF WriteBootId
  <2>11. ASSUME NEW w \in Workers, EndVisitorSessions(w) PROVE TypeOK'
    <3> DEFINE visitors == {i \in Open : /\ rows[i].box = calls[w].player
                                         /\ rows[i].player # calls[w].player}
    <3>1. visitors \in SUBSET Open /\ Open \subseteq Ids /\ "network_left" \in Reasons
      BY DEF Open, Reasons
    <3>2. /\ Close(visitors, "network_left")
          /\ calls' = [calls EXCEPT ![w].todo = visitors, ![w].step = "away"]
      BY <2>11 DEF EndVisitorSessions
    <3>3. rows' \in [Ids -> Row]
      BY <3>1, <3>2, CloseEnds
    <3>4. [calls[w] EXCEPT !.todo = visitors, !.step = "away"] \in Call
      <4>1. calls[w] \in Call /\ calls[w].step = "visitors"
        BY <2>11 DEF EndVisitorSessions
      <4> HIDE DEF visitors
      <4> QED
        BY <4>1, <3>1 DEF Call, Steps
    <3>5. calls' \in [Workers -> Call]
      <4> HIDE DEF visitors
      <4> QED
        BY <3>2, <3>4
    <3> QED
      BY <2>11, <3>3, <3>5 DEF EndVisitorSessions
  <2>12. ASSUME NEW w \in Workers, EndOwnSessionsAway(w) PROVE TypeOK'
    <3> DEFINE away == {i \in Open : /\ rows[i].player = calls[w].player
                                     /\ rows[i].box # calls[w].player}
               on == [calls[w] EXCEPT !.todo = @ \cup away]
    <3>1. away \in SUBSET Open /\ Open \subseteq Ids /\ "network_left" \in Reasons
      BY DEF Open, Reasons
    <3>2. Close(away, "network_left") /\ calls' = [calls EXCEPT ![w] = Onward(on)]
      BY <2>12 DEF EndOwnSessionsAway
    <3>3. on \in Call /\ on.step = "away"
      <4>1. calls[w] \in Call /\ calls[w].step = "away"
        BY <2>12 DEF EndOwnSessionsAway
      <4> HIDE DEF away
      <4> QED
        BY <4>1, <3>1 DEF Call
    <3> HIDE DEF away, on
    <3>4. rows' \in [Ids -> Row]
      BY <3>1, <3>2, CloseEnds
    <3>5. calls' \in [Workers -> Call]
      BY <3>2, <3>3, OnwardTyped, SlotTyped
    <3> QED
      BY <2>12, <3>4, <3>5 DEF EndOwnSessionsAway
  <2>13. ASSUME NEW w \in Workers, NEW p \in Players, ListSessions(w, p) PROVE TypeOK'
    <3> DEFINE open == {i \in Open : rows[i].player = p}
               step == IF {rows[i].parent : i \in open} \ {None} = {} THEN "answer" ELSE "ended"
               call == [NoCall EXCEPT !.op = "list", !.player = p, !.listed = open, !.step = step]
    <3>1. calls' = [calls EXCEPT ![w] = call]
      BY <2>13 DEF ListSessions, Begin
    <3>2. open \in SUBSET Ids /\ step \in {"answer", "ended"}
      BY DEF Open
    <3>3. call \in Call
      <4> HIDE DEF open, step
      <4> QED
        BY <3>2 DEF NoCall, Call, Steps, Ops
    <3> HIDE DEF call
    <3> QED
      BY <2>13, <3>1, <3>3, SlotTyped DEF ListSessions
  <2>14. ASSUME NEW w \in Workers, FindEndedSessions(w) PROVE TypeOK'
    <3> DEFINE gone == {i \in Ended : /\ rows[i].player = calls[w].player
                                      /\ \E j \in calls[w].listed : rows[j].parent = i}
               on == [calls[w] EXCEPT !.todo = gone]
    <3>1. calls' = [calls EXCEPT ![w] = Onward(on)]
      BY <2>14 DEF FindEndedSessions
    <3>2. gone \in SUBSET Ids
      BY DEF Ended
    <3>3. on \in Call /\ on.step = "ended"
      <4>1. calls[w] \in Call /\ calls[w].step = "ended"
        BY <2>14 DEF FindEndedSessions
      <4> HIDE DEF gone
      <4> QED
        BY <4>1, <3>2 DEF Call
    <3> HIDE DEF on
    <3> QED
      BY <2>14, <3>1, <3>3, OnwardTyped, SlotTyped DEF FindEndedSessions
  <2>15. ASSUME NEW w \in Workers, NEW p \in Players,
                DeleteOccupant(w, p) \/ DeleteOccupancies(w, p) PROVE TypeOK'
    <3>1. occupants' \subseteq occupants
      BY <2>15 DEF DeleteOccupant, DeleteOccupancies
    <3>2. PICK stamp \in Nat :
            calls' \in {[calls EXCEPT ![w] = c] :
                          c \in {[NoCall EXCEPT !.op = "leave", !.player = p, !.stamp = stamp,
                                    !.step = "visitors"],
                                 [NoCall EXCEPT !.op = "leave", !.player = p, !.step = "answer"],
                                 [NoCall EXCEPT !.op = "board", !.player = p, !.stamp = stamp,
                                    !.step = "visitors"]}}
      <4>1. CASE DeleteOccupant(w, p)
        BY <4>1, InsertedCounts DEF DeleteOccupant, Begin
      <4>2. CASE DeleteOccupancies(w, p)
        BY <4>2, InsertedCounts DEF DeleteOccupancies, Begin
      <4> QED
        BY <2>15, <4>1, <4>2
    <3>3. /\ [NoCall EXCEPT !.op = "leave", !.player = p, !.stamp = stamp, !.step = "visitors"]
             \in Call
          /\ [NoCall EXCEPT !.op = "leave", !.player = p, !.step = "answer"] \in Call
          /\ [NoCall EXCEPT !.op = "board", !.player = p, !.stamp = stamp, !.step = "visitors"]
             \in Call
      BY DEF NoCall, Call, Steps, Ops
    <3>4. calls' \in [Workers -> Call]
      BY <3>2, <3>3, SlotTyped
    <3> QED
      BY <2>15, <3>1, <3>4 DEF DeleteOccupant, DeleteOccupancies
  <2>16. ASSUME NEW w \in Workers, NEW p \in Players, StartJoin(w, p) PROVE TypeOK'
    <3>1. PICK e \in Essids :
            calls' = [calls EXCEPT ![w] =
              [NoCall EXCEPT !.op = "join", !.player = p, !.essid = e, !.step = "others"]]
      BY <2>16 DEF StartJoin, Begin
    <3>2. [NoCall EXCEPT !.op = "join", !.player = p, !.essid = e, !.step = "others"] \in Call
      BY DEF NoCall, Call, Steps, Ops
    <3> QED
      BY <2>16, <3>1, <3>2, SlotTyped DEF StartJoin
  <2>17. ASSUME NEW w \in Workers, DeleteOtherOccupancies(w) PROVE TypeOK'
    <3>1. occupants' \subseteq occupants
      BY <2>17 DEF DeleteOtherOccupancies
    <3>2. \/ calls' = [calls EXCEPT ![w].step = "occupy"]
          \/ calls' = [calls EXCEPT ![w].step = "visitors", ![w].stamp = Cardinality(Inserted)]
      BY <2>17 DEF DeleteOtherOccupancies, Goto
    <3>3. /\ [calls[w] EXCEPT !.step = "occupy"] \in Call
          /\ [calls[w] EXCEPT !.step = "visitors", !.stamp = Cardinality(Inserted)] \in Call
      <4>1. calls[w] \in Call /\ calls[w].step = "others"
        BY <2>17 DEF DeleteOtherOccupancies
      <4> QED
        BY <4>1, InsertedCounts DEF Call, Steps
    <3>4. calls' \in [Workers -> Call]
      BY <3>2, <3>3
    <3> QED
      BY <2>17, <3>1, <3>4 DEF DeleteOtherOccupancies
  <2>18. ASSUME NEW w \in Workers, UpsertOccupant(w) PROVE TypeOK'
    <3>1. calls[w].essid \in Essids /\ calls[w].player \in Players
      <4>1. calls[w] \in Call /\ calls[w].step = "occupy"
        BY <2>18 DEF UpsertOccupant
      <4> QED
        BY <4>1 DEF Call
    <3> QED
      BY <2>18, <3>1, NoCallTyped, SlotTyped DEF UpsertOccupant, Done
  <2>19. ASSUME NEW w \in Workers, Answer(w) \/ Fail(w) PROVE TypeOK'
    BY <2>19, NoCallTyped, SlotTyped DEF Answer, Fail, Done
  <2>20. CASE UNCHANGED vars
    BY <2>20 DEF vars
  <2> QED
    BY <2>1, <2>2, <2>3, <2>4, <2>5, <2>6, <2>7, <2>8, <2>9, <2>10, <2>11, <2>12, <2>13,
       <2>14, <2>15, <2>16, <2>17, <2>18, <2>19, <2>20
    DEF Next, Start, Continue
<1> QED
  BY <1>1, <1>2, PTL DEF Spec

-----------------------------------------------------------------------------
(* The table and its promise.                                              *)

\* Closing open rows is an ending in SessionLife's sense.
LEMMA CloseIsEnd ==
  ASSUME rows \in [Ids -> Row], NEW which \in SUBSET Open, NEW reason \in Reasons,
         Close(which, reason)
  PROVE  Life!End(which, reason)
  BY CloseEnds DEF Life!End

\* With every walk standing on ended rows, whatever a request does to the table
\* SessionLife allows: this is where a cascade's reason is shown to be true.
LEMMA LifeStep ==
  ASSUME TypeOK, WalksStandOnEndedRows, [Next]_vars
  PROVE  [Life!Next]_rows
<1> USE DEF TypeOK
<1>1. ASSUME NEW p \in Players, CreateSession(p) PROVE Life!Next
  <2>1. PICK i \in Ids, parent \in Ids \cup {None}, root \in Tiers :
          InsertSession(i, p, p, parent, None, root)
    BY <1>1 DEF CreateSession, Parents
  <2>2. parent \in Ids \cup {None} /\ root \in BOOLEAN /\ p \in Boxes
    BY BoundsAssumption DEF Boxes
  <2>3. Life!OpenRow(i)
    BY <2>1, <2>2, InsertFills DEF Life!OpenRow
  <2> QED
    BY <2>3 DEF Life!Next
<1>2. ASSUME NEW p \in Players, EndSession(p) PROVE Life!Next
  <2>1. PICK i \in Open : Close({i}, "exit")
    BY <1>2 DEF EndSession
  <2>2. i \in Ids /\ "exit" \in Reasons
    BY DEF Open, Reasons
  <2>3. Life!Exit(i)
    BY <2>1, <2>2, CloseIsEnd DEF Life!Exit, Life!Open, Open
  <2> QED
    BY <2>2, <2>3 DEF Life!Next
<1>3. ASSUME NEW w \in Workers, Insert(w) PROVE Life!Next \/ UNCHANGED rows
  <2>1. CASE UNCHANGED rows
    BY <2>1
  <2>2. CASE \E i \in Ids, root \in Tiers : \E parent \in Parents(i) :
               InsertSession(i, calls[w].player, calls[w].box, parent, calls[w].essid, root)
    <3>1. PICK i \in Ids, parent \in Ids \cup {None}, root \in Tiers :
            InsertSession(i, calls[w].player, calls[w].box, parent, calls[w].essid, root)
      BY <2>2 DEF Parents
    <3>2. calls[w] \in Call /\ calls[w].step = "insert"
      BY <1>3 DEF Insert
    <3>3. /\ parent \in Ids \cup {None} /\ root \in BOOLEAN
          /\ calls[w].player \in Players /\ calls[w].box \in Boxes
          /\ calls[w].essid \in Essids \cup {None}
      BY <3>2 DEF Call
    <3>4. Life!OpenRow(i)
      BY <3>1, <3>3, InsertFills DEF Life!OpenRow
    <3> QED
      BY <3>4 DEF Life!Next
  <2> QED
    BY <1>3, <2>1, <2>2 DEF Insert
<1>4. ASSUME NEW w \in Workers, EndSessionsAbove(w) PROVE Life!Next \/ UNCHANGED rows
  <2> DEFINE call == calls[w]
             seeds(p) == {i \in call.todo : rows[i].player = p}
             parents(p) == IF call.rung # {} THEN call.rung ELSE seeds(p)
             above(p) == {i \in Open : rows[i].player = p /\ rows[i].parent \in parents(p)}
  <2>1. PICK p \in IF call.rung # {} THEN {call.who} ELSE Owners(call.todo) :
          Close(above(p), "upstream_lost")
    BY <1>4 DEF EndSessionsAbove
  <2>2. above(p) \in SUBSET Open /\ "upstream_lost" \in Reasons
    BY DEF Reasons
  <2>3. \A j \in parents(p) : j \in Ended /\ rows[j].player = p
    BY <2>1 DEF WalksStandOnEndedRows
  <2>4. above(p) \subseteq Life!Broken(p)
    BY <2>3 DEF Life!Broken, Life!Open, Life!Ended, Open, Ended
  <2>5. CASE above(p) = {}
    <3>1. \A i \in Ids : rows'[i] = rows[i]
      BY ZenonT(40), <2>1, <2>2, <2>5, CloseEnds
    <3>2. rows' \in [Ids -> Row]
      BY <2>1, <2>2, CloseEnds
    <3> QED
      BY <3>1, <3>2
  <2>6. CASE above(p) # {}
    <3>1. p \in Players
      <4>1. PICK i \in Ids : rows[i].state = "open" /\ rows[i].player = p
        BY <2>6 DEF Open
      <4>2. rows[i] \in Row
        OBVIOUS
      <4> QED
        BY <4>1, <4>2 DEF Row
    <3> HIDE DEF above
    <3>2. Life!End(above(p), "upstream_lost")
      BY <2>1, <2>2, CloseIsEnd
    <3>3. Life!ChainBreaks(p)
      BY <2>4, <3>2 DEF Life!ChainBreaks
    <3> QED
      BY <3>1, <3>3 DEF Life!Next
  <2> QED
    BY <2>5, <2>6
<1>5. ASSUME NEW w \in Workers, EndMachineSessions(w) PROVE Life!Next
  <2> DEFINE on == {i \in Open : rows[i].box = calls[w].box}
  <2>1. Close(on, "rebooted") /\ on \in SUBSET Open /\ "rebooted" \in Reasons
    BY <1>5 DEF EndMachineSessions, Reasons
  <2>2. Life!End(on, "rebooted")
    BY <2>1, CloseIsEnd
  <2>3. calls[w].box \in Boxes
    <3>1. calls[w] \in Call /\ calls[w].step = "close"
      BY <1>5 DEF EndMachineSessions
    <3> QED
      BY <3>1 DEF Call
  <2>4. Life!BoxDown(calls[w].box)
    BY <2>2 DEF Life!BoxDown, Life!Open, Open
  <2> QED
    BY <2>3, <2>4 DEF Life!Next
<1>6. ASSUME NEW w \in Workers, EndVisitorSessions(w) PROVE Life!Next
  <2> DEFINE visitors == {i \in Open : /\ rows[i].box = calls[w].player
                                       /\ rows[i].player # calls[w].player}
  <2>1. Close(visitors, "network_left") /\ visitors \in SUBSET Open /\ "network_left" \in Reasons
    BY <1>6 DEF EndVisitorSessions, Reasons
  <2>2. Life!End(visitors, "network_left")
    BY <2>1, CloseIsEnd
  <2>3. calls[w].player \in Players
    <3>1. calls[w] \in Call /\ calls[w].step = "visitors"
      BY <1>6 DEF EndVisitorSessions
    <3> QED
      BY <3>1 DEF Call
  <2>4. Life!VisitorsOut(calls[w].player)
    BY <2>2 DEF Life!VisitorsOut, Life!Open, Open
  <2> QED
    BY <2>3, <2>4 DEF Life!Next
<1>7. ASSUME NEW w \in Workers, EndOwnSessionsAway(w) PROVE Life!Next
  <2> DEFINE away == {i \in Open : /\ rows[i].player = calls[w].player
                                   /\ rows[i].box # calls[w].player}
  <2>1. Close(away, "network_left") /\ away \in SUBSET Open /\ "network_left" \in Reasons
    BY <1>7 DEF EndOwnSessionsAway, Reasons
  <2>2. Life!End(away, "network_left")
    BY <2>1, CloseIsEnd
  <2>3. calls[w].player \in Players
    <3>1. calls[w] \in Call /\ calls[w].step = "away"
      BY <1>7 DEF EndOwnSessionsAway
    <3> QED
      BY <3>1 DEF Call
  <2>4. Life!OwnerAway(calls[w].player)
    BY <2>2 DEF Life!OwnerAway, Life!Open, Open
  <2> QED
    BY <2>3, <2>4 DEF Life!Next
<1>8. ASSUME NEW w \in Workers, NEW p \in Players, Start(w, p) PROVE UNCHANGED rows
  BY <1>8 DEF Start, StartLogin, StartSu, StartReboot, ListSessions, DeleteOccupant,
              DeleteOccupancies, StartJoin
<1>9. ASSUME NEW w \in Workers,
             \/ Resolve(w) \/ WriteBootId(w) \/ FindEndedSessions(w) \/ Answer(w)
             \/ DeleteOtherOccupancies(w) \/ UpsertOccupant(w) \/ Fail(w)
      PROVE  UNCHANGED rows
  BY <1>9 DEF Resolve, WriteBootId, FindEndedSessions, Answer, DeleteOtherOccupancies,
              UpsertOccupant, Fail
<1>10. CASE UNCHANGED vars
  BY <1>10 DEF vars
<1> QED
  BY <1>1, <1>2, <1>3, <1>4, <1>5, <1>6, <1>7, <1>8, <1>9, <1>10 DEF Next, Continue

\* A row that has ended stays ended, in the same player's name.
LEMMA EndedStays ==
  ASSUME [Life!Next]_rows
  PROVE  \A i \in Ended : i \in Ended' /\ rows'[i].player = rows[i].player
<1>1. ASSUME NEW i \in Ids, Life!OpenRow(i)
      PROVE  \A j \in Ended : rows'[j] = rows[j]
  BY <1>1 DEF Life!OpenRow, Ended
<1>2. ASSUME NEW which \in SUBSET Open, NEW reason, Life!End(which, reason)
      PROVE  \A j \in Ended : rows'[j] = rows[j]
  BY <1>2 DEF Life!End, Ended, Open
<1>3. ASSUME NEW i \in Ids, Life!Exit(i)
      PROVE  \A j \in Ended : rows'[j] = rows[j]
  BY <1>2, <1>3 DEF Life!Exit, Life!Open, Open
<1>4. ASSUME NEW b \in Boxes, Life!BoxDown(b)
      PROVE  \A j \in Ended : rows'[j] = rows[j]
  BY <1>2, <1>4 DEF Life!BoxDown, Life!Open, Open
<1>5. ASSUME NEW p \in Players,
             Life!VisitorsOut(p) \/ Life!OwnerAway(p) \/ Life!ChainBreaks(p)
      PROVE  \A j \in Ended : rows'[j] = rows[j]
  <2>1. CASE Life!VisitorsOut(p)
    BY <1>2, <2>1 DEF Life!VisitorsOut, Life!Open, Open
  <2>2. CASE Life!OwnerAway(p)
    BY <1>2, <2>2 DEF Life!OwnerAway, Life!Open, Open
  <2>3. CASE Life!ChainBreaks(p)
    <3>1. PICK which \in SUBSET Life!Broken(p) : Life!End(which, "upstream_lost")
      BY <2>3 DEF Life!ChainBreaks
    <3>2. which \in SUBSET Open
      BY DEF Life!Broken, Life!Open, Open
    <3> QED
      BY <1>2, <3>1, <3>2
  <2> QED
    BY <1>5, <2>1, <2>2, <2>3
<1>6. \A j \in Ended : rows'[j] = rows[j]
  BY <1>1, <1>3, <1>4, <1>5 DEF Life!Next
<1> QED
  BY <1>6 DEF Ended

\* Where a request goes next does not change what its walk stands on.
LEMMA OnwardKeeps ==
  ASSUME NEW call \in Call
  PROVE  /\ Onward(call).todo \subseteq call.todo
         /\ Onward(call).rung \subseteq call.rung
         /\ Onward(call).rung # {} => Onward(call).who = call.who
<1>1. CASE call.todo # {} \/ call.rung # {}
  <2>1. Onward(call) = [call EXCEPT !.step = "cascade"]
    BY <1>1 DEF Onward
  <2> QED
    BY <2>1 DEF Call
<1>2. CASE ~(call.todo # {} \/ call.rung # {})
  <2> DEFINE occupy == [call EXCEPT !.step = "occupy", !.who = None]
             answer == [call EXCEPT !.step = "answer", !.who = None]
  <2>1. Onward(call) = NoCall \/ Onward(call) = occupy \/ Onward(call) = answer
    BY <1>2 DEF Onward
  <2>2. /\ NoCall.todo = {} /\ NoCall.rung = {}
        /\ occupy.todo = call.todo /\ occupy.rung = call.rung
        /\ answer.todo = call.todo /\ answer.rung = call.rung
    BY DEF NoCall, Call
  <2> HIDE DEF occupy, answer
  <2> QED
    BY <1>2, <2>1, <2>2
<1> QED
  BY <1>1, <1>2

\* What one request's walk stands on.
Footing(call) ==
  /\ call.todo \cup call.rung \subseteq Ended
  /\ \A i \in call.rung : rows[i].player = call.who

LEMMA WalksStep ==
  ASSUME TypeOK, WalksStandOnEndedRows, [Next]_vars
  PROVE  WalksStandOnEndedRows'
<1> USE DEF TypeOK
<1>1. \A i \in Ended : i \in Ended' /\ rows'[i].player = rows[i].player
  BY LifeStep, EndedStays
<1>2. \A v \in Workers : Footing(calls[v])
  BY DEF WalksStandOnEndedRows, Footing
\* A request that does not move keeps its footing, and so does one whose walk
\* only gets shorter.
<1>3. ASSUME NEW v \in Workers, NEW c,
             c.todo \subseteq calls[v].todo, c.rung \subseteq calls[v].rung,
             c.rung # {} => c.who = calls[v].who
      PROVE  /\ c.todo \cup c.rung \subseteq Ended'
             /\ \A i \in c.rung : rows'[i].player = c.who
  BY <1>1, <1>2, <1>3 DEF Footing
<1>4. SUFFICES ASSUME NEW v \in Workers
               PROVE  /\ calls'[v].todo \cup calls'[v].rung \subseteq Ended'
                      /\ \A i \in calls'[v].rung : rows'[i].player = calls'[v].who
  BY DEF WalksStandOnEndedRows
<1>5. CASE calls'[v] = calls[v]
  BY <1>3, <1>5
<1>6. CASE calls'[v].todo = {} /\ calls'[v].rung = {}
  BY <1>6
\* A sweep ends the rows its walk will start from.
<1>7. ASSUME NEW which \in SUBSET Open, NEW reason \in Reasons, Close(which, reason),
             calls'[v].todo \subseteq calls[v].todo \cup which,
             calls'[v].rung \subseteq calls[v].rung,
             calls'[v].rung # {} => calls'[v].who = calls[v].who
      PROVE  /\ calls'[v].todo \cup calls'[v].rung \subseteq Ended'
             /\ \A i \in calls'[v].rung : rows'[i].player = calls'[v].who
  <2>1. which \subseteq Ended'
    BY <1>7, CloseEnds DEF Ended, Open
  <2> QED
    BY <1>1, <1>2, <1>7, <2>1 DEF Footing
<1>8. ASSUME EndSessionsAbove(v)
      PROVE  /\ calls'[v].todo \cup calls'[v].rung \subseteq Ended'
             /\ \A i \in calls'[v].rung : rows'[i].player = calls'[v].who
  <2> DEFINE call == calls[v]
             seeds(p) == {i \in call.todo : rows[i].player = p}
             parents(p) == IF call.rung # {} THEN call.rung ELSE seeds(p)
             above(p) == {i \in Open : rows[i].player = p /\ rows[i].parent \in parents(p)}
             rest(p) == IF call.rung # {} THEN call.todo ELSE call.todo \ seeds(p)
             on(p) == [call EXCEPT !.who = p, !.rung = above(p), !.todo = rest(p),
                         !.listed = @ \ above(p)]
  <2>1. PICK p \in IF call.rung # {} THEN {call.who} ELSE Owners(call.todo) :
          /\ Close(above(p), "upstream_lost")
          /\ calls' = [calls EXCEPT ![v] = Onward(on(p))]
    BY <1>8 DEF EndSessionsAbove
  <2>2. call \in Call /\ call.step = "cascade"
    BY <1>8 DEF EndSessionsAbove
  <2>3. p \in Players \cup {None}
    BY <2>1, <2>2 DEF Owners, Call, Row
  <2>4. /\ above(p) \in SUBSET Open /\ Open \subseteq Ids
        /\ \A i \in above(p) : rows[i].player = p
        /\ rest(p) \subseteq call.todo /\ "upstream_lost" \in Reasons
    BY DEF Open, Reasons
  <2>5. /\ on(p) \in Call
        /\ on(p).todo = rest(p) /\ on(p).rung = above(p) /\ on(p).who = p
    <3> HIDE DEF above, rest
    <3> QED
      BY <2>2, <2>3, <2>4 DEF Call
  <2> HIDE DEF above, rest, on
  <2>6. \A i \in above(p) : i \in Ended' /\ rows'[i].player = p
    BY <2>1, <2>4, CloseEnds DEF Ended
  <2>7. calls'[v] = Onward(on(p))
    BY <2>1
  <2> QED
    BY <1>1, <1>2, <2>4, <2>5, <2>6, <2>7, OnwardKeeps DEF Footing
<1>9. CASE \E p \in Players : CreateSession(p) \/ EndSession(p)
  BY <1>5, <1>9 DEF CreateSession, EndSession
<1>10. ASSUME NEW w \in Workers, NEW p \in Players, Start(w, p)
       PROVE  \/ calls'[v] = calls[v]
              \/ calls'[v].todo = {} /\ calls'[v].rung = {}
  <2>1. CASE StartLogin(w, p)
    BY <2>1 DEF StartLogin, Begin, NoCall
  <2>2. CASE StartSu(w, p)
    BY <2>2 DEF StartSu, Begin, NoCall
  <2>3. CASE StartReboot(w, p)
    BY <2>3 DEF StartReboot, Begin, NoCall
  <2>4. CASE ListSessions(w, p)
    BY <2>4 DEF ListSessions, Begin, NoCall
  <2>5. CASE DeleteOccupant(w, p)
    BY <2>5 DEF DeleteOccupant, Begin, NoCall
  <2>6. CASE DeleteOccupancies(w, p)
    BY <2>6 DEF DeleteOccupancies, Begin, NoCall
  <2>7. CASE StartJoin(w, p)
    BY <2>7 DEF StartJoin, Begin, NoCall
  <2> QED
    BY <1>10, <2>1, <2>2, <2>3, <2>4, <2>5, <2>6, <2>7 DEF Start
<1>11. ASSUME NEW w \in Workers, w # v, Continue(w) \/ Fail(w)
       PROVE  calls'[v] = calls[v]
  BY <1>11 DEF Continue, Fail, Resolve, Insert, EndSessionsAbove, EndMachineSessions,
               WriteBootId, EndVisitorSessions, EndOwnSessionsAway, FindEndedSessions, Answer,
               DeleteOtherOccupancies, UpsertOccupant, Goto, Done
<1>12. CASE Insert(v) \/ UpsertOccupant(v) \/ Answer(v) \/ Fail(v)
  BY <1>6, <1>12 DEF Insert, UpsertOccupant, Answer, Fail, Done, NoCall
<1>13. CASE Resolve(v) \/ DeleteOtherOccupancies(v)
  <2>1. \/ calls'[v] = NoCall
        \/ /\ calls'[v].todo = calls[v].todo /\ calls'[v].rung = calls[v].rung
           /\ calls'[v].who = calls[v].who
    <3>1. CASE Resolve(v)
      <4>1. \/ calls' = [calls EXCEPT ![v] = [calls[v] EXCEPT !.step = "insert"]]
            \/ calls' = [calls EXCEPT ![v] = NoCall]
        BY <3>1 DEF Resolve, Goto, Done
      <4> QED
        BY <4>1 DEF Call
    <3>2. CASE DeleteOtherOccupancies(v)
      <4> DEFINE occupy == [calls[v] EXCEPT !.step = "occupy"]
                 visitors == [calls[v] EXCEPT !.step = "visitors", !.stamp = Cardinality(Inserted)]
      <4>1. calls'[v] = occupy \/ calls'[v] = visitors
        BY <3>2 DEF DeleteOtherOccupancies, Goto
      <4>2. /\ occupy.todo = calls[v].todo /\ occupy.rung = calls[v].rung
            /\ occupy.who = calls[v].who
            /\ visitors.todo = calls[v].todo /\ visitors.rung = calls[v].rung
            /\ visitors.who = calls[v].who
        BY DEF Call
      <4> HIDE DEF occupy, visitors
      <4> QED
        BY <4>1, <4>2
    <3> QED
      BY <1>13, <3>1, <3>2
  <2>2. NoCall.todo = {} /\ NoCall.rung = {}
    BY DEF NoCall
  <2> QED
    BY <1>3, <1>6, <2>1, <2>2
<1>14. CASE WriteBootId(v)
  <2> DEFINE on == [calls[v] EXCEPT !.box = None, !.stamp = 0]
  <2>1. calls[v] \in Call /\ calls[v].step = "marker"
    BY <1>14 DEF WriteBootId
  <2>2. /\ on \in Call /\ on.todo = calls[v].todo /\ on.rung = calls[v].rung
        /\ on.who = calls[v].who
    BY <2>1 DEF Call
  <2>3. calls'[v] = Onward(on)
    BY <1>14 DEF WriteBootId
  <2> HIDE DEF on
  <2> QED
    BY <1>3, <2>2, <2>3, OnwardKeeps
<1>15. CASE EndMachineSessions(v)
  <2> DEFINE ended == {i \in Open : rows[i].box = calls[v].box}
  <2>1. Close(ended, "rebooted") /\ ended \in SUBSET Open /\ "rebooted" \in Reasons
    BY <1>15 DEF EndMachineSessions, Reasons
  <2>2. /\ calls'[v].todo = ended /\ calls'[v].rung = calls[v].rung
        /\ calls'[v].who = calls[v].who
    BY <1>15 DEF EndMachineSessions, Call
  <2> HIDE DEF ended
  <2> QED
    BY <1>7, <2>1, <2>2
<1>16. CASE EndVisitorSessions(v)
  <2> DEFINE visitors == {i \in Open : /\ rows[i].box = calls[v].player
                                       /\ rows[i].player # calls[v].player}
  <2>1. Close(visitors, "network_left") /\ visitors \in SUBSET Open /\ "network_left" \in Reasons
    BY <1>16 DEF EndVisitorSessions, Reasons
  <2>2. /\ calls'[v].todo = visitors /\ calls'[v].rung = calls[v].rung
        /\ calls'[v].who = calls[v].who
    BY <1>16 DEF EndVisitorSessions, Call
  <2> HIDE DEF visitors
  <2> QED
    BY <1>7, <2>1, <2>2
<1>17. CASE EndOwnSessionsAway(v)
  <2> DEFINE away == {i \in Open : /\ rows[i].player = calls[v].player
                                   /\ rows[i].box # calls[v].player}
             on == [calls[v] EXCEPT !.todo = @ \cup away]
  <2>1. /\ Close(away, "network_left") /\ away \in SUBSET Open /\ Open \subseteq Ids
        /\ "network_left" \in Reasons
    BY <1>17 DEF EndOwnSessionsAway, Reasons, Open
  <2>2. calls[v] \in Call /\ calls'[v] = Onward(on)
    BY <1>17 DEF EndOwnSessionsAway
  <2> HIDE DEF away
  <2>3. /\ on \in Call /\ on.todo = calls[v].todo \cup away /\ on.rung = calls[v].rung
        /\ on.who = calls[v].who
    BY <2>1, <2>2 DEF Call
  <2> HIDE DEF on
  <2> QED
    BY SMTT(30), <1>7, <2>1, <2>2, <2>3, OnwardKeeps
<1>18. CASE FindEndedSessions(v)
  <2> DEFINE gone == {i \in Ended : /\ rows[i].player = calls[v].player
                                    /\ \E j \in calls[v].listed : rows[j].parent = i}
             on == [calls[v] EXCEPT !.todo = gone]
  <2>1. gone \subseteq Ended /\ Ended \subseteq Ids
    BY DEF Ended
  <2>2. calls[v] \in Call /\ calls'[v] = Onward(on)
    BY <1>18 DEF FindEndedSessions
  <2> HIDE DEF gone
  <2>3. on \in Call /\ on.todo = gone /\ on.rung = calls[v].rung /\ on.who = calls[v].who
    BY <2>1, <2>2 DEF Call
  <2> HIDE DEF on
  <2> QED
    BY <1>1, <1>2, <2>1, <2>2, <2>3, OnwardKeeps DEF Footing
<1>19. CASE UNCHANGED vars
  BY <1>5, <1>19 DEF vars
<1>20. CASE \E w \in Workers : Continue(w) \/ Fail(w)
  <2>1. CASE Continue(v) \/ Fail(v)
    BY <1>8, <1>12, <1>13, <1>14, <1>15, <1>16, <1>17, <1>18, <2>1 DEF Continue
  <2>2. CASE \E w \in Workers \ {v} : Continue(w) \/ Fail(w)
    BY <1>5, <1>11, <2>2
  <2> QED
    BY <1>20, <2>1, <2>2
<1> QED
  BY <1>5, <1>6, <1>9, <1>10, <1>19, <1>20 DEF Next

\* A cascade's every rung, and every row it set out from, has ended by the time
\* it is stood on: a handler never walks a chain that is still whole.
THEOREM WalksStand == Spec => []WalksStandOnEndedRows
<1>1. Init => WalksStandOnEndedRows
  BY DEF Init, NoCall, WalksStandOnEndedRows
<1>2. TypeOK /\ WalksStandOnEndedRows /\ [Next]_vars => WalksStandOnEndedRows'
  BY WalksStep
<1> QED
  BY <1>1, <1>2, Typing, PTL DEF Spec

\* The handlers implement SessionLife: whatever they do to each other, every row
\* opens once and closes once, for a reason that was true when it closed.
THEOREM KeepsPromise == Spec => RowsKeepTheirPromise
<1>1. Init => Life!Init
  BY DEF Init, Life!Init, NoRow
<1>2. TypeOK /\ WalksStandOnEndedRows /\ [Next]_vars => [Life!Next]_rows
  BY LifeStep
<1> QED
  BY <1>1, <1>2, Typing, WalksStand, PTL DEF Spec, RowsKeepTheirPromise, Life!Spec

-----------------------------------------------------------------------------
(* What a handler has swept stays swept: the rows it was to close are those *)
(* inserted before it began, and no row of that age opens again.            *)

Leavings == {"leave", "join", "board"}

\* The open rows a request was to look at: inserted before it began.
Old(call) == {i \in Open : rows[i].born \in 1 .. call.stamp}

Swept(call) ==
  /\ call.stamp <= Cardinality(Inserted)
  /\ call.step \in {"close", "marker"} => call.op = "reboot"
  /\ call.step = "ended" => call.op = "list"
  /\ call.step = "others" => call.stamp = 0
  /\ call.step = "marker" => \A i \in Old(call) : rows[i].box # call.box
  /\ call.step = "away" =>
       \A i \in Old(call) : rows[i].box = call.player => rows[i].player = call.player
  /\ call.op \in Leavings /\ call.step \in {"cascade", "occupy", "answer"} =>
       \A i \in Old(call) : rows[i].box = call.player <=> rows[i].player = call.player

Sweeping ==
  /\ \A i \in Ids : rows[i].state # "open" => rows[i].born = 0
  /\ \A w \in Workers : Swept(calls[w])

\* What a step makes of a row.
LEMMA RowsMove ==
  ASSUME TypeOK, [Next]_vars, NEW i \in Ids
  PROVE  \/ rows'[i] = rows[i]
         \/ /\ rows[i].state = "absent" /\ rows'[i].state = "open"
            /\ rows'[i].born = Cardinality(Inserted) + 1
         \/ rows'[i].state = "ended" /\ rows'[i].born = 0
<1>1. ASSUME NEW which, NEW reason, Close(which, reason)
      PROVE  \/ rows'[i] = rows[i]
             \/ rows'[i].state = "ended" /\ rows'[i].born = 0
  <2> DEFINE gone == [NoRow EXCEPT !.state = "ended", !.player = rows[i].player,
                        !.parent = rows[i].parent, !.reason = reason]
  <2>1. gone.state = "ended" /\ gone.born = 0
    BY DEF NoRow
  <2>2. rows'[i] = IF i \in which THEN gone ELSE rows[i]
    BY <1>1 DEF Close
  <2> HIDE DEF gone
  <2> QED
    BY <2>1, <2>2
<1>2. ASSUME NEW j \in Ids, NEW p, NEW b, NEW parent, NEW e, NEW root,
             InsertSession(j, p, b, parent, e, root)
      PROVE  \/ rows'[i] = rows[i]
             \/ /\ rows[i].state = "absent" /\ rows'[i].state = "open"
                /\ rows'[i].born = Cardinality(Inserted) + 1
  BY <1>2 DEF InsertSession, TypeOK
<1> QED
  BY <1>1, <1>2, OneStatement DEF vars

\* No id is ever absent again, so created_at only rises.
LEMMA InsertedGrows ==
  ASSUME TypeOK, [Next]_vars
  PROVE  /\ Cardinality(Inserted) \in Nat /\ Cardinality(Inserted') \in Nat
         /\ Cardinality(Inserted) <= Cardinality(Inserted')
  BY InsertedMoves, FS_Subset, FS_CardinalityType DEF TypeOK

\* A row that is open and old was there before the step, as it is.
LEMMA OldRowsStand ==
  ASSUME TypeOK, [Next]_vars, NEW c, c.stamp \in Nat, c.stamp <= Cardinality(Inserted)
  PROVE  \A i \in Old(c)' : i \in Old(c) /\ rows'[i] = rows[i]
<1> SUFFICES ASSUME NEW i \in Ids, rows'[i].state = "open", rows'[i].born \in 1 .. c.stamp
             PROVE  rows'[i] = rows[i]
  BY DEF Old, Open
<1>1. Cardinality(Inserted) \in Nat
  BY InsertedCounts DEF TypeOK
<1>2. rows'[i].born # Cardinality(Inserted) + 1
  BY <1>1
<1> QED
  BY <1>2, RowsMove

\* Where a request goes after a sweep it keeps what it swept.
LEMMA OnwardSame ==
  ASSUME NEW call \in Call
  PROVE  \/ Onward(call) = NoCall
         \/ /\ Onward(call).op = call.op /\ Onward(call).player = call.player
            /\ Onward(call).stamp = call.stamp
            /\ Onward(call).step \in {"cascade", "occupy", "answer"}
<1> DEFINE cascade == [call EXCEPT !.step = "cascade"]
           occupy == [call EXCEPT !.step = "occupy", !.who = None]
           answer == [call EXCEPT !.step = "answer", !.who = None]
<1>1. Onward(call) \in {NoCall, cascade, occupy, answer}
  BY DEF Onward
<1>2. /\ cascade.op = call.op /\ cascade.player = call.player /\ cascade.stamp = call.stamp
      /\ cascade.step = "cascade"
      /\ occupy.op = call.op /\ occupy.player = call.player /\ occupy.stamp = call.stamp
      /\ occupy.step = "occupy"
      /\ answer.op = call.op /\ answer.player = call.player /\ answer.stamp = call.stamp
      /\ answer.step = "answer"
  BY DEF Call
<1> HIDE DEF cascade, occupy, answer
<1> QED
  BY <1>1, <1>2

LEMMA SweptStep ==
  ASSUME TypeOK, Sweeping, [Next]_vars
  PROVE  Sweeping'
<1> USE DEF TypeOK
<1>1. \A i \in Ids : rows'[i].state # "open" => rows'[i].born = 0
  <2> SUFFICES ASSUME NEW i \in Ids, rows'[i].state # "open" PROVE rows'[i].born = 0
    OBVIOUS
  <2> QED
    BY RowsMove DEF Sweeping
<1> SUFFICES ASSUME NEW v \in Workers PROVE Swept(calls[v])'
  BY <1>1 DEF Sweeping
<1>2. /\ Cardinality(Inserted) \in Nat /\ Cardinality(Inserted') \in Nat
      /\ Cardinality(Inserted) <= Cardinality(Inserted')
  BY InsertedGrows
\* Its request before the step and after it.
<1>c. PICK call : call = calls[v]
  OBVIOUS
<1>n. PICK next : next = calls'[v]
  OBVIOUS
<1> SUFFICES Swept(next)'
  BY <1>n DEF Swept, Old
<1>3. call \in Call /\ Swept(call) /\ call.stamp \in Nat
  BY <1>c DEF Sweeping, Call
<1>4. \A i \in Old(call)' : i \in Old(call) /\ rows'[i] = rows[i]
  BY <1>3, OldRowsStand DEF Swept
\* A request in another's step, or one that goes on without a sweep.
<1>5. CASE next = call
  BY <1>2, <1>3, <1>4, <1>5 DEF Swept, Old
<1>6. CASE next = NoCall
  BY <1>2, <1>6 DEF Swept, NoCall, Leavings
\* A request that has looked at no row yet, or that claims nothing of any.
<1>7. ASSUME next.stamp \in Nat, next.stamp <= Cardinality(Inserted'),
             next.step = "close" => next.op = "reboot",
             next.step = "ended" => next.op = "list",
             next.step \in {"others", "occupy", "answer"} => next.stamp = 0,
             next.step \notin {"marker", "away", "cascade"}
      PROVE  Swept(next)'
  BY <1>7 DEF Swept, Old
<1>8. ASSUME NEW on \in Call, next = Onward(on), on.stamp <= Cardinality(Inserted'),
             on.op \in Leavings =>
               \A i \in Old(on)' : rows'[i].box = on.player <=> rows'[i].player = on.player
      PROVE  Swept(next)'
  <2>1. CASE next = NoCall
    BY <1>6, <2>1
  <2>2. CASE /\ next.op = on.op /\ next.player = on.player /\ next.stamp = on.stamp
             /\ next.step \in {"cascade", "occupy", "answer"}
    BY <1>8, <2>2 DEF Swept, Old
  <2> QED
    BY <1>8, <2>1, <2>2, OnwardSame
<1>9. ASSUME EndSessionsAbove(v) PROVE Swept(next)'
  <2> DEFINE old == calls[v]
             seeds(p) == {i \in old.todo : rows[i].player = p}
             parents(p) == IF old.rung # {} THEN old.rung ELSE seeds(p)
             above(p) == {i \in Open : rows[i].player = p /\ rows[i].parent \in parents(p)}
             rest(p) == IF old.rung # {} THEN old.todo ELSE old.todo \ seeds(p)
             on(p) == [old EXCEPT !.who = p, !.rung = above(p), !.todo = rest(p),
                         !.listed = @ \ above(p)]
  <2>1. PICK p \in IF old.rung # {} THEN {old.who} ELSE Owners(old.todo) :
          calls' = [calls EXCEPT ![v] = Onward(on(p))]
    BY <1>9 DEF EndSessionsAbove
  <2>2. old \in Call /\ old.step = "cascade"
    BY <1>9 DEF EndSessionsAbove
  <2>3. p \in Players \cup {None} /\ above(p) \in SUBSET Ids /\ rest(p) \in SUBSET Ids
    BY <2>1, <2>2 DEF Owners, Call, Row, Open
  <2>4. /\ on(p) \in Call /\ on(p).op = old.op /\ on(p).player = old.player
        /\ on(p).stamp = old.stamp
    <3> HIDE DEF above, rest
    <3> QED
      BY <2>2, <2>3 DEF Call
  <2> HIDE DEF on, above, rest
  <2>g. PICK gone : gone = on(p)
    OBVIOUS
  <2>5. next = Onward(gone) /\ gone \in Call
    BY <2>1, <2>4, <2>g, <1>n
  <2> HIDE DEF old
  <2>6. /\ call.step = "cascade" /\ gone.op = call.op /\ gone.player = call.player
        /\ gone.stamp = call.stamp
    BY <1>c, <2>2, <2>4, <2>g DEF old
  <2>7. gone.op \in Leavings =>
          \A i \in Old(call)' : rows'[i].box = call.player <=> rows'[i].player = call.player
    BY <1>3, <1>4, <2>6 DEF Swept
  <2>8. gone.op \in Leavings =>
          \A i \in Old(gone)' : rows'[i].box = gone.player <=> rows'[i].player = gone.player
    <3>1. Old(gone)' = Old(call)'
      BY <2>6 DEF Old
    <3> QED
      BY <2>6, <2>7, <3>1
  <2>9. gone.stamp <= Cardinality(Inserted')
    BY <1>2, <1>3, <2>6 DEF Swept
  <2> QED
    BY <1>8, <2>5, <2>8, <2>9 DEF Old
<1>10. ASSUME EndMachineSessions(v) PROVE Swept(next)'
  <2> DEFINE on == {i \in Open : rows[i].box = call.box}
  <2>1. /\ call.step = "close" /\ Close(on, "rebooted")
        /\ next = [call EXCEPT !.todo = on, !.step = "marker"]
    BY <1>10, <1>c, <1>n DEF EndMachineSessions
  <2>2. on \in SUBSET Open /\ "rebooted" \in Reasons /\ call.op = "reboot"
    BY <1>3, <2>1 DEF Reasons, Swept
  <2>3. next.step = "marker" /\ next.op = call.op /\ next.stamp = call.stamp /\ next.box = call.box
    BY <1>3, <2>1 DEF Call
  <2>4. \A i \in on : rows'[i].state = "ended"
    BY <2>1, <2>2, CloseEnds
  <2>5. \A i \in Old(call)' : rows'[i].box # call.box
    BY <1>4, <2>4 DEF Old, Open
  <2> HIDE DEF on
  <2> QED
    BY <1>2, <1>3, <2>2, <2>3, <2>5 DEF Swept, Old, Leavings
<1>11. ASSUME WriteBootId(v) PROVE Swept(next)'
  <2> DEFINE on == [call EXCEPT !.box = None, !.stamp = 0]
  <2>1. call.step = "marker" /\ next = Onward(on)
    BY <1>11, <1>c, <1>n DEF WriteBootId
  <2>2. call.op = "reboot"
    BY <1>3, <2>1 DEF Swept
  <2>3. on \in Call /\ on.op = call.op /\ on.stamp = 0
    BY <1>3, <2>1 DEF Call
  <2> HIDE DEF on
  <2>4. on.stamp <= Cardinality(Inserted') /\ on.op \notin Leavings
    BY <1>2, <2>2, <2>3 DEF Leavings
  <2> QED
    BY <1>8, <2>1, <2>3, <2>4
<1>12. ASSUME EndVisitorSessions(v) PROVE Swept(next)'
  <2> DEFINE visitors == {i \in Open : /\ rows[i].box = call.player
                                       /\ rows[i].player # call.player}
  <2>1. /\ Close(visitors, "network_left")
        /\ next = [call EXCEPT !.todo = visitors, !.step = "away"]
    BY <1>12, <1>c, <1>n DEF EndVisitorSessions
  <2>2. visitors \in SUBSET Open /\ "network_left" \in Reasons
    BY DEF Reasons
  <2>3. next.step = "away" /\ next.stamp = call.stamp /\ next.player = call.player
    BY <1>3, <2>1 DEF Call
  <2>4. \A i \in visitors : rows'[i].state = "ended"
    <3> HIDE DEF visitors
    <3> QED
      BY <2>1, <2>2, CloseEnds
  <2>5. \A i \in Old(call)' : rows'[i].box = call.player => rows'[i].player = call.player
    BY <1>4, <2>4 DEF Old, Open
  <2> HIDE DEF visitors
  <2> QED
    BY <1>2, <1>3, <2>3, <2>5 DEF Swept, Old
<1>13. ASSUME EndOwnSessionsAway(v) PROVE Swept(next)'
  <2> DEFINE away == {i \in Open : /\ rows[i].player = call.player
                                   /\ rows[i].box # call.player}
             on == [call EXCEPT !.todo = @ \cup away]
  <2>1. call.step = "away" /\ Close(away, "network_left") /\ next = Onward(on)
    BY <1>13, <1>c, <1>n DEF EndOwnSessionsAway
  <2>2. away \in SUBSET Open /\ away \in SUBSET Ids /\ "network_left" \in Reasons
    BY DEF Reasons, Open
  <2>3. \A i \in away : rows'[i].state = "ended"
    BY <2>1, <2>2, CloseEnds
  <2>4. \A i \in Old(call)' : rows'[i].box = call.player <=> rows'[i].player = call.player
    <3> SUFFICES ASSUME NEW i \in Old(call)'
                 PROVE  rows'[i].box = call.player <=> rows'[i].player = call.player
      OBVIOUS
    <3>1. i \in Old(call) /\ rows'[i] = rows[i] /\ i \in Open
      BY <1>4 DEF Old
    <3>2. rows[i].box = call.player => rows[i].player = call.player
      BY <1>3, <2>1, <3>1 DEF Swept
    <3>3. i \notin away
      BY <2>3 DEF Old, Open
    <3> QED
      BY <3>1, <3>2, <3>3
  <2> HIDE DEF away
  <2>5. on \in Call /\ on.op = call.op /\ on.stamp = call.stamp /\ on.player = call.player
    BY <1>3, <2>1, <2>2 DEF Call
  <2>g. PICK gone : gone = on
    OBVIOUS
  <2>o. /\ gone \in Call /\ next = Onward(gone) /\ gone.stamp = call.stamp
        /\ gone.op = call.op /\ gone.player = call.player
    BY <2>1, <2>5, <2>g
  <2>6. \A i \in Old(gone)' : rows'[i].box = gone.player <=> rows'[i].player = gone.player
    <3>1. Old(gone)' = Old(call)'
      BY <2>o DEF Old
    <3> QED
      BY <2>4, <2>o, <3>1
  <2>7. gone.stamp <= Cardinality(Inserted')
    BY <1>2, <1>3, <2>o DEF Swept
  <2> QED
    BY <1>8, <2>o, <2>6, <2>7 DEF Old
<1>14. ASSUME FindEndedSessions(v) PROVE Swept(next)'
  <2> DEFINE gone == {i \in Ended : /\ rows[i].player = call.player
                                    /\ \E j \in call.listed : rows[j].parent = i}
             on == [call EXCEPT !.todo = gone]
  <2>1. call.step = "ended" /\ next = Onward(on)
    BY <1>14, <1>c, <1>n DEF FindEndedSessions
  <2>2. call.op = "list" /\ gone \in SUBSET Ids
    BY <1>3, <2>1 DEF Swept, Ended
  <2> HIDE DEF gone
  <2>3. on \in Call /\ on.op = call.op /\ on.stamp = call.stamp
    BY <1>3, <2>1, <2>2 DEF Call
  <2> HIDE DEF on
  <2>4. on.stamp <= Cardinality(Inserted') /\ on.op \notin Leavings
    BY <1>2, <1>3, <2>2, <2>3 DEF Swept, Leavings
  <2> QED
    BY <1>8, <2>1, <2>3, <2>4
<1>15. ASSUME Resolve(v) \/ DeleteOtherOccupancies(v) PROVE Swept(next)'
  <2>1. CASE Resolve(v)
    <3>1. next = NoCall \/ next = [call EXCEPT !.step = "insert"]
      BY <2>1, <1>c, <1>n DEF Resolve, Goto, Done
    <3>2. ASSUME next = [call EXCEPT !.step = "insert"]
          PROVE  next.step = "insert" /\ next.stamp = call.stamp
      BY <1>3, <3>2 DEF Call
    <3>3. call.stamp <= Cardinality(Inserted')
      BY <1>2, <1>3 DEF Swept
    <3> QED
      BY <1>3, <1>6, <1>7, <3>1, <3>2, <3>3
  <2>2. CASE DeleteOtherOccupancies(v)
    <3>1. /\ call.step = "others" /\ rows' = rows
          /\ \/ next = [call EXCEPT !.step = "occupy"]
             \/ next = [call EXCEPT !.step = "visitors", !.stamp = Cardinality(Inserted)]
      BY <2>2, <1>c, <1>n DEF DeleteOtherOccupancies, Goto
    <3>2. call.stamp = 0
      BY <1>3, <3>1 DEF Swept
    <3>3. \/ next.step = "occupy" /\ next.stamp = 0
          \/ next.step = "visitors" /\ next.stamp = Cardinality(Inserted)
      BY <1>3, <3>1, <3>2 DEF Call
    <3> QED
      BY <1>2, <1>7, <3>3
  <2> QED
    BY <1>15, <2>1, <2>2
<1>16. ASSUME NEW p \in Players, Start(v, p) PROVE Swept(next)'
  <2>1. CASE StartLogin(v, p) \/ StartSu(v, p) \/ StartJoin(v, p)
    <3>1. next.stamp = 0 /\ next.step \in {"insert", "resolve", "others"}
      <4>1. CASE StartLogin(v, p)
        BY <4>1, <1>n DEF StartLogin, Begin, NoCall
      <4>2. CASE StartSu(v, p)
        BY <4>2, <1>n DEF StartSu, Begin, NoCall
      <4>3. CASE StartJoin(v, p)
        BY <4>3, <1>n DEF StartJoin, Begin, NoCall
      <4> QED
        BY <2>1, <4>1, <4>2, <4>3
    <3> QED
      BY <1>2, <1>7, <3>1
  <2>2. CASE StartReboot(v, p) \/ DeleteOccupancies(v, p)
    <3>1. /\ next.stamp = Cardinality(Inserted)
          /\ \/ next.step = "close" /\ next.op = "reboot"
             \/ next.step = "visitors"
      <4>1. CASE StartReboot(v, p)
        BY <4>1, <1>n DEF StartReboot, Begin, NoCall
      <4>2. CASE DeleteOccupancies(v, p)
        BY <4>2, <1>n DEF DeleteOccupancies, Begin, NoCall
      <4> QED
        BY <2>2, <4>1, <4>2
    <3> QED
      BY <1>2, <1>7, <3>1
  <2>3. CASE ListSessions(v, p)
    <3> DEFINE open == {i \in Open : rows[i].player = p}
               step == IF {rows[i].parent : i \in open} \ {None} = {} THEN "answer" ELSE "ended"
    <3>1. next = [NoCall EXCEPT !.op = "list", !.player = p, !.listed = open, !.step = step]
      BY <2>3, <1>n DEF ListSessions, Begin
    <3>2. step \in {"answer", "ended"}
      OBVIOUS
    <3> HIDE DEF open, step
    <3>3. next.stamp = 0 /\ next.op = "list" /\ next.step \in {"answer", "ended"}
      BY <3>1, <3>2 DEF NoCall
    <3> QED
      BY <1>2, <1>7, <3>3
  <2>4. CASE DeleteOccupant(v, p)
    <3>1. \/ next.step = "visitors" /\ next.stamp = Cardinality(Inserted)
          \/ next.step = "answer" /\ next.stamp = 0
      BY <2>4, <1>n DEF DeleteOccupant, Begin, NoCall
    <3> QED
      BY <1>2, <1>7, <3>1
  <2> QED
    BY <1>16, <2>1, <2>2, <2>3, <2>4 DEF Start
<1>17. CASE Insert(v) \/ UpsertOccupant(v) \/ Answer(v) \/ Fail(v)
  BY <1>6, <1>17, <1>n DEF Insert, UpsertOccupant, Answer, Fail, Done
<1>18. ASSUME NEW w \in Workers, w # v,
              Continue(w) \/ Fail(w) \/ \E p \in Players : Start(w, p)
       PROVE  next = call
  <2>1. ASSUME NEW p \in Players, Start(w, p) PROVE next = call
    BY <1>18, <2>1, <1>c, <1>n DEF Start, StartLogin, StartSu, StartReboot, ListSessions, DeleteOccupant,
                       DeleteOccupancies, StartJoin, Begin
  <2>2. CASE Continue(w) \/ Fail(w)
    BY <1>18, <2>2, <1>c, <1>n DEF Continue, Fail, Resolve, Insert, EndSessionsAbove, EndMachineSessions,
                 WriteBootId, EndVisitorSessions, EndOwnSessionsAway, FindEndedSessions, Answer,
                 DeleteOtherOccupancies, UpsertOccupant, Goto, Done
  <2> QED
    BY <1>18, <2>1, <2>2
<1>19. CASE UNCHANGED vars \/ \E p \in Players : CreateSession(p) \/ EndSession(p)
  BY <1>5, <1>19, <1>c, <1>n DEF vars, CreateSession, EndSession
<1> QED
  BY <1>5, <1>9, <1>10, <1>11, <1>12, <1>13, <1>14, <1>15, <1>16, <1>17, <1>18, <1>19
     DEF Next, Continue

LEMMA SweptInit == Init => Sweeping
<1> SUFFICES ASSUME Init PROVE Sweeping
  OBVIOUS
<1>1. Inserted = {}
  BY DEF Init, Inserted, NoRow
<1>2. Cardinality(Inserted) = 0
  BY <1>1, FS_EmptySet
<1> QED
  BY <1>2 DEF Init, Sweeping, Swept, NoRow, NoCall, Leavings

\* Whoever took a box off its network goes on only when every connection that ran
\* through the box at that moment is closed, whatever logs in meanwhile.
THEOREM Drops == Spec => []DropsWhatItLeft
<1>1. Sweeping => DropsWhatItLeft
  BY DEF Sweeping, Swept, DropsWhatItLeft, RunsThrough, Old, Leavings
<1> QED
  BY <1>1, SweptInit, SweptStep, Typing, PTL DEF Spec

\* A reboot tells the terminals of a box only when every row that stood there when it
\* was authorised has ended, whoever reboots, logs in or leaves beside it.
THEOREM EvictsFirst == Spec => RebootEvictsBeforeItTells
<1>1. TypeOK /\ Sweeping =>
        \A w \in Workers, i \in Ids :
          /\ calls[w].step = "marker" /\ rows[i].box = calls[w].box
          /\ rows[i].born \in 1 .. calls[w].stamp
          => rows[i].state = "ended"
  BY DEF Sweeping, Swept, Old, Open
<1>2. TypeOK /\ Sweeping /\ [Next]_vars =>
        [\A w \in Workers, i \in Ids :
           /\ calls[w].step = "marker"
           /\ boots'[calls[w].box] # boots[calls[w].box]
           /\ rows[i].box = calls[w].box
           /\ rows[i].born \in 1 .. calls[w].stamp
           => rows[i].state = "ended"]_vars
  BY <1>1
<1> QED
  BY <1>2, SweptInit, SweptStep, Typing, PTL DEF Spec, RebootEvictsBeforeItTells

-----------------------------------------------------------------------------
(* Walks run down.                                                         *)

\* A slot changes by a step of its own.
LEMMA StepAlone ==
  ASSUME TypeOK, [Next]_vars, NEW w \in Workers, calls'[w] # calls[w]
  PROVE  (\E p \in Players : Start(w, p)) \/ Continue(w) \/ Fail(w)
<1>1. calls \in [Workers -> Call]
  BY DEF TypeOK
<1>2. PICK v \in Workers : (\E p \in Players : Start(v, p)) \/ Continue(v) \/ Fail(v)
  BY DEF Next, vars, CreateSession, EndSession
<1>3. ASSUME NEW p \in Players, Start(v, p) PROVE \E call : calls' = [calls EXCEPT ![v] = call]
  BY <1>3 DEF Start, StartLogin, StartSu, StartReboot, ListSessions, DeleteOccupant,
              DeleteOccupancies, StartJoin, Begin
<1>4. ASSUME NEW step, Goto(v, step) PROVE \E call : calls' = [calls EXCEPT ![v] = call]
  BY <1>4 DEF Goto
<1>5. PICK call : calls' = [calls EXCEPT ![v] = call]
  <2>1. CASE Fail(v) \/ Resolve(v) \/ Insert(v) \/ UpsertOccupant(v) \/ Answer(v)
    BY <1>4, <2>1 DEF Fail, Resolve, Insert, UpsertOccupant, Answer, Done
  <2>2. CASE EndSessionsAbove(v) \/ WriteBootId(v) \/ EndOwnSessionsAway(v) \/ FindEndedSessions(v)
    BY <2>2 DEF EndSessionsAbove, WriteBootId, EndOwnSessionsAway, FindEndedSessions
  <2>3. CASE EndMachineSessions(v)
    BY <2>3 DEF EndMachineSessions
  <2>4. CASE EndVisitorSessions(v)
    BY <2>4 DEF EndVisitorSessions
  <2>5. CASE DeleteOtherOccupancies(v)
    BY <1>4, <2>5 DEF DeleteOtherOccupancies
  <2> QED
    BY <1>2, <1>3, <2>1, <2>2, <2>3, <2>4, <2>5 DEF Continue
<1>6. v = w
  BY <1>1, <1>5
<1> QED
  BY <1>2, <1>6

\* A call in the middle of a walk that is in the middle of it still has made a rung.
LEMMA RungStep ==
  ASSUME TypeOK, [Next]_vars, NEW w \in Workers,
         calls[w].step = "cascade", calls'[w].step = "cascade", calls'[w] # calls[w]
  PROVE  EndSessionsAbove(w)
<1>1. ASSUME NEW p \in Players, Start(w, p) PROVE FALSE
  BY <1>1 DEF Start, StartLogin, StartSu, StartReboot, ListSessions, DeleteOccupant,
              DeleteOccupancies, StartJoin, Begin
<1>2. Fail(w) => calls'[w].step = "idle"
  BY DEF Fail, Done, NoCall, TypeOK
<1> QED
  BY <1>1, <1>2, StepAlone DEF Continue, Resolve, Insert, EndMachineSessions, WriteBootId,
     EndVisitorSessions, EndOwnSessionsAway, FindEndedSessions, Answer, DeleteOtherOccupancies,
     UpsertOccupant

\* The open rows are finitely many, and so are those a walk has to do; a step opens
\* none but those it inserts.
LEMMA OpenMoves ==
  ASSUME TypeOK, [Next]_vars
  PROVE  /\ IsFiniteSet(Open) /\ IsFiniteSet(Open') /\ IsFiniteSet(Ended)
         /\ IsFiniteSet(Inserted' \ Inserted)
         /\ Open' \in SUBSET (Open \cup (Inserted' \ Inserted))
<1>1. Open \in SUBSET Inserted /\ Ended \in SUBSET Inserted /\ Open' \in SUBSET Inserted'
  BY DEF Open, Ended, Inserted
<1>2. IsFiniteSet(Inserted) /\ IsFiniteSet(Inserted')
  BY InsertedMoves DEF TypeOK
<1>3. Open' \in SUBSET (Open \cup (Inserted' \ Inserted))
  BY RowsMove DEF Open, Inserted
<1>4. Inserted' \ Inserted \in SUBSET Inserted'
  OBVIOUS
<1> QED
  BY <1>1, <1>2, <1>3, <1>4, FS_Subset

\* A walk that goes on carries what it was given.
LEMMA OnwardWalks ==
  ASSUME NEW call \in Call, Onward(call).step = "cascade"
  PROVE  Onward(call).rung = call.rung /\ Onward(call).todo = call.todo
<1>1. CASE call.todo # {} \/ call.rung # {}
  BY <1>1 DEF Onward, Call
<1>2. CASE call.todo = {} /\ call.rung = {}
  <2> DEFINE occupy == [call EXCEPT !.step = "occupy", !.who = None]
             answer == [call EXCEPT !.step = "answer", !.who = None]
  <2>1. Onward(call) = NoCall \/ Onward(call) = occupy \/ Onward(call) = answer
    BY <1>2 DEF Onward
  <2>2. NoCall.step = "idle" /\ occupy.step = "occupy" /\ answer.step = "answer"
    BY DEF NoCall, Call
  <2> HIDE DEF occupy, answer
  <2> QED
    BY <2>1, <2>2
<1> QED
  BY <1>1, <1>2

\* One rung: either it ends a row, or it ends the climb, or it takes a player off the
\* list.
LEMMA RungCosts ==
  ASSUME TypeOK, WalksStandOnEndedRows, [Next]_vars, NEW w \in Workers,
         EndSessionsAbove(w), calls'[w].step = "cascade"
  PROVE  /\ calls'[w].todo \in SUBSET calls[w].todo
         /\ Open' \in SUBSET Open
         /\ \/ calls[w].rung # {} /\ Open' # Open
            \/ calls[w].rung # {} /\ calls'[w].rung = {}
            \/ calls[w].rung = {} /\ calls'[w].todo # calls[w].todo
<1> DEFINE call == calls[w]
<1>1. call \in Call /\ call.step = "cascade"
  BY DEF TypeOK, EndSessionsAbove
<1>2. PICK p \in IF call.rung # {} THEN {call.who} ELSE Owners(call.todo) :
        LET seeds   == {i \in call.todo : rows[i].player = p}
            parents == IF call.rung # {} THEN call.rung ELSE seeds
            above   == {i \in Open : rows[i].player = p /\ rows[i].parent \in parents}
        IN /\ Close(above, "upstream_lost")
           /\ calls' = [calls EXCEPT ![w] =
                Onward([call EXCEPT !.who = p, !.rung = above,
                          !.todo = IF call.rung # {} THEN @ ELSE @ \ seeds,
                          !.listed = @ \ above])]
  BY DEF EndSessionsAbove
<1> DEFINE seeds   == {i \in call.todo : rows[i].player = p}
           parents == IF call.rung # {} THEN call.rung ELSE seeds
           above   == {i \in Open : rows[i].player = p /\ rows[i].parent \in parents}
           todo    == IF call.rung # {} THEN call.todo ELSE call.todo \ seeds
           next    == [call EXCEPT !.who = p, !.rung = above, !.todo = todo,
                                   !.listed = @ \ above]
<1>3. Close(above, "upstream_lost") /\ calls'[w] = Onward(next)
  BY <1>2 DEF TypeOK
<1>4. next.rung = above /\ next.todo = todo /\ next \in Call
  <2>1. p \in Players \cup {None}
    <3>1. call.rung # {} => p \in Players \cup {None}
      BY <1>1, <1>2 DEF Call
    <3>2. call.rung = {} => p \in Players
      <4>1. ASSUME call.rung = {} PROVE p \in Players
        <5>1. PICK i \in call.todo : p = rows[i].player
          BY <1>2, <4>1 DEF Owners
        <5>2. i \in Ids /\ rows[i] \in Row /\ rows[i].state # "absent"
          BY <1>1, <5>1 DEF Call, TypeOK, WalksStandOnEndedRows, Ended
        <5> QED
          BY <5>1, <5>2 DEF Row
      <4> QED
        BY <4>1
    <3> QED
      BY <3>1, <3>2
  <2>2. above \in SUBSET Ids /\ todo \in SUBSET Ids /\ call.listed \ above \in SUBSET Ids
    BY <1>1 DEF Open, Call
  <2> HIDE DEF above, todo
  <2> QED
    BY <1>1, <2>1, <2>2 DEF Call
<1>5. calls'[w].rung = next.rung /\ calls'[w].todo = next.todo
  <2> HIDE DEF next
  <2> QED
    BY <1>3, <1>4, OnwardWalks
<1>6. above \in SUBSET Open /\ "upstream_lost" \in Reasons
  BY DEF Reasons
<1>7. Open' \in SUBSET Open /\ \A i \in above : i \notin Open'
  <2> HIDE DEF above
  <2>1. \A i \in Ids : rows'[i].state = "open" => rows'[i] = rows[i] /\ i \notin above
    BY <1>3, <1>6, CloseEnds DEF TypeOK
  <2> QED
    BY <2>1 DEF Open
<1>8. CASE call.rung # {}
  <2>1. todo = call.todo
    BY <1>8
  <2>2. CASE above = {}
    BY <1>4, <1>5, <1>7, <1>8, <2>1, <2>2
  <2>3. CASE above # {}
    <3>1. Open' # Open
      <4> HIDE DEF above
      <4> QED
        BY <1>6, <1>7, <2>3
    <3> QED
      BY <1>4, <1>5, <1>7, <1>8, <2>1, <3>1
  <2> QED
    BY <2>2, <2>3
<1>9. CASE call.rung = {}
  <2>1. p \in Owners(call.todo)
    BY <1>2, <1>9
  <2>2. seeds # {}
    BY <2>1 DEF Owners
  <2> QED
    BY <1>4, <1>5, <1>7, <1>9, <2>2
<1> QED
  BY <1>8, <1>9

\* What a call leaves a walk to do, in numbers.
LEMMA LessLeft ==
  ASSUME NEW a \in Nat, NEW b \in Nat, NEW c \in {0, 1}, NEW n \in Nat,
         NEW a2 \in Nat, NEW b2 \in Nat, NEW c2 \in {0, 1},
         a2 <= a, b2 <= b, (c = 1 /\ c2 = 0) \/ a2 < a \/ b2 < b
  PROVE  /\ 2 * (a2 + b2) + c2 < 2 * (a + b) + c
         /\ 2 * (a2 + b2) + c2 <= 2 * (a + b) + c + 2 * n
OBVIOUS

\* A walk up the chains runs down, however many ids there are to mint and whatever
\* parents are named: each of its calls leaves it less to do, and what others do
\* meanwhile leaves it at most two calls more for each row they insert.
THEOREM WalksRunDown == Spec => CascadesRunDown
<1>1. ASSUME TypeOK, WalksStandOnEndedRows, [Next]_vars, NEW w \in Workers,
             calls[w].step = "cascade", calls'[w].step = "cascade"
      PROVE  /\ LeftToWalk(w)' <= LeftToWalk(w) + 2 * Cardinality(Inserted' \ Inserted)
             /\ calls'[w] # calls[w] => LeftToWalk(w)' < LeftToWalk(w)
  <2> DEFINE N == Inserted' \ Inserted
             T == calls[w].todo
  <2>1. /\ IsFiniteSet(Open) /\ IsFiniteSet(Open') /\ IsFiniteSet(Ended) /\ IsFiniteSet(N)
        /\ Open' \in SUBSET (Open \cup N)
    BY <1>1, OpenMoves
  <2>2. IsFiniteSet(T)
    <3>1. T \in SUBSET Ended
      BY <1>1 DEF WalksStandOnEndedRows
    <3> QED
      BY <2>1, <3>1, FS_Subset
  <2> HIDE DEF N
  <2>3. /\ Cardinality(Open) \in Nat /\ Cardinality(Open') \in Nat
        /\ Cardinality(N) \in Nat /\ Cardinality(T) \in Nat
    BY <2>1, <2>2, FS_CardinalityType
  <2>4. CASE calls'[w] = calls[w]
    <3>1. /\ IsFiniteSet(Open \cup N)
          /\ Cardinality(Open \cup N) = Cardinality(Open) + Cardinality(N)
                                        - Cardinality(Open \cap N)
      BY <2>1, FS_Union
    <3>2. Open \cap N \in SUBSET N
      OBVIOUS
    <3>3. Cardinality(Open \cap N) \in Nat
      BY <2>1, <3>2, FS_Subset, FS_CardinalityType
    <3>4. Cardinality(Open') <= Cardinality(Open \cup N)
      BY <2>1, <3>1, FS_Subset
    <3>5. Cardinality(Open') <= Cardinality(Open) + Cardinality(N)
      BY <2>3, <3>1, <3>3, <3>4
    <3> DEFINE c == IF calls[w].rung = {} THEN 0 ELSE 1
    <3>6. LeftToWalk(w)' = 2 * (Cardinality(Open') + Cardinality(T)) + c
      BY <2>4 DEF LeftToWalk
    <3>7. LeftToWalk(w) = 2 * (Cardinality(Open) + Cardinality(T)) + c
      BY DEF LeftToWalk
    <3>8. c \in {0, 1}
      OBVIOUS
    <3> HIDE DEF c, T
    <3>9. LeftToWalk(w)' <= LeftToWalk(w) + 2 * Cardinality(N)
      BY <2>3, <3>5, <3>6, <3>7, <3>8
    <3> QED
      BY <2>4, <3>9 DEF N
  <2>5. CASE calls'[w] # calls[w]
    <3>1. EndSessionsAbove(w)
      BY <1>1, <2>5, RungStep
    <3>2. /\ calls'[w].todo \in SUBSET T
          /\ Open' \in SUBSET Open
          /\ \/ calls[w].rung # {} /\ Open' # Open
             \/ calls[w].rung # {} /\ calls'[w].rung = {}
             \/ calls[w].rung = {} /\ calls'[w].todo # T
      BY <1>1, <3>1, RungCosts
    <3>3. IsFiniteSet(calls'[w].todo)
      BY <2>2, <3>2, FS_Subset
    <3>4. /\ Cardinality(calls'[w].todo) \in Nat
          /\ Cardinality(calls'[w].todo) <= Cardinality(T)
          /\ calls'[w].todo # T => Cardinality(calls'[w].todo) # Cardinality(T)
      BY <2>2, <3>2, <3>3, FS_Subset, FS_CardinalityType
    <3>5. /\ Cardinality(Open') <= Cardinality(Open)
          /\ Open' # Open => Cardinality(Open') # Cardinality(Open)
      BY <2>1, <3>2, FS_Subset
    <3>6. CASE calls[w].rung # {} /\ calls'[w].rung = {}
      BY <2>3, <3>4, <3>5, <3>6, LessLeft DEF LeftToWalk, N
    <3>7. CASE calls[w].rung # {} /\ Open' # Open
      BY <2>3, <3>4, <3>5, <3>7, LessLeft DEF LeftToWalk, N
    <3>8. CASE calls[w].rung = {} /\ calls'[w].todo # T
      BY <2>3, <3>4, <3>5, <3>8, LessLeft DEF LeftToWalk, N
    <3> QED
      BY <3>2, <3>6, <3>7, <3>8
  <2> QED
    BY <2>4, <2>5
<1>2. TypeOK /\ WalksStandOnEndedRows /\ [Next]_vars
      => [\A w \in Workers :
            calls[w].step = "cascade" /\ calls'[w].step = "cascade"
            => /\ LeftToWalk(w)' <= LeftToWalk(w) + 2 * Cardinality(Inserted' \ Inserted)
               /\ calls'[w] # calls[w] => LeftToWalk(w)' < LeftToWalk(w)]_vars
  BY <1>1
<1> QED
  BY <1>2, Typing, WalksStand, PTL DEF Spec, CascadesRunDown

-----------------------------------------------------------------------------
(* Leaving.  A visitor can stay on a box that left its network by two      *)
(* races: the login that checked the occupancy before it went and inserts  *)
(* its row after the sweep, and the sweep that is cut off.  There is no    *)
(* third.                                                                  *)

\* No login on its way in finds its host's box gone.
SeatedUntilInserted ==
  \A w \in Workers :
    calls[w].step = "insert" /\ calls[w].box \in Players
    => \E e \in Essids : <<e, calls[w].box>> \in occupants

\* No request is cut off between the occupancy it deleted and the sweep it owes.
SweepRuns(w) == calls[w].step = "visitors" => calls'[w].step # "idle"
SweepsRun == [][\A w \in Workers : SweepRuns(w)]_vars

\* A box leaves a network by a request that goes on to sweep its visitors.
LEMMA UnseatedSweeps ==
  ASSUME TypeOK, [Next]_vars, NEW e \in Essids, NEW p \in Players,
         <<e, p>> \in occupants, <<e, p>> \notin occupants'
  PROVE  \E w \in Workers : calls'[w].player = p /\ calls'[w].step = "visitors"
<1>1. PICK w \in Workers :
        \/ \E q \in Players : DeleteOccupant(w, q) \/ DeleteOccupancies(w, q)
        \/ DeleteOtherOccupancies(w)
  BY DEF Next, Start, Continue, vars, CreateSession, EndSession, StartLogin, StartSu, StartReboot,
         ListSessions, StartJoin, Resolve, Insert, EndSessionsAbove, EndMachineSessions,
         WriteBootId, EndVisitorSessions, EndOwnSessionsAway, FindEndedSessions, Answer,
         UpsertOccupant, Fail
<1>2. calls \in [Workers -> Call] /\ calls[w] \in Call
  BY DEF TypeOK
<1>3. ASSUME NEW q \in Players, DeleteOccupant(w, q)
      PROVE  calls'[w].player = p /\ calls'[w].step = "visitors"
  <2> DEFINE call == [NoCall EXCEPT !.op = "leave", !.player = q,
                        !.stamp = Cardinality(Inserted), !.step = "visitors"]
  <2>1. PICK f \in Essids :
          /\ occupants' = occupants \ {<<f, q>>}
          /\ <<f, q>> \in occupants => calls' = [calls EXCEPT ![w] = call]
    BY <1>3 DEF DeleteOccupant, Begin
  <2>2. e = f /\ p = q
    BY <2>1
  <2>3. call.player = q /\ call.step = "visitors"
    BY DEF NoCall
  <2> HIDE DEF call
  <2> QED
    BY <1>2, <2>1, <2>2, <2>3
<1>4. ASSUME NEW q \in Players, DeleteOccupancies(w, q)
      PROVE  calls'[w].player = p /\ calls'[w].step = "visitors"
  <2> DEFINE call == [NoCall EXCEPT !.op = "board", !.player = q,
                        !.stamp = Cardinality(Inserted), !.step = "visitors"]
  <2>1. calls' = [calls EXCEPT ![w] = call] /\ occupants' = occupants \ {o \in occupants : o[2] = q}
    BY <1>4 DEF DeleteOccupancies, Begin
  <2>2. p = q
    BY <2>1
  <2>3. call.player = q /\ call.step = "visitors"
    BY DEF NoCall
  <2> HIDE DEF call
  <2> QED
    BY <1>2, <2>1, <2>2, <2>3
<1>5. ASSUME DeleteOtherOccupancies(w)
      PROVE  calls'[w].player = p /\ calls'[w].step = "visitors"
  <2> DEFINE left == {o \in occupants : o[2] = calls[w].player /\ o[1] # calls[w].essid}
  <2>1. /\ occupants' = occupants \ left
        /\ left # {} => calls' = [calls EXCEPT ![w].step = "visitors",
                                               ![w].stamp = Cardinality(Inserted)]
    BY <1>5 DEF DeleteOtherOccupancies
  <2>2. <<e, p>> \in left
    BY <2>1
  <2>3. p = calls[w].player /\ left # {}
    BY <2>2
  <2> QED
    BY <1>2, <2>1, <2>3 DEF Call
<1> QED
  BY <1>1, <1>3, <1>4, <1>5

\* A row that opens on another player's box is a login's, on its way in.
LEMMA VisitorsComeIn ==
  ASSUME TypeOK, [Next]_vars, NEW i \in Ids, rows[i].state = "absent", rows'[i].state = "open",
         rows'[i].box \in Players, rows'[i].player # rows'[i].box
  PROVE  /\ occupants' = occupants
         /\ \E w \in Workers : calls[w].step = "insert" /\ calls[w].box = rows'[i].box
<1>1. ASSUME NEW which, NEW reason, Close(which, reason) PROVE FALSE
  <2>1. rows'[i].state = "ended" \/ rows'[i] = rows[i]
    <3> DEFINE gone == [NoRow EXCEPT !.state = "ended", !.player = rows[i].player,
                          !.parent = rows[i].parent, !.reason = reason]
    <3>1. gone.state = "ended"
      BY DEF NoRow
    <3>2. rows'[i] = IF i \in which THEN gone ELSE rows[i]
      BY <1>1 DEF Close
    <3> HIDE DEF gone
    <3> QED
      BY <3>1, <3>2
  <2> QED
    BY <2>1
<1>2. ASSUME NEW j \in Ids, NEW p, NEW b, NEW parent, NEW e, NEW root,
             InsertSession(j, p, b, parent, e, root)
      PROVE  rows'[i].player = p /\ rows'[i].box = b
  <2>1. i = j
    BY <1>2 DEF InsertSession, TypeOK
  <2> QED
    BY <1>2, <2>1 DEF InsertSession, TypeOK
<1>3. ASSUME NEW p \in Players, CreateSession(p) PROVE FALSE
  BY <1>2, <1>3 DEF CreateSession
<1>4. ASSUME NEW p \in Players, EndSession(p) PROVE FALSE
  BY <1>1, <1>4 DEF EndSession
<1>5. ASSUME NEW w \in Workers, NEW p \in Players, Start(w, p) PROVE UNCHANGED rows
  BY <1>5 DEF Start, StartLogin, StartSu, StartReboot, ListSessions, DeleteOccupant,
              DeleteOccupancies, StartJoin
<1>6. ASSUME NEW w \in Workers,
             \/ Resolve(w) \/ WriteBootId(w) \/ FindEndedSessions(w) \/ Answer(w)
             \/ DeleteOtherOccupancies(w) \/ UpsertOccupant(w) \/ Fail(w)
      PROVE  UNCHANGED rows
  BY <1>6 DEF Resolve, WriteBootId, FindEndedSessions, Answer, DeleteOtherOccupancies,
              UpsertOccupant, Fail
<1>7. ASSUME NEW w \in Workers, Insert(w)
      PROVE  occupants' = occupants /\ calls[w].step = "insert" /\ calls[w].box = rows'[i].box
  BY <1>2, <1>7 DEF Insert
<1>8. ASSUME NEW w \in Workers,
             EndSessionsAbove(w) \/ EndMachineSessions(w) \/ EndVisitorSessions(w)
             \/ EndOwnSessionsAway(w)
      PROVE  FALSE
  <2>1. CASE EndSessionsAbove(w)
    BY <1>1, <2>1 DEF EndSessionsAbove
  <2>2. CASE EndMachineSessions(w)
    BY <1>1, <2>2 DEF EndMachineSessions
  <2>3. CASE EndVisitorSessions(w)
    BY <1>1, <2>3 DEF EndVisitorSessions
  <2>4. CASE EndOwnSessionsAway(w)
    BY <1>1, <2>4 DEF EndOwnSessionsAway
  <2> QED
    BY <1>8, <2>1, <2>2, <2>3, <2>4
<1>9. ~UNCHANGED rows
  OBVIOUS
<1> QED
  BY <1>3, <1>4, <1>5, <1>6, <1>7, <1>8, <1>9 DEF Next, Continue, vars

LEMMA VisitorsStep ==
  ASSUME TypeOK, NoVisitorAfterLeave, SeatedUntilInserted, [Next]_vars,
         \A w \in Workers : SweepRuns(w)
  PROVE  NoVisitorAfterLeave'
<1> SUFFICES ASSUME NEW i \in Ids, rows'[i].state = "open",
                    rows'[i].box \in Players, rows'[i].player # rows'[i].box
             PROVE  \/ \E e \in Essids : <<e, rows'[i].box>> \in occupants'
                    \/ \E w \in Workers : /\ calls'[w].player = rows'[i].box
                                          /\ calls'[w].step = "visitors"
  BY DEF NoVisitorAfterLeave, Open
<1>1. CASE rows'[i] = rows[i]
  <2>1. i \in Open
    BY <1>1 DEF Open
  <2>2. CASE \E e \in Essids : <<e, rows[i].box>> \in occupants
    BY <1>1, <2>2, UnseatedSweeps
  <2>3. ASSUME NEW w \in Workers, calls[w].player = rows[i].box, calls[w].step = "visitors"
        PROVE  calls'[w] = calls[w]
    <3> SUFFICES ASSUME calls'[w] # calls[w] PROVE FALSE
      OBVIOUS
    <3>1. ASSUME NEW p \in Players, Start(w, p) PROVE FALSE
      BY <2>3, <3>1 DEF Start, StartLogin, StartSu, StartReboot, ListSessions, DeleteOccupant,
                        DeleteOccupancies, StartJoin, Begin
    <3>2. Fail(w) => calls'[w].step = "idle"
      BY DEF Fail, Done, NoCall, TypeOK
    <3>3. EndVisitorSessions(w)
      BY <2>3, <3>1, <3>2, StepAlone DEF SweepRuns, Continue, Resolve, Insert, EndMachineSessions,
         WriteBootId, EndSessionsAbove, EndOwnSessionsAway, FindEndedSessions, Answer,
         DeleteOtherOccupancies, UpsertOccupant
    <3> DEFINE visitors == {j \in Open : /\ rows[j].box = calls[w].player
                                         /\ rows[j].player # calls[w].player}
    <3>4. Close(visitors, "network_left") /\ i \in visitors
      BY <1>1, <2>1, <2>3, <3>3 DEF EndVisitorSessions
    <3>5. visitors \in SUBSET Open /\ "network_left" \in Reasons
      BY DEF Reasons
    <3>6. rows'[i].state = "ended"
      <4> HIDE DEF visitors
      <4> QED
        BY <3>4, <3>5, CloseEnds DEF TypeOK
    <3> QED
      BY <3>6
  <2> QED
    BY <1>1, <2>1, <2>2, <2>3 DEF NoVisitorAfterLeave
<1>2. CASE rows[i].state = "absent"
  <2>1. PICK w \in Workers : calls[w].step = "insert" /\ calls[w].box = rows'[i].box
    BY <1>2, VisitorsComeIn
  <2> QED
    BY <1>2, <2>1, VisitorsComeIn DEF SeatedUntilInserted
<1> QED
  BY <1>1, <1>2, RowsMove

\* With a box on no network and no sweep of it under way, no visitor has a shell there,
\* as unregisterOccupant.ts says, unless one of the two races ran: whoever else logs
\* in, joins, leaves, reboots or lists, and wherever else a request dies.
THEOREM NoVisitorStays ==
  Spec /\ []SeatedUntilInserted /\ SweepsRun => []NoVisitorAfterLeave
<1>1. Init => NoVisitorAfterLeave
  BY DEF Init, NoVisitorAfterLeave, Open, NoRow
<1>2. TypeOK /\ NoVisitorAfterLeave /\ SeatedUntilInserted /\ [Next]_vars
      /\ [\A w \in Workers : SweepRuns(w)]_vars => NoVisitorAfterLeave'
  <2>1. CASE UNCHANGED vars
    BY <2>1 DEF vars, NoVisitorAfterLeave, Open
  <2>2. CASE ~UNCHANGED vars
    BY <2>2, VisitorsStep
  <2> QED
    BY <2>1, <2>2
<1> QED
  BY <1>1, <1>2, Typing, PTL DEF Spec, SweepsRun
=============================================================================
