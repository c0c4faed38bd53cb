------------------------------ MODULE Sessions ------------------------------
(***************************************************************************)
(* The sessions table and the occupancy table of jshack.me, and the        *)
(* server handlers that write them: logins, su, exit, reboot, listing,     *)
(* joining a network and leaving one.                                      *)
(*                                                                         *)
(* A handler is a sequence of database calls, each a transaction of its    *)
(* own, so calls[w] holds one request in flight between two of its calls   *)
(* and the requests interleave.  A request may die at any of them (Fail).  *)
(* A player's workstation is named by the player: the code matches the     *)
(* machine id's suffix against the caller's key (isOwnWorkstation).        *)
(***************************************************************************)
EXTENDS Naturals, FiniteSets

CONSTANTS
  Players,    \* public keys; also the workstation each one owns
  Hosts,      \* generated machines and gateways, which nobody owns
  Essids,     \* the declared networks
  Ids,        \* the session ids clients may mint; a run's few bound its rows
  Workers,    \* request slots (the bound on concurrent requests)
  HostNet,    \* the network that generates each host
  Published,  \* the networks whose gateway forwards a port to its occupants
  MaxBoots,   \* bound: reboots of one machine
  Tiers,      \* the tiers accounts grant in this instance, TRUE for root
  Calls,      \* the requests made in this instance
  None        \* no machine, no parent, no network

Boxes == Players \cup Hosts

ASSUME BoxAssumption == Players \cap Hosts = {}
ASSUME NetworkAssumption == HostNet \in [Hosts -> Essids] /\ Published \subseteq Essids
ASSUME BoundsAssumption == MaxBoots \in Nat /\ Tiers \subseteq BOOLEAN

VARIABLES
  rows,       \* the sessions table, by session_id
  occupants,  \* home_network_occupants, as <<essid, owner_key>> pairs
  boots,      \* the boot ids written on each machine, counted
  calls       \* the request each worker is serving

vars == <<rows, occupants, boots, calls>>

\* "exit" stands for the two reasons a client may name, user_exit and abandoned.
Reasons == {"exit", "rebooted", "upstream_lost", "network_left"}

\* Whose a row is outlives it; where it stands is read only while it is open.
Row == {r \in [state: {"absent", "open", "ended"}, player: Players \cup {None},
               box: Boxes \cup {None}, parent: Ids \cup {None},
               essid: Essids \cup {None}, root: BOOLEAN, born: Nat,
               reason: Reasons \cup {None}] :
          /\ r.state # "absent" => r.player \in Players
          /\ r.state = "open" => r.box \in Boxes}

NoRow == [state |-> "absent", player |-> None, box |-> None, parent |-> None,
          essid |-> None, root |-> FALSE, born |-> 0, reason |-> None]

Ops == {"login", "su", "list", "reboot", "leave", "join", "board"}

ASSUME NoneAssumption == None \notin Boxes \cup Essids \cup Ids \cup Ops \cup Reasons

Steps == {"idle", "resolve", "insert", "close", "marker", "visitors", "away",
          "cascade", "others", "occupy", "ended", "answer"}

\* A request names what its next step writes.
Call == {c \in [op: Ops \cup {None}, step: Steps, player: Players \cup {None},
                box: Boxes \cup {None}, essid: Essids \cup {None}, todo: SUBSET Ids,
                rung: SUBSET Ids, who: Players \cup {None}, stamp: Nat,
                listed: SUBSET Ids] :
           /\ c.step # "idle" => c.player \in Players
           /\ c.step \in {"resolve", "insert", "close"} => c.box \in Boxes
           /\ c.step \in {"others", "occupy"} => c.op = "join"
           /\ c.op = "join" => c.essid \in Essids}

NoCall == [op |-> None, step |-> "idle", player |-> None, box |-> None,
           essid |-> None, todo |-> {}, rung |-> {}, who |-> None, stamp |-> 0,
           listed |-> {}]

\* The occupancies a server may hold before any session is open.
SeatedOccupancies ==
  {o \in SUBSET (Essids \X Players) : \A s, t \in o : s[2] = t[2] => s = t}

Init ==
  /\ rows = [i \in Ids |-> NoRow]
  /\ occupants \in SeatedOccupancies
  /\ boots = [b \in Boxes |-> 0]
  /\ calls = [w \in Workers |-> NoCall]

-----------------------------------------------------------------------------
(* What a database call answers with, and what it does to the table.       *)

Inserted == {i \in Ids : rows[i].state # "absent"}
Open == {i \in Ids : rows[i].state = "open"}
Ended == {i \in Ids : rows[i].state = "ended"}

Standing(p, b) == {i \in Open : rows[i].player = p /\ rows[i].box = b}

\* The session a client may name beneath a new one: the one it stands on, whose own
\* insert was not waited for and may land later, or a base login, which has no row.
Parents(i) == (Ids \ {i}) \cup {None}

\* The caller's newest open row on a machine.
FindActiveSession(p, b) ==
  {i \in Standing(p, b) : \A j \in Standing(p, b) : rows[j].born <= rows[i].born}

\* UPDATE ... SET ended_at, end_reason on the open rows among which.  Of a row
\* that has ended only its id, owner and parent are read again, so the columns
\* that place a live shell are dropped with it.
Close(which, reason) ==
  rows' = [i \in Ids |->
             IF i \in which
               THEN [NoRow EXCEPT !.state = "ended", !.player = rows[i].player,
                       !.parent = rows[i].parent, !.reason = reason]
               ELSE rows[i]]

\* Mutant: an upsert in place of the insert, so a taken id is opened again.
UpsertSession(i, p, b, parent, essid, root) ==
  rows' = [rows EXCEPT ![i] =
    [state |-> "open", player |-> p, box |-> b, parent |-> parent, essid |-> essid,
     root |-> root, born |-> Cardinality(Inserted) + 1, reason |-> None]]

\* Mutant: the box and the network change places in the row.
InsertSessionSwapped(i, p, b, parent, essid, root) ==
  /\ rows[i].state = "absent"
  /\ rows' = [rows EXCEPT ![i] =
       [state |-> "open", player |-> p, box |-> essid, parent |-> parent, essid |-> b,
        root |-> root, born |-> Cardinality(Inserted) + 1, reason |-> None]]

\* created_at is the insert's; the primary key refuses an id already inserted.
InsertSession(i, p, b, parent, essid, root) ==
  /\ rows[i].state = "absent"
  /\ rows' = [rows EXCEPT ![i] =
       [state |-> "open", player |-> p, box |-> b, parent |-> parent,
        essid |-> essid, root |-> root, born |-> Cardinality(Inserted) + 1,
        reason |-> None]]

Begin(w, call) == calls[w].step = "idle" /\ calls' = [calls EXCEPT ![w] = call]
Goto(w, step) == calls' = [calls EXCEPT ![w].step = step]
Done(w) == calls' = [calls EXCEPT ![w] = NoCall]

-----------------------------------------------------------------------------
(* Sessions opened and closed by their player.                             *)

\* createSession: a shell on the caller's own workstation, one insert.
CreateSession(p) ==
  /\ "create" \in Calls
  /\ \E i \in Ids, root \in Tiers : \E parent \in Parents(i) :
       InsertSession(i, p, p, parent, None, root)
  /\ UNCHANGED <<occupants, boots, calls>>

\* endSession: scoped to the caller and to rows still open, so a late exit
\* rewrites nothing.
EndSession(p) ==
  /\ "exit" \in Calls
  /\ \E i \in Open : rows[i].player = p /\ Close({i}, "exit")
  /\ UNCHANGED <<occupants, boots, calls>>

\* The network a player's own box occupies; where racing joins left several, the
\* code takes the newest and any is allowed here.
Home(p) == {e \in Essids : <<e, p>> \in occupants}

\* The networks resolveCallerVantage may place the caller on: the one of the row
\* they hold on the box they name, or the one their own box occupies.
Vantage(p, from) ==
  IF from \in {None, p}
    THEN Home(p)
    ELSE {rows[i].essid : i \in FindActiveSession(p, from)} \ {None}

\* A login may be made from a place on the network.  A public one needs only a
\* forward on the gateway, and the shell its caller claims to stand in.
Reaches(p, from, e) ==
  \/ e \in Vantage(p, from)
  \/ e \in Published /\ (from \in {None, p} \/ FindActiveSession(p, from) # {})

\* A login (LAN, same-LAN or public) passes its vantage check.
StartLogin(w, p) ==
  /\ "login" \in Calls
  /\ \E e \in {e \in Essids : \E from \in Boxes \cup {None} : Reaches(p, from, e)},
        b \in Boxes \ {p} :
       /\ b \in Hosts => HostNet[b] = e
       /\ Begin(w, [NoCall EXCEPT !.op = "login", !.player = p, !.box = b, !.essid = e,
                      !.step = IF b \in Hosts THEN "insert" ELSE "resolve"])
  /\ UNCHANGED <<rows, occupants, boots>>

\* suElevate: the caller's newest row on the box names its network.
StartSu(w, p) ==
  /\ "su" \in Calls
  /\ \E b \in Boxes \ {p} : \E i \in FindActiveSession(p, b) :
       Begin(w, [NoCall EXCEPT !.op = "su", !.player = p, !.box = b,
                   !.essid = rows[i].essid,
                   !.step = IF b \in Hosts THEN "insert" ELSE "resolve"])
  /\ UNCHANGED <<rows, occupants, boots>>

\* The occupancy read: a login needs the target's row on the network it knocked
\* on, su needs one on any network.  No row answers 404 and the request ends.
Resolve(w) ==
  LET call == calls[w]
      found == IF call.op = "login" THEN <<call.essid, call.box>> \in occupants
               ELSE \E e \in Essids : <<e, call.box>> \in occupants
  IN /\ call.step = "resolve"
     /\ IF found THEN Goto(w, "insert") ELSE Done(w)
     /\ UNCHANGED <<rows, occupants, boots>>

\* The credential is good: the row lands at the tier of the account, or the id
\* is taken and the request answers 500.
Insert(w) ==
  /\ calls[w].step = "insert"
  /\ \/ \E i \in Ids, root \in Tiers : \E parent \in Parents(i) :
          InsertSession(i, calls[w].player, calls[w].box, parent, calls[w].essid, root)
     \/ Inserted # {} /\ UNCHANGED rows
  /\ Done(w)
  /\ UNCHANGED <<occupants, boots>>

-----------------------------------------------------------------------------
(* Sessions the server ends.                                               *)

Owners(ids) == {rows[i].player : i \in ids}

\* What follows a handler's last sweep: the chains above what it closed, or,
\* with nothing closed, its next call of its own.
Onward(call) ==
  IF call.todo # {} \/ call.rung # {} THEN [call EXCEPT !.step = "cascade"]
  ELSE CASE call.op = "join"   -> [call EXCEPT !.step = "occupy", !.who = None]
         [] call.op = "reboot" -> NoCall
         [] OTHER              -> [call EXCEPT !.step = "answer", !.who = None]

\* Mutant: the rung is not kept inside one player's chain.
EndSessionsAboveUnscoped(w) ==
  LET call == calls[w] IN
  /\ call.step = "cascade"
  /\ \E p \in IF call.rung # {} THEN {call.who} ELSE Owners(call.todo) :
       LET seeds   == {i \in call.todo : rows[i].player = p}
           parents == IF call.rung # {} THEN call.rung ELSE seeds
           above   == {i \in Open : rows[i].parent \in parents}
       IN /\ Close(above, "upstream_lost")
          /\ calls' = [calls EXCEPT ![w] =
               Onward([call EXCEPT !.who = p, !.rung = above,
                         !.todo = IF call.rung # {} THEN @ ELSE @ \ seeds,
                         !.listed = @ \ above])]
  /\ UNCHANGED <<occupants, boots>>

\* Mutant: the rung takes rows that have ended too.
EndSessionsAboveAgain(w) ==
  LET call == calls[w] IN
  /\ call.step = "cascade"
  /\ \E p \in IF call.rung # {} THEN {call.who} ELSE Owners(call.todo) :
       LET seeds   == {i \in call.todo : rows[i].player = p}
           parents == IF call.rung # {} THEN call.rung ELSE seeds
           above   == {i \in Inserted : rows[i].player = p /\ rows[i].parent \in parents}
       IN /\ Close(above, "upstream_lost")
          /\ calls' = [calls EXCEPT ![w] =
               Onward([call EXCEPT !.who = p, !.rung = above,
                         !.todo = IF call.rung # {} THEN @ ELSE @ \ seeds,
                         !.listed = @ \ above])]
  /\ UNCHANGED <<occupants, boots>>

\* endChainsAbove: one rung of one player's chain.  A rung that closed nothing
\* moves the walk on to the next player of what was ended.
EndSessionsAbove(w) ==
  LET call == calls[w] IN
  /\ call.step = "cascade"
  /\ \E p \in IF call.rung # {} THEN {call.who} ELSE Owners(call.todo) :
       LET seeds   == {i \in call.todo : rows[i].player = p}
           parents == IF call.rung # {} THEN call.rung ELSE seeds
           above   == {i \in Open : rows[i].player = p /\ rows[i].parent \in parents}
       IN /\ Close(above, "upstream_lost")
          /\ calls' = [calls EXCEPT ![w] =
               Onward([call EXCEPT !.who = p, !.rung = above,
                         !.todo = IF call.rung # {} THEN @ ELSE @ \ seeds,
                         !.listed = @ \ above])]
  /\ UNCHANGED <<occupants, boots>>

\* rebootMachine (and a firmware flash, which runs the same sequence): the
\* caller owns the box or holds a root row on it.
StartReboot(w, p) ==
  /\ "reboot" \in Calls
  /\ \E b \in Boxes :
       /\ b = p \/ \E i \in FindActiveSession(p, b) : rows[i].root
       /\ boots[b] < MaxBoots
       /\ Begin(w, [NoCall EXCEPT !.op = "reboot", !.player = p, !.box = b,
                      !.stamp = Cardinality(Inserted), !.step = "close"])
  /\ UNCHANGED <<rows, occupants, boots>>

\* Mutant: only the caller's own rows on the machine end.
EndOwnMachineSessions(w) ==
  LET on == Standing(calls[w].player, calls[w].box) IN
  /\ calls[w].step = "close"
  /\ Close(on, "rebooted")
  /\ calls' = [calls EXCEPT ![w].todo = on, ![w].step = "marker"]
  /\ UNCHANGED <<occupants, boots>>

\* Every open row on the machine, whoever holds it.
EndMachineSessions(w) ==
  LET on == {i \in Open : rows[i].box = calls[w].box} IN
  /\ calls[w].step = "close"
  /\ Close(on, "rebooted")
  /\ calls' = [calls EXCEPT ![w].todo = on, ![w].step = "marker"]
  /\ UNCHANGED <<occupants, boots>>

WriteBootId(w) ==
  /\ calls[w].step = "marker"
  /\ boots' = [boots EXCEPT ![calls[w].box] = @ + 1]
  /\ calls' = [calls EXCEPT ![w] = Onward([calls[w] EXCEPT !.box = None, !.stamp = 0])]
  /\ UNCHANGED <<rows, occupants>>

\* dropConnectionsThrough, first half: other players' rows on the box.
EndVisitorSessions(w) ==
  LET visitors == {i \in Open : /\ rows[i].box = calls[w].player
                                /\ rows[i].player # calls[w].player}
  IN /\ calls[w].step = "visitors"
     /\ Close(visitors, "network_left")
     /\ calls' = [calls EXCEPT ![w].todo = visitors, ![w].step = "away"]
     /\ UNCHANGED <<occupants, boots>>

\* Mutant: the owner's rows on the box end, and those elsewhere stay.
EndOwnSessionsHere(w) ==
  LET here == Standing(calls[w].player, calls[w].player)
  IN /\ calls[w].step = "away"
     /\ Close(here, "network_left")
     /\ calls' = [calls EXCEPT ![w] = Onward([calls[w] EXCEPT !.todo = @ \cup here])]
     /\ UNCHANGED <<occupants, boots>>

\* Second half: the owner's rows on every machine but the box.
EndOwnSessionsAway(w) ==
  LET away == {i \in Open : /\ rows[i].player = calls[w].player
                            /\ rows[i].box # calls[w].player}
  IN /\ calls[w].step = "away"
     /\ Close(away, "network_left")
     /\ calls' = [calls EXCEPT ![w] = Onward([calls[w] EXCEPT !.todo = @ \cup away])]
     /\ UNCHANGED <<occupants, boots>>

-----------------------------------------------------------------------------
(* Listing: the rebuild of a client's hop chain.                           *)

ListSessions(w, p) ==
  LET open == {i \in Open : rows[i].player = p}
      parents == {rows[i].parent : i \in open} \ {None}
  IN /\ "list" \in Calls
     /\ Begin(w, [NoCall EXCEPT !.op = "list", !.player = p, !.listed = open,
                    !.step = IF parents = {} THEN "answer" ELSE "ended"])
     /\ UNCHANGED <<rows, occupants, boots>>

\* Mutant: a listing leaves the orphans out of its answer and ends none of them.
FilterEndedSessions(w) ==
  LET call == calls[w]
      gone == {i \in Ended : /\ rows[i].player = call.player
                             /\ \E j \in call.listed : rows[j].parent = i}
      kept == {j \in call.listed : rows[j].parent \notin gone}
  IN /\ call.step = "ended"
     /\ calls' = [calls EXCEPT ![w] = Onward([call EXCEPT !.listed = kept])]
     /\ UNCHANGED <<rows, occupants, boots>>

\* Which of the listed rows' parents have ended.
FindEndedSessions(w) ==
  LET call == calls[w]
      gone == {i \in Ended : /\ rows[i].player = call.player
                             /\ \E j \in call.listed : rows[j].parent = i}
  IN /\ call.step = "ended"
     /\ calls' = [calls EXCEPT ![w] = Onward([call EXCEPT !.todo = gone])]
     /\ UNCHANGED <<rows, occupants, boots>>

-----------------------------------------------------------------------------
(* Joining and leaving a network.                                          *)

\* unregisterOccupant: the row goes first; none there answers 200 at once.
DeleteOccupant(w, p) ==
  /\ "leave" \in Calls
  /\ \E e \in Essids :
       /\ occupants' = occupants \ {<<e, p>>}
       /\ Begin(w, IF <<e, p>> \in occupants
                     THEN [NoCall EXCEPT !.op = "leave", !.player = p,
                             !.stamp = Cardinality(Inserted), !.step = "visitors"]
                     ELSE [NoCall EXCEPT !.op = "leave", !.player = p, !.step = "answer"])
  /\ UNCHANGED <<rows, boots>>

\* registerNetwork, past its town check and its lease (module Travel).
StartJoin(w, p) ==
  /\ "join" \in Calls
  /\ \E e \in Essids :
       Begin(w, [NoCall EXCEPT !.op = "join", !.player = p, !.essid = e,
                   !.step = "others"])
  /\ UNCHANGED <<rows, occupants, boots>>

\* A box on no other network has no connection to drop.
DeleteOtherOccupancies(w) ==
  LET call == calls[w]
      left == {o \in occupants : o[2] = call.player /\ o[1] # call.essid}
  IN /\ call.step = "others"
     /\ occupants' = occupants \ left
     /\ IF left = {} THEN Goto(w, "occupy")
        ELSE calls' = [calls EXCEPT ![w].step = "visitors", ![w].stamp = Cardinality(Inserted)]
     /\ UNCHANGED <<rows, boots>>

UpsertOccupant(w) ==
  /\ calls[w].step = "occupy"
  /\ occupants' = occupants \cup {<<calls[w].essid, calls[w].player>>}
  /\ Done(w)
  /\ UNCHANGED <<rows, boots>>

\* Boarding a ride takes the box off every network, and drops what ran through
\* it; the fare and the move itself are module Travel's.
DeleteOccupancies(w, p) ==
  LET left == {o \in occupants : o[2] = p} IN
  /\ "board" \in Calls
  /\ left # {}
  /\ occupants' = occupants \ left
  /\ Begin(w, [NoCall EXCEPT !.op = "board", !.player = p,
                 !.stamp = Cardinality(Inserted), !.step = "visitors"])
  /\ UNCHANGED <<rows, boots>>

\* The response: a listing's rows, less those its walk closed, or an ok.
Answer(w) ==
  /\ calls[w].step = "answer"
  /\ Done(w)
  /\ UNCHANGED <<rows, occupants, boots>>

\* The request dies before its next call: a database error answered 500, or the
\* function is cut off.  What it wrote stays written.
Fail(w) ==
  /\ "fail" \in Calls
  /\ calls[w].step # "idle"
  /\ Done(w)
  /\ UNCHANGED <<rows, occupants, boots>>

-----------------------------------------------------------------------------
Continue(w) ==
  \/ Resolve(w) \/ Insert(w)
  \/ EndSessionsAbove(w) \/ EndMachineSessions(w) \/ WriteBootId(w)
  \/ EndVisitorSessions(w) \/ EndOwnSessionsAway(w)
  \/ FindEndedSessions(w) \/ Answer(w)
  \/ DeleteOtherOccupancies(w) \/ UpsertOccupant(w)

Start(w, p) ==
  \/ StartLogin(w, p) \/ StartSu(w, p) \/ StartReboot(w, p) \/ ListSessions(w, p)
  \/ DeleteOccupant(w, p) \/ DeleteOccupancies(w, p) \/ StartJoin(w, p)

Next ==
  \/ \E p \in Players : CreateSession(p) \/ EndSession(p)
  \/ \E w \in Workers, p \in Players : Start(w, p)
  \/ \E w \in Workers : Continue(w) \/ Fail(w)

Spec == Init /\ [][Next]_vars

\* A request that is not cut off runs to its answer, and a player who comes back
\* lists their sessions: the client does so whenever its page loads.
Fairness ==
  /\ \A w \in Workers : WF_vars(Continue(w))
  /\ \A p \in Players : SF_vars(\E w \in Workers : ListSessions(w, p))

FairSpec == Spec /\ Fairness

-----------------------------------------------------------------------------
(* Types.                                                                  *)

TypeOK ==
  /\ rows \in [Ids -> Row]
  /\ IsFiniteSet(Inserted)
  /\ occupants \subseteq Essids \X Players
  /\ boots \in [Boxes -> Nat]
  /\ calls \in [Workers -> Call]

-----------------------------------------------------------------------------
(* What the tables promise.                                                *)

\* A reboot tells the terminals on a box (its boot id changes) only once every
\* row that stood there when it was authorised has ended: rebootBox's order.
RebootEvictsBeforeItTells ==
  [][\A w \in Workers, i \in Ids :
       /\ calls[w].step = "marker"
       /\ boots'[calls[w].box] # boots[calls[w].box]
       /\ rows[i].box = calls[w].box
       /\ rows[i].born \in 1 .. calls[w].stamp
       => rows[i].state = "ended"]_vars

\* A handler that took a box off its network goes on (to its answer, or to
\* putting the box on the new network) only once every connection that ran
\* through the box when its occupancy went is closed, both ways:
\* dropConnectionsThrough's promise.
RunsThrough(i, p) == i \in Open /\ (rows[i].box = p) # (rows[i].player = p)

DropsWhatItLeft ==
  \A w \in Workers, i \in Ids :
    /\ calls[w].op \in {"leave", "join", "board"}
    /\ calls[w].step \in {"cascade", "occupy", "answer"}
    /\ rows[i].born \in 1 .. calls[w].stamp
    => ~RunsThrough(i, calls[w].player)

\* The table keeps the promise of SessionLife: every row opens once and closes
\* once, for a true reason, whatever the handlers in flight do to each other.
Life == INSTANCE SessionLife WITH Players <- Players, Boxes <- Boxes, Ids <- Ids, None <- None,
                                  rows <- rows
RowsKeepTheirPromise == Life!Spec

\* A walk up the chains runs down: each of its calls leaves it less to do, a ring of
\* named parents included, and nobody leaves it more but by inserting a row, which a
\* rung or two more may close.  The loop has no bound of its own (upstreamLost.ts:59):
\* it ends unless rows are inserted above it for as long as it walks.
LeftToWalk(w) ==
  2 * (Cardinality(Open) + Cardinality(calls[w].todo))
  + (IF calls[w].rung = {} THEN 0 ELSE 1)

CascadesRunDown ==
  [][\A w \in Workers :
       calls[w].step = "cascade" /\ calls'[w].step = "cascade"
       => /\ LeftToWalk(w)' <= LeftToWalk(w) + 2 * Cardinality(Inserted' \ Inserted)
          /\ calls'[w] # calls[w] => LeftToWalk(w)' < LeftToWalk(w)]_vars

\* A chain left half broken, by a cascade that lost a race or by an exit below
\* it, is mended by a later listing: no open row stands on an ended one forever.
Orphaned(i) ==
  i \in Open /\ \E j \in Ended : rows[i].parent = j /\ rows[j].player = rows[i].player

BrokenChainsMended == \A i \in Ids : Orphaned(i) ~> ~Orphaned(i)

-----------------------------------------------------------------------------
(* What comments in the code say of the handlers, and TLC refutes.         *)

\* unregisterOccupant.ts: the row is deleted first, so nobody can log in between
\* the two steps and keep a session the disconnect was meant to end.  With the
\* box on no network and no handler still sweeping, no visitor has a shell on it.
NoVisitorAfterLeave ==
  \A i \in Open :
    rows[i].box \in Players /\ rows[i].player # rows[i].box
    => \/ \E e \in Essids : <<e, rows[i].box>> \in occupants
       \/ \E w \in Workers : calls[w].player = rows[i].box /\ calls[w].step = "visitors"

\* unregisterOccupant.ts: a disconnect that left a visitor's row open must be
\* loud, not tell the owner they are clear.
ToldClearIsClear ==
  \A w \in Workers :
    calls[w].op = "leave" /\ calls[w].step = "answer"
    => \A i \in Open : rows[i].box = calls[w].player => rows[i].player = calls[w].player
=============================================================================
