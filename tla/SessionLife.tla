----------------------------- MODULE SessionLife -----------------------------
(***************************************************************************)
(* What a sessions row promises whoever reads it, whatever the handlers    *)
(* are doing: it opens once, closes once, and the reason it closed for is  *)
(* true and is never rewritten.                                            *)
(***************************************************************************)
CONSTANTS Players, Boxes, Ids, None

VARIABLE rows

Open == {i \in Ids : rows[i].state = "open"}
Ended == {i \in Ids : rows[i].state = "ended"}

Init == \A i \in Ids : rows[i].state = "absent"

OpenRow(i) ==
  /\ rows[i].state = "absent"
  /\ rows'[i].state = "open"
  /\ rows'[i].reason = None
  /\ \A j \in Ids \ {i} : rows'[j] = rows[j]

\* A row closes with its owner and parent as they were, for one reason.
End(which, reason) ==
  \A i \in Ids :
    IF i \in which
      THEN /\ rows'[i].state = "ended"
           /\ rows'[i].reason = reason
           /\ rows'[i].player = rows[i].player
           /\ rows'[i].parent = rows[i].parent
      ELSE rows'[i] = rows[i]

\* The player closes one of their rows.
Exit(i) == i \in Open /\ End({i}, "exit")

\* A box goes down: every open row on it ends in one step, whoever holds it.
BoxDown(b) == End({i \in Open : rows[i].box = b}, "rebooted")

\* A player's box leaves its network: other players' rows on it end, or the
\* player's rows elsewhere do, but never the player's rows on their own box.
VisitorsOut(p) == End({i \in Open : rows[i].box = p /\ rows[i].player # p}, "network_left")
OwnerAway(p) == End({i \in Open : rows[i].player = p /\ rows[i].box # p}, "network_left")

\* A chain breaks: open rows of one player, each standing on an ended row of
\* that same player.
Broken(p) ==
  {i \in Open : /\ rows[i].player = p
                /\ \E j \in Ended : rows[i].parent = j /\ rows[j].player = p}
ChainBreaks(p) == \E which \in SUBSET Broken(p) : End(which, "upstream_lost")

Next ==
  \/ \E i \in Ids : OpenRow(i) \/ Exit(i)
  \/ \E b \in Boxes : BoxDown(b)
  \/ \E p \in Players : VisitorsOut(p) \/ OwnerAway(p) \/ ChainBreaks(p)

Spec == Init /\ [][Next]_rows
=============================================================================
