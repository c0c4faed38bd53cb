---------------------------- MODULE MCContracts ----------------------------
(* Boards of two slots, two contractors, two clients, and up to three        *)
(* requests at once about what one of four records holds.                    *)
EXTENDS Contracts, Sequences

AskOf(op, h, n, c, k, w) ==
  [op |-> op, handle |-> h, number |-> n, client |-> c, key |-> k, wallet |-> w]

Menu ==
  << AskOf("board", "a", None, "c", None, FALSE),
     AskOf("accept", "a", "n1", "c", None, FALSE),
     AskOf("accept", "a", "n2", "c", None, FALSE),
     AskOf("drop", "a", None, "c", None, FALSE),
     AskOf("mail", "a", None, "c", "n1", TRUE),
     AskOf("mail", "a", None, "c", "n1", FALSE),
     AskOf("mail", "a", None, "c", None, FALSE),
     AskOf("mail", "a", None, "c", "wrong", TRUE),
     AskOf("mail", "a", None, "d", "n2", TRUE),
     AskOf("opAccept", "a", "n3", "c", None, FALSE),
     AskOf("opAccept", "b", None, "c", None, FALSE),
     AskOf("opDrop", "a", None, "c", None, FALSE),
     AskOf("opPost", "a", None, "c", None, FALSE),
     AskOf("board", "b", None, "c", None, FALSE),
     AskOf("apply", "a", None, "c", None, FALSE),
     AskOf("apply", "b", None, "c", None, FALSE) >>

\* Any two of them, with a right mail or a job dropped at the desk beside.
MCTxs == 1..3
MCAskings ==
  {[t \in MCTxs |-> Menu[picks[t]]] :
     picks \in {ps \in [MCTxs -> 1..Len(Menu)] : ps[1] <= ps[2] /\ ps[3] \in {5, 12}}}

MCHandles == {"a", "b"}
MCNumbers == {"n1", "n2", "n3"}
MCClientOf == [n \in MCNumbers |-> IF n = "n2" THEN "d" ELSE "c"]

RecordOf(st, ls) ==
  [status |-> st, holder |-> [n \in MCNumbers |-> IF st[n] = "none" THEN None ELSE "a"],
   listed |-> ls, board |-> [h \in MCHandles |-> IF h = "a" /\ ls # {} THEN "x" ELSE None]]

\* Nothing yet; two offers; one of them taken; a job done and the next taken.
MCRecords ==
  {RecordOf([n \in MCNumbers |-> "none"], {}),
   RecordOf([n1 |-> "offered", n2 |-> "offered", n3 |-> "none"], {"n1", "n2"}),
   RecordOf([n1 |-> "accepted", n2 |-> "offered", n3 |-> "none"], {"n1", "n2"}),
   RecordOf([n1 |-> "completed", n2 |-> "accepted", n3 |-> "none"], {"n1", "n2"})}
=============================================================================
