------------------------------- MODULE MCMail -------------------------------
(* Three requests of two players about one mailbox in use, two names that   *)
(* are free, and a thread.                                                  *)
EXTENDS Mail, Sequences

AskOf(op, p, h, w, to, n, new, d) ==
  [op |-> op, player |-> p, handle |-> h, password |-> w, to |-> to, number |-> n,
   new |-> new, thread |-> d]

\* By the mailbox's owner p, by q who knows its password too, and by a
\* guesser: signing up, reading and deleting, writing, changing the password.
Menu ==
  << AskOf("signup", "p", "c", "x", "c", 1, "x", 1),
     AskOf("signup", "p", "d", "x", "d", 1, "x", 1),
     AskOf("signup", "q", "c", "y", "c", 1, "y", 1),
     AskOf("inbox", "p", "a", "z", "a", 1, "x", 1),
     AskOf("read", "p", "a", "x", "a", 1, "x", 1),
     AskOf("delete", "q", "a", "x", "a", 1, "x", 1),
     AskOf("delete", "p", "a", "x", "a", 2, "x", 1),
     AskOf("send", "p", "a", "x", "a", 1, "x", 1),
     AskOf("send", "q", "a", "x", "a", 1, "x", 1),
     AskOf("send", "p", "a", "x", "c", 1, "x", 1),
     AskOf("send", "p", "c", "x", "a", 1, "x", 1),
     AskOf("passwd", "p", "a", "x", "a", 1, "y", 1),
     AskOf("passwd", "q", "a", "x", "a", 1, "z", 1),
     AskOf("passwd", "p", "c", "x", "a", 1, "y", 1),
     AskOf("passwd", "q", "c", "x", "a", 1, "z", 1),
     AskOf("reply", "p", "a", "x", "a", 1, "x", 1),
     AskOf("proof", "p", "a", "x", "a", 1, "x", 1),
     AskOf("post", "p", "a", "x", "a", 1, "x", 1),
     AskOf("comment", "p", "a", "x", "a", 1, "x", 1),
     AskOf("comment", "q", "a", "x", "a", 1, "x", 1),
     AskOf("comment", "q", "a", "x", "a", 1, "x", 2),
     AskOf("removeThread", "p", "a", "x", "a", 1, "x", 1),
     AskOf("wipeComment", "p", "a", "x", "a", 1, "x", 1) >>

\* The requests differ in nothing but what they ask, so one order of each
\* choice of three stands for all.
MCTxs == 1..3
MCAskings ==
  {[t \in MCTxs |-> Menu[picks[t]]] :
     picks \in {ps \in [MCTxs -> 1..Len(Menu)] : ps[1] <= ps[2] /\ ps[2] <= ps[3]}}

MCHandles == {"a", "c", "d"}
MCPlayers == {"p", "q"}
MCPasswords == {"x", "y", "z"}
MCThreads == 1..4
MCSettled == {"a"}
MCBirth == [h \in MCSettled |-> "x"]
MCStarted == {1}
=============================================================================
