-------------------------------- MODULE Mail --------------------------------
(***************************************************************************)
(* emailit.io's accounts and mailboxes, and talkit.io's threads, which     *)
(* borrow its logins: the email_* and talkit_* functions as PostgreSQL     *)
(* runs them at READ COMMITTED.                                            *)
(*                                                                         *)
(* A transaction is one request.  Each of its statements reads what was    *)
(* committed when it began and waits for the row or the advisory lock it   *)
(* must take; what it wrote appears when it commits, which its last step   *)
(* does, and no other transaction could tell sooner, because its rows are  *)
(* locked until then.  The windows of the four caps age between looks.     *)
(***************************************************************************)
EXTENDS Naturals, FiniteSets

CONSTANTS
  Handles,     \* mailbox names
  Players,     \* public keys
  Passwords,   \* md5s of passwords
  Threads,     \* thread ids the forum may hand out
  Txs,         \* the requests in flight together
  Askings,     \* what they may ask between them
  Settled,     \* the handles signed up before the requests begin
  Birth,       \* the password each of them has then
  Started,     \* the threads up before the requests begin
  MailboxCap,  \* 100 messages
  MaxFailures, \* 5 wrong passwords a minute
  MaxSends,    \* 20 mails an hour
  MaxSignups,  \* 3 accounts a day
  MaxWrites,   \* 20 posts and comments an hour
  None         \* no account, no holder

\* to, number, new and thread are read by the operations that name one.
Ops == {"signup", "inbox", "read", "delete", "send", "passwd", "reply", "proof",
        "post", "comment", "removeThread", "wipeComment"}
Ask == [op: Ops, player: Players, handle: Handles, password: Passwords, to: Handles,
        number: Nat, new: Passwords, thread: Threads]

ASSUME AskingsAssumption == Askings \subseteq [Txs -> Ask]
ASSUME SettledAssumption ==
  /\ Settled \subseteq Handles
  /\ Birth \in [Settled -> Passwords]
  /\ Threads \subseteq Nat
  /\ Started \subseteq Threads
ASSUME CapsAssumption ==
  /\ MailboxCap \in Nat /\ MaxFailures \in Nat /\ MaxSends \in Nat
  /\ MaxSignups \in Nat /\ MaxWrites \in Nat

\* The advisory locks are keyed by player, the row locks by the row.
Locks == ({"row"} \X Handles) \cup ({"thread"} \X Threads)
           \cup ({"signup", "login", "send", "write"} \X Players)

ASSUME NoneAssumption == None \notin Passwords /\ None \notin Txs /\ None \notin Locks

Message == [number: Nat, system: BOOLEAN, read: BOOLEAN]
Comment == [number: Nat, wiped: BOOLEAN]

VARIABLES
  password,  \* email_accounts: each handle's hash, None with no account
  next,      \* next_number of each account
  inbox,     \* email_messages of each account
  arrivals,  \* every message ever delivered: the mailbox, the number, the request
  fails,     \* email_login_failures of each player, not yet too old to count
  sends,     \* email_sends, likewise
  signups,   \* the accounts a player signed up for, likewise
  writes,    \* talkit_writes, likewise
  forum,     \* talkit_threads: whether each id is unused, up or gone
  count,     \* comment_count of each thread
  comments,  \* talkit_comments of each thread
  locks,     \* the transaction holding each lock
  asked,     \* what each transaction was asked
  step,      \* the statement it runs next
  taken      \* the number it read under a row's lock

mail == <<password, next, inbox, arrivals>>
talk == <<forum, count, comments>>
rates == <<fails, sends, signups, writes>>
vars == <<password, next, inbox, arrivals, fails, sends, signups, writes, forum, count,
          comments, locks, asked, step, taken>>

\* Mutant: the client's reply is counted as a send, once its mailbox is locked.
ReplyCounted(op, s) ==
  CASE s = "begin" -> (CASE op = "signup" -> "signup"
                         [] op = "passwd" -> "own"
                         [] op = "reply" -> "mailbox"
                         [] op \in {"removeThread", "wipeComment"} -> op
                         [] OTHER -> "login")
    [] s = "signup" -> "insert"
    [] s = "own" -> "login"
    [] s = "login" -> "compare"
    [] s = "compare" -> (CASE op \in {"inbox", "read", "delete"} -> "act"
                           [] op = "passwd" -> "change"
                           [] op \in {"send", "proof"} -> "count"
                           [] OTHER -> "write")
    [] s = "count" -> (CASE op = "proof" -> "jobs"
                         [] op = "reply" -> "deliver"
                         [] OTHER -> "mailbox")
    [] s = "mailbox" -> (IF op = "reply" THEN "count" ELSE "deliver")
    [] s = "write" -> (IF op = "post" THEN "post" ELSE "bump")
    [] s = "bump" -> "put"

\* The order of a function's statements: of email_send and hireme_proof_open, and of
\* every other function the order in which its own statements, below, stand in it.
After(op, s) ==
  CASE s = "begin" -> (CASE op = "signup" -> "signup"
                         [] op = "passwd" -> "own"
                         [] op = "reply" -> "mailbox"
                         [] op \in {"removeThread", "wipeComment"} -> op
                         [] OTHER -> "login")
    [] s = "signup" -> "insert"
    [] s = "own" -> "login"
    [] s = "login" -> "compare"
    [] s = "compare" -> (CASE op \in {"inbox", "read", "delete"} -> "act"
                           [] op = "passwd" -> "change"
                           [] op \in {"send", "proof"} -> "count"
                           [] OTHER -> "write")
    [] s = "count" -> (IF op = "proof" THEN "jobs" ELSE "mailbox")
    [] s = "mailbox" -> "deliver"
    [] s = "write" -> (IF op = "post" THEN "post" ELSE "bump")
    [] s = "bump" -> "put"

Welcome == [number |-> 1, system |-> TRUE, read |-> FALSE]

Init ==
  /\ password = [h \in Handles |-> IF h \in Settled THEN Birth[h] ELSE None]
  /\ next = [h \in Handles |-> IF h \in Settled THEN 2 ELSE 1]
  /\ inbox = [h \in Handles |-> IF h \in Settled THEN {Welcome} ELSE {}]
  /\ arrivals = {<<h, 1, None>> : h \in Settled}
  /\ fails = [p \in Players |-> 0]
  /\ sends = [p \in Players |-> 0]
  /\ signups = [p \in Players |-> 0]
  /\ writes = [p \in Players |-> 0]
  /\ forum = [d \in Threads |-> IF d \in Started THEN "up" ELSE "unused"]
  /\ count = [d \in Threads |-> 0]
  /\ comments = [d \in Threads |-> {}]
  /\ locks = [l \in Locks |-> None]
  /\ asked \in Askings
  /\ step = [t \in Txs |-> After(asked[t].op, "begin")]
  /\ taken = [t \in Txs |-> 0]

-----------------------------------------------------------------------------
Player(t) == asked[t].player
Box(t) == IF asked[t].op = "reply" THEN asked[t].handle ELSE asked[t].to
Open(h) == password[h] # None

\* The lock a transaction's next statement takes; None when it takes none,
\* or when the row it would lock is not there.
Wants(t) ==
  CASE step[t] \in {"signup", "login", "write"} -> <<step[t], Player(t)>>
    [] step[t] = "count" -> <<"send", Player(t)>>
    [] step[t] \in {"own", "change"} /\ Open(asked[t].handle) -> <<"row", asked[t].handle>>
    [] step[t] = "mailbox" /\ Open(Box(t)) -> <<"row", Box(t)>>
    [] step[t] \in {"bump", "removeThread"} /\ forum[asked[t].thread] = "up"
         -> <<"thread", asked[t].thread>>
    [] OTHER -> None

Waits(t) == Wants(t) # None /\ locks[Wants(t)] \notin {None, t}

\* A deadlock: each of these transactions waits for another of them.
Ring(ts) == ts # {} /\ \A t \in ts : Waits(t) /\ locks[Wants(t)] \in ts

\* A statement that takes its lock and goes on to the next.
Proceed(t) ==
  /\ locks' = IF Wants(t) = None THEN locks ELSE [locks EXCEPT ![Wants(t)] = t]
  /\ step' = [step EXCEPT ![t] = After(asked[t].op, step[t])]

\* Mutant: the advisory locks are the session's, and outlive the transaction.
EndKeepingKeys(t, s) ==
  /\ locks' = [l \in Locks |->
                 IF locks[l] = t /\ l[1] \in {"row", "thread"} THEN None ELSE locks[l]]
  /\ step' = [step EXCEPT ![t] = s]
  /\ taken' = [taken EXCEPT ![t] = 0]

\* The end of a transaction, by commit or rollback, releases its locks.
End(t, s) ==
  /\ locks' = [l \in Locks |-> IF locks[l] = t THEN None ELSE locks[l]]
  /\ step' = [step EXCEPT ![t] = s]
  /\ taken' = [taken EXCEPT ![t] = 0]

\* The message leaves the mailbox's next number for the one after it.
Deliver(t, h, number, system) ==
  /\ inbox' = [inbox EXCEPT ![h] =
                 @ \cup {[number |-> number, system |-> system, read |-> FALSE]}]
  /\ arrivals' = arrivals \cup {<<h, number, t>>}

-----------------------------------------------------------------------------
(* email_signup.  An account and its welcome appear together.               *)
SignupCount(t) ==
  /\ step[t] = "signup" /\ ~Waits(t)
  /\ \E kept \in 0..signups[Player(t)] :
       /\ signups' = [signups EXCEPT ![Player(t)] = kept]
       /\ IF kept >= MaxSignups
            THEN End(t, "done")
            ELSE Proceed(t) /\ UNCHANGED taken
  /\ UNCHANGED <<mail, talk, fails, sends, writes, asked>>

SignupInsert(t) ==
  LET h == asked[t].handle IN
  /\ step[t] = "insert"
  /\ IF Open(h)
       THEN UNCHANGED <<mail, signups>>
       ELSE /\ password' = [password EXCEPT ![h] = asked[t].password]
            /\ next' = [next EXCEPT ![h] = 2]
            /\ Deliver(t, h, 1, TRUE)
            /\ signups' = [signups EXCEPT ![Player(t)] = @ + 1]
  /\ End(t, "done")
  /\ UNCHANGED <<talk, fails, sends, writes, asked>>

-----------------------------------------------------------------------------
\* Mutant: the failures are counted without the lock on the player's key.
ThrottleUnlocked(t) ==
  /\ step[t] = "login"
  /\ \E kept \in 0..fails[Player(t)] :
       /\ fails' = [fails EXCEPT ![Player(t)] = kept]
       /\ IF kept >= MaxFailures
            THEN End(t, "done")
            ELSE /\ step' = [step EXCEPT ![t] = After(asked[t].op, "login")]
                 /\ UNCHANGED <<locks, taken>>
  /\ UNCHANGED <<mail, talk, sends, signups, writes, asked>>

(* email_check_password, shared by all that log in.                         *)
Throttle(t) ==
  /\ step[t] = "login" /\ ~Waits(t)
  /\ \E kept \in 0..fails[Player(t)] :
       /\ fails' = [fails EXCEPT ![Player(t)] = kept]
       /\ IF kept >= MaxFailures
            THEN End(t, "done")
            ELSE Proceed(t) /\ UNCHANGED taken
  /\ UNCHANGED <<mail, talk, sends, signups, writes, asked>>

Compare(t) ==
  /\ step[t] = "compare"
  /\ IF password[asked[t].handle] = asked[t].password
       THEN Proceed(t) /\ UNCHANGED <<taken, fails>>
       ELSE /\ fails' = [fails EXCEPT ![Player(t)] = @ + 1]
            /\ End(t, "done")
  /\ UNCHANGED <<mail, talk, sends, signups, writes, asked>>

(* email_inbox, email_read with its mark, email_delete.                     *)
Act(t) ==
  LET h == asked[t].handle
      named == {m \in inbox[h] : m.number = asked[t].number}
  IN
  /\ step[t] = "act"
  /\ inbox' = [inbox EXCEPT ![h] =
       CASE asked[t].op = "read" -> (@ \ named) \cup {[m EXCEPT !.read = TRUE] : m \in named}
         [] asked[t].op = "delete" -> @ \ named
         [] OTHER -> @]
  /\ End(t, "done")
  /\ UNCHANGED <<password, next, arrivals, talk, rates, asked>>

\* Mutant: the account's row is read without FOR UPDATE.
ReadOwn(t) ==
  /\ step[t] = "own"
  /\ step' = [step EXCEPT ![t] = After(asked[t].op, "own")]
  /\ UNCHANGED <<mail, talk, rates, locks, asked, taken>>

(* email_passwd locks the account's row before the check.  A row that is    *)
(* not there yet is not locked, and the UPDATE then waits for it itself.    *)
LockOwn(t) ==
  /\ step[t] = "own" /\ ~Waits(t)
  /\ Proceed(t)
  /\ UNCHANGED <<mail, talk, rates, asked, taken>>

Change(t) ==
  /\ step[t] = "change" /\ ~Waits(t)
  /\ password' = [password EXCEPT ![asked[t].handle] = asked[t].new]
  /\ End(t, "done")
  /\ UNCHANGED <<next, inbox, arrivals, talk, rates, asked>>

-----------------------------------------------------------------------------
(* email_count_send; the send it counts commits with the rest.              *)
CountSend(t) ==
  /\ step[t] = "count" /\ ~Waits(t)
  /\ \E kept \in 0..sends[Player(t)] :
       /\ sends' = [sends EXCEPT ![Player(t)] = kept]
       /\ IF kept >= MaxSends
            THEN End(t, "done")
            ELSE Proceed(t) /\ UNCHANGED taken
  /\ UNCHANGED <<mail, talk, fails, signups, writes, asked>>

\* hireme_proof_open ends once it has listed the jobs.
ListJobs(t) ==
  /\ step[t] = "jobs"
  /\ sends' = [sends EXCEPT ![Player(t)] = @ + 1]
  /\ End(t, "done")
  /\ UNCHANGED <<mail, talk, fails, signups, writes, asked>>

Sent(t) == IF asked[t].op = "send" THEN [sends EXCEPT ![Player(t)] = @ + 1] ELSE sends

\* Mutant: the cap is tested with > where >= is meant.
OverFull(h) == Cardinality(inbox[h]) > MailboxCap

Full(h) == Cardinality(inbox[h]) >= MailboxCap

\* Mutant: the recipient's row is read without FOR UPDATE.
ReadMailbox(t) ==
  /\ step[t] = "mailbox"
  /\ IF ~Open(Box(t)) \/ (asked[t].op = "send" /\ Full(Box(t)))
       THEN /\ sends' = Sent(t)
            /\ End(t, "done")
       ELSE /\ taken' = [taken EXCEPT ![t] = next[Box(t)]]
            /\ step' = [step EXCEPT ![t] = After(asked[t].op, "mailbox")]
            /\ UNCHANGED <<sends, locks>>
  /\ UNCHANGED <<mail, talk, fails, signups, writes, asked>>

\* Mutant: a message is numbered by how many the mailbox holds.
NumberByCount(t) ==
  /\ step[t] = "mailbox" /\ ~Waits(t)
  /\ IF ~Open(Box(t)) \/ (asked[t].op = "send" /\ Full(Box(t)))
       THEN /\ sends' = Sent(t)
            /\ End(t, "done")
       ELSE /\ taken' = [taken EXCEPT ![t] = Cardinality(inbox[Box(t)]) + 1]
            /\ Proceed(t)
            /\ UNCHANGED sends
  /\ UNCHANGED <<mail, talk, fails, signups, writes, asked>>

\* A bounce is a send and counts.  System mail does not look at the cap.
LockMailbox(t) ==
  /\ step[t] = "mailbox" /\ ~Waits(t)
  /\ IF ~Open(Box(t)) \/ (asked[t].op = "send" /\ Full(Box(t)))
       THEN /\ sends' = Sent(t)
            /\ End(t, "done")
       ELSE /\ taken' = [taken EXCEPT ![t] = next[Box(t)]]
            /\ Proceed(t)
            /\ UNCHANGED sends
  /\ UNCHANGED <<mail, talk, fails, signups, writes, asked>>

\* email_messages' UNIQUE (handle, number) refuses a number that is there.
DeliverMail(t) ==
  LET h == Box(t) IN
  /\ step[t] = "deliver"
  /\ IF \E m \in inbox[h] : m.number = taken[t]
       THEN /\ End(t, "collided")
            /\ UNCHANGED <<mail, sends>>
       ELSE /\ Deliver(t, h, taken[t], asked[t].op = "reply")
            /\ next' = [next EXCEPT ![h] = @ + 1]
            /\ sends' = Sent(t)
            /\ End(t, "done")
            /\ UNCHANGED password
  /\ UNCHANGED <<talk, fails, signups, writes, asked>>

-----------------------------------------------------------------------------
(* talkit_post and talkit_comment share one count.                          *)
CountWrite(t) ==
  /\ step[t] = "write" /\ ~Waits(t)
  /\ \E kept \in 0..writes[Player(t)] :
       /\ writes' = [writes EXCEPT ![Player(t)] = kept]
       /\ IF kept >= MaxWrites
            THEN End(t, "done")
            ELSE Proceed(t) /\ UNCHANGED taken
  /\ UNCHANGED <<mail, talk, fails, sends, signups, asked>>

Post(t) ==
  /\ step[t] = "post"
  /\ \E d \in Threads :
       /\ forum[d] = "unused" /\ \A e \in Threads : forum[e] = "unused" => d <= e
       /\ forum' = [forum EXCEPT ![d] = "up"]
  /\ writes' = [writes EXCEPT ![Player(t)] = @ + 1]
  /\ End(t, "done")
  /\ UNCHANGED <<mail, count, comments, fails, sends, signups, asked>>

\* The UPDATE that counts a comment locks the thread and numbers it.
Bump(t) ==
  LET d == asked[t].thread IN
  /\ step[t] = "bump" /\ ~Waits(t)
  /\ IF forum[d] # "up"
       THEN End(t, "done")
       ELSE /\ taken' = [taken EXCEPT ![t] = count[d] + 1]
            /\ Proceed(t)
  /\ UNCHANGED <<mail, talk, rates, asked>>

PutComment(t) ==
  LET d == asked[t].thread IN
  /\ step[t] = "put"
  /\ IF \E c \in comments[d] : c.number = taken[t]
       THEN /\ End(t, "collided")
            /\ UNCHANGED <<talk, writes>>
       ELSE /\ comments' = [comments EXCEPT ![d] =
                              @ \cup {[number |-> taken[t], wiped |-> FALSE]}]
            /\ count' = [count EXCEPT ![d] = taken[t]]
            /\ writes' = [writes EXCEPT ![Player(t)] = @ + 1]
            /\ End(t, "done")
            /\ UNCHANGED forum
  /\ UNCHANGED <<mail, fails, sends, signups, asked>>

\* The operator's removals: a thread takes its comments with it, a comment
\* keeps its row and its number.
RemoveThread(t) ==
  LET d == asked[t].thread IN
  /\ step[t] = "removeThread" /\ ~Waits(t)
  /\ IF forum[d] = "up"
       THEN /\ forum' = [forum EXCEPT ![d] = "gone"]
            /\ comments' = [comments EXCEPT ![d] = {}]
       ELSE UNCHANGED <<forum, comments>>
  /\ End(t, "done")
  /\ UNCHANGED <<mail, count, rates, asked>>

\* Mutant: a removed comment's row is deleted.
DeleteComment(t) ==
  LET d == asked[t].thread IN
  /\ step[t] = "wipeComment"
  /\ comments' = [comments EXCEPT ![d] = {c \in @ : c.number # asked[t].number}]
  /\ End(t, "done")
  /\ UNCHANGED <<mail, forum, count, rates, asked>>

\* Mutant: a removed comment loses its number with its author and body.
WipeNumber(t) ==
  LET d == asked[t].thread IN
  /\ step[t] = "wipeComment"
  /\ comments' = [comments EXCEPT ![d] =
       {IF c.number = asked[t].number THEN [number |-> None, wiped |-> TRUE] ELSE c : c \in @}]
  /\ End(t, "done")
  /\ UNCHANGED <<mail, forum, count, rates, asked>>

WipeComment(t) ==
  LET d == asked[t].thread IN
  /\ step[t] = "wipeComment"
  /\ comments' = [comments EXCEPT ![d] =
       {IF c.number = asked[t].number THEN [c EXCEPT !.wiped = TRUE] ELSE c : c \in @}]
  /\ End(t, "done")
  /\ UNCHANGED <<mail, forum, count, rates, asked>>

-----------------------------------------------------------------------------
\* PostgreSQL's deadlock detector rolls one transaction of a ring back.
Detect(t) ==
  /\ Waits(t)
  /\ \E ts \in {us \in SUBSET Txs : t \in us} : Ring(ts)
  /\ End(t, "done")
  /\ UNCHANGED <<mail, talk, rates, asked>>

\* A statement fails or its connection drops, and the transaction rolls back.
Lost(t) ==
  /\ step[t] \notin {"done", "collided"}
  /\ End(t, "done")
  /\ UNCHANGED <<mail, talk, rates, asked>>

Step(t) ==
  \/ SignupCount(t) \/ SignupInsert(t)
  \/ Throttle(t) \/ Compare(t) \/ Act(t)
  \/ LockOwn(t) \/ Change(t)
  \/ CountSend(t) \/ ListJobs(t) \/ LockMailbox(t) \/ DeliverMail(t)
  \/ CountWrite(t) \/ Post(t) \/ Bump(t) \/ PutComment(t)
  \/ RemoveThread(t) \/ WipeComment(t)

Next == \E t \in Txs : Step(t) \/ Detect(t) \/ Lost(t)

\* PostgreSQL runs a statement that is not waiting, and looks for deadlocks.
Fairness == \A t \in Txs : WF_vars(Step(t) \/ Detect(t))

Spec == Init /\ [][Next]_vars

FairSpec == Spec /\ Fairness

-----------------------------------------------------------------------------
Steps == {"signup", "insert", "login", "compare", "act", "own", "change", "count", "jobs",
          "mailbox", "deliver", "write", "post", "bump", "put", "removeThread",
          "wipeComment", "done", "collided"}

TypeOK ==
  /\ password \in [Handles -> Passwords \cup {None}]
  /\ next \in [Handles -> Nat]
  /\ inbox \in [Handles -> SUBSET Message]
  /\ arrivals \subseteq Handles \X Nat \X (Txs \cup {None})
  /\ fails \in [Players -> Nat] /\ sends \in [Players -> Nat]
  /\ signups \in [Players -> Nat] /\ writes \in [Players -> Nat]
  /\ forum \in [Threads -> {"unused", "up", "gone"}]
  /\ count \in [Threads -> Nat]
  /\ comments \in [Threads -> SUBSET Comment]
  /\ locks \in [Locks -> Txs \cup {None}]
  /\ asked \in [Txs -> Ask]
  /\ step \in [Txs -> Steps]
  /\ taken \in [Txs -> Nat]

\* A number of a mailbox is given to one message, ever, whatever is deleted
\* and however the senders interleave (email.sql:11-13).
EveryNumberOnce ==
  \A a, b \in arrivals : a[1] = b[1] /\ a[2] = b[2] => a = b

\* No delivery and no comment finds the number it read under the lock taken:
\* two at once queue for two numbers (email_sending.sql:37-39,
\* talkit_comment.sql:4-8).
NoneCollides == \A t \in Txs : step[t] # "collided"

\* No player, however many requests they send at once and from whichever
\* handles, passes one of the four caps (email.sql:25-27,
\* email_reading.sql:16-18, hireme_completion.sql:7-12, talkit_post.sql:22-26).
RatesHold ==
  \A p \in Players : /\ fails[p] <= MaxFailures
                     /\ sends[p] <= MaxSends
                     /\ signups[p] <= MaxSignups
                     /\ writes[p] <= MaxWrites

\* The comments of a thread are numbered 1 to its comment_count with none
\* left out, so that "see #4" means the same comment for good
\* (talkit_comment.sql:4-8, talkit_removal.sql:8-11).
CommentsCountUp ==
  \A d \in Threads :
    /\ forum[d] = "up" => {c.number : c \in comments[d]} = 1..count[d]
    /\ \A c, e \in comments[d] : c.number = e.number => c = e

\* PostgreSQL has a deadlock to break only when a password change is in it:
\* it holds its mailbox's row before it asks for its player's login lock, and
\* every other function takes its locks in one order.
OnlyPasswdDeadlocks ==
  \A ts \in SUBSET Txs : Ring(ts) => \E t \in ts : asked[t].op = "passwd"

\* The password of an account that was there before the requests is replaced
\* only by one that named the password it had at that moment: of two changes
\* at once the first keeps the account (email_passwd.sql:9-11).  An account
\* signed up between a change's lock and its check is not locked by it, and the
\* second change wins.
FirstChangeKeeps ==
  [][\A h \in Settled :
       password'[h] # password[h]
         => \E t \in Txs : /\ asked[t].op = "passwd" /\ asked[t].handle = h
                           /\ asked[t].password = password[h]]_vars

\* A player's mail lands only where it leaves the mailbox within its cap,
\* while the system's mail may overfill it (email_sending.sql:33-39).
PlayerMailFits ==
  [][\A a \in arrivals' \ arrivals :
       asked[a[3]].op = "send" => Cardinality(inbox'[a[1]]) <= MailboxCap]_vars

\* Every request ends, for all the locks they wait for and the deadlocks they
\* meet.
EveryRequestAnswers == <>(\A t \in Txs : step[t] \in {"done", "collided"})
=============================================================================
