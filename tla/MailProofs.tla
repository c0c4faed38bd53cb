----------------------------- MODULE MailProofs -----------------------------
(* What holds of the mail and the forum for any number of requests, players, *)
(* mailboxes and threads, and for any values of the four caps.              *)
EXTENDS Mail, TLAPS, FiniteSetTheorems

-----------------------------------------------------------------------------
(* The invariants the theorems rest on.                                    *)

\* A request is at a statement of its own function.
OpsFit ==
  \A t \in Txs : LET op == asked[t].op s == step[t] IN
    /\ s \in {"signup", "insert"} => op = "signup"
    /\ s \in {"own", "change"} => op = "passwd"
    /\ s \in {"login", "compare"}
         => op \notin {"signup", "reply", "removeThread", "wipeComment"}
    /\ s = "act" => op \in {"inbox", "read", "delete"}
    /\ s = "count" => op \in {"send", "proof"}
    /\ s = "jobs" => op = "proof"
    /\ s \in {"mailbox", "deliver"} => op \in {"send", "reply"}
    /\ s \in {"write", "post", "bump", "put"} => op \in {"post", "comment"}

\* A request that passed a cap's count keeps the player's key until it ends,
\* and there is room for it below the cap.
RoomKept ==
  \A t \in Txs : LET p == Player(t) s == step[t] IN
    /\ s = "insert" => locks[<<"signup", p>>] = t /\ signups[p] < MaxSignups
    /\ s = "compare" => locks[<<"login", p>>] = t /\ fails[p] < MaxFailures
    /\ s \in {"jobs", "mailbox", "deliver"} /\ asked[t].op # "reply"
         => locks[<<"send", p>>] = t /\ sends[p] < MaxSends
    /\ s \in {"post", "bump", "put"} => locks[<<"write", p>>] = t /\ writes[p] < MaxWrites

\* A delivery holds its mailbox's row, and the number it read there is next.
MailboxHeld ==
  \A t \in Txs : step[t] = "deliver" =>
    /\ locks[<<"row", Box(t)>>] = t
    /\ Open(Box(t))
    /\ taken[t] = next[Box(t)]

\* Numbers are given from 1 up, to accounts only.
NumbersRun ==
  /\ \A h \in Handles : next[h] >= 1 /\ (~Open(h) => next[h] = 1)
  /\ \A a \in arrivals : 1 <= a[2] /\ a[2] < next[a[1]]
  /\ \A h \in Handles : \A m \in inbox[h] : m.number < next[h]

\* A comment about to be put holds its thread, and its number is the count's next.
ThreadHeld ==
  \A t \in Txs : step[t] = "put" =>
    /\ locks[<<"thread", asked[t].thread>>] = t
    /\ forum[asked[t].thread] = "up"
    /\ taken[t] = count[asked[t].thread] + 1

\* Threads that are not up have no comments, and one not yet posted no count.
EmptyUnlessUp ==
  \A d \in Threads : /\ forum[d] # "up" => comments[d] = {}
                     /\ forum[d] = "unused" => count[d] = 0

\* A change under way is of an account.
ChangesAnAccount == \A t \in Txs : step[t] = "change" => Open(asked[t].handle)

\* An account that was there before the requests stays, and a change of its
\* password holds its row from before the check.
OwnHeld ==
  /\ \A h \in Settled : Open(h)
  /\ \A t \in Txs : LET h == asked[t].handle IN
       asked[t].op = "passwd" /\ h \in Settled =>
         /\ step[t] \in {"login", "compare", "change"} => locks[<<"row", h>>] = t
         /\ step[t] = "change" => asked[t].password = password[h]

\* A player's mail that found room still has it when it is delivered.
RoomInside ==
  /\ \A h \in Handles : IsFiniteSet(inbox[h])
  /\ \A t \in Txs : step[t] = "deliver" /\ asked[t].op = "send"
       => Cardinality(inbox[Box(t)]) < MailboxCap

\* The order of the locks: a player's first, their sends or writes next, a row last.
Rank(l) == CASE l[1] \in {"signup", "login"} -> 1
             [] l[1] \in {"send", "write"} -> 2
             [] OTHER -> 3

\* The rank above which a request at this statement holds no lock.
Level(s) == CASE s \in {"signup", "login"} -> 1
              [] s \in {"compare", "count", "write"} -> 2
              [] s \in {"mailbox", "bump", "removeThread"} -> 3
              [] OTHER -> 4

HeldBelow ==
  \A t \in Txs : asked[t].op # "passwd" =>
    \A l \in Locks : locks[l] = t => Rank(l) < Level(step[t])

-----------------------------------------------------------------------------
(* What a step does to the requests and their locks.                       *)

Taking == {"signup", "own", "login", "compare", "count", "mailbox", "write", "bump"}

\* A request's step ends it or takes it to the next statement.
LEMMA Shape ==
  ASSUME NEW t \in Txs, Step(t) \/ Detect(t) \/ Lost(t)
  PROVE  \/ End(t, "done")
         \/ End(t, "collided") /\ (DeliverMail(t) \/ PutComment(t))
         \/ Proceed(t) /\ ~Waits(t) /\ step[t] \in Taking
<1>1. CASE Detect(t) \/ Lost(t)
  BY <1>1 DEF Detect, Lost
<1>2. CASE SignupCount(t) \/ SignupInsert(t) \/ Throttle(t)
  BY <1>2 DEF SignupCount, SignupInsert, Throttle, Taking
<1>3. CASE Compare(t)
  BY <1>3 DEF Compare, Taking, Waits, Wants
<1>4. CASE Act(t) \/ LockOwn(t) \/ Change(t) \/ CountSend(t) \/ ListJobs(t)
  BY <1>4 DEF Act, LockOwn, Change, CountSend, ListJobs, Taking
<1>5. CASE LockMailbox(t) \/ DeliverMail(t)
  BY <1>5 DEF LockMailbox, DeliverMail, Taking
<1>6. CASE CountWrite(t) \/ Post(t) \/ Bump(t) \/ PutComment(t)
  BY <1>6 DEF CountWrite, Post, Bump, PutComment, Taking
<1>7. CASE RemoveThread(t) \/ WipeComment(t)
  BY <1>7 DEF RemoveThread, WipeComment
<1> QED
  BY <1>1, <1>2, <1>3, <1>4, <1>5, <1>6, <1>7 DEF Step

\* No request is asked anything else once it began.
LEMMA AskedStands ==
  ASSUME [Next]_vars
  PROVE  asked' = asked
<1>1. CASE UNCHANGED vars
  BY <1>1 DEF vars
<1>2. ASSUME NEW t \in Txs, Detect(t) \/ Lost(t)
      PROVE  asked' = asked
  BY <1>2 DEF Detect, Lost
<1>3. ASSUME NEW t \in Txs, SignupCount(t) \/ SignupInsert(t) \/ Throttle(t) \/ Compare(t)
      PROVE  asked' = asked
  BY <1>3 DEF SignupCount, SignupInsert, Throttle, Compare
<1>4. ASSUME NEW t \in Txs, Act(t) \/ LockOwn(t) \/ Change(t) \/ CountSend(t)
      PROVE  asked' = asked
  BY <1>4 DEF Act, LockOwn, Change, CountSend
<1>5. ASSUME NEW t \in Txs, ListJobs(t) \/ LockMailbox(t) \/ DeliverMail(t) \/ CountWrite(t)
      PROVE  asked' = asked
  BY <1>5 DEF ListJobs, LockMailbox, DeliverMail, CountWrite
<1>6. ASSUME NEW t \in Txs,
             Post(t) \/ Bump(t) \/ PutComment(t) \/ RemoveThread(t) \/ WipeComment(t)
      PROVE  asked' = asked
  BY <1>6 DEF Post, Bump, PutComment, RemoveThread, WipeComment
<1> QED
  BY <1>1, <1>2, <1>3, <1>4, <1>5, <1>6 DEF Next, Step

\* The number a request carries is one it read, or none once it ended.
LEMMA TakenStep ==
  ASSUME TypeOK, NEW t \in Txs, Step(t) \/ Detect(t) \/ Lost(t)
  PROVE  \E n \in Nat : taken' = [taken EXCEPT ![t] = n]
<1>1. CASE End(t, "done") \/ End(t, "collided")
  BY <1>1 DEF End
<1>2. CASE UNCHANGED taken
  <2>1. taken' = [taken EXCEPT ![t] = taken[t]] /\ taken[t] \in Nat
    BY <1>2 DEF TypeOK
  <2> QED
    BY <2>1
<1>3. CASE taken' = [taken EXCEPT ![t] = next[Box(t)]]
  BY <1>3 DEF TypeOK, Box, Ask
<1>4. CASE taken' = [taken EXCEPT ![t] = count[asked[t].thread] + 1]
  <2>1. count[asked[t].thread] + 1 \in Nat
    BY DEF TypeOK, Ask
  <2> QED
    BY <1>4, <2>1
<1>5. \/ End(t, "done") \/ End(t, "collided") \/ UNCHANGED taken
      \/ taken' = [taken EXCEPT ![t] = next[Box(t)]]
      \/ taken' = [taken EXCEPT ![t] = count[asked[t].thread] + 1]
  BY DEF Step, Detect, Lost, SignupCount, SignupInsert, Throttle, Compare, Act, LockOwn,
         Change, CountSend, ListJobs, LockMailbox, DeliverMail, CountWrite, Post, Bump,
         PutComment, RemoveThread, WipeComment
<1> QED
  BY <1>1, <1>2, <1>3, <1>4, <1>5

\* What the other requests are at and hold stays theirs.
LEMMA OthersStand ==
  ASSUME TypeOK, NEW t \in Txs, Step(t) \/ Detect(t) \/ Lost(t), NEW u \in Txs, u # t
  PROVE  /\ step'[u] = step[u] /\ taken'[u] = taken[u]
         /\ \A l \in Locks : locks[l] = u => locks'[l] = u
<1>0. t # None /\ u # None
  BY NoneAssumption
<1>1. taken'[u] = taken[u]
  BY TakenStep DEF TypeOK
<1>2. CASE End(t, "done") \/ End(t, "collided")
  BY <1>1, <1>2 DEF End, TypeOK
<1>3. CASE Proceed(t) /\ ~Waits(t)
  <2>1. step'[u] = step[u]
    BY <1>3 DEF Proceed, TypeOK
  <2>2. ASSUME NEW l \in Locks, locks[l] = u PROVE locks'[l] = u
    <3>1. l # Wants(t) \/ Wants(t) = None
      BY <1>0, <1>3, <2>2 DEF Waits
    <3> QED
      BY <1>3, <2>2, <3>1 DEF Proceed, TypeOK
  <2> QED
    BY <1>1, <2>1, <2>2
<1> QED
  BY <1>2, <1>3, Shape

-----------------------------------------------------------------------------
(* Types.                                                                  *)

\* A request goes on to a statement of its own function.
LEMMA Goes ==
  ASSUME OpsFit, TypeOK, NEW t \in Txs, Proceed(t), step[t] \in Taking
  PROVE  /\ step' = [step EXCEPT ![t] = After(asked[t].op, step[t])]
         /\ \/ step[t] = "signup" /\ step'[t] = "insert"
            \/ step[t] = "own" /\ step'[t] = "login"
            \/ step[t] = "login" /\ step'[t] = "compare"
            \/ step[t] = "compare" /\ step'[t] \in {"act", "change", "count", "write"}
            \/ step[t] = "count" /\ asked[t].op = "proof" /\ step'[t] = "jobs"
            \/ step[t] = "count" /\ asked[t].op # "proof" /\ step'[t] = "mailbox"
            \/ step[t] = "mailbox" /\ step'[t] = "deliver"
            \/ step[t] = "write" /\ step'[t] \in {"post", "bump"}
            \/ step[t] = "bump" /\ step'[t] = "put"
<1>1. step' = [step EXCEPT ![t] = After(asked[t].op, step[t])]
  BY DEF Proceed
<1>2. step'[t] = After(asked[t].op, step[t])
  BY <1>1 DEF TypeOK
<1>3. CASE step[t] \in {"signup", "own", "login"}
  BY <1>1, <1>2, <1>3 DEF After
<1>4. CASE step[t] = "compare"
  <2>1. asked[t].op \in Ops
    BY DEF TypeOK, Ask
  <2> QED
    BY <1>1, <1>2, <1>4, <2>1 DEF After, Ops
<1>5. CASE step[t] \in {"count", "mailbox", "write", "bump"}
  BY <1>1, <1>2, <1>5 DEF After
<1> QED
  BY <1>1, <1>3, <1>4, <1>5 DEF Taking

\* A request at a statement is one of those whose function has it.
LEMMA Fits ==
  ASSUME TypeOK, OpsFit, NEW t \in Txs, Proceed(t), step[t] \in Taking
  PROVE  LET op == asked[t].op s == step'[t] IN
         /\ s \in {"signup", "insert"} => op = "signup"
         /\ s \in {"own", "change"} => op = "passwd"
         /\ s \in {"login", "compare"}
              => op \notin {"signup", "reply", "removeThread", "wipeComment"}
         /\ s = "act" => op \in {"inbox", "read", "delete"}
         /\ s = "count" => op \in {"send", "proof"}
         /\ s = "jobs" => op = "proof"
         /\ s \in {"mailbox", "deliver"} => op \in {"send", "reply"}
         /\ s \in {"write", "post", "bump", "put"} => op \in {"post", "comment"}
<1>1. asked[t].op \in Ops
  BY DEF TypeOK, Ask
<1>2. step'[t] = After(asked[t].op, step[t])
  BY DEF Proceed, TypeOK
<1>3. CASE step[t] = "compare"
  BY <1>1, <1>2, <1>3 DEF OpsFit, After, Ops
<1>4. CASE step[t] # "compare"
  BY <1>4, Goes DEF OpsFit, Taking
<1> QED
  BY <1>3, <1>4

\* A message or a comment that lands keeps its collection typed.
LEMMA MailTyped ==
  ASSUME TypeOK, NEW t \in Txs,
         SignupInsert(t) \/ Act(t) \/ DeliverMail(t)
  PROVE  /\ inbox' \in [Handles -> SUBSET Message]
         /\ arrivals' \subseteq Handles \X Nat \X (Txs \cup {None})
<1>0. asked[t].handle \in Handles /\ Box(t) \in Handles /\ asked[t].op \in Ops
  BY DEF TypeOK, Ask, Box
<1>1. ASSUME NEW h \in Handles, NEW n \in Nat, NEW b \in BOOLEAN, Deliver(t, h, n, b)
      PROVE  /\ inbox' \in [Handles -> SUBSET Message]
             /\ arrivals' \subseteq Handles \X Nat \X (Txs \cup {None})
  <2>1. [number |-> n, system |-> b, read |-> FALSE] \in Message
    BY DEF Message
  <2>2. inbox[h] \cup {[number |-> n, system |-> b, read |-> FALSE]} \in SUBSET Message
    BY <2>1 DEF TypeOK
  <2>3. inbox' \in [Handles -> SUBSET Message]
    BY <1>1, <2>2 DEF Deliver, TypeOK
  <2> QED
    BY <1>1, <2>3 DEF Deliver, TypeOK
<1>2. CASE SignupInsert(t)
  BY <1>0, <1>1, <1>2 DEF SignupInsert, mail, TypeOK
<1>3. CASE DeliverMail(t)
  <2>1. taken[t] \in Nat
    BY DEF TypeOK
  <2> QED
    BY <1>0, <1>1, <1>3, <2>1 DEF DeliverMail, mail, TypeOK
<1>4. CASE Act(t)
  <2> DEFINE h == asked[t].handle
  <2> DEFINE named == {m \in inbox[h] : m.number = asked[t].number}
  <2>1. \A m \in Message : [m EXCEPT !.read = TRUE] \in Message
    BY DEF Message
  <2>2. inbox[h] \subseteq Message
    BY <1>0 DEF TypeOK
  <2>3. {[m EXCEPT !.read = TRUE] : m \in named} \subseteq Message
    BY <2>1, <2>2
  <2>4. PICK box \in SUBSET Message : inbox' = [inbox EXCEPT ![h] = box]
    BY <1>4, <2>2, <2>3 DEF Act
  <2>5. inbox' \in [Handles -> SUBSET Message]
    BY <2>4 DEF TypeOK
  <2> QED
    BY <1>4, <2>5 DEF Act, TypeOK
<1> QED
  BY <1>2, <1>3, <1>4

LEMMA TalkTyped ==
  ASSUME TypeOK, NEW t \in Txs, PutComment(t) \/ WipeComment(t) \/ RemoveThread(t)
  PROVE  comments' \in [Threads -> SUBSET Comment] /\ count' \in [Threads -> Nat]
<1>0. asked[t].thread \in Threads /\ taken[t] \in Nat
  BY DEF TypeOK, Ask
<1>1. CASE PutComment(t)
  <2>1. [number |-> taken[t], wiped |-> FALSE] \in Comment
    BY <1>0 DEF Comment
  <2>2. CASE UNCHANGED talk
    BY <2>2 DEF talk, TypeOK
  <2>3. CASE /\ comments' = [comments EXCEPT ![asked[t].thread] =
                               @ \cup {[number |-> taken[t], wiped |-> FALSE]}]
             /\ count' = [count EXCEPT ![asked[t].thread] = taken[t]]
    BY <1>0, <2>1, <2>3 DEF TypeOK
  <2> QED
    BY <1>1, <2>2, <2>3 DEF PutComment
<1>2. CASE WipeComment(t)
  <2>1. \A c \in Comment : [c EXCEPT !.wiped = TRUE] \in Comment
    BY DEF Comment
  <2>2. {IF c.number = asked[t].number THEN [c EXCEPT !.wiped = TRUE] ELSE c :
           c \in comments[asked[t].thread]} \subseteq Comment
    BY <1>0, <2>1 DEF TypeOK
  <2> QED
    BY <1>0, <1>2, <2>2 DEF WipeComment, TypeOK
<1>3. CASE RemoveThread(t)
  BY <1>0, <1>3 DEF RemoveThread, TypeOK
<1> QED
  BY <1>1, <1>2, <1>3

\* A request's step leaves every request at a statement of its own function.
LEMMA StepTyped ==
  ASSUME TypeOK, OpsFit, NEW t \in Txs, Step(t) \/ Detect(t) \/ Lost(t)
  PROVE  /\ step' \in [Txs -> Steps]
         /\ locks' \in [Locks -> Txs \cup {None}]
         /\ taken' \in [Txs -> Nat]
<1>1. taken' \in [Txs -> Nat]
  BY TakenStep DEF TypeOK
<1>2. CASE End(t, "done") \/ End(t, "collided")
  BY <1>1, <1>2 DEF End, TypeOK, Steps
<1>3. CASE Proceed(t) /\ step[t] \in Taking
  <2>1. locks' \in [Locks -> Txs \cup {None}]
    BY <1>3 DEF Proceed, TypeOK
  <2>2. step'[t] \in Steps
    BY <1>3, Goes DEF Steps
  <2>3. step' = [step EXCEPT ![t] = step'[t]]
    BY <1>3, Goes DEF TypeOK
  <2>4. step' \in [Txs -> Steps]
    BY <2>2, <2>3 DEF TypeOK
  <2> QED
    BY <1>1, <2>1, <2>4
<1> QED
  BY <1>2, <1>3, Shape

LEMMA CapsTyped ==
  ASSUME TypeOK, NEW t \in Txs, Step(t) \/ Detect(t) \/ Lost(t)
  PROVE  /\ fails' \in [Players -> Nat] /\ sends' \in [Players -> Nat]
         /\ signups' \in [Players -> Nat] /\ writes' \in [Players -> Nat]
<1>0. /\ Player(t) \in Players
      /\ fails[Player(t)] + 1 \in Nat /\ sends[Player(t)] + 1 \in Nat
      /\ signups[Player(t)] + 1 \in Nat /\ writes[Player(t)] + 1 \in Nat
  BY DEF TypeOK, Ask, Player
<1>1. CASE UNCHANGED rates
  BY <1>1 DEF rates, TypeOK
<1>2. CASE SignupCount(t) \/ SignupInsert(t)
  <2>1. \/ UNCHANGED signups
        \/ \E n \in Nat : signups' = [signups EXCEPT ![Player(t)] = n]
    <3>1. CASE SignupCount(t)
      <4>1. PICK kept \in 0..signups[Player(t)] :
              signups' = [signups EXCEPT ![Player(t)] = kept]
        BY <3>1 DEF SignupCount
      <4>2. kept \in Nat
        BY <1>0 DEF TypeOK
      <4> QED
        BY <4>1, <4>2
    <3>2. CASE SignupInsert(t)
      BY <1>0, <3>2 DEF SignupInsert
    <3> QED
      BY <1>2, <3>1, <3>2
  <2>2. UNCHANGED <<fails, sends, writes>>
    BY <1>2 DEF SignupCount, SignupInsert
  <2> QED
    BY <2>1, <2>2 DEF TypeOK
<1>3. CASE Throttle(t) \/ Compare(t)
  BY <1>0, <1>3 DEF Throttle, Compare, TypeOK
<1>4. CASE CountSend(t) \/ ListJobs(t) \/ LockMailbox(t) \/ DeliverMail(t)
  BY <1>0, <1>4 DEF CountSend, ListJobs, LockMailbox, DeliverMail, Sent, TypeOK
<1>5. CASE CountWrite(t) \/ Post(t) \/ PutComment(t)
  BY <1>0, <1>5 DEF CountWrite, Post, PutComment, TypeOK
<1>6. CASE Act(t) \/ LockOwn(t) \/ Change(t) \/ Bump(t) \/ RemoveThread(t) \/ WipeComment(t)
           \/ Detect(t) \/ Lost(t)
  BY <1>1, <1>6 DEF Act, LockOwn, Change, Bump, RemoveThread, WipeComment, Detect, Lost
<1> QED
  BY <1>2, <1>3, <1>4, <1>5, <1>6 DEF Step

LEMMA ForumTyped ==
  ASSUME TypeOK, NEW t \in Txs, Step(t) \/ Detect(t) \/ Lost(t)
  PROVE  forum' \in [Threads -> {"unused", "up", "gone"}]
<1>1. CASE UNCHANGED forum
  BY <1>1 DEF TypeOK
<1>2. CASE Post(t) \/ RemoveThread(t)
  BY <1>2 DEF Post, RemoveThread, TypeOK
<1> QED
  BY <1>1, <1>2 DEF Step, Detect, Lost, SignupCount, SignupInsert, Throttle, Compare, Act,
     LockOwn, Change, CountSend, ListJobs, LockMailbox, DeliverMail, CountWrite, Bump,
     PutComment, WipeComment, talk

LEMMA AccountsTyped ==
  ASSUME TypeOK, NEW t \in Txs, Step(t) \/ Detect(t) \/ Lost(t)
  PROVE  password' \in [Handles -> Passwords \cup {None}] /\ next' \in [Handles -> Nat]
<1>0. /\ asked[t].handle \in Handles /\ Box(t) \in Handles
      /\ asked[t].password \in Passwords /\ asked[t].new \in Passwords
      /\ next[Box(t)] + 1 \in Nat
  BY DEF TypeOK, Ask, Box
<1>1. CASE UNCHANGED <<password, next>>
  BY <1>1 DEF TypeOK
<1>2. CASE SignupInsert(t)
  <2>1. CASE Open(asked[t].handle)
    BY <1>1, <1>2, <2>1 DEF SignupInsert, mail
  <2>2. CASE ~Open(asked[t].handle)
    BY <1>0, <1>2, <2>2 DEF SignupInsert, TypeOK
  <2> QED
    BY <2>1, <2>2
<1>3. CASE Change(t)
  BY <1>0, <1>3 DEF Change, TypeOK
<1>4. CASE DeliverMail(t)
  <2>1. \/ UNCHANGED mail
        \/ next' = [next EXCEPT ![Box(t)] = @ + 1] /\ UNCHANGED password
    BY <1>4 DEF DeliverMail, mail
  <2> QED
    BY <1>0, <1>1, <2>1 DEF mail, TypeOK
<1> QED
  BY <1>1, <1>2, <1>3, <1>4 DEF Step, Detect, Lost, SignupCount, Throttle, Compare, Act, LockOwn,
     CountSend, ListJobs, LockMailbox, CountWrite, Post, Bump, PutComment, RemoveThread,
     WipeComment, mail

\* The types and the order of a function's statements stand through a step.
LEMMA TypesStand ==
  ASSUME TypeOK, OpsFit, NEW t \in Txs, Step(t) \/ Detect(t) \/ Lost(t)
  PROVE  TypeOK'
<1>1. asked' \in [Txs -> Ask]
  BY AskedStands DEF TypeOK, Next
<1>2. /\ inbox' \in [Handles -> SUBSET Message]
      /\ arrivals' \subseteq Handles \X Nat \X (Txs \cup {None})
  <2>1. CASE UNCHANGED <<inbox, arrivals>>
    BY <2>1 DEF TypeOK
  <2>2. \/ SignupInsert(t) \/ Act(t) \/ DeliverMail(t)
        \/ UNCHANGED <<inbox, arrivals>>
    BY DEF Step, Detect, Lost, SignupCount, Throttle, Compare, LockOwn, Change, CountSend,
       ListJobs, LockMailbox, CountWrite, Post, Bump, PutComment, RemoveThread, WipeComment,
       mail
  <2> QED
    BY <2>1, <2>2, MailTyped
<1>3. comments' \in [Threads -> SUBSET Comment] /\ count' \in [Threads -> Nat]
  <2>1. CASE UNCHANGED <<comments, count>>
    BY <2>1 DEF TypeOK
  <2>2. \/ PutComment(t) \/ WipeComment(t) \/ RemoveThread(t)
        \/ UNCHANGED <<comments, count>>
    BY DEF Step, Detect, Lost, SignupCount, SignupInsert, Throttle, Compare, Act, LockOwn,
       Change, CountSend, ListJobs, LockMailbox, DeliverMail, CountWrite, Post, Bump, talk
  <2> QED
    BY <2>1, <2>2, TalkTyped
<1> QED
  BY <1>1, <1>2, <1>3, StepTyped, CapsTyped, ForumTyped, AccountsTyped DEF TypeOK

LEMMA OpsStillFit ==
  ASSUME TypeOK, OpsFit, NEW t \in Txs, Step(t) \/ Detect(t) \/ Lost(t)
  PROVE  OpsFit'
<1> SUFFICES ASSUME NEW u \in Txs
             PROVE  LET op == asked[u].op s == step'[u] IN
                    /\ s \in {"signup", "insert"} => op = "signup"
                    /\ s \in {"own", "change"} => op = "passwd"
                    /\ s \in {"login", "compare"}
                         => op \notin {"signup", "reply", "removeThread", "wipeComment"}
                    /\ s = "act" => op \in {"inbox", "read", "delete"}
                    /\ s = "count" => op \in {"send", "proof"}
                    /\ s = "jobs" => op = "proof"
                    /\ s \in {"mailbox", "deliver"} => op \in {"send", "reply"}
                    /\ s \in {"write", "post", "bump", "put"} => op \in {"post", "comment"}
  BY AskedStands DEF OpsFit, Next
<1>1. CASE u # t
  BY <1>1, OthersStand DEF OpsFit
<1>2. CASE u = t /\ (End(t, "done") \/ End(t, "collided"))
  <2>1. step'[t] \in {"done", "collided"}
    BY <1>2 DEF End, TypeOK
  <2> QED
    BY <1>2, <2>1
<1>3. CASE u = t /\ Proceed(t) /\ step[t] \in Taking
  BY <1>3, Fits
<1> QED
  BY <1>1, <1>2, <1>3, Shape

-----------------------------------------------------------------------------
(* The caps.                                                               *)

\* A request that goes on keeps the locks it holds and takes the one it wants.
LEMMA KeysStand ==
  ASSUME TypeOK, NEW t \in Txs, Proceed(t)
  PROVE  /\ \A l \in Locks : locks[l] = t => locks'[l] = t
         /\ Wants(t) \in Locks => locks'[Wants(t)] = t
BY NoneAssumption DEF Proceed, TypeOK

\* A request that ends is at no statement.
LEMMA Ended ==
  ASSUME TypeOK, NEW t \in Txs, End(t, "done") \/ End(t, "collided")
  PROVE  step'[t] \in {"done", "collided"}
BY DEF End, TypeOK

\* What a request counts goes up only where the request is past the count.
LEMMA CountsRise ==
  ASSUME TypeOK, NEW t \in Txs, Step(t) \/ Detect(t) \/ Lost(t), NEW p \in Players
  PROVE  /\ signups'[p] <= signups[p] \/ /\ p = Player(t) /\ step[t] = "insert"
                                         /\ signups'[p] = signups[p] + 1
         /\ fails'[p] <= fails[p] \/ /\ p = Player(t) /\ step[t] = "compare"
                                     /\ fails'[p] = fails[p] + 1
         /\ sends'[p] <= sends[p] \/ /\ p = Player(t)
                                     /\ step[t] \in {"jobs", "mailbox", "deliver"}
                                     /\ step[t] = "jobs" \/ asked[t].op = "send"
                                     /\ sends'[p] = sends[p] + 1
         /\ writes'[p] <= writes[p] \/ /\ p = Player(t) /\ step[t] \in {"post", "put"}
                                       /\ writes'[p] = writes[p] + 1
<1>0. /\ Player(t) \in Players
      /\ fails[p] \in Nat /\ sends[p] \in Nat /\ signups[p] \in Nat /\ writes[p] \in Nat
  BY DEF TypeOK, Ask, Player
<1>1. \/ UNCHANGED signups
      \/ \E n \in 0..signups[Player(t)] : signups' = [signups EXCEPT ![Player(t)] = n]
      \/ /\ step[t] = "insert"
         /\ signups' = [signups EXCEPT ![Player(t)] = @ + 1]
  <2>1. CASE SignupCount(t)
    BY <2>1 DEF SignupCount
  <2>2. CASE SignupInsert(t)
    BY <2>2 DEF SignupInsert
  <2>3. CASE UNCHANGED signups
    BY <2>3
  <2> QED
    BY <2>1, <2>2, <2>3 DEF Step, Detect, Lost, rates,
       Throttle, Compare, Act, LockOwn, Change, CountSend, ListJobs, 
       LockMailbox, DeliverMail, CountWrite, Post, Bump, PutComment, 
       RemoveThread, WipeComment
<1>2. \/ UNCHANGED fails
      \/ \E n \in 0..fails[Player(t)] : fails' = [fails EXCEPT ![Player(t)] = n]
      \/ /\ step[t] = "compare"
         /\ fails' = [fails EXCEPT ![Player(t)] = @ + 1]
  <2>1. CASE Throttle(t)
    BY <2>1 DEF Throttle
  <2>2. CASE Compare(t)
    BY <2>2 DEF Compare
  <2>3. CASE UNCHANGED fails
    BY <2>3
  <2> QED
    BY <2>1, <2>2, <2>3 DEF Step, Detect, Lost, rates,
       SignupCount, SignupInsert, Act, LockOwn, Change, CountSend, ListJobs, 
       LockMailbox, DeliverMail, CountWrite, Post, Bump, PutComment, 
       RemoveThread, WipeComment
<1>3. \/ UNCHANGED sends
      \/ \E n \in 0..sends[Player(t)] : sends' = [sends EXCEPT ![Player(t)] = n]
      \/ /\ step[t] \in {"jobs", "mailbox", "deliver"}
         /\ step[t] = "jobs" \/ asked[t].op = "send"
         /\ sends' = [sends EXCEPT ![Player(t)] = @ + 1]
  <2>1. CASE CountSend(t)
    BY <2>1 DEF CountSend
  <2>2. CASE ListJobs(t) \/ LockMailbox(t) \/ DeliverMail(t)
    <3>1. CASE ListJobs(t)
      BY <3>1 DEF ListJobs
    <3>2. CASE LockMailbox(t) \/ DeliverMail(t)
      <4>1. step[t] \in {"mailbox", "deliver"} /\ (UNCHANGED sends \/ sends' = Sent(t))
        BY <3>2 DEF LockMailbox, DeliverMail
      <4> QED
        BY <4>1 DEF Sent
    <3> QED
      BY <2>2, <3>1, <3>2
  <2>3. CASE UNCHANGED sends
    BY <2>3
  <2> QED
    BY <2>1, <2>2, <2>3 DEF Step, Detect, Lost, rates,
       SignupCount, SignupInsert, Throttle, Compare, Act, LockOwn, Change, 
       CountWrite, Post, Bump, PutComment, RemoveThread, WipeComment
<1>4. \/ UNCHANGED writes
      \/ \E n \in 0..writes[Player(t)] : writes' = [writes EXCEPT ![Player(t)] = n]
      \/ /\ step[t] \in {"post", "put"}
         /\ writes' = [writes EXCEPT ![Player(t)] = @ + 1]
  <2>1. CASE CountWrite(t)
    BY <2>1 DEF CountWrite
  <2>2. CASE Post(t) \/ PutComment(t)
    BY <2>2 DEF Post, PutComment
  <2>3. CASE UNCHANGED writes
    BY <2>3
  <2> QED
    BY <2>1, <2>2, <2>3 DEF Step, Detect, Lost, rates,
       SignupCount, SignupInsert, Throttle, Compare, Act, LockOwn, Change, 
       CountSend, ListJobs, LockMailbox, DeliverMail, Bump, RemoveThread, 
       WipeComment
<1>5. ASSUME NEW f \in [Players -> Nat], NEW g, NEW n \in 0..f[Player(t)],
             g = [f EXCEPT ![Player(t)] = n]
      PROVE  g[p] <= f[p]
  BY <1>0, <1>5
<1>6. signups'[p] <= signups[p] \/ /\ p = Player(t) /\ step[t] = "insert"
                                   /\ signups'[p] = signups[p] + 1
  BY <1>0, <1>1, <1>5 DEF TypeOK
<1>7. fails'[p] <= fails[p] \/ /\ p = Player(t) /\ step[t] = "compare"
                               /\ fails'[p] = fails[p] + 1
  BY <1>0, <1>2, <1>5 DEF TypeOK
<1>8. sends'[p] <= sends[p] \/ /\ p = Player(t)
                               /\ step[t] \in {"jobs", "mailbox", "deliver"}
                               /\ step[t] = "jobs" \/ asked[t].op = "send"
                               /\ sends'[p] = sends[p] + 1
  BY <1>0, <1>3, <1>5 DEF TypeOK
<1>9. writes'[p] <= writes[p] \/ /\ p = Player(t) /\ step[t] \in {"post", "put"}
                                 /\ writes'[p] = writes[p] + 1
  BY <1>0, <1>4, <1>5 DEF TypeOK
<1> QED
  BY <1>6, <1>7, <1>8, <1>9

\* The keys are locks.
LEMMA KeysAreLocks ==
  ASSUME TypeOK, NEW t \in Txs
  PROVE  /\ \A k \in {"signup", "login", "send", "write"} : <<k, Player(t)>> \in Locks
         /\ <<"row", Box(t)>> \in Locks /\ <<"row", asked[t].handle>> \in Locks
         /\ <<"thread", asked[t].thread>> \in Locks
BY DEF TypeOK, Ask, Player, Box, Locks

\* A request that goes on runs the statement it is at, which takes its lock.
LEMMA GoesOn ==
  ASSUME TypeOK, NEW t \in Txs, Step(t) \/ Detect(t) \/ Lost(t),
         step'[t] \notin {"done", "collided"}
  PROVE  /\ Proceed(t) /\ ~Waits(t) /\ step[t] \in Taking
         /\ step[t] = "signup" => SignupCount(t)
         /\ step[t] = "own" => LockOwn(t)
         /\ step[t] = "login" => Throttle(t)
         /\ step[t] = "compare" => Compare(t)
         /\ step[t] = "count" => CountSend(t)
         /\ step[t] = "mailbox" => LockMailbox(t)
         /\ step[t] = "write" => CountWrite(t)
         /\ step[t] = "bump" => Bump(t)
<1>1. Proceed(t) /\ ~Waits(t) /\ step[t] \in Taking
  BY Shape, Ended
<1>2. Step(t)
  BY Ended DEF Detect, Lost
<1> QED
  BY <1>1, <1>2 DEF Step, SignupCount, SignupInsert, Throttle, Compare, Act, LockOwn,
     Change, CountSend, ListJobs, LockMailbox, DeliverMail, CountWrite, Post, Bump,
     PutComment, RemoveThread, WipeComment

LEMMA RoomStillKept ==
  ASSUME TypeOK, OpsFit, RoomKept, NEW t \in Txs, Step(t) \/ Detect(t) \/ Lost(t)
  PROVE  RoomKept'
<1>0. asked' = asked
  BY AskedStands DEF Next
<1> SUFFICES ASSUME NEW u \in Txs
             PROVE  LET p == Player(u) s == step'[u] IN
               /\ s = "insert" => locks'[<<"signup", p>>] = u /\ signups'[p] < MaxSignups
               /\ s = "compare" => locks'[<<"login", p>>] = u /\ fails'[p] < MaxFailures
               /\ s \in {"jobs", "mailbox", "deliver"} /\ asked[u].op # "reply"
                    => locks'[<<"send", p>>] = u /\ sends'[p] < MaxSends
               /\ s \in {"post", "bump", "put"}
                    => locks'[<<"write", p>>] = u /\ writes'[p] < MaxWrites
  BY <1>0 DEF RoomKept, Player
<1> DEFINE p == Player(u)
<1>1. /\ p \in Players /\ Player(t) \in Players
      /\ signups[p] \in Nat /\ fails[p] \in Nat /\ sends[p] \in Nat /\ writes[p] \in Nat
      /\ signups'[p] \in Nat /\ fails'[p] \in Nat /\ sends'[p] \in Nat /\ writes'[p] \in Nat
  BY TypesStand DEF TypeOK, Ask, Player
<1>2. CASE u # t
  <2>1. step'[u] = step[u] /\ \A k \in {"signup", "login", "send", "write"} :
          locks[<<k, p>>] = u => locks'[<<k, p>>] = u
    BY <1>2, OthersStand, KeysAreLocks
  <2>2. ASSUME step[u] = "insert"
        PROVE  locks'[<<"signup", p>>] = u /\ signups'[p] < MaxSignups
    BY <1>1, <1>2, <2>1, <2>2, CountsRise, CapsAssumption DEF RoomKept
  <2>3. ASSUME step[u] = "compare"
        PROVE  locks'[<<"login", p>>] = u /\ fails'[p] < MaxFailures
    BY <1>1, <1>2, <2>1, <2>3, CountsRise, CapsAssumption DEF RoomKept
  <2>4. ASSUME step[u] \in {"jobs", "mailbox", "deliver"}, asked[u].op # "reply"
        PROVE  locks'[<<"send", p>>] = u /\ sends'[p] < MaxSends
    <3>1. locks[<<"send", p>>] = u /\ sends[p] < MaxSends
      BY <2>4 DEF RoomKept
    <3>2. step[t] \in {"jobs", "mailbox", "deliver"} /\ (step[t] = "jobs" \/ asked[t].op = "send")
            => locks[<<"send", Player(t)>>] = t
      BY DEF RoomKept, OpsFit
    <3>3. sends'[p] <= sends[p]
      BY <1>1, <1>2, <3>1, <3>2, CountsRise
    <3> QED
      BY <1>1, <2>1, <3>1, <3>3, CapsAssumption
  <2>5. ASSUME step[u] \in {"post", "bump", "put"}
        PROVE  locks'[<<"write", p>>] = u /\ writes'[p] < MaxWrites
    <3>1. locks[<<"write", p>>] = u /\ writes[p] < MaxWrites
      BY <2>5 DEF RoomKept
    <3>2. writes'[p] <= writes[p]
      BY <1>1, <1>2, <3>1, CountsRise DEF RoomKept
    <3> QED
      BY <1>1, <2>1, <3>1, <3>2, CapsAssumption
  <2> QED
    BY <2>1, <2>2, <2>3, <2>4, <2>5
<1>3. CASE u = t /\ step'[t] \in {"done", "collided"}
  BY <1>3
<1>4. CASE u = t /\ step'[t] \notin {"done", "collided"}
  <2>1. Proceed(t) /\ step[t] \in Taking
    BY <1>4, GoesOn
  <2>2. \A k \in {"signup", "login", "send", "write"} :
          /\ locks[<<k, p>>] = t => locks'[<<k, p>>] = t
          /\ Wants(t) = <<k, p>> => locks'[<<k, p>>] = t
    <3>1. ASSUME NEW k \in {"signup", "login", "send", "write"}
          PROVE  <<k, p>> \in Locks
      BY KeysAreLocks
    <3> QED
      BY <1>4, <2>1, <3>1, KeysStand
  <2>3. CASE step'[t] = "insert"
    <3>1. step[t] = "signup" /\ SignupCount(t)
      BY <1>4, <2>1, <2>3, Goes, GoesOn
    <3>2. Wants(t) = <<"signup", p>>
      BY <1>4, <3>1 DEF Wants
    <3>3. signups'[p] < MaxSignups
      <4>1. PICK kept \in 0..signups[p] :
              /\ signups' = [signups EXCEPT ![p] = kept]
              /\ kept >= MaxSignups => End(t, "done")
        BY <1>4, <3>1 DEF SignupCount
      <4>2. ~End(t, "done")
        BY <1>4, Ended
      <4> QED
        BY <1>1, <4>1, <4>2, CapsAssumption DEF TypeOK
    <3> QED
      BY <1>4, <2>2, <2>3, <3>2, <3>3
  <2>4. CASE step'[t] = "compare"
    <3>1. step[t] = "login" /\ Throttle(t)
      BY <1>4, <2>1, <2>4, Goes, GoesOn
    <3>2. Wants(t) = <<"login", p>>
      BY <1>4, <3>1 DEF Wants
    <3>3. fails'[p] < MaxFailures
      <4>1. PICK kept \in 0..fails[p] :
              /\ fails' = [fails EXCEPT ![p] = kept]
              /\ kept >= MaxFailures => End(t, "done")
        BY <1>4, <3>1 DEF Throttle
      <4>2. ~End(t, "done")
        BY <1>4, Ended
      <4> QED
        BY <1>1, <4>1, <4>2, CapsAssumption DEF TypeOK
    <3> QED
      BY <1>4, <2>2, <2>4, <3>2, <3>3
  <2>5. CASE step'[t] \in {"jobs", "mailbox"} /\ asked[t].op # "reply"
    <3>1. step[t] = "count" /\ CountSend(t)
      BY <1>4, <2>1, <2>5, Goes, GoesOn
    <3>2. Wants(t) = <<"send", p>>
      BY <1>4, <3>1 DEF Wants
    <3>3. sends'[p] < MaxSends
      <4>1. PICK kept \in 0..sends[p] :
              /\ sends' = [sends EXCEPT ![p] = kept]
              /\ kept >= MaxSends => End(t, "done")
        BY <1>4, <3>1 DEF CountSend
      <4>2. ~End(t, "done")
        BY <1>4, Ended
      <4> QED
        BY <1>1, <4>1, <4>2, CapsAssumption DEF TypeOK
    <3> QED
      BY <1>4, <2>2, <2>5, <3>2, <3>3
  <2>6. CASE step'[t] = "deliver" /\ asked[t].op # "reply"
    <3>1. step[t] = "mailbox" /\ LockMailbox(t)
      BY <1>4, <2>1, <2>6, Goes, GoesOn
    <3>2. locks[<<"send", p>>] = t /\ sends[p] < MaxSends
      BY <1>4, <2>6, <3>1 DEF RoomKept
    <3>3. UNCHANGED sends
      BY <1>4, <3>1, Ended DEF LockMailbox
    <3> QED
      BY <1>4, <2>2, <2>6, <3>2, <3>3
  <2>7. CASE step'[t] \in {"post", "bump"}
    <3>1. step[t] = "write" /\ CountWrite(t)
      BY <1>4, <2>1, <2>7, Goes, GoesOn
    <3>2. Wants(t) = <<"write", p>>
      BY <1>4, <3>1 DEF Wants
    <3>3. writes'[p] < MaxWrites
      <4>1. PICK kept \in 0..writes[p] :
              /\ writes' = [writes EXCEPT ![p] = kept]
              /\ kept >= MaxWrites => End(t, "done")
        BY <1>4, <3>1 DEF CountWrite
      <4>2. ~End(t, "done")
        BY <1>4, Ended
      <4> QED
        BY <1>1, <4>1, <4>2, CapsAssumption DEF TypeOK
    <3> QED
      BY <1>4, <2>2, <2>7, <3>2, <3>3
  <2>8. CASE step'[t] = "put"
    <3>1. step[t] = "bump" /\ Bump(t)
      BY <1>4, <2>1, <2>8, Goes, GoesOn
    <3>2. locks[<<"write", p>>] = t /\ writes[p] < MaxWrites
      BY <1>4, <3>1 DEF RoomKept
    <3>3. UNCHANGED writes
      BY <3>1 DEF Bump, rates
    <3> QED
      BY <1>4, <2>2, <2>8, <3>2, <3>3
  <2> QED
    BY <1>4, <2>3, <2>4, <2>5, <2>6, <2>7, <2>8
<1> QED
  BY <1>2, <1>3, <1>4

LEMMA RatesStillHold ==
  ASSUME TypeOK, OpsFit, RoomKept, RatesHold, NEW t \in Txs,
         Step(t) \/ Detect(t) \/ Lost(t)
  PROVE  RatesHold'
<1> SUFFICES ASSUME NEW p \in Players
             PROVE  /\ fails'[p] <= MaxFailures /\ sends'[p] <= MaxSends
                    /\ signups'[p] <= MaxSignups /\ writes'[p] <= MaxWrites
  BY DEF RatesHold
<1>1. /\ signups[p] \in Nat /\ fails[p] \in Nat /\ sends[p] \in Nat /\ writes[p] \in Nat
      /\ signups'[p] \in Nat /\ fails'[p] \in Nat /\ sends'[p] \in Nat /\ writes'[p] \in Nat
  BY TypesStand DEF TypeOK
<1>2. /\ step[t] = "insert" => signups[Player(t)] < MaxSignups
      /\ step[t] = "compare" => fails[Player(t)] < MaxFailures
      /\ step[t] \in {"post", "put"} => writes[Player(t)] < MaxWrites
  BY DEF RoomKept
<1>3. /\ signups'[p] <= MaxSignups /\ fails'[p] <= MaxFailures
      /\ writes'[p] <= MaxWrites
  <2>1. signups'[p] <= MaxSignups
    BY <1>1, <1>2, CountsRise, CapsAssumption DEF RatesHold
  <2>2. fails'[p] <= MaxFailures
    BY <1>1, <1>2, CountsRise, CapsAssumption DEF RatesHold
  <2>3. writes'[p] <= MaxWrites
    BY <1>1, <1>2, CountsRise, CapsAssumption DEF RatesHold
  <2> QED
    BY <2>1, <2>2, <2>3
<1>4. sends'[p] <= MaxSends
  <2>1. step[t] \in {"jobs", "mailbox", "deliver"} /\ (step[t] = "jobs" \/ asked[t].op = "send")
          => sends[Player(t)] < MaxSends
    BY DEF RoomKept, OpsFit
  <2> QED
    BY <1>1, <2>1, CountsRise, CapsAssumption DEF RatesHold
<1> QED
  BY <1>3, <1>4

-----------------------------------------------------------------------------
(* The mailboxes.                                                          *)

\* An account stays, and its next number moves by a signup or a delivery.
LEMMA AccountsMove ==
  ASSUME TypeOK, ChangesAnAccount, NEW t \in Txs, Step(t) \/ Detect(t) \/ Lost(t), NEW h \in Handles
  PROVE  /\ Open(h) => password'[h] # None
         /\ password'[h] # None /\ ~Open(h) => SignupInsert(t) /\ h = asked[t].handle
         /\ next'[h] # next[h] =>
              \/ /\ SignupInsert(t) /\ h = asked[t].handle /\ ~Open(h)
                 /\ password'[h] # None /\ next'[h] = 2
              \/ DeliverMail(t) /\ h = Box(t) /\ next'[h] = next[h] + 1
<1>0. /\ asked[t].handle \in Handles /\ Box(t) \in Handles
      /\ asked[t].password \in Passwords /\ asked[t].new \in Passwords
      /\ None \notin Passwords
  BY NoneAssumption DEF TypeOK, Ask, Box
<1>1. CASE UNCHANGED <<password, next>>
  BY <1>1 DEF Open
<1>2. CASE SignupInsert(t)
  <2>1. CASE Open(asked[t].handle)
    BY <1>1, <1>2, <2>1 DEF SignupInsert, mail
  <2>2. CASE ~Open(asked[t].handle)
    BY <1>0, <1>2, <2>2 DEF SignupInsert, TypeOK, Open
  <2> QED
    BY <2>1, <2>2
<1>3. CASE Change(t)
  BY <1>0, <1>3 DEF Change, TypeOK, Open, ChangesAnAccount
<1>4. CASE DeliverMail(t)
  <2>1. \/ UNCHANGED mail
        \/ next' = [next EXCEPT ![Box(t)] = @ + 1] /\ UNCHANGED password
    BY <1>4 DEF DeliverMail, mail
  <2> QED
    BY <1>0, <1>1, <1>4, <2>1 DEF mail, TypeOK, Open
<1> QED
  BY <1>1, <1>2, <1>3, <1>4 DEF Step, Detect, Lost, SignupCount, Throttle, Compare, Act,
     LockOwn, CountSend, ListJobs, LockMailbox, CountWrite, Post, Bump, PutComment,
     RemoveThread, WipeComment, mail

LEMMA ChangesStand ==
  ASSUME TypeOK, OpsFit, ChangesAnAccount, NEW t \in Txs, Step(t) \/ Detect(t) \/ Lost(t)
  PROVE  ChangesAnAccount'
<1>0. asked' = asked
  BY AskedStands DEF Next
<1> SUFFICES ASSUME NEW u \in Txs, step'[u] = "change"
             PROVE  password'[asked[u].handle] # None
  BY <1>0 DEF ChangesAnAccount, Open
<1>1. asked[u].handle \in Handles /\ asked[u].password \in Passwords
  BY DEF TypeOK, Ask
<1>2. Open(asked[u].handle)
  <2>1. CASE u # t
    BY <2>1, OthersStand DEF ChangesAnAccount
  <2>2. CASE u = t
    <3>1. step[t] = "compare" /\ Compare(t)
      BY <2>2, GoesOn, Goes
    <3>2. password[asked[t].handle] = asked[t].password
      BY <2>2, <3>1, Ended DEF Compare
    <3> QED
      BY <1>1, <2>2, <3>2, NoneAssumption DEF Open
  <2> QED
    BY <2>1, <2>2
<1> QED
  BY <1>1, <1>2, AccountsMove

LEMMA MailboxStillHeld ==
  ASSUME TypeOK, OpsFit, ChangesAnAccount, MailboxHeld, NEW t \in Txs, Step(t) \/ Detect(t) \/ Lost(t)
  PROVE  MailboxHeld'
<1>0. asked' = asked
  BY AskedStands DEF Next
<1> SUFFICES ASSUME NEW u \in Txs, step'[u] = "deliver"
             PROVE  /\ locks'[<<"row", Box(u)>>] = u
                    /\ password'[Box(u)] # None
                    /\ taken'[u] = next'[Box(u)]
  BY <1>0 DEF MailboxHeld, Box, Open
<1>1. Box(u) \in Handles /\ <<"row", Box(u)>> \in Locks
  BY KeysAreLocks DEF TypeOK, Ask, Box
<1>2. CASE u # t
  <2>1. step[u] = "deliver" /\ taken'[u] = taken[u]
    BY <1>2, OthersStand
  <2>2. /\ locks[<<"row", Box(u)>>] = u /\ Open(Box(u)) /\ taken[u] = next[Box(u)]
    BY <2>1 DEF MailboxHeld
  <2>3. locks'[<<"row", Box(u)>>] = u
    BY <1>1, <1>2, <2>2, OthersStand
  <2>4. ~(DeliverMail(t) /\ Box(u) = Box(t))
    BY <1>2, <2>2 DEF MailboxHeld, DeliverMail
  <2> QED
    BY <1>1, <2>1, <2>2, <2>3, <2>4, AccountsMove
<1>3. CASE u = t
  <2>1. Proceed(t) /\ ~Waits(t) /\ step[t] = "mailbox" /\ LockMailbox(t)
    BY <1>3, GoesOn, Goes
  <2>2. ~End(t, "done")
    BY <1>3, Ended
  <2>3. /\ Open(Box(t)) /\ taken' = [taken EXCEPT ![t] = next[Box(t)]]
        /\ UNCHANGED <<password, next>>
    BY <2>1, <2>2 DEF LockMailbox, mail
  <2>4. Wants(t) = <<"row", Box(t)>>
    BY <2>1, <2>3 DEF Wants
  <2> QED
    BY <1>1, <1>3, <2>1, <2>3, <2>4, KeysStand DEF TypeOK, Open
<1> QED
  BY <1>2, <1>3

\* The messages a step puts in a mailbox are those there before, or the next.
LEMMA MessagesMove ==
  ASSUME TypeOK, MailboxHeld, NumbersRun, NEW t \in Txs, Step(t) \/ Detect(t) \/ Lost(t)
  PROVE  /\ \/ UNCHANGED arrivals
            \/ \E h \in Handles : /\ arrivals' = arrivals \cup {<<h, next[h], t>>}
                                  /\ next'[h] = next[h] + 1
         /\ \A h \in Handles : \A m \in inbox'[h] :
              \/ \E k \in inbox[h] : m.number = k.number
              \/ m.number = next[h] /\ next'[h] = next[h] + 1
<1>0. asked[t].handle \in Handles /\ Box(t) \in Handles
  BY DEF TypeOK, Ask, Box
<1>1. CASE UNCHANGED <<arrivals, inbox>>
  BY <1>1
<1>2. ASSUME NEW g \in Handles, NEW b \in BOOLEAN, Deliver(t, g, next[g], b),
             next'[g] = next[g] + 1
      PROVE  /\ \E h \in Handles : /\ arrivals' = arrivals \cup {<<h, next[h], t>>}
                                   /\ next'[h] = next[h] + 1
             /\ \A h \in Handles : \A m \in inbox'[h] :
                  \/ \E k \in inbox[h] : m.number = k.number
                  \/ m.number = next[h] /\ next'[h] = next[h] + 1
  <2>1. arrivals' = arrivals \cup {<<g, next[g], t>>}
    BY <1>2 DEF Deliver
  <2>2. ASSUME NEW h \in Handles, NEW m \in inbox'[h]
        PROVE  \/ \E k \in inbox[h] : m.number = k.number
               \/ m.number = next[h] /\ next'[h] = next[h] + 1
    <3>1. \/ m \in inbox[h]
          \/ h = g /\ m = [number |-> next[g], system |-> b, read |-> FALSE]
      BY <1>2, <2>2 DEF Deliver, TypeOK
    <3> QED
      BY <1>2, <3>1
  <2> QED
    BY <1>2, <2>1, <2>2
<1>3. CASE SignupInsert(t)
  <2>1. CASE Open(asked[t].handle)
    BY <1>1, <1>3, <2>1 DEF SignupInsert, mail
  <2>2. CASE ~Open(asked[t].handle)
    <3>1. next[asked[t].handle] = 1 /\ next'[asked[t].handle] = 2
      BY <1>0, <1>3, <2>2 DEF SignupInsert, NumbersRun, TypeOK
    <3>2. Deliver(t, asked[t].handle, 1, TRUE)
      BY <1>3, <2>2 DEF SignupInsert
    <3>3. Deliver(t, asked[t].handle, next[asked[t].handle], TRUE)
      BY <3>1, <3>2
    <3>4. next'[asked[t].handle] = next[asked[t].handle] + 1
      BY <3>1
    <3> QED
      BY <1>0, <1>2, <3>3, <3>4, Zenon
  <2> QED
    BY <2>1, <2>2
<1>4. CASE DeliverMail(t)
  <2>1. CASE UNCHANGED mail
    BY <1>1, <2>1 DEF mail
  <2>2. CASE Deliver(t, Box(t), taken[t], asked[t].op = "reply")
             /\ next' = [next EXCEPT ![Box(t)] = @ + 1]
    <3>1. taken[t] = next[Box(t)] /\ next'[Box(t)] = next[Box(t)] + 1
      BY <1>0, <1>4, <2>2 DEF DeliverMail, MailboxHeld, TypeOK
    <3> QED
      BY <1>0, <1>2, <2>2, <3>1
  <2> QED
    BY <1>4, <2>1, <2>2 DEF DeliverMail, mail
<1>5. CASE Act(t)
  <2> DEFINE h == asked[t].handle
  <2> DEFINE named == {m \in inbox[h] : m.number = asked[t].number}
  <2>1. PICK box : /\ inbox' = [inbox EXCEPT ![h] = box]
                   /\ \A m \in box : m \in inbox[h] \/ m \in {[k EXCEPT !.read = TRUE] : k \in named}
    BY <1>5 DEF Act
  <2>2. \A m \in box : \E k \in inbox[h] : m.number = k.number
    <3>1. \A k \in Message : [k EXCEPT !.read = TRUE].number = k.number
      BY DEF Message
    <3>2. inbox[h] \subseteq Message
      BY <1>0 DEF TypeOK
    <3>3. ASSUME NEW m \in box, m \notin inbox[h]
          PROVE  \E k \in inbox[h] : m = [k EXCEPT !.read = TRUE]
      BY <2>1, <3>3
    <3> HIDE DEF h
    <3> QED
      BY <3>1, <3>2, <3>3
  <2>3. UNCHANGED arrivals
    BY <1>5 DEF Act
  <2>4. \A g \in Handles : \A m \in inbox'[g] : \E k \in inbox[g] : m.number = k.number
    BY <1>0, <2>1, <2>2 DEF TypeOK
  <2> QED
    BY <2>3, <2>4
<1> QED
  BY <1>1, <1>3, <1>4, <1>5 DEF Step, Detect, Lost, SignupCount, Throttle, Compare,
     LockOwn, Change, CountSend, ListJobs, LockMailbox, CountWrite, Post, Bump, PutComment,
     RemoveThread, WipeComment, mail

LEMMA NumbersStillRun ==
  ASSUME TypeOK, ChangesAnAccount, MailboxHeld, NumbersRun,
         NEW t \in Txs, Step(t) \/ Detect(t) \/ Lost(t)
  PROVE  NumbersRun'
<1>1. ASSUME NEW h \in Handles
      PROVE  /\ next[h] \in Nat /\ next'[h] >= next[h]
             /\ next'[h] >= 1 /\ (password'[h] = None => next'[h] = 1)
  <2>1. next[h] \in Nat /\ next[h] >= 1 /\ (~Open(h) => next[h] = 1)
    BY DEF NumbersRun, TypeOK
  <2>2. DeliverMail(t) => Open(Box(t))
    BY DEF MailboxHeld, DeliverMail
  <2>3. CASE next'[h] = next[h]
    BY <2>1, <2>3, AccountsMove DEF Open
  <2>4. CASE next'[h] # next[h]
    <3>1. \/ ~Open(h) /\ password'[h] # None /\ next'[h] = 2
          \/ Open(h) /\ next'[h] = next[h] + 1
      BY <2>2, <2>4, AccountsMove
    <3> QED
      BY <2>1, <3>1, AccountsMove
  <2> QED
    BY <2>3, <2>4
<1>2. ASSUME NEW a \in arrivals'
      PROVE  1 <= a[2] /\ a[2] < next'[a[1]]
  <2>1. CASE a \in arrivals
    <3>1. a[1] \in Handles /\ a[2] \in Nat /\ 1 <= a[2] /\ a[2] < next[a[1]]
      BY <2>1 DEF NumbersRun, TypeOK
    <3>2. next[a[1]] \in Nat /\ next'[a[1]] >= next[a[1]] /\ next'[a[1]] \in Nat
      BY <1>1, <3>1, AccountsTyped
    <3> QED
      BY <3>1, <3>2
  <2>2. CASE a \notin arrivals
    <3>1. PICK h \in Handles : a = <<h, next[h], t>> /\ next'[h] = next[h] + 1
      BY <1>2, <2>2, MessagesMove
    <3>2. next[h] \in Nat /\ next[h] >= 1
      BY DEF NumbersRun, TypeOK
    <3> QED
      BY <3>1, <3>2
  <2> QED
    BY <2>1, <2>2
<1>3. ASSUME NEW h \in Handles, NEW m \in inbox'[h]
      PROVE  m.number < next'[h]
  <2>1. next[h] \in Nat /\ next'[h] \in Nat /\ next'[h] >= next[h]
    BY <1>1, AccountsTyped
  <2>2. CASE \E k \in inbox[h] : m.number = k.number
    <3>1. m.number \in Nat /\ m.number < next[h]
      BY <2>2 DEF NumbersRun, TypeOK, Message
    <3> QED
      BY <2>1, <3>1
  <2>3. CASE m.number = next[h] /\ next'[h] = next[h] + 1
    BY <2>1, <2>3
  <2> QED
    BY <1>3, <2>2, <2>3, MessagesMove
<1> QED
  BY <1>1, <1>2, <1>3 DEF NumbersRun, Open

LEMMA NumbersStayOnce ==
  ASSUME TypeOK, MailboxHeld, NumbersRun, EveryNumberOnce,
         NEW t \in Txs, Step(t) \/ Detect(t) \/ Lost(t)
  PROVE  EveryNumberOnce'
<1>1. CASE UNCHANGED arrivals
  BY <1>1 DEF EveryNumberOnce
<1>2. ASSUME NEW h \in Handles, arrivals' = arrivals \cup {<<h, next[h], t>>}
      PROVE  EveryNumberOnce'
  <2>1. ASSUME NEW a \in arrivals, a[1] = h PROVE a[2] # next[h]
    <3>1. a[2] \in Nat /\ next[h] \in Nat /\ a[2] < next[h]
      BY <2>1 DEF NumbersRun, TypeOK
    <3> QED
      BY <3>1
  <2>2. \A a, b \in arrivals' : a[1] = b[1] /\ a[2] = b[2] => a = b
    BY <1>2, <2>1 DEF EveryNumberOnce
  <2> QED
    BY <2>2 DEF EveryNumberOnce
<1> QED
  BY <1>1, <1>2, MessagesMove

\* A password changes by a signup, or by a change at its last statement.
LEMMA PasswordsMove ==
  ASSUME TypeOK, NEW t \in Txs, Step(t) \/ Detect(t) \/ Lost(t),
         NEW h \in Handles, Open(h), password'[h] # password[h]
  PROVE  Change(t) /\ h = asked[t].handle
<1>0. asked[t].handle \in Handles
  BY DEF TypeOK, Ask
<1>1. CASE SignupInsert(t)
  BY <1>0, <1>1 DEF SignupInsert, TypeOK, Open, mail
<1>2. CASE Change(t)
  BY <1>0, <1>2 DEF Change, TypeOK
<1>3. CASE DeliverMail(t)
  BY <1>3 DEF DeliverMail, mail
<1> QED
  BY <1>1, <1>2, <1>3 DEF Step, Detect, Lost, SignupCount, Throttle, Compare, Act,
     LockOwn, CountSend, ListJobs, LockMailbox, CountWrite, Post, Bump, PutComment,
     RemoveThread, WipeComment, mail

LEMMA OwnStillHeld ==
  ASSUME TypeOK, OpsFit, ChangesAnAccount, OwnHeld,
         NEW t \in Txs, Step(t) \/ Detect(t) \/ Lost(t)
  PROVE  OwnHeld'
<1>0. asked' = asked
  BY AskedStands DEF Next
<1>1. ASSUME NEW h \in Settled PROVE password'[h] # None
  <2>1. h \in Handles /\ Open(h)
    BY SettledAssumption DEF OwnHeld
  <2> QED
    BY <2>1, AccountsMove
<1>2. ASSUME NEW u \in Txs, asked[u].op = "passwd", asked[u].handle \in Settled
      PROVE  LET h == asked[u].handle IN
             /\ step'[u] \in {"login", "compare", "change"} => locks'[<<"row", h>>] = u
             /\ step'[u] = "change" => asked[u].password = password'[h]
  <2> DEFINE h == asked[u].handle
  <2>1. h \in Handles /\ Open(h) /\ <<"row", h>> \in Locks
    BY <1>2, SettledAssumption DEF OwnHeld, Locks
  <2>2. CASE u # t
    <3>1. step'[u] = step[u] /\ (locks[<<"row", h>>] = u => locks'[<<"row", h>>] = u)
      BY <2>1, <2>2, OthersStand
    <3>2. ASSUME step[u] = "change"
          PROVE  asked[u].password = password'[h]
      <4>1. locks[<<"row", h>>] = u /\ asked[u].password = password[h]
        BY <1>2, <3>2 DEF OwnHeld
      <4>2. ~(Change(t) /\ h = asked[t].handle)
        BY <1>2, <2>2, <4>1 DEF Change, OwnHeld, OpsFit
      <4> QED
        BY <2>1, <4>1, <4>2, PasswordsMove
    <3> QED
      BY <1>2, <3>1, <3>2 DEF OwnHeld
  <2>3. CASE u = t /\ step'[t] \in {"done", "collided"}
    BY <2>3
  <2>4. CASE u = t /\ step'[t] \notin {"done", "collided"}
    <3>1. Proceed(t) /\ step[t] \in Taking
      BY <2>4, GoesOn
    <3>2. CASE step'[t] = "login"
      <4>1. step[t] = "own"
        BY <3>1, <3>2, Goes
      <4>2. Wants(t) = <<"row", h>>
        BY <2>1, <2>4, <4>1 DEF Wants
      <4> QED
        BY <2>1, <2>4, <3>1, <3>2, <4>2, KeysStand
    <3>3. CASE step'[t] \in {"compare", "change"}
      <4>1. step[t] \in {"login", "compare"}
        BY <3>1, <3>3, Goes
      <4>2. locks'[<<"row", h>>] = t
        BY <1>2, <2>1, <2>4, <3>1, <4>1, KeysStand DEF OwnHeld
      <4>3. step'[t] = "change" => asked[t].password = password'[h]
        <5>1. step'[t] = "change" => step[t] = "compare" /\ Compare(t)
          BY <2>4, <3>1, Goes, GoesOn
        <5>2. step'[t] = "change" => asked[t].password = password[h] /\ UNCHANGED password
          BY <2>4, <5>1, Ended DEF Compare, mail
        <5> QED
          BY <5>2
      <4> QED
        BY <2>4, <3>3, <4>2, <4>3
    <3> QED
      BY <2>4, <3>2, <3>3
  <2> QED
    BY <2>2, <2>3, <2>4
<1> QED
  BY <1>0, <1>1, <1>2 DEF OwnHeld, Open

\* A mailbox grows by one, and only when it is opened or delivered to.
LEMMA BoxesGrow ==
  ASSUME TypeOK, NEW t \in Txs, Step(t) \/ Detect(t) \/ Lost(t),
         NEW h \in Handles, IsFiniteSet(inbox[h])
  PROVE  /\ IsFiniteSet(inbox'[h]) /\ Cardinality(inbox'[h]) <= Cardinality(inbox[h]) + 1
         /\ \/ Cardinality(inbox'[h]) <= Cardinality(inbox[h])
            \/ DeliverMail(t) /\ h = Box(t)
            \/ SignupInsert(t) /\ ~Open(h)
<1>0. /\ asked[t].handle \in Handles /\ Box(t) \in Handles
      /\ Cardinality(inbox[h]) \in Nat
  BY FS_CardinalityType DEF TypeOK, Ask, Box
<1>1. CASE inbox'[h] = inbox[h]
  BY <1>0, <1>1
<1>2. ASSUME \E m : inbox'[h] = inbox[h] \cup {m}
      PROVE  IsFiniteSet(inbox'[h]) /\ Cardinality(inbox'[h]) <= Cardinality(inbox[h]) + 1
  <2>1. PICK m : inbox'[h] = inbox[h] \cup {m}
    BY <1>2
  <2>2. /\ IsFiniteSet(inbox'[h])
        /\ Cardinality(inbox'[h]) \in {Cardinality(inbox[h]), Cardinality(inbox[h]) + 1}
    BY <2>1, FS_AddElement
  <2> QED
    BY <1>0, <2>2
<1>3. CASE SignupInsert(t)
  <2>1. inbox'[h] = inbox[h] \/ (~Open(h) /\ \E m : inbox'[h] = inbox[h] \cup {m})
    <3>1. CASE Open(asked[t].handle)
      BY <1>3, <3>1 DEF SignupInsert, mail
    <3>2. CASE ~Open(asked[t].handle)
      <4>1. inbox' = [inbox EXCEPT ![asked[t].handle] =
                        @ \cup {[number |-> 1, system |-> TRUE, read |-> FALSE]}]
        BY <1>3, <3>2 DEF SignupInsert, Deliver
      <4>2. h = asked[t].handle \/ inbox'[h] = inbox[h]
        BY <1>0, <4>1 DEF TypeOK
      <4>3. h = asked[t].handle => \E m : inbox'[h] = inbox[h] \cup {m}
        BY <1>0, <4>1 DEF TypeOK
      <4> QED
        BY <3>2, <4>2, <4>3
    <3> QED
      BY <3>1, <3>2
  <2> QED
    BY <1>1, <1>2, <1>3, <2>1
<1>4. CASE DeliverMail(t)
  <2>1. inbox'[h] = inbox[h] \/ (h = Box(t) /\ \E m : inbox'[h] = inbox[h] \cup {m})
    <3>1. CASE UNCHANGED mail
      BY <3>1 DEF mail
    <3>2. CASE Deliver(t, Box(t), taken[t], asked[t].op = "reply")
      BY <1>0, <3>2 DEF Deliver, TypeOK
    <3> QED
      BY <1>4, <3>1, <3>2 DEF DeliverMail, mail
  <2> QED
    BY <1>1, <1>2, <1>4, <2>1
<1>5. CASE Act(t) /\ h = asked[t].handle
  <2> DEFINE named == {m \in inbox[h] : m.number = asked[t].number}
  <2>1. CASE inbox'[h] = inbox[h] \ named
    <3>1. inbox'[h] \in SUBSET inbox[h]
      BY <2>1
    <3> QED
      BY <1>0, <3>1, FS_Subset, FS_CardinalityType
  <2>2. CASE inbox'[h] = (inbox[h] \ named) \cup {[m EXCEPT !.read = TRUE] : m \in named}
    <3> DEFINE f == [m \in inbox[h] |->
                       IF m \in named THEN [m EXCEPT !.read = TRUE] ELSE m]
    <3>1. f \in Surjection(inbox[h], inbox'[h])
      <4>1. f \in [inbox[h] -> inbox'[h]]
        BY <2>2
      <4>2. \A m \in inbox'[h] : \E k \in inbox[h] : f[k] = m
        <5> SUFFICES ASSUME NEW m \in inbox'[h]
                     PROVE  \E k \in inbox[h] : f[k] = m
          OBVIOUS
        <5>1. CASE m \in inbox[h] \ named
          BY <5>1
        <5>2. CASE m \in {[k EXCEPT !.read = TRUE] : k \in named}
          BY <5>2
        <5> QED
          BY <2>2, <5>1, <5>2
      <4> QED
        BY <4>1, <4>2 DEF Surjection
    <3> HIDE DEF f
    <3>2. IsFiniteSet(inbox'[h]) /\ Cardinality(inbox'[h]) <= Cardinality(inbox[h])
      BY <3>1, FS_Surjection
    <3> QED
      BY <1>0, <3>2, FS_CardinalityType
  <2>3. \/ inbox'[h] = inbox[h] \/ inbox'[h] = inbox[h] \ named
        \/ inbox'[h] = (inbox[h] \ named) \cup {[m EXCEPT !.read = TRUE] : m \in named}
    BY <1>0, <1>5 DEF Act, TypeOK
  <2> QED
    BY <1>1, <2>1, <2>2, <2>3
<1>6. \/ SignupInsert(t)
      \/ DeliverMail(t)
      \/ Act(t) /\ h = asked[t].handle
      \/ inbox'[h] = inbox[h]
  <2>1. CASE Act(t) /\ h # asked[t].handle
    BY <1>0, <2>1 DEF Act, TypeOK
  <2>2. CASE ~Act(t) /\ ~SignupInsert(t) /\ ~DeliverMail(t)
    BY <2>2 DEF Step, Detect, Lost, SignupCount, Throttle, Compare, LockOwn, Change,
       CountSend, ListJobs, LockMailbox, CountWrite, Post, Bump, PutComment, RemoveThread,
       WipeComment, mail
  <2> QED
    BY <2>1, <2>2
<1> QED
  BY <1>1, <1>3, <1>4, <1>5, <1>6

LEMMA RoomStillInside ==
  ASSUME TypeOK, OpsFit, ChangesAnAccount, MailboxHeld, RoomInside,
         NEW t \in Txs, Step(t) \/ Detect(t) \/ Lost(t)
  PROVE  RoomInside'
<1>0. asked' = asked
  BY AskedStands DEF Next
<1>1. \A h \in Handles : IsFiniteSet(inbox'[h])
  BY BoxesGrow DEF RoomInside
<1>2. ASSUME NEW u \in Txs, step'[u] = "deliver", asked[u].op = "send"
      PROVE  Cardinality(inbox'[Box(u)]) < MailboxCap
  <2>1. Box(u) \in Handles /\ IsFiniteSet(inbox[Box(u)])
    BY DEF TypeOK, Ask, Box, RoomInside
  <2>2. /\ Cardinality(inbox[Box(u)]) \in Nat /\ Cardinality(inbox'[Box(u)]) \in Nat
        /\ MailboxCap \in Nat
    BY <1>1, <2>1, FS_CardinalityType, CapsAssumption
  <2>3. CASE u # t
    <3>1. step[u] = "deliver"
      BY <1>2, <2>3, OthersStand
    <3>2. ~(DeliverMail(t) /\ Box(u) = Box(t)) /\ Open(Box(u))
      <4>1. locks[<<"row", Box(u)>>] = u /\ Open(Box(u))
        BY <3>1 DEF MailboxHeld
      <4>2. ASSUME DeliverMail(t) PROVE locks[<<"row", Box(t)>>] = t
        <5>1. step[t] = "deliver"
          BY <4>2 DEF DeliverMail
        <5> QED
          BY <5>1 DEF MailboxHeld
      <4>3. ASSUME DeliverMail(t), Box(u) = Box(t) PROVE FALSE
        BY <2>3, <4>1, <4>2, <4>3
      <4> QED
        BY <4>1, <4>3
    <3>3. Cardinality(inbox[Box(u)]) < MailboxCap
      BY <1>2, <3>1 DEF RoomInside
    <3>4. Cardinality(inbox'[Box(u)]) <= Cardinality(inbox[Box(u)])
      BY <2>1, <3>2, BoxesGrow
    <3> QED
      BY <2>2, <3>3, <3>4
  <2>4. CASE u = t
    <3>1. step[t] = "mailbox" /\ LockMailbox(t)
      BY <1>2, <2>4, GoesOn, Goes
    <3>2. ~Full(Box(t)) /\ UNCHANGED inbox
      BY <1>2, <2>4, <3>1, Ended DEF LockMailbox, mail
    <3> QED
      BY <2>2, <2>4, <3>2 DEF Full
  <2> QED
    BY <2>3, <2>4
<1> QED
  BY <1>0, <1>1, <1>2 DEF RoomInside, Box

\* The request a new message came by, and where it went.
LEMMA ArrivalsCome ==
  ASSUME TypeOK, OpsFit, NEW t \in Txs, Step(t) \/ Detect(t) \/ Lost(t),
         NEW a \in arrivals' \ arrivals, asked[a[3]].op = "send"
  PROVE  DeliverMail(t) /\ asked[t].op = "send" /\ a[1] = Box(t)
<1>1. CASE SignupInsert(t)
  <2>1. a = <<asked[t].handle, 1, t>>
    BY <1>1 DEF SignupInsert, Deliver, mail
  <2> QED
    BY <1>1, <2>1 DEF SignupInsert, OpsFit
<1>2. CASE DeliverMail(t)
  <2>1. a = <<Box(t), taken[t], t>>
    BY <1>2 DEF DeliverMail, Deliver, mail
  <2> QED
    BY <1>2, <2>1
<1> QED
  BY <1>1, <1>2 DEF Step, Detect, Lost, SignupCount, Throttle, Compare, Act, LockOwn,
     Change, CountSend, ListJobs, LockMailbox, CountWrite, Post, Bump, PutComment,
     RemoveThread, WipeComment, mail

-----------------------------------------------------------------------------
(* The forum.                                                              *)

\* What a step may do to a thread.
LEMMA ThreadsMove ==
  ASSUME TypeOK, NEW t \in Txs, Step(t) \/ Detect(t) \/ Lost(t), NEW d \in Threads
  PROVE  \/ forum'[d] = forum[d] /\ count'[d] = count[d] /\ comments'[d] = comments[d]
         \/ /\ Post(t) /\ forum[d] = "unused" /\ forum'[d] = "up"
            /\ count'[d] = count[d] /\ comments'[d] = comments[d]
         \/ /\ PutComment(t) /\ d = asked[t].thread
            /\ forum'[d] = forum[d] /\ count'[d] = taken[t]
            /\ comments'[d] = comments[d] \cup {[number |-> taken[t], wiped |-> FALSE]}
         \/ /\ RemoveThread(t) /\ d = asked[t].thread /\ forum[d] = "up"
            /\ forum'[d] = "gone" /\ count'[d] = count[d] /\ comments'[d] = {}
         \/ /\ forum'[d] = forum[d] /\ count'[d] = count[d]
            /\ comments'[d] =
                 {IF c.number = asked[t].number THEN [c EXCEPT !.wiped = TRUE] ELSE c :
                    c \in comments[d]}
<1>0. asked[t].thread \in Threads
  BY DEF TypeOK, Ask
<1>1. CASE UNCHANGED talk
  BY <1>1 DEF talk
<1>2. CASE Post(t)
  BY <1>2 DEF Post, TypeOK
<1>3. CASE PutComment(t)
  <2>1. CASE UNCHANGED talk
    BY <1>1, <2>1
  <2>2. CASE ~UNCHANGED talk
    BY <1>0, <1>3, <2>2 DEF PutComment, TypeOK, talk
  <2> QED
    BY <2>1, <2>2
<1>4. CASE RemoveThread(t)
  <2>1. CASE forum[asked[t].thread] = "up"
    BY <1>0, <1>4, <2>1 DEF RemoveThread, TypeOK
  <2>2. CASE forum[asked[t].thread] # "up"
    BY <1>4, <2>2 DEF RemoveThread
  <2> QED
    BY <2>1, <2>2
<1>5. CASE WipeComment(t)
  BY <1>0, <1>5 DEF WipeComment, TypeOK
<1> QED
  BY <1>1, <1>2, <1>3, <1>4, <1>5 DEF Step, Detect, Lost, SignupCount, SignupInsert,
     Throttle, Compare, Act, LockOwn, Change, CountSend, ListJobs, LockMailbox,
     DeliverMail, CountWrite, Bump

LEMMA ThreadStillHeld ==
  ASSUME TypeOK, OpsFit, ThreadHeld, NEW t \in Txs, Step(t) \/ Detect(t) \/ Lost(t)
  PROVE  ThreadHeld'
<1>0. asked' = asked
  BY AskedStands DEF Next
<1> SUFFICES ASSUME NEW u \in Txs, step'[u] = "put"
             PROVE  /\ locks'[<<"thread", asked[u].thread>>] = u
                    /\ forum'[asked[u].thread] = "up"
                    /\ taken'[u] = count'[asked[u].thread] + 1
  BY <1>0 DEF ThreadHeld
<1> DEFINE d == asked[u].thread
<1>1. d \in Threads /\ <<"thread", d>> \in Locks
  BY KeysAreLocks DEF TypeOK, Ask
<1>2. CASE u # t
  <2>1. step[u] = "put" /\ taken'[u] = taken[u]
    BY <1>2, OthersStand
  <2>2. locks[<<"thread", d>>] = u /\ forum[d] = "up" /\ taken[u] = count[d] + 1
    BY <2>1 DEF ThreadHeld
  <2>3. locks'[<<"thread", d>>] = u
    BY <1>1, <1>2, <2>2, OthersStand
  <2>4. ~(PutComment(t) /\ d = asked[t].thread)
    BY <1>2, <2>2 DEF ThreadHeld, PutComment
  <2>5. ~(RemoveThread(t) /\ d = asked[t].thread)
    <3>1. ASSUME RemoveThread(t), d = asked[t].thread PROVE FALSE
      <4>1. Wants(t) = <<"thread", d>>
        BY <2>2, <3>1 DEF RemoveThread, Wants
      <4>2. u # None /\ <<"thread", d>> # None
        BY <1>1, NoneAssumption
      <4> QED
        BY <1>2, <2>2, <3>1, <4>1, <4>2 DEF RemoveThread, Waits
    <3> QED
      BY <3>1
  <2>6. forum'[d] = "up" /\ count'[d] = count[d]
    BY <1>1, <2>2, <2>4, <2>5, ThreadsMove
  <2> QED
    BY <2>1, <2>2, <2>3, <2>6
<1>3. CASE u = t
  <2>1. Proceed(t) /\ step[t] = "bump" /\ Bump(t)
    BY <1>3, GoesOn, Goes
  <2>2. ~End(t, "done")
    BY <1>3, Ended
  <2>3. /\ forum[d] = "up" /\ taken' = [taken EXCEPT ![t] = count[d] + 1]
        /\ UNCHANGED <<forum, count>>
    BY <1>3, <2>1, <2>2 DEF Bump, talk
  <2>4. Wants(t) = <<"thread", d>>
    BY <1>3, <2>1, <2>3 DEF Wants
  <2> QED
    BY <1>1, <1>3, <2>1, <2>3, <2>4, KeysStand DEF TypeOK
<1> QED
  BY <1>2, <1>3

LEMMA CommentsStillCountUp ==
  ASSUME TypeOK, ThreadHeld, EmptyUnlessUp, CommentsCountUp,
         NEW t \in Txs, Step(t) \/ Detect(t) \/ Lost(t)
  PROVE  CommentsCountUp' /\ EmptyUnlessUp'
<1> SUFFICES ASSUME NEW d \in Threads
             PROVE  /\ forum'[d] = "up" => {c.number : c \in comments'[d]} = 1..count'[d]
                    /\ \A c, e \in comments'[d] : c.number = e.number => c = e
                    /\ forum'[d] # "up" => comments'[d] = {}
                    /\ forum'[d] = "unused" => count'[d] = 0
  BY DEF CommentsCountUp, EmptyUnlessUp
<1>1. /\ forum[d] = "up" => {c.number : c \in comments[d]} = 1..count[d]
      /\ \A c, e \in comments[d] : c.number = e.number => c = e
      /\ forum[d] # "up" => comments[d] = {}
      /\ forum[d] = "unused" => count[d] = 0
      /\ count[d] \in Nat /\ comments[d] \subseteq Comment
  BY DEF CommentsCountUp, EmptyUnlessUp, TypeOK
<1>2. CASE forum'[d] = forum[d] /\ count'[d] = count[d] /\ comments'[d] = comments[d]
  BY <1>1, <1>2
<1>3. CASE /\ forum[d] = "unused" /\ forum'[d] = "up"
           /\ count'[d] = count[d] /\ comments'[d] = comments[d]
  BY <1>1, <1>3
<1>4. CASE /\ PutComment(t) /\ d = asked[t].thread
           /\ forum'[d] = forum[d] /\ count'[d] = taken[t]
           /\ comments'[d] = comments[d] \cup {[number |-> taken[t], wiped |-> FALSE]}
  <2>1. forum[d] = "up" /\ taken[t] = count[d] + 1
    BY <1>4 DEF ThreadHeld, PutComment
  <2> DEFINE new == [number |-> taken[t], wiped |-> FALSE]
  <2>2. {c.number : c \in comments'[d]} = {c.number : c \in comments[d]} \cup {taken[t]}
    <3>1. new.number = taken[t] /\ comments'[d] = comments[d] \cup {new}
      BY <1>4
    <3> HIDE DEF new
    <3> QED
      BY <3>1
  <2>3. (1..count[d]) \cup {count[d] + 1} = 1..(count[d] + 1)
    BY <1>1
  <2>4. \A c \in comments[d] : c.number \in 1..count[d]
    BY <1>1, <2>1
  <2>5. \A c \in comments[d] : c.number # taken[t]
    BY <1>1, <2>1, <2>4
  <2>6. \A c, e \in comments'[d] : c.number = e.number => c = e
    <3>1. new.number = taken[t] /\ comments'[d] = comments[d] \cup {new}
      BY <1>4
    <3> HIDE DEF new
    <3> QED
      BY <1>1, <2>5, <3>1
  <2> QED
    BY <1>1, <1>4, <2>1, <2>2, <2>3, <2>6
<1>5. CASE forum'[d] = "gone" /\ count'[d] = count[d] /\ comments'[d] = {}
  BY <1>1, <1>5
<1>6. CASE /\ forum'[d] = forum[d] /\ count'[d] = count[d]
           /\ comments'[d] =
                {IF c.number = asked[t].number THEN [c EXCEPT !.wiped = TRUE] ELSE c :
                   c \in comments[d]}
  <2>1. \A c \in comments[d] : [c EXCEPT !.wiped = TRUE].number = c.number
    <3>1. \A c \in Comment : [c EXCEPT !.wiped = TRUE].number = c.number
      BY DEF Comment
    <3> QED
      BY <1>1, <3>1
  <2>2. \A e \in comments'[d] : \E c \in comments[d] :
          /\ e.number = c.number
          /\ e = IF c.number = asked[t].number THEN [c EXCEPT !.wiped = TRUE] ELSE c
    BY <1>6, <2>1
  <2>3. \A c \in comments[d] : \E e \in comments'[d] : e.number = c.number
    BY <1>6, <2>1
  <2>4. {c.number : c \in comments'[d]} = {c.number : c \in comments[d]}
    BY <2>2, <2>3
  <2>5. ASSUME NEW c \in comments'[d], NEW e \in comments'[d], c.number = e.number
        PROVE  c = e
    <3>1. PICK a \in comments[d] :
            /\ c.number = a.number
            /\ c = IF a.number = asked[t].number THEN [a EXCEPT !.wiped = TRUE] ELSE a
      BY <2>2
    <3>2. PICK b \in comments[d] :
            /\ e.number = b.number
            /\ e = IF b.number = asked[t].number THEN [b EXCEPT !.wiped = TRUE] ELSE b
      BY <2>2
    <3>3. a = b
      BY <1>1, <2>5, <3>1, <3>2
    <3> QED
      BY <3>1, <3>2, <3>3
  <2>6. comments[d] = {} => comments'[d] = {}
    BY <1>6
  <2> QED
    BY <1>1, <1>6, <2>4, <2>5, <2>6
<1> QED
  BY <1>2, <1>3, <1>4, <1>5, <1>6, ThreadsMove

-----------------------------------------------------------------------------
(* The order of the locks.                                                 *)

\* What a request that is no password change waits for ranks as its statement.
LEMMA WantsRank ==
  ASSUME TypeOK, OpsFit, NEW t \in Txs, asked[t].op # "passwd", Wants(t) # None
  PROVE  /\ Wants(t) \in Locks /\ Rank(Wants(t)) = Level(step[t])
         /\ Level(step[t]) \in 1..3
<1>1. step[t] \notin {"own", "change"}
  BY DEF OpsFit
<1>2. CASE step[t] \in {"signup", "login"}
  <2>1. Wants(t) = <<step[t], Player(t)>>
    BY <1>2 DEF Wants
  <2>2. Wants(t) \in Locks
    BY <1>2, <2>1, KeysAreLocks
  <2>3. Wants(t)[1] = step[t]
    BY <2>1
  <2> QED
    BY <1>2, <2>2, <2>3 DEF Rank, Level
<1>3. CASE step[t] = "write"
  <2>1. Wants(t) = <<"write", Player(t)>>
    BY <1>3 DEF Wants
  <2>2. Wants(t) \in Locks
    BY <1>3, <2>1, KeysAreLocks
  <2>3. Wants(t)[1] = "write"
    BY <2>1
  <2> QED
    BY <1>3, <2>2, <2>3 DEF Rank, Level
<1>4. CASE step[t] = "count"
  <2>1. Wants(t) = <<"send", Player(t)>>
    BY <1>4 DEF Wants
  <2>2. Wants(t) \in Locks
    BY <1>4, <2>1, KeysAreLocks
  <2>3. Wants(t)[1] = "send"
    BY <2>1
  <2> QED
    BY <1>4, <2>2, <2>3 DEF Rank, Level
<1>5. CASE step[t] = "mailbox"
  <2>1. Wants(t) = <<"row", Box(t)>>
    BY <1>5 DEF Wants
  <2>2. Wants(t) \in Locks
    BY <1>5, <2>1, KeysAreLocks
  <2>3. Wants(t)[1] = "row"
    BY <2>1
  <2> QED
    BY <1>5, <2>2, <2>3 DEF Rank, Level
<1>6. CASE step[t] \in {"bump", "removeThread"}
  <2>1. Wants(t) = <<"thread", asked[t].thread>>
    BY <1>6 DEF Wants
  <2>2. Wants(t) \in Locks
    BY <1>6, <2>1, KeysAreLocks
  <2>3. Wants(t)[1] = "thread"
    BY <2>1
  <2> QED
    BY <1>6, <2>2, <2>3 DEF Rank, Level
<1> QED
  BY <1>1, <1>2, <1>3, <1>4, <1>5, <1>6 DEF Wants

LEMMA StillHeldBelow ==
  ASSUME TypeOK, OpsFit, HeldBelow, NEW t \in Txs, Step(t) \/ Detect(t) \/ Lost(t)
  PROVE  HeldBelow'
<1>0. asked' = asked
  BY AskedStands DEF Next
<1> SUFFICES ASSUME NEW u \in Txs, asked[u].op # "passwd", NEW l \in Locks, locks'[l] = u
             PROVE  Rank(l) < Level(step'[u])
  BY <1>0 DEF HeldBelow, Rank, Level
<1>1. t # None /\ u # None
  BY NoneAssumption
<1>2. CASE End(t, "done") \/ End(t, "collided")
  <2>1. locks[l] = u /\ u # t
    BY <1>1, <1>2 DEF End
  <2>2. step'[u] = step[u]
    BY <2>1, OthersStand
  <2> QED
    BY <2>1, <2>2 DEF HeldBelow
<1>3. CASE Proceed(t) /\ step[t] \in Taking /\ u # t
  <2>1. locks[l] = u
    BY <1>1, <1>3 DEF Proceed, TypeOK
  <2>2. step'[u] = step[u]
    BY <1>3, OthersStand
  <2> QED
    BY <2>1, <2>2 DEF HeldBelow
<1>4. CASE Proceed(t) /\ step[t] \in Taking /\ u = t
  <2>1. /\ Level(step[t]) \in 1..4 /\ Level(step'[t]) \in 1..4 /\ Rank(l) \in 1..3
    BY DEF Level, Rank
  <2>2. locks[l] = t \/ (Wants(t) # None /\ l = Wants(t))
    BY <1>1, <1>4 DEF Proceed, TypeOK
  <2>3. Level(step[t]) <= Level(step'[t])
    BY <1>4, Goes DEF Level, OpsFit
  <2>4. Wants(t) # None => Level(step[t]) < Level(step'[t])
    <3>1. Wants(t) # None => step[t] # "compare"
      BY DEF Wants
    <3> QED
      BY <1>4, <3>1, Goes DEF Level, OpsFit
  <2>5. CASE locks[l] = t
    <3>1. Rank(l) < Level(step[t])
      BY <1>4, <2>5 DEF HeldBelow
    <3> QED
      BY <1>4, <2>1, <2>3, <3>1
  <2>6. CASE Wants(t) # None /\ l = Wants(t)
    <3>1. Rank(l) = Level(step[t])
      BY <1>4, <2>6, WantsRank
    <3> QED
      BY <1>4, <2>1, <2>4, <2>6, <3>1
  <2> QED
    BY <2>2, <2>5, <2>6
<1> QED
  BY <1>2, <1>3, <1>4, Shape

\* In a ring of requests none of which changes a password, each would wait at a
\* higher rank than the one before it.
LEMMA RingsHaveAPasswd ==
  ASSUME TypeOK, OpsFit, HeldBelow
  PROVE  OnlyPasswdDeadlocks
<1> SUFFICES ASSUME NEW ts \in SUBSET Txs, Ring(ts), \A t \in ts : asked[t].op # "passwd"
             PROVE  FALSE
  BY DEF OnlyPasswdDeadlocks
<1>1. ASSUME NEW t \in ts
      PROVE  /\ Level(step[t]) \in 1..3
             /\ \E u \in ts : Level(step[u]) \in 1..3 /\ Level(step[t]) < Level(step[u])
  <2>1. Wants(t) # None /\ locks[Wants(t)] \in ts
    BY DEF Ring, Waits
  <2>2. /\ Wants(t) \in Locks /\ Rank(Wants(t)) = Level(step[t])
        /\ Level(step[t]) \in 1..3
    BY <2>1, WantsRank
  <2>3. PICK u \in ts : locks[Wants(t)] = u
    BY <2>1
  <2>4. Level(step[t]) < Level(step[u])
    BY <2>2, <2>3 DEF HeldBelow
  <2>5. Wants(u) # None
    BY DEF Ring, Waits
  <2>6. Level(step[u]) \in 1..3
    BY <2>5, WantsRank
  <2> QED
    BY <2>2, <2>4, <2>6
<1>2. \A t \in ts : Level(step[t]) # 3
  BY <1>1
<1>3. \A t \in ts : Level(step[t]) # 2
  BY <1>1, <1>2
<1>4. \A t \in ts : Level(step[t]) # 1
  BY <1>1, <1>2, <1>3
<1>5. PICK t \in ts : TRUE
  BY DEF Ring
<1> QED
  BY <1>1, <1>2, <1>3, <1>4, <1>5

-----------------------------------------------------------------------------
(* The theorems.                                                           *)

\* No delivery and no comment meets its number taken.
LEMMA NoneStillCollides ==
  ASSUME TypeOK, MailboxHeld, NumbersRun, ThreadHeld, CommentsCountUp, NoneCollides,
         NEW t \in Txs, Step(t) \/ Detect(t) \/ Lost(t)
  PROVE  NoneCollides'
<1> SUFFICES ASSUME NEW u \in Txs, step'[u] = "collided" PROVE FALSE
  BY DEF NoneCollides
<1>1. u = t
  BY OthersStand DEF NoneCollides
<1>2. CASE DeliverMail(t)
  <2>1. taken[t] = next[Box(t)] /\ Box(t) \in Handles /\ next[Box(t)] \in Nat
    BY <1>2 DEF DeliverMail, MailboxHeld, TypeOK, Ask, Box
  <2>2. \A m \in inbox[Box(t)] : m.number \in Nat /\ m.number < next[Box(t)]
    BY <2>1 DEF NumbersRun, TypeOK, Message
  <2>3. End(t, "done")
    BY <1>2, <2>1, <2>2 DEF DeliverMail
  <2> QED
    BY <1>1, <2>3 DEF End, TypeOK
<1>3. CASE PutComment(t)
  <2>1. /\ taken[t] = count[asked[t].thread] + 1 /\ forum[asked[t].thread] = "up"
        /\ asked[t].thread \in Threads /\ count[asked[t].thread] \in Nat
    BY <1>3 DEF PutComment, ThreadHeld, TypeOK, Ask
  <2>2. \A c \in comments[asked[t].thread] : c.number \in 1..count[asked[t].thread]
    BY <2>1 DEF CommentsCountUp
  <2>3. End(t, "done")
    BY <1>3, <2>1, <2>2 DEF PutComment
  <2> QED
    BY <1>1, <2>3 DEF End, TypeOK
<1>4. CASE Proceed(t) /\ step[t] \in Taking
  <2>1. asked[t].op \in Ops /\ step'[t] = After(asked[t].op, step[t])
    BY <1>4 DEF Proceed, TypeOK, Ask
  <2>2. CASE step[t] = "compare"
    BY <1>1, <2>1, <2>2 DEF After, Ops
  <2>3. CASE step[t] # "compare"
    BY <1>1, <1>4, <2>1, <2>3 DEF After, Taking
  <2> QED
    BY <2>2, <2>3
<1>5. CASE End(t, "done")
  BY <1>1, <1>5 DEF End, TypeOK
<1> QED
  BY <1>2, <1>3, <1>4, <1>5, Shape

IInv ==
  /\ TypeOK /\ OpsFit
  /\ RoomKept /\ RatesHold
  /\ ChangesAnAccount /\ MailboxHeld /\ NumbersRun /\ EveryNumberOnce
  /\ OwnHeld /\ RoomInside
  /\ ThreadHeld /\ EmptyUnlessUp /\ CommentsCountUp /\ NoneCollides
  /\ HeldBelow

\* Where a function begins is one of its statements.
LEMMA Begins ==
  ASSUME NEW op \in Ops
  PROVE  /\ After(op, "begin") \in {"signup", "own", "mailbox", "login", "removeThread",
                                    "wipeComment"}
         /\ After(op, "begin") = "signup" => op = "signup"
         /\ After(op, "begin") = "own" => op = "passwd"
         /\ After(op, "begin") = "mailbox" => op = "reply"
         /\ After(op, "begin") = "login"
              => op \notin {"signup", "passwd", "reply", "removeThread", "wipeComment"}
BY DEF After, Ops

LEMMA Beginning ==
  ASSUME Init
  PROVE  IInv
<1> USE DEF Init
<1>1. asked \in [Txs -> Ask] /\ \A t \in Txs : asked[t].op \in Ops
  BY AskingsAssumption DEF Ask
<1>2. \A t \in Txs : step[t] = After(asked[t].op, "begin")
  OBVIOUS
<1>3. \A t \in Txs : step[t] \in {"signup", "own", "mailbox", "login", "removeThread",
                                  "wipeComment"}
  BY <1>1, <1>2, Begins
<1>4. TypeOK
  <2>1. /\ password \in [Handles -> Passwords \cup {None}] /\ next \in [Handles -> Nat]
        /\ inbox \in [Handles -> SUBSET Message]
    BY SettledAssumption DEF Welcome, Message
  <2>2. arrivals \subseteq Handles \X Nat \X (Txs \cup {None})
    BY SettledAssumption
  <2>3. /\ fails \in [Players -> Nat] /\ sends \in [Players -> Nat]
        /\ signups \in [Players -> Nat] /\ writes \in [Players -> Nat]
        /\ forum \in [Threads -> {"unused", "up", "gone"}]
        /\ count \in [Threads -> Nat] /\ comments \in [Threads -> SUBSET Comment]
    OBVIOUS
  <2>4. /\ locks \in [Locks -> Txs \cup {None}] /\ taken \in [Txs -> Nat]
    OBVIOUS
  <2>5. step \in [Txs -> Steps]
    BY <1>2, <1>3 DEF Steps
  <2> QED
    BY <1>1, <2>1, <2>2, <2>3, <2>4, <2>5 DEF TypeOK
<1>5. OpsFit
  <2> SUFFICES ASSUME NEW t \in Txs
               PROVE  LET op == asked[t].op s == step[t] IN
                      /\ s = "signup" => op = "signup"
                      /\ s = "own" => op = "passwd"
                      /\ s = "login"
                           => op \notin {"signup", "reply", "removeThread", "wipeComment"}
                      /\ s = "mailbox" => op \in {"send", "reply"}
    BY <1>3 DEF OpsFit
  <2> QED
    BY <1>1, <1>2, Begins
<1>6. /\ RoomKept /\ ChangesAnAccount /\ MailboxHeld /\ ThreadHeld /\ NoneCollides
  <2>1. RoomKept
    <3>1. \A t \in Txs : step[t] = "mailbox" => asked[t].op = "reply"
      BY <1>1, <1>2, Begins
    <3> QED
      BY <1>3, <3>1 DEF RoomKept
  <2> QED
    BY <1>3, <2>1 DEF ChangesAnAccount, MailboxHeld, ThreadHeld, NoneCollides
<1>7. RatesHold
  BY CapsAssumption DEF RatesHold
<1>8. NumbersRun /\ EveryNumberOnce
  <2>1. \A h \in Handles : next[h] >= 1 /\ (~Open(h) => next[h] = 1)
    BY SettledAssumption, NoneAssumption DEF Open
  <2>2. \A a \in arrivals : 1 <= a[2] /\ a[2] < next[a[1]]
    BY SettledAssumption
  <2>3. \A h \in Handles : \A m \in inbox[h] : m.number < next[h]
    BY DEF Welcome
  <2>4. EveryNumberOnce
    BY DEF EveryNumberOnce
  <2> QED
    BY <2>1, <2>2, <2>3, <2>4 DEF NumbersRun
<1>9. OwnHeld
  <2>1. \A h \in Settled : Open(h)
    BY SettledAssumption, NoneAssumption DEF Open
  <2>2. \A t \in Txs : asked[t].op = "passwd" => step[t] = "own"
    BY <1>1, <1>2 DEF After
  <2> QED
    BY <2>1, <2>2 DEF OwnHeld
<1>10. RoomInside
  <2>1. \A h \in Handles : IsFiniteSet(inbox[h])
    BY FS_EmptySet, FS_Singleton
  <2> QED
    BY <1>3, <2>1 DEF RoomInside
<1>11. EmptyUnlessUp /\ CommentsCountUp
  BY DEF EmptyUnlessUp, CommentsCountUp
<1>12. HeldBelow
  BY NoneAssumption DEF HeldBelow
<1> QED
  BY <1>4, <1>5, <1>6, <1>7, <1>8, <1>9, <1>10, <1>11, <1>12 DEF IInv

LEMMA Inductive ==
  ASSUME IInv, [Next]_vars
  PROVE  IInv'
<1> USE DEF IInv
<1>1. CASE UNCHANGED vars
  <2>1. TypeOK' /\ OpsFit'
    BY <1>1 DEF vars, TypeOK, OpsFit
  <2>2. RoomKept' /\ RatesHold'
    BY <1>1 DEF vars, RoomKept, RatesHold, Player
  <2>3. ChangesAnAccount' /\ MailboxHeld' /\ NumbersRun' /\ EveryNumberOnce'
    BY <1>1 DEF vars, ChangesAnAccount, MailboxHeld, NumbersRun, EveryNumberOnce, Box, Open
  <2>4. OwnHeld' /\ RoomInside'
    BY <1>1 DEF vars, OwnHeld, RoomInside, Box, Open
  <2>5. ThreadHeld' /\ EmptyUnlessUp' /\ CommentsCountUp' /\ NoneCollides'
    BY <1>1 DEF vars, ThreadHeld, EmptyUnlessUp, CommentsCountUp, NoneCollides
  <2>6. HeldBelow'
    BY <1>1 DEF vars, HeldBelow
  <2> QED
    BY <2>1, <2>2, <2>3, <2>4, <2>5, <2>6
<1>2. ASSUME NEW t \in Txs, Step(t) \/ Detect(t) \/ Lost(t)
      PROVE  IInv'
  BY <1>2, TypesStand, OpsStillFit, RoomStillKept, RatesStillHold, ChangesStand,
     MailboxStillHeld, NumbersStillRun, NumbersStayOnce, OwnStillHeld, RoomStillInside,
     ThreadStillHeld, CommentsStillCountUp, NoneStillCollides, StillHeldBelow
<1> QED
  BY <1>1, <1>2 DEF Next

\* Every run of the requests keeps the invariant.
THEOREM Invariance == Spec => []IInv
<1>1. Init => IInv
  BY Beginning
<1>2. IInv /\ [Next]_vars => IInv'
  BY Inductive
<1> QED
  BY <1>1, <1>2, PTL DEF Spec

\* Mailboxes, threads, counts, locks and requests stay what they are.
THEOREM Typing == Spec => []TypeOK
<1>1. IInv => TypeOK
  BY DEF IInv
<1> QED
  BY <1>1, Invariance, PTL

\* A mailbox gives a number to one message, however many requests race for it:
\* the row lock of email_send, and next_number that only goes up.
THEOREM NumbersAreGivenOnce == Spec => []EveryNumberOnce
<1>1. IInv => EveryNumberOnce
  BY DEF IInv
<1> QED
  BY <1>1, Invariance, PTL

\* No delivery and no comment fails on the number it took.
THEOREM NothingCollides == Spec => []NoneCollides
<1>1. IInv => NoneCollides
  BY DEF IInv
<1> QED
  BY <1>1, Invariance, PTL

\* Each cap holds, whatever its value: the request that counts holds the
\* player's key until what it counted is written.
THEOREM CapsHold == Spec => []RatesHold
<1>1. IInv => RatesHold
  BY DEF IInv
<1> QED
  BY <1>1, Invariance, PTL

\* A thread that is up numbers its comments from 1 with no gap and no double,
\* whatever the operator removes.
THEOREM ThreadsCountUp == Spec => []CommentsCountUp
<1>1. IInv => CommentsCountUp
  BY DEF IInv
<1> QED
  BY <1>1, Invariance, PTL

\* Whoever waits in a ring, one of them changes a password: the other functions
\* take their locks in one order, their player's, then their sends or writes,
\* then a row.
THEOREM OnlyPasswdsDeadlock == Spec => []OnlyPasswdDeadlocks
<1>1. IInv => OnlyPasswdDeadlocks
  BY RingsHaveAPasswd DEF IInv
<1> QED
  BY <1>1, Invariance, PTL

\* Of two changes of one old account's password the first keeps it.
THEOREM FirstChange == Spec => FirstChangeKeeps
<1>1. ASSUME IInv, [Next]_vars
      PROVE  [\A h \in Settled :
                password'[h] # password[h]
                  => \E t \in Txs : /\ asked[t].op = "passwd" /\ asked[t].handle = h
                                    /\ asked[t].password = password[h]]_vars
  <2> SUFFICES ASSUME NEW h \in Settled, password'[h] # password[h]
               PROVE  \E t \in Txs : /\ asked[t].op = "passwd" /\ asked[t].handle = h
                                     /\ asked[t].password = password[h]
    OBVIOUS
  <2>1. PICK t \in Txs : Step(t) \/ Detect(t) \/ Lost(t)
    BY <1>1 DEF Next, vars
  <2>2. h \in Handles /\ Open(h)
    BY <1>1, SettledAssumption DEF IInv, OwnHeld
  <2>3. Change(t) /\ h = asked[t].handle
    BY <1>1, <2>1, <2>2, PasswordsMove DEF IInv
  <2> QED
    BY <1>1, <2>3 DEF Change, IInv, OpsFit, OwnHeld
<1> QED
  BY <1>1, Invariance, PTL DEF Spec, FirstChangeKeeps

\* A player's mail lands within the mailbox's cap, whatever the cap: the mailbox
\* that had room when its row was locked has it when the mail is delivered.
THEOREM MailFits == Spec => PlayerMailFits
<1>1. ASSUME IInv, [Next]_vars
      PROVE  [\A a \in arrivals' \ arrivals :
                asked[a[3]].op = "send" => Cardinality(inbox'[a[1]]) <= MailboxCap]_vars
  <2> SUFFICES ASSUME NEW a \in arrivals' \ arrivals, asked[a[3]].op = "send"
               PROVE  Cardinality(inbox'[a[1]]) <= MailboxCap
    OBVIOUS
  <2>1. PICK t \in Txs : Step(t) \/ Detect(t) \/ Lost(t)
    BY <1>1 DEF Next, vars
  <2>2. DeliverMail(t) /\ asked[t].op = "send" /\ a[1] = Box(t)
    BY <1>1, <2>1, ArrivalsCome DEF IInv
  <2>3. Box(t) \in Handles /\ IsFiniteSet(inbox[Box(t)])
    BY <1>1 DEF IInv, TypeOK, Ask, Box, RoomInside
  <2>4. Cardinality(inbox[Box(t)]) < MailboxCap
    BY <1>1, <2>2 DEF IInv, RoomInside, DeliverMail
  <2>5. /\ IsFiniteSet(inbox'[Box(t)])
        /\ Cardinality(inbox'[Box(t)]) <= Cardinality(inbox[Box(t)]) + 1
    BY <1>1, <2>1, <2>3, BoxesGrow DEF IInv
  <2> QED
    BY <2>2, <2>3, <2>4, <2>5, FS_CardinalityType, CapsAssumption
<1> QED
  BY <1>1, Invariance, PTL DEF Spec, PlayerMailFits
-----------------------------------------------------------------------------
(* Getting on.                                                             *)
Closed == {"done", "collided"}

\* The statements a request at this one has left, at the most.
Left(s) == CASE s \in Closed -> 0
             [] s \in {"insert", "act", "change", "jobs", "deliver", "post", "put",
                       "removeThread", "wipeComment"} -> 1
             [] s \in {"signup", "mailbox", "bump"} -> 2
             [] s \in {"count", "write"} -> 3
             [] s = "compare" -> 4
             [] s = "login" -> 5
             [] OTHER -> 6

\* Every step of the database, a rollback or a lost connection included, takes
\* one request nearer its end and leaves the others where they are.
OneGetsNearer ==
  \E t \in Txs : /\ Left(step'[t]) < Left(step[t])
                 /\ \A u \in Txs \ {t} : step'[u] = step[u]

\* A request that ended runs no more statements.
LEMMA ClosedRest ==
  ASSUME NEW t \in Txs, Step(t) \/ Detect(t) \/ Lost(t)
  PROVE  step[t] \notin Closed
<1>1. CASE Step(t)
  BY <1>1 DEF Step, Closed, SignupCount, SignupInsert, Throttle, Compare, Act, LockOwn,
     Change, CountSend, ListJobs, LockMailbox, DeliverMail, CountWrite, Post, Bump,
     PutComment, RemoveThread, WipeComment
<1>2. CASE Detect(t)
  BY <1>2 DEF Detect, Closed, Waits, Wants
<1>3. CASE Lost(t)
  BY <1>3 DEF Lost, Closed
<1> QED
  BY <1>1, <1>2, <1>3

LEMMA NearerStep ==
  ASSUME TypeOK, OpsFit, NEW t \in Txs, Step(t) \/ Detect(t) \/ Lost(t)
  PROVE  OneGetsNearer
<1>1. \A u \in Txs \ {t} : step'[u] = step[u]
  BY OthersStand
<1>2. step[t] \in Steps \ Closed /\ Left(step[t]) >= 1
  <2>1. step[t] \in Steps \ Closed
    BY ClosedRest DEF TypeOK
  <2> QED
    BY <2>1 DEF Left
<1>3. CASE End(t, "done") \/ End(t, "collided")
  <2>1. Left(step'[t]) = 0
    BY <1>3, Ended DEF Left, Closed
  <2> QED
    BY <1>1, <1>2, <2>1 DEF OneGetsNearer, Left
<1>4. CASE Proceed(t) /\ step[t] \in Taking
  <2>1. Left(step'[t]) < Left(step[t])
    BY <1>4, Goes DEF Left, Closed
  <2> QED
    BY <1>1, <2>1 DEF OneGetsNearer
<1> QED
  BY <1>3, <1>4, Shape

\* No function loops: a request runs at most six more statements whatever the
\* others do, so finitely many requests cannot keep the database busy for ever.
THEOREM StatementsRunOut == Spec => [][OneGetsNearer]_vars
<1>1. IInv /\ [Next]_vars => [OneGetsNearer]_vars
  BY NearerStep DEF IInv, Next
<1> QED
  BY <1>1, Invariance, PTL DEF Spec

\* A request that ended holds no lock, its player's keys included.
NothingKept == \A t \in Txs : step[t] \in Closed => \A l \in Locks : locks[l] # t

LEMMA StillNothingKept ==
  ASSUME TypeOK, OpsFit, NothingKept, [Next]_vars
  PROVE  NothingKept'
<1>1. CASE UNCHANGED vars
  BY <1>1 DEF vars, NothingKept
<1>2. ASSUME NEW t \in Txs, Step(t) \/ Detect(t) \/ Lost(t),
             NEW u \in Txs, step'[u] \in Closed, NEW l \in Locks
      PROVE  locks'[l] # u
  <2>1. u # t => step'[u] = step[u] /\ locks[l] # u
    BY <1>2, OthersStand DEF NothingKept
  <2>2. CASE End(t, "done") \/ End(t, "collided")
    BY <2>1, <2>2, NoneAssumption DEF End
  <2>3. CASE Proceed(t) /\ step[t] \in Taking
    <3>1. u # t
      BY <1>2, <2>3, Goes DEF Closed
    <3> QED
      BY <2>1, <2>3, <3>1 DEF Proceed, TypeOK
  <2> QED
    BY <1>2, <2>2, <2>3, Shape
<1> QED
  BY <1>1, <1>2 DEF NothingKept, Next

\* While any request is open, one of them waits for nobody, or all of them wait in
\* rings of one another, a password change among them, for the deadlock detector.
SomeoneGoesOn ==
  LET open == {t \in Txs : step[t] \notin Closed} IN
  open # {} => \/ \E t \in open : ~Waits(t)
               \/ Ring(open) /\ \E t \in open : asked[t].op = "passwd"

LEMMA WaitsForOpen ==
  ASSUME TypeOK, NothingKept, NEW t \in Txs, Waits(t)
  PROVE  locks[Wants(t)] \in {u \in Txs : step[u] \notin Closed}
<1>1. Wants(t) # None /\ locks[Wants(t)] # None
  BY DEF Waits
<1>2. Wants(t) \in Locks
  BY <1>1, KeysAreLocks DEF Wants
<1>3. locks[Wants(t)] \in Txs
  BY <1>1, <1>2 DEF TypeOK
<1> QED
  BY <1>2, <1>3 DEF NothingKept

\* A request waits for a lock only as long as its holder runs: no lock outlives
\* its transaction, and whoever waits, somebody has a next statement to run.
THEOREM SomebodyGoesOn == Spec => [](NothingKept /\ SomeoneGoesOn)
<1>1. Init => NothingKept
  BY NoneAssumption DEF Init, NothingKept
<1>2. IInv /\ NothingKept /\ [Next]_vars => NothingKept'
  BY StillNothingKept DEF IInv
<1>3. IInv /\ NothingKept => SomeoneGoesOn
  <2> DEFINE open == {t \in Txs : step[t] \notin Closed}
  <2> SUFFICES ASSUME IInv, NothingKept, open # {}, \A t \in open : Waits(t)
               PROVE  Ring(open) /\ \E t \in open : asked[t].op = "passwd"
    BY DEF SomeoneGoesOn
  <2>1. open \in SUBSET Txs /\ Ring(open)
    BY WaitsForOpen DEF Ring, IInv
  <2>2. OnlyPasswdDeadlocks
    BY RingsHaveAPasswd DEF IInv
  <2> QED
    BY <2>1, <2>2 DEF OnlyPasswdDeadlocks
<1> QED
  BY <1>1, <1>2, <1>3, Invariance, PTL DEF Spec
=============================================================================
