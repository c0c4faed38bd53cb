----------------------------- MODULE Contracts -----------------------------
(***************************************************************************)
(* hireme.io's contracts: the boards that offer them, the contractors who  *)
(* take and drop them, the mails that prove them done, and the operator's  *)
(* desk beside all three.                                                  *)
(*                                                                         *)
(* A request is a door of the site, a mail to a client or an order of the  *)
(* operator.  The hireme_* functions decide under the lock on the          *)
(* contractor's account row and commit in their last statement; the desk   *)
(* commits each statement, and its insert waits for that row with its      *)
(* entries already in the indexes.  now() is when a transaction began,     *)
(* before it waited.  A ref stands for the one number its handle was ever  *)
(* shown under it, and a candidate may be skipped for its ref.             *)
(***************************************************************************)
EXTENDS Naturals, FiniteSets

CONSTANTS
  Handles,   \* mailbox names
  Accounts,  \* the handles that hold a mailbox
  Numbers,   \* contract numbers
  Clients,   \* client handles
  ClientOf,  \* the client of each number's job
  Addresses, \* what a board may be drawn
  Slots,     \* offers and the current job on a full board: 3
  MaxDraws,  \* rounds of candidates a short board is offered: 5
  Days,      \* how many times 24 hours pass
  Txs,       \* the requests in flight together
  Askings,   \* what they may ask between them
  Records,   \* the missions and boards there before the requests begin
  None       \* no number, no key, no holder

Ops == {"board", "accept", "drop", "mail", "apply", "opAccept", "opDrop", "opPost"}

\* number is the ref an accept posts and the number the operator chose (None:
\* drawn).  A mail names a client, the number its key opens, and a wallet.
Ask == [op: Ops, handle: Handles, number: Numbers \cup {None}, client: Clients,
        key: Numbers \cup {None, "wrong"}, wallet: BOOLEAN]

Status == {"none", "offered", "burned", "accepted", "completed", "abandoned"}
Record == [status: [Numbers -> Status], holder: [Numbers -> Handles \cup {None}],
           listed: SUBSET Numbers, board: [Handles -> Addresses \cup {None}]]

ASSUME AskingsAssumption == Askings \subseteq [Txs -> Ask]
ASSUME WorldAssumption ==
  /\ Accounts \subseteq Handles
  /\ ClientOf \in [Numbers -> Clients]
  /\ Slots \in Nat /\ MaxDraws \in Nat /\ Days \in Nat
ASSUME NumbersAssumption == IsFiniteSet(Numbers)
ASSUME NoneAssumption ==
  None \notin Numbers /\ None \notin Txs /\ None \notin Handles /\ None \notin Addresses

Held(st, ho, h) == {n \in Numbers : ho[n] = h /\ st[n] \in {"offered", "accepted"}}
Active(st, ho, h) == {n \in Numbers : ho[n] = h /\ st[n] = "accepted"}

ASSUME RecordsAssumption ==
  /\ Records \subseteq Record
  /\ \A r \in Records :
       /\ \A n \in Numbers : r.status[n] = "none" <=> r.holder[n] = None
       /\ \A n \in Numbers : r.status[n] \in {"offered", "burned"} => n \in r.listed
       /\ \A n \in r.listed : r.status[n] # "none"
       /\ \A h \in Handles : /\ \A m, n \in Active(r.status, r.holder, h) : m = n
                             /\ Cardinality(Held(r.status, r.holder, h) \cap r.listed) <= Slots
       /\ \A g, h \in Handles : r.board[g] = r.board[h] /\ r.board[h] # None => g = h

VARIABLES
  status,    \* hireme_missions: the state of each number, "none" with no row
  holder,    \* the contractor of each row
  posted,    \* the day each offer was drawn
  listed,    \* the rows with a ref: those a board posted
  minted,    \* how often each job's pay was minted
  letters,   \* the clients' answers: whose, which, about which job, to which mail
  today,     \* the day
  address,   \* hireme_boards: the address of each handle's board
  mailed,    \* the day it was last mailed
  sent,      \* the days each handle was mailed, by which request
  lock,      \* the transaction holding each account's row
  asked,     \* what each request asks
  step,      \* its next statement
  began,     \* the day its transaction began
  draw,      \* the rounds of candidates it has offered
  slots,     \* the slots it counted under the lock
  pick,      \* the number it read or was given
  line,      \* the answer it is to deliver
  acted      \* whether its door has acted and only rereads the board

missions == <<status, holder, posted, listed>>
desk == <<address, mailed, sent>>
told == <<minted, letters>>
local == <<step, began, draw, slots, pick, line, acted>>
vars == <<status, holder, posted, listed, minted, letters, today, address, mailed, sent,
          lock, asked, step, began, draw, slots, pick, line, acted>>

FirstStep(op) ==
  CASE op \in {"board", "accept", "drop"} -> "post"
    [] op = "mail" -> "open"
    [] OTHER -> op

Init ==
  /\ \E r \in Records :
       /\ status = r.status /\ holder = r.holder /\ listed = r.listed
       /\ letters = {<<r.holder[n], "unpaid", n, None>> :
                       n \in {m \in Numbers : r.status[m] = "completed"}}
       /\ address = r.board
       /\ sent = {<<h, 0, None>> : h \in {g \in Handles : r.board[g] # None}}
  /\ posted = [n \in Numbers |-> 0]
  /\ minted = [n \in Numbers |-> 0]
  /\ today = 0
  /\ mailed = [h \in Handles |-> 0]
  /\ lock = [h \in Handles |-> None]
  /\ asked \in Askings
  /\ step = [t \in Txs |-> FirstStep(asked[t].op)]
  /\ began = [t \in Txs |-> 0]
  /\ draw = [t \in Txs |-> 0]
  /\ slots = [t \in Txs |-> 0]
  /\ pick = [t \in Txs |-> None]
  /\ line = [t \in Txs |-> "none"]
  /\ acted = [t \in Txs |-> FALSE]

-----------------------------------------------------------------------------
Mine(t) == asked[t].handle
Offers(st, ho, h) == {n \in Numbers : ho[n] = h /\ st[n] = "offered"}

\* The offers 24 hours old to a transaction that began on day d.
Stale(h, d) == {n \in Offers(status, holder, h) : posted[n] < d}

\* The desk's inserts not committed: each keeps its number, and its handle's one place
\* for an accepted row, in the unique indexes.  Whoever would enter the same waits.
Entries == {t \in Txs : step[t] = "opCommit"}
Free == {n \in Numbers : status[n] = "none"} \ {pick[t] : t \in Entries}
Entered(h) == \E t \in Entries : Mine(t) = h

Unlocked(t) == [h \in Handles |-> IF lock[h] = t THEN None ELSE lock[h]]

\* SELECT ... FOR UPDATE of the contractor's account, in a transaction that
\* began on day d.
Lock(t, d) ==
  /\ lock[Mine(t)] = None
  /\ lock' = [lock EXCEPT ![Mine(t)] = t]
  /\ d \in began[t]..today
  /\ began' = [began EXCEPT ![t] = d]

Go(t, s) == step' = [step EXCEPT ![t] = s]

\* The transaction ends and the next one waits to begin.
Release(t, s) ==
  /\ lock' = Unlocked(t)
  /\ began' = [began EXCEPT ![t] = today]
  /\ Go(t, s)

\* The request ends; what it knew is forgotten.
Finish(t) ==
  /\ lock' = Unlocked(t)
  /\ Go(t, "done")
  /\ began' = [began EXCEPT ![t] = 0]
  /\ draw' = [draw EXCEPT ![t] = 0]
  /\ slots' = [slots EXCEPT ![t] = 0]
  /\ pick' = [pick EXCEPT ![t] = None]
  /\ line' = [line EXCEPT ![t] = "none"]
  /\ acted' = [acted EXCEPT ![t] = FALSE]

\* A door that acted shows the board as it then stands.
Reread(t) ==
  /\ Release(t, "post")
  /\ draw' = [draw EXCEPT ![t] = 0]
  /\ acted' = [acted EXCEPT ![t] = TRUE]
  /\ UNCHANGED <<slots, pick, line>>

Letter(t, word, n) == letters' = letters \cup {<<Mine(t), word, n, t>>}

-----------------------------------------------------------------------------
(* hireme_post_offers, and the doors that read the board through it.        *)
\* Mutant: the slots are counted without the lock.
CountUnlocked(t) ==
  /\ step[t] = "post"
  /\ \E d \in began[t]..today :
       /\ began' = [began EXCEPT ![t] = d]
       /\ slots' = [slots EXCEPT ![t] =
                      Cardinality(Held(status, holder, Mine(t)) \ Stale(Mine(t), d))]
  /\ Go(t, "fill")
  /\ UNCHANGED <<missions, told, today, desk, lock, asked, draw, pick, line, acted>>

CountSlots(t) ==
  /\ step[t] = "post"
  /\ \E d \in 0..today :
       /\ Lock(t, d)
       /\ slots' = [slots EXCEPT ![t] =
                      Cardinality(Held(status, holder, Mine(t)) \ Stale(Mine(t), d))]
  /\ Go(t, "fill")
  /\ UNCHANGED <<missions, told, today, desk, asked, draw, pick, line, acted>>

\* What a door does with the board it read: offer more candidates while it is
\* short, act once, show it.
Door(t, offers, current) ==
  LET short == /\ asked[t].op # "opPost"
               /\ Cardinality(offers \cup current) < Slots
               /\ draw[t] + 1 < MaxDraws
      acts == {n \in offers : asked[t].op = "accept" /\ n = asked[t].number /\ ~acted[t]}
                \cup {n \in current : asked[t].op = "drop" /\ ~acted[t]}
  IN
  \/ /\ short
     /\ draw' = [draw EXCEPT ![t] = @ + 1]
     /\ Release(t, "post")
     /\ UNCHANGED <<slots, pick, line, acted>>
  \/ /\ ~short
     /\ \E n \in acts : pick' = [pick EXCEPT ![t] = n]
     /\ Release(t, asked[t].op)
     /\ UNCHANGED <<draw, slots, line, acted>>
  \/ ~short /\ acts = {} /\ Finish(t)

\* Mutant: an offer is posted without its posted_at.
PostUndated(t) ==
  LET h == Mine(t)
      stale == Stale(h, began[t])
  IN
  /\ step[t] = "fill"
  /\ \E new \in {ns \in SUBSET Free :
                    ns = {} \/ slots[t] + Cardinality(ns) <= Slots} :
       /\ status' = [n \in Numbers |-> IF n \in stale THEN "burned"
                                       ELSE IF n \in new THEN "offered" ELSE status[n]]
       /\ holder' = [n \in Numbers |-> IF n \in new THEN h ELSE holder[n]]
       /\ posted' = [n \in Numbers |-> IF n \in new THEN None ELSE posted[n]]
       /\ listed' = listed \cup new
       /\ Door(t, Offers(status', holder', h), Active(status', holder', h))
  /\ UNCHANGED <<told, today, desk, asked>>

\* A candidate that another transaction is entering is waited for, and skipped once that
\* commits: here the boards post in some order.  (Two that wait for each other's
\* candidates are a ring, of which one is aborted.)
PostOffers(t) ==
  LET h == Mine(t)
      stale == Stale(h, began[t])
  IN
  /\ step[t] = "fill"
  /\ \E new \in {ns \in SUBSET Free :
                    ns = {} \/ slots[t] + Cardinality(ns) <= Slots} :
       /\ status' = [n \in Numbers |-> IF n \in stale THEN "burned"
                                       ELSE IF n \in new THEN "offered" ELSE status[n]]
       /\ holder' = [n \in Numbers |-> IF n \in new THEN h ELSE holder[n]]
       /\ posted' = [n \in Numbers |-> IF n \in new THEN began[t] ELSE posted[n]]
       /\ listed' = listed \cup new
       /\ Door(t, Offers(status', holder', h), Active(status', holder', h))
  /\ UNCHANGED <<told, today, desk, asked>>

-----------------------------------------------------------------------------
(* hireme_accept and hireme_drop.                                           *)
CheckFree(t) ==
  /\ step[t] = "accept"
  /\ IF Active(status, holder, Mine(t)) # {}
       THEN lock[Mine(t)] = None /\ Reread(t)
       ELSE /\ \E d \in 0..today : Lock(t, d)
            /\ Go(t, "take")
            /\ UNCHANGED <<draw, slots, pick, line, acted>>
  /\ UNCHANGED <<missions, told, today, desk, asked>>

\* Mutant: an offer is taken by its number and age, whatever became of it.
TakeAnything(t) ==
  LET h == Mine(t)
      n == pick[t]
      live == holder[n] = h /\ posted[n] >= began[t]
  IN
  /\ step[t] = "take"
  /\ \/ /\ live /\ Active(status, holder, h) = {}
        /\ status' = [status EXCEPT ![n] = "accepted"]
        /\ Reread(t)
     \/ /\ live /\ Active(status, holder, h) # {}
        /\ Finish(t)
        /\ UNCHANGED status
     \/ /\ ~live
        /\ Reread(t)
        /\ UNCHANGED status
  /\ UNCHANGED <<holder, posted, listed, told, today, desk, asked>>

\* An offer that turned over is gone.  One active job per handle: the UPDATE waits
\* for a job the desk is inserting, and the unique index fails it when the desk
\* slipped one in since the check.
TakeOffer(t) ==
  LET h == Mine(t)
      n == pick[t]
      live == holder[n] = h /\ status[n] = "offered" /\ posted[n] >= began[t]
  IN
  /\ step[t] = "take"
  /\ live => ~Entered(h)
  /\ \/ /\ live /\ Active(status, holder, h) = {}
        /\ status' = [status EXCEPT ![n] = "accepted"]
        /\ Reread(t)
     \/ /\ live /\ Active(status, holder, h) # {}
        /\ Finish(t)
        /\ UNCHANGED status
     \/ /\ ~live
        /\ Reread(t)
        /\ UNCHANGED status
  /\ UNCHANGED <<holder, posted, listed, told, today, desk, asked>>

Drop(t) ==
  LET n == pick[t] IN
  /\ step[t] = "drop" /\ lock[Mine(t)] = None
  /\ status' = IF holder[n] = Mine(t) /\ status[n] = "accepted"
                 THEN [status EXCEPT ![n] = "abandoned"] ELSE status
  /\ Reread(t)
  /\ UNCHANGED <<holder, posted, listed, told, today, desk, asked>>

-----------------------------------------------------------------------------
(* A mail to a client: hireme_proof_open, the client's decision,            *)
(* hireme_complete and hireme_client_reply, each its own transaction.       *)
Answer(t, word, n) ==
  /\ line' = [line EXCEPT ![t] = word]
  /\ pick' = [pick EXCEPT ![t] = n]

\* The jobs are read without the lock; the first answer that fits is given.
OpenJobs(t) ==
  LET q == asked[t]
      here == {n \in Numbers : holder[n] = q.handle /\ ClientOf[n] = q.client}
      accepted == {n \in here : status[n] = "accepted"}
      closed == {n \in here : status[n] = "completed" /\ n = q.key}
  IN
  /\ step[t] = "open"
  /\ \/ /\ accepted = {} /\ closed = {}
        /\ Answer(t, "no contract", None) /\ Go(t, "reply")
     \/ /\ \E n \in closed : Answer(t, "closed", n)
        /\ Go(t, "reply")
     \/ /\ q.key = None
        /\ \E n \in accepted : Answer(t, "no key", n)
        /\ Go(t, "reply")
     \/ /\ q.key # None /\ q.key \notin accepted \cup closed
        /\ \E n \in accepted : Answer(t, "wrong key", n)
        /\ Go(t, "reply")
     \/ /\ q.key \in accepted
        /\ Answer(t, "none", q.key) /\ Go(t, "complete")
  /\ began' = [began EXCEPT ![t] = today]
  /\ UNCHANGED <<missions, told, today, desk, lock, asked, draw, slots, acted>>

\* Mutant: a job already completed is not looked for.
CheckNothing(t) ==
  /\ step[t] = "complete"
  /\ \E d \in 0..today : Lock(t, d)
  /\ Go(t, "close")
  /\ UNCHANGED <<missions, told, today, desk, asked, draw, slots, pick, line, acted>>

CheckDone(t) ==
  LET n == pick[t] IN
  /\ step[t] = "complete"
  /\ IF holder[n] = Mine(t) /\ status[n] = "completed"
       THEN /\ lock[Mine(t)] = None
            /\ Answer(t, "closed", n) /\ Go(t, "reply")
            /\ UNCHANGED <<lock, began>>
       ELSE /\ \E d \in 0..today : Lock(t, d)
            /\ Go(t, "close")
            /\ UNCHANGED <<pick, line>>
  /\ UNCHANGED <<missions, told, today, desk, asked, draw, slots, acted>>

\* Mutant: the job is closed by its number, whatever became of it.
CompleteAnything(t) ==
  LET n == pick[t] IN
  /\ step[t] = "close"
  /\ status' = [status EXCEPT ![n] = "completed"]
  /\ minted' = IF asked[t].wallet THEN [minted EXCEPT ![n] = @ + 1] ELSE minted
  /\ Letter(t, IF asked[t].wallet THEN "paid" ELSE "unpaid", n)
  /\ Finish(t)
  /\ UNCHANGED <<holder, posted, listed, today, desk, asked>>

\* The pay is minted to the wallet the mail named; the reply is delivered in
\* the same transaction.
Complete(t) ==
  LET n == pick[t] IN
  /\ step[t] = "close"
  /\ IF holder[n] = Mine(t) /\ status[n] = "accepted"
       THEN /\ status' = [status EXCEPT ![n] = "completed"]
            /\ minted' = IF asked[t].wallet THEN [minted EXCEPT ![n] = @ + 1] ELSE minted
            /\ Letter(t, IF asked[t].wallet THEN "paid" ELSE "unpaid", n)
            /\ Finish(t)
       ELSE /\ Answer(t, "no contract", n)
            /\ Release(t, "reply")
            /\ UNCHANGED <<status, told, draw, slots, acted>>
  /\ UNCHANGED <<holder, posted, listed, today, desk, asked>>

Reply(t) ==
  /\ step[t] = "reply" /\ lock[Mine(t)] = None
  /\ Letter(t, line[t], pick[t])
  /\ Finish(t)
  /\ UNCHANGED <<missions, minted, today, desk, asked>>

-----------------------------------------------------------------------------
(* hireme_apply.                                                            *)
\* Mutant: the applicant's row is read without FOR UPDATE.
FindUnlocked(t) ==
  LET h == Mine(t) IN
  /\ step[t] = "apply"
  /\ \/ h \notin Accounts /\ Finish(t)
     \/ /\ h \in Accounts
        /\ \E d \in began[t]..today :
             \/ /\ address[h] # None /\ mailed[h] >= d
                /\ Finish(t)
             \/ /\ address[h] = None \/ mailed[h] < d
                /\ began' = [began EXCEPT ![t] = d]
                /\ Go(t, IF address[h] = None THEN "newBoard" ELSE "resend")
                /\ UNCHANGED <<lock, draw, slots, pick, line, acted>>
  /\ UNCHANGED <<missions, told, today, desk, asked>>

FindBoard(t) ==
  LET h == Mine(t) IN
  /\ step[t] = "apply"
  /\ \/ h \notin Accounts /\ Finish(t)
     \/ /\ h \in Accounts
        /\ \E d \in 0..today :
             \/ /\ address[h] # None /\ mailed[h] >= d
                /\ lock[h] = None /\ d \in began[t]..today
                /\ Finish(t)
             \/ /\ address[h] = None \/ mailed[h] < d
                /\ Lock(t, d)
                /\ Go(t, IF address[h] = None THEN "newBoard" ELSE "resend")
                /\ UNCHANGED <<draw, slots, pick, line, acted>>
  /\ UNCHANGED <<missions, told, today, desk, asked>>

Mailed(t, h) ==
  /\ mailed' = [mailed EXCEPT ![h] = began[t]]
  /\ sent' = sent \cup {<<h, began[t], t>>}
  /\ Finish(t)

\* An address somebody's board is at is drawn again; an application still entering it
\* is waited for, and commits without waiting for anybody.
MakeBoard(t) ==
  LET h == Mine(t) IN
  /\ step[t] = "newBoard"
  /\ \E a \in Addresses :
       \/ /\ \A g \in Handles : address[g] # a
          /\ address[h] = None
          /\ address' = [address EXCEPT ![h] = a]
          /\ Mailed(t, h)
       \/ /\ \E g \in Handles : address[g] = a
          /\ UNCHANGED <<address, mailed, sent>>
          /\ IF draw[t] + 1 < MaxDraws
               THEN /\ draw' = [draw EXCEPT ![t] = @ + 1]
                    /\ Release(t, "apply")
                    /\ UNCHANGED <<slots, pick, line, acted>>
               ELSE Finish(t)
  /\ UNCHANGED <<missions, told, today, asked>>

MailAgain(t) ==
  /\ step[t] = "resend"
  /\ Mailed(t, Mine(t))
  /\ UNCHANGED <<missions, told, today, address, asked>>

-----------------------------------------------------------------------------
(* The operator's desk, scripts/hireme.ts: a commit per statement.          *)
DeskReadsFree(t) ==
  /\ step[t] = "opAccept"
  /\ IF Mine(t) \notin Accounts \/ Active(status, holder, Mine(t)) # {}
       THEN Finish(t)
       ELSE Go(t, "opNumber") /\ UNCHANGED <<lock, began, draw, slots, pick, line, acted>>
  /\ UNCHANGED <<missions, told, today, desk, asked>>

\* A number given as None is drawn until one is free.
DeskReadsNumber(t) ==
  LET q == asked[t].number
      free == {n \in Numbers : status[n] = "none"}
  IN
  /\ step[t] = "opNumber"
  /\ \/ /\ \E n \in {m \in free : q \in {m, None}} : pick' = [pick EXCEPT ![t] = n]
        /\ Go(t, "opInsert")
        /\ UNCHANGED <<lock, began, draw, slots, line, acted>>
     \/ {m \in free : q \in {m, None}} = {} /\ Finish(t)
  /\ UNCHANGED <<missions, told, today, desk, asked>>

\* Mutant: no index keeps a handle to one accepted row.
DeskInsertsSecond(t) ==
  LET n == pick[t] IN
  /\ step[t] = "opInsert"
  /\ \A s \in Entries : pick[s] # n
  /\ IF status[n] = "none"
       THEN Go(t, "opCommit") /\ UNCHANGED <<lock, began, draw, slots, pick, line, acted>>
       ELSE Finish(t)
  /\ UNCHANGED <<missions, told, today, desk, asked>>

\* The row and its index entries, which wait for another's and are refused by a
\* committed one.
DeskInserts(t) ==
  LET n == pick[t] IN
  /\ step[t] = "opInsert"
  /\ n \notin {pick[s] : s \in Entries} /\ ~Entered(Mine(t))
  /\ IF status[n] = "none" /\ Active(status, holder, Mine(t)) = {}
       THEN Go(t, "opCommit") /\ UNCHANGED <<lock, began, draw, slots, pick, line, acted>>
       ELSE Finish(t)
  /\ UNCHANGED <<missions, told, today, desk, asked>>

\* The foreign key: FOR KEY SHARE on the account's row, which waits for whoever holds
\* it FOR UPDATE; then the commit.  If the holder waits for this entry, one of the two
\* is aborted (Fail).
DeskCommits(t) ==
  /\ step[t] = "opCommit" /\ lock[Mine(t)] = None
  /\ status' = [status EXCEPT ![pick[t]] = "accepted"]
  /\ holder' = [holder EXCEPT ![pick[t]] = Mine(t)]
  /\ Finish(t)
  /\ UNCHANGED <<posted, listed, told, today, desk, asked>>

DeskReadsJob(t) ==
  LET active == Active(status, holder, Mine(t)) IN
  /\ step[t] = "opDrop"
  /\ IF active = {}
       THEN Finish(t)
       ELSE /\ \E n \in active : pick' = [pick EXCEPT ![t] = n]
            /\ Go(t, "opClose")
            /\ UNCHANGED <<lock, began, draw, slots, line, acted>>
  /\ UNCHANGED <<missions, told, today, desk, asked>>

\* By number alone.
DeskCloses(t) ==
  /\ step[t] = "opClose"
  /\ status' = [status EXCEPT ![pick[t]] = "abandoned"]
  /\ Finish(t)
  /\ UNCHANGED <<holder, posted, listed, told, today, desk, asked>>

DeskBurns(t) ==
  /\ step[t] = "opPost"
  /\ status' = [n \in Numbers |-> IF n \in Offers(status, holder, Mine(t))
                                    THEN "burned" ELSE status[n]]
  /\ IF Mine(t) \in Accounts
       THEN Release(t, "post") /\ UNCHANGED <<draw, slots, pick, line, acted>>
       ELSE Finish(t)
  /\ UNCHANGED <<holder, posted, listed, told, today, desk, asked>>

-----------------------------------------------------------------------------
\* A statement fails, or the deadlock detector picks it: what its transaction had not
\* committed is undone.
Fail(t) ==
  /\ step[t] # "done"
  /\ Finish(t)
  /\ UNCHANGED <<missions, told, today, desk, asked>>

NextDay ==
  /\ today < Days
  /\ today' = today + 1
  /\ UNCHANGED <<missions, told, desk, lock, asked, local>>

Step(t) ==
  \/ CountSlots(t) \/ PostOffers(t) \/ CheckFree(t) \/ TakeOffer(t) \/ Drop(t)
  \/ OpenJobs(t) \/ CheckDone(t) \/ Complete(t) \/ Reply(t)
  \/ FindBoard(t) \/ MakeBoard(t) \/ MailAgain(t)
  \/ DeskReadsFree(t) \/ DeskReadsNumber(t) \/ DeskInserts(t) \/ DeskCommits(t)
  \/ DeskReadsJob(t) \/ DeskCloses(t) \/ DeskBurns(t)

Next == NextDay \/ \E t \in Txs : Step(t) \/ Fail(t)

Spec == Init /\ [][Next]_vars

-----------------------------------------------------------------------------
Steps == {"post", "fill", "accept", "take", "drop", "open", "complete", "close", "reply",
          "apply", "newBoard", "resend", "opAccept", "opNumber", "opInsert", "opCommit",
          "opDrop", "opClose", "opPost", "done"}
Words == {"none", "no contract", "closed", "no key", "wrong key", "paid", "unpaid"}

TypeOK ==
  /\ status \in [Numbers -> Status]
  /\ holder \in [Numbers -> Handles \cup {None}]
  /\ posted \in [Numbers -> Nat]
  /\ listed \subseteq Numbers
  /\ minted \in [Numbers -> Nat]
  /\ letters \subseteq Handles \X Words \X (Numbers \cup {None}) \X (Txs \cup {None})
  /\ today \in Nat
  /\ address \in [Handles -> Addresses \cup {None}]
  /\ mailed \in [Handles -> Nat]
  /\ sent \subseteq Handles \X Nat \X (Txs \cup {None})
  /\ lock \in [Handles -> Txs \cup {None}]
  /\ asked \in [Txs -> Ask]
  /\ step \in [Txs -> Steps]
  /\ began \in [Txs -> Nat] /\ draw \in [Txs -> Nat] /\ slots \in [Txs -> Nat]
  /\ pick \in [Txs -> Numbers \cup {None}]
  /\ line \in [Txs -> Words]
  /\ acted \in [Txs -> BOOLEAN]

\* However many reads of a board run at once, the offers it posts and the job
\* taken from them never pass its slots (hireme_contracts.sql:9-17).
SlotsHold ==
  \A h \in Handles : Cardinality(Held(status, holder, h) \cap listed) <= Slots

\* A handle works one job at a time, so a key is never for two
\* (hireme_missions.sql:28-32).
OneActiveJob ==
  \A h \in Handles : \A m, n \in Active(status, holder, h) : m = n

\* A job's pay is minted once at most, and exactly when its contractor was
\* told so: of two right mails at once the second mints nothing
\* (hireme_completion.sql:20-29).
PaidOnceAndTold ==
  \A n \in Numbers :
    /\ minted[n] = Cardinality({l \in letters : l[2] = "paid" /\ l[3] = n})
    /\ minted[n] <= 1

\* A client tells the truth about the job a mail was for: "closed" only of one
\* completed, and "no contract" to its right key only once it was dropped.
ClientsTellTrue ==
  \A l \in letters :
    /\ l[2] = "closed" => \E k \in letters : k[2] \in {"paid", "unpaid"} /\ k[3] = l[3]
    /\ l[2] = "no contract" /\ l[3] # None => status[l[3]] = "abandoned"

\* Applications for one handle, however many at once, have its board mailed
\* no more than once in 24 hours (hireme_boards.sql:16, 27-29).
BoardMailedOnceADay ==
  \A a, b \in sent : a[1] = b[1] /\ a[2] = b[2] => a = b

\* The addresses the rest of the world sees: networkByPublicIp answers for the
\* accepted, completed and abandoned.
Net == INSTANCE JobNetwork WITH
  standing <- {n \in Numbers : status[n] \in {"accepted", "completed", "abandoned"}},
  dead <- {n \in Numbers : status[n] = "burned"}

\* A contract's network that once stood stands for good, and a burned offer
\* never gets one, whatever the boards, the mails and the desk do meanwhile.
NetworksStand == Net!Spec

\* "abandoned: the contractor dropped it. Reachable, for good; pays nothing"
\* (hireme_missions.sql:26).
AbandonedPaysNothing ==
  \A n \in Numbers : status[n] = "abandoned" => minted[n] = 0
=============================================================================
