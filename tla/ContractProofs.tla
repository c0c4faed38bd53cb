--------------------------- MODULE ContractProofs ---------------------------
(* What holds of the contracts for any number of contractors, contracts and *)
(* requests, and for boards of any size.                                    *)
EXTENDS Contracts, TLAPS, FiniteSetTheorems

-----------------------------------------------------------------------------
(* The invariants the theorems rest on.                                    *)

\* A row has a contractor, and a listed number a row.
RowsHaveContractors ==
  /\ \A n \in Numbers : status[n] = "none" <=> holder[n] = None
  /\ \A n \in listed : status[n] # "none"

\* What the desk is inserting is there for nobody else: its number has no row, its
\* handle no job, and no other insert has either.
EntriesStand ==
  \A t \in Entries :
    /\ status[pick[t]] = "none" /\ Active(status, holder, Mine(t)) = {}
    /\ \A u \in Entries \ {t} : pick[u] # pick[t] /\ Mine(u) # Mine(t)

\* A request about a number knows which, and what was read of it still bounds
\* what became of it.
NumbersInHand ==
  /\ EntriesStand
  /\ \A t \in Txs : LET n == pick[t] s == step[t] IN
    /\ s \in {"accept", "take", "drop", "complete", "close", "opInsert", "opCommit", "opClose"}
         => n \in Numbers
    /\ s = "opClose" => status[n] \in {"accepted", "completed", "abandoned"}
    /\ s \in {"complete", "close"}
         => holder[n] = Mine(t) /\ status[n] \in {"accepted", "completed", "abandoned"}
    /\ s = "close" => lock[Mine(t)] = t /\ status[n] # "completed"

\* What a fill counted under the lock still bounds what the board holds.
SlotsCounted ==
  \A t \in Txs :
    /\ step[t] \in {"fill", "take"} => lock[Mine(t)] = t
    /\ step[t] = "fill" =>
         Cardinality((Held(status, holder, Mine(t)) \cap listed) \ Stale(Mine(t), began[t]))
           <= slots[t]

\* Nobody is told of a job's end before it ended, everybody after.
EndsAreTold ==
  \A n \in Numbers :
    /\ status[n] \in {"none", "offered", "burned", "accepted"}
         => \A l \in letters : l[2] \in {"paid", "unpaid"} => l[3] # n
    /\ status[n] = "completed" => \E l \in letters : l[2] \in {"paid", "unpaid"} /\ l[3] = n

\* Pay and its letter go together.
PaidOnce ==
  \A n \in Numbers :
    \/ minted[n] = 0 /\ {l \in letters : l[2] = "paid" /\ l[3] = n} = {}
    \/ minted[n] = 1 /\ \E k : {l \in letters : l[2] = "paid" /\ l[3] = n} = {k}

\* The answer a client is about to give is true.
LinesTrue ==
  \A t \in Txs : step[t] = "reply" =>
    /\ line[t] \notin {"paid", "unpaid"}
    /\ line[t] = "closed" => pick[t] \in Numbers /\ \E l \in letters :
                               l[2] \in {"paid", "unpaid"} /\ l[3] = pick[t]
    /\ line[t] = "no contract" /\ pick[t] # None
         => pick[t] \in Numbers /\ status[pick[t]] = "abandoned"

\* The mailing a board remembers is its last, and one about to be mailed again
\* is locked and due.
BoardsMailed ==
  /\ \A s \in sent : address[s[1]] # None /\ s[2] <= mailed[s[1]]
  /\ \A t \in Txs : step[t] = "resend" =>
       lock[Mine(t)] = t /\ address[Mine(t)] # None /\ mailed[Mine(t)] < began[t]

-----------------------------------------------------------------------------
(* What a step does to the other requests.                                 *)

\* The request's own state is all that changes of the requests', and the row
\* of another request's account stays locked.
Alone(t) ==
  /\ \A u \in Txs : u # t =>
       /\ step'[u] = step[u] /\ began'[u] = began[u] /\ slots'[u] = slots[u]
       /\ pick'[u] = pick[u] /\ line'[u] = line[u]
  /\ \A h \in Handles : lock[h] \notin {t, None} => lock'[h] = lock[h]

LEMMA FinishAlone ==
  ASSUME TypeOK, NEW t \in Txs, Finish(t)
  PROVE  Alone(t)
BY DEF TypeOK, Finish, Unlocked, Go, Alone

LEMMA ReleaseAlone ==
  ASSUME TypeOK, NEW t \in Txs, NEW s, Release(t, s),
         \E n, w : /\ slots' = slots /\ pick' \in {pick, [pick EXCEPT ![t] = n]}
                   /\ line' \in {line, [line EXCEPT ![t] = w]}
  PROVE  Alone(t)
BY DEF TypeOK, Release, Unlocked, Go, Alone

LEMMA LockAlone ==
  ASSUME TypeOK, NEW t \in Txs, NEW d, NEW s, NEW n, Lock(t, d), Go(t, s),
         slots' \in {slots, [slots EXCEPT ![t] = n]}, UNCHANGED <<pick, line>>
  PROVE  Alone(t)
<1>1. Mine(t) \in Handles
  BY DEF TypeOK, Ask, Mine
<1> QED
  BY <1>1 DEF TypeOK, Lock, Go, Alone

\* A door ends, or goes on outside its transaction.
LEMMA DoorAlone ==
  ASSUME TypeOK, NEW t \in Txs, NEW offers, NEW current, Door(t, offers, current)
  PROVE  Alone(t)
<1>1. CASE Finish(t)
  BY <1>1, FinishAlone
<1>2. CASE Release(t, "post") /\ UNCHANGED <<slots, pick, line>>
  BY <1>2, ReleaseAlone
<1>3. CASE \E n : Release(t, asked[t].op) /\ pick' = [pick EXCEPT ![t] = n]
                    /\ UNCHANGED <<slots, line>>
  BY <1>3, ReleaseAlone
<1> QED
  BY <1>1, <1>2, <1>3 DEF Door

LEMMA StepAlone ==
  ASSUME TypeOK, NEW t \in Txs, Step(t) \/ Fail(t)
  PROVE  Alone(t)
<1>1. CASE CountSlots(t)
  BY <1>1, LockAlone DEF CountSlots
<1>2. CASE PostOffers(t)
  BY <1>2, DoorAlone DEF PostOffers
<1>3. CASE CheckFree(t)
  BY <1>3, LockAlone, ReleaseAlone DEF CheckFree, Reread
<1>4. CASE TakeOffer(t) \/ Drop(t)
  BY <1>4, FinishAlone, ReleaseAlone DEF TakeOffer, Drop, Reread
<1>5. CASE OpenJobs(t)
  BY <1>5 DEF OpenJobs, Answer, Go, Alone, TypeOK
<1>6. CASE CheckDone(t)
  <2>1. CASE lock' = lock /\ began' = began
    BY <1>6, <2>1 DEF CheckDone, Answer, Go, Alone, TypeOK
  <2> QED
    BY <1>6, <2>1, LockAlone DEF CheckDone
<1>7. CASE Complete(t) \/ Reply(t)
  BY <1>7, FinishAlone, ReleaseAlone DEF Complete, Reply, Answer
<1>8. CASE FindBoard(t)
  BY <1>8, FinishAlone, LockAlone DEF FindBoard
<1>9. CASE MakeBoard(t) \/ MailAgain(t)
  BY <1>9, FinishAlone, ReleaseAlone DEF MakeBoard, MailAgain, Mailed
<1>10. CASE DeskReadsFree(t) \/ DeskReadsNumber(t) \/ DeskReadsJob(t) \/ DeskInserts(t)
  <2>1. CASE Finish(t)
    BY <2>1, FinishAlone
  <2>2. CASE ~Finish(t)
    BY <1>10, <2>2 DEF DeskReadsFree, DeskReadsNumber, DeskReadsJob, DeskInserts, Go, Alone,
       TypeOK
  <2> QED
    BY <2>1, <2>2
<1>11. CASE DeskCommits(t) \/ DeskCloses(t) \/ DeskBurns(t) \/ Fail(t)
  BY <1>11, FinishAlone, ReleaseAlone DEF DeskCommits, DeskCloses, DeskBurns, Fail
<1> QED
  BY <1>1, <1>2, <1>3, <1>4, <1>5, <1>6, <1>7, <1>8, <1>9, <1>10, <1>11 DEF Step

-----------------------------------------------------------------------------
(* Types.                                                                  *)

\* The requests' own state.
LocalOK ==
  /\ lock \in [Handles -> Txs \cup {None}]
  /\ step \in [Txs -> Steps]
  /\ began \in [Txs -> Nat] /\ draw \in [Txs -> Nat] /\ slots \in [Txs -> Nat]
  /\ pick \in [Txs -> Numbers \cup {None}]
  /\ line \in [Txs -> Words]
  /\ acted \in [Txs -> BOOLEAN]

LEMMA FinishTyped ==
  ASSUME TypeOK, NEW t \in Txs, Finish(t)
  PROVE  LocalOK'
<1>1. step' \in [Txs -> Steps]
  BY DEF TypeOK, Finish, Go, Steps
<1>2. line' \in [Txs -> Words]
  BY DEF TypeOK, Finish, Words
<1>3. lock' \in [Handles -> Txs \cup {None}]
  BY DEF TypeOK, Finish, Unlocked
<1> QED
  BY <1>1, <1>2, <1>3 DEF TypeOK, Finish, LocalOK

LEMMA ReleaseTyped ==
  ASSUME TypeOK, NEW t \in Txs, NEW s \in Steps, Release(t, s)
  PROVE  /\ lock' \in [Handles -> Txs \cup {None}] /\ step' \in [Txs -> Steps]
         /\ began' \in [Txs -> Nat]
BY DEF TypeOK, Release, Unlocked, Go

LEMMA LockTyped ==
  ASSUME TypeOK, NEW t \in Txs, NEW d \in Nat, NEW s \in Steps, Lock(t, d), Go(t, s)
  PROVE  /\ lock' \in [Handles -> Txs \cup {None}] /\ step' \in [Txs -> Steps]
         /\ began' \in [Txs -> Nat]
BY DEF TypeOK, Lock, Go

LEMMA RereadTyped ==
  ASSUME TypeOK, NEW t \in Txs, Reread(t)
  PROVE  LocalOK'
<1>1. "post" \in Steps
  BY DEF Steps
<1>2. /\ lock' \in [Handles -> Txs \cup {None}] /\ step' \in [Txs -> Steps]
      /\ began' \in [Txs -> Nat]
  BY <1>1, ReleaseTyped DEF Reread
<1> QED
  BY <1>2 DEF Reread, TypeOK, LocalOK

LEMMA DoorTyped ==
  ASSUME TypeOK, NEW t \in Txs, NEW offers \in SUBSET Numbers,
         NEW current \in SUBSET Numbers, Door(t, offers, current)
  PROVE  LocalOK'
<1>1. CASE Finish(t)
  BY <1>1, FinishTyped
<1>2. CASE /\ Release(t, "post") /\ draw' = [draw EXCEPT ![t] = @ + 1]
           /\ UNCHANGED <<slots, pick, line, acted>>
  <2>1. "post" \in Steps
    BY DEF Steps
  <2>2. draw[t] + 1 \in Nat
    BY DEF TypeOK
  <2> QED
    BY <1>2, <2>1, <2>2, ReleaseTyped DEF TypeOK, LocalOK
<1>3. ASSUME NEW n \in Numbers, pick' = [pick EXCEPT ![t] = n], Release(t, asked[t].op),
             asked[t].op \in {"accept", "drop"}, UNCHANGED <<draw, slots, line, acted>>
      PROVE  LocalOK'
  <2>1. asked[t].op \in Steps
    BY <1>3 DEF Steps
  <2> QED
    BY <1>3, <2>1, ReleaseTyped DEF TypeOK, LocalOK
<1> QED
  BY <1>1, <1>2, <1>3 DEF Door

\* What is counted is a number.
LEMMA Counted ==
  ASSUME NEW S \in SUBSET Numbers
  PROVE  IsFiniteSet(S) /\ Cardinality(S) \in Nat
BY NumbersAssumption, FS_Subset, FS_CardinalityType

LEMMA LocalTyped ==
  ASSUME TypeOK, NumbersInHand, NEW t \in Txs, Step(t) \/ Fail(t)
  PROVE  LocalOK'
<1>0. /\ today \in Nat /\ draw[t] \in Nat /\ draw[t] + 1 \in Nat
      /\ \A d \in 0..today : d \in Nat
  BY DEF TypeOK
<1>1. CASE CountSlots(t)
  <2>1. PICK d \in 0..today : Lock(t, d)
    BY <1>1 DEF CountSlots
  <2>2. d \in Nat /\ "fill" \in Steps
    BY <1>0 DEF Steps
  <2>3. /\ lock' \in [Handles -> Txs \cup {None}] /\ step' \in [Txs -> Steps]
        /\ began' \in [Txs -> Nat]
    BY <1>1, <2>1, <2>2, LockTyped DEF CountSlots
  <2>4. slots' \in [Txs -> Nat]
    <3>1. \E S \in SUBSET Numbers : slots' = [slots EXCEPT ![t] = Cardinality(S)]
      BY <1>1 DEF CountSlots, Held
    <3> QED
      BY <3>1, Counted DEF TypeOK
  <2> QED
    BY <1>1, <2>3, <2>4 DEF CountSlots, TypeOK, LocalOK
<1>2. CASE PostOffers(t)
  <2>1. /\ Offers(status', holder', Mine(t)) \in SUBSET Numbers
        /\ Active(status', holder', Mine(t)) \in SUBSET Numbers
    BY DEF Offers, Active
  <2>2. Door(t, Offers(status', holder', Mine(t)), Active(status', holder', Mine(t)))
    BY <1>2 DEF PostOffers
  <2> QED
    BY <2>1, <2>2, DoorTyped
<1>3. CASE CheckFree(t)
  <2>1. CASE Reread(t)
    BY <2>1, RereadTyped
  <2>2. CASE ~Reread(t)
    <3>1. PICK d \in 0..today : Lock(t, d)
      BY <1>3, <2>2 DEF CheckFree
    <3>2. d \in Nat /\ "take" \in Steps /\ Go(t, "take")
      BY <1>0, <1>3, <2>2 DEF Steps, CheckFree
    <3>3. UNCHANGED <<draw, slots, pick, line, acted>>
      BY <1>3, <2>2 DEF CheckFree
    <3> QED
      BY <3>1, <3>2, <3>3, LockTyped DEF TypeOK, LocalOK
  <2> QED
    BY <2>1, <2>2
<1>4. CASE TakeOffer(t) \/ Drop(t)
  BY <1>4, FinishTyped, RereadTyped DEF TakeOffer, Drop
<1>5. CASE OpenJobs(t)
  <2>1. /\ \E w \in Words, n \in Numbers \cup {None} :
             line' = [line EXCEPT ![t] = w] /\ pick' = [pick EXCEPT ![t] = n]
        /\ \E s \in Steps : step' = [step EXCEPT ![t] = s]
    BY <1>5 DEF OpenJobs, Answer, Go, Words, Steps
  <2>2. /\ began' = [began EXCEPT ![t] = today]
        /\ UNCHANGED <<lock, draw, slots, acted>>
    BY <1>5 DEF OpenJobs
  <2> QED
    BY <1>0, <2>1, <2>2 DEF TypeOK, LocalOK
<1>6. CASE CheckDone(t)
  <2>1. pick[t] \in Numbers
    BY <1>6 DEF CheckDone, NumbersInHand
  <2>2. CASE Answer(t, "closed", pick[t]) /\ Go(t, "reply") /\ UNCHANGED <<lock, began>>
    BY <1>6, <2>1, <2>2 DEF CheckDone, Answer, Go, Words, Steps, TypeOK, LocalOK
  <2>3. CASE \E d \in 0..today : /\ Lock(t, d) /\ Go(t, "close")
                                 /\ UNCHANGED <<pick, line>>
    <3>1. PICK d \in 0..today : Lock(t, d) /\ Go(t, "close") /\ UNCHANGED <<pick, line>>
      BY <2>3
    <3>2. d \in Nat /\ "close" \in Steps
      BY <1>0 DEF Steps
    <3>3. UNCHANGED <<draw, slots, acted>>
      BY <1>6 DEF CheckDone
    <3> QED
      BY <3>1, <3>2, <3>3, LockTyped DEF TypeOK, LocalOK
  <2> QED
    BY <1>6, <2>2, <2>3 DEF CheckDone
<1>7. CASE Complete(t)
  <2>1. CASE Finish(t)
    BY <2>1, FinishTyped
  <2>2. CASE ~Finish(t)
    <3>1. /\ Answer(t, "no contract", pick[t]) /\ Release(t, "reply")
          /\ UNCHANGED <<draw, slots, acted>>
      BY <1>7, <2>2 DEF Complete
    <3>2. "reply" \in Steps
      BY DEF Steps
    <3>3. /\ lock' \in [Handles -> Txs \cup {None}] /\ step' \in [Txs -> Steps]
          /\ began' \in [Txs -> Nat]
      BY <3>1, <3>2, ReleaseTyped
    <3> QED
      BY <3>1, <3>3 DEF Answer, Words, TypeOK, LocalOK
  <2> QED
    BY <2>1, <2>2
<1>8. CASE FindBoard(t)
  <2>1. CASE Finish(t)
    BY <2>1, FinishTyped
  <2>2. CASE ~Finish(t)
    <3>1. PICK d \in 0..today, s \in {"newBoard", "resend"} : Lock(t, d) /\ Go(t, s)
      BY <1>8, <2>2 DEF FindBoard
    <3>2. d \in Nat /\ s \in Steps
      BY <1>0, <3>1 DEF Steps
    <3>3. UNCHANGED <<draw, slots, pick, line, acted>>
      BY <1>8, <2>2 DEF FindBoard
    <3> QED
      BY <3>1, <3>2, <3>3, LockTyped DEF TypeOK, LocalOK
  <2> QED
    BY <2>1, <2>2
<1>9. CASE MakeBoard(t)
  <2>1. CASE Finish(t)
    BY <2>1, FinishTyped
  <2>2. CASE ~Finish(t)
    <3>1. /\ Release(t, "apply") /\ draw' = [draw EXCEPT ![t] = @ + 1]
          /\ UNCHANGED <<slots, pick, line, acted>>
      BY <1>9, <2>2 DEF MakeBoard, Mailed
    <3>2. "apply" \in Steps /\ draw[t] + 1 \in Nat
      BY <1>0 DEF Steps
    <3> QED
      BY <3>1, <3>2, ReleaseTyped DEF TypeOK, LocalOK
  <2> QED
    BY <2>1, <2>2
<1>10. CASE DeskReadsFree(t) \/ DeskReadsNumber(t) \/ DeskReadsJob(t) \/ DeskInserts(t)
  <2>1. CASE Finish(t)
    BY <2>1, FinishTyped
  <2>2. CASE ~Finish(t)
    <3>1. /\ \E s \in Steps : step' = [step EXCEPT ![t] = s]
          /\ \/ UNCHANGED pick
             \/ \E n \in Numbers : pick' = [pick EXCEPT ![t] = n]
      BY <1>10, <2>2 DEF DeskReadsFree, DeskReadsNumber, DeskReadsJob, DeskInserts, Active,
         Go, Steps
    <3>2. UNCHANGED <<lock, began, draw, slots, line, acted>>
      BY <1>10, <2>2 DEF DeskReadsFree, DeskReadsNumber, DeskReadsJob, DeskInserts
    <3> QED
      BY <3>1, <3>2 DEF TypeOK, LocalOK
  <2> QED
    BY <2>1, <2>2
<1>11. CASE Reply(t) \/ MailAgain(t) \/ DeskCommits(t) \/ DeskCloses(t) \/ Fail(t)
  BY <1>11, FinishTyped DEF Reply, MailAgain, Mailed, DeskCommits, DeskCloses, Fail
<1>12. CASE DeskBurns(t)
  <2>1. "post" \in Steps
    BY DEF Steps
  <2>2. \/ Finish(t)
        \/ Release(t, "post") /\ UNCHANGED <<draw, slots, pick, line, acted>>
    BY <1>12 DEF DeskBurns
  <2> QED
    BY <2>1, <2>2, FinishTyped, ReleaseTyped DEF TypeOK, LocalOK
<1> QED
  BY <1>1, <1>2, <1>3, <1>4, <1>5, <1>6, <1>7, <1>8, <1>9, <1>10, <1>11, <1>12 DEF Step

\* Nobody is asked anything else once the requests begin.
LEMMA AskedStands ==
  ASSUME NEW t \in Txs, Step(t) \/ Fail(t)
  PROVE  asked' = asked /\ today' = today
BY DEF Step, Fail, CountSlots, PostOffers, CheckFree, TakeOffer, Drop, OpenJobs, CheckDone,
   Complete, Reply, FindBoard, MakeBoard, MailAgain, DeskReadsFree, DeskReadsNumber,
   DeskInserts, DeskCommits, DeskReadsJob, DeskCloses, DeskBurns

\* What a step may do to the row of a number.
Same(n) == status'[n] = status[n] /\ holder'[n] = holder[n] /\ (n \in listed' <=> n \in listed)
Burned(t, n) ==
  /\ PostOffers(t) \/ DeskBurns(t)
  /\ status[n] = "offered" /\ status'[n] = "burned"
  /\ holder'[n] = holder[n] /\ (n \in listed' <=> n \in listed)
Posted(t, n) ==
  /\ PostOffers(t) /\ status[n] = "none" /\ status'[n] = "offered"
  /\ holder'[n] = Mine(t) /\ n \in listed'
Taken(t, n) ==
  /\ TakeOffer(t) /\ n = pick[t]
  /\ status[n] = "offered" /\ status'[n] = "accepted"
  /\ holder[n] = Mine(t) /\ Active(status, holder, Mine(t)) = {}
  /\ holder'[n] = holder[n] /\ (n \in listed' <=> n \in listed)
Inserted(t, n) ==
  /\ DeskCommits(t) /\ n = pick[t]
  /\ status[n] = "none" /\ status'[n] = "accepted"
  /\ holder'[n] = Mine(t) /\ Active(status, holder, Mine(t)) = {}
  /\ (n \in listed' <=> n \in listed)
Completed(t, n) ==
  /\ Complete(t) /\ n = pick[t]
  /\ status[n] = "accepted" /\ status'[n] = "completed"
  /\ holder'[n] = holder[n] /\ (n \in listed' <=> n \in listed)
Abandoned(n) ==
  /\ status[n] \in {"accepted", "completed"} /\ status'[n] = "abandoned"
  /\ holder'[n] = holder[n] /\ (n \in listed' <=> n \in listed)

LEMMA MissionsMove ==
  ASSUME TypeOK, NumbersInHand, NEW t \in Txs, Step(t) \/ Fail(t), NEW n \in Numbers
  PROVE  \/ Same(n) \/ Burned(t, n) \/ Posted(t, n) \/ Taken(t, n) \/ Inserted(t, n)
         \/ Completed(t, n) \/ Abandoned(n)
<1>1. CASE UNCHANGED missions
  BY <1>1 DEF missions, Same
<1>2. CASE PostOffers(t)
  <2>1. PICK new \in SUBSET {m \in Numbers : status[m] = "none"} :
          /\ status' = [m \in Numbers |-> IF m \in Stale(Mine(t), began[t]) THEN "burned"
                                          ELSE IF m \in new THEN "offered" ELSE status[m]]
          /\ holder' = [m \in Numbers |-> IF m \in new THEN Mine(t) ELSE holder[m]]
          /\ listed' = listed \cup new
    BY <1>2 DEF PostOffers, Free
  <2>2. \A m \in Stale(Mine(t), began[t]) : status[m] = "offered"
    BY DEF Stale, Offers
  <2>3. CASE n \in Stale(Mine(t), began[t])
    BY <1>2, <2>1, <2>2, <2>3 DEF Burned
  <2>4. CASE n \notin Stale(Mine(t), began[t]) /\ n \in new
    BY <1>2, <2>1, <2>4 DEF Posted
  <2>5. CASE n \notin Stale(Mine(t), began[t]) /\ n \notin new
    BY <2>1, <2>5 DEF Same
  <2> QED
    BY <2>3, <2>4, <2>5
<1>3. CASE TakeOffer(t)
  BY <1>1, <1>3 DEF TakeOffer, missions, TypeOK, Taken, Same
<1>4. CASE Drop(t)
  BY <1>4 DEF Drop, TypeOK, Abandoned, Same
<1>5. CASE Complete(t)
  BY <1>5 DEF Complete, TypeOK, Completed, Same
<1>6. CASE DeskCommits(t)
  <2>1. /\ pick[t] \in Numbers /\ status[pick[t]] = "none"
        /\ Active(status, holder, Mine(t)) = {}
    BY <1>6 DEF DeskCommits, NumbersInHand, EntriesStand, Entries
  <2> QED
    BY <1>6, <2>1 DEF DeskCommits, TypeOK, Inserted, Same
<1>7. CASE DeskCloses(t)
  <2>1. pick[t] \in Numbers /\ status[pick[t]] \in {"accepted", "completed", "abandoned"}
    BY <1>7 DEF DeskCloses, NumbersInHand
  <2> QED
    BY <1>7, <2>1 DEF DeskCloses, TypeOK, Abandoned, Same
<1>8. CASE DeskBurns(t)
  <2>1. \A m \in Offers(status, holder, Mine(t)) : status[m] = "offered"
    BY DEF Offers
  <2> QED
    BY <1>8, <2>1 DEF DeskBurns, Burned, Same
<1> QED
  BY <1>1, <1>2, <1>3, <1>4, <1>5, <1>6, <1>7, <1>8 DEF Step, Fail, CountSlots, CheckFree,
     OpenJobs, CheckDone, Reply, FindBoard, MakeBoard, MailAgain, DeskReadsFree,
     DeskReadsNumber, DeskInserts, DeskReadsJob

\* A letter is written by the mail it answers.
LEMMA LettersMove ==
  ASSUME NEW t \in Txs, Step(t) \/ Fail(t)
  PROVE  \/ UNCHANGED told
         \/ Reply(t) /\ Letter(t, line[t], pick[t]) /\ UNCHANGED minted
         \/ /\ Complete(t) /\ holder[pick[t]] = Mine(t) /\ status[pick[t]] = "accepted"
            /\ \/ asked[t].wallet /\ Letter(t, "paid", pick[t])
                    /\ minted' = [minted EXCEPT ![pick[t]] = @ + 1]
               \/ ~asked[t].wallet /\ Letter(t, "unpaid", pick[t]) /\ UNCHANGED minted
<1>1. CASE Complete(t)
  BY <1>1 DEF Complete
<1>2. CASE Reply(t)
  BY <1>2 DEF Reply
<1> QED
  BY <1>1, <1>2 DEF Step, Fail, CountSlots, PostOffers, CheckFree, TakeOffer, Drop, OpenJobs,
     CheckDone, FindBoard, MakeBoard, MailAgain, DeskReadsFree, DeskReadsNumber,
     DeskInserts, DeskCommits, DeskReadsJob, DeskCloses, DeskBurns

\* A board is mailed by the application it answers.
LEMMA DeskMoves ==
  ASSUME NEW t \in Txs, Step(t) \/ Fail(t)
  PROVE  \/ UNCHANGED desk
         \/ /\ MakeBoard(t) /\ address[Mine(t)] = None
            /\ \E a \in Addresses : address' = [address EXCEPT ![Mine(t)] = a]
            /\ Mailed(t, Mine(t))
         \/ MailAgain(t) /\ UNCHANGED address /\ Mailed(t, Mine(t))
<1>1. CASE MakeBoard(t)
  BY <1>1 DEF MakeBoard, desk
<1>2. CASE MailAgain(t)
  BY <1>2 DEF MailAgain
<1> QED
  BY <1>1, <1>2 DEF Step, Fail, CountSlots, PostOffers, CheckFree, TakeOffer, Drop, OpenJobs,
     CheckDone, Complete, Reply, FindBoard, DeskReadsFree, DeskReadsNumber, DeskInserts,
     DeskCommits, DeskReadsJob, DeskCloses, DeskBurns, desk

LEMMA TypesStand ==
  ASSUME TypeOK, NumbersInHand, NEW t \in Txs, Step(t) \/ Fail(t)
  PROVE  TypeOK'
<1>0. Mine(t) \in Handles /\ began[t] \in Nat /\ line[t] \in Words
      /\ pick[t] \in Numbers \cup {None}
  BY DEF TypeOK, Ask, Mine
<1>1. status' \in [Numbers -> Status] /\ holder' \in [Numbers -> Handles \cup {None}]
  <2>1. DOMAIN status' = Numbers /\ status' = [n \in Numbers |-> status'[n]]
    BY DEF TypeOK, Step, Fail, CountSlots, PostOffers, CheckFree, TakeOffer, Drop, OpenJobs,
       CheckDone, Complete, Reply, FindBoard, MakeBoard, MailAgain, DeskReadsFree,
       DeskReadsNumber, DeskInserts, DeskCommits, DeskReadsJob, DeskCloses, DeskBurns, missions
  <2>2. DOMAIN holder' = Numbers /\ holder' = [n \in Numbers |-> holder'[n]]
    BY DEF TypeOK, Step, Fail, CountSlots, PostOffers, CheckFree, TakeOffer, Drop, OpenJobs,
       CheckDone, Complete, Reply, FindBoard, MakeBoard, MailAgain, DeskReadsFree,
       DeskReadsNumber, DeskInserts, DeskCommits, DeskReadsJob, DeskCloses, DeskBurns, missions
  <2>3. ASSUME NEW n \in Numbers
        PROVE  status'[n] \in Status /\ holder'[n] \in Handles \cup {None}
    BY <1>0, MissionsMove DEF TypeOK, Status, Same, Burned, Posted, Taken, Inserted,
       Completed, Abandoned
  <2> QED
    BY <2>1, <2>2, <2>3
<1>2. posted' \in [Numbers -> Nat] /\ listed' \subseteq Numbers
  <2>1. CASE PostOffers(t)
    BY <1>0, <2>1 DEF PostOffers, Free, TypeOK
  <2>2. CASE UNCHANGED <<posted, listed>>
    BY <2>2 DEF TypeOK
  <2> QED
    BY <2>1, <2>2 DEF Step, Fail, CountSlots, CheckFree, TakeOffer, Drop, OpenJobs,
       CheckDone, Complete, Reply, FindBoard, MakeBoard, MailAgain, DeskReadsFree,
       DeskReadsNumber, DeskInserts, DeskCommits, DeskReadsJob, DeskCloses, DeskBurns, missions
<1>3. /\ minted' \in [Numbers -> Nat]
      /\ letters' \subseteq Handles \X Words \X (Numbers \cup {None}) \X (Txs \cup {None})
  <2>1. CASE UNCHANGED told
    BY <2>1 DEF told, TypeOK
  <2>2. ASSUME NEW w \in Words, Letter(t, w, pick[t])
        PROVE  letters' \subseteq Handles \X Words \X (Numbers \cup {None}) \X (Txs \cup {None})
    BY <1>0, <2>2 DEF Letter, TypeOK
  <2>3. CASE Reply(t) /\ Letter(t, line[t], pick[t]) /\ UNCHANGED minted
    BY <1>0, <2>2, <2>3 DEF TypeOK
  <2>4. CASE Complete(t) /\ Letter(t, "paid", pick[t])
                         /\ minted' = [minted EXCEPT ![pick[t]] = @ + 1]
    <3>1. pick[t] \in Numbers /\ "paid" \in Words
      BY <2>4 DEF Complete, NumbersInHand, Words
    <3>2. minted' \in [Numbers -> Nat]
      BY <2>4, <3>1 DEF TypeOK
    <3> QED
      BY <2>2, <2>4, <3>1, <3>2
  <2>5. CASE Letter(t, "unpaid", pick[t]) /\ UNCHANGED minted
    <3>1. "unpaid" \in Words
      BY DEF Words
    <3> QED
      BY <2>2, <2>5, <3>1 DEF TypeOK
  <2> QED
    BY <2>1, <2>3, <2>4, <2>5, LettersMove
<1>4. /\ address' \in [Handles -> Addresses \cup {None}] /\ mailed' \in [Handles -> Nat]
      /\ sent' \subseteq Handles \X Nat \X (Txs \cup {None})
  <2>1. CASE UNCHANGED desk
    BY <2>1 DEF desk, TypeOK
  <2>2. CASE Mailed(t, Mine(t))
    <3>1. mailed' \in [Handles -> Nat] /\ sent' \subseteq Handles \X Nat \X (Txs \cup {None})
      BY <1>0, <2>2 DEF Mailed, TypeOK
    <3> QED
      BY <1>0, <2>1, <3>1, DeskMoves DEF TypeOK
  <2> QED
    BY <2>1, <2>2, DeskMoves
<1>5. asked' \in [Txs -> Ask] /\ today' \in Nat
  BY AskedStands DEF TypeOK
<1> QED
  BY <1>1, <1>2, <1>3, <1>4, <1>5, LocalTyped DEF TypeOK, LocalOK

\* Where an action leaves its request.
LEMMA Comes ==
  ASSUME TypeOK, NEW t \in Txs, Step(t) \/ Fail(t)
  PROVE  /\ step'[t] = "fill" => CountSlots(t)
         /\ step'[t] \in {"accept", "drop"} => PostOffers(t)
         /\ step'[t] = "take" => CheckFree(t)
         /\ step'[t] = "complete" => OpenJobs(t)
         /\ step'[t] = "close" => CheckDone(t)
         /\ step'[t] = "reply" => OpenJobs(t) \/ CheckDone(t) \/ Complete(t)
         /\ step'[t] = "resend" => FindBoard(t)
         /\ step'[t] = "opInsert" => DeskReadsNumber(t)
         /\ step'[t] = "opCommit" => DeskInserts(t) /\ ~Finish(t)
         /\ step'[t] = "opClose" => DeskReadsJob(t)
<1>0. ASSUME NEW s, Go(t, s) PROVE step'[t] = s
  BY <1>0 DEF Go, TypeOK
<1>1. CASE Finish(t)
  BY <1>0, <1>1 DEF Finish
<1>2. CASE Reread(t)
  BY <1>0, <1>2 DEF Reread, Release
<1>3. CASE CountSlots(t) \/ CheckFree(t)
  BY <1>0, <1>2, <1>3 DEF CountSlots, CheckFree
<1>4. CASE PostOffers(t)
  <2>1. PICK offers, current : Door(t, offers, current)
    BY <1>4 DEF PostOffers
  <2>2. \/ Finish(t) \/ Release(t, "post")
        \/ Release(t, asked[t].op) /\ asked[t].op \in {"accept", "drop"}
    BY <2>1 DEF Door
  <2> QED
    BY <1>0, <1>1, <1>4, <2>2 DEF Release
<1>5. CASE TakeOffer(t) \/ Drop(t)
  BY <1>1, <1>2, <1>5 DEF TakeOffer, Drop
<1>6. CASE OpenJobs(t) \/ CheckDone(t)
  BY <1>0, <1>6 DEF OpenJobs, CheckDone
<1>7. CASE Complete(t) \/ Reply(t)
  BY <1>0, <1>1, <1>7 DEF Complete, Reply, Release
<1>8. CASE FindBoard(t)
  BY <1>0, <1>1, <1>8 DEF FindBoard
<1>9. CASE MakeBoard(t) \/ MailAgain(t)
  BY <1>0, <1>1, <1>9 DEF MakeBoard, MailAgain, Mailed, Release
<1>10. CASE DeskReadsFree(t) \/ DeskReadsNumber(t) \/ DeskReadsJob(t) \/ DeskInserts(t)
  BY <1>0, <1>1, <1>10 DEF DeskReadsFree, DeskReadsNumber, DeskReadsJob, DeskInserts
<1>11. CASE DeskCommits(t) \/ DeskCloses(t) \/ DeskBurns(t) \/ Fail(t)
  BY <1>0, <1>1, <1>11 DEF DeskCommits, DeskCloses, DeskBurns, Fail, Release
<1> QED
  BY <1>3, <1>4, <1>5, <1>6, <1>7, <1>8, <1>9, <1>10, <1>11 DEF Step

LEMMA RowsStillHaveContractors ==
  ASSUME TypeOK, NumbersInHand, RowsHaveContractors, NEW t \in Txs, Step(t) \/ Fail(t)
  PROVE  RowsHaveContractors'
<1>1. Mine(t) # None
  BY NoneAssumption DEF TypeOK, Ask, Mine
<1>2. ASSUME NEW n \in Numbers
      PROVE  /\ status'[n] = "none" <=> holder'[n] = None
             /\ n \in listed' => status'[n] # "none"
  BY <1>1, MissionsMove DEF RowsHaveContractors, Same, Burned, Posted, Taken, Inserted,
     Completed, Abandoned
<1>3. listed' \subseteq Numbers
  BY TypesStand DEF TypeOK
<1> QED
  BY <1>2, <1>3 DEF RowsHaveContractors

\* The desk's insert waits for one of the same number or handle and is refused by a
\* committed one; an accept, and another's insert, wait for it in their turn.
LEMMA EntriesStillStand ==
  ASSUME TypeOK, NumbersInHand, NEW t \in Txs, Step(t) \/ Fail(t)
  PROVE  EntriesStand'
<1>0. asked' = asked /\ \A u \in Txs : Mine(u)' = Mine(u)
  BY AskedStands DEF Mine
<1>1. \A u \in Txs \ {t} : step'[u] = step[u] /\ pick'[u] = pick[u]
  BY StepAlone DEF Alone
<1>2. ASSUME NEW u \in Entries, u # t
      PROVE  /\ status'[pick[u]] = "none"
             /\ Active(status', holder', Mine(u)) = {}
  <2>1. /\ u \in Txs /\ step[u] = "opCommit" /\ pick[u] \in Numbers
        /\ status[pick[u]] = "none" /\ Active(status, holder, Mine(u)) = {}
    BY <1>2 DEF Entries, NumbersInHand, EntriesStand
  <2>2. ~(DeskCommits(t) /\ (pick[t] = pick[u] \/ Mine(t) = Mine(u)))
    BY <1>2 DEF DeskCommits, NumbersInHand, EntriesStand, Entries
  <2>3. status'[pick[u]] = "none"
    <3>1. ~Posted(t, pick[u])
      <4>1. pick[u] \notin Free
        BY <1>2 DEF Free
      <4>2. ASSUME PostOffers(t) PROVE pick[u] \notin Free => status'[pick[u]] # "offered"
        BY <2>1, <4>2 DEF PostOffers, Stale, Offers
      <4> QED
        BY <4>1, <4>2 DEF Posted
    <3> QED
      BY <2>1, <2>2, <3>1, MissionsMove
         DEF Same, Burned, Taken, Inserted, Completed, Abandoned
  <2>4. ASSUME NEW n \in Numbers, status'[n] = "accepted", holder'[n] = Mine(u)
        PROVE  status[n] = "accepted" /\ holder[n] = Mine(u)
    <3>1. ~Taken(t, n)
      BY <1>2, <2>1, <2>4 DEF Taken, TakeOffer, Entered
    <3>2. ~Inserted(t, n)
      BY <2>2, <2>4 DEF Inserted
    <3> QED
      BY <2>4, <3>1, <3>2, MissionsMove DEF Same, Burned, Posted, Completed, Abandoned
  <2> QED
    BY <2>1, <2>3, <2>4 DEF Active
<1>3. ASSUME step'[t] = "opCommit"
      PROVE  /\ UNCHANGED <<status, holder, pick>> /\ status[pick[t]] = "none"
             /\ Active(status, holder, Mine(t)) = {}
             /\ \A u \in Entries : pick[u] # pick[t] /\ Mine(u) # Mine(t)
  <2>1. DeskInserts(t) /\ ~Finish(t)
    BY <1>3, Comes
  <2> QED
    BY <2>1 DEF DeskInserts, missions, Entered
<1>4. \A u \in Entries' : u \in Txs /\ (u # t => u \in Entries)
  BY <1>1 DEF Entries
<1>5. ASSUME NEW u \in Entries'
      PROVE  /\ status'[pick'[u]] = "none" /\ Active(status', holder', Mine(u)) = {}
             /\ \A v \in Entries' \ {u} : pick'[v] # pick'[u] /\ Mine(v) # Mine(u)
  <2>1. CASE u = t
    <3>1. step'[t] = "opCommit"
      BY <1>5, <2>1 DEF Entries
    <3> QED
      BY <1>3, <1>4, <2>1, <3>1
  <2>2. CASE u # t
    <3>1. u \in Entries /\ pick'[u] = pick[u]
      BY <1>1, <1>4, <2>2
    <3>2. ASSUME NEW v \in Entries', v # u PROVE pick'[v] # pick'[u] /\ Mine(v) # Mine(u)
      <4>1. CASE v = t
        <5>1. step'[t] = "opCommit"
          BY <3>2, <4>1 DEF Entries
        <5> QED
          BY <1>3, <3>1, <4>1, <5>1
      <4>2. CASE v # t
        <5>1. v \in Entries /\ pick'[v] = pick[v]
          BY <1>1, <1>4, <4>2
        <5> QED
          BY <3>1, <3>2, <5>1 DEF NumbersInHand, EntriesStand
      <4> QED
        BY <4>1, <4>2
    <3> QED
      BY <1>2, <2>2, <3>1, <3>2
  <2> QED
    BY <2>1, <2>2
<1> QED
  BY <1>0, <1>4, <1>5 DEF EntriesStand

LEMMA NumbersStillInHand ==
  ASSUME TypeOK, NumbersInHand, NEW t \in Txs, Step(t) \/ Fail(t)
  PROVE  NumbersInHand'
<1> SUFFICES ASSUME NEW u \in Txs
             PROVE  LET n == pick'[u] s == step'[u] IN
      /\ s \in {"accept", "take", "drop", "complete", "close", "opInsert", "opCommit", "opClose"}
           => n \in Numbers
      /\ s = "opClose" => status'[n] \in {"accepted", "completed", "abandoned"}
      /\ s \in {"complete", "close"}
           => /\ holder'[n] = Mine(u)
              /\ status'[n] \in {"accepted", "completed", "abandoned"}
      /\ s = "close" => lock'[Mine(u)] = u /\ status'[n] # "completed"
  BY AskedStands, EntriesStillStand DEF NumbersInHand, Mine
<1>0. Mine(u) \in Handles /\ u # None
  BY NoneAssumption DEF TypeOK, Ask, Mine
<1>1. CASE u # t
  <2> DEFINE n == pick[u]
  <2>1. /\ step'[u] = step[u] /\ pick'[u] = pick[u]
        /\ lock[Mine(u)] = u => lock'[Mine(u)] = u
    BY <1>0, <1>1, StepAlone DEF Alone
  <2>2. ASSUME n \in Numbers, status[n] \in {"accepted", "completed", "abandoned"}
        PROVE  /\ status'[n] \in {"accepted", "completed", "abandoned"}
               /\ holder'[n] = holder[n]
               /\ status'[n] = "completed"
                    => status[n] = "completed" \/ (Complete(t) /\ n = pick[t])
    BY <2>2, MissionsMove DEF Same, Burned, Posted, Taken, Inserted, Completed, Abandoned
  <2>3. ASSUME step[u] = "close" PROVE ~(Complete(t) /\ n = pick[t])
    <3>1. SUFFICES ASSUME Complete(t), n = pick[t] PROVE FALSE
      OBVIOUS
    <3>2. lock[Mine(u)] = u /\ holder[n] = Mine(u)
      BY <2>3 DEF NumbersInHand
    <3>3. step[t] = "close"
      BY <3>1 DEF Complete
    <3>4. lock[Mine(t)] = t /\ holder[pick[t]] = Mine(t)
      BY <3>3 DEF NumbersInHand
    <3> QED
      BY <1>1, <3>1, <3>2, <3>4
  <2> QED
    BY <2>1, <2>2, <2>3 DEF NumbersInHand
<1>2. CASE u = t
  <2>1. CASE step'[t] \in {"accept", "drop"}
    <3>1. PICK offers \in SUBSET Numbers, current \in SUBSET Numbers : Door(t, offers, current)
      BY <2>1, Comes DEF PostOffers, Offers, Active
    <3>2. \/ \E m \in Numbers : pick' = [pick EXCEPT ![t] = m]
          \/ Finish(t) \/ Release(t, "post")
      BY <3>1 DEF Door
    <3>3. ~Finish(t) /\ ~Release(t, "post")
      BY <2>1 DEF Finish, Release, Go, TypeOK
    <3> QED
      BY <1>2, <2>1, <3>2, <3>3 DEF TypeOK
  <2>2. CASE step'[t] = "take"
    <3>1. CheckFree(t) /\ ~Reread(t)
      BY <2>2, Comes DEF Reread, Release, Go, TypeOK
    <3>2. pick'[t] = pick[t] /\ pick[t] \in Numbers
      BY <3>1 DEF CheckFree, NumbersInHand
    <3> QED
      BY <1>2, <2>2, <3>2
  <2>3. CASE step'[t] = "complete"
    <3>1. OpenJobs(t) /\ ~Go(t, "reply")
      BY <2>3, Comes DEF Go, TypeOK
    <3>2. PICK m \in Numbers : /\ holder[m] = Mine(t) /\ status[m] = "accepted"
                               /\ pick' = [pick EXCEPT ![t] = m]
      BY <3>1 DEF OpenJobs, Answer, Mine
    <3>3. UNCHANGED missions
      BY <3>1 DEF OpenJobs
    <3> QED
      BY <1>2, <2>3, <3>2, <3>3 DEF TypeOK, missions
  <2>4. CASE step'[t] = "close"
    <3>1. CheckDone(t) /\ ~Go(t, "reply")
      BY <2>4, Comes DEF Go, TypeOK
    <3>2. /\ pick[t] \in Numbers /\ holder[pick[t]] = Mine(t)
          /\ status[pick[t]] \in {"accepted", "completed", "abandoned"}
      BY <3>1 DEF CheckDone, NumbersInHand
    <3>3. status[pick[t]] # "completed" /\ UNCHANGED <<missions, pick>>
      BY <3>1, <3>2 DEF CheckDone
    <3>4. lock'[Mine(t)] = t
      BY <1>0, <1>2, <3>1, <3>2, <3>3 DEF CheckDone, Lock, TypeOK
    <3> QED
      BY <1>2, <2>4, <3>2, <3>3, <3>4 DEF missions
  <2>5. CASE step'[t] = "opInsert"
    <3>1. DeskReadsNumber(t) /\ ~Finish(t)
      BY <2>5, Comes DEF Finish, Go, TypeOK
    <3>2. \E m \in Numbers : pick' = [pick EXCEPT ![t] = m]
      BY <3>1 DEF DeskReadsNumber
    <3> QED
      BY <1>2, <2>5, <3>2 DEF TypeOK
  <2>6. CASE step'[t] = "opCommit"
    <3>1. DeskInserts(t) /\ pick' = pick
      BY <2>6, Comes DEF DeskInserts
    <3>2. pick[t] \in Numbers
      BY <3>1 DEF DeskInserts, NumbersInHand
    <3> QED
      BY <1>2, <2>6, <3>1, <3>2
  <2>7. CASE step'[t] = "opClose"
    <3>1. DeskReadsJob(t) /\ ~Finish(t)
      BY <2>7, Comes DEF Finish, Go, TypeOK
    <3>2. \E m \in Numbers : status[m] = "accepted" /\ pick' = [pick EXCEPT ![t] = m]
      BY <3>1 DEF DeskReadsJob, Active
    <3>3. UNCHANGED missions
      BY <3>1 DEF DeskReadsJob
    <3> QED
      BY <1>2, <2>7, <3>2, <3>3 DEF TypeOK, missions
  <2> QED
    BY <1>2, <2>1, <2>2, <2>3, <2>4, <2>5, <2>6, <2>7
<1> QED
  BY <1>1, <1>2

-----------------------------------------------------------------------------
(* The boards' slots.                                                      *)

\* The listed rows a handle holds after a step are those it held, or new ones.
LEMMA HeldListed ==
  ASSUME TypeOK, NumbersInHand, RowsHaveContractors, NEW t \in Txs, Step(t) \/ Fail(t),
         NEW h \in Handles, ~PostOffers(t) \/ h # Mine(t)
  PROVE  Held(status', holder', h) \cap listed' \subseteq Held(status, holder, h) \cap listed
<1> SUFFICES ASSUME NEW n \in Numbers, n \in listed', holder'[n] = h,
                    status'[n] \in {"offered", "accepted"}
             PROVE  n \in listed /\ holder[n] = h /\ status[n] \in {"offered", "accepted"}
  BY DEF Held
<1>1. CASE Inserted(t, n)
  BY <1>1 DEF Inserted, RowsHaveContractors
<1>2. CASE ~Inserted(t, n)
  BY <1>2, MissionsMove DEF Same, Burned, Posted, Taken, Completed, Abandoned
<1> QED
  BY <1>1, <1>2

LEMMA HeldFinite ==
  ASSUME NEW st, NEW ho, NEW h
  PROVE  IsFiniteSet(Held(st, ho, h))
<1>1. Held(st, ho, h) \subseteq Numbers
  BY DEF Held
<1> QED
  BY <1>1, NumbersAssumption, FS_Subset

\* What a step does to the day an offer was drawn.
LEMMA PostedMoves ==
  ASSUME TypeOK, NEW t \in Txs, Step(t) \/ Fail(t), NEW n \in Numbers, status[n] # "none"
  PROVE  posted'[n] = posted[n]
<1>1. CASE PostOffers(t)
  BY <1>1 DEF PostOffers, Free, TypeOK
<1>2. CASE UNCHANGED posted
  BY <1>2
<1> QED
  BY <1>1, <1>2 DEF Step, Fail, CountSlots, CheckFree, TakeOffer, Drop, OpenJobs,
     CheckDone, Complete, Reply, FindBoard, MakeBoard, MailAgain, DeskReadsFree,
     DeskReadsNumber, DeskInserts, DeskCommits, DeskReadsJob, DeskCloses, DeskBurns, missions

LEMMA SlotsStillCounted ==
  ASSUME TypeOK, NumbersInHand, RowsHaveContractors, SlotsCounted,
         NEW t \in Txs, Step(t) \/ Fail(t)
  PROVE  SlotsCounted'
<1> SUFFICES ASSUME NEW u \in Txs
             PROVE  /\ step'[u] \in {"fill", "take"} => lock'[Mine(u)] = u
                    /\ step'[u] = "fill" =>
                         Cardinality((Held(status', holder', Mine(u)) \cap listed')
                                        \ Stale(Mine(u), began[u])') <= slots'[u]
  BY AskedStands DEF SlotsCounted, Mine, Stale
<1>0. Mine(u) \in Handles /\ u # None
  BY NoneAssumption DEF TypeOK, Ask, Mine
<1>1. CASE u # t
  <2>1. /\ step'[u] = step[u] /\ began'[u] = began[u] /\ slots'[u] = slots[u]
        /\ lock[Mine(u)] = u => lock'[Mine(u)] = u
    BY <1>0, <1>1, StepAlone DEF Alone
  <2>2. ASSUME step[u] = "fill"
        PROVE  Cardinality((Held(status', holder', Mine(u)) \cap listed')
                             \ Stale(Mine(u), began[u])') <= slots[u]
    <3> DEFINE before == (Held(status, holder, Mine(u)) \cap listed)
                            \ Stale(Mine(u), began[u])
               after == (Held(status', holder', Mine(u)) \cap listed')
                            \ Stale(Mine(u), began[u])'
    <3>1. lock[Mine(u)] = u /\ Cardinality(before) <= slots[u]
      BY <2>2 DEF SlotsCounted
    <3>2. step[t] \in {"fill", "take"} => Mine(t) # Mine(u)
      BY <1>1, <3>1 DEF SlotsCounted
    <3>3. ASSUME NEW n \in after PROVE n \in before
      <4>1. ~PostOffers(t) \/ Mine(u) # Mine(t)
        BY <3>2 DEF PostOffers
      <4>2. n \in Held(status, holder, Mine(u)) \cap listed
        BY <1>0, <4>1, HeldListed
      <4>3. /\ n \in Numbers /\ holder[n] = Mine(u) /\ holder'[n] = Mine(u)
            /\ status[n] \in {"offered", "accepted"}
            /\ status'[n] \in {"offered", "accepted"}
        BY <4>2 DEF Held
      <4>4. posted'[n] = posted[n]
        BY <4>3, PostedMoves
      <4>5. ~Taken(t, n)
        BY <3>2, <4>3 DEF Taken, TakeOffer
      <4>6. status[n] = "offered" => status'[n] = "offered"
        BY <4>3, <4>5, MissionsMove
           DEF Same, Burned, Posted, Inserted, Completed, Abandoned
      <4>7. ~(status'[n] = "offered" /\ posted'[n] < began'[u])
        BY <2>1, <4>3, AskedStands DEF Stale, Offers, Mine
      <4>8. n \notin Stale(Mine(u), began[u])
        BY <2>1, <4>4, <4>6, <4>7 DEF Stale, Offers
      <4> QED
        BY <4>2, <4>8
    <3>4. IsFiniteSet(before)
      <4>1. before \subseteq Held(status, holder, Mine(u))
        OBVIOUS
      <4> QED
        BY <4>1, HeldFinite, FS_Subset
    <3>5. IsFiniteSet(after) /\ Cardinality(after) <= Cardinality(before)
      BY <3>3, <3>4, FS_Subset
    <3>6. Cardinality(before) \in Nat /\ Cardinality(after) \in Nat /\ slots[u] \in Nat
      BY <3>4, <3>5, FS_CardinalityType DEF TypeOK
    <3> QED
      BY <3>1, <3>5, <3>6
  <2> QED
    BY <2>1, <2>2 DEF SlotsCounted
<1>2. CASE u = t
  <2>1. CASE step'[t] = "fill"
    <3>1. CountSlots(t)
      BY <2>1, Comes
    <3>2. PICK d \in 0..today :
            /\ Lock(t, d)
            /\ slots' = [slots EXCEPT ![t] =
                           Cardinality(Held(status, holder, Mine(t)) \ Stale(Mine(t), d))]
      BY <3>1 DEF CountSlots
    <3>3. /\ lock'[Mine(t)] = t /\ began'[t] = d
          /\ slots'[t] = Cardinality(Held(status, holder, Mine(t)) \ Stale(Mine(t), d))
      BY <1>0, <1>2, <3>2 DEF Lock, TypeOK
    <3>4. Stale(Mine(t), began[t])' = Stale(Mine(t), d)
      BY <3>1, <3>3 DEF CountSlots, missions, Stale, Mine
    <3> DEFINE counted == Held(status, holder, Mine(t)) \ Stale(Mine(t), d)
               after == (Held(status, holder, Mine(t)) \cap listed) \ Stale(Mine(t), d)
    <3>5. IsFiniteSet(counted)
      <4>1. counted \subseteq Held(status, holder, Mine(t))
        OBVIOUS
      <4> QED
        BY <4>1, HeldFinite, FS_Subset
    <3>6. Cardinality(after) <= Cardinality(counted)
      <4>1. after \subseteq counted
        OBVIOUS
      <4> QED
        BY <3>5, <4>1, FS_Subset
    <3>7. UNCHANGED <<status, holder, listed>>
      BY <3>1 DEF CountSlots, missions
    <3> QED
      BY <1>2, <2>1, <3>3, <3>4, <3>6, <3>7
  <2>2. CASE step'[t] = "take"
    <3>1. CheckFree(t) /\ ~Reread(t)
      BY <2>2, Comes DEF Reread, Release, Go, TypeOK
    <3> QED
      BY <1>0, <1>2, <2>2, <3>1 DEF CheckFree, Lock, TypeOK
  <2> QED
    BY <1>2, <2>1, <2>2
<1> QED
  BY <1>1, <1>2

LEMMA SlotsStillHold ==
  ASSUME TypeOK, NumbersInHand, RowsHaveContractors, SlotsCounted, SlotsHold,
         NEW t \in Txs, Step(t) \/ Fail(t)
  PROVE  SlotsHold'
<1> SUFFICES ASSUME NEW h \in Handles
             PROVE  Cardinality(Held(status', holder', h) \cap listed') <= Slots
  BY DEF SlotsHold
<1> DEFINE before == Held(status, holder, h) \cap listed
           after == Held(status', holder', h) \cap listed'
<1>0. IsFiniteSet(before) /\ Cardinality(before) \in Nat /\ Cardinality(before) <= Slots
  <2>1. before \subseteq Held(status, holder, h)
    OBVIOUS
  <2> QED
    BY <2>1, HeldFinite, FS_Subset, FS_CardinalityType DEF SlotsHold
<1>1. CASE after \subseteq before
  BY <1>0, <1>1, FS_Subset, FS_CardinalityType, WorldAssumption
<1>2. CASE ~(after \subseteq before)
  <2>1. PostOffers(t) /\ h = Mine(t)
    BY <1>2, HeldListed
  <2>2. PICK new \in SUBSET {n \in Numbers : status[n] = "none"} :
          /\ new = {} \/ slots[t] + Cardinality(new) <= Slots
          /\ status' = [m \in Numbers |-> IF m \in Stale(Mine(t), began[t]) THEN "burned"
                                          ELSE IF m \in new THEN "offered" ELSE status[m]]
          /\ holder' = [m \in Numbers |-> IF m \in new THEN Mine(t) ELSE holder[m]]
          /\ listed' = listed \cup new
    BY <2>1 DEF PostOffers, Free
  <2> DEFINE kept == before \ Stale(h, began[t])
  <2>3. after \subseteq kept \cup new
    <3> SUFFICES ASSUME NEW n \in after, n \notin new PROVE n \in kept
      OBVIOUS
    <3>1. /\ n \in Numbers /\ n \in listed' /\ holder'[n] = h
          /\ status'[n] \in {"offered", "accepted"}
      BY DEF Held
    <3>2. n \notin Stale(h, began[t])
      BY <2>1, <2>2, <3>1
    <3>3. n \in listed /\ holder[n] = h /\ status[n] \in {"offered", "accepted"}
      BY <2>1, <2>2, <3>1, <3>2
    <3> QED
      BY <3>1, <3>2, <3>3 DEF Held
  <2>4. new # {}
    BY <1>2, <2>3
  <2>5. Cardinality(kept) <= slots[t]
    BY <2>1 DEF SlotsCounted, PostOffers
  <2>6. IsFiniteSet(kept) /\ IsFiniteSet(new)
    <3>1. kept \subseteq before /\ new \subseteq Numbers
      OBVIOUS
    <3> QED
      BY <1>0, <3>1, FS_Subset, NumbersAssumption
  <2>7. /\ IsFiniteSet(kept \cup new)
        /\ Cardinality(kept \cup new) =
             Cardinality(kept) + Cardinality(new) - Cardinality(kept \cap new)
    BY <2>6, FS_Union
  <2>8. IsFiniteSet(kept \cap new)
    BY <2>6, FS_Intersection
  <2>9. Cardinality(after) \in Nat /\ Cardinality(after) <= Cardinality(kept \cup new)
    BY <2>3, <2>7, FS_Subset, FS_CardinalityType
  <2>10. /\ Cardinality(kept) \in Nat /\ Cardinality(new) \in Nat
         /\ Cardinality(kept \cap new) \in Nat /\ slots[t] \in Nat /\ Slots \in Nat
    BY <2>6, <2>8, FS_CardinalityType, WorldAssumption DEF TypeOK
  <2>11. slots[t] + Cardinality(new) <= Slots
    BY <2>2, <2>4
  <2>12. Cardinality(kept \cup new) \in Nat
    BY <2>7, FS_CardinalityType
  <2> HIDE DEF after, kept
  <2>13. Cardinality(after) <= Slots
    BY <2>5, <2>7, <2>9, <2>10, <2>11, <2>12
  <2> QED
    BY <2>13 DEF after
<1> QED
  BY <1>1, <1>2

-----------------------------------------------------------------------------
(* One job at a time, and what is told of it.                              *)

LEMMA OneJobStill ==
  ASSUME TypeOK, NumbersInHand, OneActiveJob, NEW t \in Txs, Step(t) \/ Fail(t)
  PROVE  OneActiveJob'
<1> SUFFICES ASSUME NEW h \in Handles, NEW m \in Active(status', holder', h),
                    NEW n \in Active(status', holder', h)
             PROVE  m = n
  BY DEF OneActiveJob
<1>1. ASSUME NEW k \in Active(status', holder', h)
      PROVE  \/ k \in Active(status, holder, h)
             \/ k = pick[t] /\ h = Mine(t) /\ Active(status, holder, h) = {}
  <2>1. k \in Numbers /\ status'[k] = "accepted" /\ holder'[k] = h
    BY DEF Active
  <2>2. \/ Same(k) \/ Taken(t, k) \/ Inserted(t, k)
    BY <2>1, MissionsMove DEF Burned, Posted, Completed, Abandoned
  <2> QED
    BY <2>1, <2>2 DEF Same, Taken, Inserted, Active
<1> QED
  BY <1>1 DEF OneActiveJob

\* What a step does to the paid and unpaid letters about a job.
LEMMA EndsMove ==
  ASSUME TypeOK, NumbersInHand, LinesTrue, NEW t \in Txs, Step(t) \/ Fail(t)
  PROVE  /\ letters \subseteq letters'
         /\ \A l \in letters' \ letters : l[2] \in {"paid", "unpaid"} =>
              /\ Complete(t) /\ status[pick[t]] = "accepted" /\ l[3] = pick[t]
              /\ l[2] = "paid" => asked[t].wallet
              /\ l = <<Mine(t), l[2], pick[t], t>>
<1>1. CASE UNCHANGED told
  BY <1>1 DEF told
<1>2. CASE Reply(t) /\ Letter(t, line[t], pick[t])
  <2>1. line[t] \notin {"paid", "unpaid"}
    BY <1>2 DEF Reply, LinesTrue
  <2> QED
    BY <1>2, <2>1 DEF Letter
<1>3. CASE Complete(t) /\ status[pick[t]] = "accepted" /\ asked[t].wallet
           /\ Letter(t, "paid", pick[t])
  BY <1>3 DEF Letter
<1>4. CASE Complete(t) /\ status[pick[t]] = "accepted" /\ Letter(t, "unpaid", pick[t])
  BY <1>4 DEF Letter
<1> QED
  BY <1>1, <1>2, <1>3, <1>4, LettersMove

LEMMA EndsStillTold ==
  ASSUME TypeOK, NumbersInHand, LinesTrue, EndsAreTold, NEW t \in Txs, Step(t) \/ Fail(t)
  PROVE  EndsAreTold'
<1> SUFFICES ASSUME NEW n \in Numbers
             PROVE  /\ status'[n] \in {"none", "offered", "burned", "accepted"}
                         => \A l \in letters' : l[2] \in {"paid", "unpaid"} => l[3] # n
                    /\ status'[n] = "completed"
                         => \E l \in letters' : l[2] \in {"paid", "unpaid"} /\ l[3] = n
  BY DEF EndsAreTold
<1>0. letters \subseteq letters'
  BY EndsMove
<1>1. CASE status'[n] \in {"none", "offered", "burned", "accepted"}
  <2>1. status[n] \in {"none", "offered", "burned", "accepted"}
    BY <1>1, MissionsMove DEF Same, Burned, Posted, Taken, Inserted, Completed, Abandoned
  <2>2. ~(Complete(t) /\ status[pick[t]] = "accepted" /\ pick[t] = n)
    <3>1. SUFFICES ASSUME Complete(t), status[n] = "accepted", pick[t] = n PROVE FALSE
      OBVIOUS
    <3>2. holder[n] = Mine(t)
      BY <3>1 DEF NumbersInHand, Complete
    <3> QED
      BY <1>1, <3>1, <3>2 DEF Complete, TypeOK
  <2> QED
    BY <1>1, <2>1, <2>2, EndsMove DEF EndsAreTold
<1>2. CASE status'[n] = "completed"
  <2>1. status[n] = "completed" \/ Completed(t, n)
    BY <1>2, MissionsMove DEF Same, Burned, Posted, Taken, Inserted, Abandoned
  <2>2. CASE status[n] = "completed"
    BY <1>0, <1>2, <2>2 DEF EndsAreTold
  <2>3. CASE Completed(t, n)
    <3>1. Complete(t) /\ n = pick[t] /\ status[n] # "completed"
          /\ status'[n] = "completed"
      BY <2>3 DEF Completed
    <3>2. Letter(t, "paid", n) \/ Letter(t, "unpaid", n)
      BY <3>1 DEF Complete
    <3>3. \E w \in {"paid", "unpaid"} : <<Mine(t), w, n, t>> \in letters'
      BY <3>2 DEF Letter
    <3>4. PICK w \in {"paid", "unpaid"} : <<Mine(t), w, n, t>> \in letters'
      BY <3>3
    <3>5. <<Mine(t), w, n, t>>[2] = w /\ <<Mine(t), w, n, t>>[3] = n
      OBVIOUS
    <3> QED
      BY <1>2, <3>4, <3>5
  <2> QED
    BY <2>1, <2>2, <2>3
<1> QED
  BY <1>1, <1>2

LEMMA PaidStillOnce ==
  ASSUME TypeOK, NumbersInHand, LinesTrue, EndsAreTold, PaidOnce,
         NEW t \in Txs, Step(t) \/ Fail(t)
  PROVE  PaidOnce'
<1> DEFINE Paid(n) == {l \in letters : l[2] = "paid" /\ l[3] = n}
           PaidThen(n) == {l \in letters' : l[2] = "paid" /\ l[3] = n}
<1> SUFFICES ASSUME NEW n \in Numbers
             PROVE  \/ minted'[n] = 0 /\ PaidThen(n) = {}
                    \/ minted'[n] = 1 /\ \E k : PaidThen(n) = {k}
  BY DEF PaidOnce
<1>0. \/ minted[n] = 0 /\ Paid(n) = {}
      \/ minted[n] = 1 /\ \E k : Paid(n) = {k}
  BY DEF PaidOnce
<1>1. CASE Complete(t) /\ status[pick[t]] = "accepted" /\ asked[t].wallet /\ pick[t] = n
           /\ Letter(t, "paid", n) /\ minted' = [minted EXCEPT ![n] = @ + 1]
  <2>1. Paid(n) = {}
    BY <1>1 DEF EndsAreTold
  <2>2. minted[n] = 0
    <3>1. \A k : {k} # {}
      OBVIOUS
    <3> QED
      BY <1>0, <2>1, <3>1
  <2>3. minted'[n] = 1
    BY <1>1, <2>2 DEF TypeOK
  <2>4. letters' = letters \cup {<<Mine(t), "paid", n, t>>}
    BY <1>1 DEF Letter
  <2>5. PaidThen(n) = {<<Mine(t), "paid", n, t>>}
    BY <2>1, <2>4
  <2> QED
    BY <2>3, <2>5
<1>2. CASE minted'[n] = minted[n] /\ PaidThen(n) = Paid(n)
  BY <1>0, <1>2
<1>3. CASE UNCHANGED told
  BY <1>2, <1>3 DEF told
<1>4. CASE Reply(t) /\ Letter(t, line[t], pick[t]) /\ UNCHANGED minted
  <2>1. line[t] # "paid"
    BY <1>4 DEF Reply, LinesTrue
  <2> QED
    BY <1>2, <1>4, <2>1 DEF Letter
<1>5. CASE Letter(t, "unpaid", pick[t]) /\ UNCHANGED minted
  BY <1>2, <1>5 DEF Letter
<1>6. CASE Letter(t, "paid", pick[t]) /\ pick[t] # n
           /\ minted' = [minted EXCEPT ![pick[t]] = @ + 1]
  <2>1. minted'[n] = minted[n]
    BY <1>6 DEF TypeOK
  <2>2. letters' = letters \cup {<<Mine(t), "paid", pick[t], t>>}
    BY <1>6 DEF Letter
  <2> QED
    BY <1>2, <1>6, <2>1, <2>2
<1> QED
  BY <1>1, <1>3, <1>4, <1>5, <1>6, LettersMove

\* The count of letters that PaidOnceAndTold compares.
LEMMA PaidTold ==
  ASSUME PaidOnce
  PROVE  PaidOnceAndTold
<1> SUFFICES ASSUME NEW n \in Numbers
             PROVE  /\ minted[n] = Cardinality({l \in letters : l[2] = "paid" /\ l[3] = n})
                    /\ minted[n] <= 1
  BY DEF PaidOnceAndTold
<1> DEFINE Paid == {l \in letters : l[2] = "paid" /\ l[3] = n}
<1>1. \/ minted[n] = 0 /\ Paid = {}
      \/ minted[n] = 1 /\ \E k : Paid = {k}
  BY DEF PaidOnce
<1> HIDE DEF Paid
<1>2. minted[n] = Cardinality(Paid) /\ minted[n] <= 1
  <2>1. CASE minted[n] = 0 /\ Paid = {}
    <3>1. Cardinality(Paid) = 0
      BY <2>1, FS_EmptySet
    <3> QED
      BY <2>1, <3>1
  <2>2. ASSUME minted[n] = 1, NEW k, Paid = {k}
        PROVE  minted[n] = Cardinality(Paid) /\ minted[n] <= 1
    <3>1. Cardinality({k}) = 1
      BY FS_Singleton
    <3> QED
      BY <2>2, <3>1
  <2> QED
    BY <1>1, <2>1, <2>2
<1> QED
  BY <1>2 DEF Paid

\* A job dropped is dropped for good.
LEMMA AbandonedStay ==
  ASSUME TypeOK, NumbersInHand, NEW t \in Txs, Step(t) \/ Fail(t),
         NEW n \in Numbers, status[n] = "abandoned"
  PROVE  status'[n] = "abandoned"
BY MissionsMove DEF Same, Burned, Posted, Taken, Inserted, Completed, Abandoned

LEMMA LinesStillTrue ==
  ASSUME TypeOK, NumbersInHand, LinesTrue, EndsAreTold, NEW t \in Txs, Step(t) \/ Fail(t)
  PROVE  LinesTrue'
<1> SUFFICES ASSUME NEW u \in Txs, step'[u] = "reply"
             PROVE  /\ line'[u] \notin {"paid", "unpaid"}
                    /\ line'[u] = "closed" => pick'[u] \in Numbers /\ \E l \in letters' :
                         l[2] \in {"paid", "unpaid"} /\ l[3] = pick'[u]
                    /\ line'[u] = "no contract" /\ pick'[u] # None
                         => pick'[u] \in Numbers /\ status'[pick'[u]] = "abandoned"
  BY DEF LinesTrue
<1>0. letters \subseteq letters'
  BY EndsMove
<1>1. CASE u # t
  <2>1. step'[u] = step[u] /\ line'[u] = line[u] /\ pick'[u] = pick[u]
    BY <1>1, StepAlone DEF Alone
  <2> QED
    <3>1. /\ line[u] \notin {"paid", "unpaid"}
          /\ line[u] = "closed" => pick[u] \in Numbers /\ \E l \in letters :
                                     l[2] \in {"paid", "unpaid"} /\ l[3] = pick[u]
          /\ line[u] = "no contract" /\ pick[u] # None
               => pick[u] \in Numbers /\ status[pick[u]] = "abandoned"
      BY <2>1 DEF LinesTrue
    <3>2. line[u] = "no contract" /\ pick[u] # None => status'[pick[u]] = "abandoned"
      BY <3>1, AbandonedStay
    <3> QED
      BY <1>0, <2>1, <3>1, <3>2
<1>2. CASE u = t /\ OpenJobs(t)
  <2>1. ~Go(t, "complete")
    BY <1>2 DEF Go, TypeOK
  <2>2. ASSUME NEW w, NEW n, Answer(t, w, n) PROVE line'[t] = w /\ pick'[t] = n
    BY <2>2 DEF Answer, TypeOK
  <2>3. \/ line'[t] = "no contract" /\ pick'[t] = None
        \/ line'[t] = "closed" /\ pick'[t] \in Numbers /\ status[pick'[t]] = "completed"
        \/ line'[t] \in {"no key", "wrong key"}
    BY <1>2, <2>1, <2>2 DEF OpenJobs
  <2> QED
    BY <1>0, <1>2, <2>3 DEF EndsAreTold
<1>3. CASE u = t /\ CheckDone(t)
  <2>1. ~Go(t, "close") /\ pick[t] \in Numbers
    BY <1>3 DEF Go, TypeOK, CheckDone, NumbersInHand
  <2>2. line'[t] = "closed" /\ pick'[t] = pick[t] /\ status[pick[t]] = "completed"
    BY <1>3, <2>1 DEF CheckDone, Answer, TypeOK
  <2> QED
    BY <1>0, <1>3, <2>1, <2>2 DEF EndsAreTold
<1>4. CASE u = t /\ Complete(t)
  <2>1. ~Finish(t)
    BY <1>4 DEF Finish, Go, TypeOK
  <2>2. /\ pick[t] \in Numbers /\ holder[pick[t]] = Mine(t)
        /\ status[pick[t]] \in {"accepted", "completed", "abandoned"}
        /\ status[pick[t]] # "completed"
    BY <1>4 DEF Complete, NumbersInHand
  <2>3. /\ line'[t] = "no contract" /\ pick'[t] = pick[t]
        /\ status[pick[t]] # "accepted" /\ UNCHANGED status
    BY <1>4, <2>1, <2>2 DEF Complete, Answer, TypeOK
  <2> QED
    BY <1>4, <2>2, <2>3
<1> QED
  BY <1>1, <1>2, <1>3, <1>4, Comes

LEMMA ClientsStillTellTrue ==
  ASSUME TypeOK, NumbersInHand, LinesTrue, EndsAreTold, ClientsTellTrue,
         NEW t \in Txs, Step(t) \/ Fail(t)
  PROVE  ClientsTellTrue'
<1> SUFFICES ASSUME NEW l \in letters'
             PROVE  /\ l[2] = "closed" => \E k \in letters' :
                                            k[2] \in {"paid", "unpaid"} /\ k[3] = l[3]
                    /\ l[2] = "no contract" /\ l[3] # None => status'[l[3]] = "abandoned"
  BY DEF ClientsTellTrue
<1>0. letters \subseteq letters'
  BY EndsMove
<1>1. CASE l \in letters
  <2>1. l[3] \in Numbers \cup {None}
    BY <1>1 DEF TypeOK
  <2> QED
    BY <1>0, <1>1, <2>1, AbandonedStay DEF ClientsTellTrue
<1>2. CASE l \notin letters
  <2>1. CASE Reply(t) /\ Letter(t, line[t], pick[t])
    <3>1. l = <<Mine(t), line[t], pick[t], t>> /\ step[t] = "reply"
      BY <1>2, <2>1 DEF Letter, Reply
    <3>2. l[2] = line[t] /\ l[3] = pick[t]
      BY <3>1
    <3>3. /\ line[t] = "closed" => \E k \in letters :
                                     k[2] \in {"paid", "unpaid"} /\ k[3] = pick[t]
          /\ line[t] = "no contract" /\ pick[t] # None
               => pick[t] \in Numbers /\ status[pick[t]] = "abandoned"
      BY <3>1 DEF LinesTrue
    <3> QED
      BY <1>0, <3>2, <3>3, AbandonedStay
  <2>2. CASE Letter(t, "paid", pick[t]) \/ Letter(t, "unpaid", pick[t])
    <3>1. \E w \in {"paid", "unpaid"} : l = <<Mine(t), w, pick[t], t>>
      BY <1>2, <2>2 DEF Letter
    <3>2. l[2] \in {"paid", "unpaid"}
      BY <3>1
    <3> QED
      BY <3>2
  <2>3. ~UNCHANGED told
    BY <1>2 DEF told
  <2> QED
    BY <2>1, <2>2, <2>3, LettersMove
<1> QED
  BY <1>1, <1>2

-----------------------------------------------------------------------------
(* The boards' mails.                                                      *)

LEMMA BoardsStillMailed ==
  ASSUME TypeOK, BoardsMailed, BoardMailedOnceADay, NEW t \in Txs, Step(t) \/ Fail(t)
  PROVE  BoardsMailed' /\ BoardMailedOnceADay'
<1> DEFINE h == Mine(t)
<1>0. h \in Handles /\ began[t] \in Nat
  BY DEF TypeOK, Ask, Mine
<1>1. CASE UNCHANGED desk
  <2>1. UNCHANGED <<address, mailed, sent>>
    BY <1>1 DEF desk
  <2>2. ASSUME NEW u \in Txs, step'[u] = "resend"
        PROVE  /\ lock'[Mine(u)] = u /\ address[Mine(u)] # None
               /\ mailed[Mine(u)] < began'[u]
    <3>0. Mine(u) \in Handles /\ u # None
      BY NoneAssumption DEF TypeOK, Ask, Mine
    <3>1. CASE u # t
      <4>1. step[u] = "resend" /\ began'[u] = began[u]
        BY <2>2, <3>1, StepAlone DEF Alone
      <4>2. lock[Mine(u)] = u
        BY <4>1 DEF BoardsMailed
      <4>3. lock'[Mine(u)] = u
        BY <3>0, <3>1, <4>2, StepAlone DEF Alone
      <4> QED
        BY <4>1, <4>3 DEF BoardsMailed
    <3>2. CASE u = t
      <4>1. FindBoard(t)
        BY <2>2, <3>2, Comes
      <4>2. ~Finish(t) /\ ~Go(t, "newBoard")
        BY <2>2, <3>2 DEF Finish, Go, TypeOK
      <4>3. PICK d \in 0..today : mailed[h] < d /\ Lock(t, d) /\ address[h] # None
        BY <4>1, <4>2 DEF FindBoard
      <4> QED
        BY <3>0, <3>2, <4>3 DEF Lock, TypeOK
    <3> QED
      BY <3>1, <3>2
  <2> QED
    BY <2>1, <2>2, AskedStands DEF BoardsMailed, BoardMailedOnceADay, Mine
<1>2. ASSUME Mailed(t, h), address'[h] # None,
             \A g \in Handles : g # h => address'[g] = address[g],
             \A s \in sent : s[1] = h => s[2] < began[t],
             \A u \in Txs : u # t /\ step[u] = "resend" => Mine(u) # h
      PROVE  BoardsMailed' /\ BoardMailedOnceADay'
  <2>1. /\ \A g \in Handles : g # h => mailed'[g] = mailed[g]
        /\ mailed'[h] = began[t]
        /\ sent' = sent \cup {<<h, began[t], t>>}
    BY <1>0, <1>2 DEF Mailed, TypeOK
  <2>2. ASSUME NEW s \in sent'
        PROVE  address'[s[1]] # None /\ s[2] <= mailed'[s[1]]
    <3>1. CASE s \in sent
      <4>1. s[1] \in Handles /\ s[2] \in Nat
        BY <3>1 DEF TypeOK
      <4>2. address[s[1]] # None /\ s[2] <= mailed[s[1]]
        BY <3>1 DEF BoardsMailed
      <4> QED
        BY <1>0, <1>2, <2>1, <3>1, <4>1, <4>2
    <3>2. CASE s = <<h, began[t], t>>
      BY <1>0, <1>2, <2>1, <3>2
    <3> QED
      BY <2>1, <3>1, <3>2
  <2>3. ASSUME NEW u \in Txs, step'[u] = "resend"
        PROVE  lock'[Mine(u)] = u /\ address'[Mine(u)] # None /\ mailed'[Mine(u)] < began'[u]
    <3>0. Mine(u) \in Handles /\ u # None
      BY NoneAssumption DEF TypeOK, Ask, Mine
    <3>1. u # t
      BY <1>2, <2>3 DEF Mailed, Finish, Go, TypeOK
    <3>2. step[u] = "resend" /\ began'[u] = began[u]
      BY <2>3, <3>1, StepAlone DEF Alone
    <3>3. lock[Mine(u)] = u /\ address[Mine(u)] # None /\ mailed[Mine(u)] < began[u]
      BY <3>2 DEF BoardsMailed
    <3>4. lock'[Mine(u)] = u
      BY <3>0, <3>1, <3>3, StepAlone DEF Alone
    <3>5. Mine(u) # h
      BY <1>2, <3>1, <3>2
    <3> QED
      BY <1>2, <2>1, <3>0, <3>2, <3>3, <3>4, <3>5
  <2>4. BoardsMailed'
    BY <2>2, <2>3, AskedStands DEF BoardsMailed, Mine
  <2>5. ASSUME NEW a \in sent', NEW b \in sent', a[1] = b[1], a[2] = b[2]
        PROVE  a = b
    <3>1. CASE a \in sent /\ b \in sent
      BY <2>5, <3>1 DEF BoardMailedOnceADay
    <3>2. ASSUME NEW s \in sent PROVE ~(s[1] = h /\ s[2] = began[t])
      BY <1>0, <1>2, <3>2
    <3>3. <<h, began[t], t>>[1] = h /\ <<h, began[t], t>>[2] = began[t]
      OBVIOUS
    <3> QED
      BY <2>1, <2>5, <3>1, <3>2, <3>3
  <2> QED
    BY <2>4, <2>5 DEF BoardMailedOnceADay
<1>3. CASE /\ MakeBoard(t) /\ address[h] = None /\ Mailed(t, h)
           /\ \E a \in Addresses : address' = [address EXCEPT ![h] = a]
  <2>1. address'[h] # None /\ \A g \in Handles : g # h => address'[g] = address[g]
    BY <1>0, <1>3, NoneAssumption DEF TypeOK
  <2>2. \A s \in sent : s[1] # h
    BY <1>3 DEF BoardsMailed
  <2>3. \A u \in Txs : step[u] = "resend" => Mine(u) # h
    BY <1>3 DEF BoardsMailed
  <2> QED
    BY <1>2, <1>3, <2>1, <2>2, <2>3
<1>4. CASE MailAgain(t) /\ UNCHANGED address /\ Mailed(t, h)
  <2>1. lock[h] = t /\ address[h] # None /\ mailed[h] < began[t]
    BY <1>4 DEF MailAgain, BoardsMailed
  <2>2. ASSUME NEW s \in sent, s[1] = h PROVE s[2] < began[t]
    <3>1. s[2] \in Nat /\ s[2] <= mailed[h] /\ mailed[h] \in Nat
      BY <1>0, <2>2 DEF BoardsMailed, TypeOK
    <3> QED
      BY <1>0, <2>1, <3>1
  <2>3. \A u \in Txs : u # t /\ step[u] = "resend" => Mine(u) # h
    BY <2>1 DEF BoardsMailed
  <2> QED
    BY <1>2, <1>4, <2>1, <2>2, <2>3
<1> QED
  BY <1>1, <1>3, <1>4, DeskMoves

-----------------------------------------------------------------------------
(* The theorems.                                                           *)

IInv ==
  /\ TypeOK
  /\ RowsHaveContractors
  /\ NumbersInHand
  /\ SlotsCounted /\ SlotsHold
  /\ OneActiveJob
  /\ EndsAreTold /\ PaidOnce
  /\ LinesTrue /\ ClientsTellTrue
  /\ BoardsMailed /\ BoardMailedOnceADay

\* A request begins at the first statement of what it asks.
LEMMA FirstSteps ==
  ASSUME NEW op \in Ops
  PROVE  /\ FirstStep(op) \in Steps
         /\ FirstStep(op) \in {"post", "open", "apply", "opAccept", "opDrop", "opPost"}
BY DEF Ops, FirstStep, Steps

LEMMA InitTyped ==
  ASSUME Init
  PROVE  TypeOK
<1>1. PICK r \in Records :
        /\ status = r.status /\ holder = r.holder /\ listed = r.listed
        /\ letters = {<<r.holder[n], "unpaid", n, None>> :
                        n \in {m \in Numbers : r.status[m] = "completed"}}
        /\ address = r.board
        /\ sent = {<<h, 0, None>> : h \in {g \in Handles : r.board[g] # None}}
  BY DEF Init
<1>2. r \in Record
  BY RecordsAssumption
<1>3. /\ status \in [Numbers -> Status] /\ holder \in [Numbers -> Handles \cup {None}]
      /\ listed \subseteq Numbers /\ address \in [Handles -> Addresses \cup {None}]
  BY <1>1, <1>2 DEF Record
<1>4. asked \in [Txs -> Ask] /\ \A t \in Txs : asked[t].op \in Ops
  BY AskingsAssumption DEF Init, Ask
<1>5. step \in [Txs -> Steps]
  BY <1>4, FirstSteps DEF Init
<1>6. letters \subseteq Handles \X Words \X (Numbers \cup {None}) \X (Txs \cup {None})
  <2>1. ASSUME NEW n \in Numbers, r.status[n] = "completed" PROVE r.holder[n] \in Handles
    <3>1. r.holder[n] # None
      BY <2>1, RecordsAssumption
    <3> QED
      BY <1>1, <1>3, <3>1
  <2>2. "unpaid" \in Words
    BY DEF Words
  <2> QED
    BY <1>1, <2>1, <2>2
<1>7. sent \subseteq Handles \X Nat \X (Txs \cup {None})
  BY <1>1
<1>8. /\ posted \in [Numbers -> Nat] /\ minted \in [Numbers -> Nat] /\ today \in Nat
      /\ mailed \in [Handles -> Nat] /\ lock \in [Handles -> Txs \cup {None}]
      /\ began \in [Txs -> Nat] /\ draw \in [Txs -> Nat] /\ slots \in [Txs -> Nat]
      /\ pick \in [Txs -> Numbers \cup {None}] /\ acted \in [Txs -> BOOLEAN]
  BY DEF Init
<1>9. line \in [Txs -> Words]
  BY DEF Init, Words
<1> QED
  BY <1>3, <1>4, <1>5, <1>6, <1>7, <1>8, <1>9 DEF TypeOK

LEMMA InitInv ==
  ASSUME Init
  PROVE  IInv
<1>1. PICK r \in Records :
        /\ status = r.status /\ holder = r.holder /\ listed = r.listed
        /\ letters = {<<r.holder[n], "unpaid", n, None>> :
                        n \in {m \in Numbers : r.status[m] = "completed"}}
        /\ address = r.board
        /\ sent = {<<h, 0, None>> : h \in {g \in Handles : r.board[g] # None}}
  BY DEF Init
<1>2. TypeOK
  BY InitTyped
<1>3. \A t \in Txs :
        step[t] \in {"post", "open", "apply", "opAccept", "opDrop", "opPost"}
  BY <1>2, FirstSteps DEF Init, TypeOK, Ask
<1>4. NumbersInHand /\ SlotsCounted /\ LinesTrue
  BY <1>3 DEF NumbersInHand, EntriesStand, Entries, SlotsCounted, LinesTrue
<1>5. RowsHaveContractors
  <2>1. listed \subseteq Numbers
    BY <1>2 DEF TypeOK
  <2> QED
    BY <1>1, <2>1, RecordsAssumption DEF RowsHaveContractors
<1>6. SlotsHold /\ OneActiveJob
  BY <1>1, RecordsAssumption DEF SlotsHold, OneActiveJob
<1>7. ASSUME NEW l \in letters
      PROVE  \E n \in Numbers : /\ l = <<r.holder[n], "unpaid", n, None>>
                                /\ status[n] = "completed"
  BY <1>1
<1>8. ASSUME NEW l \in letters
      PROVE  l[2] = "unpaid" /\ l[3] \in Numbers /\ status[l[3]] = "completed"
  BY <1>7
<1>9. EndsAreTold
  <2>1. ASSUME NEW n \in Numbers, status[n] = "completed"
        PROVE  \E l \in letters : l[2] \in {"paid", "unpaid"} /\ l[3] = n
    <3>1. <<r.holder[n], "unpaid", n, None>> \in letters
      BY <1>1, <2>1
    <3>2. <<r.holder[n], "unpaid", n, None>>[2] = "unpaid"
          /\ <<r.holder[n], "unpaid", n, None>>[3] = n
      OBVIOUS
    <3> QED
      BY <3>1, <3>2
  <2> QED
    BY <1>8, <2>1 DEF EndsAreTold
<1>10. PaidOnce
  <2>1. ASSUME NEW n \in Numbers
        PROVE  minted[n] = 0 /\ {l \in letters : l[2] = "paid" /\ l[3] = n} = {}
    BY <1>8, <2>1 DEF Init
  <2> QED
    BY <2>1 DEF PaidOnce
<1>11. ClientsTellTrue
  BY <1>8 DEF ClientsTellTrue
<1>12. ASSUME NEW s \in sent
       PROVE  \E h \in Handles : s = <<h, 0, None>> /\ address[h] # None
  BY <1>1
<1>13. BoardMailedOnceADay
  <2>1. ASSUME NEW a \in sent, NEW b \in sent, a[1] = b[1] PROVE a = b
    BY <1>12, <2>1
  <2> QED
    BY <2>1 DEF BoardMailedOnceADay
<1>14. BoardsMailed
  <2>1. ASSUME NEW s \in sent PROVE address[s[1]] # None /\ s[2] <= mailed[s[1]]
    BY <1>12 DEF Init
  <2> QED
    BY <1>3, <2>1 DEF BoardsMailed
<1> QED
  BY <1>2, <1>4, <1>5, <1>6, <1>9, <1>10, <1>11, <1>13, <1>14 DEF IInv

LEMMA NextInv ==
  ASSUME IInv, [Next]_vars
  PROVE  IInv'
<1> USE DEF IInv
<1>1. CASE NextDay
  <2>1. UNCHANGED <<status, holder, posted, listed, minted, letters, address, mailed, sent,
                    lock, asked, step, began, draw, slots, pick, line, acted>>
    BY <1>1 DEF NextDay, missions, told, desk, local
  <2>2. TypeOK'
    <3>1. today' \in Nat
      BY <1>1 DEF NextDay, TypeOK
    <3> QED
      BY <2>1, <3>1 DEF TypeOK
  <2>3. RowsHaveContractors' /\ NumbersInHand' /\ SlotsCounted' /\ SlotsHold'
        /\ OneActiveJob'
    BY <2>1 DEF RowsHaveContractors, NumbersInHand, EntriesStand, Entries, SlotsCounted,
       SlotsHold, OneActiveJob, Mine, Held, Active, Stale, Offers
  <2>4. EndsAreTold' /\ PaidOnce' /\ LinesTrue' /\ ClientsTellTrue'
    <3>1. EndsAreTold'
      BY <2>1 DEF EndsAreTold
    <3>2. LinesTrue'
      BY <2>1 DEF LinesTrue
    <3>3. PaidOnce'
      BY <2>1 DEF PaidOnce
    <3>4. ClientsTellTrue'
      BY <2>1 DEF ClientsTellTrue
    <3> QED
      BY <3>1, <3>2, <3>3, <3>4
  <2>5. BoardsMailed' /\ BoardMailedOnceADay'
    BY <2>1 DEF BoardsMailed, BoardMailedOnceADay, Mine
  <2> QED
    BY <2>2, <2>3, <2>4, <2>5
<1>2. CASE UNCHANGED vars
  <2>1. UNCHANGED <<status, holder, posted, listed, minted, letters, today, address, mailed,
                    sent, lock, asked, step, began, draw, slots, pick, line, acted>>
    BY <1>2 DEF vars
  <2>2. TypeOK' /\ RowsHaveContractors' /\ NumbersInHand' /\ SlotsCounted' /\ SlotsHold'
        /\ OneActiveJob'
    BY <2>1 DEF TypeOK, RowsHaveContractors, NumbersInHand, EntriesStand, Entries,
       SlotsCounted, SlotsHold, OneActiveJob, Mine, Held, Active, Stale, Offers
  <2>3. EndsAreTold' /\ PaidOnce' /\ LinesTrue' /\ ClientsTellTrue'
    <3>1. EndsAreTold'
      BY <2>1 DEF EndsAreTold
    <3>2. LinesTrue'
      BY <2>1 DEF LinesTrue
    <3>3. PaidOnce'
      BY <2>1 DEF PaidOnce
    <3>4. ClientsTellTrue'
      BY <2>1 DEF ClientsTellTrue
    <3> QED
      BY <3>1, <3>2, <3>3, <3>4
  <2>4. BoardsMailed' /\ BoardMailedOnceADay'
    BY <2>1 DEF BoardsMailed, BoardMailedOnceADay, Mine
  <2> QED
    BY <2>2, <2>3, <2>4
<1>3. ASSUME NEW t \in Txs, Step(t) \/ Fail(t) PROVE IInv'
  <2>1. TypeOK' /\ RowsHaveContractors' /\ NumbersInHand'
    BY <1>3, TypesStand, RowsStillHaveContractors, NumbersStillInHand
  <2>2. SlotsCounted' /\ SlotsHold' /\ OneActiveJob'
    BY <1>3, SlotsStillCounted, SlotsStillHold, OneJobStill
  <2>3. EndsAreTold' /\ PaidOnce' /\ LinesTrue' /\ ClientsTellTrue'
    BY <1>3, EndsStillTold, PaidStillOnce, LinesStillTrue, ClientsStillTellTrue
  <2>4. BoardsMailed' /\ BoardMailedOnceADay'
    BY <1>3, BoardsStillMailed
  <2> QED
    BY <2>1, <2>2, <2>3, <2>4
<1> QED
  BY <1>1, <1>2, <1>3 DEF Next

\* The invariant the others follow from.
THEOREM Invariance == Spec => []IInv
<1>1. Init => IInv
  BY InitInv
<1>2. IInv /\ [Next]_vars => IInv'
  BY NextInv
<1> QED
  BY <1>1, <1>2, PTL DEF Spec

\* Every variable keeps to its type.
THEOREM Typing == Spec => []TypeOK
<1>1. IInv => TypeOK
  BY DEF IInv
<1> QED
  BY <1>1, Invariance, PTL

\* However many reads of a board run at once, it never shows more than it has slots for.
THEOREM SlotsAreNeverPassed == Spec => []SlotsHold
<1>1. IInv => SlotsHold
  BY DEF IInv
<1> QED
  BY <1>1, Invariance, PTL

\* A handle never works two jobs, the desk and the boards together.
THEOREM OneJob == Spec => []OneActiveJob
<1>1. IInv => OneActiveJob
  BY DEF IInv
<1> QED
  BY <1>1, Invariance, PTL

\* Two right mails at once mint one pay, and its letter is sent once.
THEOREM PaidAndTold == Spec => []PaidOnceAndTold
<1>1. IInv => PaidOnceAndTold
  BY PaidTold DEF IInv
<1> QED
  BY <1>1, Invariance, PTL

\* A client's answer holds of the job when the letter is read, too.
THEOREM TrueLetters == Spec => []ClientsTellTrue
<1>1. IInv => ClientsTellTrue
  BY DEF IInv
<1> QED
  BY <1>1, Invariance, PTL

\* No handle is mailed its board twice in a day.
THEOREM MailedOnce == Spec => []BoardMailedOnceADay
<1>1. IInv => BoardMailedOnceADay
  BY DEF IInv
<1> QED
  BY <1>1, Invariance, PTL

-----------------------------------------------------------------------------
(* The networks.                                                           *)
Standing == {n \in Numbers : status[n] \in {"accepted", "completed", "abandoned"}}
Dead == {n \in Numbers : status[n] = "burned"}

\* No step makes two networks stand, or burns while one comes to stand.
LEMMA StandsOrBurns ==
  ASSUME IInv, NEW t \in Txs, Step(t) \/ Fail(t)
  PROVE  \/ Standing' = Standing /\ Dead' = Dead
         \/ Dead' = Dead /\ \E n \in Numbers \ Dead : Standing' = Standing \cup {n}
         \/ /\ Standing' = Standing
            /\ \E ns \in SUBSET (Numbers \ Standing) : Dead' = Dead \cup ns
<1>1. \A n \in Numbers : n \in Standing => n \in Standing' /\ n \notin Dead'
  BY MissionsMove DEF IInv, Standing, Dead, Same, Burned, Posted, Taken, Inserted,
     Completed, Abandoned
<1>2. \A n \in Numbers : n \in Dead => n \in Dead'
  BY MissionsMove DEF IInv, Standing, Dead, Same, Burned, Posted, Taken, Inserted,
     Completed, Abandoned
<1>3. \A n \in Numbers : n \in Standing' /\ n \notin Standing => n = pick[t] /\ n \notin Dead
  BY MissionsMove DEF IInv, Standing, Dead, Same, Burned, Posted, Taken, Inserted,
     Completed, Abandoned
<1>4. Standing \subseteq Numbers /\ Dead \subseteq Numbers
      /\ Standing' \subseteq Numbers /\ Dead' \subseteq Numbers
  BY DEF Standing, Dead
<1>5. CASE Standing' = Standing
  <2>1. Dead' = Dead \cup (Dead' \ Dead) /\ Dead' \ Dead \in SUBSET (Numbers \ Standing)
    BY <1>1, <1>2, <1>4
  <2> QED
    BY <1>5, <2>1
<1>6. CASE Standing' # Standing
  <2>1. PICK n \in Standing' : n \notin Standing
    BY <1>1, <1>4, <1>6
  <2>2. n = pick[t] /\ n \in Numbers \ Dead
    BY <1>3, <1>4, <2>1
  <2>3. Standing' = Standing \cup {n}
    BY <1>1, <1>3, <1>4, <2>1, <2>2
  <2>4. Dead' = Dead
    <3>1. Taken(t, n) \/ Inserted(t, n)
      BY <1>4, <2>1, MissionsMove DEF IInv, Standing, Same, Burned, Posted, Completed,
         Abandoned
    <3>2. step[t] \in {"take", "opCommit"}
      BY <3>1 DEF Taken, TakeOffer, Inserted, DeskCommits
    <3>3. ASSUME NEW k \in Numbers, k \in Dead', k \notin Dead PROVE FALSE
      <4>1. Burned(t, k)
        BY <3>3, MissionsMove DEF IInv, Dead, Same, Posted, Taken, Inserted, Completed,
           Abandoned
      <4> QED
        BY <3>2, <4>1 DEF Burned, PostOffers, DeskBurns
    <3> QED
      BY <1>2, <1>4, <3>3
  <2> QED
    BY <2>2, <2>3, <2>4
<1> QED
  BY <1>5, <1>6

\* Whatever the boards, the mails and the desk do, what a number promises the
\* rest of the world is what JobNetwork says.
THEOREM Refinement == Spec => NetworksStand
<1>1. Init => Net!Init
  BY DEF Init, Net!Init
<1>2. IInv /\ [Next]_vars => [Net!Next]_Net!netVars
  <2>1. SUFFICES ASSUME IInv, [Next]_vars
                 PROVE  Net!Next \/ UNCHANGED Net!netVars
    OBVIOUS
  <2>2. CASE UNCHANGED status
    BY <2>2 DEF Net!netVars
  <2>3. ASSUME NEW t \in Txs, Step(t) \/ Fail(t)
        PROVE  Net!Next \/ UNCHANGED Net!netVars
    BY <2>1, <2>3, StandsOrBurns DEF Standing, Dead, Net!Next, Net!Stand, Net!Burn, Net!netVars
  <2> QED
    BY <2>1, <2>2, <2>3 DEF Next, NextDay, vars, missions
<1> QED
  BY <1>1, <1>2, Invariance, PTL DEF Spec, NetworksStand, Net!Spec
-----------------------------------------------------------------------------
(* A job's one life, and what the desk's last statement may undo.          *)

\* What became of a number never comes undone: its contractor keeps it, it
\* moves on from one state to the next, its pay is minted only as it completes,
\* and once it did only the desk reaches it (hireme_missions.sql:20-31).
OneLife ==
  \A n \in Numbers :
    /\ holder[n] # None => holder'[n] = holder[n]
    /\ status'[n] # status[n] =>
         <<status[n], status'[n]>> \in
           {<<"none", "offered">>, <<"none", "accepted">>, <<"offered", "burned">>,
            <<"offered", "accepted">>, <<"accepted", "completed">>,
            <<"accepted", "abandoned">>, <<"completed", "abandoned">>}
    /\ minted'[n] # minted[n] => status[n] = "accepted" /\ status'[n] = "completed"
    /\ status[n] = "completed" /\ status'[n] # "completed" =>
         \E t \in Txs : DeskCloses(t) /\ pick[t] = n

\* Only the desk's close, which goes by the number alone, reaches a completed job.
LEMMA OnlyTheDeskUndoes ==
  ASSUME TypeOK, NumbersInHand, NEW t \in Txs, Step(t) \/ Fail(t), NEW n \in Numbers,
         status[n] = "completed", status'[n] # "completed"
  PROVE  DeskCloses(t) /\ pick[t] = n
<1>1. Abandoned(n)
  BY MissionsMove DEF Same, Burned, Posted, Taken, Inserted, Completed
<1>2. status' # status
  BY <1>1 DEF Abandoned
<1>3. ~PostOffers(t)
  BY <1>1 DEF Abandoned, PostOffers, Stale, Offers
<1>4. ~TakeOffer(t) /\ ~Complete(t)
  BY <1>1 DEF Abandoned, TakeOffer, Complete, TypeOK
<1>5. ~Drop(t)
  BY <1>1 DEF Abandoned, Drop, TypeOK
<1>6. ~DeskCommits(t) /\ ~DeskBurns(t)
  BY <1>1 DEF Abandoned, DeskCommits, DeskBurns, Offers, TypeOK
<1>7. DeskCloses(t)
  BY <1>2, <1>3, <1>4, <1>5, <1>6 DEF Step, Fail, missions, CountSlots, CheckFree, OpenJobs,
     CheckDone, Reply, FindBoard, MakeBoard, MailAgain, DeskReadsFree, DeskReadsNumber,
     DeskInserts, DeskReadsJob
<1> QED
  BY <1>1, <1>7 DEF Abandoned, DeskCloses, TypeOK

\* Pay is minted as its job completes.
LEMMA PaidOnCompletion ==
  ASSUME TypeOK, NumbersInHand, NEW t \in Txs, Step(t) \/ Fail(t), NEW n \in Numbers,
         minted'[n] # minted[n]
  PROVE  status[n] = "accepted" /\ status'[n] = "completed"
<1>1. /\ Complete(t) /\ holder[pick[t]] = Mine(t) /\ status[pick[t]] = "accepted"
      /\ minted' = [minted EXCEPT ![pick[t]] = @ + 1]
  BY LettersMove DEF told
<1>2. pick[t] = n
  BY <1>1 DEF TypeOK
<1> QED
  BY <1>1, <1>2 DEF Complete, TypeOK

LEMMA LifeStep ==
  ASSUME IInv, [Next]_vars
  PROVE  OneLife
<1> USE DEF IInv
<1>1. CASE UNCHANGED <<status, holder, minted>>
  BY <1>1 DEF OneLife
<1>2. ASSUME NEW t \in Txs, Step(t) \/ Fail(t), NEW n \in Numbers
      PROVE  /\ holder[n] # None => holder'[n] = holder[n]
             /\ status'[n] # status[n] =>
                  <<status[n], status'[n]>> \in
                    {<<"none", "offered">>, <<"none", "accepted">>, <<"offered", "burned">>,
                     <<"offered", "accepted">>, <<"accepted", "completed">>,
                     <<"accepted", "abandoned">>, <<"completed", "abandoned">>}
  BY <1>2, MissionsMove DEF Same, Burned, Posted, Taken, Inserted, Completed, Abandoned,
     RowsHaveContractors
<1>3. ASSUME NEW t \in Txs, Step(t) \/ Fail(t) PROVE OneLife
  BY <1>2, <1>3, OnlyTheDeskUndoes, PaidOnCompletion DEF OneLife
<1> QED
  BY <1>1, <1>3 DEF Next, NextDay, vars, missions, told

\* A number is one job of one contractor, whatever the boards, the mails and
\* the desk do at once, and nothing but the desk's close, which goes by the
\* number alone, reaches a job that was completed (scripts/hireme.ts).
THEOREM EachJobLivesOnce == Spec => [][OneLife]_vars
<1>1. IInv /\ [Next]_vars => [OneLife]_vars
  BY LifeStep
<1> QED
  BY <1>1, Invariance, PTL DEF Spec

\* The desk is about to close no job that a mail has completed since it was
\* read (scripts/hireme.ts reads the job and closes it in two statements).
DeskIsNotOvertaken == \A t \in Txs : step[t] = "opClose" => status[pick[t]] # "completed"

\* The pay of a job stands on its completion.
PayStands == \A n \in Numbers : minted[n] # 0 => status[n] = "completed"

\* "abandoned ... pays nothing" (hireme_missions.sql:26) is true of every history
\* in which no mail completes a job between the desk's two statements: that
\* race is all that makes it false.
THEOREM AbandonedUnpaid ==
  Spec /\ []DeskIsNotOvertaken => [](AbandonedPaysNothing /\ PayStands)
<1>1. Init => PayStands
  BY DEF Init, PayStands
<1>2. IInv /\ DeskIsNotOvertaken /\ PayStands /\ [Next]_vars => PayStands'
  <2> SUFFICES ASSUME IInv, DeskIsNotOvertaken, PayStands, [Next]_vars,
                      NEW n \in Numbers, minted'[n] # 0
               PROVE  status'[n] = "completed"
    BY DEF PayStands
  <2>1. OneLife
    BY LifeStep
  <2>2. CASE minted'[n] # minted[n]
    BY <2>1, <2>2 DEF OneLife
  <2>3. CASE minted'[n] = minted[n]
    <3>1. status[n] = "completed"
      BY <2>3 DEF PayStands
    <3>2. ASSUME NEW t \in Txs, DeskCloses(t), pick[t] = n PROVE FALSE
      BY <3>1, <3>2 DEF DeskCloses, DeskIsNotOvertaken
    <3> QED
      BY <2>1, <3>1, <3>2 DEF OneLife
  <2> QED
    BY <2>2, <2>3
<1>3. PayStands => AbandonedPaysNothing
  BY DEF PayStands, AbandonedPaysNothing
<1> QED
  BY <1>1, <1>2, <1>3, Invariance, PTL DEF Spec

-----------------------------------------------------------------------------
(* Getting on.                                                             *)

\* The rounds of candidates, or of addresses, stay within their bound.
RoundsBounded == \A t \in Txs : draw[t] <= MaxDraws

\* How many steps a request at a step has left, at the most, in its round and once
\* its door has acted or not: a board is read in rounds until it is full, the door
\* acts once, and the board is read again.
LeftAt(s, round, done) ==
  LET rounds == MaxDraws - round
      act == IF done THEN 0 ELSE 2 * MaxDraws + 4
  IN CASE s = "opPost" -> 4 * MaxDraws + 7
       [] s = "post" -> act + 2 * rounds + 2
       [] s = "fill" -> act + 2 * rounds + 1
       [] s = "accept" -> 2 * MaxDraws + 4
       [] s \in {"take", "drop"} -> 2 * MaxDraws + 3
       [] s = "apply" -> 2 * rounds + 2
       [] s = "newBoard" -> 2 * rounds + 1
       [] s = "open" -> 4
       [] s = "opAccept" -> 4
       [] s \in {"complete", "opNumber"} -> 3
       [] s \in {"close", "opInsert", "opDrop"} -> 2
       [] s = "done" -> 0
       [] OTHER -> 1

Left(t) == LeftAt(step[t], draw[t], acted[t])

\* Every step but midnight takes one request nearer its end and leaves the others
\* where they are.
OneGetsNearer ==
  today' = today => \E t \in Txs : /\ Left(t)' < Left(t)
                                   /\ \A u \in Txs \ {t} : Left(u)' = Left(u)

\* What a step does with the request's place, its rounds and whether it acted.
Moves(t) ==
  LET s == step[t]
      z == step'[t]
      stay == draw'[t] = draw[t] /\ acted'[t] = acted[t]
      again == draw'[t] = draw[t] + 1 /\ draw[t] + 1 < MaxDraws /\ acted'[t] = acted[t]
  IN
  \/ z = "done" /\ draw'[t] = 0
  \/ s = "fill" /\ z = "post" /\ again
  \/ s = "newBoard" /\ z = "apply" /\ again
  \/ s \in {"accept", "take", "drop"} /\ z = "post" /\ draw'[t] = 0 /\ acted'[t] = TRUE
  \/ s = "fill" /\ z \in {"accept", "drop"} /\ ~acted[t] /\ stay
  \/ stay /\ <<s, z>> \in {<<"opPost", "post">>, <<"post", "fill">>, <<"accept", "take">>,
                           <<"apply", "newBoard">>, <<"apply", "resend">>,
                           <<"open", "complete">>, <<"open", "reply">>,
                           <<"complete", "close">>, <<"complete", "reply">>,
                           <<"close", "reply">>, <<"opAccept", "opNumber">>,
                           <<"opNumber", "opInsert">>, <<"opInsert", "opCommit">>,
                           <<"opDrop", "opClose">>}

\* The request's own place is all that moves.
Elsewhere(t) ==
  \A u \in Txs \ {t} : step'[u] = step[u] /\ draw'[u] = draw[u] /\ acted'[u] = acted[u]

LEMMA FinishMoves ==
  ASSUME TypeOK, NEW t \in Txs, Finish(t)
  PROVE  Moves(t) /\ Elsewhere(t)
BY DEF TypeOK, Finish, Go, Moves, Elsewhere

LEMMA RereadMoves ==
  ASSUME TypeOK, NEW t \in Txs, step[t] \in {"accept", "take", "drop"}, Reread(t)
  PROVE  Moves(t) /\ Elsewhere(t)
BY DEF TypeOK, Reread, Release, Go, Moves, Elsewhere

LEMMA GoMoves ==
  ASSUME TypeOK, NEW t \in Txs, NEW z, Go(t, z), UNCHANGED <<draw, acted>>,
         \/ step[t] = "fill" /\ z \in {"accept", "drop"} /\ ~acted[t]
         \/ <<step[t], z>> \in {<<"opPost", "post">>, <<"post", "fill">>, <<"accept", "take">>,
                           <<"apply", "newBoard">>, <<"apply", "resend">>,
                           <<"open", "complete">>, <<"open", "reply">>,
                           <<"complete", "close">>, <<"complete", "reply">>,
                           <<"close", "reply">>, <<"opAccept", "opNumber">>,
                           <<"opNumber", "opInsert">>, <<"opInsert", "opCommit">>,
                           <<"opDrop", "opClose">>}
  PROVE  Moves(t) /\ Elsewhere(t)
<1>1. step'[t] = z /\ draw'[t] = draw[t] /\ acted'[t] = acted[t]
  BY DEF TypeOK, Go
<1>2. Elsewhere(t)
  BY DEF TypeOK, Go, Elsewhere
<1> QED
  BY <1>1, <1>2 DEF Moves

LEMMA AgainMoves ==
  ASSUME TypeOK, NEW t \in Txs, NEW z, Release(t, z), draw[t] + 1 < MaxDraws,
         draw' = [draw EXCEPT ![t] = @ + 1], acted' = acted,
         <<step[t], z>> \in {<<"fill", "post">>, <<"newBoard", "apply">>}
  PROVE  Moves(t) /\ Elsewhere(t)
<1>1. step'[t] = z /\ draw'[t] = draw[t] + 1 /\ acted'[t] = acted[t]
  BY DEF TypeOK, Release, Go
<1>2. Elsewhere(t)
  BY DEF TypeOK, Release, Go, Elsewhere
<1> QED
  BY <1>1, <1>2 DEF Moves

LEMMA StepMoves ==
  ASSUME TypeOK, NEW t \in Txs, Step(t) \/ Fail(t)
  PROVE  Moves(t) /\ Elsewhere(t) /\ step[t] # "done"
<1>0. step[t] # "done"
  BY DEF Step, Fail, CountSlots, PostOffers, CheckFree, TakeOffer, Drop, OpenJobs, CheckDone,
     Complete, Reply, FindBoard, MakeBoard, MailAgain, DeskReadsFree, DeskReadsNumber,
     DeskInserts, DeskCommits, DeskReadsJob, DeskCloses, DeskBurns
<1>1. CASE Finish(t)
  BY <1>0, <1>1, FinishMoves
<1>2. CASE CountSlots(t)
  BY <1>0, <1>2, GoMoves DEF CountSlots
<1>3. CASE PostOffers(t) /\ ~Finish(t)
  <2> DEFINE o == Offers(status', holder', Mine(t))
             c == Active(status', holder', Mine(t))
  <2>1. step[t] = "fill" /\ Door(t, o, c)
    BY <1>3 DEF PostOffers
  <2> HIDE DEF o, c
  <2>2. CASE /\ draw[t] + 1 < MaxDraws /\ draw' = [draw EXCEPT ![t] = @ + 1]
             /\ Release(t, "post") /\ UNCHANGED acted
    BY <1>0, <2>1, <2>2, AgainMoves
  <2>3. CASE /\ Release(t, asked[t].op) /\ asked[t].op \in {"accept", "drop"} /\ ~acted[t]
             /\ UNCHANGED <<draw, acted>>
    BY <1>0, <2>1, <2>3, GoMoves DEF Release
  <2> QED
    BY <1>3, <2>1, <2>2, <2>3 DEF Door
<1>4. CASE CheckFree(t)
  <2>1. CASE Reread(t)
    BY <1>0, <1>4, <2>1, RereadMoves DEF CheckFree
  <2> QED
    BY <1>0, <1>4, <2>1, GoMoves DEF CheckFree
<1>5. CASE (TakeOffer(t) \/ Drop(t)) /\ ~Finish(t)
  BY <1>0, <1>5, RereadMoves DEF TakeOffer, Drop
<1>6. CASE OpenJobs(t)
  <2>1. step[t] = "open" /\ UNCHANGED <<draw, acted>> /\ (Go(t, "complete") \/ Go(t, "reply"))
    BY <1>6 DEF OpenJobs
  <2> QED
    BY <1>0, <2>1, GoMoves
<1>7. CASE CheckDone(t)
  <2>1. step[t] = "complete" /\ UNCHANGED <<draw, acted>> /\ (Go(t, "close") \/ Go(t, "reply"))
    BY <1>7 DEF CheckDone
  <2> QED
    BY <1>0, <2>1, GoMoves
<1>8. CASE Complete(t) /\ ~Finish(t)
  BY <1>0, <1>8, GoMoves DEF Complete, Release
<1>9. CASE FindBoard(t) /\ ~Finish(t)
  <2>1. step[t] = "apply" /\ UNCHANGED <<draw, acted>> /\ (Go(t, "newBoard") \/ Go(t, "resend"))
    BY <1>9 DEF FindBoard
  <2> QED
    BY <1>0, <2>1, GoMoves
<1>10. CASE MakeBoard(t) /\ ~Finish(t)
  BY <1>0, <1>10, AgainMoves DEF MakeBoard, Mailed
<1>11. CASE /\ DeskReadsFree(t) \/ DeskReadsNumber(t) \/ DeskReadsJob(t) \/ DeskInserts(t)
            /\ ~Finish(t)
  BY <1>0, <1>11, GoMoves DEF DeskReadsFree, DeskReadsNumber, DeskReadsJob, DeskInserts
<1>12. CASE DeskBurns(t) /\ ~Finish(t)
  BY <1>0, <1>12, GoMoves DEF DeskBurns, Release
<1> QED
  BY <1>1, <1>2, <1>3, <1>4, <1>5, <1>6, <1>7, <1>8, <1>9, <1>10, <1>11, <1>12 DEF Step, Fail,
     Reply, MailAgain, Mailed, DeskCommits, DeskCloses

LEMMA RoundsStillBounded ==
  ASSUME TypeOK, RoundsBounded, NEW t \in Txs, Step(t) \/ Fail(t)
  PROVE  RoundsBounded'
<1>1. \A u \in Txs \ {t} : draw'[u] = draw[u]
  BY StepMoves DEF Elsewhere
<1>2. draw'[t] = draw[t] \/ draw'[t] = 0 \/ (draw'[t] = draw[t] + 1 /\ draw[t] + 1 < MaxDraws)
  BY StepMoves DEF Moves
<1>3. draw'[t] <= MaxDraws
  BY <1>2, WorldAssumption DEF RoundsBounded, TypeOK
<1> QED
  BY <1>1, <1>3 DEF RoundsBounded

\* A request that has not ended has a step left.
LEMMA Positive ==
  ASSUME NEW s \in Steps \ {"done"}, NEW d \in Nat, d <= MaxDraws, NEW a \in BOOLEAN
  PROVE  LeftAt(s, d, a) \in Int /\ LeftAt(s, d, a) >= 1
<1>1. MaxDraws \in Nat
  BY WorldAssumption
<1>2. CASE s \in {"opPost", "post", "fill"}
  BY <1>1, <1>2 DEF LeftAt
<1>3. CASE s \in {"accept", "take", "drop", "apply", "newBoard"}
  BY <1>1, <1>3 DEF LeftAt
<1>4. CASE s \notin {"opPost", "post", "fill", "accept", "take", "drop", "apply", "newBoard"}
  BY <1>4 DEF LeftAt
<1> QED
  BY <1>2, <1>3, <1>4

LEMMA NearerStep ==
  ASSUME TypeOK, RoundsBounded, NEW t \in Txs, Step(t) \/ Fail(t)
  PROVE  Left(t)' < Left(t) /\ \A u \in Txs \ {t} : Left(u)' = Left(u)
<1>1. \A u \in Txs \ {t} : Left(u)' = Left(u)
  BY StepMoves DEF Elsewhere, Left
<1>2. Left(t)' = LeftAt(step'[t], draw'[t], acted'[t])
  BY DEF Left
<1>3. /\ MaxDraws \in Nat /\ draw[t] \in Nat /\ draw[t] <= MaxDraws
      /\ acted[t] \in BOOLEAN /\ step[t] \in Steps \ {"done"}
  BY StepMoves, WorldAssumption DEF TypeOK, RoundsBounded
<1>4. Moves(t)
  BY StepMoves
<1>5. LeftAt(step'[t], draw'[t], acted'[t]) < LeftAt(step[t], draw[t], acted[t])
  <2> DEFINE s == step[t]  d == draw[t]  a == acted[t]
             z == step'[t] e == draw'[t] b == acted'[t]
  <2>1. CASE z = "done"
    <3>1. LeftAt(s, d, a) >= 1
      BY <1>3, Positive
    <3>2. LeftAt(z, e, b) = 0
      BY <2>1 DEF LeftAt
    <3>3. LeftAt(s, d, a) \in Int
      BY <1>3, Positive
    <3> QED
      BY <3>1, <3>2, <3>3
  <2>2. CASE s = "fill"
    BY <1>3, <1>4, <2>1, <2>2 DEF Moves, LeftAt
  <2>3. CASE s = "newBoard"
    BY <1>3, <1>4, <2>1, <2>3 DEF Moves, LeftAt
  <2>4. CASE s \in {"accept", "take", "drop"}
    BY <1>3, <1>4, <2>1, <2>4 DEF Moves, LeftAt
  <2>5. CASE s \in {"opPost", "post"}
    BY <1>3, <1>4, <2>1, <2>5 DEF Moves, LeftAt
  <2>6. CASE s = "apply"
    <3>1. LeftAt(s, d, a) = 2 * (MaxDraws - d) + 2
      BY <2>6 DEF LeftAt
    <3>2. CASE z = "newBoard" /\ e = d
      <4>1. LeftAt(z, e, b) = 2 * (MaxDraws - d) + 1
        BY <3>2 DEF LeftAt
      <4> QED
        BY <1>3, <3>1, <4>1
    <3>3. CASE z = "resend"
      <4>1. LeftAt(z, e, b) = 1
        BY <3>3 DEF LeftAt
      <4> QED
        BY <1>3, <3>1, <4>1
    <3> QED
      BY <1>4, <2>1, <2>6, <3>2, <3>3 DEF Moves
  <2>7. CASE s \in {"open", "complete", "close", "opAccept", "opNumber", "opInsert", "opDrop"}
    <3>1. CASE z # "done"
      <4>1. <<s, z>> \in {<<"open", "complete">>, <<"open", "reply">>, <<"complete", "close">>,
                          <<"complete", "reply">>, <<"close", "reply">>,
                          <<"opAccept", "opNumber">>, <<"opNumber", "opInsert">>,
                          <<"opInsert", "opCommit">>, <<"opDrop", "opClose">>}
        BY <1>4, <2>7, <3>1 DEF Moves
      <4> QED
        BY <4>1 DEF LeftAt
    <3> QED
      BY <2>1, <3>1
  <2>8. CASE z # "done" => s \in {"fill", "newBoard", "accept", "take", "drop", "opPost",
                                  "post", "apply", "open", "complete", "close", "opAccept",
                                  "opNumber", "opInsert", "opDrop"}
    BY <2>1, <2>2, <2>3, <2>4, <2>5, <2>6, <2>7, <2>8
  <2> QED
    BY <1>4, <2>8 DEF Moves
<1> QED
  BY <1>1, <1>2, <1>5 DEF Left

\* No request runs for ever: its rounds are bounded and a door acts once, whatever the
\* others put on its board or take from it meanwhile.
THEOREM StepsRunOut == Spec => [][OneGetsNearer]_vars
<1>1. Init => RoundsBounded
  BY WorldAssumption DEF Init, RoundsBounded
<1>2. IInv /\ RoundsBounded /\ [Next]_vars => RoundsBounded'
  BY RoundsStillBounded DEF IInv, Next, NextDay, vars, local, RoundsBounded
<1>3. IInv /\ RoundsBounded /\ [Next]_vars => [OneGetsNearer]_vars
  <2> SUFFICES ASSUME IInv, RoundsBounded, Next, today' = today
               PROVE  OneGetsNearer
    BY DEF OneGetsNearer
  <2>1. ~NextDay
    BY DEF IInv, TypeOK, NextDay
  <2>2. PICK t \in Txs : Step(t) \/ Fail(t)
    BY <2>1 DEF Next
  <2> QED
    BY <2>2, NearerStep DEF IInv, OneGetsNearer
<1> QED
  BY <1>1, <1>2, <1>3, Invariance, PTL DEF Spec
=============================================================================
