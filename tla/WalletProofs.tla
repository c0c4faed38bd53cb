---------------------------- MODULE WalletProofs ----------------------------
(* What holds of the ledger for any number of addresses and transactions.  *)
EXTENDS Wallet, FiniteSetTheorems, NaturalsInduction, TLAPS

-----------------------------------------------------------------------------
(* The invariants the theorems rest on.                                    *)

\* A transaction past its first statement holds every row that statement found.
HoldsWhatItSaw ==
  \A t \in Txs : Running(t) =>
    /\ \A a \in txs[t].seen \ txs[t].want : locks[a] = t
    /\ txs[t].step # "lock" => \A a \in txs[t].seen : locks[a] = t

\* A credit that fits goes on fitting: the row it credits is locked.
CreditsFit ==
  \A t \in Txs : At(t, "debit") =>
    /\ locks[txs[t].order.to] = t
    /\ Fits(txs[t].order.to, txs[t].order.amount)

\* A checked order's number is not past its sender's, and is the sender's own where
\* the sender's row was locked.
ChecksStand ==
  \A t \in Txs : Running(t) /\ txs[t].step \in {"credit", "debit"} =>
    LET order == txs[t].order IN
    /\ order.sequence <= next[order.from]
    /\ order.from \in txs[t].seen => order.sequence = next[order.from]

\* Every transfer sent was signed at a number its sender has used up.
NumbersUsedUp ==
  \A i \in DOMAIN transfers :
    transfers[i].from # None => transfers[i].sequence < next[transfers[i].from]

-----------------------------------------------------------------------------
(* What a step does to the transactions and the rows they hold.            *)

\* A lock taken is one row fewer wanted; the last one lets the order be read.
LEMMA LockedStep ==
  ASSUME NEW tx \in Tx, NEW a
  PROVE  /\ Locked(tx, a) \in Tx
         /\ Locked(tx, a).seen = tx.seen /\ Locked(tx, a).want = tx.want \ {a}
         /\ Locked(tx, a).step \in {"lock", "read"}
         /\ Locked(tx, a).step = "read" <=> tx.want = {a}
<1> DEFINE step == IF tx.want = {a} THEN "read" ELSE "lock"
<1>1. step \in {"lock", "read"} /\ (step = "read" <=> tx.want = {a})
  OBVIOUS
<1>2. Locked(tx, a) = [tx EXCEPT !.want = @ \ {a}, !.step = step]
  BY DEF Locked
<1> HIDE DEF step
<1> QED
  BY <1>1, <1>2 DEF Tx

LEMMA LockedOrder ==
  ASSUME NEW tx \in Tx, NEW a
  PROVE  Locked(tx, a).order = tx.order
<1> DEFINE step == IF tx.want = {a} THEN "read" ELSE "lock"
<1>1. Locked(tx, a) = [tx EXCEPT !.want = @ \ {a}, !.step = step]
  BY DEF Locked
<1> HIDE DEF step
<1> QED
  BY <1>1 DEF Tx

\* What a statement leaves its transaction at.
LEMMA TxStep ==
  ASSUME NEW t \in Txs, ReadSender(t) \/ Credit(t)
  PROVE  \/ Finish(t)
         \/ txs' = [txs EXCEPT ![t] = [txs[t] EXCEPT !.step = "credit"]]
         \/ txs' = [txs EXCEPT ![t] = [txs[t] EXCEPT !.step = "debit"]]
BY DEF ReadSender, Credit

\* A transaction's step touches no other transaction.
LEMMA TxsAlone ==
  ASSUME TypeOK, [Next]_vars, NEW t \in Txs, txs'[t] # txs[t]
  PROVE  (\E order \in Orders : Begin(t, order)) \/ Step(t) \/ Abort(t)
<1>1. PICK u \in Txs : (\E order \in Orders : Begin(u, order)) \/ Step(u) \/ Abort(u)
  BY DEF Next, vars, Mint
<1>2. ASSUME NEW tx, txs' = [txs EXCEPT ![u] = tx] PROVE u = t
  BY <1>2 DEF TypeOK
<1>3. ASSUME NEW order \in Orders, Begin(u, order) PROVE u = t
  BY <1>2, <1>3 DEF Begin
<1>4. ASSUME LockRow(u) PROVE u = t
  BY <1>2, <1>4 DEF LockRow
<1>5. ASSUME Finish(u) PROVE u = t
  BY <1>2, <1>5 DEF Finish
<1>6. ASSUME ReadSender(u) \/ Credit(u) PROVE u = t
  BY <1>2, <1>5, <1>6, TxStep
<1>7. ASSUME Debit(u) \/ Abort(u) PROVE u = t
  BY <1>5, <1>7 DEF Debit, Abort
<1> QED
  BY <1>1, <1>3, <1>4, <1>6, <1>7 DEF Step

\* A row stays its holder's until the holder is done.
LEMMA LocksStand ==
  ASSUME TypeOK, [Next]_vars, NEW t \in Txs, NEW a \in Addresses,
         locks[a] = t, txs'[t] # None
  PROVE  locks'[a] = t
<1>1. t # None
  BY NoneAssumption
<1>2. CASE UNCHANGED locks
  BY <1>2
<1>3. ASSUME NEW u \in Txs, LockRow(u) PROVE locks'[a] = t
  BY <1>1, <1>3 DEF LockRow, TypeOK
<1>4. ASSUME NEW u \in Txs, Finish(u) PROVE locks'[a] = t
  <2>1. txs'[u] = None
    BY <1>4 DEF Finish, TypeOK
  <2> QED
    BY <1>4, <2>1 DEF Finish, Unlocked
<1>5. ASSUME NEW u \in Txs, Credit(u) PROVE locks'[a] = t
  BY <1>1, <1>4, <1>5 DEF Credit, TypeOK
<1>6. UNCHANGED locks \/ \E u \in Txs : LockRow(u) \/ Finish(u) \/ Credit(u)
  BY DEF Next, Step, vars, Mint, Begin, ReadSender, Debit, Abort
<1> QED
  BY <1>2, <1>3, <1>4, <1>5, <1>6

\* Nobody moves the coins or the number of a row another holds.
LEMMA RowsStand ==
  ASSUME TypeOK, CreditsFit, [Next]_vars, NEW t \in Txs, NEW a \in Addresses,
         locks[a] = t, ~Debit(t)
  PROVE  balance'[a] = balance[a] /\ next'[a] = next[a]
<1>1. t # None
  BY NoneAssumption
<1>2. CASE UNCHANGED <<balance, next>>
  BY <1>2
<1>3. ASSUME NEW b \in Addresses, NEW amount \in Amounts, Mint(b, amount)
      PROVE  balance'[a] = balance[a] /\ next'[a] = next[a]
  BY <1>1, <1>3 DEF Mint, TypeOK
<1>4. ASSUME NEW u \in Txs, Debit(u)
      PROVE  balance'[a] = balance[a] /\ next'[a] = next[a]
  <2>1. u # t
    BY <1>4
  <2>2. locks[txs[u].order.from] \in {None, u} /\ locks[txs[u].order.to] = u
    BY <1>4 DEF Debit, CreditsFit
  <2>3. a # txs[u].order.from /\ a # txs[u].order.to
    BY <1>1, <2>1, <2>2
  <2> QED
    BY <1>4, <2>3 DEF Debit, TypeOK
<1>5. \/ UNCHANGED <<balance, next>>
      \/ \E b \in Addresses, amount \in Amounts : Mint(b, amount)
      \/ \E u \in Txs : Debit(u)
  BY DEF Next, Step, vars, Begin, LockRow, ReadSender, Credit, Abort
<1> QED
  BY <1>2, <1>3, <1>4, <1>5

-----------------------------------------------------------------------------
(* Types.                                                                  *)

LEMMA UnlockedTyped ==
  ASSUME TypeOK, NEW t \in Txs
  PROVE  Unlocked(t) \in [Addresses -> Txs \cup {None}]
BY DEF TypeOK, Unlocked

\* A move of coins between two rows keeps both within the cap.
LEMMA BalancesTyped ==
  ASSUME TypeOK, NEW order \in Orders, balance[order.from] >= order.amount,
         Fits(order.to, order.amount),
         balance' = [balance EXCEPT ![order.from] = @ - order.amount,
                                    ![order.to] = @ + order.amount]
  PROVE  balance' \in [Addresses -> 0 .. MaxBalance]
<1>1. /\ order.from \in Addresses /\ order.to \in Addresses /\ order.from # order.to
      /\ order.amount \in 1 .. MaxBalance /\ MaxBalance \in Nat
  BY AmountsAssumption DEF Orders
<1>2. balance[order.from] - order.amount \in 0 .. MaxBalance
  BY <1>1 DEF TypeOK
<1>3. balance[order.to] + order.amount \in 0 .. MaxBalance
  BY <1>1 DEF TypeOK, Fits
<1> QED
  BY <1>1, <1>2, <1>3 DEF TypeOK

LEMMA StepTyped ==
  ASSUME TypeOK, CreditsFit, [Next]_vars
  PROVE  TypeOK'
<1>1. ASSUME NEW a \in Addresses, NEW amount \in Amounts, Mint(a, amount) PROVE TypeOK'
  <2>1. amount \in 1 .. MaxBalance /\ MaxBalance \in Nat /\ 0 \in 0 .. MaxSequence
    BY AmountsAssumption
  <2>2. balance[a] + amount \in 0 .. MaxBalance
    BY <1>1, <2>1 DEF Mint, Fits, TypeOK
  <2>3. balance' \in [Addresses -> 0 .. MaxBalance]
    BY <1>1, <2>2 DEF Mint, TypeOK
  <2>4. [from |-> None, to |-> a, amount |-> amount, sequence |-> 0, seen |-> {}] \in Move
    BY <2>1 DEF Move
  <2>5. transfers' \in Seq(Move)
    BY <1>1, <2>4 DEF Mint, TypeOK
  <2> QED
    BY <1>1, <2>3, <2>5 DEF Mint, TypeOK
<1>2. ASSUME NEW t \in Txs, NEW order \in Orders, Begin(t, order) PROVE TypeOK'
  <2> DEFINE seen == {order.from, order.to} \cap paid
             step == IF seen = {} THEN "read" ELSE "lock"
             tx == [step |-> step, order |-> order, want |-> seen, seen |-> seen]
  <2>1. seen \in SUBSET Addresses
    BY DEF TypeOK
  <2>2. step \in {"lock", "read"}
    OBVIOUS
  <2>3. txs' = [txs EXCEPT ![t] = tx]
    BY <1>2 DEF Begin
  <2>4. tx \in Tx
    <3> HIDE DEF seen, step
    <3> QED
      BY <2>1, <2>2 DEF Tx
  <2> HIDE DEF tx
  <2>5. txs' \in [Txs -> Tx \cup {None}]
    BY <2>3, <2>4 DEF TypeOK
  <2> QED
    BY <1>2, <2>5 DEF Begin, TypeOK
<1>3. ASSUME NEW t \in Txs, LockRow(t) PROVE TypeOK'
  <2>1. txs[t] \in Tx
    BY <1>3 DEF LockRow, At, Running, TypeOK
  <2>2. \A a : Locked(txs[t], a) \in Tx
    BY <2>1, LockedStep
  <2>3. txs' \in [Txs -> Tx \cup {None}] /\ locks' \in [Addresses -> Txs \cup {None}]
    BY <1>3, <2>2 DEF LockRow, TypeOK
  <2> QED
    BY <1>3, <2>3 DEF LockRow, TypeOK
<1>4. ASSUME NEW t \in Txs, Finish(t)
      PROVE  locks' \in [Addresses -> Txs \cup {None}] /\ txs' \in [Txs -> Tx \cup {None}]
  BY <1>4, UnlockedTyped DEF Finish, TypeOK
<1>5. ASSUME NEW t \in Txs, ReadSender(t) \/ Credit(t) PROVE TypeOK'
  <2>1. txs[t] \in Tx
    BY <1>5 DEF ReadSender, Credit, At, Running, TypeOK
  <2>2. \A step \in {"credit", "debit"} : [txs[t] EXCEPT !.step = step] \in Tx
    BY <2>1 DEF Tx
  <2>3. CASE Finish(t)
    BY <1>4, <1>5, <2>3 DEF ReadSender, Credit, TypeOK
  <2>4. CASE ~Finish(t)
    <3>1. \/ txs' = [txs EXCEPT ![t] = [txs[t] EXCEPT !.step = "credit"]]
          \/ txs' = [txs EXCEPT ![t] = [txs[t] EXCEPT !.step = "debit"]]
      BY <1>5, <2>4, TxStep
    <3>2. locks' \in [Addresses -> Txs \cup {None}]
      BY <1>5, <2>4 DEF ReadSender, Credit, TypeOK
    <3>3. txs' \in [Txs -> Tx \cup {None}]
      BY <2>2, <3>1 DEF TypeOK
    <3> QED
      BY <1>5, <3>2, <3>3 DEF ReadSender, Credit, TypeOK
  <2> QED
    BY <2>3, <2>4
<1>6. ASSUME NEW t \in Txs, Debit(t) PROVE TypeOK'
  <2>1. txs[t] \in Tx /\ txs[t].order \in Orders /\ txs[t].seen \in SUBSET Addresses
    BY <1>6 DEF Debit, At, Running, TypeOK, Tx
  <2>2. Finish(t)
    BY <1>6 DEF Debit
  <2>3. CASE balance[txs[t].order.from] >= txs[t].order.amount
    <3> DEFINE order == txs[t].order
               move == [from |-> order.from, to |-> order.to, amount |-> order.amount,
                        sequence |-> order.sequence, seen |-> txs[t].seen]
    <3>1. Fits(order.to, order.amount)
      BY <1>6 DEF Debit, CreditsFit
    <3>7. balance' = [balance EXCEPT ![order.from] = @ - order.amount,
                                     ![order.to] = @ + order.amount]
      BY <1>6, <2>3 DEF Debit
    <3>2. balance' \in [Addresses -> 0 .. MaxBalance]
      <4>1. order \in Orders /\ balance[order.from] >= order.amount
        BY <2>1, <2>3
      <4> HIDE DEF order
      <4> QED
        BY <3>1, <3>7, <4>1, BalancesTyped
    <3>3. next' \in [Addresses -> Nat] /\ paid' \subseteq Addresses
      <4>1. order.from \in Addresses /\ order.to \in Addresses
        BY <2>1 DEF Orders
      <4>2. /\ next' = [next EXCEPT ![order.from] = @ + 1]
            /\ paid' = paid \cup {order.to}
        BY <1>6, <2>3 DEF Debit
      <4> HIDE DEF order
      <4> QED
        BY <4>1, <4>2 DEF TypeOK
    <3>4. move \in Move
      BY <2>1 DEF Move, Orders
    <3>5. transfers' = Append(transfers, move)
      BY <1>6, <2>3 DEF Debit
    <3> HIDE DEF move
    <3>6. transfers' \in Seq(Move)
      BY <3>4, <3>5 DEF TypeOK
    <3> QED
      BY <1>4, <2>2, <3>2, <3>3, <3>6 DEF TypeOK
  <2>4. CASE ~(balance[txs[t].order.from] >= txs[t].order.amount)
    BY <1>4, <1>6, <2>2, <2>4 DEF Debit, TypeOK
  <2> QED
    BY <2>3, <2>4
<1>7. ASSUME NEW t \in Txs, Abort(t) PROVE TypeOK'
  BY <1>4, <1>7 DEF Abort, TypeOK
<1>8. CASE UNCHANGED vars
  BY <1>8 DEF vars, TypeOK
<1> QED
  BY <1>1, <1>2, <1>3, <1>5, <1>6, <1>7, <1>8 DEF Next, Step

LEMMA InitTyped == Init => TypeOK /\ CreditsFit
<1>1. 0 \in 0 .. MaxBalance
  BY AmountsAssumption
<1> SUFFICES ASSUME Init PROVE TypeOK /\ CreditsFit
  OBVIOUS
<1>2. CreditsFit
  BY DEF Init, CreditsFit, At, Running
<1>3. transfers \in Seq(Move)
  BY DEF Init
<1> QED
  BY <1>1, <1>2, <1>3 DEF Init, TypeOK

\* A row credited and not yet debited is held, so what fitted fits.
LEMMA CreditsStep ==
  ASSUME TypeOK, CreditsFit, [Next]_vars
  PROVE  CreditsFit'
<1> SUFFICES ASSUME NEW t \in Txs, At(t, "debit")'
             PROVE  /\ locks'[txs'[t].order.to] = t
                    /\ balance'[txs'[t].order.to] <= MaxBalance - txs'[t].order.amount
  BY DEF CreditsFit, Fits
<1>1. txs'[t] # None /\ txs'[t].step = "debit"
  BY DEF At, Running
<1>2. CASE txs'[t] = txs[t]
  <2>1. At(t, "debit") /\ txs[t] \in Tx
    BY <1>1, <1>2 DEF At, Running, TypeOK
  <2>2. txs[t].order.to \in Addresses
    BY <2>1 DEF Tx, Orders
  <2>3. locks[txs[t].order.to] = t /\ Fits(txs[t].order.to, txs[t].order.amount)
    BY <2>1 DEF CreditsFit
  <2>4. ~Debit(t)
    BY <1>1 DEF Debit, Finish, TypeOK
  <2>5. balance'[txs[t].order.to] = balance[txs[t].order.to]
    BY <2>2, <2>3, <2>4, RowsStand
  <2>6. locks'[txs[t].order.to] = t
    BY <1>1, <2>2, <2>3, LocksStand
  <2> QED
    BY <1>2, <2>3, <2>5, <2>6 DEF Fits
<1>3. CASE txs'[t] # txs[t]
  <2>1. Credit(t) /\ ~Finish(t)
    <3>1. ASSUME NEW order \in Orders, Begin(t, order) PROVE FALSE
      <4>1. txs'[t].step \in {"read", "lock"}
        BY <3>1 DEF Begin, TypeOK
      <4> QED
        BY <1>1, <4>1
    <3>2. ~LockRow(t)
      <4> SUFFICES ASSUME LockRow(t) PROVE FALSE
        OBVIOUS
      <4>1. txs[t] \in Tx
        BY DEF LockRow, At, Running, TypeOK
      <4>2. txs'[t] = Locked(txs[t], Lowest(txs[t].want))
        BY DEF LockRow, TypeOK
      <4> QED
        BY <1>1, <4>1, <4>2, LockedStep
    <3>3. ~Finish(t)
      BY <1>1 DEF Finish, TypeOK
    <3>4. ~ReadSender(t)
      <4> SUFFICES ASSUME ReadSender(t) PROVE FALSE
        OBVIOUS
      <4>1. txs[t] \in Tx
        BY DEF ReadSender, At, Running, TypeOK
      <4>2. txs'[t] = [txs[t] EXCEPT !.step = "credit"]
        BY <3>3 DEF ReadSender, TypeOK
      <4> QED
        BY <1>1, <4>1, <4>2 DEF Tx
    <3> QED
      BY <1>3, <3>1, <3>2, <3>3, <3>4, TxsAlone DEF Step, Debit, Abort
  <2>2. txs[t] \in Tx /\ txs[t].order.to \in Addresses
    BY <2>1 DEF Credit, At, Running, TypeOK, Tx, Orders
  <2>3. /\ Fits(txs[t].order.to, txs[t].order.amount)
        /\ locks' = [locks EXCEPT ![txs[t].order.to] = t]
        /\ txs' = [txs EXCEPT ![t] = [txs[t] EXCEPT !.step = "debit"]]
        /\ balance' = balance
    BY <2>1 DEF Credit
  <2>4. txs'[t].order = txs[t].order
    BY <2>2, <2>3 DEF TypeOK, Tx
  <2>5. locks'[txs[t].order.to] = t
    BY <2>2, <2>3 DEF TypeOK
  <2> QED
    BY <2>3, <2>4, <2>5 DEF Fits
<1> QED
  BY <1>2, <1>3

\* No address ever holds less than nothing or more than the cap, and the tables keep
\* their shape, whatever transfers and mints are open together.
THEOREM Typing == Spec => []TypeOK
BY InitTyped, StepTyped, CreditsStep, PTL DEF Spec

-----------------------------------------------------------------------------
(* Sequence numbers.                                                       *)

\* What a transaction's own step makes of it, where it is still running after.
LEMMA OwnStep ==
  ASSUME TypeOK, [Next]_vars, NEW t \in Txs, txs'[t] # txs[t], txs'[t] # None
  PROVE  \/ /\ txs[t] = None /\ UNCHANGED locks
            /\ txs'[t].seen = txs'[t].want
            /\ txs'[t].step \in {"read", "lock"}
            /\ txs'[t].step = "read" <=> txs'[t].seen = {}
         \/ LockRow(t) /\ txs[t] \in Tx /\ txs'[t] = Locked(txs[t], Lowest(txs[t].want))
         \/ /\ txs[t] \in Tx /\ UNCHANGED next
            /\ txs'[t].order = txs[t].order /\ txs'[t].seen = txs[t].seen
            /\ txs'[t].want = txs[t].want
            /\ \/ /\ txs[t].step = "read" /\ txs'[t].step = "credit"
                  /\ txs[t].order.sequence = next[txs[t].order.from]
               \/ txs[t].step = "credit" /\ txs'[t].step = "debit"
<1>1. ~Finish(t)
  BY DEF Finish, TypeOK
<1>2. ASSUME NEW order \in Orders, Begin(t, order)
      PROVE  /\ txs[t] = None /\ UNCHANGED locks
             /\ txs'[t].seen = txs'[t].want
             /\ txs'[t].step \in {"read", "lock"}
             /\ txs'[t].step = "read" <=> txs'[t].seen = {}
  <2> DEFINE seen == {order.from, order.to} \cap paid
             step == IF seen = {} THEN "read" ELSE "lock"
  <2>1. txs'[t] = [step |-> step, order |-> order, want |-> seen, seen |-> seen]
    BY <1>2 DEF Begin, TypeOK
  <2>2. step \in {"read", "lock"} /\ (step = "read" <=> seen = {})
    OBVIOUS
  <2>3. txs[t] = None /\ UNCHANGED locks
    BY <1>2 DEF Begin, Running
  <2> HIDE DEF seen, step
  <2> QED
    BY <2>1, <2>2, <2>3
<1>3. CASE LockRow(t)
  BY <1>3 DEF LockRow, At, Running, TypeOK
<1>4. CASE ReadSender(t)
  <2>1. txs[t] \in Tx /\ txs[t].step = "read"
    BY <1>4 DEF ReadSender, At, Running, TypeOK
  <2>2. /\ txs'[t] = [txs[t] EXCEPT !.step = "credit"] /\ next' = next
        /\ txs[t].order.sequence = next[txs[t].order.from]
    BY <1>1, <1>4 DEF ReadSender, TypeOK
  <2> QED
    BY <2>1, <2>2 DEF Tx
<1>5. CASE Credit(t)
  <2>1. txs[t] \in Tx /\ txs[t].step = "credit"
    BY <1>5 DEF Credit, At, Running, TypeOK
  <2>2. txs'[t] = [txs[t] EXCEPT !.step = "debit"] /\ next' = next
    BY <1>1, <1>5 DEF Credit, TypeOK
  <2> QED
    BY <2>1, <2>2 DEF Tx
<1> QED
  BY <1>1, <1>2, <1>3, <1>4, <1>5, TxsAlone DEF Step, Debit, Abort

\* The rows a transaction's first statement found are its own from then on.
LEMMA HoldsStep ==
  ASSUME TypeOK, HoldsWhatItSaw, [Next]_vars
  PROVE  HoldsWhatItSaw'
<1> SUFFICES ASSUME NEW t \in Txs, txs'[t] # None
             PROVE  /\ \A a \in txs'[t].seen \ txs'[t].want : locks'[a] = t
                    /\ txs'[t].step # "lock" => \A a \in txs'[t].seen : locks'[a] = t
  BY DEF HoldsWhatItSaw, Running
<1>1. ASSUME NEW a \in Addresses, locks[a] = t PROVE locks'[a] = t
  BY <1>1, LocksStand
<1>2. ASSUME txs[t] \in Tx
      PROVE  /\ txs[t] # None /\ txs[t].seen \subseteq Addresses
             /\ \A a \in txs[t].seen \ txs[t].want : locks[a] = t
             /\ txs[t].step # "lock" => \A a \in txs[t].seen : locks[a] = t
  BY <1>2, NoneAssumption DEF HoldsWhatItSaw, Running, Tx
<1>3. CASE txs'[t] = txs[t]
  <2>1. txs[t] \in Tx
    BY <1>3 DEF TypeOK
  <2> QED
    BY <1>1, <1>2, <1>3, <2>1
<1>4. CASE LockRow(t) /\ txs[t] \in Tx /\ txs'[t] = Locked(txs[t], Lowest(txs[t].want))
  <2> DEFINE a == Lowest(txs[t].want)
  <2>1. locks' = [locks EXCEPT ![a] = t]
    BY <1>4 DEF LockRow
  <2>2. /\ txs'[t].seen = txs[t].seen /\ txs'[t].want = txs[t].want \ {a}
        /\ txs'[t].step \in {"lock", "read"}
        /\ txs'[t].step = "read" => txs[t].want = {a}
    BY <1>4, LockedStep
  <2> HIDE DEF a
  <2>3. \A b \in txs[t].seen \ (txs[t].want \ {a}) : locks'[b] = t
    BY <1>1, <1>2, <1>4, <2>1 DEF TypeOK
  <2> QED
    BY <2>2, <2>3
<1>5. CASE /\ txs[t] \in Tx /\ txs'[t].seen = txs[t].seen /\ txs'[t].want = txs[t].want
           /\ txs[t].step # "lock"
  BY <1>1, <1>2, <1>5
<1>6. CASE /\ txs'[t].seen = txs'[t].want /\ txs'[t].step \in {"read", "lock"}
           /\ txs'[t].step = "read" => txs'[t].seen = {}
  BY <1>6
<1> QED
  BY <1>3, <1>4, <1>5, <1>6, OwnStep

\* A number only goes up, and a transfer raises its sender's by one.
LEMMA NumbersGrow ==
  ASSUME TypeOK, [Next]_vars
  PROVE  \A a \in Addresses : next'[a] \in Nat /\ next[a] \in Nat /\ next[a] <= next'[a]
<1>1. CASE UNCHANGED next
  BY <1>1 DEF TypeOK
<1>2. ASSUME NEW t \in Txs, Debit(t), ~UNCHANGED next
      PROVE  \A a \in Addresses : next'[a] \in Nat /\ next[a] \in Nat /\ next[a] <= next'[a]
  <2>1. next' = [next EXCEPT ![txs[t].order.from] = @ + 1]
    BY <1>2 DEF Debit
  <2> QED
    BY <2>1 DEF TypeOK
<1>3. UNCHANGED next \/ \E t \in Txs : Debit(t)
  BY DEF Next, Step, vars, Mint, Begin, LockRow, ReadSender, Credit, Abort
<1> QED
  BY <1>1, <1>2, <1>3

\* A number once checked is its sender's for as long as the sender's row is held.
LEMMA ChecksStep ==
  ASSUME TypeOK, CreditsFit, HoldsWhatItSaw, ChecksStand, [Next]_vars
  PROVE  ChecksStand'
<1> SUFFICES ASSUME NEW t \in Txs, txs'[t] # None, txs'[t].step \in {"credit", "debit"}
             PROVE  LET order == txs'[t].order IN
                    /\ order.sequence <= next'[order.from]
                    /\ order.from \in txs'[t].seen => order.sequence = next'[order.from]
  BY DEF ChecksStand, Running
<1>1. CASE txs'[t] = txs[t]
  <2> DEFINE order == txs[t].order
  <2>1. txs[t] \in Tx /\ Running(t)
    BY <1>1 DEF TypeOK, Running
  <2>2. order.from \in Addresses /\ order.sequence \in Nat
    BY <2>1, AmountsAssumption DEF Tx, Orders
  <2>3. /\ order.sequence <= next[order.from]
        /\ order.from \in txs[t].seen => order.sequence = next[order.from]
    BY <1>1, <2>1 DEF ChecksStand
  <2>4. order.sequence <= next'[order.from]
    BY <2>2, <2>3, NumbersGrow
  <2>5. ASSUME order.from \in txs[t].seen PROVE next'[order.from] = next[order.from]
    <3>1. locks[order.from] = t
      BY <1>1, <2>1, <2>5 DEF HoldsWhatItSaw
    <3>2. ~Debit(t)
      BY DEF Debit, Finish, TypeOK
    <3> QED
      BY <2>2, <3>1, <3>2, RowsStand
  <2> QED
    BY <1>1, <2>3, <2>4, <2>5
<1>2. CASE txs'[t] # txs[t]
  <2>1. /\ txs[t] \in Tx /\ next' = next
        /\ txs'[t].order = txs[t].order /\ txs'[t].seen = txs[t].seen
        /\ \/ txs[t].order.sequence = next[txs[t].order.from]
           \/ txs[t].step = "credit"
    <3>1. ASSUME LockRow(t), txs[t] \in Tx, txs'[t] = Locked(txs[t], Lowest(txs[t].want))
          PROVE  FALSE
      BY <3>1, LockedStep
    <3> QED
      BY <1>2, <3>1, OwnStep
  <2>2. txs[t].order.from \in Addresses /\ next[txs[t].order.from] \in Nat
    BY <2>1 DEF Tx, Orders, TypeOK
  <2>3. CASE txs[t].order.sequence = next[txs[t].order.from]
    BY <2>1, <2>2, <2>3
  <2>4. CASE txs[t].step = "credit"
    <3>1. Running(t)
      BY <2>1, NoneAssumption DEF Running
    <3> QED
      BY <2>1, <2>4, <3>1 DEF ChecksStand
  <2> QED
    BY <2>1, <2>3, <2>4
<1> QED
  BY <1>1, <1>2

\* What a movement adds to the record: a mint has no sender, and a transfer carries
\* a number its sender moves past.
LEMMA MovesStep ==
  ASSUME TypeOK, ChecksStand, [Next]_vars, transfers' # transfers
  PROVE  \E move \in Move :
           /\ transfers' = Append(transfers, move)
           /\ \/ move.from = None /\ move.seen = {}
              \/ /\ move.from \in Addresses /\ move.sequence < next'[move.from]
                 /\ move.from \in move.seen => move.sequence = next[move.from]
<1>1. ASSUME NEW a \in Addresses, NEW amount \in Amounts, Mint(a, amount)
      PROVE  \E move \in Move :
               /\ transfers' = Append(transfers, move)
               /\ move.from = None /\ move.seen = {}
  <2> DEFINE move == [from |-> None, to |-> a, amount |-> amount, sequence |-> 0, seen |-> {}]
  <2>1. 0 \in 0 .. MaxSequence
    BY AmountsAssumption
  <2>2. move \in Move /\ move.from = None /\ move.seen = {}
    BY <2>1 DEF Move
  <2>3. transfers' = Append(transfers, move)
    BY <1>1 DEF Mint
  <2> HIDE DEF move
  <2> QED
    BY <2>2, <2>3
<1>2. ASSUME NEW t \in Txs, Debit(t)
      PROVE  \E move \in Move :
               /\ transfers' = Append(transfers, move)
               /\ move.from \in Addresses /\ move.sequence < next'[move.from]
               /\ move.from \in move.seen => move.sequence = next[move.from]
  <2> DEFINE order == txs[t].order
             move == [from |-> order.from, to |-> order.to, amount |-> order.amount,
                      sequence |-> order.sequence, seen |-> txs[t].seen]
  <2>1. txs[t] \in Tx /\ Running(t) /\ txs[t].step = "debit"
    BY <1>2 DEF Debit, At, Running, TypeOK
  <2>2. order \in Orders /\ txs[t].seen \in SUBSET Addresses
    BY <2>1 DEF Tx
  <2>3. /\ order.sequence <= next[order.from]
        /\ order.from \in txs[t].seen => order.sequence = next[order.from]
    BY <2>1 DEF ChecksStand
  <2>4. /\ transfers' = Append(transfers, move)
        /\ next' = [next EXCEPT ![order.from] = @ + 1]
    BY <1>2 DEF Debit
  <2>5. move.from = order.from /\ move.sequence = order.sequence /\ move.seen = txs[t].seen
    OBVIOUS
  <2>6. move \in Move
    BY <2>2 DEF Move, Orders
  <2> HIDE DEF move, order
  <2>7. order.from \in Addresses /\ order.sequence \in Nat
    BY <2>2, AmountsAssumption DEF Orders
  <2>8. next'[order.from] = next[order.from] + 1 /\ next[order.from] \in Nat
    BY <2>4, <2>7 DEF TypeOK
  <2>9. order.sequence < next'[order.from]
    BY <2>3, <2>7, <2>8
  <2> QED
    BY <2>3, <2>4, <2>5, <2>6, <2>7, <2>9
<1>3. \/ \E a \in Addresses, amount \in Amounts : Mint(a, amount)
      \/ \E t \in Txs : Debit(t)
  BY DEF Next, Step, vars, Begin, LockRow, ReadSender, Credit, Abort
<1> QED
  BY <1>1, <1>2, <1>3

\* A recorded number is below its sender's, and stays so.
LEMMA RecordStep ==
  ASSUME TypeOK, ChecksStand, NumbersUsedUp, LockedOrderLandsOnce, [Next]_vars
  PROVE  NumbersUsedUp' /\ LockedOrderLandsOnce'
<1>1. \A i \in DOMAIN transfers :
        /\ transfers[i] \in Move
        /\ transfers[i].from # None =>
             transfers[i].from \in Addresses /\ transfers[i].sequence < next'[transfers[i].from]
  <2> TAKE i \in DOMAIN transfers
  <2>1. transfers[i] \in Move
    BY DEF TypeOK
  <2>2. ASSUME transfers[i].from # None
        PROVE  transfers[i].from \in Addresses /\ transfers[i].sequence < next'[transfers[i].from]
    <3>1. transfers[i].from \in Addresses /\ transfers[i].sequence \in Nat
      BY <2>1, <2>2, AmountsAssumption DEF Move
    <3>2. transfers[i].sequence < next[transfers[i].from]
      BY <2>2 DEF NumbersUsedUp
    <3> QED
      BY <3>1, <3>2, NumbersGrow
  <2> QED
    BY <2>1, <2>2
<1>2. CASE transfers' = transfers
  BY <1>1, <1>2 DEF NumbersUsedUp, LockedOrderLandsOnce
<1>3. CASE transfers' # transfers
  <2>1. PICK move \in Move :
          /\ transfers' = Append(transfers, move)
          /\ \/ move.from = None /\ move.seen = {}
             \/ /\ move.from \in Addresses /\ move.sequence < next'[move.from]
                /\ move.from \in move.seen => move.sequence = next[move.from]
    BY <1>3, MovesStep
  <2>2. /\ DOMAIN transfers' = DOMAIN transfers \cup {Len(transfers) + 1}
        /\ DOMAIN transfers = 1 .. Len(transfers) /\ Len(transfers) \in Nat
        /\ \A i \in DOMAIN transfers : transfers'[i] = transfers[i]
        /\ transfers'[Len(transfers) + 1] = move
    BY <2>1 DEF TypeOK
  <2>3. NumbersUsedUp'
    BY <1>1, <2>1, <2>2 DEF NumbersUsedUp
  <2>4. LockedOrderLandsOnce'
    <3> SUFFICES ASSUME NEW i \in DOMAIN transfers', NEW j \in DOMAIN transfers', i < j,
                        transfers'[i].from = transfers'[j].from,
                        transfers'[j].from \in transfers'[j].seen
                 PROVE  transfers'[i].sequence < transfers'[j].sequence
      BY DEF LockedOrderLandsOnce
    <3>1. i \in DOMAIN transfers
      BY <2>2
    <3>2. CASE j \in DOMAIN transfers
      BY <2>2, <3>1, <3>2 DEF LockedOrderLandsOnce
    <3>3. CASE j = Len(transfers) + 1
      <4>1. move.from \in Addresses /\ move.sequence = next[move.from]
        BY <2>1, <2>2, <3>3
      <4>2. transfers[i].from = move.from /\ move.from # None
        BY <2>2, <3>1, <3>3, <4>1, NoneAssumption
      <4>3. transfers[i].sequence < next[move.from]
        BY <3>1, <4>2 DEF NumbersUsedUp
      <4> QED
        BY <2>2, <3>1, <3>3, <4>1, <4>3
    <3> QED
      BY <2>2, <3>2, <3>3
  <2> QED
    BY <2>3, <2>4
<1> QED
  BY <1>2, <1>3

\* An order that locked its sender's row lands after every transfer signed at its
\* number or above, among any number of transactions: sent a second time it is stale.
THEOREM LandsOnce == Spec => []LockedOrderLandsOnce
<1>1. Init => HoldsWhatItSaw /\ ChecksStand /\ NumbersUsedUp /\ LockedOrderLandsOnce
  BY DEF Init, HoldsWhatItSaw, ChecksStand, NumbersUsedUp, LockedOrderLandsOnce, Running
<1> QED
  BY <1>1, InitTyped, StepTyped, CreditsStep, HoldsStep, ChecksStep, RecordStep, PTL DEF Spec

-----------------------------------------------------------------------------
(* Sums.  Total is a recursive function of how far it has added; < is      *)
(* well-founded on Nat, so what fails somewhere fails first somewhere.      *)

\* A set that holds 0, and each number up to m after the one before, holds them all.
LEMMA Climbing ==
  ASSUME NEW S, NEW m \in Nat, 0 \in S, \A n \in 1 .. m : n - 1 \in S => n \in S
  PROVE  \A n \in 0 .. m : n \in S
<1> DEFINE T == {n \in 0 .. m : n \notin S}
           R == OpToRel(<, Nat)
<1> SUFFICES ASSUME T # {} PROVE FALSE
  OBVIOUS
<1>0. T \subseteq Nat
  OBVIOUS
<1>1. IsWellFoundedOn(R, Nat)
  BY NatLessThanWellFounded
<1>2. \A x, y \in Nat : y < x => <<y, x>> \in R
  BY DEF OpToRel
<1> HIDE DEF R, T
<1>3. PICK n \in T : \A y \in T : ~(<<y, n>> \in R)
  BY <1>0, <1>1, WFMin
<1>4. n \in 1 .. m
  BY <1>3 DEF T
<1>5. n - 1 \notin T
  <2>1. n \in Nat /\ n - 1 \in Nat /\ n - 1 < n
    BY <1>4
  <2>2. <<n - 1, n>> \in R
    BY <1>2, <2>1
  <2> QED
    BY <1>3, <2>2
<1> QED
  BY <1>3, <1>4, <1>5 DEF T

\* What the recursive definition in Total says of a function.
Sums(f, s) == f = [n \in 0 .. Len(s) |-> IF n = 0 THEN 0 ELSE f[n - 1] + s[n]]

LEMMA SumsTyped ==
  ASSUME NEW s \in Seq(Nat), NEW f, Sums(f, s)
  PROVE  /\ \A n \in 0 .. Len(s) : f[n] \in Nat
         /\ f[0] = 0 /\ \A n \in 1 .. Len(s) : f[n] = f[n - 1] + s[n]
<1>1. f[0] = 0 /\ \A n \in 1 .. Len(s) : f[n] = f[n - 1] + s[n]
  BY DEF Sums
<1> DEFINE S == {n \in 0 .. Len(s) : f[n] \in Nat}
<1>2. 0 \in S
  BY <1>1
<1>3. \A n \in 1 .. Len(s) : n - 1 \in S => n \in S
  BY <1>1
<1>4. Len(s) \in Nat
  OBVIOUS
<1> HIDE DEF S
<1>5. \A n \in 0 .. Len(s) : n \in S
  BY <1>2, <1>3, <1>4, Climbing
<1> QED
  BY <1>1, <1>5 DEF S

\* One amount more extends the sums.
LEMMA SumsOfAppend ==
  ASSUME NEW s \in Seq(Nat), NEW k \in Nat, NEW f, Sums(f, s)
  PROVE  Sums([n \in 0 .. Len(s) + 1 |-> IF n = Len(s) + 1 THEN f[Len(s)] + k ELSE f[n]],
              Append(s, k))
<1> DEFINE t == Append(s, k)
           g == [n \in 0 .. Len(s) + 1 |-> IF n = Len(s) + 1 THEN f[Len(s)] + k ELSE f[n]]
<1>1. Len(t) = Len(s) + 1 /\ t[Len(s) + 1] = k /\ \A n \in 1 .. Len(s) : t[n] = s[n]
  OBVIOUS
<1>2. f[0] = 0 /\ \A n \in 1 .. Len(s) : f[n] = f[n - 1] + s[n]
  BY SumsTyped
<1>3. ASSUME NEW n \in 0 .. Len(s) + 1
      PROVE  g[n] = IF n = 0 THEN 0 ELSE g[n - 1] + t[n]
  <2>1. CASE n = Len(s) + 1
    BY <1>1, <2>1
  <2>2. CASE n = 0
    BY <1>2, <2>2
  <2>3. CASE n \in 1 .. Len(s)
    <3>1. g[n] = f[n] /\ g[n - 1] = f[n - 1]
      BY <2>3
    <3> QED
      BY <1>1, <1>2, <2>3, <3>1
  <2> QED
    BY <2>1, <2>2, <2>3
<1>4. g = [n \in 0 .. Len(s) + 1 |-> g[n]]
  OBVIOUS
<1> HIDE DEF g, t
<1>5. Sums(g, t)
  BY <1>1, <1>3, <1>4 DEF Sums
<1> QED
  BY <1>5 DEF g, t

\* The recursion has a solution for every list of amounts.
LEMMA SumsExist ==
  ASSUME NEW s \in Seq(Nat)
  PROVE  \E f : Sums(f, s)
<1> DEFINE S == {k \in 0 .. Len(s) : \E f : Sums(f, SubSeq(s, 1, k))}
<1>1. 0 \in S
  <2>1. SubSeq(s, 1, 0) = <<>> /\ 0 \in 0 .. Len(s) /\ Len(<<>>) = 0
    OBVIOUS
  <2>2. Sums([n \in 0 .. 0 |-> 0], <<>>)
    BY DEF Sums
  <2> QED
    BY <2>1, <2>2
<1>2. ASSUME NEW n \in 1 .. Len(s), n - 1 \in S PROVE n \in S
  <2> DEFINE r == SubSeq(s, 1, n - 1)
  <2>1. PICK f : Sums(f, r)
    BY <1>2
  <2>2. r \in Seq(Nat) /\ s[n] \in Nat /\ SubSeq(s, 1, n) = Append(r, s[n])
    OBVIOUS
  <2> HIDE DEF r
  <2>3. \E g : Sums(g, Append(r, s[n]))
    BY <2>1, <2>2, SumsOfAppend
  <2>4. n \in 0 .. Len(s)
    OBVIOUS
  <2>5. \E g : Sums(g, SubSeq(s, 1, n))
    BY <2>2, <2>3
  <2> QED
    BY <2>4, <2>5
<1>3. Len(s) \in Nat /\ SubSeq(s, 1, Len(s)) = s /\ Len(s) \in 0 .. Len(s)
  OBVIOUS
<1> HIDE DEF S
<1>4. Len(s) \in S
  BY <1>1, <1>2, <1>3, Climbing
<1> QED
  BY <1>3, <1>4 DEF S

\* The recursion has one solution.
LEMMA SumsUnique ==
  ASSUME NEW s \in Seq(Nat), NEW f, NEW g, Sums(f, s), Sums(g, s)
  PROVE  f[Len(s)] = g[Len(s)]
<1> DEFINE S == {n \in 0 .. Len(s) : f[n] = g[n]}
<1>1. /\ f[0] = 0 /\ \A n \in 1 .. Len(s) : f[n] = f[n - 1] + s[n]
      /\ g[0] = 0 /\ \A n \in 1 .. Len(s) : g[n] = g[n - 1] + s[n]
  BY SumsTyped
<1>2. 0 \in S /\ \A n \in 1 .. Len(s) : n - 1 \in S => n \in S
  BY <1>1
<1>3. Len(s) \in Nat /\ Len(s) \in 0 .. Len(s)
  OBVIOUS
<1> HIDE DEF S
<1>4. Len(s) \in S
  BY <1>2, <1>3, Climbing
<1> QED
  BY <1>4 DEF S

LEMMA TotalIs ==
  ASSUME NEW s \in Seq(Nat)
  PROVE  \E f : Sums(f, s) /\ Total(s) = f[Len(s)]
<1> DEFINE sum == CHOOSE f : f = [n \in 0 .. Len(s) |-> IF n = 0 THEN 0 ELSE f[n - 1] + s[n]]
<1>1. Sums(sum, s)
  BY SumsExist DEF Sums
<1>2. Total(s) = sum[Len(s)]
  BY DEF Total
<1> HIDE DEF sum
<1> QED
  BY <1>1, <1>2

\* Total adds an amount at a time.
LEMMA TotalOfAppend ==
  ASSUME NEW s \in Seq(Nat), NEW k \in Nat
  PROVE  Total(s) \in Nat /\ Total(Append(s, k)) = Total(s) + k
<1>1. PICK f : Sums(f, s) /\ Total(s) = f[Len(s)]
  BY TotalIs
<1> DEFINE g == [n \in 0 .. Len(s) + 1 |-> IF n = Len(s) + 1 THEN f[Len(s)] + k ELSE f[n]]
           t == Append(s, k)
<1>2. Sums(g, t)
  BY <1>1, SumsOfAppend
<1>3. t \in Seq(Nat) /\ Len(t) = Len(s) + 1 /\ Len(s) + 1 \in 0 .. Len(s) + 1
      /\ Len(s) \in 0 .. Len(s)
  OBVIOUS
<1>4. g[Len(s) + 1] = f[Len(s)] + k
  BY <1>3
<1> HIDE DEF g, t
<1>5. PICK h : Sums(h, t) /\ Total(t) = h[Len(t)]
  BY <1>3, TotalIs
<1>6. h[Len(t)] = g[Len(t)]
  BY <1>2, <1>3, <1>5, SumsUnique
<1>7. f[Len(s)] \in Nat
  BY <1>1, <1>3, SumsTyped
<1> QED
  BY <1>1, <1>3, <1>4, <1>5, <1>6, <1>7 DEF t

-----------------------------------------------------------------------------
(* The coins.                                                              *)

LEMMA AmountsAreNumbers == \A amount \in Amounts : amount \in Nat
BY AmountsAssumption

\* What an address sends and gets in a step, and the row that says so.
Given(move, a) == IF move.from = a THEN move.amount ELSE 0
Got(move, a) == IF move.to = a THEN move.amount ELSE 0

LEMMA CoinsMove ==
  ASSUME TypeOK, [Next]_vars
  PROVE  \/ UNCHANGED <<balance, next, transfers>>
         \/ \E move \in Move :
              /\ transfers' = Append(transfers, move)
              /\ \A a \in Addresses :
                   /\ balance'[a] + Given(move, a) = balance[a] + Got(move, a)
                   /\ next'[a] = IF move.from = a THEN next[a] + 1 ELSE next[a]
<1>1. ASSUME NEW b \in Addresses, NEW amount \in Amounts, Mint(b, amount)
      PROVE  \E move \in Move :
               /\ transfers' = Append(transfers, move)
               /\ \A a \in Addresses :
                    /\ balance'[a] + Given(move, a) = balance[a] + Got(move, a)
                    /\ next'[a] = IF move.from = a THEN next[a] + 1 ELSE next[a]
  <2> DEFINE move == [from |-> None, to |-> b, amount |-> amount, sequence |-> 0, seen |-> {}]
  <2>1. 0 \in 0 .. MaxSequence /\ amount \in Nat
    BY AmountsAssumption
  <2>2. move \in Move
    BY <2>1 DEF Move
  <2>3. /\ transfers' = Append(transfers, move) /\ next' = next
        /\ balance' = [balance EXCEPT ![b] = @ + amount]
    BY <1>1 DEF Mint
  <2>4. move.from = None /\ move.to = b /\ move.amount = amount
    OBVIOUS
  <2> HIDE DEF move
  <2>5. ASSUME NEW a \in Addresses
        PROVE  /\ balance'[a] + Given(move, a) = balance[a] + Got(move, a)
               /\ next'[a] = IF move.from = a THEN next[a] + 1 ELSE next[a]
    <3>1. balance[a] \in Nat /\ a # None
      BY NoneAssumption, AmountsAssumption DEF TypeOK
    <3>2. balance'[a] = IF a = b THEN balance[a] + amount ELSE balance[a]
      BY <2>3 DEF TypeOK
    <3> QED
      BY <2>1, <2>3, <2>4, <3>1, <3>2 DEF Given, Got
  <2> QED
    BY <2>2, <2>3, <2>5
<1>2. ASSUME NEW t \in Txs, Debit(t), ~UNCHANGED <<balance, next, transfers>>
      PROVE  \E move \in Move :
               /\ transfers' = Append(transfers, move)
               /\ \A a \in Addresses :
                    /\ balance'[a] + Given(move, a) = balance[a] + Got(move, a)
                    /\ next'[a] = IF move.from = a THEN next[a] + 1 ELSE next[a]
  <2> DEFINE order == txs[t].order
             move == [from |-> order.from, to |-> order.to, amount |-> order.amount,
                      sequence |-> order.sequence, seen |-> txs[t].seen]
  <2>1. txs[t] \in Tx
    BY <1>2 DEF Debit, At, Running, TypeOK
  <2>2. order \in Orders /\ txs[t].seen \in SUBSET Addresses
    BY <2>1 DEF Tx
  <2>3. move \in Move
    BY <2>2 DEF Move, Orders
  <2>4. /\ transfers' = Append(transfers, move)
        /\ balance[order.from] >= order.amount
        /\ balance' = [balance EXCEPT ![order.from] = @ - order.amount,
                                      ![order.to] = @ + order.amount]
        /\ next' = [next EXCEPT ![order.from] = @ + 1]
    BY <1>2 DEF Debit
  <2>5. move.from = order.from /\ move.to = order.to /\ move.amount = order.amount
    OBVIOUS
  <2> HIDE DEF move, order
  <2>6. order.from \in Addresses /\ order.to \in Addresses /\ order.from # order.to
        /\ order.amount \in Nat
    <3>1. order.from \in Addresses /\ order.to \in Addresses /\ order.from # order.to
          /\ order.amount \in Amounts
      BY <2>2 DEF Orders
    <3> QED
      BY <3>1, AmountsAreNumbers
  <2>7. ASSUME NEW a \in Addresses
        PROVE  /\ balance'[a] + Given(move, a) = balance[a] + Got(move, a)
               /\ next'[a] = IF move.from = a THEN next[a] + 1 ELSE next[a]
    <3>1. balance[a] \in Nat
      BY AmountsAssumption DEF TypeOK
    <3>2. balance'[a] = IF a = order.from THEN balance[a] - order.amount
                        ELSE IF a = order.to THEN balance[a] + order.amount ELSE balance[a]
      BY <2>4, <2>6 DEF TypeOK
    <3>3. next'[a] = IF order.from = a THEN next[a] + 1 ELSE next[a]
      BY <2>4, <2>6 DEF TypeOK
    <3> QED
      BY <2>4, <2>5, <2>6, <3>1, <3>2, <3>3 DEF Given, Got
  <2> QED
    BY <2>3, <2>4, <2>7
<1>3. \/ UNCHANGED <<balance, next, transfers>>
      \/ \E a \in Addresses, amount \in Amounts : Mint(a, amount)
      \/ \E t \in Txs : Debit(t)
  BY DEF Next, Step, vars, Begin, LockRow, ReadSender, Credit, Abort
<1> QED
  BY <1>1, <1>2, <1>3

LEMMA LongerList ==
  ASSUME NEW s \in Seq(Nat), NEW k \in Nat
  PROVE  Append(s, k) = [i \in 1 .. Len(s) + 1 |-> IF i = Len(s) + 1 THEN k ELSE s[i]]
<1> DEFINE t == Append(s, k)
<1>1. t \in Seq(Nat) /\ Len(t) = Len(s) + 1 /\ t[Len(s) + 1] = k
      /\ \A i \in 1 .. Len(s) : t[i] = s[i]
  OBVIOUS
<1> HIDE DEF t
<1>2. t = [i \in 1 .. Len(t) |-> t[i]]
  BY <1>1
<1>3. Len(s) \in Nat
  OBVIOUS
<1>4. \A i \in 1 .. Len(s) + 1 : t[i] = IF i = Len(s) + 1 THEN k ELSE s[i]
  BY <1>1, <1>3
<1>5. t = [i \in 1 .. Len(s) + 1 |-> IF i = Len(s) + 1 THEN k ELSE s[i]]
  BY <1>1, <1>2, <1>4
<1> QED
  BY <1>5 DEF t

\* The amounts on record are numbers, and a row more is an amount more.
LEMMA RecordGrows ==
  ASSUME TypeOK, NEW a \in Addresses, NEW move \in Move, transfers' = Append(transfers, move)
  PROVE  /\ Into(a) \in Seq(Nat) /\ OutOf(a) \in Seq(Nat)
         /\ Given(move, a) \in Nat /\ Got(move, a) \in Nat
         /\ Into(a)' = Append(Into(a), Got(move, a))
         /\ OutOf(a)' = Append(OutOf(a), Given(move, a))
<1> \A m \in Move : m.amount \in Nat
  <2>1. \A m \in Move : m.amount \in Amounts
    BY DEF Move
  <2> QED
    BY <2>1, AmountsAreNumbers
<1>1. \A i \in 1 .. Len(transfers) : transfers[i].amount \in Nat
  BY DEF TypeOK
<1>2. Given(move, a) \in Nat /\ Got(move, a) \in Nat
  BY DEF Given, Got
<1>3. Into(a) \in Seq(Nat) /\ OutOf(a) \in Seq(Nat)
  BY <1>1 DEF Into, OutOf, TypeOK
<1>4. /\ Len(transfers) \in Nat /\ Len(transfers') = Len(transfers) + 1
      /\ transfers'[Len(transfers) + 1] = move
      /\ \A i \in 1 .. Len(transfers) : transfers'[i] = transfers[i]
  BY DEF TypeOK
<1>5. Into(a)' = [i \in 1 .. Len(transfers) + 1 |->
                    IF i = Len(transfers) + 1 THEN Got(move, a) ELSE Into(a)[i]]
  BY <1>4 DEF Into, Got
<1>6. OutOf(a)' = [i \in 1 .. Len(transfers) + 1 |->
                     IF i = Len(transfers) + 1 THEN Given(move, a) ELSE OutOf(a)[i]]
  BY <1>4 DEF OutOf, Given
<1>7. Len(Into(a)) = Len(transfers) /\ Len(OutOf(a)) = Len(transfers)
  BY <1>4 DEF Into, OutOf
<1>8. Into(a)' = Append(Into(a), Got(move, a))
  BY <1>2, <1>3, <1>5, <1>7, LongerList
<1>9. OutOf(a)' = Append(OutOf(a), Given(move, a))
  BY <1>2, <1>3, <1>6, <1>7, LongerList
<1> QED
  BY <1>2, <1>3, <1>8, <1>9

LEMMA StillEven ==
  ASSUME NEW b \in Nat, NEW c \in Nat, NEW came \in Nat, NEW went \in Nat,
         NEW given \in Nat, NEW got \in Nat,
         b + went = came, c + given = b + got
  PROVE  c + (went + given) = came + got
OBVIOUS

LEMMA LedgerStep ==
  ASSUME TypeOK, CreditsFit, LedgerAddsUp, [Next]_vars
  PROVE  LedgerAddsUp'
<1>1. CASE UNCHANGED <<balance, next, transfers>>
  BY <1>1 DEF LedgerAddsUp, Into, OutOf
<1>2. ASSUME NEW move \in Move, transfers' = Append(transfers, move),
             NEW a \in Addresses,
             balance'[a] + Given(move, a) = balance[a] + Got(move, a)
      PROVE  balance'[a] + Total(OutOf(a)') = Total(Into(a)')
  <2> DEFINE came == Total(Into(a))
             went == Total(OutOf(a))
             given == Given(move, a)
             got == Got(move, a)
             before == balance[a]
             after == balance'[a]
  <2>1. /\ Into(a) \in Seq(Nat) /\ OutOf(a) \in Seq(Nat)
        /\ given \in Nat /\ got \in Nat
        /\ Into(a)' = Append(Into(a), got)
        /\ OutOf(a)' = Append(OutOf(a), given)
    BY <1>2, RecordGrows
  <2>2. came \in Nat /\ Total(Into(a)') = came + got
    BY <2>1, TotalOfAppend
  <2>3. went \in Nat /\ Total(OutOf(a)') = went + given
    BY <2>1, TotalOfAppend
  <2>4. before + went = came
    BY DEF LedgerAddsUp
  <2>5. before \in Nat
    BY AmountsAssumption DEF TypeOK
  <2>6. after \in Nat
    <3>1. TypeOK'
      BY StepTyped
    <3> QED
      BY <3>1, AmountsAssumption DEF TypeOK
  <2>7. after + given = before + got
    BY <1>2
  <2> SUFFICES after + (went + given) = came + got
    BY <2>2, <2>3
  <2> HIDE DEF came, went, given, got, before, after
  <2> QED
    BY <2>1, <2>2, <2>3, <2>4, <2>5, <2>6, <2>7, StillEven
<1>3. CASE \E move \in Move :
             /\ transfers' = Append(transfers, move)
             /\ \A a \in Addresses :
                  /\ balance'[a] + Given(move, a) = balance[a] + Got(move, a)
                  /\ next'[a] = IF move.from = a THEN next[a] + 1 ELSE next[a]
  <2>1. \A a \in Addresses : balance'[a] + Total(OutOf(a)') = Total(Into(a)')
    BY <1>2, <1>3
  <2> QED
    BY <2>1 DEF LedgerAddsUp
<1> QED
  BY <1>1, <1>3, CoinsMove

LEMMA LedgerInit == Init => LedgerAddsUp
<1> SUFFICES ASSUME Init, NEW a \in Addresses
             PROVE  balance[a] + Total(OutOf(a)) = Total(Into(a))
  BY DEF LedgerAddsUp
<1>1. balance[a] = 0 /\ transfers = <<>>
  BY DEF Init
<1>2. Into(a) = <<>> /\ OutOf(a) = <<>>
  BY <1>1 DEF Into, OutOf
<1>3. Total(<<>>) \in Nat
  <2>1. <<>> \in Seq(Nat) /\ 0 \in Nat
    OBVIOUS
  <2> QED
    BY <2>1, TotalOfAppend
<1> QED
  BY <1>1, <1>2, <1>3

\* Every address holds exactly what its transfer rows brought less what they took,
\* however many transfers are open together and whichever of them are lost.
THEOREM LedgerAdds == Spec => []LedgerAddsUp
BY InitTyped, LedgerInit, StepTyped, CreditsStep, LedgerStep, PTL DEF Spec

-----------------------------------------------------------------------------
(* What a sequence number counts.                                          *)

LEMMA SentByStep ==
  ASSUME TypeOK, NEW a \in Addresses, NEW move \in Move, transfers' = Append(transfers, move)
  PROVE  /\ IsFiniteSet(SentBy(a)) /\ Cardinality(SentBy(a)) \in Nat
         /\ Cardinality(SentBy(a)') =
              IF move.from = a THEN Cardinality(SentBy(a)) + 1 ELSE Cardinality(SentBy(a))
<1> DEFINE new == Len(transfers) + 1
           sent == SentBy(a)
           after == SentBy(a)'
<1>1. /\ Len(transfers) \in Nat /\ Len(transfers') = new /\ transfers'[new] = move
      /\ \A i \in 1 .. Len(transfers) : transfers'[i] = transfers[i]
  BY DEF TypeOK
<1>2. sent \subseteq 1 .. Len(transfers) /\ new \notin sent
  BY <1>1 DEF SentBy
<1>3. IsFiniteSet(sent) /\ Cardinality(sent) \in Nat
  <2> DEFINE places == 1 .. Len(transfers)
  <2>1. IsFiniteSet(places)
    BY <1>1, FS_Interval
  <2>2. sent \in SUBSET places
    BY <1>2
  <2> HIDE DEF places, sent
  <2>3. IsFiniteSet(sent)
    BY <2>1, <2>2, FS_Subset
  <2> QED
    BY <2>3, FS_CardinalityType
<1>4. ASSUME move.from = a PROVE after = sent \cup {new}
  BY <1>1, <1>4 DEF SentBy
<1>5. ASSUME move.from # a PROVE after = sent
  BY <1>1, <1>5 DEF SentBy
<1> HIDE DEF new, sent, after
<1>6. Cardinality(after) = IF move.from = a THEN Cardinality(sent) + 1 ELSE Cardinality(sent)
  BY <1>2, <1>3, <1>4, <1>5, FS_AddElement
<1> QED
  BY <1>3, <1>6 DEF sent, after

LEMMA CountStep ==
  ASSUME TypeOK, SequenceCountsTransfersOut, [Next]_vars
  PROVE  SequenceCountsTransfersOut'
<1>1. CASE UNCHANGED <<balance, next, transfers>>
  BY <1>1 DEF SequenceCountsTransfersOut, SentBy
<1>2. ASSUME NEW move \in Move, transfers' = Append(transfers, move),
             NEW a \in Addresses,
             next'[a] = IF move.from = a THEN next[a] + 1 ELSE next[a]
      PROVE  next'[a] = Cardinality(SentBy(a)')
  <2>1. next[a] = Cardinality(SentBy(a))
    BY DEF SequenceCountsTransfersOut
  <2> QED
    BY <1>2, <2>1, SentByStep
<1>3. CASE \E move \in Move :
             /\ transfers' = Append(transfers, move)
             /\ \A a \in Addresses :
                  /\ balance'[a] + Given(move, a) = balance[a] + Got(move, a)
                  /\ next'[a] = IF move.from = a THEN next[a] + 1 ELSE next[a]
  <2>1. \A a \in Addresses : next'[a] = Cardinality(SentBy(a)')
    BY <1>2, <1>3
  <2> QED
    BY <2>1 DEF SequenceCountsTransfersOut
<1> QED
  BY <1>1, <1>3, CoinsMove

LEMMA CountInit == Init => SequenceCountsTransfersOut
<1> SUFFICES ASSUME Init, NEW a \in Addresses PROVE next[a] = Cardinality(SentBy(a))
  BY DEF SequenceCountsTransfersOut
<1>1. next[a] = 0 /\ SentBy(a) = {}
  BY DEF Init, SentBy
<1> QED
  BY <1>1, FS_EmptySet

\* An address's number is the count of the transfers it sent: a refused or lost one
\* uses none up, and a mint never counts.
THEOREM SequenceCounts == Spec => []SequenceCountsTransfersOut
BY InitTyped, CountInit, StepTyped, CreditsStep, CountStep, PTL DEF Spec

-----------------------------------------------------------------------------
(* Waiting.                                                                *)

\* A transaction locks the rows it found lower address first.
LocksRise ==
  \A t \in Txs : At(t, "lock") =>
    /\ txs[t].want # {} /\ txs[t].want \subseteq txs[t].seen
    /\ \A a \in txs[t].seen \ txs[t].want, b \in txs[t].want : a < b

\* A row is held by a transaction that is running, and by one that is still locking
\* only where it has locked that row.
HeldIsSeen ==
  \A a \in Addresses, t \in Txs : locks[a] = t =>
    /\ Running(t)
    /\ txs[t].step = "lock" => a \in txs[t].seen \ txs[t].want

LEMMA LowestIs ==
  ASSUME NEW S \in SUBSET Nat, S # {}
  PROVE  Lowest(S) \in S /\ \A b \in S : Lowest(S) <= b
<1> DEFINE R == OpToRel(<, Nat)
<1>1. IsWellFoundedOn(R, Nat)
  BY NatLessThanWellFounded
<1>2. \A x, y \in Nat : y < x => <<y, x>> \in R
  BY DEF OpToRel
<1> HIDE DEF R
<1>3. PICK n \in S : \A y \in S : ~(<<y, n>> \in R)
  BY <1>1, WFMin
<1>4. ASSUME NEW y \in S PROVE n <= y
  <2>1. n \in Nat /\ y \in Nat /\ ~(<<y, n>> \in R)
    BY <1>3
  <2>2. ~(y < n)
    BY <1>2, <2>1
  <2> QED
    BY <2>1, <2>2
<1>5. \E m \in S : \A y \in S : m <= y
  BY <1>3, <1>4
<1> QED
  BY <1>5, ZenonT(30) DEF Lowest

LEMMA RiseStep ==
  ASSUME TypeOK, LocksRise, [Next]_vars
  PROVE  LocksRise'
<1> SUFFICES ASSUME NEW t \in Txs, txs'[t] # None, txs'[t].step = "lock"
             PROVE  /\ txs'[t].want # {} /\ txs'[t].want \subseteq txs'[t].seen
                    /\ \A a \in txs'[t].seen \ txs'[t].want, b \in txs'[t].want : a < b
  BY DEF LocksRise, At, Running
<1>1. CASE txs'[t] = txs[t]
  BY <1>1 DEF LocksRise, At, Running
<1>2. CASE /\ txs'[t].seen = txs'[t].want
           /\ txs'[t].step = "read" <=> txs'[t].seen = {}
  BY <1>2
<1>3. CASE LockRow(t) /\ txs[t] \in Tx /\ txs'[t] = Locked(txs[t], Lowest(txs[t].want))
  <2> DEFINE a == Lowest(txs[t].want)
             want == txs[t].want
             seen == txs[t].seen
  <2>1. /\ txs'[t].seen = seen /\ txs'[t].want = want \ {a}
        /\ txs'[t].step = "read" <=> want = {a}
    BY <1>3, LockedStep
  <2>2. /\ want # {} /\ want \subseteq seen
        /\ \A c \in seen \ want, b \in want : c < b
    BY <1>3 DEF LockRow, LocksRise
  <2>3. seen \subseteq Nat
    BY <1>3, AddressesAssumption DEF Tx
  <2>4. want \in SUBSET Nat
    BY <2>2, <2>3
  <2>5. a \in want /\ \A b \in want : a <= b
    BY <2>2, <2>4, LowestIs
  <2> HIDE DEF a, want, seen
  <2>6. \A b \in want \ {a} : a < b
    BY <2>4, <2>5
  <2>7. want \ {a} # {}
    BY <2>1, <2>5
  <2> QED
    BY <2>1, <2>2, <2>6, <2>7
<1> QED
  BY <1>1, <1>2, <1>3, OwnStep

\* Who takes a row in a step.
LEMMA LocksTaken ==
  ASSUME TypeOK, [Next]_vars, NEW t \in Txs, NEW a \in Addresses,
         locks'[a] = t, locks[a] # t
  PROVE  \/ LockRow(t) /\ a = Lowest(txs[t].want)
         \/ Credit(t) /\ txs'[t].step = "debit"
<1>1. t # None
  BY NoneAssumption
<1>2. ASSUME NEW u \in Txs, LockRow(u) PROVE u = t /\ a = Lowest(txs[t].want)
  BY <1>1, <1>2 DEF LockRow, TypeOK
<1>3. ASSUME NEW u \in Txs, Finish(u) PROVE FALSE
  BY <1>1, <1>3 DEF Finish, Unlocked, TypeOK
<1>4. ASSUME NEW u \in Txs, Credit(u) PROVE u = t /\ txs'[t].step = "debit"
  <2>1. txs[u] \in Tx
    BY <1>4 DEF Credit, At, Running, TypeOK
  <2>2. /\ locks' = [locks EXCEPT ![txs[u].order.to] = u]
        /\ txs' = [txs EXCEPT ![u].step = "debit"]
    BY <1>3, <1>4 DEF Credit
  <2>3. u = t
    BY <2>2 DEF TypeOK
  <2> QED
    BY <2>1, <2>2, <2>3 DEF Tx, TypeOK
<1>5. UNCHANGED locks \/ \E u \in Txs : LockRow(u) \/ Finish(u) \/ Credit(u)
  BY DEF Next, Step, vars, Mint, Begin, ReadSender, Debit, Abort
<1> QED
  BY <1>2, <1>3, <1>4, <1>5

\* A transaction that is done holds nothing.
LEMMA DoneLetsGo ==
  ASSUME TypeOK, [Next]_vars, NEW t \in Txs, NEW a \in Addresses,
         txs[t] # None, txs'[t] = None
  PROVE  locks'[a] # t
<1>1. t # None /\ None \notin Tx
  BY NoneAssumption
<1>2. ASSUME NEW order \in Orders, Begin(t, order) PROVE FALSE
  BY <1>2 DEF Begin, Running
<1>3. txs[t] \in Tx
  BY DEF TypeOK
<1>4. ASSUME LockRow(t) PROVE FALSE
  <2>1. txs'[t] = Locked(txs[t], Lowest(txs[t].want))
    BY <1>4 DEF LockRow, TypeOK
  <2>2. txs'[t] \in Tx
    BY <1>3, <2>1, LockedStep
  <2> QED
    BY <1>1, <2>2
<1>5. ASSUME NEW step \in {"credit", "debit"},
             txs' = [txs EXCEPT ![t] = [txs[t] EXCEPT !.step = step]]
      PROVE  FALSE
  <2>1. [txs[t] EXCEPT !.step = step] \in Tx
    BY <1>3 DEF Tx
  <2> QED
    BY <1>1, <1>5, <2>1 DEF TypeOK
<1>6. Finish(t)
  BY <1>2, <1>4, <1>5, TxsAlone, TxStep DEF Step, Debit, Abort
<1> QED
  BY <1>1, <1>6 DEF Finish, Unlocked, TypeOK

LEMMA HeldStep ==
  ASSUME TypeOK, LocksRise, HeldIsSeen, [Next]_vars
  PROVE  HeldIsSeen'
<1> SUFFICES ASSUME NEW a \in Addresses, NEW t \in Txs, locks'[a] = t
             PROVE  /\ txs'[t] # None
                    /\ txs'[t].step = "lock" => a \in txs'[t].seen \ txs'[t].want
  BY DEF HeldIsSeen, Running
<1>1. CASE locks[a] = t
  <2>1. /\ txs[t] # None
        /\ txs[t].step = "lock" => a \in txs[t].seen \ txs[t].want
    BY <1>1 DEF HeldIsSeen, Running
  <2>2. txs'[t] # None
    BY <2>1, DoneLetsGo
  <2>3. CASE txs'[t] = txs[t]
    BY <2>1, <2>3
  <2>4. CASE LockRow(t) /\ txs[t] \in Tx /\ txs'[t] = Locked(txs[t], Lowest(txs[t].want))
    <3>1. txs[t].step = "lock"
      BY <2>4 DEF LockRow, At
    <3> QED
      BY <2>1, <2>2, <2>4, <3>1, LockedStep
  <2>5. CASE txs'[t].step \in {"credit", "debit"}
    BY <2>2, <2>5
  <2> QED
    BY <2>1, <2>2, <2>3, <2>4, <2>5, OwnStep
<1>2. CASE LockRow(t) /\ a = Lowest(txs[t].want)
  <2>1. txs[t] \in Tx /\ txs[t].want \subseteq txs[t].seen /\ txs[t].want # {}
    BY <1>2 DEF LockRow, At, Running, TypeOK, LocksRise
  <2>2. txs'[t] = Locked(txs[t], a)
    BY <1>2 DEF LockRow, TypeOK
  <2>3. txs'[t].seen = txs[t].seen /\ txs'[t].want = txs[t].want \ {a} /\ txs'[t] # None
    BY <2>1, <2>2, LockedStep, NoneAssumption
  <2>4. a \in txs[t].want
    <3>1. txs[t].want \in SUBSET Nat
      BY <2>1, AddressesAssumption DEF Tx
    <3> QED
      BY <1>2, <2>1, <3>1, LowestIs
  <2> QED
    BY <2>1, <2>3, <2>4
<1>3. CASE Credit(t) /\ txs'[t].step = "debit" /\ locks[a] # t
  <2>1. txs[t] # None
    BY <1>3 DEF Credit, At, Running
  <2>2. txs'[t] # None
    BY <2>1, DoneLetsGo
  <2> QED
    BY <1>3, <2>2
<1> QED
  BY <1>1, <1>2, <1>3, LocksTaken

LEMMA Bounded ==
  ASSUME NEW s \in Seq(Nat)
  PROVE  \E top \in Nat : \A n \in 1 .. Len(s) : s[n] <= top
<1> DEFINE S == {m \in 0 .. Len(s) : \E k \in Nat : \A n \in 1 .. m : s[n] <= k}
<1>1. Len(s) \in Nat /\ 0 \in 0 .. Len(s) /\ Len(s) \in 0 .. Len(s)
      /\ \A n \in 1 .. Len(s) : s[n] \in Nat
  OBVIOUS
<1>2. 0 \in S
  <2>1. \A n \in 1 .. 0 : s[n] <= 0
    OBVIOUS
  <2>2. \E k \in Nat : \A n \in 1 .. 0 : s[n] <= k
    BY <2>1
  <2> QED
    BY <1>1, <2>2
<1>3. ASSUME NEW m \in 1 .. Len(s), m - 1 \in S PROVE m \in S
  <2>1. PICK k \in Nat : \A n \in 1 .. (m - 1) : s[n] <= k
    BY <1>3
  <2>2. s[m] \in Nat /\ m \in 0 .. Len(s)
    BY <1>1
  <2>3. ASSUME NEW n \in 1 .. m PROVE s[n] <= k + s[m]
    <3>1. CASE n = m
      BY <2>2, <3>1
    <3>2. CASE n \in 1 .. (m - 1)
      <4>1. s[n] \in Nat /\ s[n] <= k
        BY <1>1, <2>1, <3>2
      <4> QED
        BY <2>2, <4>1
    <3> QED
      BY <3>1, <3>2
  <2>4. k + s[m] \in Nat
    BY <2>2
  <2>5. \E top \in Nat : \A n \in 1 .. m : s[n] <= top
    BY <2>3, <2>4
  <2> QED
    BY <2>2, <2>5
<1> HIDE DEF S
<1>4. Len(s) \in S
  BY <1>1, <1>2, <1>3, Climbing
<1> QED
  BY <1>4 DEF S

\* A finite set of numbers has no number past every one of which it has another.
LEMMA NoEndlessClimb ==
  ASSUME NEW A \in SUBSET Nat, IsFiniteSet(A), NEW first \in A,
         \A a \in A : \E b \in A : a < b
  PROVE  FALSE
<1>1. PICK s \in Seq(A) : \A a \in A : \E n \in 1 .. Len(s) : s[n] = a
  BY DEF IsFiniteSet
<1>2. s \in Seq(Nat)
  <2>1. Len(s) \in Nat /\ s = [n \in 1 .. Len(s) |-> s[n]]
    OBVIOUS
  <2>2. \A n \in 1 .. Len(s) : s[n] \in A
    OBVIOUS
  <2>3. \A n \in 1 .. Len(s) : s[n] \in Nat
    BY <2>2
  <2>4. [n \in 1 .. Len(s) |-> s[n]] \in Seq(Nat)
    BY <2>1, <2>3
  <2> QED
    BY <2>1, <2>4
<1>3. PICK top \in Nat : \A n \in 1 .. Len(s) : s[n] <= top
  BY <1>2, Bounded
<1>4. \A a \in A : a <= top
  BY <1>1, <1>3
<1> DEFINE R == {j \in 0 .. top + 1 : \E a \in A : j <= a}
<1>5. 0 \in R
  <2>1. first \in Nat /\ 0 <= first /\ 0 \in 0 .. top + 1
    OBVIOUS
  <2> QED
    BY <2>1
<1>6. ASSUME NEW j \in 1 .. (top + 1), j - 1 \in R PROVE j \in R
  <2>1. PICK a \in A : j - 1 <= a
    BY <1>6
  <2>2. PICK b \in A : a < b
    OBVIOUS
  <2>3. a \in Nat /\ b \in Nat /\ j \in Nat /\ j \in 0 .. top + 1
    OBVIOUS
  <2>4. j <= b
    BY <2>1, <2>2, <2>3
  <2> QED
    BY <2>3, <2>4
<1> HIDE DEF R
<1>7. top + 1 \in R
  <2>1. top + 1 \in Nat /\ top + 1 \in 0 .. (top + 1)
    OBVIOUS
  <2> QED
    BY <1>5, <1>6, <2>1, Climbing
<1>8. PICK a \in A : top + 1 <= a
  BY <1>7 DEF R
<1> QED
  BY <1>4, <1>8

\* A transaction in a ring that locked all its rows in order waits at one of them,
\* below every one its holder waits at.
LEMMA RingClimbs ==
  ASSUME TypeOK, HoldsWhatItSaw, LocksRise, HeldIsSeen,
         NEW ts \in SUBSET Txs, NEW t \in ts, Blocker(t) \in ts \ {t},
         \A u \in ts : {txs[u].order.from, txs[u].order.to} \subseteq txs[u].seen
  PROVE  /\ At(t, "lock") /\ Needs(t) = Lowest(txs[t].want)
         /\ Needs(t) \in txs[t].want /\ Needs(t) \in Addresses
         /\ locks[Needs(t)] = Blocker(t)
<1>1. Needs(t) # None /\ locks[Needs(t)] = Blocker(t) /\ locks[Needs(t)] # t
  BY NoneAssumption DEF Blocker
<1>2. Running(t) /\ txs[t] \in Tx
  BY <1>1 DEF Needs, At, Running, TypeOK
<1>3. CASE At(t, "lock")
  <2>1. txs[t].want # {} /\ txs[t].want \subseteq txs[t].seen
    BY <1>3 DEF LocksRise
  <2>2. txs[t].want \subseteq Addresses
    BY <1>2 DEF Tx
  <2>3. txs[t].want \in SUBSET Nat
    BY <2>2, AddressesAssumption
  <2>4. Lowest(txs[t].want) \in txs[t].want
    BY <2>1, <2>3, LowestIs
  <2>5. Needs(t) = Lowest(txs[t].want)
    <3>1. ~At(t, "credit") /\ ~At(t, "debit")
      BY <1>3 DEF At
    <3> QED
      BY <1>3, <3>1 DEF Needs
  <2> QED
    BY <1>1, <1>3, <2>2, <2>4, <2>5
<1>4. CASE ~At(t, "lock")
  <2>1. \A a \in txs[t].seen : locks[a] = t
    BY <1>2, <1>4 DEF HoldsWhatItSaw, At
  <2>2. Needs(t) \in {txs[t].order.from, txs[t].order.to}
    BY <1>1, <1>4 DEF Needs, At
  <2> QED
    BY <1>1, <2>1, <2>2
<1> QED
  BY <1>3, <1>4

LEMMA RingsAreNew ==
  ASSUME TypeOK, HoldsWhatItSaw, LocksRise, HeldIsSeen
  PROVE  KnownAddressesNeverDeadlock
<1> SUFFICES ASSUME NEW ts \in SUBSET Txs, Ring(ts),
                    \A u \in ts : {txs[u].order.from, txs[u].order.to} \subseteq txs[u].seen
             PROVE  FALSE
  BY DEF KnownAddressesNeverDeadlock
<1> DEFINE A == {Needs(t) : t \in ts}
<1>1. \A t \in ts : Blocker(t) \in ts \ {t}
  BY DEF Ring
<1>2. ASSUME NEW t \in ts
      PROVE  /\ At(t, "lock") /\ Needs(t) = Lowest(txs[t].want)
             /\ Needs(t) \in txs[t].want /\ Needs(t) \in Addresses
             /\ locks[Needs(t)] = Blocker(t)
  BY <1>1, RingClimbs
<1>3. ASSUME NEW t \in ts PROVE \E u \in ts : Needs(t) < Needs(u)
  <2>1. PICK u \in ts : u = Blocker(t)
    BY <1>1
  <2>2. Needs(t) \in Addresses /\ locks[Needs(t)] = u /\ u \in Txs
    BY <1>2, <2>1
  <2>3. At(u, "lock") /\ Needs(u) \in txs[u].want
    BY <1>2
  <2>4. Needs(t) \in txs[u].seen \ txs[u].want
    BY <2>2, <2>3 DEF HeldIsSeen, At
  <2> QED
    BY <2>2, <2>3, <2>4 DEF LocksRise
<1>4. A \in SUBSET Addresses /\ A \in SUBSET Nat
  BY <1>2, AddressesAssumption
<1>5. IsFiniteSet(A)
  <2> HIDE DEF A
  <2> QED
    BY <1>4, AddressesAssumption, FS_Subset
<1>6. \A a \in A : \E b \in A : a < b
  BY <1>3
<1>7. PICK first \in A : TRUE
  BY DEF Ring
<1> HIDE DEF A
<1> QED
  BY <1>4, <1>5, <1>6, <1>7, NoEndlessClimb

\* Transfers between addresses the ledger knew when they began never wait on each
\* other in a ring, however many cross: rows are locked lower address first.
THEOREM NoDeadlock == Spec => []KnownAddressesNeverDeadlock
<1>1. Init => HoldsWhatItSaw /\ LocksRise /\ HeldIsSeen
  BY NoneAssumption DEF Init, HoldsWhatItSaw, LocksRise, HeldIsSeen, At, Running
<1> QED
  BY <1>1, InitTyped, StepTyped, CreditsStep, HoldsStep, RiseStep, HeldStep, RingsAreNew,
     PTL DEF Spec

-----------------------------------------------------------------------------
(* One step to everybody else.                                             *)

\* The rows an order found are among those the ledger has, and its own two.
SeenIsKnown ==
  \A t \in Txs : Running(t) =>
    txs[t].seen \subseteq paid \cap {txs[t].order.from, txs[t].order.to}

LEMMA KnownStep ==
  ASSUME TypeOK, SeenIsKnown, [Next]_vars
  PROVE  SeenIsKnown'
<1>1. paid \subseteq paid'
  BY DEF Next, Step, vars, Mint, Begin, LockRow, ReadSender, Credit, Debit, Abort
<1> SUFFICES ASSUME NEW t \in Txs, txs'[t] # None
             PROVE  txs'[t].seen \subseteq paid' \cap {txs'[t].order.from, txs'[t].order.to}
  BY DEF SeenIsKnown, Running
<1>2. CASE txs'[t] = txs[t]
  BY <1>1, <1>2 DEF SeenIsKnown, Running
<1>3. ASSUME NEW order \in Orders, Begin(t, order)
      PROVE  txs'[t].seen \subseteq paid' \cap {txs'[t].order.from, txs'[t].order.to}
  BY <1>1, <1>3 DEF Begin, TypeOK
<1>4. ASSUME Step(t) \/ Abort(t), txs'[t] # txs[t]
      PROVE  txs'[t].seen \subseteq paid' \cap {txs'[t].order.from, txs'[t].order.to}
  <2>1. txs[t] # None /\ txs[t] \in Tx
    BY <1>4 DEF Step, Abort, LockRow, ReadSender, Credit, Debit, At, Running, TypeOK
  <2>2. txs'[t].seen = txs[t].seen /\ txs'[t].order = txs[t].order
    BY <1>4, <2>1, OwnStep, LockedStep, LockedOrder
  <2> QED
    BY <1>1, <2>1, <2>2 DEF SeenIsKnown, Running
<1> QED
  BY <1>2, <1>3, <1>4, TxsAlone

\* A mint is a mint of the ledger.
LEMMA MintIsAtomic ==
  ASSUME TypeOK, NEW a \in Addresses, NEW amount \in Amounts, Mint(a, amount)
  PROVE  Atomic!Mint(a, amount)
<1>1. balance[a] \in Nat /\ amount \in Nat /\ MaxBalance \in Nat
  BY AmountsAssumption, AmountsAreNumbers DEF TypeOK
<1>2. balance[a] + amount <= MaxBalance
  BY <1>1 DEF Mint, Fits
<1> QED
  BY <1>2 DEF Mint, Atomic!Mint, Atomic!Room

\* A debit that is not taken back is a whole transfer: the room its credit found is
\* still there, its sender has the coins, and its number is still its sender's.
LEMMA DebitIsAtomic ==
  ASSUME TypeOK, CreditsFit, ChecksStand, SeenIsKnown, NEW t \in Txs, Debit(t)
  PROVE  \/ Atomic!Next
         \/ UNCHANGED Atomic!ledger
<1> DEFINE order == txs[t].order
           from == order.from
           to == order.to
           amount == order.amount
           n == order.sequence
           seen == txs[t].seen
<1>1. CASE ~(balance[from] >= amount)
  BY <1>1 DEF Debit, Atomic!ledger
<1>2. CASE balance[from] >= amount
  <2>1. txs[t] \in Tx /\ At(t, "debit") /\ Running(t) /\ txs[t].step \in {"credit", "debit"}
    BY DEF Debit, At, Running, TypeOK
  <2>2. /\ from \in Addresses /\ to \in Addresses \ {from} /\ amount \in Amounts
        /\ n \in 0 .. MaxSequence
    BY <2>1 DEF Tx, Orders
  <2>3. amount \in Nat /\ balance[to] \in Nat /\ next[from] \in Nat /\ MaxBalance \in Nat
        /\ n \in Nat
    <3>1. amount \in Nat /\ MaxBalance \in Nat
      BY <2>2, AmountsAssumption, AmountsAreNumbers
    <3>2. balance \in [Addresses -> 0 .. MaxBalance] /\ next \in [Addresses -> Nat]
      BY DEF TypeOK
    <3>3. balance[to] \in Nat /\ next[from] \in Nat
      <4> HIDE DEF order, from, to
      <4> QED BY <2>2, <3>1, <3>2
    <3>4. n \in Nat
      <4> HIDE DEF n
      <4> QED BY <2>2, AmountsAssumption
    <3> QED BY <3>1, <3>3, <3>4
  <2>4. balance[to] + amount <= MaxBalance
    BY <2>1, <2>3 DEF CreditsFit, Fits
  <2>5. n <= next[from] /\ (from \in seen => n = next[from])
    BY <2>1 DEF ChecksStand
  <2>6. seen \in SUBSET (paid \cap {from, to}) /\ n \in 0 .. next[from]
    BY <2>1, <2>3, <2>5 DEF SeenIsKnown
  <2>7. /\ paid' = paid \cup {to}
        /\ balance' = [balance EXCEPT ![from] = @ - amount, ![to] = @ + amount]
        /\ next' = [next EXCEPT ![from] = @ + 1]
        /\ transfers' = Append(transfers, [from |-> from, to |-> to, amount |-> amount,
                                           sequence |-> n, seen |-> seen])
    BY <1>2 DEF Debit
  <2> HIDE DEF order, from, to, amount, n, seen
  <2>8. Atomic!Transfer(from, to, amount, n, seen)
    BY <1>2, <2>4, <2>5, <2>7 DEF Atomic!Transfer, Atomic!Room
  <2> QED
    BY <2>2, <2>6, <2>8 DEF Atomic!Next
<1> QED
  BY <1>1, <1>2

LEMMA AtomicStep ==
  ASSUME TypeOK, CreditsFit, ChecksStand, SeenIsKnown, [Next]_vars
  PROVE  [Atomic!Next]_(Atomic!ledger)
<1>1. ASSUME NEW a \in Addresses, NEW amount \in Amounts, Mint(a, amount)
      PROVE  Atomic!Next
  BY <1>1, MintIsAtomic DEF Atomic!Next
<1>2. \/ UNCHANGED <<paid, balance, next, transfers>>
      \/ \E a \in Addresses, amount \in Amounts : Mint(a, amount)
      \/ \E t \in Txs : Debit(t)
  BY DEF Next, Step, vars, Begin, LockRow, ReadSender, Credit, Abort
<1> QED
  BY <1>1, <1>2, DebitIsAtomic DEF Atomic!ledger

\* A transfer is one step to everybody else: what its four statements read and
\* judged one at a time still holds when the last of them commits, for any number of
\* transfers and mints beside it, or nothing is moved.
THEOREM OneStep == Spec => TransfersAreAtomic
<1>1. Init => HoldsWhatItSaw /\ ChecksStand /\ NumbersUsedUp /\ SeenIsKnown
  BY DEF Init, HoldsWhatItSaw, ChecksStand, NumbersUsedUp, SeenIsKnown, Running
<1>2. Init => Atomic!Init
  BY DEF Init, Atomic!Init
<1> QED
  BY <1>1, <1>2, InitTyped, StepTyped, CreditsStep, HoldsStep, ChecksStep, KnownStep, AtomicStep,
     PTL DEF Spec, TransfersAreAtomic, Atomic!Spec

-----------------------------------------------------------------------------
(* Getting on.                                                             *)

\* Of transfers between addresses the ledger knew when they began, however many are
\* open, there is always one whose next statement need not wait: none of them needs
\* the deadlock detector to get on.
SomeTransferGoesOn ==
  LET open == {t \in Txs : Running(t)} IN
  open # {} /\ (\A t \in open : {txs[t].order.from, txs[t].order.to} \subseteq txs[t].seen)
  => \E t \in open : Blocker(t) \in {None, t}

LEMMA GoesOn ==
  ASSUME TypeOK, LocksRise, HeldIsSeen, KnownAddressesNeverDeadlock
  PROVE  SomeTransferGoesOn
<1> DEFINE open == {t \in Txs : Running(t)}
<1> SUFFICES ASSUME open # {}, \A t \in open : Blocker(t) \notin {None, t}
             PROVE  \E t \in open : ~({txs[t].order.from, txs[t].order.to} \subseteq txs[t].seen)
  BY DEF SomeTransferGoesOn
<1>1. ASSUME NEW t \in open PROVE Blocker(t) \in open \ {t}
  <2>1. Needs(t) # None /\ Blocker(t) = locks[Needs(t)]
    BY DEF Blocker
  <2>2. Needs(t) \in Addresses
    <3>1. txs[t] \in Tx /\ t \in Txs
      BY DEF TypeOK, Running
    <3>2. CASE At(t, "lock")
      <4>1. txs[t].want # {} /\ txs[t].want \subseteq Addresses
        BY <3>1, <3>2 DEF LocksRise, Tx
      <4>2. Lowest(txs[t].want) \in txs[t].want
        BY <4>1, LowestIs, AddressesAssumption
      <4>3. ~At(t, "credit") /\ ~At(t, "debit")
        BY <3>2 DEF At
      <4> QED
        BY <3>2, <4>1, <4>2, <4>3 DEF Needs
    <3>3. CASE ~At(t, "lock")
      BY <2>1, <3>1, <3>3 DEF Needs, At, Tx, Orders
    <3> QED
      BY <3>2, <3>3
  <2> QED
    BY <2>1, <2>2 DEF TypeOK, HeldIsSeen, Running
<1>2. open \in SUBSET Txs /\ Ring(open)
  BY <1>1 DEF Ring
<1> QED
  BY <1>2 DEF KnownAddressesNeverDeadlock

\* While transfers are open one of them can run its next statement, however the others
\* stand in each other's way: what locking the lower address first is for.
THEOREM SomeoneGoesOn == Spec => []SomeTransferGoesOn
<1>1. Init => HoldsWhatItSaw /\ LocksRise /\ HeldIsSeen
  BY NoneAssumption DEF Init, HoldsWhatItSaw, LocksRise, HeldIsSeen, At, Running
<1> QED
  BY <1>1, InitTyped, StepTyped, CreditsStep, HoldsStep, RiseStep, HeldStep, RingsAreNew, GoesOn,
     PTL DEF Spec
=============================================================================
