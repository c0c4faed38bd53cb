------------------------------- MODULE Wallet -------------------------------
(***************************************************************************)
(* The coin ledger: wallet_mint and wallet_transfer, as PostgreSQL runs    *)
(* them at READ COMMITTED.  Each statement of the function reads what was  *)
(* committed when it began, waits for the row it must lock, and everything *)
(* it wrote is published at the end or not at all.  A transaction's writes *)
(* are kept out of the tables here until it commits; no other transaction  *)
(* can tell, because their rows are locked until then.                     *)
(***************************************************************************)
EXTENDS Naturals, Sequences, FiniteSets

CONSTANTS
  Addresses,   \* wallet addresses, numbered in their collation order
  MaxBalance,  \* 9007199254740991, the most an address may hold
  Amounts,     \* what one transfer or mint moves in this instance
  MaxMoves,    \* bound: nothing starts once this many movements are recorded
  MaxSequence, \* bound: the highest sequence number an order names
  Txs,         \* transactions open at once (the bound on concurrency)
  None         \* no lock holder; the sender of a mint

ASSUME AddressesAssumption == Addresses \subseteq Nat /\ IsFiniteSet(Addresses)
ASSUME AmountsAssumption ==
  /\ MaxBalance \in Nat /\ MaxMoves \in Nat /\ MaxSequence \in Nat
  /\ Amounts \subseteq 1 .. MaxBalance

\* What a wallet's key signs.
Orders == {o \in [from: Addresses, to: Addresses, amount: Amounts, sequence: 0 .. MaxSequence] :
             o.from # o.to}

\* seen: the rows the order's first statement found, and locked.
Move == [from: Addresses \cup {None}, to: Addresses, amount: Amounts,
         sequence: 0 .. MaxSequence, seen: SUBSET Addresses]

Tx == [step: {"lock", "read", "credit", "debit"}, order: Orders,
       want: SUBSET Addresses, seen: SUBSET Addresses]

ASSUME NoneAssumption == None \notin Addresses \cup Txs \cup Tx

VARIABLES
  paid,       \* the addresses that have a wallet_balances row
  balance,    \* what each holds, 0 with no row
  next,       \* next_sequence of each, 0 with no row
  transfers,  \* wallet_transfers in id order, with the order each row came from
  locks,      \* the transaction holding each row, or the key of a row it inserts
  txs         \* the transfer each transaction is making

vars == <<paid, balance, next, transfers, locks, txs>>

Init ==
  /\ paid = {}
  /\ balance = [a \in Addresses |-> 0]
  /\ next = [a \in Addresses |-> 0]
  /\ transfers = <<>>
  /\ locks = [a \in Addresses |-> None]
  /\ txs = [t \in Txs |-> None]

-----------------------------------------------------------------------------
Running(t) == txs[t] # None
At(t, step) == Running(t) /\ txs[t].step = step

Lowest(addresses) == CHOOSE a \in addresses : \A b \in addresses : a <= b

\* Commit and rollback alike let every row go.
Unlocked(t) == [a \in Addresses |-> IF locks[a] = t THEN None ELSE locks[a]]
Finish(t) == locks' = Unlocked(t) /\ txs' = [txs EXCEPT ![t] = None]

\* Mutant: the cap is judged without the amount.
FitsBefore(a, amount) == balance[a] < MaxBalance

\* A credit must not take the address past the cap.
Fits(a, amount) == balance[a] <= MaxBalance - amount

-----------------------------------------------------------------------------
(* wallet_mint: the credit and its row, or nothing where it does not fit.  *)

Mint(a, amount) ==
  /\ Len(transfers) < MaxMoves
  /\ locks[a] = None
  /\ Fits(a, amount)
  /\ paid' = paid \cup {a}
  /\ balance' = [balance EXCEPT ![a] = @ + amount]
  /\ transfers' = Append(transfers, [from |-> None, to |-> a, amount |-> amount,
                                     sequence |-> 0, seen |-> {}])
  /\ UNCHANGED <<next, locks, txs>>

-----------------------------------------------------------------------------
(* wallet_transfer, one statement at a time.                               *)

\* SELECT ... FOR UPDATE sees the rows of the two addresses that exist now.
Begin(t, order) ==
  LET seen == {order.from, order.to} \cap paid IN
  /\ ~Running(t)
  /\ Len(transfers) < MaxMoves
  /\ txs' = [txs EXCEPT ![t] =
       [step |-> IF seen = {} THEN "read" ELSE "lock", order |-> order,
        want |-> seen, seen |-> seen]]
  /\ UNCHANGED <<paid, balance, next, transfers, locks>>

\* One row fewer to lock; the last one lets the order be read.
Locked(tx, a) ==
  [tx EXCEPT !.want = @ \ {a}, !.step = IF tx.want = {a} THEN "read" ELSE "lock"]

\* Mutant: the rows are locked in whatever order they come.
LockAnyRow(t) ==
  /\ At(t, "lock")
  /\ \E a \in txs[t].want :
       /\ locks[a] = None
       /\ locks' = [locks EXCEPT ![a] = t]
       /\ txs' = [txs EXCEPT ![t] = Locked(@, a)]
  /\ UNCHANGED <<paid, balance, next, transfers>>

\* It locks them lower address first, waiting for each.
LockRow(t) ==
  /\ At(t, "lock")
  /\ LET a == Lowest(txs[t].want) IN
       /\ locks[a] = None
       /\ locks' = [locks EXCEPT ![a] = t]
       /\ txs' = [txs EXCEPT ![t] = Locked(@, a)]
  /\ UNCHANGED <<paid, balance, next, transfers>>

\* Mutant: a sequence number used before passes, if the coins are there.
ReadSenderLoosely(t) ==
  LET order == txs[t].order IN
  /\ At(t, "read")
  /\ IF order.sequence <= next[order.from] /\ balance[order.from] >= order.amount
       THEN txs' = [txs EXCEPT ![t].step = "credit"] /\ UNCHANGED locks
       ELSE Finish(t)
  /\ UNCHANGED <<paid, balance, next, transfers>>

\* The sender's balance and sequence; an address with no row holds nothing, at
\* sequence 0.  stale_sequence and insufficient_balance end the order here.
ReadSender(t) ==
  LET order == txs[t].order IN
  /\ At(t, "read")
  /\ IF order.sequence = next[order.from] /\ balance[order.from] >= order.amount
       THEN txs' = [txs EXCEPT ![t].step = "credit"] /\ UNCHANGED locks
       ELSE Finish(t)
  /\ UNCHANGED <<paid, balance, next, transfers>>

\* Mutant: the destination's room is looked at without taking its row.
CreditUnlocked(t) ==
  LET order == txs[t].order IN
  /\ At(t, "credit")
  /\ IF Fits(order.to, order.amount)
       THEN txs' = [txs EXCEPT ![t].step = "debit"] /\ UNCHANGED locks
       ELSE Finish(t)
  /\ UNCHANGED <<paid, balance, next, transfers>>

\* INSERT ... ON CONFLICT DO UPDATE takes the destination's row, or its key where
\* there is none yet; destination_full ends the order.
Credit(t) ==
  LET order == txs[t].order IN
  /\ At(t, "credit")
  /\ locks[order.to] \in {None, t}
  /\ IF Fits(order.to, order.amount)
       THEN /\ locks' = [locks EXCEPT ![order.to] = t]
            /\ txs' = [txs EXCEPT ![t].step = "debit"]
       ELSE Finish(t)
  /\ UNCHANGED <<paid, balance, next, transfers>>

\* Mutant: the transfer row is not written.
DebitUnrecorded(t) ==
  LET order == txs[t].order IN
  /\ At(t, "debit")
  /\ locks[order.from] \in {None, t}
  /\ balance[order.from] >= order.amount
  /\ balance' = [balance EXCEPT ![order.from] = @ - order.amount,
                                ![order.to] = @ + order.amount]
  /\ next' = [next EXCEPT ![order.from] = @ + 1]
  /\ paid' = paid \cup {order.to}
  /\ Finish(t)
  /\ UNCHANGED transfers

\* The debit re-reads the row it locks, and the table's CHECK refuses a negative
\* balance and rolls everything back.  Otherwise the transfer row is written and
\* the transaction commits: moved.
Debit(t) ==
  LET order == txs[t].order IN
  /\ At(t, "debit")
  /\ locks[order.from] \in {None, t}
  /\ IF balance[order.from] >= order.amount
       THEN /\ balance' = [balance EXCEPT ![order.from] = @ - order.amount,
                                          ![order.to] = @ + order.amount]
            /\ next' = [next EXCEPT ![order.from] = @ + 1]
            /\ paid' = paid \cup {order.to}
            /\ transfers' = Append(transfers,
                 [from |-> order.from, to |-> order.to, amount |-> order.amount,
                  sequence |-> order.sequence, seen |-> txs[t].seen])
       ELSE UNCHANGED <<paid, balance, next, transfers>>
  /\ Finish(t)

\* The transaction is lost, to a dropped connection or to the deadlock detector.
Abort(t) ==
  /\ Running(t)
  /\ Finish(t)
  /\ UNCHANGED <<paid, balance, next, transfers>>

-----------------------------------------------------------------------------
Step(t) == LockRow(t) \/ ReadSender(t) \/ Credit(t) \/ Debit(t)

Next ==
  \/ \E a \in Addresses, amount \in Amounts : Mint(a, amount)
  \/ \E t \in Txs : (\E order \in Orders : Begin(t, order)) \/ Step(t) \/ Abort(t)

Spec == Init /\ [][Next]_vars

-----------------------------------------------------------------------------
TypeOK ==
  /\ paid \subseteq Addresses
  /\ balance \in [Addresses -> 0 .. MaxBalance]
  /\ next \in [Addresses -> Nat]
  /\ transfers \in Seq(Move)
  /\ locks \in [Addresses -> Txs \cup {None}]
  /\ txs \in [Txs -> Tx \cup {None}]

\* The rows that brought an address coins, and those that took them, as amounts.
Into(a) == [i \in 1 .. Len(transfers) |->
              IF transfers[i].to = a THEN transfers[i].amount ELSE 0]
OutOf(a) == [i \in 1 .. Len(transfers) |->
               IF transfers[i].from = a THEN transfers[i].amount ELSE 0]
Total(amounts) ==
  LET sum[n \in 0 .. Len(amounts)] == IF n = 0 THEN 0 ELSE sum[n - 1] + amounts[n]
  IN  sum[Len(amounts)]

\* The ledger adds up: an address holds what its transfer rows brought less what
\* they took, so no coin is in neither place or in both, whatever was rolled back.
LedgerAddsUp ==
  \A a \in Addresses : balance[a] + Total(OutOf(a)) = Total(Into(a))

\* A sequence number counts the transfers out of its address and nothing else.
SentBy(a) == {i \in 1 .. Len(transfers) : transfers[i].from = a}
SequenceCountsTransfersOut ==
  \A a \in Addresses : next[a] = Cardinality(SentBy(a))

\* An order that found and locked its sender's row lands after every transfer
\* signed at its number or above: sent a second time, it is stale.
LockedOrderLandsOnce ==
  \A i, j \in DOMAIN transfers :
    i < j /\ transfers[i].from = transfers[j].from /\ transfers[j].from \in transfers[j].seen
    => transfers[i].sequence < transfers[j].sequence

\* A transfer is one step to everybody else: what its four statements read and
\* judged one at a time still holds when the last of them commits, or nothing is
\* moved (wallet_transfer.sql:3-4, 25-28).
Atomic == INSTANCE Ledger WITH known <- paid, record <- transfers
TransfersAreAtomic == Atomic!Spec

\* Who holds the row a transaction's next statement must lock.
Needs(t) ==
  CASE At(t, "lock")   -> Lowest(txs[t].want)
    [] At(t, "credit") -> txs[t].order.to
    [] At(t, "debit")  -> txs[t].order.from
    [] OTHER           -> None

Blocker(t) == IF Needs(t) = None THEN None ELSE locks[Needs(t)]

\* Transfers crossing between addresses the ledger knows lock them in one order,
\* so they never wait on each other in a ring; a ring needs a destination that had
\* no row when its transfer began, and so was not locked in its place.
Ring(ts) ==
  /\ ts # {}
  /\ \A t \in ts : Blocker(t) \in ts \ {t}

KnownAddressesNeverDeadlock ==
  \A ts \in SUBSET Txs :
    Ring(ts) => \E t \in ts : ~({txs[t].order.from, txs[t].order.to} \subseteq txs[t].seen)

-----------------------------------------------------------------------------
(* What a comment in the code says of the function, and TLC refutes.       *)

\* wallet_transfer.sql: only one of two transfers signed at the same sequence
\* lands.  Two that begin before the sender's first coins arrive lock no row.
OneTransferPerSequence ==
  \A i, j \in DOMAIN transfers :
    transfers[i].from # None /\ transfers[i].from = transfers[j].from
    /\ transfers[i].sequence = transfers[j].sequence => i = j
=============================================================================
