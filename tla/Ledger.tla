------------------------------- MODULE Ledger -------------------------------
(***************************************************************************)
(* What a mint and a transfer are to those who ask for one: a single step, *)
(* judged on the ledger as it stands at that step.  The statements, locks  *)
(* and lost transactions of Wallet are not to be seen here.                *)
(***************************************************************************)
EXTENDS Naturals, Sequences

CONSTANTS Addresses, MaxBalance, Amounts, None

VARIABLES
  known,    \* the addresses the ledger has a row for
  balance,  \* what each address holds
  next,     \* the transfers each has sent
  record    \* every movement, in the order they landed

ledger == <<known, balance, next, record>>

Init ==
  /\ known = {}
  /\ balance = [a \in Addresses |-> 0]
  /\ next = [a \in Addresses |-> 0]
  /\ record = <<>>

Room(a, amount) == balance[a] + amount <= MaxBalance

Mint(a, amount) ==
  /\ Room(a, amount)
  /\ known' = known \cup {a}
  /\ balance' = [balance EXCEPT ![a] = @ + amount]
  /\ record' = Append(record, [from |-> None, to |-> a, amount |-> amount,
                               sequence |-> 0, seen |-> {}])
  /\ UNCHANGED next

\* The coins are there and there is room for them.  A sender the ledger knew when
\* the order came spends its next number; one it did not know may name a number
\* used since, but none to come.
Transfer(a, b, amount, n, seen) ==
  /\ balance[a] >= amount
  /\ Room(b, amount)
  /\ a \in seen => n = next[a]
  /\ known' = known \cup {b}
  /\ balance' = [balance EXCEPT ![a] = @ - amount, ![b] = @ + amount]
  /\ next' = [next EXCEPT ![a] = @ + 1]
  /\ record' = Append(record, [from |-> a, to |-> b, amount |-> amount,
                               sequence |-> n, seen |-> seen])

Next ==
  \/ \E a \in Addresses, amount \in Amounts : Mint(a, amount)
  \/ \E a \in Addresses, amount \in Amounts : \E b \in Addresses \ {a}, n \in 0 .. next[a] :
       \E seen \in SUBSET (known \cap {a, b}) : Transfer(a, b, amount, n, seen)

Spec == Init /\ [][Next]_ledger
=============================================================================
