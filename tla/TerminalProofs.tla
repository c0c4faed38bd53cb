--------------------------- MODULE TerminalProofs ---------------------------
(***************************************************************************)
(* What a tab never does, for any boxes, sessions, reboots and reloads: it *)
(* takes no other box's boot id for its own, it runs no line in a shell it *)
(* had lost when it asked, and it closes none without a reason.            *)
(***************************************************************************)
EXTENDS Terminal, FiniteSetTheorems, TLAPS

\* A session not minted yet left no trace.
Unminted ==
  \A s \in Ids : s > opened =>
    /\ row[s] = "none" /\ stamp[s] = None /\ s \notin Legs(stack)
    /\ \A p \in pulls : p.by # s

\* Nor did the one a login is asking for, but its number; and the ftp prompt
\* has its session.
Awaited ==
  /\ phase = "ftp" => ftp # None
  /\ phase \in {"login", "admitted"} => opened \in Ids /\ box[opened] # Home
  /\ phase = "login" =>
       /\ row[opened] = "none" /\ stamp[opened] = None /\ opened \notin Legs(stack)
       /\ \A p \in pulls : p.by # opened

\* A row to come is of a shell at home, and is not there yet; a listing read
\* names rows that came.
RowsToCome ==
  /\ \A s \in Ids : <<"create", s>> \in posts => row[s] = "none" /\ box[s] = Home /\ s <= opened
  /\ \A s \in listed : row[s] # "none"

\* What a pull may show no older boot id than: the page's load for the base
\* login, and for a shell what its box carried when it came to stand there.
From(s) == IF s = None THEN loaded ELSE Since(s)

\* A tree asked for is of the box its shell stands on, and shows it no older
\* than when the shell came there; a line waits for one.
PullsSeeNoPast ==
  /\ loaded <= boot[Home] /\ \A s \in Ids : arrived[s] <= boot[box[s]]
  /\ \A p \in pulls :
       /\ p.box = IF p.by = None THEN Home ELSE box[p.by]
       /\ From(p.by) <= p.since /\ p.since <= boot[p.box]
       /\ p.line => phase \in {"pulling", "refreshing", "rereading"}
       /\ p.line /\ phase = "pulling" => p.by = Entered(chain)
  /\ \A p, q \in pulls : p.line /\ q.line => p = q

\* A tree of the own box in hand was pulled since the page was loaded.
HomeTreesSince ==
  tree # None /\ tree.box = Home => loaded <= tree.boot /\ tree.boot <= boot[Home]

\* A line no rebuild landed under stands in the stack it was typed in, holds the
\* boot id of its shell once it read one, and runs over a tree as fresh.
LineStandsInItsShell ==
  ~replaced =>
    /\ phase \in {"pulling", "asking", "heard"} => chain = stack
    /\ phase = "pulling" => mine = None \/ mine = Held(stack)
    /\ phase \in {"asking", "heard"} =>
         IF stack = <<>> THEN mine = None
         ELSE /\ mine # None /\ mine = Held(stack)
              /\ view # None => Since(Entered(stack)) <= view /\ view <= boot[On(stack)]

\* A line whose chain had lost a leg is still on that leg when the server is
\* asked, and the answer then names one: of the shells it loses, the lowest had
\* ended or had not come.
LossStays ==
  /\ phase = "asking" /\ evicted => \E s \in Legs(chain) : row[s] = "ended"
  /\ phase = "heard" /\ evicted => lost > 0
  /\ phase # "heard" => lost = 0
  /\ phase = "heard" /\ lost > 0 =>
       lost <= Len(chain) /\ (late \/ row[chain[Len(chain) - lost + 1]] = "ended")

IInv ==
  /\ TypeOK /\ Unminted /\ Awaited /\ RowsToCome /\ PullsSeeNoPast /\ HomeTreesSince
  /\ StampSinceArrival /\ LineStandsInItsShell /\ LossStays /\ EvictedNeverRuns

-----------------------------------------------------------------------------
(* Stacks and trees.                                                       *)
LEMMA StackTyped ==
  ASSUME TypeOK, NEW st \in Seq(Ids)
  PROVE  /\ Entered(st) \in Ids \cup {None} /\ On(st) \in Boxes
         /\ Entered(st) = None <=> st = <<>>
         /\ On(st) = IF Entered(st) = None THEN Home ELSE box[Entered(st)]
         /\ Entered(st) # None => Entered(st) \in Legs(st)
         /\ Legs(st) \subseteq Ids
<1>1. Legs(st) \subseteq Ids
  BY DEF Legs
<1>2. CASE st = <<>>
  BY <1>1, <1>2 DEF Entered, On, Boxes
<1>3. CASE st # <<>>
  <2>1. Len(st) \in 1..Len(st) /\ st[Len(st)] \in Ids
    BY <1>3
  <2>2. st[Len(st)] # None
    BY <2>1, NoneAssumption DEF Ids
  <2> QED
    BY <1>1, <1>3, <2>1, <2>2 DEF Entered, On, Legs, TypeOK
<1> QED
  BY <1>2, <1>3

Trees == [box : Boxes, boot : Nat] \cup {None}

LEMMA ShownTyped ==
  ASSUME NEW tr \in Trees, NEW st
  PROVE  /\ Shown(tr, st) \in Nat \cup {None} /\ ReadBootId(Shown(tr, st)) \in Nat
         /\ Shown(tr, st) # None => /\ tr # None /\ tr.box = On(st)
                                    /\ Shown(tr, st) = tr.boot /\ tr.boot \in Nat
                                    /\ ReadBootId(Shown(tr, st)) = tr.boot
BY NoneAssumption DEF Shown, ReadBootId, Trees

\* What a tree in hand may say of the player's own box.
TreeKnown(tr) ==
  tr \in Trees /\ (tr # None /\ tr.box = Home => loaded <= tr.boot /\ tr.boot <= boot[Home])

\* And what one may tell a session, over the stack st.
Tells(s, tr, st) ==
  Shown(tr, st) # None /\ On(st) = box[s]
    => Since(s) <= Shown(tr, st) /\ Shown(tr, st) <= boot[box[s]]

LEMMA HomeTells ==
  ASSUME NEW tr, TreeKnown(tr), NEW s, box[s] = Home, NEW st
  PROVE  Tells(s, tr, st)
BY ShownTyped DEF TreeKnown, Tells, Since

\* How a session's boot id may change in a step.
Well(s) == stamp'[s] \in Nat /\ Since(s) <= stamp'[s] /\ stamp'[s] <= boot[box[s]]

StampsMove ==
  /\ stamp' \in [Ids -> Nat \cup {None}] /\ blind' \subseteq Ids
  /\ \A s \in Ids :
       \/ stamp'[s] = None
       \/ stamp'[s] = stamp[s] /\ (s \in blind' <=> s \in blind)
       \/ s \in Legs(stack') /\ (s \in blind' \/ Well(s))

\* A shell reads its boot id off a tree that may tell it, or is blind.
LEMMA Observed ==
  ASSUME TypeOK, NEW st \in Seq(Ids), stack' = st, NEW s \in Ids \cup {None}, NEW known,
         NEW tr \in Trees, s # None => Tells(s, tr, st), Observe(s, known, tr, st)
  PROVE  /\ StampsMove
         /\ known = None /\ s \in Legs(st) => stamp'[s] = ReadBootId(Shown(tr, st))
         /\ \A i \in Legs(st) : i # s \/ known # None => stamp'[i] = stamp[i]
<1> DEFINE reads == s \in Legs(st) /\ known = None
           seen == Shown(tr, st)
<1>1. /\ stamp' = [i \in Ids |-> IF i \notin Legs(st) THEN None
                                 ELSE IF reads /\ i = s THEN ReadBootId(seen) ELSE stamp[i]]
      /\ blind' = {i \in Legs(st) : IF reads /\ i = s THEN seen = None \/ On(st) # box[s]
                                      ELSE i \in blind}
  BY DEF Observe
<1>2. /\ Legs(st) \subseteq Ids /\ stamp \in [Ids -> Nat \cup {None}] /\ blind \subseteq Ids
      /\ seen \in Nat \cup {None} /\ ReadBootId(seen) \in Nat
      /\ seen # None => ReadBootId(seen) = seen
  BY StackTyped, ShownTyped DEF TypeOK
<1>3. s # None /\ seen # None /\ On(st) = box[s] => Since(s) <= seen /\ seen <= boot[box[s]]
  BY DEF Tells
<1>4. s \in Legs(st) => s # None
  BY <1>2, NoneAssumption DEF Ids
<1> HIDE DEF seen
<1>5. stamp' \in [Ids -> Nat \cup {None}] /\ blind' \subseteq Ids
  BY <1>1, <1>2
<1>6. ASSUME NEW i \in Ids
      PROVE  \/ stamp'[i] = None
             \/ stamp'[i] = stamp[i] /\ (i \in blind' <=> i \in blind)
             \/ i \in Legs(st) /\ (i \in blind' \/ Well(i))
  <2>1. CASE i \notin Legs(st)
    BY <1>1, <2>1
  <2>2. CASE i \in Legs(st) /\ ~(reads /\ i = s)
    BY <1>1, <2>2
  <2>3. CASE i \in Legs(st) /\ reads /\ i = s
    <3>1. stamp'[i] = ReadBootId(seen)
      BY <1>1, <2>3
    <3>2. i \in blind' \/ (seen # None /\ On(st) = box[i])
      BY <1>1, <2>3
    <3>3. seen # None /\ On(st) = box[i] => Well(i)
      BY <1>2, <1>3, <1>4, <2>3, <3>1 DEF Well
    <3> QED
      BY <2>3, <3>2, <3>3
  <2> QED
    BY <2>1, <2>2, <2>3
<1>7. StampsMove
  BY <1>5, <1>6 DEF StampsMove
<1>8. known = None /\ s \in Legs(st) => stamp'[s] = ReadBootId(seen)
  BY <1>1, <1>2
<1>9. \A i \in Legs(st) : i # s \/ known # None => stamp'[i] = stamp[i]
  BY <1>1, <1>2
<1> QED
  BY <1>7, <1>8, <1>9 DEF seen

LEMMA StampsKept ==
  ASSUME TypeOK, UNCHANGED <<stamp, blind>>
  PROVE  StampsMove
BY DEF StampsMove, TypeOK

-----------------------------------------------------------------------------
(* Walking from shell to shell.                                            *)
Lined == {"pulling", "refreshing", "rereading"}

\* What a step asks for, it asks for from a shell it leaves, passes or enters.
PullsMove ==
  \A p \in pulls' : p \in pulls \/ \E st \in Seq(Ids), forLine \in BOOLEAN :
    /\ p = Pull(st, forLine)
    /\ forLine => /\ st = stack /\ phase \notin Lined /\ phase' \in Lined
                  /\ phase' = "pulling" => Entered(stack) = Entered(chain')
    /\ Entered(st) \in Legs(stack) \cup Legs(stack') \cup {None}

LEMMA RebindMoves ==
  ASSUME TypeOK, NEW tr, TreeKnown(tr),
         NEW path \in Seq(Seq(Ids)), path # <<>>, path[1] = stack, Rebind(tr, path),
         \A i \in 1..Len(path) : \/ path[i] = path[Len(path)]
                                 \/ \E k \in 0..Len(stack) : path[i] = SubSeq(stack, 1, k)
  PROVE  /\ stack' = path[Len(path)] /\ stack' \in Seq(Ids)
         /\ TreeKnown(tree') /\ StampsMove /\ PullsMove
<1>0. TypeOK /\ stack \in Seq(Ids) /\ tr \in Trees
  BY DEF TypeOK, TreeKnown
<1> DEFINE n == Len(path)
           home(i) == On(path[i]) = Home /\ On(path[i + 1]) = Home
           crosses(i) == (On(path[i]) = Home) # (On(path[i + 1]) = Home)
           kept == IF \E i \in 1..n-1 : crosses(i) THEN None ELSE tr
<1>1. n \in Nat \ {0} /\ \A i \in 1..n : path[i] \in Seq(Ids)
  OBVIOUS
<1>2. /\ stack' = path[n] /\ tree' = kept
      /\ pulls' = pulls \cup {Pull(path[i + 1], FALSE) : i \in {j \in 1..n-1 : ~home(j)}}
      /\ IF n > 1 /\ home(n - 1) THEN ObserveBootId(kept, path[n])
         ELSE Observe(None, None, kept, path[n])
  BY DEF Rebind
<1>3. stack' = path[n] /\ stack' \in Seq(Ids) /\ path[n] \in Seq(Ids)
  BY <1>1, <1>2
<1>4. TreeKnown(kept) /\ kept \in Trees
  BY DEF TreeKnown, Trees
<1>5. TreeKnown(tree')
  BY <1>2, <1>4
<1>6. StampsMove
  <2> DEFINE s == Entered(path[n])
  <2>1. CASE n > 1 /\ home(n - 1)
    <3>1. On(path[n]) = Home
      BY <1>1, <2>1
    <3>2. s \in Ids \cup {None} /\ (s # None => box[s] = Home)
      BY <1>0, <1>3, <3>1, StackTyped
    <3>3. Observe(s, Held(path[n]), kept, path[n])
      BY <1>2, <2>1 DEF ObserveBootId
    <3> HIDE DEF kept, s
    <3>4. s # None => Tells(s, kept, path[n])
      BY <1>4, <3>2, HomeTells
    <3> QED
      BY <1>0, <1>3, <1>4, <3>2, <3>3, <3>4, Observed
  <2>2. CASE ~(n > 1 /\ home(n - 1))
    <3>1. Observe(None, None, kept, path[n])
      BY <1>2, <2>2
    <3> HIDE DEF kept
    <3> QED
      BY <1>0, <1>3, <1>4, <3>1, Observed
  <2> QED
    BY <2>1, <2>2
<1>7. PullsMove
  <2> SUFFICES ASSUME NEW p \in pulls', p \notin pulls
               PROVE  \E st \in Seq(Ids) :
                        /\ p = Pull(st, FALSE)
                        /\ Entered(st) \in Legs(stack) \cup Legs(stack') \cup {None}
    BY DEF PullsMove
  <2>1. PICK i \in 1..n-1 : p = Pull(path[i + 1], FALSE)
    BY <1>2
  <2> DEFINE st == path[i + 1]
  <2>2. i + 1 \in 1..n /\ st \in Seq(Ids)
    BY <1>1
  <2>3. Entered(st) \in Legs(stack) \cup Legs(stack') \cup {None}
    <3>1. CASE st = path[n]
      BY <1>0, <1>3, <3>1, StackTyped
    <3>2. ASSUME NEW k \in 0..Len(stack), st = SubSeq(stack, 1, k)
          PROVE  Entered(st) \in Legs(stack) \cup {None}
      <4>1. CASE k = 0
        BY <1>0, <3>2, <4>1 DEF Entered
      <4>2. CASE k # 0
        <5>1. k \in 1..Len(stack) /\ k \in 1..k
          BY <1>0, <4>2
        <5>2. Len(st) = k /\ st[k] = stack[k]
          BY <1>0, <3>2, <5>1
        <5>3. st # <<>>
          BY <5>1, <5>2
        <5> QED
          BY <5>1, <5>2, <5>3 DEF Entered, Legs
      <4> QED
        BY <4>1, <4>2
    <3> QED
      BY <1>3, <2>2, <3>1, <3>2
  <2> HIDE DEF st
  <2> QED
    BY <2>1, <2>2, <2>3 DEF st
<1> QED
  BY <1>3, <1>5, <1>6, <1>7

\* Leaving the last n shells, or all of them.
LEMMA PopMoves ==
  ASSUME TypeOK, TreeKnown(tree), NEW n \in Nat, Pop(n)
  PROVE  /\ stack' \in Seq(Ids)
         /\ Len(stack') = IF n <= Len(stack) THEN Len(stack) - n ELSE 0
         /\ \A i \in 1..Len(stack') : stack'[i] = stack[i]
         /\ Legs(stack') \subseteq Legs(stack)
         /\ TreeKnown(tree') /\ StampsMove /\ PullsMove
         /\ \A m \in posts' : m \in posts \/ (m[1] = "end" /\ m \in {"create", "end"} \X Ids)
<1>0. stack \in Seq(Ids) /\ Len(stack) \in Nat
  BY DEF TypeOK
<1> DEFINE k == IF n <= Len(stack) THEN Len(stack) - n ELSE 0
           path == [i \in 1..Len(stack) - k + 1 |-> SubSeq(stack, 1, Len(stack) - i + 1)]
<1>k. k \in 0..Len(stack)
  BY <1>0
<1>1. Rebind(tree, path) /\ posts' = posts \cup {<<"end", stack[i]>> : i \in k+1..Len(stack)}
  BY DEF Pop
<1> HIDE DEF k
<1>2. \A j \in 0..Len(stack) : SubSeq(stack, 1, j) \in Seq(Ids)
  BY <1>0
<1>3. path \in Seq(Seq(Ids)) /\ Len(path) = Len(stack) - k + 1
  <2>1. \A i \in 1..Len(stack) - k + 1 : Len(stack) - i + 1 \in 0..Len(stack)
    BY <1>0, <1>k
  <2>2. Len(stack) - k + 1 \in Nat
    BY <1>0, <1>k
  <2>3. \A i \in 1..Len(stack) - k + 1 : SubSeq(stack, 1, Len(stack) - i + 1) \in Seq(Ids)
    BY <1>2, <2>1
  <2>4. path \in [1..Len(stack) - k + 1 -> Seq(Ids)]
    BY <2>3
  <2> HIDE DEF path
  <2> QED
    BY <2>2, <2>4
<1>4. path[1] = stack /\ path[Len(path)] = SubSeq(stack, 1, k) /\ path # <<>>
  <2>1. SubSeq(stack, 1, Len(stack)) = stack
    BY <1>0
  <2>2. path[1] = SubSeq(stack, 1, Len(stack) - 1 + 1)
    BY <1>0, <1>k
  <2>3. path[Len(stack) - k + 1] = SubSeq(stack, 1, Len(stack) - (Len(stack) - k + 1) + 1)
    BY <1>0, <1>k
  <2>4. Len(stack) - 1 + 1 = Len(stack) /\ Len(stack) - (Len(stack) - k + 1) + 1 = k
    BY <1>0, <1>k
  <2> HIDE DEF path
  <2>5. path # <<>>
    BY <1>0, <1>3, <1>k
  <2> QED
    BY <1>3, <2>1, <2>2, <2>3, <2>4, <2>5
<1>5. \A i \in 1..Len(path) : \E j \in 0..Len(stack) : path[i] = SubSeq(stack, 1, j)
  <2> SUFFICES ASSUME NEW i \in 1..Len(path)
               PROVE  \E j \in 0..Len(stack) : path[i] = SubSeq(stack, 1, j)
    OBVIOUS
  <2>1. i \in 1..Len(stack) - k + 1
    BY <1>3
  <2>2. path[i] = SubSeq(stack, 1, Len(stack) - i + 1)
    BY <2>1
  <2>3. Len(stack) - i + 1 \in 0..Len(stack)
    BY <1>0, <1>k, <2>1
  <2> HIDE DEF path
  <2> QED
    BY <2>2, <2>3
<1> HIDE DEF path
<1>6. /\ stack' = path[Len(path)] /\ stack' \in Seq(Ids)
      /\ TreeKnown(tree') /\ StampsMove /\ PullsMove
  BY <1>1, <1>3, <1>4, <1>5, RebindMoves
<1>7. Len(stack') = k /\ \A i \in 1..k : stack'[i] = stack[i]
  BY <1>0, <1>4, <1>6, <1>k
<1>8. Legs(stack') \subseteq Legs(stack)
  BY <1>0, <1>7, <1>k DEF Legs
<1>9. \A m \in posts' : m \in posts \/ (m[1] = "end" /\ m \in {"create", "end"} \X Ids)
  <2>1. \A i \in k+1..Len(stack) : stack[i] \in Ids
    BY <1>0, <1>k
  <2> QED
    BY <1>1, <2>1
<1> QED
  BY <1>6, <1>7, <1>8, <1>9 DEF k

\* Entering one more shell.
LEMMA PushMoves ==
  ASSUME TypeOK, TreeKnown(tree), NEW s \in Ids, Rebind(tree, <<stack, Append(stack, s)>>)
  PROVE  /\ stack' = Append(stack, s) /\ stack' \in Seq(Ids)
         /\ Legs(stack') = Legs(stack) \cup {s}
         /\ TreeKnown(tree') /\ StampsMove /\ PullsMove
<1>0. stack \in Seq(Ids) /\ Append(stack, s) \in Seq(Ids)
  BY DEF TypeOK
<1> DEFINE path == <<stack, Append(stack, s)>>
<1>1. path \in Seq(Seq(Ids)) /\ Len(path) = 2 /\ path[1] = stack
      /\ path[2] = Append(stack, s) /\ path # <<>>
  BY <1>0
<1>2. stack = SubSeq(stack, 1, Len(stack)) /\ Len(stack) \in 0..Len(stack)
  BY <1>0
<1>3. \A i \in 1..Len(path) : \/ path[i] = path[Len(path)]
                              \/ \E k \in 0..Len(stack) : path[i] = SubSeq(stack, 1, k)
  <2>1. \A i \in 1..Len(path) : i = 1 \/ i = Len(path)
    BY <1>1
  <2> HIDE DEF path
  <2> QED
    BY <1>1, <1>2, <2>1
<1>4. Rebind(tree, path)
  OBVIOUS
<1> HIDE DEF path
<1>5. /\ stack' = path[Len(path)] /\ stack' \in Seq(Ids)
      /\ TreeKnown(tree') /\ StampsMove /\ PullsMove
  BY <1>1, <1>3, <1>4, RebindMoves
<1>6. stack' = Append(stack, s)
  BY <1>1, <1>5
<1>7. Legs(stack') = Legs(stack) \cup {s}
  BY <1>0, <1>6 DEF Legs
<1> QED
  BY <1>5, <1>6, <1>7

-----------------------------------------------------------------------------
(* Trees arriving, and lines beginning to run.                             *)
\* The trees a pull may bring.
Seen(p) == p.since..boot[p.box] \cup {None}

LEMMA ArrivingTells ==
  ASSUME IInv, NEW p \in pulls, NEW seen \in Seen(p), NEW tr \in {tree, Landed(p, seen)}
  PROVE  /\ TreeKnown(tr) /\ tr \in Trees /\ p.by \in Ids \cup {None}
         /\ tr = Landed(p, seen) /\ p.by # None => Tells(p.by, tr, stack)
<1>1. TypeOK /\ PullsSeeNoPast /\ HomeTreesSince /\ stack \in Seq(Ids)
  BY DEF IInv, TypeOK
<1>2. /\ p.box \in Boxes /\ p.by \in Ids \cup {None} /\ p.since \in Nat /\ boot[p.box] \in Nat
      /\ p.box = IF p.by = None THEN Home ELSE box[p.by]
      /\ From(p.by) <= p.since /\ loaded \in Nat
  BY <1>1 DEF TypeOK, PullsSeeNoPast
<1>3. /\ p.box = Home => loaded <= p.since
      /\ p.by # None => Since(p.by) <= p.since /\ Since(p.by) \in Nat
  BY <1>1, <1>2 DEF From, Since, TypeOK
<1>4. seen = None \/ (seen \in Nat /\ p.since <= seen /\ seen <= boot[p.box])
  BY <1>2 DEF Seen
<1>5. TreeKnown(tree) /\ tree \in Trees
  BY <1>1 DEF TypeOK, HomeTreesSince, TreeKnown, Trees
<1>6. p.box = Home /\ seen # None => loaded <= seen /\ seen <= boot[Home]
  BY <1>2, <1>3, <1>4
<1>7. TreeKnown(Landed(p, seen)) /\ Landed(p, seen) \in Trees
  BY <1>2, <1>4, <1>5, <1>6 DEF Landed, TreeKnown, Trees
<1>8. ASSUME p.by # None, tr = Landed(p, seen), Shown(tr, stack) # None, On(stack) = box[p.by]
      PROVE  Since(p.by) <= Shown(tr, stack) /\ Shown(tr, stack) <= boot[box[p.by]]
  <2>1. On(stack) = p.box /\ p.box = box[p.by]
    BY <1>2, <1>8
  <2>2. tr = IF seen = None THEN None ELSE [box |-> p.box, boot |-> seen]
    BY <1>8, <2>1 DEF Landed
  <2>3. seen # None /\ Shown(tr, stack) = seen
    BY <1>8, <2>2 DEF Shown
  <2> QED
    BY <1>2, <1>3, <1>4, <1>8, <2>1, <2>3
<1> QED
  BY <1>2, <1>5, <1>7, <1>8 DEF Tells

LEMMA CaptureMoves ==
  ASSUME TypeOK, NEW st \in Seq(Ids), NEW cur \in Ids \cup {None}, NEW known \in Nat \cup {None},
         NEW tr \in Trees, Capture(st, cur, known, tr)
  PROVE  /\ chain' \in Seq(Ids) /\ mine' \in Nat \cup {None} /\ view' \in Nat \cup {None}
         /\ evicted' \in BOOLEAN /\ phase' \in {"asking", "heard"}
         /\ cur = Entered(st) => chain' = st
         /\ phase' = "heard" => ~evicted'
         /\ evicted' => \E s \in Legs(chain') : row[s] = "ended"
         /\ mine' = Known(cur, known, tr, st) /\ view' = Shown(tr, st)
<1>1. /\ mine' = Known(cur, known, tr, st) /\ view' = Shown(tr, st)
      /\ chain' = IF cur = None THEN <<>>
                  ELSE Append(IF st = <<>> THEN <<>> ELSE SubSeq(st, 1, Len(st) - 1), cur)
      /\ evicted' = (AsksOf(chain') /\ \E s \in Legs(chain') : row[s] = "ended")
      /\ phase' = IF AsksOf(chain') \/ ftp # None THEN "asking" ELSE "heard"
  BY DEF Capture
<1>2. view' \in Nat \cup {None} /\ mine' \in Nat \cup {None}
  BY <1>1, ShownTyped DEF Known
<1>3. chain' \in Seq(Ids)
  <2>1. CASE cur = None
    BY <1>1, <2>1
  <2>2. CASE cur # None /\ st = <<>>
    BY <1>1, <2>2
  <2>3. CASE cur # None /\ st # <<>>
    <3>1. Len(st) - 1 \in 0..Len(st) /\ SubSeq(st, 1, Len(st) - 1) \in Seq(Ids)
      BY <2>3
    <3> QED
      BY <1>1, <2>3, <3>1
  <2> QED
    BY <2>1, <2>2, <2>3
<1>4. ASSUME cur = Entered(st)
      PROVE  chain' = st
  <2>1. CASE st = <<>>
    BY <1>1, <1>4, <2>1, StackTyped
  <2>2. CASE st # <<>>
    <3>1. cur = st[Len(st)] /\ cur # None /\ Len(st) \in Nat \ {0}
      BY <1>4, <2>2, StackTyped DEF Entered
    <3>2. chain' = Append(SubSeq(st, 1, Len(st) - 1), st[Len(st)])
      BY <1>1, <2>2, <3>1
    <3>3. Append(SubSeq(st, 1, Len(st) - 1), st[Len(st)]) = st
      <4> DEFINE k == Len(st) - 1
                 u == SubSeq(st, 1, k)
      <4>1. k \in 0..Len(st) /\ Len(st) = k + 1 /\ st[k + 1] \in Ids
        BY <3>1
      <4> HIDE DEF k
      <4>2. u \in Seq(Ids) /\ Len(u) = k /\ \A i \in 1..k : u[i] = st[i]
        BY <4>1
      <4> HIDE DEF u
      <4>3. Append(u, st[k + 1]) = st
        BY <4>1, <4>2
      <4> QED
        BY <4>1, <4>3 DEF u, k
    <3> QED
      BY <3>2, <3>3
  <2> QED
    BY <2>1, <2>2
<1> QED
  BY <1>1, <1>2, <1>3, <1>4

\* What any tree's arrival does to the shells.
LEMMA ArrivalMoves ==
  ASSUME IInv, NEW p \in pulls, NEW seen \in Seen(p), Comes(p, seen)
  PROVE  stack' = stack /\ TreeKnown(tree') /\ StampsMove /\ PullsMove
<1>1. /\ TypeOK /\ PullsSeeNoPast /\ stack' = stack /\ stack \in Seq(Ids) /\ chain \in Seq(Ids)
      /\ pulls' = pulls \ {p} /\ tree' \in {tree, Landed(p, seen)}
  BY DEF IInv, Comes, Arrive, LineArrives, Refreshed, Reread, TypeOK, shell
<1>2. TreeKnown(tree') /\ tree' \in Trees /\ p.by \in Ids \cup {None}
  <2> DEFINE tr == tree'
  <2>1. tr \in {tree, Landed(p, seen)}
    BY <1>1
  <2> HIDE DEF tr
  <2>2. TreeKnown(tr) /\ tr \in Trees /\ p.by \in Ids \cup {None}
    BY <2>1, ArrivingTells
  <2> QED
    BY <2>2 DEF tr
<1>3. PullsMove
  BY <1>1 DEF PullsMove
<1>4. CASE UNCHANGED <<stamp, blind>>
  BY <1>1, <1>2, <1>3, <1>4, StampsKept
<1>5. ASSUME NEW known, tree' = Landed(p, seen), Observe(p.by, known, tree', stack)
      PROVE  StampsMove
  <2> DEFINE tr == Landed(p, seen)
  <2>1. tr \in Trees /\ (p.by # None => Tells(p.by, tr, stack))
    BY ArrivingTells
  <2>2. Observe(p.by, known, tr, stack)
    BY <1>5
  <2> HIDE DEF tr
  <2> QED
    BY <1>1, <1>2, <2>1, <2>2, Observed
<1>6. CASE Arrive(p, seen)
  <2>1. CASE p.by = Entered(stack)
    <3>1. tree' = Landed(p, seen) /\ ObserveBootId(tree', stack)
      BY <1>6, <2>1 DEF Arrive
    <3> QED
      BY <1>1, <1>2, <1>3, <1>5, <2>1, <3>1 DEF ObserveBootId
  <2> QED
    BY <1>4, <1>6, <2>1 DEF Arrive
<1>7. CASE LineArrives(p, seen)
  <2>1. tree' = Landed(p, seen) /\ p.line /\ phase = "pulling"
        /\ Observe(Entered(chain), mine, tree', stack)
    BY <1>7 DEF LineArrives, Capture
  <2>2. p.by = Entered(chain)
    BY <1>1, <2>1 DEF PullsSeeNoPast
  <2> QED
    BY <1>1, <1>2, <1>3, <1>5, <2>1, <2>2
<1> QED
  BY <1>4, <1>6, <1>7 DEF Comes, Refreshed, Reread, shell

LEMMA TypeMoves ==
  ASSUME IInv, Type
  PROVE  /\ stack' = stack /\ tree' = tree /\ TreeKnown(tree') /\ StampsMove /\ PullsMove
         /\ Entered(stack) \in Ids \cup {None} /\ Held(stack) \in Nat \cup {None}
         /\ On(stack) = Home /\ Entered(stack) # None => Tells(Entered(stack), tree, stack)
<1>1. TypeOK /\ HomeTreesSince /\ stack \in Seq(Ids)
  BY DEF IInv, TypeOK
<1>2. stack' = stack /\ tree' = tree /\ TreeKnown(tree) /\ tree \in Trees
  BY <1>1 DEF Type, TypeOK, HomeTreesSince, TreeKnown, Trees
<1>3. /\ Entered(stack) \in Ids \cup {None} /\ (stack = <<>> <=> Entered(stack) = None)
      /\ On(stack) = IF Entered(stack) = None THEN Home ELSE box[Entered(stack)]
      /\ Entered(stack) \in Legs(stack) \cup {None}
  BY <1>1, StackTyped
<1>4. Held(stack) \in Nat \cup {None}
  BY <1>1, <1>3 DEF Held, TypeOK
<1>5. On(stack) = Home /\ Entered(stack) # None => Tells(Entered(stack), tree, stack)
  BY <1>2, <1>3, HomeTells
<1>6. CASE On(stack) # Home
  <2>1. /\ pulls' = pulls \cup {Pull(stack, TRUE)} /\ phase = "idle" /\ phase' = "pulling"
        /\ chain' = stack /\ UNCHANGED <<stamp, blind>>
    BY <1>6 DEF Type
  <2>2. PullsMove
    BY <1>1, <1>3, <2>1 DEF PullsMove, Lined
  <2> QED
    BY <1>1, <1>2, <1>3, <1>4, <1>5, <2>1, <2>2, StampsKept
<1>7. CASE On(stack) = Home
  <2>1. Observe(Entered(stack), Held(stack), tree, stack) /\ UNCHANGED pulls
    BY <1>7 DEF Type, Capture
  <2>2. PullsMove
    BY <2>1 DEF PullsMove
  <2> QED
    BY <1>1, <1>2, <1>3, <1>4, <1>5, <1>7, <2>1, <2>2, Observed
<1> QED
  BY <1>6, <1>7

\* The rebuilt stack.
LEMMA RebuildMoves ==
  ASSUME IInv, Rebuild
  PROVE  /\ stack' \in Seq(Ids) /\ TreeKnown(tree') /\ StampsMove /\ PullsMove
         /\ Legs(stack') \subseteq listed
<1>1. TypeOK /\ HomeTreesSince /\ stack \in Seq(Ids) /\ listed \subseteq Ids
      /\ TreeKnown(tree) /\ tree \in Trees
  BY DEF IInv, TypeOK, HomeTreesSince, TreeKnown, Trees
<1>2. PICK sorted \in [1..Cardinality(Hops(listed)) -> Hops(listed)] : Resume(sorted)
  BY DEF Rebuild
<1> DEFINE s == Entered(sorted)
           atHome == On(sorted) = Home /\ On(stack) = Home
           read == atHome /\ s # None
<1>3. sorted \in Seq(Ids) /\ \A i \in 1..Len(sorted) : sorted[i] \in listed
  <2>1. IsFiniteSet(Hops(listed)) /\ Hops(listed) \subseteq listed
    <3>1. IsFiniteSet(Ids)
      BY FS_Interval, BoundsAssumption DEF Ids
    <3> QED
      BY <1>1, <3>1, FS_Subset DEF Hops
  <2>2. Cardinality(Hops(listed)) \in Nat
    BY <2>1, FS_CardinalityType
  <2> HIDE DEF s
  <2> QED
    BY <1>1, <1>2, <2>1, <2>2
<1>4. /\ stack' = sorted
      /\ tree' = IF (On(sorted) = Home) = (On(stack) = Home) THEN tree ELSE None
      /\ pulls' = IF atHome THEN pulls ELSE pulls \cup {Pull(sorted, FALSE)}
      /\ stamp' = [i \in Ids |-> IF read /\ i = s THEN ReadBootId(Shown(tree, sorted)) ELSE None]
      /\ blind' = IF read /\ Shown(tree, sorted) = None THEN {s} ELSE {}
  BY <1>2 DEF Resume
<1>5. TreeKnown(tree')
  BY <1>1, <1>4 DEF TreeKnown, Trees
<1>6. s \in Ids \cup {None} /\ (s # None => s \in Legs(sorted) /\ On(sorted) = box[s])
  BY <1>1, <1>3, StackTyped
<1>7. ReadBootId(Shown(tree, sorted)) \in Nat
      /\ (Shown(tree, sorted) # None => ReadBootId(Shown(tree, sorted)) = Shown(tree, sorted))
  BY <1>1, ShownTyped
<1>8. PullsMove
  BY <1>3, <1>4, <1>6 DEF PullsMove
<1>9. StampsMove
  <2>1. stamp' \in [Ids -> Nat \cup {None}] /\ blind' \subseteq Ids
    BY <1>4, <1>6, <1>7
  <2>2. \A i \in Ids : stamp'[i] = None \/ (i = s /\ read)
    BY <1>4
  <2>3. ASSUME read, s \notin blind' PROVE Well(s)
    <3>1. stamp'[s] = Shown(tree, sorted) /\ Shown(tree, sorted) # None /\ stamp'[s] \in Nat
      BY <1>4, <1>6, <1>7, <2>3
    <3>2. Tells(s, tree, sorted) /\ On(sorted) = box[s]
      BY <1>1, <1>6, <2>3, HomeTells
    <3> HIDE DEF s
    <3> QED
      BY <3>1, <3>2 DEF Tells, Well
  <2> HIDE DEF s, atHome
  <2> QED
    BY <1>4, <1>6, <2>1, <2>2, <2>3 DEF StampsMove
<1>10. Legs(stack') \subseteq listed
  BY <1>3, <1>4 DEF Legs
<1> QED
  BY <1>3, <1>4, <1>5, <1>8, <1>9, <1>10

-----------------------------------------------------------------------------
(* What any step does to the shells, the rows and the wire.                *)
\* The steps that leave shells.
Leaves == Exit \/ StepOff \/ (Judge /\ phase' = "idle")

LEMMA LeavesPop ==
  ASSUME TypeOK, Leaves
  PROVE  \E n \in Nat : Pop(n)
<1>1. CASE Exit
  BY <1>1 DEF Exit
<1>2. CASE StepOff
  <2>1. PICK k \in 0..Len(chain) : Pop(Len(chain) - k)
    BY <1>2 DEF StepOff
  <2>2. Len(chain) \in Nat
    BY DEF TypeOK
  <2>3. Len(chain) - k \in Nat
    BY <2>1, <2>2
  <2> QED
    BY <2>1, <2>3
<1>3. CASE Judge /\ phase' = "idle"
  <2>1. lost \in Nat /\ 1 \in Nat
    BY DEF TypeOK
  <2>2. Pop(lost) \/ Pop(1)
    BY <1>3 DEF Judge
  <2> QED
    BY <2>1, <2>2
<1> QED
  BY <1>1, <1>2, <1>3 DEF Leaves

LEMMA ShellMoves ==
  ASSUME IInv, Next
  PROVE  stack' \in Seq(Ids) /\ TreeKnown(tree') /\ StampsMove /\ PullsMove
<1>1. TypeOK /\ stack \in Seq(Ids) /\ TreeKnown(tree) /\ Awaited
  BY DEF IInv, TypeOK, HomeTreesSince, TreeKnown, Trees
<1>2. CASE UNCHANGED <<stack, stamp, blind, tree, pulls>>
  BY <1>1, <1>2, StampsKept DEF PullsMove
<1>3. CASE Answered \/ Failed
  <2>1. PICK p \in pulls : \E seen \in Seen(p) : Comes(p, seen)
    BY <1>3 DEF Answered, Failed, Seen
  <2> QED
    BY <1>1, <2>1, ArrivalMoves
<1>4. CASE Type
  BY <1>1, <1>4, TypeMoves
<1>5. CASE Heard \/ Unheard \/ (Judge /\ phase' = "running") \/ HearFtp \/ Plain \/ Write
  <2>1. UNCHANGED <<stack, stamp, blind, tree, pulls>>
    BY <1>5 DEF Heard, Unheard, Judge, HearFtp, Plain, Write, Prompt, shell
  <2> QED
    BY <1>2, <2>1
<1>6. CASE Quit \/ Login \/ NoEntry \/ Listed
  <2>1. UNCHANGED <<stack, stamp, blind, tree, pulls>>
    BY <1>6 DEF Quit, Login, NoEntry, Listed, shell
  <2> QED
    BY <1>2, <2>1
<1>7. CASE Refetch \/ Reads
  <2>1. /\ pulls' = pulls \cup {Pull(stack, TRUE)} /\ phase \in {"writing", "running"}
        /\ phase' \in {"refreshing", "rereading"} /\ UNCHANGED <<stack, stamp, blind, tree>>
    BY <1>7 DEF Refetch, Reads, Await, shell
  <2>2. Entered(stack) \in Legs(stack) \cup {None}
    BY <1>1, StackTyped
  <2>3. PullsMove
    BY <1>1, <2>1, <2>2 DEF PullsMove, Lined
  <2> QED
    BY <1>1, <2>1, <2>3, StampsKept
<1>8. CASE Leaves
  BY <1>1, <1>8, LeavesPop, PopMoves
<1>9. CASE PushSu
  BY <1>1, <1>9, PushMoves DEF PushSu
<1>10. CASE Enter
  <2>1. CASE kind[opened] = "hop"
    <3>1. Rebind(tree, <<stack, Append(stack, opened)>>) /\ opened \in Ids
      BY <1>1, <1>10, <2>1 DEF Enter, Awaited
    <3> QED
      BY <1>1, <3>1, PushMoves
  <2>2. CASE kind[opened] # "hop"
    BY <1>2, <1>10, <2>2 DEF Enter
  <2> QED
    BY <2>1, <2>2
<1>11. CASE Reload
  <2>1. /\ stack' = <<>> /\ tree' = None /\ blind' = {} /\ stamp' = [s \in Ids |-> None]
        /\ pulls' = {Pull(<<>>, FALSE)}
    BY <1>11 DEF Reload
  <2>2. Entered(<<>>) = None /\ <<>> \in Seq(Ids)
    BY DEF Entered
  <2>3. PullsMove
    BY <2>1, <2>2 DEF PullsMove
  <2>4. StampsMove
    BY <2>1 DEF StampsMove
  <2> QED
    BY <2>1, <2>2, <2>3, <2>4 DEF TreeKnown, Trees
<1>12. CASE Rebuild
  BY <1>12, RebuildMoves
<1>13. CASE Elsewhere
  <2>1. UNCHANGED <<stack, stamp, blind, tree, pulls>>
    BY <1>13 DEF Elsewhere, Land, Admit, EndElsewhere, Sweep, WriteBootId, shell
  <2> QED
    BY <1>2, <2>1
<1>14. Judge => phase' \in {"idle", "running"}
  BY DEF Judge, Prompt
<1> QED
  BY <1>3, <1>4, <1>5, <1>6, <1>7, <1>8, <1>9, <1>10, <1>11, <1>12, <1>13, <1>14
     DEF Next, Tab, Leaves

\* Where the legs of the stack after a step come from.
LEMMA LegsMove ==
  ASSUME IInv, Next
  PROVE  \A s \in Legs(stack') :
           \/ s \in Legs(stack) \/ s \in listed
           \/ s = opened /\ phase = "admitted" /\ phase' = "idle"
           \/ s = opened + 1 /\ opened' = s /\ phase = "su" /\ phase' = "writing"
<1>1. TypeOK /\ stack \in Seq(Ids) /\ TreeKnown(tree) /\ Awaited
  BY DEF IInv, TypeOK, HomeTreesSince, TreeKnown, Trees
<1>2. CASE UNCHANGED stack
  BY <1>2
<1>3. CASE Answered \/ Failed \/ Type \/ Heard \/ Unheard \/ (Judge /\ phase' = "running")
  <2>1. UNCHANGED stack
    BY <1>3 DEF Answered, Failed, Comes, Arrive, LineArrives, Refreshed, Reread, Type, Heard,
       Unheard, Judge, Prompt, shell
  <2> QED
    BY <1>2, <2>1
<1>4. CASE HearFtp \/ Plain \/ Write \/ Quit \/ Login \/ NoEntry \/ Listed \/ Refetch \/ Reads
  <2>1. UNCHANGED stack
    BY <1>4 DEF HearFtp, Plain, Write, Quit, Login, NoEntry, Listed, Refetch, Reads, shell
  <2> QED
    BY <1>2, <2>1
<1>5. CASE Leaves
  BY <1>1, <1>5, LeavesPop, PopMoves
<1>6. CASE PushSu
  <2>1. Legs(stack') = Legs(stack) \cup {opened + 1}
    BY <1>1, <1>6, PushMoves DEF PushSu
  <2>2. phase = "su" /\ phase' = "writing" /\ opened' = opened + 1
    BY <1>6 DEF PushSu, Await
  <2> QED
    BY <2>1, <2>2
<1>7. CASE Enter
  <2>1. CASE kind[opened] = "hop"
    <3>1. /\ Rebind(tree, <<stack, Append(stack, opened)>>) /\ opened \in Ids
          /\ phase = "admitted" /\ phase' = "idle"
      BY <1>1, <1>7, <2>1 DEF Enter, Awaited, Prompt
    <3>2. Legs(stack') = Legs(stack) \cup {opened}
      BY <1>1, <3>1, PushMoves
    <3> QED
      BY <3>1, <3>2
  <2>2. CASE kind[opened] # "hop"
    BY <1>2, <1>7, <2>2 DEF Enter
  <2> QED
    BY <2>1, <2>2
<1>8. CASE Reload
  BY <1>8 DEF Reload, Legs
<1>9. CASE Rebuild
  BY <1>9, RebuildMoves
<1>10. CASE Elsewhere
  <2>1. UNCHANGED stack
    BY <1>10 DEF Elsewhere, Land, Admit, EndElsewhere, Sweep, WriteBootId, shell
  <2> QED
    BY <1>2, <2>1
<1>11. Judge => phase' \in {"idle", "running"}
  BY DEF Judge, Prompt
<1> QED
  BY <1>3, <1>4, <1>5, <1>6, <1>7, <1>8, <1>9, <1>10, <1>11 DEF Next, Tab, Leaves

\* A row comes when it is asked for, and no row comes twice; an ended row
\* stays.
RowMoves(s) ==
  \/ row'[s] = row[s] /\ arrived'[s] = arrived[s]
  \/ row[s] = "open" /\ row'[s] = "ended" /\ arrived'[s] = arrived[s]
  \/ /\ row[s] = "none" /\ row'[s] = "open" /\ arrived'[s] = boot[box[s]]
     /\ \/ s = opened /\ phase = "login" /\ phase' = "admitted"
        \/ <<"create", s>> \in posts /\ posts' = posts \ {<<"create", s>>}

LEMMA Inserted ==
  ASSUME TypeOK, NEW s \in Ids, Insert(s)
  PROVE  /\ row' \in [Ids -> {"none", "open", "ended"}]
         /\ born' \in [Ids -> Nat] /\ arrived' \in [Ids -> Nat]
         /\ row'[s] = "open" /\ arrived'[s] = boot[box[s]]
         /\ \A i \in Ids \ {s} : row'[i] = row[i] /\ arrived'[i] = arrived[i]
<1>1. Cardinality({i \in Ids : row[i] # "none"}) + 1 \in Nat
  <2>1. IsFiniteSet({i \in Ids : row[i] # "none"})
    <3>1. IsFiniteSet(Ids)
      BY FS_Interval, BoundsAssumption DEF Ids
    <3> QED
      BY <3>1, FS_Subset
  <2> QED
    BY <2>1, FS_CardinalityType
<1>2. boot[box[s]] \in Nat
  BY DEF TypeOK
<1> QED
  BY <1>1, <1>2 DEF Insert, TypeOK

\* A boot id grows.
BootsGrow ==
  /\ boot' \in [Boxes -> Nat] /\ swept' \subseteq Boxes /\ reboots' \in 0..MaxMishaps
  /\ \A b \in Boxes : boot[b] <= boot'[b]

LEMMA BootsMove ==
  ASSUME TypeOK, NEW b \in Boxes, Sweep(b) \/ WriteBootId(b)
  PROVE  BootsGrow
<1>1. CASE Sweep(b)
  <2>1. /\ boot' = boot /\ swept' = swept \cup {b}
        /\ reboots + reloads < MaxMishaps /\ reboots' = reboots + 1
    BY <1>1 DEF Sweep
  <2>2. reboots' \in 0..MaxMishaps
    BY <2>1, BoundsAssumption DEF TypeOK
  <2> QED
    BY <2>1, <2>2 DEF BootsGrow, TypeOK
<1>2. CASE WriteBootId(b)
  <2>1. boot' = [boot EXCEPT ![b] = @ + 1] /\ swept' = swept \ {b} /\ reboots' = reboots
    BY <1>2 DEF WriteBootId
  <2>2. boot' \in [Boxes -> Nat] /\ \A c \in Boxes : boot[c] <= boot'[c]
    BY <2>1 DEF TypeOK
  <2>3. swept' \subseteq Boxes /\ reboots' \in 0..MaxMishaps
    BY <2>1 DEF TypeOK
  <2> QED
    BY <2>2, <2>3 DEF BootsGrow
<1> QED
  BY <1>1, <1>2

LEMMA ServerMoves ==
  ASSUME IInv, Next
  PROVE  /\ \A s \in Ids : RowMoves(s)
         /\ row' \in [Ids -> {"none", "open", "ended"}]
         /\ born' \in [Ids -> Nat] /\ arrived' \in [Ids -> Nat]
         /\ BootsGrow /\ UNCHANGED <<box, kind>> /\ (UNCHANGED loaded \/ Reload)
<1>1. TypeOK /\ Awaited /\ RowsToCome
  BY DEF IInv
<1>0. /\ born \in [Ids -> Nat] /\ arrived \in [Ids -> Nat] /\ boot \in [Boxes -> Nat]
      /\ row \in [Ids -> {"none", "open", "ended"}]
      /\ swept \subseteq Boxes /\ reboots \in 0..MaxMishaps /\ \A b \in Boxes : boot[b] <= boot[b]
  BY <1>1 DEF TypeOK
<1>2. CASE UNCHANGED <<row, born, arrived, world, box, kind>> /\ (UNCHANGED loaded \/ Reload)
  BY <1>0, <1>2 DEF RowMoves, BootsGrow, world
<1>3. CASE Tab
  <2>1. CASE Answered \/ Failed \/ Type \/ Heard \/ Unheard \/ Judge \/ HearFtp
    <3>1. UNCHANGED <<row, born, arrived, world, box, kind, loaded>>
      BY <2>1 DEF Answered, Failed, Comes, Arrive, LineArrives, Refreshed, Reread, Type, Heard,
         Unheard, Judge, HearFtp, fates, server, page
    <3> QED
      BY <1>2, <3>1
  <2>2. CASE Plain \/ Write \/ Refetch \/ StepOff \/ Exit \/ Quit \/ Reads \/ PushSu \/ Login
             \/ Enter \/ NoEntry
    <3>1. UNCHANGED <<row, born, arrived, world, box, kind, loaded>>
      BY <2>2 DEF Plain, Write, Refetch, StepOff, Exit, Quit, Reads, PushSu, Login, Enter,
         NoEntry, fates, server, page
    <3> QED
      BY <1>2, <3>1
  <2>3. CASE Reload \/ Listed \/ Rebuild
    <3>1. UNCHANGED <<row, born, arrived, world, box, kind>> /\ (UNCHANGED loaded \/ Reload)
      BY <2>3 DEF Reload, Listed, Rebuild, fates, server
    <3> QED
      BY <1>2, <3>1
  <2> QED
    BY <1>3, <2>1, <2>2, <2>3 DEF Tab
<1>4. ASSUME NEW m \in posts, Land(m)
      PROVE  /\ \A s \in Ids : RowMoves(s)
             /\ row' \in [Ids -> {"none", "open", "ended"}]
             /\ born' \in [Ids -> Nat] /\ arrived' \in [Ids -> Nat]
             /\ UNCHANGED <<world, box, kind, loaded>>
  <2>1. m[2] \in Ids /\ (m[1] = "create" => m = <<"create", m[2]>>)
    BY <1>1 DEF TypeOK
  <2>2. posts' = posts \ {m} /\ UNCHANGED <<world, box, kind, loaded>>
    BY <1>4 DEF Land, fates, page
  <2>3. CASE m[1] = "create"
    <3>1. Insert(m[2]) /\ row[m[2]] = "none"
      BY <1>1, <1>4, <2>1, <2>3 DEF Land, RowsToCome
    <3> QED
      BY <1>1, <2>1, <2>2, <2>3, <3>1, Inserted DEF RowMoves
  <2>4. CASE m[1] # "create"
    BY <1>1, <1>4, <2>1, <2>2, <2>4 DEF Land, RowMoves, TypeOK
  <2> QED
    BY <2>3, <2>4
<1>5. CASE Admit
  <2>1. Insert(opened) /\ opened \in Ids /\ row[opened] = "none" /\ phase = "login"
        /\ phase' = "admitted"
    BY <1>1, <1>5 DEF Admit, Awaited, Await
  <2>2. UNCHANGED <<world, box, kind, loaded>>
    BY <1>5 DEF Admit, fates, page
  <2>3. /\ \A s \in Ids : RowMoves(s)
        /\ row' \in [Ids -> {"none", "open", "ended"}]
        /\ born' \in [Ids -> Nat] /\ arrived' \in [Ids -> Nat]
    BY <1>1, <2>1, Inserted DEF RowMoves
  <2> QED
    BY <1>0, <2>2, <2>3 DEF BootsGrow, world
<1>6. ASSUME NEW s \in Ids, EndElsewhere(s)
      PROVE  /\ \A i \in Ids : RowMoves(i)
             /\ row' \in [Ids -> {"none", "open", "ended"}]
             /\ UNCHANGED <<world, box, kind, loaded, born, arrived>>
  BY <1>1, <1>6 DEF EndElsewhere, RowMoves, TypeOK, fates, page
<1>7. ASSUME NEW b \in Boxes, Sweep(b) \/ WriteBootId(b)
      PROVE  /\ \A i \in Ids : RowMoves(i)
             /\ row' \in [Ids -> {"none", "open", "ended"}]
             /\ BootsGrow /\ UNCHANGED <<box, kind, loaded, born, arrived>>
  <2>1. UNCHANGED <<box, kind, loaded, born, arrived>>
    BY <1>7 DEF Sweep, WriteBootId, fates, page, server
  <2>2. BootsGrow
    BY <1>1, <1>7, BootsMove
  <2>3. \A i \in Ids : RowMoves(i) /\ row'[i] \in {"none", "open", "ended"}
    BY <1>1, <1>7, <2>1 DEF Sweep, WriteBootId, server, RowMoves, TypeOK
  <2>4. row' \in [Ids -> {"none", "open", "ended"}]
    BY <1>0, <1>7, <2>3 DEF Sweep, WriteBootId, server
  <2> QED
    BY <2>1, <2>2, <2>3, <2>4
<1>8. CASE Elsewhere
  <2>1. CASE \E m \in posts : Land(m)
    BY <1>0, <1>4, <2>1 DEF BootsGrow, world
  <2>2. CASE \E s \in Ids : EndElsewhere(s)
    BY <1>0, <1>6, <2>2 DEF BootsGrow, world
  <2>3. CASE \E b \in Boxes : Sweep(b) \/ WriteBootId(b)
    BY <1>0, <1>7, <2>3
  <2> QED
    BY <1>5, <1>8, <2>1, <2>2, <2>3 DEF Elsewhere
<1> QED
  BY <1>3, <1>8 DEF Next

\* What a step does to the posts: only a push at home creates.
LEMMA PostsMove ==
  ASSUME IInv, Next
  PROVE  /\ posts' \subseteq {"create", "end"} \X Ids
         /\ \A s \in Ids : <<"create", s>> \in posts' =>
              \/ <<"create", s>> \in posts
              \/ s = opened + 1 /\ opened' = s /\ box[s] = Home /\ UNCHANGED row
<1>1. TypeOK /\ TreeKnown(tree) /\ Awaited /\ posts \subseteq {"create", "end"} \X Ids
  BY DEF IInv, TypeOK, HomeTreesSince, TreeKnown, Trees
<1>2. CASE UNCHANGED posts
  BY <1>1, <1>2
<1>3. CASE Answered \/ Failed \/ Type \/ Heard \/ Unheard \/ (Judge /\ phase' = "running")
  <2>1. UNCHANGED posts
    BY <1>3 DEF Answered, Failed, Comes, Arrive, LineArrives, Refreshed, Reread, Type, Heard,
       Unheard, Judge, Prompt
  <2> QED
    BY <1>2, <2>1
<1>4. CASE Plain \/ Write \/ Refetch \/ Reads \/ Login \/ Enter \/ NoEntry \/ Reload \/ Listed
  <2>1. UNCHANGED posts
    BY <1>4 DEF Plain, Write, Refetch, Reads, Login, Enter, NoEntry, Reload, Listed
  <2> QED
    BY <1>2, <2>1
<1>5. CASE HearFtp \/ Quit
  <2>1. posts' = posts \/ (ftp \in Ids /\ posts' = posts \cup {<<"end", ftp>>})
    BY <1>1, <1>5 DEF HearFtp, Quit, TypeOK, Awaited
  <2> QED
    BY <1>1, <2>1
<1>6. CASE Leaves
  <2>1. \A m \in posts' : m \in posts \/ (m[1] = "end" /\ m \in {"create", "end"} \X Ids)
    BY <1>1, <1>6, LeavesPop, PopMoves
  <2> QED
    BY <1>1, <2>1
<1>7. CASE PushSu
  <2>1. /\ opened + 1 \in Ids /\ opened' = opened + 1 /\ box[opened + 1] = Home
        /\ posts' = posts \cup {<<"create", opened + 1>>} /\ UNCHANGED row
    BY <1>7 DEF PushSu, server
  <2> QED
    BY <1>1, <2>1
<1>8. CASE Rebuild
  <2>1. posts' = posts \cup {<<"end", s>> : s \in listed \ Hops(listed)} /\ listed \subseteq Ids
    BY <1>1, <1>8 DEF Rebuild, TypeOK
  <2> QED
    BY <1>1, <2>1
<1>9. CASE Elsewhere
  <2>1. posts' \subseteq posts
    BY <1>9 DEF Elsewhere, Land, Admit, EndElsewhere, Sweep, WriteBootId
  <2> QED
    BY <1>1, <2>1
<1>10. Judge => phase' \in {"idle", "running"}
  BY DEF Judge, Prompt
<1> QED
  BY <1>3, <1>4, <1>5, <1>6, <1>7, <1>8, <1>9, <1>10 DEF Next, Tab, Leaves

-----------------------------------------------------------------------------
(* The parts of the invariant.                                             *)
LEMMA PullTyped ==
  ASSUME TypeOK, NEW st \in Seq(Ids), NEW forLine \in BOOLEAN
  PROVE  Pull(st, forLine) \in [by : Ids \cup {None}, box : Boxes, line : BOOLEAN, since : Nat]
BY StackTyped DEF Pull, TypeOK

\* The line, the page and the counters keep their types.
LineFits ==
  /\ phase' \in Phases /\ chain' \in Seq(Ids) /\ evicted' \in BOOLEAN
  /\ mine' \in Nat \cup {None} /\ view' \in Nat \cup {None} /\ lost' \in Nat
  /\ late' \in BOOLEAN /\ replaced' \in BOOLEAN

PageFits ==
  /\ opened' \in 0..MaxSessions /\ ftp' \in Ids \cup {None}
  /\ listing' \in {"none", "asked", "read"} /\ listed' \subseteq Ids
  /\ reloads' \in 0..MaxMishaps /\ loaded' \in Nat

LEMMA PageTyped ==
  ASSUME IInv, Next
  PROVE  PageFits
<1>1. /\ opened \in 0..MaxSessions /\ ftp \in Ids \cup {None}
      /\ listing \in {"none", "asked", "read"} /\ listed \subseteq Ids
      /\ reloads \in 0..MaxMishaps /\ reboots \in Nat /\ loaded \in Nat
      /\ MaxMishaps \in Nat /\ MaxSessions \in Nat
  BY BoundsAssumption DEF IInv, TypeOK
<1>2. CASE UNCHANGED <<opened, ftp, page>>
  BY <1>1, <1>2 DEF PageFits, page
<1>3. CASE Answered \/ Failed \/ Type \/ Heard \/ Unheard \/ Judge
  <2>1. UNCHANGED <<opened, ftp, page>>
    BY <1>3 DEF Answered, Failed, Comes, Arrive, LineArrives, Refreshed, Reread, Type, Heard,
       Unheard, Judge, shell
  <2> QED
    BY <1>2, <2>1
<1>4. CASE Plain \/ Write \/ Refetch \/ StepOff \/ Exit \/ Reads \/ NoEntry
  <2>1. UNCHANGED <<opened, ftp, page>>
    BY <1>4 DEF Plain, Write, Refetch, StepOff, Exit, Reads, NoEntry, shell
  <2> QED
    BY <1>2, <2>1
<1>5. CASE HearFtp \/ Quit \/ Enter
  <2>1. UNCHANGED <<opened, page>> /\ ftp' \in Ids \cup {None}
    BY <1>1, <1>5 DEF HearFtp, Quit, Enter, IInv, Awaited
  <2> QED
    BY <1>1, <2>1 DEF PageFits, page
<1>6. CASE PushSu \/ Login
  <2>1. opened' = opened + 1 /\ opened + 1 \in Ids /\ UNCHANGED <<ftp, page>>
    BY <1>6 DEF PushSu, Login
  <2>2. opened' \in 0..MaxSessions
    BY <1>1, <2>1 DEF Ids
  <2> QED
    BY <1>1, <2>1, <2>2 DEF PageFits, page
<1>7. CASE Reload
  <2>1. reloads' \in 0..MaxMishaps
    BY <1>1, <1>7 DEF Reload
  <2>2. boot[Home] \in Nat
    BY HomeAssumption DEF IInv, TypeOK, Boxes
  <2>3. opened' = opened /\ ftp' = None /\ listing' = "asked" /\ listed' = {}
        /\ loaded' = boot[Home]
    BY <1>7 DEF Reload
  <2> QED
    BY <1>1, <2>1, <2>2, <2>3 DEF PageFits
<1>8. CASE Listed
  BY <1>1, <1>8 DEF Listed, PageFits, Open, shell
<1>9. CASE Rebuild
  BY <1>1, <1>9 DEF Rebuild, PageFits
<1>10. CASE Elsewhere
  <2>1. UNCHANGED <<opened, ftp, page>>
    BY <1>10 DEF Elsewhere, Land, Admit, EndElsewhere, Sweep, WriteBootId, shell
  <2> QED
    BY <1>2, <2>1
<1> QED
  BY <1>3, <1>4, <1>5, <1>6, <1>7, <1>8, <1>9, <1>10 DEF Next, Tab

LEMMA LineTyped ==
  ASSUME IInv, Next
  PROVE  LineFits
<1>1. /\ phase \in Phases /\ chain \in Seq(Ids) /\ evicted \in BOOLEAN
      /\ mine \in Nat \cup {None} /\ view \in Nat \cup {None} /\ lost \in Nat
      /\ late \in BOOLEAN /\ replaced \in BOOLEAN
      /\ stack \in Seq(Ids) /\ <<>> \in Seq(Ids)
  BY DEF IInv, TypeOK
<1>0. TypeOK
  BY DEF IInv
<1>2. CASE UNCHANGED line
  BY <1>1, <1>2 DEF LineFits, line, checks
<1>3. CASE Prompt
  BY <1>1, <1>3 DEF LineFits, Prompt, NoChecks, Phases
<1>4. ASSUME NEW p \in Phases, Await(p)
      PROVE  LineFits
  BY <1>1, <1>4 DEF LineFits, Await, checks
<1>5. CASE UNCHANGED <<lost, late, replaced>>
           /\ \E st \in Seq(Ids), cur \in Ids \cup {None}, known \in Nat \cup {None}, tr \in Trees :
                Capture(st, cur, known, tr)
  BY <1>0, <1>1, <1>5, CaptureMoves DEF LineFits, Phases
<1>6. CASE Answered \/ Failed
  <2>1. PICK p \in pulls : \E seen \in Seen(p) : Comes(p, seen)
    BY <1>6 DEF Answered, Failed, Seen
  <2>2. PICK seen \in Seen(p) : Comes(p, seen)
    BY <2>1
  <2>3. CASE Arrive(p, seen)
    BY <1>2, <2>3 DEF Arrive
  <2>4. CASE LineArrives(p, seen)
    <3>1. Landed(p, seen) \in Trees /\ Entered(chain) \in Ids \cup {None}
      BY <1>0, <1>1, ArrivingTells, StackTyped
    <3>2. Capture(stack, Entered(chain), mine, Landed(p, seen)) /\ UNCHANGED <<lost, late, replaced>>
      BY <2>4 DEF LineArrives
    <3> QED
      BY <1>1, <1>5, <3>1, <3>2
  <2>5. CASE Refreshed(p, seen)
    BY <1>3, <2>5 DEF Refreshed
  <2>6. CASE Reread(p, seen)
    BY <1>4, <2>6 DEF Reread, Phases
  <2> QED
    BY <2>2, <2>3, <2>4, <2>5, <2>6 DEF Comes
<1>7. CASE Type
  <2>1. CASE On(stack) = Home
    <3>1. Capture(stack, Entered(stack), Held(stack), tree) /\ UNCHANGED <<lost, late, replaced>>
      BY <1>7, <2>1 DEF Type
    <3>2. tree \in Trees /\ Entered(stack) \in Ids \cup {None} /\ Held(stack) \in Nat \cup {None}
      BY <1>0, <1>7, TypeMoves DEF TypeOK, Trees
    <3> QED
      BY <1>1, <1>5, <3>1, <3>2
  <2>2. CASE On(stack) # Home
    <3>1. Held(stack) \in Nat \cup {None}
      BY <1>7, TypeMoves
    <3> QED
      BY <1>1, <1>7, <2>2, <3>1 DEF Type, LineFits, Phases
  <2> QED
    BY <2>1, <2>2
<1>8. CASE Heard
  <2>1. PICK n \in 0..Len(chain) :
          lost' = Len(chain) - n /\ late' = (n < Len(chain) /\ row[chain[n + 1]] = "none")
    BY <1>8 DEF Heard
  <2>2. lost' \in Nat /\ late' \in BOOLEAN
    BY <1>1, <2>1
  <2> QED
    BY <1>1, <1>8, <2>2 DEF Heard, LineFits, Phases
<1>9. CASE Unheard
  BY <1>1, <1>9 DEF Unheard, LineFits, Phases, checks
<1>10. CASE Judge \/ HearFtp
  <2>1. Prompt \/ (phase' \in {"running", "ftp"} /\ NoChecks /\ UNCHANGED <<chain, evicted>>)
    <3>1. Judge => \/ Prompt
                   \/ phase' = "running" /\ NoChecks /\ UNCHANGED <<chain, evicted>>
      BY DEF Judge
    <3>2. HearFtp => \/ Prompt
                     \/ phase' = "ftp" /\ NoChecks /\ UNCHANGED <<chain, evicted>>
      BY DEF HearFtp
    <3> QED
      BY <1>10, <3>1, <3>2
  <2>2. CASE phase' \in {"running", "ftp"} /\ NoChecks /\ UNCHANGED <<chain, evicted>>
    BY <1>1, <2>2 DEF LineFits, Phases, NoChecks
  <2> QED
    BY <1>3, <2>1, <2>2
<1>11. CASE Plain \/ StepOff \/ Exit \/ Quit \/ Enter \/ NoEntry \/ Reload
  BY <1>3, <1>11 DEF Plain, StepOff, Exit, Quit, Enter, NoEntry, Reload
<1>12. CASE Write \/ Refetch \/ Reads \/ PushSu \/ Login
  BY <1>4, <1>12 DEF Write, Refetch, Reads, PushSu, Login, Phases
<1>13. CASE Listed
  BY <1>2, <1>13 DEF Listed
<1>14. CASE Rebuild
  <2>1. replaced' \in BOOLEAN /\ UNCHANGED <<phase, chain, mine, view, lost, late, evicted>>
    BY <1>14 DEF Rebuild
  <2> QED
    BY <1>1, <2>1 DEF LineFits
<1>15. CASE Elsewhere
  <2>1. CASE Admit
    BY <1>4, <2>1 DEF Admit, Phases
  <2>2. Admit \/ UNCHANGED line
    BY <1>15 DEF Elsewhere, Land, EndElsewhere, Sweep, WriteBootId
  <2> QED
    BY <1>2, <2>1, <2>2
<1> QED
  BY <1>6, <1>7, <1>8, <1>9, <1>10, <1>11, <1>12, <1>13, <1>14, <1>15 DEF Next, Tab

LEMMA TypesStay ==
  ASSUME IInv, Next
  PROVE  TypeOK'
<1>1. pulls' \subseteq [by : Ids \cup {None}, box : Boxes, line : BOOLEAN, since : Nat]
  <2>1. TypeOK
    BY DEF IInv
  <2> SUFFICES ASSUME NEW p \in pulls'
               PROVE  p \in [by : Ids \cup {None}, box : Boxes, line : BOOLEAN, since : Nat]
    OBVIOUS
  <2>2. p \in pulls \/ \E st \in Seq(Ids), forLine \in BOOLEAN : p = Pull(st, forLine)
    BY ShellMoves DEF PullsMove
  <2>3. CASE p \in pulls
    BY <2>1, <2>3 DEF TypeOK
  <2> QED
    BY <2>1, <2>2, <2>3, PullTyped
<1>2. /\ stack' \in Seq(Ids) /\ tree' \in [box : Boxes, boot : Nat] \cup {None}
      /\ stamp' \in [Ids -> Nat \cup {None}] /\ blind' \subseteq Ids
  BY ShellMoves DEF TreeKnown, Trees, StampsMove
<1>3. box' \in [Ids -> Boxes] /\ kind' \in [Ids -> {"hop", "ftp"}]
  BY ServerMoves DEF IInv, TypeOK
<1>4. BootsGrow /\ row' \in [Ids -> {"none", "open", "ended"}]
      /\ born' \in [Ids -> Nat] /\ arrived' \in [Ids -> Nat]
  BY ServerMoves
<1>5. posts' \subseteq {"create", "end"} \X Ids
  BY PostsMove
<1> QED
  BY <1>1, <1>2, <1>3, <1>4, <1>5, PageTyped, LineTyped
     DEF TypeOK, PageFits, LineFits, BootsGrow

\* How a session is minted, and how a login goes on.
LEMMA LoginMoves ==
  ASSUME IInv, Next
  PROVE  /\ opened' = opened \/ opened' = opened + 1
         /\ phase' = "login" => (opened' = opened /\ phase = "login") \/ Login
         /\ phase' = "admitted" => opened' = opened /\ phase \in {"login", "admitted"}
         /\ phase' = "ftp" => ftp' # None
<1>1. Awaited
  BY DEF IInv
<1>2. CASE UNCHANGED <<opened, ftp>> /\ phase' \notin {"login", "admitted", "ftp"}
  BY <1>2
<1>3. CASE UNCHANGED <<opened, ftp, phase>>
  BY <1>1, <1>3 DEF Awaited
<1>4. CASE Answered \/ Failed
  <2>1. PICK p \in pulls : \E seen \in Seen(p) : Comes(p, seen)
    BY <1>4 DEF Answered, Failed, Seen
  <2>2. PICK seen \in Seen(p) : Comes(p, seen)
    BY <2>1
  <2>3. UNCHANGED <<opened, ftp>>
    BY <2>2 DEF Comes, Arrive, LineArrives, Refreshed, Reread, shell
  <2>4. UNCHANGED phase \/ phase' \in {"asking", "heard", "idle", "su"}
    BY <2>2 DEF Comes, Arrive, LineArrives, Refreshed, Reread, Capture, Prompt, Await, line
  <2> QED
    BY <1>2, <1>3, <2>3, <2>4
<1>5. CASE Type \/ Heard \/ Unheard \/ Judge
  <2>1. UNCHANGED <<opened, ftp>>
    BY <1>5 DEF Type, Heard, Unheard, Judge, shell
  <2>2. phase' \in {"pulling", "asking", "heard", "idle", "running"}
    BY <1>5 DEF Type, Heard, Unheard, Judge, Capture, Prompt
  <2> QED
    BY <1>2, <2>1, <2>2
<1>6. CASE Plain \/ Write \/ Refetch \/ StepOff \/ Exit \/ Reads \/ NoEntry
  <2>1. UNCHANGED <<opened, ftp>>
    BY <1>6 DEF Plain, Write, Refetch, StepOff, Exit, Reads, NoEntry, shell
  <2>2. phase' \in {"idle", "writing", "refreshing", "rereading"}
    BY <1>6 DEF Plain, Write, Refetch, StepOff, Exit, Reads, NoEntry, Prompt, Await
  <2> QED
    BY <1>2, <2>1, <2>2
<1>7. CASE HearFtp \/ Quit \/ Enter \/ Reload
  <2>1. opened' = opened /\ (phase' = "idle" \/ (phase' = "ftp" /\ ftp' # None))
    BY <1>7 DEF HearFtp, Quit, Enter, Reload, Prompt
  <2> QED
    BY <2>1
<1>8. CASE PushSu \/ Login
  BY <1>8 DEF PushSu, Login, Await
<1>9. CASE Listed \/ Rebuild
  <2>1. UNCHANGED <<opened, ftp, phase>>
    BY <1>9 DEF Listed, Rebuild, shell, line
  <2> QED
    BY <1>3, <2>1
<1>10. CASE Elsewhere
  <2>1. CASE Admit
    BY <2>1 DEF Admit, Await, shell
  <2>2. CASE ~Admit
    <3>1. UNCHANGED <<opened, ftp, phase>>
      BY <1>10, <2>2 DEF Elsewhere, Land, EndElsewhere, Sweep, WriteBootId, shell, line
    <3> QED
      BY <1>3, <3>1
  <2> QED
    BY <2>1, <2>2
<1> QED
  BY <1>4, <1>5, <1>6, <1>7, <1>8, <1>9, <1>10 DEF Next, Tab

\* A session no leg, pull or boot id mentions, and no step brings in, stays so.
LEMMA StaysUnseen ==
  ASSUME IInv, Next, NEW s \in Ids, stamp[s] = None, s \notin Legs(stack),
         s \notin Legs(stack'), \A p \in pulls : p.by # s
  PROVE  stamp'[s] = None /\ \A p \in pulls' : p.by # s
<1>1. StampsMove /\ PullsMove
  BY ShellMoves
<1>2. stamp'[s] = None
  BY <1>1 DEF StampsMove
<1>3. s # None
  BY NoneAssumption DEF Ids
<1>4. ASSUME NEW p \in pulls' PROVE p.by # s
  <2>1. CASE p \in pulls
    BY <2>1
  <2>2. CASE p \notin pulls
    <3>1. PICK st \in Seq(Ids), forLine \in BOOLEAN :
            p = Pull(st, forLine) /\ Entered(st) \in Legs(stack) \cup Legs(stack') \cup {None}
      BY <1>1, <2>2 DEF PullsMove
    <3>2. p.by = Entered(st)
      BY <3>1 DEF Pull
    <3> QED
      BY <1>3, <3>1, <3>2
  <2> QED
    BY <2>1, <2>2
<1> QED
  BY <1>2, <1>4

LEMMA UnmintedStays ==
  ASSUME IInv, Next
  PROVE  Unminted'
<1>1. Unminted /\ RowsToCome /\ opened \in Nat /\ Ids \subseteq Nat
  <2>1. TypeOK /\ Unminted /\ RowsToCome
    BY DEF IInv
  <2> QED
    BY <2>1 DEF TypeOK, Ids
<1>2. SUFFICES ASSUME NEW s \in Ids, s > opened'
               PROVE  /\ row'[s] = "none" /\ stamp'[s] = None /\ s \notin Legs(stack')
                      /\ \A p \in pulls' : p.by # s
  BY DEF Unminted, Legs
<1>3. s > opened /\ s # opened /\ s # opened'
  BY <1>1, <1>2, LoginMoves
<1>4. /\ row[s] = "none" /\ stamp[s] = None /\ s \notin Legs(stack) /\ \A p \in pulls : p.by # s
      /\ s \notin listed /\ <<"create", s>> \notin posts
  BY <1>1, <1>3 DEF Unminted, RowsToCome
<1>5. s \notin Legs(stack')
  BY <1>3, <1>4, LegsMove
<1>6. RowMoves(s)
  BY ServerMoves
<1>7. row'[s] = "none"
  BY <1>3, <1>4, <1>6 DEF RowMoves
<1> QED
  BY <1>4, <1>5, <1>7, StaysUnseen

LEMMA AwaitedStays ==
  ASSUME IInv, Next
  PROVE  Awaited'
<1>0. box' = box
  BY ServerMoves
<1>1. Unminted /\ Awaited /\ RowsToCome /\ opened \in Nat /\ Ids \subseteq Nat
  <2>1. TypeOK /\ Unminted /\ Awaited /\ RowsToCome
    BY DEF IInv
  <2> QED
    BY <2>1 DEF TypeOK, Ids
<1>2. CASE Login
  <2> DEFINE s == opened + 1
  <2>1. /\ s \in Ids /\ box[s] # Home /\ opened' = s /\ phase' = "login"
        /\ UNCHANGED <<stack, stamp, pulls, row>>
    BY <1>2 DEF Login, server, Await
  <2>2. s > opened
    BY <1>1
  <2>3. /\ row[s] = "none" /\ stamp[s] = None /\ s \notin Legs(stack) /\ \A p \in pulls : p.by # s
    BY <1>1, <2>1, <2>2 DEF Unminted
  <2> QED
    BY <1>0, <2>1, <2>3 DEF Awaited, Legs
<1>3. ASSUME phase' = "login", opened' = opened, phase = "login"
      PROVE  Awaited'
  <2> DEFINE s == opened
  <2>1. /\ s \in Ids /\ box[s] # Home /\ row[s] = "none" /\ stamp[s] = None
        /\ s \notin Legs(stack) /\ \A p \in pulls : p.by # s
    BY <1>1, <1>3 DEF Awaited
  <2>2. s \notin listed /\ <<"create", s>> \notin posts /\ s # opened + 1
    BY <1>1, <2>1 DEF RowsToCome
  <2>3. s \notin Legs(stack')
    BY <1>3, <2>1, <2>2, LegsMove
  <2>4. RowMoves(s)
    BY <2>1, ServerMoves
  <2>5. row'[s] = "none"
    BY <1>3, <2>1, <2>2, <2>4 DEF RowMoves
  <2>6. stamp'[s] = None /\ \A p \in pulls' : p.by # s
    BY <2>1, <2>3, StaysUnseen
  <2> QED
    BY <1>0, <1>3, <2>1, <2>3, <2>5, <2>6 DEF Awaited, Legs
<1>4. CASE phase' # "login"
  BY <1>0, <1>1, <1>4, LoginMoves DEF Awaited
<1> QED
  BY <1>2, <1>3, <1>4, LoginMoves

LEMMA RowsToComeStays ==
  ASSUME IInv, Next
  PROVE  RowsToCome'
<1>0. box' = box /\ (opened' = opened \/ opened' = opened + 1)
  BY ServerMoves, LoginMoves
<1>1. Unminted /\ Awaited /\ RowsToCome /\ opened \in Nat /\ Ids \subseteq Nat
      /\ listed \subseteq Ids
  <2>1. TypeOK /\ Unminted /\ Awaited /\ RowsToCome
    BY DEF IInv
  <2> QED
    BY <2>1 DEF TypeOK, Ids
<1>2. ASSUME NEW s \in Ids, <<"create", s>> \in posts'
      PROVE  row'[s] = "none" /\ box'[s] = Home /\ s <= opened'
  <2>1. CASE <<"create", s>> \in posts
    <3>1. row[s] = "none" /\ box[s] = Home /\ s <= opened
      BY <1>1, <2>1 DEF RowsToCome
    <3>2. RowMoves(s)
      BY ServerMoves
    <3>3. row'[s] = "none"
      BY <1>1, <1>2, <3>1, <3>2 DEF RowMoves, Awaited
    <3> QED
      BY <1>0, <1>1, <3>1, <3>3
  <2>2. CASE s = opened + 1 /\ opened' = s /\ box[s] = Home /\ UNCHANGED row
    <3>1. s > opened
      BY <1>1, <2>2
    <3> QED
      BY <1>0, <1>1, <2>2, <3>1 DEF Unminted
  <2> QED
    BY <1>2, <2>1, <2>2, PostsMove
<1>3. ASSUME NEW s \in listed'
      PROVE  row'[s] # "none"
  <2>1. \A i \in Ids : row[i] # "none" => row'[i] # "none"
    <3>1. \A i \in Ids : RowMoves(i)
      BY ServerMoves
    <3> QED
      BY <3>1 DEF RowMoves
  <2>2. listed' \subseteq listed \/ (listed' = Open /\ UNCHANGED row)
    <3>1. CASE Answered \/ Failed \/ Type \/ Heard \/ Unheard \/ Judge \/ HearFtp
      BY <3>1 DEF Answered, Failed, Comes, Arrive, LineArrives, Refreshed, Reread, Type, Heard,
         Unheard, Judge, HearFtp, page
    <3>2. CASE Plain \/ Write \/ Refetch \/ StepOff \/ Exit \/ Quit \/ Reads \/ PushSu \/ Login
               \/ Enter \/ NoEntry
      BY <3>2 DEF Plain, Write, Refetch, StepOff, Exit, Quit, Reads, PushSu, Login, Enter,
         NoEntry, page
    <3>3. CASE Reload \/ Listed \/ Rebuild
      BY <3>3 DEF Reload, Listed, Rebuild, server
    <3>4. CASE Elsewhere
      BY <3>4 DEF Elsewhere, Land, Admit, EndElsewhere, Sweep, WriteBootId, page
    <3> QED
      BY <3>1, <3>2, <3>3, <3>4 DEF Next, Tab
  <2>3. s \in listed \/ (s \in Open /\ UNCHANGED row)
    BY <1>3, <2>2
  <2> QED
    BY <1>1, <2>1, <2>3 DEF RowsToCome, Open
<1> QED
  BY <1>2, <1>3 DEF RowsToCome

\* Where a shell's time begins moves only with the page, or when the row of a
\* login comes.
LEMMA SinceMoves ==
  ASSUME IInv, Next, loaded' = loaded, NEW s \in Ids
  PROVE  Since(s)' = Since(s) \/ (s = opened /\ phase = "login")
<1>1. RowMoves(s) /\ box' = box
  BY ServerMoves
<1>2. RowsToCome
  BY DEF IInv
<1>3. Since(s)' = IF box[s] = Home THEN loaded ELSE arrived'[s]
  BY <1>1 DEF Since
<1> QED
  BY <1>1, <1>2, <1>3 DEF RowMoves, RowsToCome, Since

LEMMA SinceBound ==
  ASSUME IInv, Next, loaded' = loaded, NEW s \in Ids
  PROVE  /\ Since(s) \in Nat /\ Since(s)' \in Nat
         /\ Since(s) <= boot[box[s]] /\ Since(s)' <= boot[box[s]]
         /\ boot[box[s]] <= boot'[box[s]] /\ boot[box[s]] \in Nat /\ boot'[box[s]] \in Nat
<1>1. PullsSeeNoPast /\ loaded \in Nat /\ arrived[s] \in Nat /\ box[s] \in Boxes
      /\ boot \in [Boxes -> Nat]
  BY DEF IInv, TypeOK
<1>2. RowMoves(s) /\ box' = box /\ BootsGrow
  BY ServerMoves
<1>3. boot[box[s]] <= boot'[box[s]] /\ boot[box[s]] \in Nat /\ boot'[box[s]] \in Nat
  BY <1>1, <1>2 DEF BootsGrow
<1>4. Since(s) \in Nat /\ Since(s) <= boot[box[s]]
  BY <1>1 DEF Since, PullsSeeNoPast
<1>5. Since(s)' = IF box[s] = Home THEN loaded ELSE arrived'[s]
  BY <1>2 DEF Since
<1>6. arrived'[s] = arrived[s] \/ arrived'[s] = boot[box[s]]
  BY <1>2 DEF RowMoves
<1> QED
  BY <1>1, <1>3, <1>4, <1>5, <1>6 DEF Since

LEMMA HomeTreesStay ==
  ASSUME IInv, Next
  PROVE  HomeTreesSince'
<1>1. TreeKnown(tree') /\ BootsGrow /\ (loaded' = loaded \/ Reload)
  BY ShellMoves, ServerMoves
<1>2. CASE Reload
  BY <1>2 DEF Reload, HomeTreesSince
<1>3. CASE loaded' = loaded
  <2>1. boot[Home] <= boot'[Home] /\ boot[Home] \in Nat /\ boot'[Home] \in Nat
    BY <1>1, HomeAssumption DEF BootsGrow, Boxes, IInv, TypeOK
  <2> SUFFICES ASSUME tree' # None, tree'.box = Home
               PROVE  loaded <= tree'.boot /\ tree'.boot <= boot'[Home]
    BY <1>3 DEF HomeTreesSince
  <2>2. loaded <= tree'.boot /\ tree'.boot <= boot[Home] /\ tree'.boot \in Nat
    BY <1>1 DEF TreeKnown, Trees
  <2> QED
    BY <2>1, <2>2
<1> QED
  BY <1>1, <1>2, <1>3

LEMMA StampStays ==
  ASSUME IInv, Next
  PROVE  StampSinceArrival'
<1>1. TypeOK /\ Awaited /\ RowsToCome /\ StampSinceArrival
  BY DEF IInv
<1>2. box' = box /\ (loaded' = loaded \/ Reload)
  BY ServerMoves
<1>3. CASE Reload
  BY <1>3 DEF Reload, StampSinceArrival
<1>4. CASE loaded' = loaded
  <2> SUFFICES ASSUME NEW s \in Ids, stamp'[s] # None, s \notin blind'
               PROVE  Since(s)' <= stamp'[s] /\ stamp'[s] <= boot'[box[s]]
    BY <1>2 DEF StampSinceArrival
  <2>1. StampsMove
    BY ShellMoves
  <2>2. stamp'[s] \in Nat /\ Since(s) <= stamp'[s] /\ stamp'[s] <= boot[box[s]]
    <3>1. CASE stamp'[s] = stamp[s] /\ s \notin blind
      BY <1>1, <3>1 DEF StampSinceArrival, TypeOK
    <3>2. CASE Well(s)
      BY <3>2 DEF Well
    <3> QED
      BY <2>1, <3>1, <3>2 DEF StampsMove
  <2>3. Since(s)' = Since(s)
    <3>1. ASSUME s = opened, phase = "login"
          PROVE  FALSE
      <4>1. stamp[s] = None /\ s \notin Legs(stack) /\ row[s] = "none" /\ \A p \in pulls : p.by # s
        BY <1>1, <3>1 DEF Awaited
      <4>2. s \notin Legs(stack')
        <5>1. s \notin listed /\ s # opened + 1
          BY <1>1, <3>1, <4>1 DEF RowsToCome, TypeOK
        <5> QED
          BY <3>1, <4>1, <5>1, LegsMove
      <4> QED
        BY <4>1, <4>2, StaysUnseen
    <3> QED
      BY <1>4, <3>1, SinceMoves
  <2> QED
    BY <1>4, <2>2, <2>3, SinceBound
<1> QED
  BY <1>2, <1>3, <1>4

-----------------------------------------------------------------------------
(* How far a line is.                                                      *)
Judging == {"pulling", "asking", "heard"}

\* A step that leaves the line where it is: what a stack holds of a boot id
\* stays, unless a rebuild brings another.
Quiet ==
  /\ UNCHANGED <<phase, chain, mine, view, lost, late, evicted>>
  /\ loaded' = loaded
  /\ \/ /\ UNCHANGED <<stack, replaced>>
        /\ Held(stack) # None => stamp'[Entered(stack)] = stamp[Entered(stack)]
     \/ replaced' = (phase \in Judging)

\* One that lets it run, or ends it, or begins another of its waits.
Passes ==
  /\ phase \notin Lined \/ \A p \in pulls' : ~p.line
  /\ phase' \notin Judging /\ lost' = 0
  /\ phase' = "running" => phase = "heard" /\ lost = 0 /\ evicted' = evicted

LEMMA LineMoves ==
  ASSUME IInv, Next
  PROVE  \/ Quiet \/ Passes \/ Type \/ Heard \/ Unheard
         \/ \E p \in pulls : \E seen \in Seen(p) : LineArrives(p, seen)
<1>1. TypeOK /\ stack \in Seq(Ids) /\ Awaited /\ (phase # "heard" => lost = 0)
  BY DEF IInv, TypeOK, LossStays
<1>2. CASE UNCHANGED <<shell, line, loaded>>
  BY <1>2 DEF Quiet, shell, line, checks
<1>3. CASE Prompt /\ (phase \notin Lined \/ \A p \in pulls' : ~p.line)
  BY <1>3 DEF Passes, Prompt, NoChecks, Judging
<1>4. CASE /\ phase \notin Judging /\ (phase \notin Lined \/ \A p \in pulls' : ~p.line)
           /\ \E p \in Phases : Await(p) /\ p \notin Judging /\ p # "running"
  BY <1>1, <1>4 DEF Passes, Await, checks, Judging
<1>5. CASE Answered \/ Failed
  <2>1. PICK p \in pulls : \E seen \in Seen(p) : Comes(p, seen)
    BY <1>5 DEF Answered, Failed, Seen
  <2>2. PICK seen \in Seen(p) : Comes(p, seen)
    BY <2>1
  <2>3. CASE Arrive(p, seen)
    <3>1. UNCHANGED <<phase, chain, mine, view, lost, late, evicted, loaded, stack, replaced>>
      BY <2>3 DEF Arrive, line, checks, page
    <3>2. Held(stack) # None => stamp'[Entered(stack)] = stamp[Entered(stack)]
      <4>1. CASE UNCHANGED stamp
        BY <4>1
      <4>2. CASE p.by = Entered(stack) /\ p.by # None /\ ObserveBootId(tree', stack)
        <5> DEFINE s == Entered(stack)
                   tr == Landed(p, seen)
        <5>1. s \in Ids \cup {None} /\ (s # None => s \in Legs(stack)) /\ stack' = stack
          BY <1>1, <3>1, StackTyped
        <5>2. tr \in Trees /\ Tells(s, tr, stack)
          BY <4>2, ArrivingTells
        <5>3. Observe(s, Held(stack), tr, stack)
          BY <2>3, <4>2 DEF ObserveBootId, Arrive
        <5> HIDE DEF s, tr
        <5>4. Held(stack) # None => \A i \in Legs(stack) : stamp'[i] = stamp[i]
          BY <1>1, <5>1, <5>2, <5>3, Observed
        <5>5. s # None
          BY <4>2 DEF s
        <5> QED
          BY <5>1, <5>4, <5>5 DEF s
      <4>3. Entered(stack) = None => Held(stack) = None
        BY <1>1, StackTyped DEF Held
      <4> QED
        BY <2>3, <4>1, <4>2, <4>3 DEF Arrive
    <3> QED
      BY <3>1, <3>2 DEF Quiet
  <2>4. p.line /\ pulls' = pulls \ {p} => \A q \in pulls' : ~q.line
    BY DEF IInv, PullsSeeNoPast
  <2>5. CASE Refreshed(p, seen)
    BY <1>3, <2>4, <2>5 DEF Refreshed
  <2>6. CASE Reread(p, seen)
    BY <1>4, <2>4, <2>6 DEF Reread, Phases, Judging
  <2> QED
    BY <2>2, <2>3, <2>5, <2>6 DEF Comes
<1>6. CASE Judge
  <2>1. CASE Prompt
    BY <1>3, <1>6, <2>1 DEF Judge, Lined
  <2>2. CASE ~Prompt
    BY <1>6, <2>2 DEF Judge, Passes, NoChecks, Judging, Lined
  <2> QED
    BY <2>1, <2>2
<1>7. CASE HearFtp
  BY <1>3, <1>7 DEF HearFtp, Passes, NoChecks, Judging, Lined
<1>8. CASE Plain \/ StepOff \/ Exit \/ Quit \/ Enter \/ NoEntry
  BY <1>3, <1>8 DEF Plain, StepOff, Exit, Quit, Enter, NoEntry, Lined
<1>9. CASE Write \/ Refetch \/ Reads \/ PushSu \/ Login
  BY <1>4, <1>9 DEF Write, Refetch, Reads, PushSu, Login, Phases, Judging, Lined
<1>10. CASE Reload
  BY <1>10 DEF Reload, Passes, Prompt, NoChecks, Judging, Pull
<1>11. CASE Listed
  BY <1>2, <1>11 DEF Listed
<1>12. CASE Rebuild
  BY <1>12 DEF Rebuild, Quiet, Judging
<1>13. CASE Elsewhere
  <2>1. CASE Admit
    BY <1>4, <2>1 DEF Admit, Phases, Judging, Lined
  <2>2. CASE ~Admit
    <3>1. UNCHANGED <<shell, line, loaded>>
      BY <1>13, <2>2 DEF Elsewhere, Land, EndElsewhere, Sweep, WriteBootId, page
    <3> QED
      BY <1>2, <3>1
  <2> QED
    BY <2>1, <2>2
<1> QED
  BY <1>5, <1>6, <1>7, <1>8, <1>9, <1>10, <1>11, <1>12, <1>13 DEF Next, Tab

\* A line waits for one tree, and stays where it is meanwhile.
LEMMA LinePulls ==
  ASSUME IInv, Next
  PROVE  /\ \A p \in pulls' : p.line /\ p \in pulls => UNCHANGED <<phase, chain>>
         /\ \A p, q \in pulls' : p.line /\ q.line => p = q
<1>1. /\ \A p \in pulls : p.line => phase \in Lined
      /\ \A p, q \in pulls : p.line /\ q.line => p = q
  BY DEF IInv, PullsSeeNoPast, Lined
<1>2. \A p \in pulls' : p \in pulls \/ (p.line => p = Pull(stack, TRUE) /\ phase \notin Lined)
  BY ShellMoves DEF PullsMove, Pull
<1>3. ASSUME NEW p \in pulls', p.line, p \in pulls
      PROVE  UNCHANGED <<phase, chain>>
  <2>1. phase \in Lined
    BY <1>1, <1>3
  <2>2. CASE Quiet
    BY <2>2 DEF Quiet
  <2>3. ~Passes
    BY <1>3, <2>1 DEF Passes
  <2>4. ~Type /\ ~Heard /\ ~Unheard
    BY <2>1 DEF Type, Heard, Unheard, Lined
  <2>5. ASSUME NEW q \in pulls, NEW seen \in Seen(q), LineArrives(q, seen)
        PROVE  FALSE
    BY <1>1, <1>3, <2>5 DEF LineArrives
  <2> QED
    BY <2>2, <2>3, <2>4, <2>5, LineMoves
<1>4. \A p, q \in pulls' : p.line /\ q.line => p = q
  BY <1>1, <1>2
<1> QED
  BY <1>3, <1>4

LEMMA PullsStay ==
  ASSUME IInv, Next
  PROVE  PullsSeeNoPast'
<1>1. TypeOK /\ Awaited /\ PullsSeeNoPast
  BY DEF IInv
<1>2. /\ box' = box /\ boot' \in [Boxes -> Nat] /\ \A b \in Boxes : boot[b] <= boot'[b]
      /\ boot \in [Boxes -> Nat] /\ loaded \in Nat /\ Home \in Boxes
      /\ loaded' = loaded \/ Reload
  BY <1>1, ServerMoves DEF TypeOK, BootsGrow, Boxes
<1>3. ASSUME NEW s \in Ids
      PROVE  arrived'[s] <= boot'[box[s]]
  <2>1. RowMoves(s)
    BY ServerMoves
  <2>2. arrived[s] <= boot[box[s]] /\ arrived[s] \in Nat /\ box[s] \in Boxes
    BY <1>1, <1>3 DEF PullsSeeNoPast, TypeOK
  <2>3. arrived'[s] = arrived[s] \/ arrived'[s] = boot[box[s]]
    BY <2>1 DEF RowMoves
  <2> QED
    BY <1>2, <2>2, <2>3
<1>4. CASE Reload
  <2>1. pulls' = {Pull(<<>>, FALSE)} /\ loaded' = boot[Home] /\ boot' = boot
    BY <1>4 DEF Reload, world
  <2>2. Pull(<<>>, FALSE) = [by |-> None, box |-> Home, line |-> FALSE, since |-> boot[Home]]
    BY DEF Pull, Entered, On
  <2>3. boot[Home] \in Nat /\ loaded' <= boot'[Home]
    BY <1>2, <2>1
  <2>4. ASSUME NEW p \in pulls'
        PROVE  /\ p.by = None /\ p.box = Home /\ ~p.line
               /\ From(p.by)' <= p.since /\ p.since <= boot'[p.box]
    <3>0. p = [by |-> None, box |-> Home, line |-> FALSE, since |-> boot[Home]]
      BY <2>1, <2>2
    <3>1. p.by = None /\ p.box = Home /\ ~p.line /\ p.since = boot[Home]
      BY <3>0
    <3>2. From(p.by)' = loaded'
      BY <3>1 DEF From
    <3> QED
      BY <2>1, <2>3, <3>1, <3>2
  <2> QED
    BY <1>2, <1>3, <2>3, <2>4 DEF PullsSeeNoPast
<1>5. CASE loaded' = loaded
  <2>1. ASSUME NEW p \in pulls', p \in pulls
        PROVE  /\ p.box = IF p.by = None THEN Home ELSE box[p.by]
               /\ From(p.by)' <= p.since /\ p.since <= boot'[p.box]
               /\ p.line => phase' \in Lined
               /\ p.line /\ phase' = "pulling" => p.by = Entered(chain)'
    <3>1. /\ p.box = IF p.by = None THEN Home ELSE box[p.by]
          /\ From(p.by) <= p.since /\ p.since <= boot[p.box]
          /\ p.line => phase \in Lined
          /\ p.line /\ phase = "pulling" => p.by = Entered(chain)
          /\ p.box \in Boxes /\ p.since \in Nat /\ p.by \in Ids \cup {None}
      BY <1>1, <2>1 DEF PullsSeeNoPast, TypeOK, Lined
    <3>2. p.since <= boot'[p.box]
      <4>1. boot[p.box] <= boot'[p.box] /\ boot[p.box] \in Nat /\ boot'[p.box] \in Nat
        BY <1>2, <3>1
      <4> QED
        BY <3>1, <4>1
    <3>3. From(p.by)' = From(p.by)
      <4>1. CASE p.by = None
        BY <1>5, <4>1 DEF From
      <4>2. CASE p.by # None
        <5>1. p.by \in Ids /\ ~(p.by = opened /\ phase = "login")
          BY <1>1, <2>1, <3>1, <4>2 DEF Awaited
        <5>2. Since(p.by)' = Since(p.by)
          BY <1>5, <5>1, SinceMoves
        <5> QED
          BY <4>2, <5>2 DEF From
      <4> QED
        BY <4>1, <4>2
    <3>4. p.line => phase' = phase /\ chain' = chain
      BY <2>1, LinePulls
    <3> QED
      BY <3>1, <3>2, <3>3, <3>4 DEF Entered
  <2>2. ASSUME NEW p \in pulls', p \notin pulls
        PROVE  /\ p.box = IF p.by = None THEN Home ELSE box[p.by]
               /\ From(p.by)' <= p.since /\ p.since <= boot'[p.box]
               /\ p.line => phase' \in Lined
               /\ p.line /\ phase' = "pulling" => p.by = Entered(chain)'
    <3>1. PICK st \in Seq(Ids), forLine \in BOOLEAN :
            /\ p = Pull(st, forLine)
            /\ forLine => /\ st = stack /\ phase' \in Lined
                          /\ phase' = "pulling" => Entered(stack) = Entered(chain')
      BY <2>2, ShellMoves DEF PullsMove
    <3>2. /\ p.by = Entered(st) /\ p.box = On(st) /\ p.line = forLine /\ p.since = boot[On(st)]
      BY <3>1 DEF Pull
    <3>3. /\ Entered(st) \in Ids \cup {None} /\ On(st) \in Boxes
          /\ On(st) = IF Entered(st) = None THEN Home ELSE box[Entered(st)]
      BY <1>1, <3>1, StackTyped
    <3>4. From(p.by)' <= boot[On(st)]
      <4>1. CASE p.by = None
        BY <1>1, <1>5, <3>2, <3>3, <4>1 DEF From, PullsSeeNoPast
      <4>2. CASE p.by # None
        <5>1. p.by \in Ids /\ On(st) = box[p.by]
          BY <3>2, <3>3, <4>2
        <5>2. Since(p.by)' <= boot[box[p.by]]
          BY <1>5, <5>1, SinceBound
        <5> QED
          BY <4>2, <5>1, <5>2 DEF From
      <4> QED
        BY <4>1, <4>2
    <3>5. boot[On(st)] <= boot'[On(st)]
      BY <1>2, <3>3
    <3>6. Entered(chain') = Entered(chain)'
      BY DEF Entered
    <3> QED
      BY <3>1, <3>2, <3>3, <3>4, <3>5, <3>6
  <2>3. loaded' <= boot'[Home]
    <3>1. loaded <= boot[Home] /\ boot[Home] <= boot'[Home]
          /\ boot[Home] \in Nat /\ boot'[Home] \in Nat
      BY <1>1, <1>2 DEF PullsSeeNoPast
    <3> QED
      BY <1>2, <1>5, <3>1
  <2> QED
    BY <1>2, <1>3, <2>1, <2>2, <2>3, LinePulls DEF PullsSeeNoPast, Lined
<1> QED
  BY <1>2, <1>4, <1>5

\* A line that begins in the shell in use holds what that shell then holds, and
\* runs over a tree as fresh.
LEMMA CaptureHolds ==
  ASSUME TypeOK, NEW known \in Nat \cup {None}, known = None \/ known = Held(stack),
         NEW tr \in Trees, Entered(stack) # None => Tells(Entered(stack), tr, stack),
         stack' = stack, Capture(stack, Entered(stack), known, tr)
  PROVE  /\ chain' = stack
         /\ IF stack = <<>> THEN mine' = None
            ELSE /\ mine' # None /\ mine' = stamp'[Entered(stack)]
                 /\ view' # None => Since(Entered(stack)) <= view' /\ view' <= boot[On(stack)]
<1> DEFINE s == Entered(stack)
<1>1. /\ stack \in Seq(Ids) /\ s \in Ids \cup {None} /\ (s = None <=> stack = <<>>)
      /\ s # None => s \in Legs(stack) /\ On(stack) = box[s]
      /\ stamp \in [Ids -> Nat \cup {None}]
  BY StackTyped DEF TypeOK
<1>2. /\ chain' = stack /\ mine' = Known(s, known, tr, stack) /\ view' = Shown(tr, stack)
  BY <1>1, CaptureMoves
<1>3. ReadBootId(Shown(tr, stack)) \in Nat /\ None \notin Nat
  BY ShownTyped, NoneAssumption
<1>4. CASE stack = <<>>
  BY <1>1, <1>2, <1>4 DEF Known, Held
<1>5. CASE stack # <<>>
  <2>1. Observe(s, known, tr, stack) /\ Held(stack) = stamp[s]
    BY <1>5 DEF Capture, Held
  <2>2. mine' = IF known # None THEN known ELSE ReadBootId(Shown(tr, stack))
    BY <1>1, <1>2, <1>5 DEF Known
  <2>3. view' # None => Since(s) <= view' /\ view' <= boot[On(stack)]
    BY <1>1, <1>2, <1>5 DEF Tells
  <2> HIDE DEF s
  <2>4. stamp'[s] = IF known # None THEN stamp[s] ELSE ReadBootId(Shown(tr, stack))
    <3>1. s # None => Tells(s, tr, stack)
      BY DEF s
    <3>2. /\ known = None /\ s \in Legs(stack) => stamp'[s] = ReadBootId(Shown(tr, stack))
          /\ \A i \in Legs(stack) : i # s \/ known # None => stamp'[i] = stamp[i]
      BY <1>1, <2>1, <3>1, Observed
    <3> QED
      BY <1>1, <1>5, <3>2
  <2>5. mine' # None /\ mine' = stamp'[s]
    BY <1>3, <2>1, <2>2, <2>4
  <2> QED
    BY <1>2, <1>5, <2>3, <2>5 DEF s
<1> QED
  BY <1>4, <1>5

LEMMA LineStays ==
  ASSUME IInv, Next
  PROVE  LineStandsInItsShell'
<1>1. TypeOK /\ LineStandsInItsShell /\ Awaited /\ stack \in Seq(Ids) /\ chain \in Seq(Ids)
  BY DEF IInv, TypeOK
<1>2. /\ Entered(stack) \in Ids \cup {None} /\ (Entered(stack) = None <=> stack = <<>>)
      /\ On(stack) = IF Entered(stack) = None THEN Home ELSE box[Entered(stack)]
      /\ mine \in Nat \cup {None} /\ view \in Nat \cup {None}
  BY <1>1, StackTyped DEF TypeOK
<1>3. box' = box
  BY ServerMoves
<1>4. SUFFICES ASSUME ~replaced', phase' \in Judging
               PROVE  /\ chain' = stack'
                      /\ phase' = "pulling" => mine' = None \/ mine' = Held(stack)'
                      /\ phase' \in {"asking", "heard"} =>
                           IF stack' = <<>> THEN mine' = None
                           ELSE /\ mine' # None /\ mine' = Held(stack)'
                                /\ view' # None => /\ Since(Entered(stack))' <= view'
                                                   /\ view' <= boot'[On(stack)']
  BY DEF LineStandsInItsShell, Judging
<1>5. stack' = stack => /\ Held(stack)' = IF stack = <<>> THEN None ELSE stamp'[Entered(stack)]
                        /\ On(stack)' = On(stack)
  BY <1>3 DEF Held, On, Entered
<1>6. ASSUME stack' = stack, loaded' = loaded, stack # <<>>, phase # "login", view' # None,
             view' \in Nat, Since(Entered(stack)) <= view', view' <= boot[On(stack)]
      PROVE  Since(Entered(stack))' <= view' /\ view' <= boot'[On(stack)']
  <2>1. PICK s \in Ids : s = Entered(stack) /\ On(stack)' = box[s] /\ On(stack) = box[s]
    BY <1>2, <1>5, <1>6
  <2>2. Since(Entered(stack))' = Since(s)'
    BY <1>6, <2>1 DEF Entered, Since
  <2>3. Since(s)' = Since(s)
    BY <1>6, <2>1, SinceMoves
  <2>6. boot[box[s]] <= boot'[box[s]] /\ boot[box[s]] \in Nat /\ boot'[box[s]] \in Nat
    BY <1>6, <2>1, SinceBound
  <2>4. Since(s) <= view' /\ view' <= boot[box[s]]
    BY <1>6, <2>1
  <2>5. view' <= boot'[box[s]]
    BY <1>6, <2>4, <2>6
  <2> QED
    BY <2>1, <2>2, <2>3, <2>4, <2>5
<1>7. CASE Quiet
  <2>1. /\ UNCHANGED <<phase, chain, mine, view, stack, replaced>> /\ loaded' = loaded
        /\ Held(stack) # None => stamp'[Entered(stack)] = stamp[Entered(stack)]
    BY <1>4, <1>7 DEF Quiet
  <2>2. chain = stack /\ phase \in Judging /\ phase # "login"
    BY <1>1, <1>4, <2>1 DEF LineStandsInItsShell, Judging
  <2>3. Held(stack) # None => Held(stack)' = Held(stack)
    BY <1>5, <2>1 DEF Held
  <2>4. CASE phase = "pulling"
    BY <1>1, <1>4, <2>1, <2>2, <2>3, <2>4 DEF LineStandsInItsShell
  <2>5. CASE phase \in {"asking", "heard"}
    <3>1. IF stack = <<>> THEN mine = None
          ELSE /\ mine # None /\ mine = Held(stack)
               /\ view # None => Since(Entered(stack)) <= view /\ view <= boot[On(stack)]
      BY <1>1, <1>4, <2>1, <2>5 DEF LineStandsInItsShell
    <3>2. CASE stack = <<>>
      BY <2>1, <2>2, <2>5, <3>1, <3>2
    <3>3. CASE stack # <<>>
      <4>1. mine' # None /\ mine' = Held(stack)'
        BY <2>1, <2>3, <3>1, <3>3
      <4>2. view' # None => /\ Since(Entered(stack))' <= view'
                            /\ view' <= boot'[On(stack)']
        BY <1>2, <1>6, <2>1, <2>2, <3>1, <3>3
      <4> QED
        BY <2>1, <2>2, <2>5, <3>3, <4>1, <4>2
    <3> QED
      BY <3>2, <3>3
  <2> QED
    BY <2>2, <2>4, <2>5 DEF Judging
<1>8. CASE Passes
  BY <1>4, <1>8 DEF Passes
<1>9. ASSUME NEW known \in Nat \cup {None}, known = None \/ known = Held(stack),
             NEW tr \in Trees, Entered(stack) # None => Tells(Entered(stack), tr, stack),
             stack' = stack, loaded' = loaded, phase # "login",
             Capture(stack, Entered(stack), known, tr)
      PROVE  /\ phase' \in {"asking", "heard"} /\ chain' = stack'
             /\ IF stack' = <<>> THEN mine' = None
                ELSE /\ mine' # None /\ mine' = Held(stack)'
                     /\ view' # None => /\ Since(Entered(stack))' <= view'
                                        /\ view' <= boot'[On(stack)']
  <2>1. /\ chain' = stack
        /\ IF stack = <<>> THEN mine' = None
           ELSE /\ mine' # None /\ mine' = stamp'[Entered(stack)]
                /\ view' # None => Since(Entered(stack)) <= view' /\ view' <= boot[On(stack)]
    BY <1>1, <1>9, CaptureHolds
  <2>2. phase' \in {"asking", "heard"} /\ view' \in Nat \cup {None}
    BY <1>1, <1>2, <1>9, CaptureMoves
  <2>3. CASE stack = <<>>
    BY <1>9, <2>1, <2>2, <2>3
  <2>4. CASE stack # <<>>
    <3>1. mine' # None /\ mine' = Held(stack)'
      BY <1>5, <1>9, <2>1, <2>4
    <3>2. view' # None => Since(Entered(stack))' <= view' /\ view' <= boot'[On(stack)']
      BY <1>6, <1>9, <2>1, <2>2, <2>4
    <3> QED
      BY <1>9, <2>1, <2>2, <2>4, <3>1, <3>2
  <2> QED
    BY <2>3, <2>4
<1>10. CASE Type
  <2>1. stack' = stack /\ loaded' = loaded /\ phase # "login"
    BY <1>10 DEF Type, page
  <2>2. CASE On(stack) # Home
    <3>1. phase' = "pulling" /\ chain' = stack /\ mine' = Held(stack) /\ UNCHANGED stamp
      BY <1>10, <2>2 DEF Type
    <3>2. mine' = Held(stack)'
      BY <1>5, <2>1, <3>1 DEF Held
    <3> QED
      BY <2>1, <3>1, <3>2
  <2>3. CASE On(stack) = Home
    <3>1. Capture(stack, Entered(stack), Held(stack), tree)
      BY <1>10, <2>3 DEF Type
    <3>2. /\ Held(stack) \in Nat \cup {None} /\ tree \in Trees
          /\ Entered(stack) # None => Tells(Entered(stack), tree, stack)
      BY <1>1, <1>10, <2>3, TypeMoves DEF TypeOK, Trees
    <3> QED
      BY <1>9, <2>1, <3>1, <3>2
  <2> QED
    BY <2>2, <2>3
<1>11. ASSUME NEW p \in pulls, NEW seen \in Seen(p), LineArrives(p, seen)
       PROVE  /\ phase' \in {"asking", "heard"} /\ chain' = stack'
              /\ IF stack' = <<>> THEN mine' = None
                 ELSE /\ mine' # None /\ mine' = Held(stack)'
                      /\ view' # None => /\ Since(Entered(stack))' <= view'
                                         /\ view' <= boot'[On(stack)']
  <2> DEFINE tr == Landed(p, seen)
  <2>1. /\ p.line /\ phase = "pulling" /\ Capture(stack, Entered(chain), mine, tr)
        /\ UNCHANGED <<stack, loaded, replaced>>
    BY <1>11 DEF LineArrives, page
  <2>2. chain = stack /\ (mine = None \/ mine = Held(stack)) /\ p.by = Entered(chain)
    BY <1>1, <1>4, <2>1 DEF LineStandsInItsShell, IInv, PullsSeeNoPast
  <2>3. tr \in Trees /\ (p.by # None => Tells(p.by, tr, stack))
    BY ArrivingTells
  <2> HIDE DEF tr
  <2> QED
    BY <1>2, <1>9, <2>1, <2>2, <2>3
<1>12. CASE Heard \/ Unheard
  <2>1. /\ phase = "asking" /\ phase' = "heard" /\ UNCHANGED <<chain, mine, view, stack, stamp>>
        /\ loaded' = loaded /\ replaced' = replaced
    BY <1>12 DEF Heard, Unheard, shell, checks, page
  <2>2. /\ chain = stack
        /\ IF stack = <<>> THEN mine = None
           ELSE /\ mine # None /\ mine = Held(stack)
                /\ view # None => Since(Entered(stack)) <= view /\ view <= boot[On(stack)]
    BY <1>1, <1>4, <2>1 DEF LineStandsInItsShell
  <2>3. Held(stack)' = Held(stack)
    BY <1>5, <2>1 DEF Held
  <2>4. stack # <<>> /\ view' # None => /\ Since(Entered(stack))' <= view'
                                        /\ view' <= boot'[On(stack)']
    BY <1>2, <1>6, <2>1, <2>2
  <2> QED
    BY <2>1, <2>2, <2>3, <2>4
<1> QED
  BY <1>7, <1>8, <1>10, <1>11, <1>12, LineMoves

LEMMA LossStaysKnown ==
  ASSUME IInv, Next
  PROVE  LossStays' /\ EvictedNeverRuns'
<1>0. stack \in Seq(Ids) /\ chain \in Seq(Ids) /\ lost \in Nat
  BY DEF IInv, TypeOK
<1>1. TypeOK /\ LossStays /\ EvictedNeverRuns /\ stack \in Seq(Ids) /\ chain \in Seq(Ids)
      /\ lost \in Nat /\ Len(chain) \in Nat
  BY <1>0 DEF IInv
<1>2. /\ \A s \in Ids : row[s] = "ended" => row'[s] = "ended"
      /\ \A s \in Ids : row[s] \in {"none", "open", "ended"}
  <2>1. \A s \in Ids : RowMoves(s)
    BY ServerMoves
  <2> QED
    BY <1>1, <2>1 DEF RowMoves, TypeOK
<1>3. Legs(chain) \subseteq Ids /\ \A i \in 1..Len(chain) : chain[i] \in Ids
  BY <1>1 DEF Legs
<1>4. CASE Quiet
  <2>1. UNCHANGED <<phase, chain, lost, late, evicted>>
    BY <1>4 DEF Quiet
  <2>2. Legs(chain)' = Legs(chain)
    BY <2>1 DEF Legs
  <2>3. lost > 0 /\ lost <= Len(chain) => chain[Len(chain) - lost + 1] \in Ids
    <3>1. lost > 0 /\ lost <= Len(chain) => Len(chain) - lost + 1 \in 1..Len(chain)
      BY <1>1
    <3> QED
      BY <1>3, <3>1
  <2> QED
    BY <1>1, <1>2, <1>3, <2>1, <2>2, <2>3 DEF LossStays, EvictedNeverRuns
<1>5. CASE Passes
  BY <1>1, <1>5 DEF Passes, Judging, LossStays, EvictedNeverRuns
<1>6. ASSUME NEW st \in Seq(Ids), NEW cur \in Ids \cup {None}, NEW known \in Nat \cup {None},
             NEW tr \in Trees, Capture(st, cur, known, tr), phase # "heard", row' = row,
             lost' = lost
      PROVE  LossStays' /\ EvictedNeverRuns'
  <2>1. /\ phase' \in {"asking", "heard"} /\ (phase' = "heard" => ~evicted')
        /\ evicted' => \E s \in Legs(chain') : row[s] = "ended"
    BY <1>1, <1>6, CaptureMoves
  <2>2. lost' = 0
    BY <1>1, <1>6 DEF LossStays
  <2>3. Legs(chain)' = Legs(chain')
    BY DEF Legs
  <2> QED
    BY <1>6, <2>1, <2>2, <2>3 DEF LossStays, EvictedNeverRuns
<1>7. CASE Type
  <2>1. row' = row /\ lost' = lost /\ phase = "idle" /\ lost = 0
    BY <1>1, <1>7 DEF Type, server, LossStays
  <2>2. CASE On(stack) = Home
    <3>1. Capture(stack, Entered(stack), Held(stack), tree)
      BY <1>7, <2>2 DEF Type
    <3>2. tree \in Trees /\ Entered(stack) \in Ids \cup {None} /\ Held(stack) \in Nat \cup {None}
      BY <1>1, <1>7, TypeMoves DEF TypeOK, Trees
    <3> QED
      BY <1>1, <1>6, <2>1, <3>1, <3>2
  <2>3. CASE On(stack) # Home
    BY <1>7, <2>1, <2>3 DEF Type, LossStays, EvictedNeverRuns
  <2> QED
    BY <2>2, <2>3
<1>8. ASSUME NEW p \in pulls, NEW seen \in Seen(p), LineArrives(p, seen)
      PROVE  LossStays' /\ EvictedNeverRuns'
  <2>1. /\ Capture(stack, Entered(chain), mine, Landed(p, seen)) /\ phase = "pulling"
        /\ row' = row /\ lost' = lost
    BY <1>8 DEF LineArrives, server
  <2>2. Landed(p, seen) \in Trees /\ Entered(chain) \in Ids \cup {None}
        /\ mine \in Nat \cup {None}
    BY <1>1, ArrivingTells, StackTyped DEF TypeOK
  <2> QED
    BY <1>1, <1>6, <2>1, <2>2
<1>9. CASE Heard
  <2>1. /\ phase = "asking" /\ phase' = "heard" /\ UNCHANGED <<row, chain, evicted>>
    BY <1>9 DEF Heard, server
  <2>2. PICK n \in 0..Len(chain) :
          /\ Standing(Open, n) /\ lost' = Len(chain) - n
          /\ late' = (n < Len(chain) /\ row[chain[n + 1]] = "none")
    BY <1>9 DEF Heard
  <2>3. evicted => n < Len(chain)
    <3> SUFFICES ASSUME evicted, n = Len(chain)
                 PROVE  FALSE
      BY <1>1, <2>2
    <3>1. PICK i \in 1..Len(chain) : row[chain[i]] = "ended"
      BY <1>1, <2>1 DEF LossStays, Legs
    <3>2. chain[i] \in Open
      BY <2>2, <3>1 DEF Standing
    <3> QED
      BY <3>1, <3>2 DEF Open
  <2>4. n < Len(chain) => lost' > 0 /\ lost' <= Len(chain) /\ Len(chain) - lost' + 1 = n + 1
                          /\ n + 1 \in 1..Len(chain)
    BY <1>1, <2>2
  <2>5. n < Len(chain) => row[chain[n + 1]] = "none" \/ row[chain[n + 1]] = "ended"
    BY <1>2, <1>3, <2>2, <2>4 DEF Standing, Open
  <2>6. n = Len(chain) => lost' = 0
    BY <1>1, <2>2
  <2>7. n < Len(chain) \/ n = Len(chain)
    BY <1>1, <2>2
  <2>8. CASE n < Len(chain)
    BY <2>1, <2>2, <2>4, <2>5, <2>8 DEF LossStays, EvictedNeverRuns
  <2>9. CASE n = Len(chain)
    BY <1>1, <2>1, <2>3, <2>6, <2>9 DEF LossStays, EvictedNeverRuns
  <2> QED
    BY <2>7, <2>8, <2>9
<1>10. CASE Unheard
  <2>1. phase = "asking" /\ phase' = "heard" /\ ~evicted' /\ lost' = lost /\ lost = 0
    BY <1>1, <1>10 DEF Unheard, checks, LossStays
  <2> QED
    BY <2>1 DEF LossStays, EvictedNeverRuns
<1> QED
  BY <1>4, <1>5, <1>7, <1>8, <1>9, <1>10, LineMoves

-----------------------------------------------------------------------------
(* The theorems.                                                           *)
LEMMA Begins ==
  ASSUME Init
  PROVE  IInv
<1>1. /\ opened = 0 /\ stack = <<>> /\ posts = {} /\ listed = {} /\ phase = "idle"
      /\ Legs(stack) = {} /\ lost = 0 /\ evicted = FALSE /\ loaded = Marker
      /\ \A s \in Ids : row[s] = "none" /\ stamp[s] = None /\ arrived[s] = 0 /\ s > opened
  BY DEF Init, Legs, Ids
<1>2. Home \in Boxes /\ Marker \in Nat /\ None \notin Boxes
  BY HomeAssumption, NoneAssumption DEF Boxes
<1>3. TypeOK
  <2>1. /\ opened \in 0..MaxSessions /\ reloads \in 0..MaxMishaps /\ reboots \in 0..MaxMishaps
        /\ stack \in Seq(Ids) /\ chain \in Seq(Ids)
    BY <1>1, BoundsAssumption DEF Init
  <2>2. /\ stamp \in [Ids -> Nat \cup {None}] /\ row \in [Ids -> {"none", "open", "ended"}]
        /\ born \in [Ids -> Nat] /\ arrived \in [Ids -> Nat]
    BY DEF Init
  <2>3. boot \in [Boxes -> Nat]
    BY <1>2 DEF Init
  <2>4. pulls \subseteq [by : Ids \cup {None}, box : Boxes, line : BOOLEAN, since : Nat]
    BY <1>2 DEF Init
  <2>5. /\ phase \in Phases /\ mine \in Nat \cup {None} /\ view \in Nat \cup {None}
        /\ lost \in Nat /\ loaded \in Nat /\ late \in BOOLEAN /\ replaced \in BOOLEAN
        /\ evicted \in BOOLEAN
    BY <1>2 DEF Init, Phases
  <2> QED
    BY <2>1, <2>2, <2>3, <2>4, <2>5 DEF Init, TypeOK
<1>4. pulls = {[by |-> None, box |-> Home, line |-> FALSE, since |-> Marker]}
      /\ boot[Home] = Marker /\ tree = None
  BY <1>2 DEF Init
<1>5. Unminted
  BY <1>1, <1>4, NoneAssumption DEF Unminted, Ids
<1>6. Awaited /\ RowsToCome /\ LossStays /\ EvictedNeverRuns /\ LineStandsInItsShell
  BY <1>1 DEF Awaited, RowsToCome, LossStays, EvictedNeverRuns, LineStandsInItsShell
<1>7. HomeTreesSince /\ StampSinceArrival
  BY <1>1, <1>4 DEF HomeTreesSince, StampSinceArrival
<1>8. PullsSeeNoPast
  <2>1. \A s \in Ids : 0 <= boot[box[s]]
    BY <1>3 DEF TypeOK
  <2>2. ASSUME NEW p \in pulls
        PROVE  /\ p.by = None /\ p.box = Home /\ ~p.line /\ p.since = Marker
               /\ From(p.by) = Marker
    BY <1>1, <1>4 DEF From
  <2>3. Marker <= Marker
    BY <1>2
  <2>4. \A p, q \in pulls : p = q
    BY <1>4
  <2> QED
    BY <1>1, <1>4, <2>1, <2>2, <2>3, <2>4 DEF PullsSeeNoPast
<1> QED
  BY <1>3, <1>5, <1>6, <1>7, <1>8 DEF IInv

LEMMA GoesOn ==
  ASSUME IInv, [Next]_vars
  PROVE  IInv'
<1>1. CASE Next
  BY <1>1, TypesStay, UnmintedStays, AwaitedStays, RowsToComeStays, HomeTreesStay, PullsStay,
     StampStays, LineStays, LossStaysKnown DEF IInv
<1>2. CASE UNCHANGED vars
  <2>1. UNCHANGED <<box, kind, opened, stack, ftp, stamp, tree, pulls, phase, chain, mine, view,
                    lost, listing, listed, row, born, posts, boot, swept, reboots, reloads,
                    arrived, loaded, blind, evicted, late, replaced>>
    BY <1>2 DEF vars
  <2>2. TypeOK'
    <3>1. TypeOK
      BY DEF IInv
    <3> QED
      BY ZenonT(60), <2>1, <3>1 DEF TypeOK, Phases
  <2>3. Unminted' /\ Awaited' /\ RowsToCome'
    BY <2>1 DEF IInv, Unminted, Awaited, RowsToCome, Legs
  <2>4. HomeTreesSince' /\ StampSinceArrival'
    BY <2>1 DEF IInv, HomeTreesSince, StampSinceArrival, Since
  <2>5. PullsSeeNoPast'
    BY <2>1 DEF IInv, PullsSeeNoPast, Entered, From, Since
  <2>6. LineStandsInItsShell'
    BY <2>1 DEF IInv, LineStandsInItsShell, Held, Entered, On, Since
  <2>7. LossStays' /\ EvictedNeverRuns'
    BY <2>1 DEF IInv, LossStays, EvictedNeverRuns, Legs
  <2> QED
    BY <2>2, <2>3, <2>4, <2>5, <2>6, <2>7 DEF IInv
<1> QED
  BY <1>1, <1>2

LEMMA AlwaysKnown == Spec => []IInv
<1>1. Init => IInv
  BY Begins
<1>2. IInv /\ [Next]_vars => IInv'
  BY GoesOn
<1> QED
  BY <1>1, <1>2, PTL DEF Spec

\* The variables keep their types: the stack holds sessions that were minted,
\* the wire carries only creates and ends of sessions.
THEOREM Typing == Spec => []TypeOK
<1>1. IInv => TypeOK
  BY DEF IInv
<1> QED
  BY <1>1, AlwaysKnown, PTL

\* No line runs in a shell that it, or a leg beneath it, had lost when the line's
\* chain was read, if the server could be asked (runLine.ts:133-156).
THEOREM NoneRunsLost == Spec => []EvictedNeverRuns
<1>1. IInv => EvictedNeverRuns
  BY DEF IInv
<1> QED
  BY <1>1, AlwaysKnown, PTL

\* What a shell takes for its box's boot id the box carried since the shell
\* was let in: no other box's tree, and none from before, arms it.
THEOREM StampsAreTheBoxes == Spec => []StampSinceArrival
<1>1. IInv => StampSinceArrival
  BY DEF IInv
<1> QED
  BY <1>1, AlwaysKnown, PTL

\* A line leaves off being judged only by the judgment, or a reload.
LEMMA JudgeCloses ==
  ASSUME IInv, Next, Closes
  PROVE  Judge /\ ((lost > 0 /\ Pop(lost)) \/ (lost = 0 /\ Moved /\ Pop(1)))
<1>1. TypeOK /\ stack \in Seq(Ids) /\ phase = "heard" /\ phase' = "idle" /\ reloads' = reloads
      /\ Len(stack') < Len(stack) /\ reloads \in Nat /\ Len(stack) \in Nat
  BY DEF Closes, IInv, TypeOK
<1>2. ~Answered /\ ~Failed
  <2>1. ASSUME NEW p \in pulls, NEW seen, Comes(p, seen)
        PROVE  FALSE
    BY <1>1, <2>1 DEF Comes, Arrive, LineArrives, Refreshed, Reread, line
  <2> QED
    BY <2>1 DEF Answered, Failed
<1>3. ~Type /\ ~Heard /\ ~Unheard /\ ~HearFtp /\ ~Plain /\ ~Write /\ ~Refetch /\ ~StepOff
      /\ ~Exit /\ ~Quit
  BY <1>1 DEF Type, Heard, Unheard, HearFtp, Plain, Write, Refetch, StepOff, Exit, Quit
<1>4. ~Reads /\ ~PushSu /\ ~Login /\ ~Enter /\ ~NoEntry
  BY <1>1 DEF Reads, PushSu, Login, Enter, NoEntry
<1>5. ~Reload /\ ~Listed /\ ~Rebuild
  <2>1. reloads + 1 # reloads
    BY <1>1
  <2>2. ~Reload
    BY <1>1, <2>1 DEF Reload
  <2>3. ~Listed
    BY <1>1 DEF Listed, line
  <2>4. ~Rebuild
    BY <1>1 DEF Rebuild
  <2> QED
    BY <2>2, <2>3, <2>4
<1>6. ~Elsewhere
  BY <1>1 DEF Elsewhere, Land, Admit, EndElsewhere, Sweep, WriteBootId, line
<1>7. Judge
  BY <1>2, <1>3, <1>4, <1>5, <1>6 DEF Next, Tab
<1>8. phase' # "running"
  BY <1>1
<1>9. (lost > 0 /\ Pop(lost)) \/ (lost = 0 /\ Moved /\ Pop(1))
  BY <1>7, <1>8 DEF Judge
<1> QED
  BY <1>7, <1>9

\* A line no rebuild lands under closes a shell unasked only when its row had
\* ended, or had not come when the server was asked; or its box rebooted since it
\* was let in; or no tree of the box was in hand when its boot id was read, or is
\* now.  An old or a foreign tree closes nothing (runLine.ts:133-156, 425-447;
\* state.ts:1506-1530).
THEOREM ClosesForAReason == Spec => ClosedForAReason
<1> DEFINE Due == Closes /\ ~replaced
                    => \/ row[Dropped] = "ended" \/ late
                       \/ Since(Dropped) < boot[box[Dropped]]
                       \/ view = None \/ Dropped \in blind
<1>1. ASSUME IInv, Next, Closes, ~replaced
      PROVE  Due
  <2>1. /\ TypeOK /\ stack \in Seq(Ids) /\ TreeKnown(tree) /\ LineStandsInItsShell /\ LossStays
        /\ phase = "heard" /\ StampSinceArrival /\ Len(stack') < Len(stack)
    BY <1>1 DEF IInv, TypeOK, Closes, HomeTreesSince, TreeKnown, Trees
  <2>2. /\ chain = stack
        /\ IF stack = <<>> THEN mine = None
           ELSE /\ mine # None /\ mine = Held(stack)
                /\ view # None => Since(Entered(stack)) <= view /\ view <= boot[On(stack)]
    BY <1>1, <2>1 DEF LineStandsInItsShell
  <2>3. (lost > 0 /\ Pop(lost)) \/ (lost = 0 /\ Moved /\ Pop(1))
    BY <1>1, JudgeCloses
  <2>4. lost \in Nat /\ Len(stack) \in Nat
    BY <2>1 DEF TypeOK
  <2>5. CASE lost > 0 /\ Pop(lost)
    <3>1. lost <= Len(stack) /\ (late \/ row[stack[Len(stack) - lost + 1]] = "ended")
      BY <2>1, <2>2, <2>5 DEF LossStays
    <3>2. Len(stack') = Len(stack) - lost
      BY <2>1, <2>4, <2>5, <3>1, PopMoves
    <3>3. Dropped = stack[Len(stack) - lost + 1]
      BY <3>2 DEF Dropped
    <3> QED
      BY <3>1, <3>3
  <2>6. CASE Moved /\ Pop(1)
    <3>1. stack # <<>> /\ 1 <= Len(stack)
      BY <2>1, <2>2, <2>6 DEF Moved
    <3>2. Len(stack') = Len(stack) - 1
      BY <2>1, <2>6, <3>1, PopMoves
    <3>3. Dropped = Entered(stack)
      BY <2>4, <3>1, <3>2 DEF Dropped, Entered
    <3> SUFFICES ASSUME view # None, Dropped \notin blind
                 PROVE  Since(Dropped) < boot[box[Dropped]]
      OBVIOUS
    <3> DEFINE s == Entered(stack)
    <3>4. s \in Ids /\ On(stack) = box[s] /\ Held(stack) = stamp[s]
      BY <2>1, <3>1, StackTyped DEF Held
    <3>5. /\ view \in Nat /\ stamp[s] # None /\ stamp[s] \in Nat /\ stamp[s] # view
          /\ Since(s) \in Nat /\ boot[box[s]] \in Nat
      BY <2>1, <2>2, <2>6, <3>1, <3>4 DEF Moved, ReadBootId, TypeOK, Since
    <3>6. Since(s) <= view /\ view <= boot[box[s]]
      BY <2>2, <3>1, <3>4
    <3>7. Since(s) <= stamp[s] /\ stamp[s] <= boot[box[s]]
      BY <2>1, <3>3, <3>4, <3>5 DEF StampSinceArrival
    <3> HIDE DEF s
    <3>8. Since(s) < boot[box[s]]
      BY <3>5, <3>6, <3>7
    <3> QED
      BY <3>3, <3>8 DEF s
  <2> QED
    BY <2>3, <2>5, <2>6
<1>2. IInv /\ [Next]_vars => [Due]_vars
  BY <1>1
<1> QED
  BY <1>2, AlwaysKnown, PTL DEF Spec, ClosedForAReason
=============================================================================
