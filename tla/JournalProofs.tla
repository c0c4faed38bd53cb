---------------------------- MODULE JournalProofs ----------------------------
(***************************************************************************)
(* What holds of the journal for every number of players, paths, requests  *)
(* and writes.  What a reader sees is a recursive function of the stamps;  *)
(* the library proves that < is well-founded on Nat (WFMin), and from that *)
(* Counting below is induction over a set of stamps, enough to show that   *)
(* the function exists and what it is at each stamp.                       *)
(***************************************************************************)
EXTENDS Journal, WellFoundedInduction, TLAPS

-----------------------------------------------------------------------------
(* Induction.                                                              *)

\* A nonempty set of naturals has a least element.
LEMMA Least ==
  ASSUME NEW T \in SUBSET Nat, T # {}
  PROVE  \E m \in T : \A k \in T : m <= k
<1> DEFINE R == OpToRel(<, Nat)
<1>1. IsWellFoundedOn(R, Nat)
  BY NatLessThanWellFounded
<1>2. \A x, y \in Nat : y < x => <<y, x>> \in R
  BY DEF OpToRel
<1> HIDE DEF R
<1>3. PICK x \in T : \A y \in T : ~(<<y, x>> \in R)
  BY <1>1, WFMin
<1>4. ASSUME NEW y \in T PROVE x <= y
  <2>1. ~(y < x)
    BY <1>2, <1>3
  <2> QED
    BY <2>1
<1> QED
  BY <1>4

\* A set that holds 0, and each number up to m after the one before, holds them all.
LEMMA Counting ==
  ASSUME NEW S, NEW m \in Nat,
         0 \in S, \A n \in 1 .. m : n - 1 \in S => n \in S
  PROVE  \A n \in 0 .. m : n \in S
<1> DEFINE T == {n \in 0 .. m : n \notin S}
<1> SUFFICES T = {}
  OBVIOUS
<1> SUFFICES ASSUME T # {} PROVE FALSE
  OBVIOUS
<1>1. T \in SUBSET Nat
  OBVIOUS
<1> HIDE DEF T
<1>2. PICK n \in T : \A k \in T : n <= k
  BY <1>1, Least
<1>3. n \in 1 .. m /\ n - 1 \notin T
  BY <1>1, <1>2 DEF T
<1> QED
  BY <1>2, <1>3 DEF T

-----------------------------------------------------------------------------
(* The replay.                                                             *)

Trees == [Paths -> Node]

\* What the recursive definition in Replay says of a function of the stamps up to m.
Replays(f, m) == f = [n \in 0 .. m |-> IF n = 0 THEN Generated ELSE Land(f[n - 1], n)]

\* The recursion has a solution for every number of stamps.
LEMMA ReplayExists ==
  ASSUME NEW m \in Nat
  PROVE  \E f : Replays(f, m)
<1> DEFINE S == {k \in Nat : \E f : Replays(f, k)}
<1>1. 0 \in S
  <2> DEFINE f == [n \in 0 .. 0 |-> Generated]
  <2>1. Replays(f, 0)
    BY DEF Replays
  <2> QED
    BY <2>1
<1>2. ASSUME NEW n \in 1 .. m, n - 1 \in S PROVE n \in S
  <2>1. PICK f : Replays(f, n - 1)
    BY <1>2
  <2> DEFINE g == [k \in 0 .. n |-> IF k = n THEN Land(f[n - 1], n) ELSE f[k]]
  <2>2. \A k \in 0 .. n : g[k] = IF k = 0 THEN Generated ELSE Land(g[k - 1], k)
    <3> TAKE k \in 0 .. n
    <3>1. CASE k = n
      BY <3>1
    <3>2. CASE k # n
      <4>1. k \in 0 .. n - 1 /\ g[k] = f[k]
        BY <3>2
      <4>2. k # 0 => g[k - 1] = f[k - 1]
        BY <4>1
      <4> QED
        BY <4>1, <4>2, <2>1 DEF Replays
    <3> QED
      BY <3>1, <3>2
  <2>3. Replays(g, n)
    <3> HIDE DEF g
    <3>1. g = [k \in 0 .. n |-> g[k]]
      BY DEF g
    <3> QED
      BY <2>2, <3>1 DEF Replays
  <2> QED
    BY <2>3
<1> HIDE DEF S
<1>3. m \in S
  BY <1>1, <1>2, Counting
<1> QED
  BY <1>3 DEF S

\* The replay starts from the generated tree and lands the rows one stamp at a time.
LEMMA ReplayStep ==
  ASSUME clock \in Nat
  PROVE  /\ Replay[0] = Generated
         /\ \A n \in 1 .. clock : Replay[n] = Land(Replay[n - 1], n)
<1> DEFINE trees == CHOOSE f : f = [n \in 0 .. clock |-> IF n = 0 THEN Generated
                                                       ELSE Land(f[n - 1], n)]
<1>1. trees = [n \in 0 .. clock |-> IF n = 0 THEN Generated ELSE Land(trees[n - 1], n)]
  BY ReplayExists DEF Replays
<1>2. Replay = trees
  BY DEF Replay
<1> HIDE DEF trees
<1> QED
  BY <1>1, <1>2

-----------------------------------------------------------------------------
(* The trees a replay builds: every node stands in a directory.            *)

IsTree(tree) ==
  /\ tree \in Trees
  /\ \A p \in Paths : tree[p].kind # "absent" => \A q \in Above[p] : tree[q].kind = "folder"

\* What the replay puts at a path is a node.
LEMMA NodesTyped ==
  /\ Absent \in Node /\ Folder \in Node
  /\ \A text \in Seq(Nat) : File(text) \in Node
BY DEF Absent, Folder, File, Node

\* insertNode scaffolds what it needs: a tree stays a tree.
LEMMA InsertKeepsTree ==
  ASSUME NEW tree, IsTree(tree), NEW p \in Paths, NEW node \in Node
  PROVE  IsTree(InsertNode(tree, p, node))
<1> DEFINE t == InsertNode(tree, p, node)
<1>1. t \in Trees
  BY NodesTyped DEF IsTree, Trees, InsertNode
<1>2. \A q \in Paths : t[q] = IF q = p THEN node
                              ELSE IF q \in Above[p] THEN Folder
                              ELSE IF p \in Above[q] THEN Absent
                              ELSE tree[q]
  BY DEF InsertNode
<1> HIDE DEF t
<1>3. ASSUME NEW q \in Paths, t[q].kind # "absent", NEW a \in Above[q]
      PROVE  t[a].kind = "folder"
  <2>1. a \in Paths /\ a # q /\ Above[a] \subseteq Above[q] /\ Above[q] \subseteq Paths
    BY PathsAssumption
  <2>2. Above[p] \subseteq Paths /\ p \notin Above[p]
        /\ \A b \in Above[p] : Above[b] \subseteq Above[p]
    BY PathsAssumption
  <2>3. p \notin Above[q] \/ q = p \/ q \in Above[p]
    BY <1>2, <1>3 DEF Absent
  <2>4. CASE q = p \/ q \in Above[p]
    <3>1. a \in Above[p] /\ a # p
      BY <2>1, <2>2, <2>4
    <3> QED
      BY <1>2, <2>1, <3>1 DEF Folder
  <2>5. CASE ~(q = p \/ q \in Above[p])
    <3>1. t[q] = tree[q] /\ tree[a].kind = "folder"
      BY <1>2, <1>3, <2>3, <2>5 DEF IsTree
    <3>2. a # p /\ p \notin Above[a]
      BY <2>1, <2>3, <2>5
    <3> QED
      BY <1>2, <2>1, <3>1, <3>2 DEF Folder
  <2> QED
    BY <2>4, <2>5
<1> QED
  BY <1>1, <1>3 DEF IsTree, t

\* removeNode takes what stood beneath along.
LEMMA RemoveKeepsTree ==
  ASSUME NEW tree, IsTree(tree), NEW p \in Paths
  PROVE  IsTree(RemoveNode(tree, p))
<1> DEFINE t == RemoveNode(tree, p)
<1>1. t \in Trees
  BY NodesTyped DEF IsTree, Trees, RemoveNode
<1>2. \A q \in Paths : t[q] = IF q = p \/ p \in Above[q] THEN Absent ELSE tree[q]
  BY DEF RemoveNode
<1> HIDE DEF t
<1>3. ASSUME NEW q \in Paths, t[q].kind # "absent", NEW a \in Above[q]
      PROVE  t[a].kind = "folder"
  <2>1. q # p /\ p \notin Above[q] /\ t[q] = tree[q]
    BY <1>2, <1>3 DEF Absent
  <2>2. a \in Paths /\ a # p /\ p \notin Above[a] /\ tree[a].kind = "folder"
    BY <1>3, <2>1, PathsAssumption DEF IsTree
  <2> QED
    BY <1>2, <2>2
<1> QED
  BY <1>1, <1>3 DEF IsTree, t

\* Whatever the row, applyOne makes a tree of a tree.
LEMMA ApplyKeepsTree ==
  ASSUME NEW tree, IsTree(tree), NEW p \in Paths, NEW row \in Row
  PROVE  IsTree(ApplyOne(tree, p, row))
<1>1. CASE row.node = "directory"
  BY <1>1, InsertKeepsTree, NodesTyped DEF ApplyOne
<1>2. CASE row.node # "directory" /\ row.text = None
  BY <1>2, RemoveKeepsTree DEF ApplyOne
<1>3. CASE row.node # "directory" /\ row.text # None
  <2>1. File(row.text) \in Node
    BY <1>3, NodesTyped DEF Row
  <2> QED
    BY <1>3, <2>1, InsertKeepsTree DEF ApplyOne
<1> QED
  BY <1>1, <1>2, <1>3

\* The world generates a tree.
LEMMA GeneratedIsTree == IsTree(Generated)
<1>1. Generated \in Trees
  <2>1. <<>> \in Seq(Nat)
    OBVIOUS
  <2>2. {Absent, Folder, File(<<>>)} \subseteq Node
    BY <2>1, NodesTyped
  <2> QED
    BY <2>2, PathsAssumption DEF Trees
<1>2. ASSUME NEW p \in Paths, Generated[p].kind # "absent", NEW q \in Above[p]
      PROVE  Generated[q].kind = "folder"
  BY <1>2, PathsAssumption DEF Absent, Folder
<1> QED
  BY <1>1, <1>2 DEF IsTree

\* The rows as the database keeps them: stamped up to the clock, no two alike,
\* and no content without a stamp.
Stamped ==
  \A r \in Rows :
    /\ journal[r].stamp <= clock
    /\ journal[r].stamp = 0 => journal[r] = NoRow
    /\ \A s \in Rows : journal[r].stamp > 0 /\ journal[r].stamp = journal[s].stamp => r = s

Kept == clock \in Nat /\ journal \in [Rows -> Row] /\ Stamped

\* At a stamp nothing lands, or the one row that carries it does.
LandsNothing(tree, n) == (\A r \in Rows : journal[r].stamp # n) /\ Land(tree, n) = tree
LandsRow(tree, n, p, x) ==
  /\ journal[<<p, x>>].stamp = n
  /\ \A r \in Rows : journal[r].stamp = n => r = <<p, x>>
  /\ Land(tree, n) = ApplyOne(tree, p, journal[<<p, x>>])

\* Stamps are distinct, so at most one row lands at each.
LEMMA LandOf ==
  ASSUME Kept, NEW n \in 1 .. clock, NEW tree
  PROVE  LandsNothing(tree, n) \/ \E p \in Paths, x \in Writers : LandsRow(tree, n, p, x)
<1>1. CASE \E r \in Rows : journal[r].stamp = n
  <2> DEFINE r == CHOOSE r \in Rows : journal[r].stamp = n
  <2>1. r \in Rows /\ journal[r].stamp = n /\ Land(tree, n) = ApplyOne(tree, r[1], journal[r])
    BY <1>1 DEF Land
  <2> HIDE DEF r
  <2>2. PICK p \in Paths, x \in Writers : r = <<p, x>>
    BY <2>1 DEF Rows
  <2>3. \A s \in Rows : journal[s].stamp = n => s = r
    BY <2>1 DEF Kept, Stamped
  <2> QED
    BY <2>1, <2>2, <2>3 DEF LandsRow
<1>2. CASE ~ \E r \in Rows : journal[r].stamp = n
  BY <1>2 DEF Land, LandsNothing
<1> QED
  BY <1>1, <1>2

\* Every prefix of the replay is a tree.
LEMMA ReplayTrees ==
  ASSUME Kept
  PROVE  \A n \in 0 .. clock : IsTree(Replay[n])
<1> DEFINE S == {n \in Nat : IsTree(Replay[n])}
<1>1. clock \in Nat
  BY DEF Kept
<1>2. 0 \in S
  BY <1>1, ReplayStep, GeneratedIsTree
<1>3. ASSUME NEW n \in 1 .. clock, n - 1 \in S PROVE n \in S
  <2>1. IsTree(Replay[n - 1]) /\ Replay[n] = Land(Replay[n - 1], n)
    BY <1>1, <1>3, ReplayStep
  <2>2. \A p \in Paths, x \in Writers : journal[<<p, x>>] \in Row
    BY DEF Kept, Rows
  <2>3. IsTree(Land(Replay[n - 1], n))
    <3> DEFINE tree == Replay[n - 1]
    <3>1. IsTree(tree)
      BY <2>1
    <3> HIDE DEF tree
    <3>2. ASSUME NEW p \in Paths, NEW x \in Writers, LandsRow(tree, n, p, x)
          PROVE  IsTree(Land(tree, n))
      BY <2>2, <3>1, <3>2, ApplyKeepsTree DEF LandsRow
    <3>3. IsTree(Land(tree, n))
      BY <3>1, <3>2, LandOf DEF LandsNothing
    <3> QED
      BY <3>3 DEF tree
  <2> QED
    BY <1>1, <2>1, <2>3
<1> HIDE DEF S
<1>4. \A n \in 0 .. clock : n \in S
  BY <1>1, <1>2, <1>3, Counting
<1> QED
  BY <1>4 DEF S

\* A reader sees a node at every path.
LEMMA ShownTyped ==
  ASSUME Kept
  PROVE  \A p \in Paths : Shown[p] \in Node /\ Shown[p].text \in Seq(Nat)
<1>1. IsTree(Shown)
  BY ReplayTrees DEF Kept, Shown
<1> QED
  BY <1>1 DEF IsTree, Trees, Node

-----------------------------------------------------------------------------
(* What a replay shows.                                                    *)

\* The file rows at q stamped up to n, the newest of them, and a row that none
\* stamped after it up to n hides.
FilesAt(q, n) == {x \in Writers : /\ journal[<<q, x>>].node = "file"
                                  /\ journal[<<q, x>>].text # None
                                  /\ journal[<<q, x>>].stamp <= n}
Newest(q, n) == {x \in FilesAt(q, n) : \A y \in FilesAt(q, n) :
                                         journal[<<q, y>>].stamp <= journal[<<q, x>>].stamp}
OutlivesTo(q, stamp, n) ==
  \A r \in Rows : journal[r].stamp > stamp /\ journal[r].stamp <= n => ~Hides(q, r)

Seen(tree, n, q) ==
  /\ \A x \in Newest(q, n) : OutlivesTo(q, journal[<<q, x>>].stamp, n)
                             => tree[q] = File(journal[<<q, x>>].text)
  /\ tree[q].kind = "file"
     => \/ \E x \in Newest(q, n) : OutlivesTo(q, journal[<<q, x>>].stamp, n)
        \/ FilesAt(q, n) = {} /\ tree[q] = Generated[q] /\ OutlivesTo(q, 0, n)

\* A step that applies no row hiding q, and no file row at q, leaves what is seen
\* of q as it was.
LEMMA SeenUntouched ==
  ASSUME Kept, NEW n \in 1 .. clock, NEW q \in Paths, NEW t, NEW u,
         Seen(t, n - 1, q), u[q] = t[q],
         \A r \in Rows : journal[r].stamp = n =>
           /\ ~Hides(q, r)
           /\ ~(r[1] = q /\ journal[r].node = "file" /\ journal[r].text # None)
  PROVE  Seen(u, n, q)
<1>1. FilesAt(q, n) = FilesAt(q, n - 1)
  <2>1. ASSUME NEW x \in FilesAt(q, n) PROVE journal[<<q, x>>].stamp # n
    BY <2>1 DEF FilesAt, Rows
  <2>2. \A x \in Writers : journal[<<q, x>>].stamp \in Nat
    BY DEF Kept, Rows, Row
  <2> QED
    BY <2>1, <2>2 DEF FilesAt
<1>2. Newest(q, n) = Newest(q, n - 1)
  BY <1>1 DEF Newest
<1>3. ASSUME NEW stamp PROVE OutlivesTo(q, stamp, n) <=> OutlivesTo(q, stamp, n - 1)
  <2>1. \A r \in Rows : journal[r].stamp \in Nat
    BY DEF Kept, Row
  <2>2. \A r \in Rows : journal[r].stamp <= n => journal[r].stamp = n \/ journal[r].stamp <= n - 1
    BY <2>1
  <2>3. \A r \in Rows : journal[r].stamp <= n - 1 => journal[r].stamp <= n
    BY <2>1
  <2> QED
    BY <2>2, <2>3 DEF OutlivesTo
<1> QED
  BY <1>1, <1>2, <1>3 DEF Seen

\* A step that hides q leaves no file there.
LEMMA SeenHidden ==
  ASSUME Kept, NEW n \in 1 .. clock, NEW q \in Paths, NEW u, NEW r \in Rows,
         journal[r].stamp = n, Hides(q, r), u[q].kind # "file",
         ~(r[1] = q /\ journal[r].node = "file" /\ journal[r].text # None)
  PROVE  Seen(u, n, q)
<1>1. ASSUME NEW x \in Newest(q, n) PROVE ~OutlivesTo(q, journal[<<q, x>>].stamp, n)
  <2>1. x \in Writers /\ <<q, x>> \in Rows /\ <<q, x>>[1] = q
    BY <1>1 DEF Newest, FilesAt, Rows
  <2>2. journal[<<q, x>>].stamp <= n /\ <<q, x>> # r
    BY <1>1, <2>1 DEF Newest, FilesAt
  <2>3. journal[<<q, x>>].stamp # n
    BY <2>1, <2>2 DEF Kept, Stamped
  <2>4. journal[<<q, x>>].stamp \in Nat
    BY <2>1 DEF Kept, Row
  <2>5. journal[r].stamp > journal[<<q, x>>].stamp /\ journal[r].stamp <= n
    BY <2>2, <2>3, <2>4
  <2> QED
    BY <2>5 DEF OutlivesTo
<1> QED
  BY <1>1 DEF Seen

\* A file row at q is the newest, and is what is seen.
LEMMA SeenWritten ==
  ASSUME Kept, NEW n \in 1 .. clock, NEW q \in Paths, NEW x \in Writers, NEW u,
         journal[<<q, x>>].stamp = n,
         journal[<<q, x>>].node = "file", journal[<<q, x>>].text # None,
         u[q] = File(journal[<<q, x>>].text)
  PROVE  Seen(u, n, q)
<1>1. \A y \in Writers : <<q, y>> \in Rows /\ journal[<<q, y>>].stamp \in Nat
  BY DEF Kept, Rows, Row
<1>2. x \in FilesAt(q, n)
  BY DEF FilesAt
<1>3. x \in Newest(q, n)
  BY <1>2 DEF Newest, FilesAt
<1>4. ASSUME NEW y \in Newest(q, n) PROVE y = x
  <2>1. y \in Writers /\ journal[<<q, y>>].stamp <= n /\ n <= journal[<<q, y>>].stamp
    BY <1>2, <1>4 DEF Newest, FilesAt
  <2>2. journal[<<q, y>>].stamp = n
    BY <1>1, <2>1
  <2>3. <<q, y>> = <<q, x>>
    BY <1>1, <2>1, <2>2 DEF Kept, Stamped
  <2> QED
    BY <2>3
<1>5. OutlivesTo(q, journal[<<q, x>>].stamp, n)
  <2>1. \A r \in Rows : journal[r].stamp \in Nat
    BY DEF Kept, Row
  <2> QED
    BY <2>1 DEF OutlivesTo
<1> QED
  BY <1>3, <1>4, <1>5 DEF Seen

\* Landing the next row keeps what is seen of q the newest write that nothing hides.
LEMMA SeenStep ==
  ASSUME Kept, NEW n \in 1 .. clock, NEW tree, IsTree(tree), NEW q \in Paths,
         Seen(tree, n - 1, q)
  PROVE  Seen(Land(tree, n), n, q)
<1> DEFINE u == Land(tree, n)
<1>1. CASE /\ \A r \in Rows : journal[r].stamp # n
           /\ u = tree
  BY <1>1, SeenUntouched
<1>2. ASSUME NEW p \in Paths, NEW x \in Writers,
             journal[<<p, x>>].stamp = n,
             \A r \in Rows : journal[r].stamp = n => r = <<p, x>>,
             u = ApplyOne(tree, p, journal[<<p, x>>])
      PROVE  Seen(u, n, q)
  <2> DEFINE r == <<p, x>>
             row == journal[r]
  <2>1. r \in Rows /\ r[1] = p /\ row \in Row
    BY DEF Kept, Rows
  <2>2. p \notin Above[p] /\ Above[p] \subseteq Paths /\ Above[q] \subseteq Paths
        /\ \A b \in Above[p] : Above[b] \subseteq Above[p]
        /\ \A c \in Above[q] : Above[c] \subseteq Above[q]
        /\ q \notin Above[q]
    BY PathsAssumption
  <2> HIDE DEF u
  <2>3. CASE row.node = "directory"
    <3>1. Hides(q, r) <=> q \in Above[p]
      BY <2>1, <2>3 DEF Hides
    <3>2. CASE tree[p].kind # "absent"
      <4>1. u = tree
        BY <1>2, <2>3, <3>2 DEF ApplyOne
      <4>2. CASE q \in Above[p]
        <5>1. u[q].kind # "file"
          BY <3>2, <4>1, <4>2 DEF IsTree
        <5> QED
          BY <1>2, <2>1, <2>3, <3>1, <4>2, <5>1, SeenHidden
      <4>3. CASE q \notin Above[p]
        BY <1>2, <2>1, <2>3, <3>1, <4>1, <4>3, SeenUntouched
      <4> QED
        BY <4>2, <4>3
    <3>3. CASE tree[p].kind = "absent"
      <4>1. u[q] = IF q = p THEN Folder
                   ELSE IF q \in Above[p] THEN Folder
                   ELSE IF p \in Above[q] THEN Absent
                   ELSE tree[q]
        BY <1>2, <2>3, <3>3 DEF ApplyOne, InsertNode
      <4>2. CASE q \in Above[p]
        <5>1. u[q].kind # "file"
          BY <4>1, <4>2 DEF Folder
        <5> QED
          BY <1>2, <2>1, <2>3, <3>1, <4>2, <5>1, SeenHidden
      <4>3. CASE q \notin Above[p] /\ (q = p \/ p \in Above[q])
        <5>1. tree[q].kind = "absent"
          BY <3>3, <4>3 DEF IsTree
        <5>2. u[q].kind # "file"
          BY <4>1, <4>3 DEF Folder, Absent
        <5>3. ASSUME NEW y \in Newest(q, n - 1),
                     OutlivesTo(q, journal[<<q, y>>].stamp, n - 1)
              PROVE  FALSE
          <6>1. tree[q] = File(journal[<<q, y>>].text)
            BY <5>3 DEF Seen
          <6> QED
            BY <5>1, <6>1 DEF File
        <5>4. Seen(u, n - 1, q)
          BY <5>2, <5>3 DEF Seen
        <5> QED
          BY <1>2, <2>1, <2>3, <3>1, <4>3, <5>4, SeenUntouched
      <4>4. CASE q \notin Above[p] /\ q # p /\ p \notin Above[q]
        <5>1. u[q] = tree[q]
          BY <4>1, <4>4
        <5> QED
          BY <1>2, <2>1, <2>3, <3>1, <4>4, <5>1, SeenUntouched
      <4> QED
        BY <4>2, <4>3, <4>4
    <3> QED
      BY <3>2, <3>3
  <2>4. CASE row.node # "directory" /\ row.text = None
    <3>1. Hides(q, r) <=> q = p \/ p \in Above[q]
      BY <2>1, <2>4 DEF Hides
    <3>2. u[q] = IF q = p \/ p \in Above[q] THEN Absent ELSE tree[q]
      BY <1>2, <2>4 DEF ApplyOne, RemoveNode
    <3>3. CASE q = p \/ p \in Above[q]
      <4>1. u[q].kind # "file"
        BY <3>2, <3>3 DEF Absent
      <4> QED
        BY <1>2, <2>1, <2>4, <3>1, <3>3, <4>1, SeenHidden
    <3>4. CASE ~(q = p \/ p \in Above[q])
      BY <1>2, <2>1, <2>4, <3>1, <3>2, <3>4, SeenUntouched
    <3> QED
      BY <3>3, <3>4
  <2>5. CASE row.node # "directory" /\ row.text # None
    <3>1. row.node = "file"
      BY <2>1, <2>5 DEF Row
    <3>2. Hides(q, r) <=> q \in Above[p] \/ p \in Above[q]
      BY <2>1, <2>5 DEF Hides
    <3>3. u[q] = IF q = p THEN File(row.text)
                 ELSE IF q \in Above[p] THEN Folder
                 ELSE IF p \in Above[q] THEN Absent
                 ELSE tree[q]
      BY <1>2, <2>5 DEF ApplyOne, InsertNode
    <3>4. CASE q = p
      BY <1>2, <2>5, <3>1, <3>3, <3>4, SeenWritten
    <3>5. CASE q # p /\ (q \in Above[p] \/ p \in Above[q])
      <4>1. u[q].kind # "file"
        BY <3>3, <3>5 DEF Folder, Absent
      <4> QED
        BY <1>2, <2>1, <3>2, <3>5, <4>1, SeenHidden
    <3>6. CASE q # p /\ q \notin Above[p] /\ p \notin Above[q]
      <4>1. u[q] = tree[q]
        BY <3>3, <3>6
      <4> QED
        BY <1>2, <2>1, <3>2, <3>6, <4>1, SeenUntouched
    <3> QED
      BY <3>4, <3>5, <3>6
  <2> QED
    BY <2>3, <2>4, <2>5
<1>3. CASE LandsNothing(tree, n)
  BY <1>1, <1>3 DEF LandsNothing
<1>4. ASSUME NEW p \in Paths, NEW x \in Writers, LandsRow(tree, n, p, x)
      PROVE  Seen(u, n, q)
  BY <1>2, <1>4 DEF LandsRow
<1> QED
  BY <1>3, <1>4, LandOf

\* So what a reader sees of q is that.
LEMMA SeenAll ==
  ASSUME Kept, NEW q \in Paths
  PROVE  Seen(Shown, clock, q)
<1> DEFINE S == {n \in Nat : Seen(Replay[n], n, q)}
<1>1. clock \in Nat
  BY DEF Kept
<1>2. 0 \in S
  <2>1. \A x \in Writers : <<q, x>> \in Rows /\ journal[<<q, x>>].stamp \in Nat
    BY DEF Kept, Rows, Row
  <2>2. ASSUME NEW x \in Writers, journal[<<q, x>>].stamp <= 0
        PROVE  journal[<<q, x>>].text = None
    BY <2>1, <2>2 DEF Kept, Stamped, NoRow
  <2>3. FilesAt(q, 0) = {} /\ Newest(q, 0) = {}
    BY <2>2 DEF FilesAt, Newest
  <2>4. OutlivesTo(q, 0, 0)
    BY DEF OutlivesTo, Kept, Row
  <2>5. Replay[0] = Generated
    BY <1>1, ReplayStep
  <2> QED
    BY <2>3, <2>4, <2>5 DEF Seen
<1>3. ASSUME NEW n \in 1 .. clock, n - 1 \in S PROVE n \in S
  <2>1. Replay[n] = Land(Replay[n - 1], n)
    BY <1>1, ReplayStep
  <2>2. IsTree(Replay[n - 1]) /\ Seen(Replay[n - 1], n - 1, q)
    BY <1>1, <1>3, ReplayTrees
  <2>3. Seen(Land(Replay[n - 1], n), n, q)
    BY <2>2, SeenStep
  <2> QED
    BY <1>1, <2>1, <2>3
<1> HIDE DEF S
<1>4. clock \in S
  BY <1>1, <1>2, <1>3, Counting
<1> QED
  BY <1>4 DEF S, Shown

\* It is what LastWriteWins says.
LEMMA ReplayIsLastWriteWins ==
  ASSUME Kept
  PROVE  LastWriteWins
<1> DEFINE files(q) == {x \in Writers : journal[<<q, x>>].node = "file" /\ journal[<<q, x>>].text # None}
           newest(q) == {x \in files(q) : \A y \in files(q) :
                                            journal[<<q, y>>].stamp <= journal[<<q, x>>].stamp}
<1> SUFFICES ASSUME NEW q \in Paths
             PROVE  IF \E x \in newest(q) : Outlives(q, journal[<<q, x>>].stamp)
                      THEN Shown[q] = File(journal[<<q, CHOOSE x \in newest(q) : TRUE>>].text)
                      ELSE Shown[q].kind = "file"
                             => files(q) = {} /\ Shown[q] = Generated[q] /\ Outlives(q, 0)
  BY Zenon DEF LastWriteWins
<1>1. \A r \in Rows : journal[r].stamp \in Nat /\ journal[r].stamp <= clock
  BY DEF Kept, Stamped, Row
<1>2. \A x \in Writers : <<q, x>> \in Rows
  BY DEF Rows
<1>3. files(q) = FilesAt(q, clock)
  BY <1>1, <1>2 DEF FilesAt
<1>4. newest(q) = Newest(q, clock)
  BY <1>3 DEF Newest
<1>5. \A stamp : Outlives(q, stamp) <=> OutlivesTo(q, stamp, clock)
  BY <1>1 DEF Outlives, OutlivesTo
<1>6. Seen(Shown, clock, q)
  BY SeenAll
<1> HIDE DEF files, newest
<1>7. ASSUME NEW x \in newest(q), NEW y \in newest(q) PROVE x = y
  <2>1. x \in Writers /\ y \in Writers
        /\ journal[<<q, y>>].stamp <= journal[<<q, x>>].stamp
        /\ journal[<<q, x>>].stamp <= journal[<<q, y>>].stamp
        /\ journal[<<q, x>>].text # None
    BY <1>7 DEF newest, files
  <2>2. journal[<<q, x>>].stamp = journal[<<q, y>>].stamp
    BY <1>1, <1>2, <2>1
  <2>3. journal[<<q, x>>].stamp # 0
    BY <1>2, <2>1 DEF Kept, Stamped, NoRow
  <2>4. <<q, x>> = <<q, y>>
    BY <1>1, <1>2, <2>1, <2>2, <2>3 DEF Kept, Stamped
  <2> QED
    BY <2>4
<1>8. CASE \E x \in newest(q) : Outlives(q, journal[<<q, x>>].stamp)
  <2>1. PICK x \in newest(q) : Outlives(q, journal[<<q, x>>].stamp)
    BY <1>8
  <2>2. (CHOOSE y \in newest(q) : TRUE) = x
    BY <1>7, <2>1
  <2>3. Shown[q] = File(journal[<<q, x>>].text)
    BY <1>4, <1>5, <1>6, <2>1 DEF Seen
  <2> QED
    BY <1>8, <2>2, <2>3
<1>9. CASE ~ \E x \in newest(q) : Outlives(q, journal[<<q, x>>].stamp)
  BY <1>3, <1>4, <1>5, <1>6, <1>9 DEF Seen
<1> QED
  BY <1>8, <1>9

-----------------------------------------------------------------------------
(* The invariant: types, stamps, and what a request in flight holds.       *)

Serving(call) ==
  /\ call.step \in {"edit", "check", "write", "mkdir", "delete", "descend", "mark"}
     => call.player \in Players /\ call.path \in Paths
  /\ call.step \in {"check", "write", "mkdir", "delete", "descend", "mark"}
     => call.hand \in Hands

Typed == TypeOK /\ Stamped /\ \A w \in Workers : Serving(calls[w])

\* The part of the invariant the replay needs.
LEMMA TypedIsKept == Typed => Kept
BY DEF Typed, TypeOK, Kept

\* System lines are filed under a writer key.
LEMMA KeysAreWriters ==
  /\ SystemKey \in Writers /\ Network \in Writers /\ Players \subseteq Writers
  /\ \A p \in Paths, x \in Writers : <<p, x>> \in Rows
BY WritersAssumption DEF SystemKey, Writers, Rows

\* An append reads a text, never a deletion marker.
LEMMA LogReadTyped ==
  ASSUME Kept
  PROVE  LogRead \in Seq(Nat)
<1> DEFINE x == CHOOSE x \in Latest(Log) : TRUE
<1>1. CASE \E y \in Latest(Log) : journal[<<Log, y>>].text # None
  <2>1. PICK y \in Latest(Log) : journal[<<Log, y>>].text # None
    BY <1>1
  <2>2. x \in Latest(Log)
    BY <2>1
  <2> HIDE DEF x
  <2>3. x \in Writers /\ y \in Writers /\ <<Log, x>> \in Rows /\ <<Log, y>> \in Rows
    BY <2>1, <2>2, PathsAssumption DEF Latest, Rows
  <2>4. /\ journal[<<Log, x>>].stamp <= journal[<<Log, y>>].stamp
        /\ journal[<<Log, y>>].stamp <= journal[<<Log, x>>].stamp
        /\ journal[<<Log, x>>].stamp > 0
    BY <2>1, <2>2, <2>3 DEF Latest
  <2>5. journal[<<Log, x>>].stamp \in Nat /\ journal[<<Log, y>>].stamp \in Nat
    BY <2>3 DEF Kept, Row
  <2>6. journal[<<Log, x>>].stamp = journal[<<Log, y>>].stamp
    BY <2>4, <2>5
  <2>7. <<Log, x>> = <<Log, y>>
    BY <2>3, <2>4, <2>6 DEF Kept, Stamped
  <2>8. journal[<<Log, x>>].text \in Seq(Nat)
    BY <2>1, <2>3, <2>7 DEF Kept, Row
  <2>9. LogRead = journal[<<Log, x>>].text
    BY <1>1 DEF LogRead, x
  <2> QED
    BY <2>8, <2>9
<1>2. CASE ~ \E y \in Latest(Log) : journal[<<Log, y>>].text # None
  <2>1. LogRead = <<>>
    BY <1>2 DEF LogRead
  <2> QED
    BY <2>1
<1> QED
  BY <1>1, <1>2

\* An upsert stamps one row later than all others.
LEMMA UpsertKeeps ==
  ASSUME Kept, touched \in Nat, NEW p \in Paths, NEW x \in Writers,
         NEW node \in {"file", "directory"}, NEW text \in {None} \cup Seq(Nat),
         NEW by \in Hands \cup {"system", "guardian"},
         Upsert(p, x, node, text, by)
  PROVE  /\ journal' \in [Rows -> Row] /\ Stamped'
         /\ clock' = clock + 1 /\ clock' \in Nat /\ touched' \in Nat
         /\ journal'[<<p, x>>] = [stamp |-> clock + 1, node |-> node, text |-> text, by |-> by]
         /\ \A r \in Rows : r # <<p, x>> => journal'[r] = journal[r]
<1> DEFINE row == [stamp |-> clock + 1, node |-> node, text |-> text, by |-> by]
<1>1. <<p, x>> \in Rows /\ row \in Row
  BY DEF Rows, Row, Kept
<1>2. journal' = [journal EXCEPT ![<<p, x>>] = row] /\ clock' = clock + 1
  BY DEF Upsert
<1>3. row.stamp = clock + 1
  OBVIOUS
<1> HIDE DEF row
<1>4. journal' \in [Rows -> Row] /\ journal'[<<p, x>>] = row
      /\ \A r \in Rows : r # <<p, x>> => journal'[r] = journal[r]
  BY <1>1, <1>2 DEF Kept
<1>5. clock \in Nat /\ \A r \in Rows : journal[r].stamp \in Nat
  BY DEF Kept, Row
<1>6. ASSUME NEW r \in Rows
      PROVE  /\ journal'[r].stamp <= clock'
             /\ journal'[r].stamp = 0 => journal'[r] = NoRow
             /\ \A s \in Rows : journal'[r].stamp > 0 /\ journal'[r].stamp = journal'[s].stamp
                                  => r = s
  <2>1. journal[r].stamp <= clock /\ \A s \in Rows : journal[s].stamp <= clock
    BY DEF Kept, Stamped
  <2>2. CASE r = <<p, x>>
    <3>1. \A s \in Rows : s # r => journal'[s].stamp # clock + 1
      BY <1>4, <1>5, <2>1, <2>2
    <3> QED
      BY <1>2, <1>3, <1>4, <1>5, <2>2, <3>1
  <2>3. CASE r # <<p, x>>
    <3>1. journal'[r] = journal[r] /\ journal[r].stamp <= clock'
      BY <1>2, <1>4, <1>5, <2>1, <2>3
    <3>2. \A s \in Rows : journal'[s] = journal[s] \/ journal'[s].stamp = clock + 1
      BY <1>3, <1>4
    <3>3. journal[r].stamp # clock + 1
      BY <1>5, <2>1
    <3> QED
      BY <1>3, <1>4, <1>5, <3>1, <3>2, <3>3 DEF Kept, Stamped
  <2> QED
    BY <2>2, <2>3
<1>7. touched' \in Nat /\ clock' \in Nat
  BY <1>2, <1>5 DEF Upsert
<1> QED
  BY <1>2, <1>4, <1>6, <1>7 DEF Stamped, row

\* A delete leaves rows whole or gone.
LEMMA DeleteKeeps ==
  ASSUME Kept, NEW which, Delete(which), clock' = clock
  PROVE  /\ journal' \in [Rows -> Row] /\ Stamped'
         /\ clock' \in Nat /\ touched' \in Nat
         /\ \A r \in Rows : journal'[r] = IF r \in which THEN NoRow ELSE journal[r]
<1>1. NoRow \in Row /\ NoRow.stamp = 0
  BY DEF NoRow, Row
<1>2. \A r \in Rows : journal'[r] = IF r \in which THEN NoRow ELSE journal[r]
  BY DEF Delete
<1>3. journal' \in [Rows -> Row]
  BY <1>1 DEF Delete, Kept
<1>4. Stamped'
  BY <1>1, <1>2 DEF Stamped, Kept
<1> QED
  BY <1>2, <1>3, <1>4 DEF Delete, Kept

\* A request moves on: what it holds is typed.
LEMMA CallKeeps ==
  ASSUME Typed, NEW w \in Workers, NEW call \in Call, Serving(call),
         calls' = [calls EXCEPT ![w] = call]
  PROVE  calls' \in [Workers -> Call] /\ \A v \in Workers : Serving(calls'[v])
BY DEF Typed, TypeOK

\* An idle worker holds nothing.
LEMMA NoCallServes == NoCall \in Call /\ Serving(NoCall)
BY DEF NoCall, Call, Steps, Serving

\* A request that ends holds nothing.
LEMMA DoneKeeps ==
  ASSUME Typed, NEW w \in Workers, Done(w)
  PROVE  calls' \in [Workers -> Call] /\ \A v \in Workers : Serving(calls'[v])
BY NoCallServes, CallKeeps DEF Done

\* A request past its authorisation goes on holding its player, path and hand.
LEMMA GotoKeeps ==
  ASSUME Typed, NEW w \in Workers, NEW step \in Steps, Goto(w, step),
         calls[w].step \in {"check", "write", "mkdir", "delete", "descend", "mark"}
  PROVE  calls' \in [Workers -> Call] /\ \A v \in Workers : Serving(calls'[v])
<1>1. calls[w] \in Call /\ Serving(calls[w])
  BY DEF Typed, TypeOK
<1> DEFINE call == [calls[w] EXCEPT !.step = step]
<1>2. call \in Call
  BY <1>1 DEF Call
<1>3. Serving(call)
  BY <1>1 DEF Call, Serving
<1>4. calls' = [calls EXCEPT ![w] = call]
  BY DEF Goto
<1> HIDE DEF call
<1> QED
  BY <1>2, <1>3, <1>4, CallKeeps

\* A request let in holds its player, path and hand.
LEMMA RequestKeeps ==
  ASSUME Typed, NEW w \in Workers, NEW p \in Players, NEW path \in Paths,
         NEW step \in Steps, Request(w, step, p, path)
  PROVE  calls' \in [Workers -> Call] /\ \A v \in Workers : Serving(calls'[v])
<1> DEFINE call == [NoCall EXCEPT !.step = step, !.player = p, !.path = path,
                                  !.hand = HandOf(p)]
<1>1. HandOf(p) \in Hands
  BY DEF Request, Authorized, HandOf, Hands, Typed, TypeOK
<1>2. NoCall \in Call
  BY NoCallServes
<1>3. call \in Call /\ Serving(call)
  BY <1>1, <1>2 DEF Call, Serving
<1>4. calls' = [calls EXCEPT ![w] = call]
  BY DEF Request, Begin
<1> HIDE DEF call
<1> QED
  BY <1>3, <1>4, CallKeeps

\* A step that leaves the rows alone keeps them.
LEMMA RowsKeep ==
  ASSUME Typed, UNCHANGED <<journal, clock, touched>>
  PROVE  journal' \in [Rows -> Row] /\ Stamped' /\ clock' \in Nat /\ touched' \in Nat
BY DEF Typed, TypeOK, Stamped

\* The invariant holds of an empty journal.
LEMMA TypedInit == Init => Typed
<1> SUFFICES ASSUME Init PROVE Typed
  OBVIOUS
<1>1. NoRow \in Row /\ NoRow.stamp = 0
  BY DEF NoRow, Row
<1>2. journal \in [Rows -> Row] /\ Stamped
  BY <1>1 DEF Init, Stamped
<1>3. calls \in [Workers -> Call] /\ \A w \in Workers : Serving(calls[w])
  BY NoCallServes DEF Init
<1>4. guardian \in [step : {"ready", "wipe", "clean", "restored", "round", "done"},
                    base : Seq(Nat)]
  BY DEF Init
<1>5. clock \in Nat /\ touched \in Nat /\ removed \in [Paths -> Nat]
      /\ shells \in [Players -> {"closed", "old", "new"}]
  BY DEF Init
<1> QED
  BY <1>2, <1>3, <1>4, <1>5 DEF Typed, TypeOK

\* It holds after a request is let in.
LEMMA TypedStart ==
  ASSUME Typed, NEW w \in Workers, NEW p \in Players, NEW path \in Paths,
         Start(w, p, path)
  PROVE  Typed'
<1>1. UNCHANGED <<journal, clock, shells, guardian, removed, touched>>
  BY DEF Start, OpenEditor, Redirect, MakeDirectory, StartRemove
<1>2. calls' \in [Workers -> Call] /\ \A v \in Workers : Serving(calls'[v])
  <2>2. CASE OpenEditor(w, p, path)
    <3> DEFINE call == [NoCall EXCEPT !.step = "edit", !.player = p, !.path = path,
                                      !.base = Shown[path].text]
    <3>1. "edit" \in Steps /\ NoCall \in Call /\ Shown[path].text \in Seq(Nat)
      BY NoCallServes, TypedIsKept, ShownTyped DEF Steps
    <3>2. call \in Call /\ Serving(call)
      BY <3>1 DEF Call, Serving
    <3>3. calls' = [calls EXCEPT ![w] = call]
      BY <2>2 DEF OpenEditor, Begin
    <3> HIDE DEF call
    <3> QED
      BY <3>2, <3>3, CallKeeps
  <2>3. CASE Redirect(w, p, path)
    BY <2>3, RequestKeeps DEF Redirect, Steps
  <2>4. CASE MakeDirectory(w, p, path)
    BY <2>4, RequestKeeps DEF MakeDirectory, Steps
  <2>5. CASE StartRemove(w, p, path)
    BY <2>5, RequestKeeps DEF StartRemove, Steps
  <2> QED
    BY <2>2, <2>3, <2>4, <2>5 DEF Start
<1> QED
  BY <1>1, <1>2, RowsKeep DEF Typed, TypeOK

\* The steps of a request that write a row: they end it.
LEMMA TypedWrite ==
  ASSUME Typed, NEW w \in Workers,
         \/ AppendLog(w) \/ WriteFile(w) \/ WriteDirectory(w) \/ Tombstone(w)
  PROVE  Typed'
<1> DEFINE call == calls[w]
<1>1. Kept /\ touched \in Nat
  BY TypedIsKept DEF Typed, TypeOK
<1>2. call \in Call /\ Serving(call)
  BY DEF Typed, TypeOK
<1>3. Done(w) /\ UNCHANGED <<shells, guardian>>
  BY DEF AppendLog, WriteFile, WriteDirectory, Tombstone
<1>4. clock \in Nat
  BY DEF Typed, TypeOK
<1>5. removed' \in [Paths -> Nat]
  BY <1>4 DEF AppendLog, WriteFile, WriteDirectory, Tombstone, Typed, TypeOK
<1> HIDE DEF call
<1>6. journal' \in [Rows -> Row] /\ Stamped' /\ clock' \in Nat /\ touched' \in Nat
  <2>1. CASE AppendLog(w)
    <3>1. Append(call.base, clock + 1) \in Seq(Nat)
      BY <1>2, <1>4 DEF Call
    <3>2. Upsert(Log, SystemKey, "file", Append(call.base, clock + 1), "system")
      BY <2>1 DEF AppendLog, call
    <3> QED
      BY ZenonT(40), <1>1, <3>1, <3>2, UpsertKeeps, KeysAreWriters, PathsAssumption
  <2>2. CASE WriteFile(w)
    <3>1. call.step = "write"
      BY <2>2 DEF WriteFile, call
    <3>2. call.path \in Paths /\ call.player \in Writers /\ call.hand \in Hands
      BY <1>2, <3>1, KeysAreWriters DEF Serving
    <3>3. PICK text \in {<<>>, <<clock + 1>>} :
            Upsert(call.path, call.player, "file", text, call.hand)
      BY <2>2 DEF WriteFile, call
    <3>4. text \in Seq(Nat)
      <4>1. <<>> \in Seq(Nat) /\ <<clock + 1>> \in Seq(Nat)
        BY <1>4
      <4> QED
        BY <3>3, <4>1
    <3> QED
      BY <1>1, <3>2, <3>3, <3>4, UpsertKeeps
  <2>3. CASE WriteDirectory(w)
    <3>1. call.step = "mkdir" /\ Upsert(call.path, call.player, "directory", None, call.hand)
      BY <2>3 DEF WriteDirectory, call
    <3>2. call.path \in Paths /\ call.player \in Writers /\ call.hand \in Hands
      BY <1>2, <3>1, KeysAreWriters DEF Serving
    <3> QED
      BY <1>1, <3>1, <3>2, UpsertKeeps
  <2>4. CASE Tombstone(w)
    <3> DEFINE node == journal[<<call.path, call.player>>].node
    <3>1. call.step = "mark" /\ Upsert(call.path, call.player, node, None, call.hand)
      BY <2>4 DEF Tombstone, call
    <3>2. call.path \in Paths /\ call.player \in Writers /\ call.hand \in Hands
      BY <1>2, <3>1, KeysAreWriters DEF Serving
    <3>3. node \in {"file", "directory"}
      BY <1>1, <3>2, KeysAreWriters DEF Kept, Row
    <3> HIDE DEF node
    <3> QED
      BY <1>1, <3>1, <3>2, <3>3, UpsertKeeps
  <2> QED
    BY <2>1, <2>2, <2>3, <2>4
<1>7. calls' \in [Workers -> Call] /\ \A v \in Workers : Serving(calls'[v])
  BY <1>3, DoneKeeps
<1> QED
  BY <1>3, <1>5, <1>6, <1>7 DEF Typed, TypeOK

\* It holds after either half of deletePatchTree.
LEMMA TypedDelete ==
  ASSUME Typed, NEW w \in Workers, DeleteRow(w) \/ DeleteDescendants(w)
  PROVE  Typed'
<1>1. /\ UNCHANGED <<clock, shells, guardian, removed>>
      /\ \E which : Delete(which)
  BY DEF DeleteRow, DeleteDescendants
<1>2. journal' \in [Rows -> Row] /\ Stamped' /\ clock' \in Nat /\ touched' \in Nat
  BY <1>1, DeleteKeeps, TypedIsKept
<1>3. calls' \in [Workers -> Call] /\ \A v \in Workers : Serving(calls'[v])
  BY GotoKeeps DEF DeleteRow, DeleteDescendants, Steps
<1> QED
  BY <1>1, <1>2, <1>3 DEF Typed, TypeOK

\* The steps of a request that only look.
LEMMA TypedLook ==
  ASSUME Typed, NEW w \in Workers,
         ReadLog(w) \/ SaveEditor(w) \/ CheckBase(w) \/ Fail(w)
  PROVE  Typed'
<1>1. UNCHANGED <<journal, clock, shells, guardian, removed, touched>>
  BY DEF ReadLog, SaveEditor, CheckBase, Fail
<1>2. calls[w] \in Call /\ Serving(calls[w])
  BY DEF Typed, TypeOK
<1>3. calls' \in [Workers -> Call] /\ \A v \in Workers : Serving(calls'[v])
  <2>1. CASE ReadLog(w)
    <3> DEFINE call == [calls[w] EXCEPT !.step = "append", !.base = LogRead]
    <3>1. LogRead \in Seq(Nat) /\ "append" \in Steps
      BY LogReadTyped, TypedIsKept DEF Steps
    <3>2. call \in Call /\ Serving(call)
      BY <1>2, <3>1 DEF Call, Serving
    <3>3. calls' = [calls EXCEPT ![w] = call]
      BY <2>1 DEF ReadLog
    <3> HIDE DEF call
    <3> QED
      BY <3>2, <3>3, CallKeeps
  <2>2. CASE SaveEditor(w)
    <3> DEFINE p == calls[w].player
    <3>1. CASE Authorized(p)
      <4>0. PICK new \in BOOLEAN :
              calls' = [calls EXCEPT ![w].step = "check", ![w].hand = HandOf(p), ![w].new = new]
        BY <2>2, <3>1 DEF SaveEditor
      <4> DEFINE call == [calls[w] EXCEPT !.step = "check", !.hand = HandOf(p), !.new = new]
      <4>1. p \in Players /\ calls[w].path \in Paths
        BY <1>2, <2>2 DEF SaveEditor, Serving
      <4>2. HandOf(p) \in Hands
        BY <3>1, <4>1 DEF Authorized, HandOf, Hands, Typed, TypeOK
      <4>3. "check" \in Steps
        BY DEF Steps
      <4>4. call \in Call
        BY <1>2, <4>2, <4>3 DEF Call
      <4>5. Serving(call)
        BY <1>2, <4>1, <4>2 DEF Call, Serving
      <4>6. calls' = [calls EXCEPT ![w] = call]
        BY <4>0
      <4> HIDE DEF call
      <4> QED
        BY <4>4, <4>5, <4>6, CallKeeps
    <3>2. CASE ~Authorized(p)
      BY <2>2, <3>2, DoneKeeps DEF SaveEditor
    <3> QED
      BY <3>1, <3>2
  <2>3. CASE CheckBase(w)
    BY <2>3, GotoKeeps, DoneKeeps DEF CheckBase, Steps
  <2>4. CASE Fail(w)
    BY <2>4, DoneKeeps DEF Fail
  <2> QED
    BY <2>1, <2>2, <2>3, <2>4
<1> QED
  BY <1>1, <1>3, RowsKeep DEF Typed, TypeOK

\* It holds after every step of the guardian.
LEMMA TypedGuardian ==
  ASSUME Typed, Guardian
  PROVE  Typed'
<1>1. Kept /\ touched \in Nat /\ clock \in Nat /\ guardian.base \in Seq(Nat)
  BY TypedIsKept DEF Typed, TypeOK
<1>2. CASE SweepSessions
  <2>1. \A w \in Workers : calls[w] \in Call /\ Serving(calls[w])
    BY DEF Typed, TypeOK
  <2>2. \A w \in Workers :
          LET call == IF calls[w].hand = "old" THEN [calls[w] EXCEPT !.hand = "caught"]
                                               ELSE calls[w]
          IN call \in Call /\ Serving(call)
    BY <2>1 DEF Call, Serving, Hands
  <2>3. calls' \in [Workers -> Call] /\ \A v \in Workers : Serving(calls'[v])
    BY <1>2, <2>2 DEF SweepSessions
  <2>4. UNCHANGED <<journal, clock, removed, touched>>
        /\ guardian' = [guardian EXCEPT !.step = "wipe"]
        /\ shells' = [p \in Players |-> "closed"]
    BY <1>2 DEF SweepSessions
  <2> QED
    BY <2>3, <2>4, RowsKeep DEF Typed, TypeOK
<1>3. CASE EmptyJournal
  <2>1. Delete(Rows) /\ UNCHANGED <<clock, shells, calls, removed>>
        /\ guardian' = [guardian EXCEPT !.step = "clean"]
    BY <1>3 DEF EmptyJournal
  <2>2. journal' \in [Rows -> Row] /\ Stamped' /\ clock' \in Nat /\ touched' \in Nat
    BY <1>1, <2>1, DeleteKeeps
  <2> QED
    BY <2>1, <2>2 DEF Typed, TypeOK
<1>4. CASE WriteCleanBox
  <2>1. Upsert(Log, Network, "file", <<clock + 1>>, "guardian")
        /\ UNCHANGED <<shells, calls, removed>>
        /\ guardian' = [guardian EXCEPT !.step = "restored"]
    BY <1>4 DEF WriteCleanBox
  <2>2. <<clock + 1>> \in Seq(Nat)
    BY <1>1
  <2>3. journal' \in [Rows -> Row] /\ Stamped' /\ clock' \in Nat /\ touched' \in Nat
    BY <1>1, <2>1, <2>2, UpsertKeeps, KeysAreWriters, PathsAssumption
  <2> QED
    BY <2>1, <2>3 DEF Typed, TypeOK
<1>5. CASE ReadRound
  <2>1. UNCHANGED <<journal, clock, shells, calls, removed, touched>>
        /\ guardian' = [step |-> "round", base |-> Shown[Log].text]
    BY <1>5 DEF ReadRound
  <2>2. Shown[Log].text \in Seq(Nat)
    BY <1>1, ShownTyped, PathsAssumption
  <2> QED
    BY <2>1, <2>2, RowsKeep DEF Typed, TypeOK
<1>6. CASE WriteRound
  <2>1. Upsert(Log, Network, "file", Append(guardian.base, clock + 1), "guardian")
        /\ UNCHANGED <<shells, calls, removed>>
        /\ guardian' = [step |-> "done", base |-> <<>>]
    BY <1>6 DEF WriteRound
  <2>2. Append(guardian.base, clock + 1) \in Seq(Nat)
    BY <1>1
  <2>3. journal' \in [Rows -> Row] /\ Stamped' /\ clock' \in Nat /\ touched' \in Nat
    BY ZenonT(40), <1>1, <2>1, <2>2, UpsertKeeps, KeysAreWriters, PathsAssumption
  <2>4. guardian' \in [step : {"ready", "wipe", "clean", "restored", "round", "done"},
                       base : Seq(Nat)]
    BY <2>1
  <2> QED
    BY <2>1, <2>3, <2>4 DEF Typed, TypeOK
<1> QED
  BY <1>2, <1>3, <1>4, <1>5, <1>6 DEF Guardian

\* No step breaks it.
LEMMA TypedStep == Typed /\ [Next]_vars => Typed'
<1> SUFFICES ASSUME Typed, [Next]_vars PROVE Typed'
  OBVIOUS
<1>1. CASE UNCHANGED vars
  BY <1>1 DEF vars, Typed, TypeOK, Stamped
<1>2. ASSUME NEW p \in Players, OpenShell(p) \/ CloseShell(p) PROVE Typed'
  <2>1. UNCHANGED <<journal, clock, calls, guardian, removed, touched>>
    BY <1>2 DEF OpenShell, CloseShell
  <2>2. shells' \in [Players -> {"closed", "old", "new"}]
    BY <1>2 DEF OpenShell, CloseShell, Typed, TypeOK
  <2> QED
    BY <2>1, <2>2, RowsKeep DEF Typed, TypeOK
<1>3. ASSUME NEW w \in Workers, StartAppend(w) PROVE Typed'
  <2>1. UNCHANGED <<journal, clock, shells, guardian, removed, touched>>
    BY <1>3 DEF StartAppend
  <2> DEFINE call == [NoCall EXCEPT !.step = "lock"]
  <2>2. "lock" \in Steps /\ NoCall \in Call
    BY NoCallServes DEF Steps
  <2>3. call \in Call /\ Serving(call)
    BY <2>2 DEF Call, Serving
  <2>4. calls' = [calls EXCEPT ![w] = call]
    BY <1>3 DEF StartAppend, Begin
  <2> HIDE DEF call
  <2> QED
    BY <2>1, <2>3, <2>4, CallKeeps, RowsKeep DEF Typed, TypeOK
<1>4. ASSUME NEW w \in Workers, Continue(w) \/ Fail(w) PROVE Typed'
  BY <1>4, TypedWrite, TypedDelete, TypedLook DEF Continue
<1>5. ASSUME NEW w \in Workers, NEW p \in Players, NEW path \in Paths, Start(w, p, path)
      PROVE  Typed'
  BY <1>5, TypedStart
<1>6. CASE Guardian
  BY <1>6, TypedGuardian
<1> QED
  BY <1>1, <1>2, <1>3, <1>4, <1>5, <1>6 DEF Next

\* It holds in every reachable state.
LEMMA AlwaysTyped == Spec => []Typed
BY TypedInit, TypedStep, PTL DEF Spec

\* Every reachable state is well typed: rows, requests in flight, the guardian.
THEOREM Typing == Spec => []TypeOK
<1>1. Typed => TypeOK
  BY DEF Typed
<1> QED
  BY <1>1, AlwaysTyped, PTL

\* Whoever writes, in whatever order: the replay shows at every path the newest
\* write nothing written since hides (orderPatchesForReplay, applyPatches).
THEOREM LastWrite == Spec => []LastWriteWins
<1>1. Typed => LastWriteWins
  BY TypedIsKept, ReplayIsLastWriteWins
<1> QED
  BY <1>1, AlwaysTyped, PTL

-----------------------------------------------------------------------------
(* Whose rows a step changes.                                              *)

\* An upsert changes one row.
LEMMA UpsertTouches ==
  ASSUME Kept, NEW p, NEW x, NEW node, NEW text, NEW by, Upsert(p, x, node, text, by)
  PROVE  \A r \in Rows : r # <<p, x>> => journal'[r] = journal[r]
BY DEF Upsert, Kept

\* A step that changes a player's row is that player's, or the operator's.
LEMMA OnlyItsWriterStep ==
  ASSUME Typed, Next, NEW p \in Paths, NEW x \in Players \ {SystemKey},
         journal'[<<p, x>>] # journal[<<p, x>>]
  PROVE  \/ guardian.step = "wipe" /\ guardian'.step = "clean"
         \/ \E w \in Workers : calls[w].player = x /\ calls'[w] # calls[w]
<1>1. Kept /\ <<p, x>> \in Rows /\ x # SystemKey /\ x # Network
  BY TypedIsKept, KeysAreWriters, WritersAssumption
<1>2. calls \in [Workers -> Call] /\ guardian \in [step : {"ready", "wipe", "clean", "restored",
                                                          "round", "done"}, base : Seq(Nat)]
  BY DEF Typed, TypeOK
<1>3. journal' # journal
  OBVIOUS
<1>4. ASSUME NEW w \in Workers, AppendLog(w) PROVE FALSE
  <2>1. Upsert(Log, SystemKey, "file", Append(calls[w].base, clock + 1), "system")
    BY <1>4 DEF AppendLog
  <2>2. <<p, x>> # <<Log, SystemKey>>
    BY <1>1
  <2> QED
    BY <1>1, <2>1, <2>2, UpsertTouches
<1>5. ASSUME NEW w \in Workers, WriteFile(w) \/ WriteDirectory(w) \/ Tombstone(w)
      PROVE  calls[w].player = x /\ calls'[w] # calls[w]
  <2>1. calls[w].step # "idle" /\ calls' = [calls EXCEPT ![w] = NoCall]
    BY <1>5 DEF WriteFile, WriteDirectory, Tombstone, Done
  <2>2. calls'[w] # calls[w]
    BY <1>2, <2>1 DEF NoCall
  <2>3. \E node, text, by : Upsert(calls[w].path, calls[w].player, node, text, by)
    BY <1>5 DEF WriteFile, WriteDirectory, Tombstone
  <2>4. <<p, x>> = <<calls[w].path, calls[w].player>>
    BY <1>1, <2>3, UpsertTouches
  <2> QED
    BY <2>2, <2>4
<1>6. ASSUME NEW w \in Workers, DeleteRow(w) \/ DeleteDescendants(w)
      PROVE  calls[w].player = x /\ calls'[w] # calls[w]
  <2>1. \E paths : Delete(paths \X {calls[w].player})
    <3>1. {<<calls[w].path, calls[w].player>>} = {calls[w].path} \X {calls[w].player}
      OBVIOUS
    <3> QED
      BY <1>6, <3>1 DEF DeleteRow, DeleteDescendants
  <2>2. calls[w].player = x
    BY <1>1, <2>1 DEF Delete
  <2>3. calls'[w].step # calls[w].step
    <3>1. /\ calls[w].step \in {"delete", "descend"}
          /\ \/ calls[w].step = "delete" /\ Goto(w, "descend")
             \/ calls[w].step = "descend" /\ Goto(w, "mark")
      BY <1>6 DEF DeleteRow, DeleteDescendants
    <3>2. calls[w] \in Call
      BY <1>2
    <3>3. \A step : Goto(w, step) => calls'[w].step = step
      BY <1>2, <3>2 DEF Goto, Call
    <3> QED
      BY <3>1, <3>3
  <2> QED
    BY <2>2, <2>3
<1>7. CASE Guardian
  <2>1. CASE EmptyJournal
    BY <1>2, <2>1 DEF EmptyJournal
  <2>2. CASE WriteCleanBox \/ WriteRound
    <3>1. \E text : Upsert(Log, Network, "file", text, "guardian")
      BY <2>2 DEF WriteCleanBox, WriteRound
    <3>2. <<p, x>> # <<Log, Network>>
      BY <1>1
    <3> QED
      BY <1>1, <3>1, <3>2, UpsertTouches
  <2>3. CASE SweepSessions \/ ReadRound
    BY <1>3, <2>3 DEF SweepSessions, ReadRound
  <2> QED
    BY <1>7, <2>1, <2>2, <2>3 DEF Guardian
<1>8. ASSUME NEW w \in Workers, Continue(w)
      PROVE  \E v \in Workers : calls[v].player = x /\ calls'[v] # calls[v]
  <2>1. CASE ReadLog(w) \/ SaveEditor(w) \/ CheckBase(w)
    BY <1>3, <2>1 DEF ReadLog, SaveEditor, CheckBase
  <2> QED
    BY <1>4, <1>5, <1>6, <1>8, <2>1 DEF Continue
<1>9. ASSUME NEW q \in Players, OpenShell(q) \/ CloseShell(q) PROVE FALSE
  BY <1>3, <1>9 DEF OpenShell, CloseShell
<1>10. ASSUME NEW w \in Workers, StartAppend(w) \/ Fail(w) PROVE FALSE
  BY <1>3, <1>10 DEF StartAppend, Fail
<1>11. ASSUME NEW w \in Workers, NEW q \in Players, NEW path \in Paths, Start(w, q, path)
       PROVE  FALSE
  BY <1>3, <1>11 DEF Start, OpenEditor, Redirect, MakeDirectory, StartRemove
<1> QED
  BY <1>7, <1>8, <1>9, <1>10, <1>11 DEF Next

\* No step changes a player's row but a request of that player's, or the
\* operator emptying the journal: every edit stays attributed (writer_key).
THEOREM OnlyWriters == Spec => OnlyItsWriterTouchesARow
<1> DEFINE Kind == \A p \in Paths, x \in Players \ {SystemKey} :
                     journal'[<<p, x>>] # journal[<<p, x>>]
                     => \/ guardian.step = "wipe" /\ guardian'.step = "clean"
                        \/ \E w \in Workers : calls[w].player = x /\ calls'[w] # calls[w]
<1>1. Typed /\ [Next]_vars => [Kind]_vars
  <2>1. CASE UNCHANGED vars
    BY <2>1
  <2>2. CASE Next
    BY <2>2, OnlyItsWriterStep
  <2> QED
    BY <2>1, <2>2
<1> QED
  BY <1>1, AlwaysTyped, PTL DEF Spec, OnlyItsWriterTouchesARow

-----------------------------------------------------------------------------
(* A restore leaves nothing by a shell that stood on the old box.          *)

Restoring ==
  /\ guardian.step \in {"wipe", "clean", "restored"}
     => /\ \A p \in Players : shells[p] # "old"
        /\ \A w \in Workers : calls[w].hand # "old"
  /\ RestoreLeavesNoOldHand


\* An idle worker has no hand.
LEMMA NoCallHasNoHand == NoCall.hand # "old" /\ NoCall.step = "idle"
BY NoneAssumption DEF NoCall, Hands

\* No step gives a request an old hand once the sweep is done.
LEMMA NoOldCalls ==
  ASSUME Typed, Restoring, Next, guardian.step \in {"wipe", "clean", "restored"}
  PROVE  \A v \in Workers : calls'[v].hand # "old"
<1>1. calls \in [Workers -> Call] /\ \A v \in Workers : calls[v].hand # "old"
  BY DEF Typed, TypeOK, Restoring
<1>2. \A p \in Players : Authorized(p) => HandOf(p) # "old"
  BY DEF HandOf, Restoring
<1>3. ASSUME NEW w \in Workers, StartAppend(w) PROVE \A v \in Workers : calls'[v].hand # "old"
  <2>1. calls' = [calls EXCEPT ![w] = [NoCall EXCEPT !.step = "lock"]]
    BY <1>3 DEF StartAppend, Begin
  <2>2. [NoCall EXCEPT !.step = "lock"].hand # "old"
    BY NoneAssumption DEF NoCall, Hands
  <2> QED
    BY <1>1, <2>1, <2>2
<1>4. ASSUME NEW w \in Workers, NEW p \in Players, NEW path \in Paths, Start(w, p, path)
      PROVE  \A v \in Workers : calls'[v].hand # "old"
  <2>1. CASE OpenEditor(w, p, path)
    <3> DEFINE call == [NoCall EXCEPT !.step = "edit", !.player = p, !.path = path,
                                      !.base = Shown[path].text]
    <3>1. calls' = [calls EXCEPT ![w] = call]
      BY <2>1 DEF OpenEditor, Begin
    <3>2. call.hand # "old"
      BY NoneAssumption DEF NoCall, Hands
    <3> HIDE DEF call
    <3> QED
      BY <1>1, <3>1, <3>2
  <2>2. ASSUME NEW step, Request(w, step, p, path) PROVE \A v \in Workers : calls'[v].hand # "old"
    <3> DEFINE call == [NoCall EXCEPT !.step = step, !.player = p, !.path = path,
                                      !.hand = HandOf(p)]
    <3>1. calls' = [calls EXCEPT ![w] = call] /\ Authorized(p)
      BY <2>2 DEF Request, Begin
    <3>2. call.hand = HandOf(p)
      BY DEF NoCall
    <3> HIDE DEF call
    <3> QED
      BY <1>1, <1>2, <3>1, <3>2
  <2> QED
    BY <1>4, <2>1, <2>2 DEF Start, Redirect, MakeDirectory, StartRemove
<1>5. ASSUME NEW w \in Workers, Continue(w) \/ Fail(w)
      PROVE  \A v \in Workers : calls'[v].hand # "old"
  <2>1. CASE SaveEditor(w)
    <3>1. calls[w].player \in Players
      BY <2>1 DEF SaveEditor, Typed, Serving
    <3>2. CASE Authorized(calls[w].player)
      <4>0. PICK new \in BOOLEAN :
              calls' = [calls EXCEPT ![w].step = "check", ![w].hand = HandOf(calls[w].player),
                          ![w].new = new]
        BY <2>1, <3>2 DEF SaveEditor
      <4> DEFINE hand == HandOf(calls[w].player)
                 call == [calls[w] EXCEPT !.step = "check", !.hand = hand, !.new = new]
      <4>1. calls' = [calls EXCEPT ![w] = call]
        BY <4>0
      <4>2. hand # "old"
        BY <1>2, <3>1, <3>2
      <4>3. calls[w] \in Call
        BY <1>1
      <4> HIDE DEF hand
      <4>4. call.hand = hand
        BY <4>3 DEF Call
      <4> HIDE DEF call
      <4> QED
        BY <1>1, <4>1, <4>2, <4>4
    <3>3. CASE ~Authorized(calls[w].player)
      BY <1>1, <2>1, <3>3, NoCallHasNoHand DEF SaveEditor, Done
    <3> QED
      BY <3>2, <3>3
  <2>2. ASSUME Done(w) PROVE \A v \in Workers : calls'[v].hand # "old"
    BY <1>1, <2>2, NoCallHasNoHand DEF Done
  <2>3. ASSUME NEW step, Goto(w, step) PROVE \A v \in Workers : calls'[v].hand # "old"
    BY <1>1, <2>3 DEF Goto
  <2>4. CASE ReadLog(w)
    BY <1>1, <2>4 DEF ReadLog
  <2> QED
    BY <1>5, <2>1, <2>2, <2>3, <2>4
    DEF Continue, Fail, AppendLog, CheckBase, WriteFile, WriteDirectory, DeleteRow,
        DeleteDescendants, Tombstone
<1>6. CASE Guardian
  <2>1. UNCHANGED calls
    BY <1>6 DEF Guardian, SweepSessions, EmptyJournal, WriteCleanBox, ReadRound, WriteRound
  <2> QED
    BY <1>1, <2>1
<1>7. ASSUME NEW p \in Players, OpenShell(p) \/ CloseShell(p)
      PROVE  \A v \in Workers : calls'[v].hand # "old"
  BY <1>1, <1>7 DEF OpenShell, CloseShell
<1> QED
  BY <1>3, <1>4, <1>5, <1>6, <1>7 DEF Next

\* A row by an old hand is written only by a request that has one.
LEMMA NoOldRows ==
  ASSUME Typed, Next, \A r \in Rows : journal[r].stamp > 0 => journal[r].by # "old",
         \A w \in Workers : calls[w].hand # "old"
  PROVE  \A r \in Rows : journal'[r].stamp > 0 => journal'[r].by # "old"
<1>1. Kept /\ touched \in Nat /\ NoRow.stamp = 0
  BY TypedIsKept DEF Typed, TypeOK, NoRow
<1>2. ASSUME NEW p, NEW x, NEW node, NEW text, NEW by, by # "old", Upsert(p, x, node, text, by)
      PROVE  \A r \in Rows : journal'[r].stamp > 0 => journal'[r].by # "old"
  BY <1>1, <1>2 DEF Upsert, Kept
<1>3. ASSUME NEW which, Delete(which)
      PROVE  \A r \in Rows : journal'[r].stamp > 0 => journal'[r].by # "old"
  BY <1>1, <1>3 DEF Delete
<1>4. ASSUME UNCHANGED journal
      PROVE  \A r \in Rows : journal'[r].stamp > 0 => journal'[r].by # "old"
  BY <1>4
<1>5. ASSUME NEW w \in Workers, StartAppend(w) \/ Continue(w) \/ Fail(w)
      PROVE  \A r \in Rows : journal'[r].stamp > 0 => journal'[r].by # "old"
  BY <1>2, <1>3, <1>4, <1>5
  DEF StartAppend, Continue, Fail, ReadLog, AppendLog, SaveEditor, CheckBase, WriteFile,
      WriteDirectory, DeleteRow, DeleteDescendants, Tombstone
<1>6. ASSUME NEW w \in Workers, NEW p \in Players, NEW path \in Paths, Start(w, p, path)
      PROVE  \A r \in Rows : journal'[r].stamp > 0 => journal'[r].by # "old"
  BY <1>4, <1>6 DEF Start, OpenEditor, Redirect, MakeDirectory, StartRemove
<1>7. CASE Guardian
  BY <1>2, <1>3, <1>4, <1>7
  DEF Guardian, SweepSessions, EmptyJournal, WriteCleanBox, ReadRound, WriteRound
<1>8. ASSUME NEW p \in Players, OpenShell(p) \/ CloseShell(p)
      PROVE  \A r \in Rows : journal'[r].stamp > 0 => journal'[r].by # "old"
  BY <1>4, <1>8 DEF OpenShell, CloseShell
<1> QED
  BY <1>5, <1>6, <1>7, <1>8 DEF Next

\* No step brings an old hand back to a swept box.
LEMMA RestoringStep == Typed /\ Restoring /\ [Next]_vars => Restoring'
<1> SUFFICES ASSUME Typed, Restoring, [Next]_vars PROVE Restoring'
  OBVIOUS
<1>1. CASE UNCHANGED vars
  BY <1>1 DEF vars, Restoring, RestoreLeavesNoOldHand
<1>2. CASE Next /\ ~Guardian
  <2>1. UNCHANGED guardian
    BY <1>2 DEF Next, OpenShell, CloseShell, StartAppend, Fail, Continue, ReadLog, AppendLog,
         SaveEditor, CheckBase, WriteFile, WriteDirectory, DeleteRow, DeleteDescendants,
         Tombstone, Start, OpenEditor, Redirect, MakeDirectory, StartRemove
  <2>2. ASSUME guardian.step \in {"wipe", "clean", "restored"}
        PROVE  \A p \in Players : shells'[p] # "old"
    <3>1. UNCHANGED shells \/ \E p \in Players : OpenShell(p) \/ CloseShell(p)
      BY <1>2 DEF Next, StartAppend, Fail, Continue, ReadLog, AppendLog, SaveEditor,
           CheckBase, WriteFile, WriteDirectory, DeleteRow, DeleteDescendants, Tombstone,
           Start, OpenEditor, Redirect, MakeDirectory, StartRemove
    <3> QED
      BY <2>2, <3>1 DEF OpenShell, CloseShell, Restoring, Typed, TypeOK
  <2>3. RestoreLeavesNoOldHand'
    BY <1>2, <2>1, NoOldRows DEF Restoring, RestoreLeavesNoOldHand
  <2> QED
    BY <1>2, <2>1, <2>2, <2>3, NoOldCalls DEF Restoring
<1>3. CASE Guardian
  <2>1. guardian \in [step : {"ready", "wipe", "clean", "restored", "round", "done"},
                      base : Seq(Nat)]
        /\ calls \in [Workers -> Call]
    BY DEF Typed, TypeOK
  <2>2. CASE SweepSessions
    <3>1. guardian'.step = "wipe" /\ shells' = [p \in Players |-> "closed"]
      BY <2>1, <2>2 DEF SweepSessions
    <3>2. \A w \in Workers : calls'[w].hand # "old"
      BY <2>1, <2>2 DEF SweepSessions, Call
    <3> QED
      BY <3>1, <3>2 DEF Restoring, RestoreLeavesNoOldHand
  <2>3. CASE EmptyJournal
    <3>1. \A r \in Rows : journal'[r].stamp = 0
      BY <2>3 DEF EmptyJournal, Delete, NoRow
    <3>2. UNCHANGED <<shells, calls>> /\ guardian.step = "wipe"
      BY <2>3 DEF EmptyJournal
    <3> QED
      BY <3>1, <3>2 DEF Restoring, RestoreLeavesNoOldHand
  <2>4. CASE WriteCleanBox
    <3>1. UNCHANGED <<shells, calls>> /\ guardian.step = "clean"
      BY <2>4 DEF WriteCleanBox
    <3>2. Next
      BY <1>3 DEF Next
    <3>3. \A r \in Rows : journal'[r].stamp > 0 => journal'[r].by # "old"
      BY <3>1, <3>2, NoOldRows DEF Restoring, RestoreLeavesNoOldHand
    <3> QED
      BY <3>1, <3>3 DEF Restoring, RestoreLeavesNoOldHand
  <2>5. CASE ReadRound \/ WriteRound
    <3>1. guardian'.step \in {"round", "done"}
      BY <2>5 DEF ReadRound, WriteRound
    <3> QED
      BY <3>1 DEF Restoring, RestoreLeavesNoOldHand
  <2> QED
    BY <1>3, <2>2, <2>3, <2>4, <2>5 DEF Guardian
<1> QED
  BY <1>1, <1>2, <1>3

\* Whatever requests are in flight when the operator restores a box: once its
\* journal is emptied no row stands on it by a shell opened before the sweep,
\* but one let in before it (scripts/guardian.ts).
THEOREM Restored == Spec => []RestoreLeavesNoOldHand
<1>1. Init => Restoring
  BY DEF Init, Restoring, RestoreLeavesNoOldHand
<1>2. Restoring => RestoreLeavesNoOldHand
  BY DEF Restoring
<1> QED
  BY <1>1, <1>2, RestoringStep, AlwaysTyped, PTL DEF Spec

-----------------------------------------------------------------------------
(* No append drops a line.                                                 *)

LogHolds ==
  LET row == journal[<<Log, SystemKey>>]
  IN /\ row.stamp = clock /\ row.node = "file" /\ row.text # None
     /\ EndsInLines(row.text)

\* The request holding the log's lock holds every line landed since anyone else
\* wrote; so does the system's row, which is then the newest of all.
Lines ==
  /\ touched <= clock
  /\ \A v, w \in Workers : calls[v].step = "append" /\ calls[w].step = "append" => v = w
  /\ \A w \in Workers : calls[w].step = "append" => EndsInLines(calls[w].base)
  /\ touched < clock => LogHolds

\* Just after another hand wrote there are no lines to hold.
LEMMA NoLines ==
  ASSUME NEW text \in Seq(Nat), clock \in Nat, touched = clock
  PROVE  EndsInLines(text)
BY DEF EndsInLines

\* An append reads every line.
LEMMA LogReadEndsInLines ==
  ASSUME Typed, Lines
  PROVE  EndsInLines(LogRead)
<1>1. Kept /\ clock \in Nat /\ touched \in Nat /\ LogRead \in Seq(Nat)
  BY TypedIsKept, LogReadTyped DEF Typed, TypeOK
<1>2. CASE touched = clock
  BY <1>1, <1>2, NoLines
<1>3. CASE touched < clock
  <2>1. LogHolds
    BY <1>3 DEF Lines
  <2>2. \A x \in Writers : <<Log, x>> \in Rows /\ journal[<<Log, x>>].stamp \in Nat
                           /\ journal[<<Log, x>>].stamp <= clock
    BY <1>1, PathsAssumption, KeysAreWriters DEF Kept, Stamped, Row
  <2>3. clock > 0
    BY <1>1, <1>3
  <2>4. SystemKey \in Latest(Log)
    BY <2>1, <2>2, <2>3, KeysAreWriters DEF Latest, LogHolds
  <2>5. ASSUME NEW x \in Latest(Log) PROVE x = SystemKey
    <3>1. x \in Writers /\ journal[<<Log, x>>].stamp = clock
      BY <2>1, <2>2, <2>5, KeysAreWriters DEF Latest, LogHolds
    <3>2. <<Log, x>> = <<Log, SystemKey>>
      BY <1>1, <2>1, <2>2, <2>3, <3>1, KeysAreWriters DEF Kept, Stamped, LogHolds
    <3> QED
      BY <3>2
  <2>6. (CHOOSE x \in Latest(Log) : TRUE) = SystemKey
    BY <2>4, <2>5
  <2>7. LogRead = journal[<<Log, SystemKey>>].text
    BY <2>1, <2>4, <2>6 DEF LogRead, LogHolds
  <2> QED
    BY <2>1, <2>7 DEF LogHolds
<1> QED
  BY <1>1, <1>2, <1>3 DEF Lines

\* The log a player reads ends in the lines.
LEMMA LinesLand ==
  ASSUME Typed, Lines
  PROVE  EveryLineLands
<1>1. Kept /\ clock \in Nat /\ touched \in Nat /\ Shown[Log].text \in Seq(Nat)
  BY TypedIsKept, ShownTyped, PathsAssumption DEF Typed, TypeOK
<1>2. CASE touched = clock
  BY <1>1, <1>2, NoLines DEF EveryLineLands
<1>3. CASE touched < clock
  <2> DEFINE r == <<Log, SystemKey>>
             tree == Replay[clock - 1]
  <2>1. LogHolds /\ clock \in 1 .. clock
    BY <1>1, <1>3 DEF Lines
  <2>2. Shown = Land(tree, clock)
    BY <1>1, <2>1, ReplayStep DEF Shown
  <2> HIDE DEF tree
  <2>3. r \in Rows /\ journal[r].stamp = clock
    BY <2>1, KeysAreWriters, PathsAssumption DEF LogHolds
  <2> HIDE DEF r
  <2>4. PICK p \in Paths, x \in Writers :
          (\A s \in Rows : journal[s].stamp = clock => s = <<p, x>>)
          /\ Land(tree, clock) = ApplyOne(tree, p, journal[<<p, x>>])
    <3>1. PICK n \in 1 .. clock : n = clock
      BY <2>1
    <3>2. LandsNothing(tree, n) \/ \E p \in Paths, x \in Writers : LandsRow(tree, n, p, x)
      BY <1>1, LandOf
    <3>3. ~LandsNothing(tree, n)
      BY <2>3, <3>1 DEF LandsNothing
    <3> QED
      BY <3>1, <3>2, <3>3 DEF LandsRow
  <2>5. <<p, x>> = r /\ p = Log
    BY <2>3, <2>4 DEF r
  <2>6. Shown = ApplyOne(tree, Log, journal[r])
    BY <2>2, <2>4, <2>5
  <2>7. Shown[Log] = File(journal[r].text)
    BY <2>1, <2>6, PathsAssumption DEF LogHolds, ApplyOne, InsertNode, r
  <2> QED
    BY <2>1, <2>7 DEF LogHolds, EveryLineLands, File, r
<1> QED
  BY <1>1, <1>2, <1>3 DEF Lines

\* A step other than ReadLog gives nobody the lock, or another text to build on.
Held == \A v \in Workers : calls'[v].step = "append"
                           => calls[v].step = "append" /\ calls'[v].base = calls[v].base

\* Only ReadLog takes the lock.
LEMMA HeldByOthers ==
  ASSUME Typed, Next, \A w \in Workers : ~ReadLog(w)
  PROVE  Held
<1>1. calls \in [Workers -> Call]
  BY DEF Typed, TypeOK
<1>2. ASSUME NEW w \in Workers, NEW call, call.step # "append",
             calls' = [calls EXCEPT ![w] = call]
      PROVE  Held
  BY <1>1, <1>2 DEF Held
<1>3. ASSUME NEW w \in Workers, Done(w) PROVE Held
  BY <1>2, <1>3, NoCallHasNoHand DEF Done
<1>4. ASSUME NEW w \in Workers, NEW step, step # "append", Goto(w, step) PROVE Held
  <2> DEFINE call == [calls[w] EXCEPT !.step = step]
  <2>1. call.step # "append"
    BY <1>1, <1>4 DEF Call
  <2>2. calls' = [calls EXCEPT ![w] = call]
    BY <1>4 DEF Goto
  <2> HIDE DEF call
  <2> QED
    BY <1>2, <2>1, <2>2
<1>5. ASSUME NEW w \in Workers, StartAppend(w) PROVE Held
  <2> DEFINE call == [NoCall EXCEPT !.step = "lock"]
  <2>1. call.step # "append"
    BY DEF NoCall
  <2>2. calls' = [calls EXCEPT ![w] = call]
    BY <1>5 DEF StartAppend, Begin
  <2> HIDE DEF call
  <2> QED
    BY <1>2, <2>1, <2>2
<1>6. ASSUME NEW w \in Workers, NEW p \in Players, NEW path \in Paths, Start(w, p, path)
      PROVE  Held
  <2>1. ASSUME NEW step, step # "append", Request(w, step, p, path) PROVE Held
    <3> DEFINE call == [NoCall EXCEPT !.step = step, !.player = p, !.path = path,
                                      !.hand = HandOf(p)]
    <3>1. call.step # "append"
      BY <2>1 DEF NoCall
    <3>2. calls' = [calls EXCEPT ![w] = call]
      BY <2>1 DEF Request, Begin
    <3> HIDE DEF call
    <3> QED
      BY <1>2, <3>1, <3>2
  <2>2. CASE OpenEditor(w, p, path)
    <3> DEFINE call == [NoCall EXCEPT !.step = "edit", !.player = p, !.path = path,
                                      !.base = Shown[path].text]
    <3>1. call.step # "append"
      BY DEF NoCall
    <3>2. calls' = [calls EXCEPT ![w] = call]
      BY <2>2 DEF OpenEditor, Begin
    <3> HIDE DEF call
    <3> QED
      BY <1>2, <3>1, <3>2
  <2> QED
    BY <1>6, <2>1, <2>2 DEF Start, Redirect, MakeDirectory, StartRemove
<1>7. ASSUME NEW w \in Workers, Continue(w) \/ Fail(w) PROVE Held
  <2>1. CASE SaveEditor(w)
    <3>1. CASE Authorized(calls[w].player)
      <4>0. PICK new \in BOOLEAN :
              calls' = [calls EXCEPT ![w].step = "check", ![w].hand = HandOf(calls[w].player),
                          ![w].new = new]
        BY <2>1, <3>1 DEF SaveEditor
      <4> DEFINE hand == HandOf(calls[w].player)
                 call == [calls[w] EXCEPT !.step = "check", !.hand = hand, !.new = new]
      <4>1. calls' = [calls EXCEPT ![w] = call]
        BY <4>0
      <4>2. calls[w] \in Call
        BY <1>1
      <4> HIDE DEF hand
      <4>3. call.step # "append"
        BY <4>2 DEF Call
      <4> HIDE DEF call
      <4> QED
        BY <1>2, <4>1, <4>3
    <3>2. CASE ~Authorized(calls[w].player)
      BY <1>3, <2>1, <3>2 DEF SaveEditor
    <3> QED
      BY <3>1, <3>2
  <2> QED
    BY <1>3, <1>4, <1>7, <2>1
    DEF Continue, Fail, AppendLog, CheckBase, WriteFile, WriteDirectory, DeleteRow,
        DeleteDescendants, Tombstone
<1>8. CASE Guardian
  <2>1. CASE SweepSessions
    <3>1. calls' = [w \in Workers |->
            IF calls[w].hand = "old" THEN [calls[w] EXCEPT !.hand = "caught"] ELSE calls[w]]
      BY <2>1 DEF SweepSessions
    <3> QED
      BY <1>1, <3>1 DEF Held, Call
  <2>2. CASE ~SweepSessions
    <3>1. UNCHANGED calls
      BY <1>8, <2>2 DEF Guardian, EmptyJournal, WriteCleanBox, ReadRound, WriteRound
    <3> QED
      BY <3>1 DEF Held
  <2> QED
    BY <2>1, <2>2
<1>9. ASSUME NEW p \in Players, OpenShell(p) \/ CloseShell(p) PROVE Held
  BY <1>9 DEF OpenShell, CloseShell, Held
<1> QED
  BY <1>5, <1>6, <1>7, <1>8, <1>9 DEF Next

\* Every step but an append leaves the rows alone or is a change by another hand.
LEMMA OtherChanges ==
  ASSUME Typed, Next, \A w \in Workers : ~AppendLog(w)
  PROVE  \/ UNCHANGED <<journal, clock, touched>>
         \/ touched' = clock'
<1>1. ASSUME NEW p, NEW x, NEW node, NEW text, NEW by, by # "system",
             Upsert(p, x, node, text, by)
      PROVE  touched' = clock'
  BY <1>1 DEF Upsert
<1>2. ASSUME NEW which, Delete(which), UNCHANGED clock
      PROVE  touched' = clock'
  BY <1>2 DEF Delete
<1>3. ASSUME NEW w \in Workers, Serving(calls[w]),
             calls[w].step \in {"write", "mkdir", "mark"}
      PROVE  calls[w].hand # "system"
  BY <1>3 DEF Serving, Hands
<1>4. ASSUME NEW w \in Workers, Continue(w)
      PROVE  UNCHANGED <<journal, clock, touched>> \/ touched' = clock'
  <2>1. CASE WriteFile(w) \/ WriteDirectory(w) \/ Tombstone(w)
    <3>1. calls[w].hand # "system"
      BY <1>3, <2>1 DEF WriteFile, WriteDirectory, Tombstone, Typed
    <3>2. \E p, x, node, text : Upsert(p, x, node, text, calls[w].hand)
      BY <2>1 DEF WriteFile, WriteDirectory, Tombstone
    <3> QED
      BY <1>1, <3>1, <3>2
  <2>2. CASE DeleteRow(w) \/ DeleteDescendants(w)
    BY <1>2, <2>2 DEF DeleteRow, DeleteDescendants
  <2>3. CASE ReadLog(w) \/ SaveEditor(w) \/ CheckBase(w)
    BY <2>3 DEF ReadLog, SaveEditor, CheckBase
  <2> QED
    BY <1>4, <2>1, <2>2, <2>3 DEF Continue
<1>5. CASE Guardian
  BY <1>1, <1>2, <1>5
  DEF Guardian, SweepSessions, EmptyJournal, WriteCleanBox, ReadRound, WriteRound
<1>6. CASE ~Guardian /\ ~ \E w \in Workers : Continue(w)
  BY <1>6 DEF Next, OpenShell, CloseShell, StartAppend, Fail, Start, OpenEditor, Redirect,
       MakeDirectory, StartRemove
<1> QED
  BY <1>4, <1>5, <1>6

\* A text that ends in the lines, and the next line, ends in one line more.
LEMMA LineAdded ==
  ASSUME clock \in Nat, touched \in Nat, touched <= clock, NEW base \in Seq(Nat), NEW text,
         text = Append(base, clock + 1), EndsInLines(base),
         clock' = clock + 1, touched' = touched
  PROVE  text \in Seq(Nat) /\ EndsInLines(text)'
<1>1. text \in Seq(Nat) /\ Len(text) = Len(base) + 1 /\ text[Len(base) + 1] = clock + 1
      /\ \A i \in 1 .. Len(base) : text[i] = base[i]
  OBVIOUS
<1> DEFINE lines == clock - touched
<1>2. lines \in Nat /\ Len(base) \in Nat /\ Len(base) >= lines
      /\ \A i \in 1 .. lines : base[Len(base) - lines + i] = touched + i
  BY DEF EndsInLines
<1>3. clock' - touched' = lines + 1 /\ touched + lines + 1 = clock + 1
  OBVIOUS
<1> HIDE DEF lines
<1>4. ASSUME NEW i \in 1 .. lines + 1
      PROVE  text[Len(text) - (lines + 1) + i] = touched + i
  <2>1. Len(text) - (lines + 1) + i = Len(base) - lines + i
    BY <1>1, <1>2
  <2>2. CASE i = lines + 1
    <3>1. touched + i = clock + 1 /\ Len(base) - lines + i = Len(base) + 1
      BY <1>2, <1>3, <2>2
    <3> QED
      BY <1>1, <2>1, <3>1
  <2>3. CASE i # lines + 1
    <3>1. i \in 1 .. lines /\ Len(base) - lines + i \in 1 .. Len(base)
      BY <1>2, <2>3
    <3> QED
      BY <1>1, <1>2, <2>1, <3>1
  <2> QED
    BY <2>2, <2>3
<1>5. Len(text) >= lines + 1
  BY <1>1, <1>2
<1> QED
  BY <1>1, <1>3, <1>4, <1>5 DEF EndsInLines

\* The append writes them all, and releases the lock.
LEMMA AppendKeepsLines ==
  ASSUME Typed, Lines, NEW w \in Workers, AppendLog(w), Held
  PROVE  Lines'
<1> DEFINE r == <<Log, SystemKey>>
<1>1. Kept /\ clock \in Nat /\ touched \in Nat /\ calls \in [Workers -> Call]
      /\ calls[w].base \in Seq(Nat)
  BY TypedIsKept DEF Typed, TypeOK, Call
<1>2. PICK text : text = Append(calls[w].base, clock + 1)
  OBVIOUS
<1>3. calls[w].step = "append" /\ calls' = [calls EXCEPT ![w] = NoCall]
      /\ Upsert(Log, SystemKey, "file", text, "system")
  BY <1>2 DEF AppendLog, Done
<1>4. EndsInLines(calls[w].base) /\ touched <= clock
  BY <1>3 DEF Lines
<1>5. clock' = clock + 1 /\ touched' = touched
  BY <1>3 DEF Upsert
<1>6. text \in Seq(Nat) /\ EndsInLines(text)'
  BY <1>1, <1>2, <1>4, <1>5, LineAdded
<1>7. \A v \in Workers : calls'[v].step # "append"
  <2>1. calls'[w].step # "append"
    BY <1>1, <1>3, NoCallHasNoHand
  <2>2. \A v \in Workers : v # w => calls[v].step # "append"
    BY <1>3 DEF Lines
  <2> QED
    BY <2>1, <2>2 DEF Held
<1>8. journal'[r] = [stamp |-> clock + 1, node |-> "file", text |-> text, by |-> "system"]
  BY <1>1, <1>3, KeysAreWriters, PathsAssumption DEF Upsert, Kept
<1>9. text # None
  BY <1>6, NoneAssumption
<1>10. LogHolds'
  BY <1>5, <1>6, <1>8, <1>9 DEF LogHolds
<1>11. touched' <= clock'
  BY <1>1, <1>4, <1>5
<1> QED
  BY <1>7, <1>10, <1>11 DEF Lines

\* No step loses a line.
LEMMA LinesStep == Typed /\ Lines /\ [Next]_vars => Lines'
<1> SUFFICES ASSUME Typed, Lines, [Next]_vars PROVE Lines'
  OBVIOUS
<1>1. CASE UNCHANGED vars
  BY <1>1 DEF vars, Lines, LogHolds, EndsInLines
<1>2. Typed' /\ calls \in [Workers -> Call] /\ clock \in Nat /\ touched \in Nat
  BY TypedStep DEF Typed, TypeOK
<1>3. ASSUME NEW w \in Workers, ReadLog(w) PROVE Lines'
  <2>1. UNCHANGED <<journal, clock, touched>>
        /\ calls' = [calls EXCEPT ![w].step = "append", ![w].base = LogRead]
        /\ \A v \in Workers : calls[v].step # "append"
    BY <1>3 DEF ReadLog
  <2>2. EndsInLines(LogRead)
    BY LogReadEndsInLines
  <2>3. calls'[w].base = LogRead /\ \A v \in Workers : v # w => calls'[v].step # "append"
    BY <1>2, <2>1 DEF Call
  <2>4. PICK text : text = LogRead
    OBVIOUS
  <2>5. EndsInLines(text)'
    BY <2>1, <2>2, <2>4 DEF EndsInLines
  <2>6. \A v \in Workers : calls'[v].step = "append" => EndsInLines(calls[v].base)'
    BY <2>3, <2>4, <2>5
  <2>7. touched' <= clock' /\ (touched' < clock' => LogHolds')
    BY <2>1 DEF Lines, LogHolds, EndsInLines
  <2> QED
    BY <2>3, <2>6, <2>7 DEF Lines
<1>4. ASSUME NEW w \in Workers, AppendLog(w) PROVE Lines'
  <2>1. \A v \in Workers : ~ReadLog(v)
    BY <1>4 DEF AppendLog, ReadLog
  <2>2. Next
    BY <1>4 DEF Next, Continue
  <2> QED
    BY <1>4, <2>1, <2>2, HeldByOthers, AppendKeepsLines
<1>5. CASE Next /\ \A w \in Workers : ~ReadLog(w) /\ ~AppendLog(w)
  <2>1. Held
    BY <1>5, HeldByOthers
  <2>2. \A v, w \in Workers : calls'[v].step = "append" /\ calls'[w].step = "append" => v = w
    BY <2>1 DEF Held, Lines
  <2>3. CASE UNCHANGED <<journal, clock, touched>>
    <3>1. \A v \in Workers : calls'[v].step = "append" => EndsInLines(calls[v].base)'
      BY <2>1, <2>3 DEF Held, Lines, EndsInLines
    <3>2. touched' <= clock' /\ (touched' < clock' => LogHolds')
      BY <2>3 DEF Lines, LogHolds, EndsInLines
    <3> QED
      BY <2>2, <3>1, <3>2 DEF Lines
  <2>4. CASE touched' = clock'
    <3>1. clock' \in Nat /\ calls' \in [Workers -> Call]
      BY <1>2 DEF Typed, TypeOK
    <3>2. \A v \in Workers : Len(calls'[v].base) \in Nat
      BY <3>1 DEF Call
    <3>3. \A v \in Workers : EndsInLines(calls[v].base)'
      BY <2>4, <3>1, <3>2 DEF EndsInLines
    <3> QED
      BY <2>2, <2>4, <3>1, <3>3 DEF Lines
  <2> QED
    BY <1>5, <2>3, <2>4, OtherChanges
<1> QED
  BY <1>1, <1>3, <1>4, <1>5

\* However many system lines are appended at once: since anyone else last wrote,
\* each is in the log a player reads, once and in order (append_machine_log).
THEOREM LinesAreKept == Spec => []EveryLineLands
<1>1. Init => Lines
  BY DEF Init, Lines, NoCall
<1>2. Typed /\ Lines => EveryLineLands
  BY LinesLand
<1> QED
  BY <1>1, <1>2, LinesStep, AlwaysTyped, PTL DEF Spec

-----------------------------------------------------------------------------
(* What a removal is worth.                                                *)

\* A deletion marker, and what it stands over.
Marker(r) == journal[r].stamp > 0 /\ journal[r].node = "file" /\ journal[r].text = None
Under(p) == {p} \cup Beneath(p)

\* For as long as a deletion marker stands, whoever put it there, a file shown at
\* its path or beneath was written since: it hides every older row of every writer,
\* and while it is the newest row it leaves nothing there at all
\* (removePatch.ts:9-22).
MarkersHideWhatIsOlder ==
  \A r \in Rows : Marker(r) =>
    /\ journal[r].stamp = clock => \A q \in Under(r[1]) : Shown[q] = Absent
    /\ \A q \in Under(r[1]) : Shown[q].kind = "file" =>
         \E x \in Writers : /\ journal[<<q, x>>].stamp > journal[r].stamp
                            /\ Shown[q] = File(journal[<<q, x>>].text)

\* The newest row is the last that is applied.
LEMMA NewestMarkerEmpties ==
  ASSUME Kept, NEW p \in Paths, NEW x \in Writers, Marker(<<p, x>>),
         journal[<<p, x>>].stamp = clock, NEW q \in Under(p)
  PROVE  Shown[q] = Absent
<1>1. clock \in 1 .. clock /\ clock \in Nat /\ <<p, x>> \in Rows
  BY KeysAreWriters DEF Kept, Marker
<1>2. Shown = Land(Replay[clock - 1], clock)
  BY <1>1, ReplayStep DEF Shown
<1>3. Land(Replay[clock - 1], clock) = ApplyOne(Replay[clock - 1], p, journal[<<p, x>>])
  <2>1. \A tree : ~LandsNothing(tree, clock)
    BY <1>1 DEF LandsNothing
  <2>2. PICK s \in Paths, y \in Writers : LandsRow(Replay[clock - 1], clock, s, y)
    BY <1>1, <2>1, LandOf
  <2>3. <<s, y>> = <<p, x>>
    BY <1>1, <2>2 DEF LandsRow
  <2> QED
    BY <2>2, <2>3 DEF LandsRow
<1>4. Shown = RemoveNode(Replay[clock - 1], p)
  BY <1>2, <1>3 DEF ApplyOne, Marker
<1>5. q \in Paths /\ (q = p \/ p \in Above[q])
  BY DEF Under, Beneath
<1> QED
  BY <1>4, <1>5 DEF RemoveNode

LEMMA MarkersHide ==
  ASSUME Kept
  PROVE  MarkersHideWhatIsOlder
<1> SUFFICES ASSUME NEW p \in Paths, NEW x \in Writers, Marker(<<p, x>>), NEW q \in Under(p)
             PROVE  /\ journal[<<p, x>>].stamp = clock => Shown[q] = Absent
                    /\ Shown[q].kind = "file" =>
                         \E y \in Writers :
                           /\ journal[<<q, y>>].stamp > journal[<<p, x>>].stamp
                           /\ Shown[q] = File(journal[<<q, y>>].text)
  <2>1. SUFFICES ASSUME NEW r \in Rows, Marker(r)
                 PROVE  /\ journal[r].stamp = clock => \A q \in Under(r[1]) : Shown[q] = Absent
                        /\ \A q \in Under(r[1]) : Shown[q].kind = "file" =>
                             \E y \in Writers : /\ journal[<<q, y>>].stamp > journal[r].stamp
                                                /\ Shown[q] = File(journal[<<q, y>>].text)
    BY Zenon DEF MarkersHideWhatIsOlder
  <2>2. PICK p \in Paths, x \in Writers : r = <<p, x>>
    BY DEF Rows
  <2>3. r[1] = p /\ Marker(<<p, x>>)
    BY <2>1, <2>2
  <2>4. \A q \in Under(p) :
          /\ journal[<<p, x>>].stamp = clock => Shown[q] = Absent
          /\ Shown[q].kind = "file" =>
               \E y \in Writers : /\ journal[<<q, y>>].stamp > journal[<<p, x>>].stamp
                                  /\ Shown[q] = File(journal[<<q, y>>].text)
    BY <2>3
  <2> QED
    BY <2>2, <2>3, <2>4
<1>1. journal[<<p, x>>].stamp = clock => Shown[q] = Absent
  BY NewestMarkerEmpties
<1>2. ASSUME Shown[q].kind = "file"
      PROVE  \E y \in Writers : /\ journal[<<q, y>>].stamp > journal[<<p, x>>].stamp
                                /\ Shown[q] = File(journal[<<q, y>>].text)
  <2>1. q \in Paths /\ (q = p \/ p \in Above[q])
    BY DEF Under, Beneath
  <2>2. Hides(q, <<p, x>>)
    BY <2>1 DEF Hides, Marker
  <2>3. /\ <<p, x>> \in Rows /\ clock \in Nat
        /\ \A r \in Rows : journal[r].stamp \in Nat /\ journal[r].stamp <= clock
    BY KeysAreWriters DEF Kept, Stamped, Row
  <2>4. journal[<<p, x>>].stamp > 0 /\ journal[<<p, x>>].stamp <= clock
    BY <2>3 DEF Marker
  <2>5. ~OutlivesTo(q, 0, clock)
    BY <2>2, <2>3, <2>4 DEF OutlivesTo
  <2>6. PICK y \in Newest(q, clock) : OutlivesTo(q, journal[<<q, y>>].stamp, clock)
    BY <1>2, <2>1, <2>5, SeenAll DEF Seen
  <2>7. y \in Writers /\ journal[<<q, y>>].text # None
    BY <2>6 DEF Newest, FilesAt
  <2>8. Shown[q] = File(journal[<<q, y>>].text)
    BY <2>1, <2>6, SeenAll DEF Seen
  <2>9. <<q, y>> \in Rows
    BY <2>1, <2>7, KeysAreWriters
  <2>10. ~(journal[<<p, x>>].stamp > journal[<<q, y>>].stamp)
    BY <2>2, <2>3, <2>4, <2>6 DEF OutlivesTo
  <2>11. journal[<<p, x>>].stamp # journal[<<q, y>>].stamp
    <3>1. <<p, x>> # <<q, y>>
      BY <2>7 DEF Marker
    <3> QED
      BY <2>3, <2>4, <2>9, <3>1 DEF Kept, Stamped
  <2>12. journal[<<q, y>>].stamp > journal[<<p, x>>].stamp
    BY <2>3, <2>9, <2>10, <2>11
  <2> QED
    BY <2>7, <2>8, <2>12
<1> QED
  BY <1>1, <1>2

\* "Tombstone-always" (removePatch.ts:6-22) does what it is for: no row that is older
\* than a marker, of whichever writer, keeps a removed file alive.
THEOREM OldRowsStayHidden == Spec => []MarkersHideWhatIsOlder
<1>1. Typed => MarkersHideWhatIsOlder
  BY TypedIsKept, MarkersHide
<1> QED
  BY <1>1, AlwaysTyped, PTL

\* A removal that is answered leaves nothing at its path nor beneath it, unless the
\* same player put a directory there while it ran.
RemovalsTakeEffect ==
  \A w \in Workers : LET p == calls[w].path IN
    Tombstone(w) /\ journal[<<p, calls[w].player>>].node = "file"
      => \A q \in Under(p) : Shown'[q] = Absent

\* When a removal answers, what it removed is out of everybody's sight, however many
\* others wrote at the path or beneath it while its calls ran.
THEOREM RemovalsLand == Spec => [][RemovalsTakeEffect]_vars
<1>1. Typed /\ MarkersHideWhatIsOlder' /\ [Next]_vars => [RemovalsTakeEffect]_vars
  <2> SUFFICES ASSUME Typed, MarkersHideWhatIsOlder', NEW w \in Workers, Tombstone(w),
                      journal[<<calls[w].path, calls[w].player>>].node = "file",
                      NEW q \in Under(calls[w].path)
               PROVE  Shown'[q] = Absent
    BY DEF RemovalsTakeEffect
  <2>1. calls[w].path \in Paths /\ calls[w].player \in Players
    <3>1. calls[w].step = "mark"
      BY DEF Tombstone
    <3> QED
      BY <3>1 DEF Typed, TypeOK, Serving
  <2>2. PICK p \in Paths, x \in Writers : p = calls[w].path /\ x = calls[w].player
    BY <2>1, KeysAreWriters
  <2>3. <<p, x>> \in Rows /\ clock \in Nat /\ journal \in [Rows -> Row]
    BY KeysAreWriters DEF Typed, TypeOK
  <2>4. clock' = clock + 1 /\ journal' = [journal EXCEPT ![<<p, x>>] =
          [stamp |-> clock + 1, node |-> "file", text |-> None, by |-> calls[w].hand]]
    BY <2>2 DEF Tombstone, Upsert
  <2>5. /\ journal'[<<p, x>>].stamp = clock' /\ journal'[<<p, x>>].stamp > 0
        /\ journal'[<<p, x>>].node = "file" /\ journal'[<<p, x>>].text = None
    BY <2>3, <2>4
  <2>6. <<p, x>>[1] = p /\ q \in Under(p)
    BY <2>2
  <2> QED
    BY <2>3, <2>5, <2>6 DEF MarkersHideWhatIsOlder, Marker, Under
<1> QED
  BY <1>1, AlwaysTyped, OldRowsStayHidden, PTL DEF Spec
=============================================================================
