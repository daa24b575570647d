-------------------------- MODULE CloudFoldersProofs --------------------------
(***************************************************************************)
(* Proofs about CloudFolders, for every tree of new folders, all callers,  *)
(* names, numbers of attempts and moves, and each of the five providers;   *)
(* and, at the end, about the pages its listings are cut into. First what  *)
(* a path is: Path is a recursive function, and all that is used of it is  *)
(* that it is the least set that holds a folder and, with each folder, the *)
(* one above it (PathIsUp). From this follow what a step that moves or     *)
(* deletes a folder does to the paths of all others. Then the invariant,   *)
(* one lemma for each action that keeps it, and the properties.            *)
(***************************************************************************)
EXTENDS CloudFolders, Page, FiniteSetTheorems, WellFoundedInduction, NaturalsInduction, TLAPS

\* A set that can be written with four elements is no larger.
LEMMA FourAtMost ==
  ASSUME NEW a, NEW b, NEW c, NEW d
  PROVE  IsFiniteSet({a, b, c, d}) /\ Cardinality({a, b, c, d}) \in Nat /\ Cardinality({a, b, c, d}) <= 4
<1>1. IsFiniteSet({a}) /\ Cardinality({a}) = 1
  BY FS_Singleton
<1>2. IsFiniteSet({a} \cup {b}) /\ Cardinality({a} \cup {b}) \in {1, 2}
  BY <1>1, FS_AddElement
<1>3. IsFiniteSet(({a} \cup {b}) \cup {c}) /\ Cardinality(({a} \cup {b}) \cup {c}) \in {1, 2, 3}
  BY <1>2, FS_AddElement
<1>4. /\ IsFiniteSet((({a} \cup {b}) \cup {c}) \cup {d})
      /\ Cardinality((({a} \cup {b}) \cup {c}) \cup {d}) \in {1, 2, 3, 4}
  BY <1>3, FS_AddElement
<1>5. (({a} \cup {b}) \cup {c}) \cup {d} = {a, b, c, d}
  OBVIOUS
<1> QED
  BY <1>4, <1>5

\* The five folders are five.
LEMMA FiveFolders ==
  /\ Home # Plain /\ Home # Shared /\ Home # Inner /\ Home # Nested
  /\ Plain # Shared /\ Plain # Inner /\ Plain # Nested
  /\ Shared # Inner /\ Shared # Nested /\ Inner # Nested
<1>1. ASSUME NEW a, NEW b, NEW c, NEW d
      PROVE  Old # {a, b, c, d}
  <2> SUFFICES ASSUME Old = {a, b, c, d}
               PROVE  FALSE
    OBVIOUS
  <2>1. Cardinality({a, b, c, d}) <= 4
    BY FourAtMost
  <2>2. Cardinality(Old) <= 4
    BY <2>1, Zenon
  <2>3. Cardinality(Old) = 5
    BY FoldersAssumption, Zenon DEF FoldersAssumption
  <2>4. 5 <= 4
    BY <2>2, <2>3, Zenon
  <2> QED
    BY <2>4
<1> QED
  BY <1>1 DEF Old

\* There are finitely many folders.
LEMMA FolderSets ==
  /\ Home \in Nodes /\ Plain \in Nodes /\ Shared \in Nodes /\ Inner \in Nodes /\ Nested \in Nodes
  /\ Home \notin New /\ NoNode \notin Nodes
  /\ IsFiniteSet(Nodes) /\ Cardinality(Nodes) \in Nat
<1>1. IsFiniteSet({Home, Plain, Shared, Inner} \cup {Nested})
  BY FourAtMost, FS_AddElement
<1>2. {Home, Plain, Shared, Inner} \cup {Nested} = Old
  BY DEF Old
<1>3. IsFiniteSet(Nodes)
  BY <1>1, <1>2, FS_Union, FoldersAssumption DEF Nodes, FoldersAssumption
<1> QED
  BY <1>3, FS_CardinalityType, FoldersAssumption DEF Nodes, Old, FoldersAssumption

-----------------------------------------------------------------------------
(* Paths. *)

\* A tree gives the folder above each folder, or NoNode.
Trees == [Nodes -> Nodes \cup {NoNode}]

\* A set that holds, with a folder, the one above it.
IsClosed(par, S) == S \subseteq Nodes /\ \A k \in S : par[k] # NoNode => par[k] \in S

\* n and the folders above it.
Up(par, n) == {m \in Nodes : \A S \in SUBSET Nodes : n \in S /\ IsClosed(par, S) => m \in S}

\* CloudFolders' Path, with the tree as an argument: what is above a folder before a
\* step can so be compared with what is above it after the step.
Above(par, m) == IF m = NoNode THEN NoNode ELSE par[m]
Climb(par, n) ==
  LET up[i \in 0 .. Cardinality(Nodes)] == IF i = 0 THEN n ELSE Above(par, up[i - 1])
  IN {up[i] : i \in 0 .. Cardinality(Nodes)} \ {NoNode}

\* Path is Climb in the tree of its state.
LEMMA PathClimbs ==
  ASSUME NEW n
  PROVE  Path(n) = Climb(parent, n) /\ Path(n)' = Climb(parent', n)
  BY DEF Path, Climb, Above

\* A set of numbers that is not empty has a least one.
LEMMA LeastNumber ==
  ASSUME NEW T, T \subseteq Nat, T # {}
  PROVE  \E x \in T : \A y \in T : x <= y
<1> DEFINE R == {ss \in Nat \X Nat : ss[1] < ss[2]}
<1>1. OpToRel(<, Nat) = R
  BY DEF OpToRel
<1>2. IsWellFoundedOn(R, Nat)
  BY <1>1, NatLessThanWellFounded
<1>3. PICK x \in T : \A y \in T : ~ (<<y, x>> \in R)
  <2> HIDE DEF R
  <2> QED
    BY <1>2, WFMin
<1>4. ASSUME NEW y \in T, y < x
      PROVE  FALSE
  <2>1. <<y, x>> \in Nat \X Nat
    OBVIOUS
  <2>2. <<y, x>>[1] < <<y, x>>[2]
    BY <1>4
  <2> QED
    BY <1>3, <2>1, <2>2
<1> QED
  BY <1>4

\* Climb goes up one folder at a time: there is a function that obeys its recursive
\* definition. If there were none up to some number of steps there would be a least
\* such number, and the function up to the number before it could be continued.
LEMMA ClimbUnfolds ==
  ASSUME NEW par, NEW n
  PROVE  \E up : /\ up = [i \in 0 .. Cardinality(Nodes) |-> IF i = 0 THEN n ELSE Above(par, up[i - 1])]
                 /\ Climb(par, n) = {up[i] : i \in 0 .. Cardinality(Nodes)} \ {NoNode}
<1> DEFINE Along(g, i) == IF i = 0 THEN n ELSE Above(par, g[i - 1])
           IsUpTo(g, k) == g = [i \in 0 .. k |-> Along(g, i)]
           Bad == {k \in Nat : ~ \E g : IsUpTo(g, k)}
<1>1. Bad = {}
  <2> SUFFICES ASSUME Bad # {}
               PROVE  FALSE
    OBVIOUS
  <2>1. PICK k \in Bad : \A j \in Bad : k <= j
    BY LeastNumber
  <2>2. CASE k = 0
    <3> DEFINE g == [i \in 0 .. 0 |-> n]
    <3>1. g = [i \in 0 .. 0 |-> Along(g, i)]
      OBVIOUS
    <3> QED
      BY <2>1, <2>2, <3>1
  <2>3. CASE k # 0
    <3>1. k \in Nat /\ k - 1 \in Nat /\ k - 1 \notin Bad
      <4> HIDE DEF IsUpTo
      <4> QED
        BY <2>1, <2>3
    <3>2. PICK g : IsUpTo(g, k - 1)
      <4> HIDE DEF IsUpTo
      <4> QED
        BY <3>1
    <3> DEFINE h == [i \in 0 .. k |-> Along(g, i)]
    <3>3. ASSUME NEW i \in 0 .. k
          PROVE  Along(h, i) = Along(g, i)
      <4>1. CASE i = 0
        BY <4>1
      <4>2. CASE i # 0
        <5>1. i - 1 \in 0 .. k - 1 /\ i - 1 \in 0 .. k
          BY <3>1, <4>2
        <5>2. h[i - 1] = Along(g, i - 1) /\ g[i - 1] = Along(g, i - 1)
          <6> HIDE DEF Along
          <6> QED
            BY <5>1, <3>2
        <5> HIDE DEF h
        <5> QED
          BY <5>2, <4>2
      <4> QED
        BY <4>1, <4>2
    <3>4. h = [i \in 0 .. k |-> Along(h, i)]
      <4> HIDE DEF Along
      <4> QED
        BY <3>3
    <3>5. IsUpTo(h, k)
      BY <3>4
    <3> HIDE DEF h, IsUpTo
    <3> QED
      BY <2>1, <3>5
  <2> QED
    BY <2>2, <2>3
<1> DEFINE K == Cardinality(Nodes)
<1>2. PICK g : IsUpTo(g, K)
  <2>1. K \in Nat
    BY FolderSets
  <2> HIDE DEF IsUpTo, K
  <2> QED
    BY <1>1, <2>1
<1> DEFINE up == CHOOSE f : IsUpTo(f, K)
<1>3. IsUpTo(up, K)
  <2> HIDE DEF IsUpTo
  <2> QED
    BY <1>2
<1>4. Climb(par, n) = {up[i] : i \in 0 .. K} \ {NoNode}
  BY DEF Climb
<1> HIDE DEF up
<1> QED
  BY <1>3, <1>4

\* In as many steps as there are folders one has come to the top, or round: Climb is
\* the least closed set that holds the folder it starts from.
LEMMA ClimbIsUp ==
  ASSUME NEW par \in Trees, NEW n \in Nodes
  PROVE  Climb(par, n) = Up(par, n)
<1> DEFINE K == Cardinality(Nodes)
           N == Nodes \cup {NoNode}
<1>0. K \in Nat /\ NoNode \notin Nodes /\ 0 \in 0 .. K
  BY FolderSets
<1>1. PICK up : /\ up = [i \in 0 .. K |-> IF i = 0 THEN n ELSE Above(par, up[i - 1])]
                /\ Climb(par, n) = {up[i] : i \in 0 .. K} \ {NoNode}
  BY ClimbUnfolds
<1>2. \A i \in 0 .. K : up[i] = IF i = 0 THEN n ELSE Above(par, up[i - 1])
  BY <1>1, Zenon
<1>2a. up = [i \in 0 .. K |-> up[i]]
  BY <1>1, Zenon
<1> HIDE DEF K
<1>3. up[0] = n /\ \A i \in 1 .. K : i - 1 \in 0 .. K /\ i \in 0 .. K /\ up[i] = Above(par, up[i - 1])
  BY <1>0, <1>2
<1>4. \A i \in 0 .. K : up[i] \in N
  <2> DEFINE Bad == {i \in Nat : i <= K /\ up[i] \notin N}
  <2>1. Bad = {}
    <3> SUFFICES ASSUME Bad # {}
                 PROVE  FALSE
      OBVIOUS
    <3>1. PICK i \in Bad : \A j \in Bad : i <= j
      BY LeastNumber
    <3>2. i \in 1 .. K /\ i - 1 \in Nat /\ i - 1 <= K /\ i - 1 \notin Bad
      BY <3>1, <1>3, <1>0
    <3>3. up[i - 1] \in N /\ up[i] = Above(par, up[i - 1])
      BY <3>2, <1>3
    <3> QED
      BY <3>1, <3>3 DEF Above, Trees
  <2> QED
    BY <2>1, <1>0
<1>5. n \in Climb(par, n) /\ Climb(par, n) \subseteq Nodes
  BY <1>1, <1>3, <1>4, <1>0
<1>6. ASSUME NEW S \in SUBSET Nodes, n \in S, IsClosed(par, S), NEW i \in 0 .. K, up[i] # NoNode
      PROVE  up[i] \in S
  <2> DEFINE Off == {j \in Nat : j <= K /\ up[j] # NoNode /\ up[j] \notin S}
  <2>1. Off = {}
    <3> SUFFICES ASSUME Off # {}
                 PROVE  FALSE
      OBVIOUS
    <3>1. PICK j \in Off : \A x \in Off : j <= x
      BY LeastNumber
    <3>2. j \in 1 .. K /\ j - 1 \in Nat /\ j - 1 <= K /\ j - 1 \notin Off
      BY <3>1, <1>3, <1>6, <1>0
    <3>3. up[j - 1] # NoNode /\ up[j] = par[up[j - 1]]
      BY <3>1, <3>2, <1>3 DEF Above
    <3> QED
      BY <3>1, <3>2, <3>3, <1>6 DEF IsClosed
  <2> QED
    BY <2>1, <1>0, <1>6
<1>7. Climb(par, n) \subseteq Up(par, n)
  BY <1>1, <1>4, <1>6 DEF Up
<1>8. \E S \in SUBSET Climb(par, n) : n \in S /\ IsClosed(par, S)
  <2>1. CASE \E i \in 0 .. K : up[i] = NoNode
    <3>1. PICK i \in 0 .. K : up[i] = NoNode
      BY <2>1
    <3>2. ASSUME NEW j \in 0 .. K, i <= j
          PROVE  up[j] = NoNode
      <4> DEFINE Bad == {x \in Nat : i <= x /\ x <= K /\ up[x] # NoNode}
      <4>1. Bad = {}
        <5> SUFFICES ASSUME Bad # {}
                     PROVE  FALSE
          OBVIOUS
        <5>1. PICK x \in Bad : \A y \in Bad : x <= y
          BY LeastNumber
        <5>2. x \in 1 .. K /\ x - 1 \in Nat /\ i <= x - 1 /\ x - 1 <= K /\ x - 1 \notin Bad
          BY <5>1, <3>1, <1>0
        <5> QED
          BY <5>1, <5>2, <1>3 DEF Above
      <4> QED
        BY <4>1, <3>2, <1>0
    <3>3. ASSUME NEW j \in 0 .. K, up[j] # NoNode, par[up[j]] # NoNode
          PROVE  par[up[j]] \in Climb(par, n)
      <4>1. j < i
        BY <3>2, <3>3, <3>1, <1>0
      <4>2. j + 1 \in 1 .. K /\ j + 1 - 1 = j /\ j + 1 \in 0 .. K
        BY <4>1, <3>1, <1>0
      <4>3. up[j + 1] = par[up[j]]
        BY <4>2, <1>3, <3>3 DEF Above
      <4> QED
        BY <4>2, <4>3, <3>3, <1>1
    <3>4. IsClosed(par, Climb(par, n))
      <4>1. ASSUME NEW k \in Climb(par, n), par[k] # NoNode
            PROVE  par[k] \in Climb(par, n)
        BY <4>1, <3>3, <1>1
      <4> QED
        BY <4>1, <1>5 DEF IsClosed
    <3> QED
      BY <3>4, <1>5
  <2>2. CASE \A i \in 0 .. K : up[i] # NoNode
    <3>1. up \in [0 .. K -> Nodes]
      BY <2>2, <1>2a, <1>4
    <3>2. IsFiniteSet(0 .. K) /\ Cardinality(0 .. K) = K + 1
      BY <1>0, FS_Interval
    <3>3. \E x, y \in 0 .. K : x # y /\ up[x] = up[y]
      BY <3>1, <3>2, <1>0, FolderSets, FS_PigeonHole DEF K
    <3>4. PICK i \in 0 .. K, j \in 0 .. K : i < j /\ up[i] = up[j]
      BY <3>3, <1>0
    <3> DEFINE S == {up[x] : x \in 0 .. j - 1}
    <3>5. \A x \in 0 .. j - 1 : x \in 0 .. K /\ x + 1 \in 1 .. K /\ up[x + 1] = par[up[x]]
      <4> TAKE x \in 0 .. j - 1
      <4>1. x \in 0 .. K /\ x + 1 \in 1 .. K /\ x + 1 - 1 = x
        BY <3>4, <1>0
      <4> QED
        BY <4>1, <1>3, <2>2 DEF Above
    <3>6. S \subseteq Climb(par, n) /\ n \in S
      BY <3>4, <3>5, <1>1, <1>3, <1>0, <2>2
    <3>7. ASSUME NEW x \in 0 .. j - 1
          PROVE  par[up[x]] \in S
      <4>1. CASE x = j - 1
        <5>1. up[j] = par[up[x]] /\ i \in 0 .. j - 1
          BY <4>1, <3>4, <3>5, <1>0
        <5> QED
          BY <5>1, <3>4
      <4>2. CASE x # j - 1
        <5>1. x + 1 \in 0 .. j - 1
          BY <4>2, <3>4, <1>0
        <5> QED
          BY <5>1, <3>5
      <4> QED
        BY <4>1, <4>2
    <3>8. IsClosed(par, S)
      BY <3>6, <3>7, <1>5 DEF IsClosed
    <3> QED
      BY <3>6, <3>8
  <2> QED
    BY <2>1, <2>2
<1> QED
  BY <1>5, <1>7, <1>8 DEF Up

\* Up is what it should be: the least closed set around n.
LEMMA UpIsLeast ==
  ASSUME NEW par \in Trees, NEW n \in Nodes
  PROVE  /\ n \in Up(par, n) /\ Up(par, n) \subseteq Nodes
         /\ IsClosed(par, Up(par, n))
         /\ \A S \in SUBSET Nodes : n \in S /\ IsClosed(par, S) => Up(par, n) \subseteq S
<1>1. ASSUME NEW k \in Up(par, n), par[k] # NoNode
      PROVE  par[k] \in Up(par, n)
  <2>1. par[k] \in Nodes
    BY <1>1 DEF Trees, Up
  <2>2. ASSUME NEW S \in SUBSET Nodes, n \in S, IsClosed(par, S)
        PROVE  par[k] \in S
    BY <1>1, <2>2 DEF Up, IsClosed
  <2> QED
    BY <2>1, <2>2 DEF Up
<1> QED
  BY <1>1 DEF Up, IsClosed

\* What is above a folder above n is above n.
LEMMA UpIsTransitive ==
  ASSUME NEW par \in Trees, NEW n \in Nodes, NEW m \in Up(par, n)
  PROVE  Up(par, m) \subseteq Up(par, n)
<1>1. m \in Nodes
  BY DEF Up
<1> QED
  BY <1>1, UpIsLeast

\* The first step of the way up.
LEMMA UpUnfolds ==
  ASSUME NEW par \in Trees, NEW n \in Nodes
  PROVE  /\ par[n] = NoNode => Up(par, n) = {n}
         /\ par[n] # NoNode => par[n] \in Nodes /\ Up(par, n) = {n} \cup Up(par, par[n])
<1>1. ASSUME par[n] = NoNode
      PROVE  Up(par, n) = {n}
  <2>1. IsClosed(par, {n})
    BY <1>1 DEF IsClosed
  <2> QED
    BY <2>1, UpIsLeast
<1>2. ASSUME par[n] # NoNode
      PROVE  par[n] \in Nodes /\ Up(par, n) = {n} \cup Up(par, par[n])
  <2>1. par[n] \in Nodes
    BY <1>2 DEF Trees
  <2>2. par[n] \in Up(par, n)
    BY <1>2, UpIsLeast DEF IsClosed
  <2>3. Up(par, par[n]) \subseteq Up(par, n) /\ n \in Up(par, n)
    BY <2>2, UpIsTransitive, UpIsLeast
  <2>4. IsClosed(par, {n} \cup Up(par, par[n]))
    BY <2>1, UpIsLeast DEF IsClosed
  <2>5. Up(par, n) \subseteq {n} \cup Up(par, par[n])
    BY <2>1, <2>4, UpIsLeast
  <2> QED
    BY <2>1, <2>3, <2>5
<1> QED
  BY <1>1, <1>2

\* Of two folders on a path one is above the other.
LEMMA UpIsLinear ==
  ASSUME NEW par \in Trees, NEW n \in Nodes, NEW x \in Up(par, n), NEW y \in Up(par, n)
  PROVE  x \in Up(par, y) \/ y \in Up(par, x)
<1> DEFINE S == {z \in Up(par, n) : y \in Up(par, z)} \cup Up(par, y)
<1>1. x \in Nodes /\ y \in Nodes /\ Up(par, n) \subseteq Nodes /\ Up(par, y) \subseteq Nodes
  BY DEF Up
<1>2. n \in S
  BY UpIsLeast
<1>3. ASSUME NEW k \in S, par[k] # NoNode
      PROVE  par[k] \in S
  <2>1. CASE k \in Up(par, y)
    BY <2>1, <1>1, <1>3, UpIsLeast DEF IsClosed
  <2>2. CASE k \in Up(par, n) /\ y \in Up(par, k)
    <3>1. k \in Nodes /\ par[k] \in Up(par, n)
      BY <2>2, <1>1, <1>3, UpIsLeast DEF IsClosed
    <3>2. par[k] \in Nodes /\ (y = k \/ y \in Up(par, par[k]))
      BY <2>2, <3>1, <1>3, UpUnfolds
    <3>3. CASE y = k
      BY <3>3, <1>1, <1>3, UpIsLeast DEF IsClosed
    <3>4. CASE y \in Up(par, par[k])
      BY <3>4, <3>1
    <3> QED
      BY <3>2, <3>3, <3>4
  <2> QED
    BY <2>1, <2>2
<1>4. S \subseteq Nodes /\ IsClosed(par, S)
  BY <1>1, <1>3 DEF IsClosed
<1>5. Up(par, n) \subseteq S
  BY <1>2, <1>4, UpIsLeast
<1> QED
  BY <1>5

\* Two trees that agree on the way up from n have the same way up from n.
LEMMA UpAgrees ==
  ASSUME NEW par \in Trees, NEW par2 \in Trees, NEW n \in Nodes,
         \A m \in Up(par, n) : par2[m] = par[m]
  PROVE  Up(par2, n) = Up(par, n)
<1>1. IsClosed(par2, Up(par, n)) /\ n \in Up(par, n) /\ Up(par, n) \subseteq Nodes
  BY UpIsLeast DEF IsClosed
<1>2. Up(par2, n) \subseteq Up(par, n)
  BY <1>1, UpIsLeast
<1>3. IsClosed(par, Up(par2, n)) /\ n \in Up(par2, n) /\ Up(par2, n) \subseteq Nodes
  BY <1>2, UpIsLeast DEF IsClosed
<1>4. Up(par, n) \subseteq Up(par2, n)
  BY <1>3, UpIsLeast
<1> QED
  BY <1>2, <1>4

-----------------------------------------------------------------------------
(* Trees. *)

\* The tree is one: Home is its top, and what is in a folder is below Home.
IsTree(par) ==
  /\ par \in Trees /\ par[Home] = NoNode
  /\ \A n \in Nodes : par[n] # NoNode => Home \in Up(par, n)

\* Above a folder below Home is nothing but folders below Home, with Home at the top.
LEMMA TopIsHome ==
  ASSUME NEW par, IsTree(par), NEW n \in Nodes, Home \in Up(par, n), NEW m \in Up(par, n)
  PROVE  Home \in Up(par, m) /\ (par[m] = NoNode => m = Home)
<1>1. par \in Trees /\ m \in Nodes /\ Home \in Nodes
  BY FolderSets DEF IsTree, Up
<1>2. Up(par, Home) = {Home}
  BY <1>1, UpUnfolds DEF IsTree
<1>3. CASE par[m] # NoNode
  BY <1>1, <1>3 DEF IsTree
<1>4. CASE par[m] = NoNode
  <2>1. Up(par, m) = {m}
    BY <1>1, <1>4, UpUnfolds
  <2>2. Home \in Up(par, m) \/ m \in Up(par, Home)
    BY <1>1, UpIsLinear
  <2> QED
    BY <2>1, <2>2, <1>2
<1> QED
  BY <1>3, <1>4

\* A folder is hung, or hung anew, into a folder that is not below it: the ways up that
\* did not lead over it are what they were, the others lead over it to its new place.
LEMMA Hanging ==
  ASSUME NEW par, IsTree(par), NEW n \in Nodes \ {Home}, NEW p \in Nodes,
         Home \in Up(par, p), n \notin Up(par, p),
         NEW par2 \in Trees, par2[n] = p, \A m \in Nodes : m # n => par2[m] = par[m]
  PROVE  /\ IsTree(par2)
         /\ \A m \in Nodes : n \notin Up(par, m) => Up(par2, m) = Up(par, m)
         /\ \A m \in Nodes : n \in Up(par, m) => n \in Up(par2, m) /\ Up(par, p) \subseteq Up(par2, m)
         /\ Up(par2, n) = {n} \cup Up(par, p)
<1>1. par \in Trees /\ par2 \in Trees /\ Home \in Nodes /\ NoNode \notin Nodes
  BY FolderSets DEF IsTree
<1>2. par2[n] = p /\ \A m \in Nodes \ {n} : par2[m] = par[m]
  OBVIOUS
<1>3. ASSUME NEW m \in Nodes, n \notin Up(par, m)
      PROVE  Up(par2, m) = Up(par, m)
  <2>1. Up(par, m) \subseteq Nodes
    BY DEF Up
  <2> QED
    BY <1>1, <1>2, <1>3, <2>1, UpAgrees
<1>4. Up(par2, n) = {n} \cup Up(par, p)
  <2>1. Up(par2, p) = Up(par, p)
    BY <1>3
  <2>2. par2[n] # NoNode
    BY <1>1, <1>2
  <2>3. Up(par2, n) = {n} \cup Up(par2, par2[n])
    BY <2>2, <1>1, UpUnfolds
  <2> QED
    BY <2>1, <2>3, <1>2
<1>5. ASSUME NEW m \in Nodes, n \in Up(par, m)
      PROVE  n \in Up(par2, m) /\ Up(par, p) \subseteq Up(par2, m)
  <2>1. n \in Up(par2, m)
    <3> SUFFICES ASSUME n \notin Up(par2, m)
                 PROVE  FALSE
      OBVIOUS
    <3>1. \A k \in Up(par2, m) : par[k] = par2[k]
      BY <1>2 DEF Up
    <3>2. Up(par, m) = Up(par2, m)
      BY <3>1, <1>1, UpAgrees
    <3> QED
      BY <3>2, <1>5
  <2>2. Up(par2, n) \subseteq Up(par2, m)
    BY <2>1, <1>1, UpIsTransitive
  <2> QED
    BY <2>1, <2>2, <1>4
<1>6. ASSUME NEW m \in Nodes, par2[m] # NoNode
      PROVE  Home \in Up(par2, m)
  <2>1. CASE n \in Up(par, m)
    BY <2>1, <1>5
  <2>2. CASE n \notin Up(par, m)
    <3>1. m # n
      BY <2>2, <1>1, UpIsLeast
    <3>2. Home \in Up(par, m)
      BY <3>1, <1>2, <1>6 DEF IsTree
    <3> QED
      BY <3>2, <2>2, <1>3
  <2> QED
    BY <2>1, <2>2
<1>7. par2[Home] = NoNode
  BY <1>1, <1>2 DEF IsTree
<1> QED
  BY <1>1, <1>3, <1>4, <1>5, <1>6, <1>7 DEF IsTree

\* A folder is deleted with all that is below it: the ways up that did not lead over it
\* are what they were, and what they led over it for is below Home no more.
LEMMA Cutting ==
  ASSUME NEW par, IsTree(par), NEW n, NEW par2,
         par2 = [m \in Nodes |-> IF Home \in Up(par, m) /\ n \in Up(par, m) THEN NoNode ELSE par[m]]
  PROVE  /\ IsTree(par2)
         /\ \A m \in Nodes : n \notin Up(par, m) => Up(par2, m) = Up(par, m)
         /\ \A m \in Nodes : Home \in Up(par2, m) => m = Home \/ n \notin Up(par, m)
<1>1. par \in Trees /\ par2 \in Trees /\ Home \in Nodes /\ NoNode \notin Nodes
  BY FolderSets DEF IsTree, Trees
<1>2. ASSUME NEW m \in Nodes, n \notin Up(par, m)
      PROVE  Up(par2, m) = Up(par, m)
  <2>1. ASSUME NEW k \in Up(par, m)
        PROVE  par2[k] = par[k]
    <3>1. k \in Nodes /\ Up(par, k) \subseteq Up(par, m)
      BY <1>1, UpIsTransitive DEF Up
    <3> QED
      BY <3>1, <1>2
  <2> QED
    BY <2>1, <1>1, UpAgrees
<1>3. ASSUME NEW m \in Nodes, n \in Up(par, m)
      PROVE  par2[m] = NoNode /\ Up(par2, m) = {m}
  <2>1. par2[m] = NoNode
    BY <1>3 DEF IsTree
  <2> QED
    BY <2>1, <1>1, UpUnfolds
<1>4. ASSUME NEW m \in Nodes, Home \in Up(par2, m)
      PROVE  m = Home \/ n \notin Up(par, m)
  BY <1>3, <1>4
<1>5. ASSUME NEW m \in Nodes, par2[m] # NoNode
      PROVE  Home \in Up(par2, m)
  <2>1. par[m] # NoNode /\ n \notin Up(par, m)
    BY <1>3, <1>5
  <2> QED
    BY <2>1, <1>2 DEF IsTree
<1>6. par2[Home] = NoNode
  BY <1>1 DEF IsTree
<1> QED
  BY <1>1, <1>2, <1>4, <1>5, <1>6 DEF IsTree

-----------------------------------------------------------------------------
(* References and adapters. *)

\* What is below Home in the tree of a state.
LEMMA PathIsUp ==
  /\ parent \in Trees => \A n \in Nodes : Path(n) = Up(parent, n) /\ (Exists(n) <=> Home \in Up(parent, n))
  /\ parent' \in Trees => \A n \in Nodes : Path(n)' = Up(parent', n) /\ (Exists(n)' <=> Home \in Up(parent', n))
<1>1. ASSUME parent \in Trees, NEW n \in Nodes
      PROVE  Path(n) = Up(parent, n)
  BY <1>1, PathClimbs, ClimbIsUp
<1>2. ASSUME parent' \in Trees, NEW n \in Nodes
      PROVE  Path(n)' = Up(parent', n)
  BY <1>2, PathClimbs, ClimbIsUp
<1> QED
  BY <1>1, <1>2 DEF Exists

\* Namespaces and drives other than Home.
Mounts == Spaces \ {Home}

\* The references a migration or a browser uses: folders by their ids, namespaces and
\* drives by theirs, and the two aliases.
Items == {Id(n) : n \in Nodes}
References == {Empty, Root} \cup Items \cup {Ns(n) : n \in Mounts}

\* References are told apart by what they are and by what they name.
LEMMA RefFacts ==
  /\ \A n : Id(n)[1] = "id" /\ Id(n)[2] = n /\ Ns(n)[1] = "ns" /\ Ns(n)[2] = n
  /\ Empty[1] = Blank /\ Root[1] = "root" /\ Empty # Root /\ Blank \notin {"id", "ns", "root"}
  /\ \A m, n : Id(m) # Ns(n)
  /\ \A n : Id(n) \notin {Empty, Root} /\ Ns(n) \notin {Empty, Root}
  /\ \A m, n : (Id(m) = Id(n) <=> m = n) /\ (Ns(m) = Ns(n) <=> m = n)
<1>1. /\ \A n : Id(n)[1] = "id" /\ Id(n)[2] = n /\ Ns(n)[1] = "ns" /\ Ns(n)[2] = n
      /\ Empty[1] = Blank /\ Root[1] = "root"
  BY DEF Id, Ns, Root, Empty
<1>2. Empty # Root /\ Blank \notin {"id", "ns", "root"}
  <2>1. Blank \notin {"id", "ns", "root"}
    BY DEF Blank
  <2> QED
    BY <2>1, <1>1
<1>3. ASSUME NEW m, NEW n
      PROVE  Id(m) # Ns(n) /\ (Id(m) = Id(n) <=> m = n) /\ (Ns(m) = Ns(n) <=> m = n)
  <2>1. Id(m)[1] = "id" /\ Ns(n)[1] = "ns" /\ Id(m)[2] = m /\ Id(n)[2] = n /\ Ns(m)[2] = m /\ Ns(n)[2] = n
    BY <1>1
  <2> QED
    BY <2>1
<1>4. ASSUME NEW n
      PROVE  Id(n) \notin {Empty, Root} /\ Ns(n) \notin {Empty, Root}
  <2>1. Id(n)[1] = "id" /\ Ns(n)[1] = "ns"
    BY <1>1
  <2> QED
    BY <2>1, <1>1, <1>2
<1> QED
  BY <1>1, <1>2, <1>3, <1>4, ZenonT(60)

\* The namespaces, drives and sites of each of the five providers.
LEMMA ProviderFacts ==
  ASSUME provider \in Providers
  PROVE  /\ provider \in {"dropbox", "box", "googledrive", "onedrive", "sharepoint"}
         /\ provider = "dropbox" => Spaces = {Home, Shared, Nested} /\ Mounts = {Shared, Nested} /\ Sites = {}
         /\ provider = "sharepoint" => Spaces = {Shared} /\ Mounts = {Shared} /\ Sites = {Home, Plain}
         /\ provider \in {"box", "googledrive", "onedrive"} => Spaces = {Home} /\ Mounts = {} /\ Sites = {}
         /\ Spaces \subseteq Nodes /\ Mounts \subseteq Nodes \ {Home} /\ Sites \subseteq Nodes
<1>1. provider \in {"dropbox", "box", "googledrive", "onedrive", "sharepoint"}
  BY FoldersAssumption DEF FoldersAssumption
<1>2. provider = "dropbox" => Spaces = {Home, Shared, Nested} /\ Sites = {}
  BY DEF Spaces, Sites
<1>3. provider = "sharepoint" => Spaces = {Shared} /\ Sites = {Home, Plain}
  BY DEF Spaces, Sites
<1>4. provider \in {"box", "googledrive", "onedrive"} => Spaces = {Home} /\ Sites = {}
  BY DEF Spaces, Sites
<1> QED
  BY <1>1, <1>2, <1>3, <1>4, FolderSets, FiveFolders DEF Mounts

\* What nobody moves or deletes: the mounts of shared folders, a site's subsite and its
\* library, below which are all of its folders.
FixedOK ==
  /\ provider = "dropbox" => parent[Shared] = Home /\ parent[Nested] = Shared
  /\ provider = "sharepoint" =>
       /\ parent[Shared] = Home /\ parent[Plain] = Home
       /\ \A n \in Nodes \ Sites : Home \in Up(parent, n) => Shared \in Up(parent, n)

\* A folder as a listing or a list of roots shows n.
FolderOK(f, n) ==
  /\ n \in Nodes
  /\ provider = "dropbox" =>
       \/ n = Home /\ f.type = "user_root" /\ f.service = Root /\ f.parent = Ns(Home)
       \/ /\ n \in Mounts /\ f.type \in {"shared_folder", "team_folder", "folder"}
          /\ f.service = Ns(n) /\ f.parent = Ns(n)
       \/ f.type = "folder" /\ f.service = Id(n) /\ f.parent = Empty
  /\ provider = "box" => f.service = Id(n)
  /\ provider \in {"googledrive", "onedrive"} => f.service = Id(n) \/ (n = Home /\ f.service = Root)
  /\ provider = "sharepoint" =>
       \/ f.type = "sharepoint_site"
       \/ n = Shared /\ f.type = "sharepoint_drive" /\ f.service = Ns(Shared) /\ f.parent = Ns(Shared)
       \/ n \notin Sites /\ f.type = "folder" /\ f.service = Id(n) /\ f.parent = Ns(Shared)

\* The adapter of a migration.
AdapterOK(a) ==
  /\ a.space \in Spaces /\ a.context # "sharepoint_site"
  /\ provider = "dropbox" =>
       IF a.context = "user_root"
       THEN /\ a.space = Home /\ a.parent \in {Empty, Ns(Home)}
            /\ a.service = Root \/ (a.service \in Items /\ a.type = "folder")
       ELSE a.space # Home /\ a.service = Ns(a.space)
  /\ provider = "box" => a.service \in Items /\ a.folder = a.service
  /\ provider \in {"googledrive", "onedrive", "sharepoint"} => a.folder \in Items \cup {Root}
  /\ provider = "sharepoint" => a.context = "sharepoint_drive"

\* Namespaces and drives are always there.
LEMMA MountsExist ==
  ASSUME provider \in Providers, IsTree(parent), FixedOK
  PROVE  \A n \in Spaces : Home \in Up(parent, n)
<1>1. Home \in Up(parent, Home)
  BY FolderSets, UpIsLeast DEF IsTree
<1>2. provider = "dropbox" => parent[Shared] # NoNode /\ parent[Nested] # NoNode
  BY FolderSets DEF FixedOK
<1>3. provider = "sharepoint" => parent[Shared] # NoNode
  BY FolderSets DEF FixedOK
<1>4. /\ provider = "dropbox" => Home \in Up(parent, Shared) /\ Home \in Up(parent, Nested)
      /\ provider = "sharepoint" => Home \in Up(parent, Shared)
  BY <1>2, <1>3, FolderSets DEF IsTree
<1> QED
  BY <1>1, <1>4, ProviderFacts

\* The folder that an item id reaches; other references are no item ids.
LEMMA ItemFacts ==
  ASSUME parent \in Trees, NEW s
  PROVE  /\ \A n \in Nodes : Item(s, Id(n)) = IF Home \in Up(parent, n) /\ s \in Up(parent, n)
                                               THEN n ELSE NoNode
         /\ \A n : Item(s, Ns(n)) = NoNode
         /\ Item(s, Root) = NoNode /\ Item(s, Empty) = NoNode
<1>1. ASSUME NEW n \in Nodes
      PROVE  Item(s, Id(n)) = IF Home \in Up(parent, n) /\ s \in Up(parent, n) THEN n ELSE NoNode
  <2>1. Path(n) = Up(parent, n)
    BY PathIsUp
  <2>2. Id(n)[1] = "id" /\ Id(n)[2] = n
    BY RefFacts
  <2>3. Item(s, Id(n)) = IF {Home, s} \subseteq Up(parent, n) THEN n ELSE NoNode
    BY <2>1, <2>2, Zenon DEF Item
  <2> QED
    BY <2>3
<1>2. /\ \A n : Item(s, Ns(n)) = NoNode
      /\ Item(s, Root) = NoNode /\ Item(s, Empty) = NoNode
  BY RefFacts DEF Item
<1> QED
  BY <1>1, <1>2

\* A folder in the space of an adapter.
InSpace(s, n) == Home \in Up(parent, n) /\ s \in Up(parent, n)

\* An id addresses its folder, for every adapter in whose space the folder is.
LEMMA ItemTargets ==
  ASSUME provider \in Providers, parent \in Trees, NEW a, AdapterOK(a), NEW n \in Nodes
  PROVE  /\ ListTarget(a, Id(n)) = IF InSpace(a.space, n) THEN n ELSE NoNode
         /\ CreateTarget(a, Id(n)) = IF InSpace(a.space, n) THEN n ELSE NoNode
         /\ NodeTarget(a, Id(n)) = IF InSpace(a.space, n) THEN n ELSE NoNode
<1> DEFINE i == IF InSpace(a.space, n) THEN n ELSE NoNode
<1>1. Item(a.space, Id(n)) = i
  BY ItemFacts DEF InSpace
<1>2. a # NoAdapter /\ a.space \in Spaces /\ a.context # "sharepoint_site"
  BY ProviderFacts, FolderSets DEF AdapterOK, NoAdapter
<1>3. Id(n) # Empty /\ Id(n) # Root /\ Id(n)[1] = "id" /\ \A m : Id(n) # Ns(m)
  BY RefFacts
<1> HIDE DEF i
<1>4. CASE provider = "dropbox"
  <2>1. \/ a.context = "user_root" /\ Id(n) # a.parent /\ (a.service = Root \/ a.type = "folder")
        \/ a.context # "user_root" /\ Id(n) # a.service
    BY <1>3, <1>4 DEF AdapterOK
  <2>2. DropboxList(a, Id(n)) = i
    BY <2>1, <1>1, <1>3 DEF DropboxList, DropboxIsRoot
  <2>3. DropboxCreate(a, Id(n)) = i
    BY <2>1, <1>1, <1>3, <1>4 DEF DropboxCreate, AdapterOK
  <2> QED
    BY <2>2, <2>3, <1>1, <1>2, <1>4 DEF ListTarget, CreateTarget, NodeTarget, i
<1>5. CASE provider = "box"
  <2>1. a.space = Home /\ a.folder = a.service
    BY <1>5, ProviderFacts DEF AdapterOK
  <2>2. BoxList(a, Id(n)) = i /\ BoxCreate(a, Id(n)) = i
    BY <2>1, <1>1, <1>3 DEF BoxList, BoxCreate
  <2> QED
    BY <2>2, <1>1, <1>2, <1>5 DEF ListTarget, CreateTarget, NodeTarget, i
<1>6. CASE provider = "googledrive"
  <2>1. a.space = Home
    BY <1>6, ProviderFacts DEF AdapterOK
  <2>2. DriveList(a, Id(n)) = i /\ DriveCreate(a, Id(n)) = i
    BY <2>1, <1>1, <1>3 DEF DriveList, DriveCreate
  <2> QED
    BY <2>2, <1>1, <1>2, <1>6 DEF ListTarget, CreateTarget, NodeTarget, i
<1>7. CASE provider \in {"onedrive", "sharepoint"}
  <2>1. GraphList(a, Id(n)) = i /\ GraphCreate(a, Id(n)) = i /\ ItemPath(a, Id(n)) = i
    BY <1>1, <1>3 DEF GraphList, GraphCreate, GraphFolder, ItemPath
  <2> QED
    BY <2>1, <1>2, <1>7 DEF ListTarget, CreateTarget, NodeTarget, i
<1> QED
  BY <1>4, <1>5, <1>6, <1>7, ProviderFacts

\* A namespace or drive is listed, but not under My Dropbox; it is written into only as
\* the Path-Root, and never renamed.
LEMMA MountTargets ==
  ASSUME provider \in Providers, IsTree(parent), FixedOK, NEW a, AdapterOK(a), NEW n \in Mounts
  PROVE  /\ ListTarget(a, Ns(n)) = IF a.context = "user_root" THEN NoNode ELSE n
         /\ CreateTarget(a, Ns(n)) = IF provider = "sharepoint" \/ n # a.space THEN NoNode ELSE n
         /\ NodeTarget(a, Ns(n)) = NoNode
<1>1. /\ Item(a.space, Ns(n)) = NoNode /\ Exists(n) /\ n # Home /\ n \in Spaces
      /\ provider \in {"dropbox", "sharepoint"}
  BY ItemFacts, MountsExist, PathIsUp, ProviderFacts DEF IsTree, Mounts
<1>2. a # NoAdapter /\ a.space \in Spaces /\ a.context # "sharepoint_site"
  BY ProviderFacts, FolderSets DEF AdapterOK, NoAdapter
<1>3. /\ Ns(n) # Empty /\ Ns(n) # Root /\ Ns(n)[1] = "ns" /\ Ns(n)[2] = n
      /\ \A m : Ns(n) # Id(m) /\ (Ns(n) = Ns(m) <=> n = m)
  BY RefFacts
<1>4. CASE provider = "dropbox"
  <2>1. CASE a.context = "user_root"
    <3>1. a.space = Home /\ Ns(n) # a.parent /\ Ns(n) # a.service
      BY <2>1, <1>1, <1>3, <1>4 DEF AdapterOK, Items
    <3>2. DropboxList(a, Ns(n)) = NoNode
      BY <3>1, <2>1, <1>1, <1>3 DEF DropboxList, DropboxIsRoot
    <3>3. DropboxCreate(a, Ns(n)) = NoNode
      BY <3>1, <1>1, <1>3 DEF DropboxCreate
    <3> QED
      BY <3>1, <3>2, <3>3, <2>1, <1>1, <1>2, <1>4 DEF ListTarget, CreateTarget, NodeTarget
  <2>2. CASE a.context # "user_root"
    <3>1. a.service = Ns(a.space)
      BY <2>2, <1>4 DEF AdapterOK
    <3>2. DropboxList(a, Ns(n)) = n
      BY <3>1, <2>2, <1>1, <1>3 DEF DropboxList, DropboxIsRoot
    <3>3. DropboxCreate(a, Ns(n)) = IF n # a.space THEN NoNode ELSE n
      BY <3>1, <1>1, <1>3 DEF DropboxCreate
    <3> QED
      BY <3>2, <3>3, <2>2, <1>1, <1>2, <1>4 DEF ListTarget, CreateTarget, NodeTarget
  <2> QED
    BY <2>1, <2>2
<1>5. CASE provider = "sharepoint"
  <2>1. a.space = n /\ a.context = "sharepoint_drive"
    BY <1>5, ProviderFacts DEF AdapterOK
  <2>2. GraphList(a, Ns(n)) = n /\ GraphCreate(a, Ns(n)) = NoNode /\ ItemPath(a, Ns(n)) = NoNode
    BY <2>1, <1>1, <1>3 DEF GraphList, GraphCreate, GraphFolder, ItemPath
  <2> QED
    BY <2>1, <2>2, <1>2, <1>5 DEF ListTarget, CreateTarget, NodeTarget
<1> QED
  BY <1>1, <1>4, <1>5

\* The aliases: what is made under one is listed under it, and is made in a folder of
\* the adapter's space; nothing is renamed by one but the root of the space.
LEMMA AliasTargets ==
  ASSUME provider \in Providers, IsTree(parent), FixedOK, NEW a, AdapterOK(a), NEW ref \in {Empty, Root}
  PROVE  /\ CreateTarget(a, ref) # NoNode =>
                /\ CreateTarget(a, ref) = ListTarget(a, ref)
                /\ CreateTarget(a, ref) \in Nodes /\ InSpace(a.space, CreateTarget(a, ref))
         /\ NodeTarget(a, ref) \in {NoNode, a.space}
         /\ provider = "dropbox" => CreateTarget(a, ref) = a.space /\ ListTarget(a, ref) = a.space
         /\ ref = Root /\ a.space = Home /\ provider # "box" => ListTarget(a, ref) = Home /\ CreateTarget(a, ref) = Home
<1>1. /\ Item(a.space, ref) = NoNode /\ Item(Home, ref) = NoNode /\ parent \in Trees
      /\ \A n : ref # Id(n) /\ ref # Ns(n)
      /\ Empty # Root
  BY ItemFacts, RefFacts DEF IsTree
<1>2. /\ a # NoAdapter /\ a.space \in Spaces /\ a.context # "sharepoint_site" /\ a.space \in Nodes
      /\ a.space # NoNode
  BY ProviderFacts, FolderSets DEF AdapterOK, NoAdapter
<1>3. InSpace(a.space, a.space)
  BY <1>1, <1>2, MountsExist, UpIsLeast DEF InSpace
<1>4. \A n \in Nodes : Item(a.space, Id(n)) # NoNode => Item(a.space, Id(n)) = n /\ InSpace(a.space, n)
  BY <1>1, ItemFacts DEF InSpace
<1>5. CASE provider = "dropbox"
  <2>1. DropboxList(a, ref) = a.space /\ DropboxCreate(a, ref) = a.space
    BY DEF DropboxList, DropboxIsRoot, DropboxCreate
  <2> QED
    BY <2>1, <1>1, <1>2, <1>3, <1>5 DEF ListTarget, CreateTarget, NodeTarget
<1>6. CASE provider = "box"
  <2>1. a.space = Home /\ a.folder \in Items
    BY <1>6, ProviderFacts DEF AdapterOK
  <2>2. BoxList(a, ref) = Item(a.space, a.folder) /\ BoxCreate(a, ref) \in {NoNode, Item(a.space, a.folder)}
    BY <2>1, <1>1 DEF BoxList, BoxCreate
  <2>3. Item(a.space, a.folder) # NoNode => Item(a.space, a.folder) \in Nodes /\ InSpace(a.space, Item(a.space, a.folder))
    BY <2>1, <1>4 DEF Items
  <2> QED
    BY <2>2, <2>3, <1>1, <1>2, <1>6 DEF ListTarget, CreateTarget, NodeTarget
<1>7. CASE provider = "googledrive"
  <2>1. a.space = Home /\ a.folder \in Items \cup {Root}
    BY <1>7, ProviderFacts DEF AdapterOK
  <2>2. DriveList(a, ref) \in {a.space, Item(a.space, a.folder)} /\ (ref = Root => DriveList(a, ref) = Home)
    BY <2>1, <1>1 DEF DriveList
  <2>3. a.folder \in Items /\ Item(a.space, a.folder) # NoNode =>
          Item(a.space, a.folder) \in Nodes /\ InSpace(a.space, Item(a.space, a.folder))
    BY <2>1, <1>4 DEF Items
  <2>4. Item(a.space, Root) = NoNode
    BY <1>1, ItemFacts
  <2> QED
    BY <2>1, <2>2, <2>3, <2>4, <1>1, <1>2, <1>3, <1>7 DEF ListTarget, CreateTarget, NodeTarget, DriveCreate
<1>8. CASE provider \in {"onedrive", "sharepoint"}
  <2>1. a.folder \in Items \cup {Root}
    BY <1>8 DEF AdapterOK
  <2>2. GraphFolder(a, ref) \in Items \cup {Root} /\ (ref = Root => GraphFolder(a, ref) = Root)
    BY <2>1, <1>1 DEF GraphFolder
  <2>3. ASSUME NEW g \in Items \cup {Root}
        PROVE  /\ g # Ns(a.space)
               /\ ItemPath(a, g) # NoNode => ItemPath(a, g) \in Nodes /\ InSpace(a.space, ItemPath(a, g))
    <3>1. CASE g = Root
      BY <3>1, <1>2, <1>3, RefFacts DEF ItemPath
    <3>2. CASE g # Root
      <4>1. PICK n \in Nodes : g = Id(n)
        BY <3>2 DEF Items
      <4> QED
        BY <4>1, <3>2, <1>4, RefFacts DEF ItemPath
    <3> QED
      BY <3>1, <3>2
  <2>4. /\ GraphList(a, ref) = GraphCreate(a, ref)
        /\ GraphCreate(a, ref) # NoNode => GraphCreate(a, ref) \in Nodes /\ InSpace(a.space, GraphCreate(a, ref))
        /\ ref = Root => GraphCreate(a, ref) = a.space
    BY <2>2, <2>3 DEF GraphList, GraphCreate, ItemPath
  <2>5. ItemPath(a, ref) \in {NoNode, a.space}
    BY <1>1 DEF ItemPath
  <2> QED
    BY <2>4, <2>5, <1>2, <1>8 DEF ListTarget, CreateTarget, NodeTarget
<1> QED
  BY <1>5, <1>6, <1>7, <1>8, ProviderFacts

\* What CreateFolder makes under a reference is listed under it, in the adapter's space.
LEMMA CreatedIsListed ==
  ASSUME provider \in Providers, IsTree(parent), FixedOK, NEW a, AdapterOK(a),
         NEW ref \in References, CreateTarget(a, ref) # NoNode
  PROVE  /\ CreateTarget(a, ref) = ListTarget(a, ref)
         /\ CreateTarget(a, ref) \in Nodes /\ InSpace(a.space, CreateTarget(a, ref))
<1>1. CASE ref \in {Empty, Root}
  BY <1>1, AliasTargets
<1>2. CASE ref \in Items
  <2>1. PICK n \in Nodes : ref = Id(n)
    BY <1>2 DEF Items
  <2>2. parent \in Trees
    BY DEF IsTree
  <2>3. CreateTarget(a, ref) = n /\ ListTarget(a, ref) = n /\ InSpace(a.space, n)
    BY <2>1, <2>2, ItemTargets
  <2> QED
    BY <2>3
<1>3. CASE \E n \in Mounts : ref = Ns(n)
  <2>1. PICK n \in Mounts : ref = Ns(n)
    BY <1>3
  <2>2. CreateTarget(a, ref) = n /\ provider # "sharepoint" /\ n = a.space
    BY <2>1, MountTargets
  <2>3. /\ n # Home /\ n \in Nodes /\ n \in Spaces /\ parent \in Trees
        /\ provider = "dropbox"
    BY <2>2, ProviderFacts DEF Mounts, IsTree
  <2>4. a.context # "user_root"
    BY <2>2, <2>3 DEF AdapterOK
  <2>5. ListTarget(a, ref) = n
    BY <2>1, <2>4, MountTargets
  <2>6. InSpace(a.space, n)
    BY <2>2, <2>3, MountsExist, UpIsLeast DEF InSpace
  <2> QED
    BY <2>2, <2>3, <2>5, <2>6
<1> QED
  BY <1>1, <1>2, <1>3 DEF References

-----------------------------------------------------------------------------
(* The invariant. *)

\* A folder that a migration knows, by an id that is its own; only the root may be
\* called "root", and then by an adapter of all of Home.
KnownOK(e) ==
  /\ e.node \in Nodes \ Sites /\ e.under \in References
  /\ \/ e.service = Id(e.node)
     \/ e.service = Ns(e.node) /\ e.node \in Mounts
     \/ e.service = Root /\ e.node = Home /\ adapter.space = Home /\ provider # "box"
  /\ e.node \in New => name[e.node] # Blank

\* A call is made with references refs, and a rename is of something in kn other than
\* the adapter's root.
CallFits(r, refs, kn, root) ==
  /\ r = [at |-> r.at, op |-> r.op, ref |-> r.ref, under |-> r.under, node |-> r.node,
          name |-> r.name, tries |-> r.tries, todo |-> r.todo]
  /\ r.at \in {"idle", "asking"} /\ r.tries \in 0 .. MaxTries
  /\ r.op \in {"create", "rename"} => r.name \in Names
  /\ r.op = "create" => r.ref \in refs
  /\ r.op = "rename" =>
       \E e \in kn : /\ e.service # root
                     /\ r.ref = e.service /\ r.under = e.under /\ r.node = e.node

\* Names are unique in a folder where the provider has them so; a new folder gets a
\* name when it is made, and is made once.
NamesOK ==
  /\ DOMAIN name = Nodes
  /\ provider # "googledrive" =>
       \A n, m \in Nodes : n # m /\ parent[n] = parent[m] /\ parent[n] # NoNode => name[n] # name[m]
  /\ \A n \in New : parent[n] # NoNode => name[n] # Blank

ShownOK == \A q \in shown : FolderOK(q.folder, q.node) /\ (q.node \in New => name[q.node] # Blank)

\* First the browser, then the migration.
PhaseOK ==
  IF adapter = NoAdapter THEN known = {} /\ \A c \in Callers : call[c] = Idle
                         ELSE shown = {} /\ AdapterOK(adapter)

CallsOK ==
  /\ DOMAIN call = Callers
  /\ \A c \in Callers : CallFits(call[c], References, known, adapter.service)

FoldersInv ==
  /\ provider \in Providers
  /\ IsTree(parent) /\ FixedOK
  /\ NamesOK
  /\ ShownOK
  /\ PhaseOK
  /\ \A e \in known : KnownOK(e)
  /\ CallsOK

\* What depends on the provider alone does not change.
LEMMA ProviderStays ==
  ASSUME provider' = provider
  PROVE  Spaces' = Spaces /\ Sites' = Sites /\ Mounts' = Mounts /\ References' = References
<1>1. Spaces' = Spaces /\ Sites' = Sites
  BY DEF Spaces, Sites
<1>2. Mounts' = Mounts
  BY <1>1 DEF Mounts
<1> QED
  BY <1>1, <1>2 DEF References

\* What a migration knows it goes on knowing, and what was right stays so, in steps that
\* do not change the adapter and take no name away.
Keeps ==
  /\ provider' = provider /\ adapter' = adapter /\ known \subseteq known'
  /\ \A n \in New : name[n] # Blank => name'[n] # Blank

LEMMA KnownStays ==
  ASSUME Keeps
  PROVE  /\ \A e : KnownOK(e) => KnownOK(e)'
         /\ \A f, n : FolderOK(f, n) => FolderOK(f, n)'
         /\ \A r : CallFits(r, References, known, adapter.service)
                     => CallFits(r, References', known', adapter'.service)
         /\ AdapterOK(adapter) => AdapterOK(adapter)'
<1>1. /\ provider' = provider /\ adapter' = adapter /\ known \subseteq known'
      /\ Spaces' = Spaces /\ Sites' = Sites /\ Mounts' = Mounts /\ References' = References
  BY ProviderStays DEF Keeps
<1>2. ASSUME NEW e, KnownOK(e)
      PROVE  KnownOK(e)'
  BY <1>1, <1>2 DEF KnownOK, Keeps
<1>3. ASSUME NEW f, NEW n, FolderOK(f, n)
      PROVE  FolderOK(f, n)'
  BY <1>1, <1>3 DEF FolderOK
<1>4. ASSUME NEW r, CallFits(r, References, known, adapter.service)
      PROVE  CallFits(r, References', known', adapter'.service)
  <2>1. r.op = "rename" =>
          \E e \in known' : /\ e.service # adapter'.service
                            /\ r.ref = e.service /\ r.under = e.under /\ r.node = e.node
    BY <1>1, <1>4 DEF CallFits
  <2> QED
    BY <2>1, <1>1, <1>4 DEF CallFits
<1>5. AdapterOK(adapter) => AdapterOK(adapter)'
  BY <1>1 DEF AdapterOK
<1> QED
  BY <1>2, <1>3, <1>4, <1>5

\* What is used of the constants.
LEMMA ConstantFacts ==
  /\ MaxTries \in Nat /\ MaxTries # 0 /\ Blank \notin Names /\ Old \cap New = {}
  /\ FirstNames[Plain] # FirstNames[Shared] /\ FirstNames[Inner] # FirstNames[Nested]
  /\ SharedRoots \subseteq {"shared_folder", "team_folder"}
<1>1. MaxTries \in Nat \ {0}
  BY FoldersAssumption, Zenon DEF FoldersAssumption
<1>2. MaxTries \in Nat /\ MaxTries # 0
  BY <1>1
<1> QED
  BY <1>2, FoldersAssumption, Zenon DEF FoldersAssumption

\* A caller that does nothing fits.
LEMMA IdleFits ==
  ASSUME NEW refs, NEW kn, NEW root
  PROVE  CallFits(Idle, refs, kn, root)
<1>1. 0 \in 0 .. MaxTries
  BY ConstantFacts
<1> QED
  BY <1>1 DEF CallFits, Idle

\* What a call becomes while it goes on, or after it.
LEMMA CallGoesOn ==
  ASSUME NEW refs, NEW kn, NEW root, NEW r, CallFits(r, refs, kn, root)
  PROVE  /\ r.tries > 1 => /\ CallFits([r EXCEPT !.tries = @ - 1], refs, kn, root)
                           /\ [r EXCEPT !.tries = @ - 1] # r
         /\ CallFits(NextEntry(r), refs, kn, root)
<1>1. MaxTries \in Nat /\ r.tries \in 0 .. MaxTries
  BY ConstantFacts DEF CallFits
<1>2. r = [at |-> r.at, op |-> r.op, ref |-> r.ref, under |-> r.under, node |-> r.node,
           name |-> r.name, tries |-> r.tries, todo |-> r.todo]
  BY Zenon DEF CallFits
<1>3. ASSUME NEW q, q.at = r.at, q.op = r.op, q.ref = r.ref, q.under = r.under, q.node = r.node,
             q.name = r.name, q.tries \in 0 .. MaxTries,
             q = [at |-> q.at, op |-> q.op, ref |-> q.ref, under |-> q.under, node |-> q.node,
                  name |-> q.name, tries |-> q.tries, todo |-> q.todo]
      PROVE  CallFits(q, refs, kn, root)
  BY <1>3, Zenon DEF CallFits
<1>4. ASSUME r.tries > 1
      PROVE  /\ CallFits([r EXCEPT !.tries = @ - 1], refs, kn, root)
             /\ [r EXCEPT !.tries = @ - 1] # r
  <2> DEFINE q == [r EXCEPT !.tries = @ - 1]
  <2>1. r.tries - 1 \in 0 .. MaxTries /\ r.tries - 1 # r.tries
    BY <1>1, <1>4
  <2>2. /\ q.at = r.at /\ q.op = r.op /\ q.ref = r.ref /\ q.under = r.under /\ q.node = r.node
        /\ q.name = r.name /\ q.tries = r.tries - 1
        /\ q = [at |-> q.at, op |-> q.op, ref |-> q.ref, under |-> q.under, node |-> q.node,
                name |-> q.name, tries |-> q.tries, todo |-> q.todo]
    BY <1>2
  <2> HIDE DEF q
  <2>3. CallFits(q, refs, kn, root) /\ q # r
    BY <2>1, <2>2, <1>3
  <2> QED
    BY <2>3 DEF q
<1>5. CallFits([r EXCEPT !.todo = Tail(@), !.tries = MaxTries], refs, kn, root)
  <2> DEFINE l == Tail(r.todo)
             p == [r EXCEPT !.todo = l]
             q == [p EXCEPT !.tries = MaxTries]
  <2>1. MaxTries \in 0 .. MaxTries
    BY <1>1
  <2>2. /\ p.at = r.at /\ p.op = r.op /\ p.ref = r.ref /\ p.under = r.under /\ p.node = r.node
        /\ p.name = r.name
        /\ p = [at |-> p.at, op |-> p.op, ref |-> p.ref, under |-> p.under, node |-> p.node,
                name |-> p.name, tries |-> p.tries, todo |-> p.todo]
    <3> HIDE DEF l
    <3> QED
      BY <1>2
  <2>3. [r EXCEPT !.todo = l, !.tries = MaxTries] = q
    OBVIOUS
  <2> HIDE DEF p
  <2>4. /\ q.at = p.at /\ q.op = p.op /\ q.ref = p.ref /\ q.under = p.under /\ q.node = p.node
        /\ q.name = p.name /\ q.tries = MaxTries
        /\ q = [at |-> q.at, op |-> q.op, ref |-> q.ref, under |-> q.under, node |-> q.node,
                name |-> q.name, tries |-> q.tries, todo |-> q.todo]
    BY <2>2
  <2> HIDE DEF q
  <2>5. CallFits(q, refs, kn, root)
    BY <2>1, <2>2, <2>4, <1>3
  <2> QED
    BY <2>3, <2>5
<1>6. CallFits(NextEntry(r), refs, kn, root)
  BY <1>5, IdleFits DEF NextEntry
<1> QED
  BY <1>4, <1>6

\* What a listing shows of a folder is as the invariant has it.
LEMMA EntryIsOK ==
  ASSUME provider \in Providers, IsTree(parent), NEW n \in Nodes, parent[n] # NoNode
  PROVE  /\ FolderOK(Entry(n), n)
         /\ Entry(n).service = Id(n) \/ (n \in Mounts /\ Entry(n).service = Ns(n))
<1>1. n # Home
  BY DEF IsTree
<1>2. CASE provider = "dropbox" /\ n \in Spaces
  <2>1. Entry(n).service = Ns(n) /\ Entry(n).parent = Ns(n) /\ Entry(n).type = "folder"
    BY <1>2 DEF Entry, Folder
  <2> QED
    BY <2>1, <1>1, <1>2 DEF FolderOK, Mounts
<1>3. CASE provider = "dropbox" /\ n \notin Spaces
  <2>1. Entry(n).service = Id(n) /\ Entry(n).parent = Empty /\ Entry(n).type = "folder"
    BY <1>3 DEF Entry, Folder
  <2> QED
    BY <2>1, <1>3 DEF FolderOK
<1>4. CASE provider = "sharepoint"
  <2>1. CASE n \in Sites
    <3>1. Entry(n).service = Id(n) /\ Entry(n).type = "sharepoint_site"
      BY <1>4, <2>1 DEF Entry, Folder
    <3> QED
      BY <3>1, <1>4 DEF FolderOK
  <2>2. CASE n \notin Sites /\ n = Shared
    <3>1. Entry(n).service = Ns(n) /\ Entry(n).parent = Ns(n) /\ Entry(n).type = "sharepoint_drive"
      BY <1>4, <2>2 DEF Entry, Folder
    <3> QED
      BY <3>1, <1>4, <2>2, ProviderFacts DEF FolderOK
  <2>3. CASE n \notin Sites /\ n # Shared
    <3>1. Entry(n).service = Id(n) /\ Entry(n).parent = Ns(Shared) /\ Entry(n).type = "folder"
      BY <1>4, <2>3 DEF Entry, Folder
    <3> QED
      BY <3>1, <1>4, <2>3 DEF FolderOK
  <2> QED
    BY <2>1, <2>2, <2>3
<1>5. CASE provider \in {"box", "googledrive", "onedrive"}
  <2>1. n \notin Sites
    BY <1>5, ProviderFacts
  <2>2. Entry(n).service = Id(n)
    BY <2>1, <1>5 DEF Entry, Folder
  <2> QED
    BY <2>2, <1>5 DEF FolderOK
<1> QED
  BY <1>2, <1>3, <1>4, <1>5, ProviderFacts

\* The adapter made of a folder that was shown is as the invariant has it, and knows the
\* folder by its ServiceID.
LEMMA AdapterIsOK ==
  ASSUME provider \in Providers, IsTree(parent), NEW f, NEW n, FolderOK(f, n),
         f.type # "sharepoint_site", NEW a, a = CreateAdapter(f), a # NoAdapter
  PROVE  /\ AdapterOK(a) /\ a.service = f.service
         /\ n \in Nodes \ Sites
         /\ \/ f.service = Id(n)
            \/ f.service = Ns(n) /\ n \in Mounts
            \/ f.service = Root /\ n = Home /\ a.space = Home /\ provider # "box"
         /\ provider = "dropbox" => a.space \in {Home, n}
<1>1. n \in Nodes /\ Home \in Nodes
  BY FolderSets DEF FolderOK
<1>2. CASE provider = "dropbox"
  <2>1. a = DropboxAdapter(f) /\ n \notin Sites
    BY <1>2, ProviderFacts DEF CreateAdapter
  <2>2. CASE n = Home /\ f.type = "user_root" /\ f.service = Root /\ f.parent = Ns(Home)
    <3>1. a = Adapter(f, "user_root", Home, Empty)
      BY <2>1, <2>2 DEF DropboxAdapter
    <3>2. a.service = Root /\ a.parent = Ns(Home) /\ a.context = "user_root" /\ a.space = Home
      BY <3>1, <2>2 DEF Adapter
    <3> QED
      BY <3>2, <2>1, <2>2, <1>1, <1>2, ProviderFacts DEF AdapterOK
  <2>3. CASE /\ n \in Mounts /\ f.type \in {"shared_folder", "team_folder", "folder"}
             /\ f.service = Ns(n) /\ f.parent = Ns(n)
    <3>1. f.service[1] = "ns" /\ f.service[2] = n /\ f.parent[2] = n
      BY <2>3, RefFacts
    <3>2. \E t \in {"shared_folder", "team_folder"} : a = Adapter(f, t, n, Empty)
      BY <3>1, <2>1, <2>3 DEF DropboxAdapter
    <3>3. a.service = Ns(n) /\ a.context \in {"shared_folder", "team_folder"} /\ a.space = n
      BY <3>2, <2>3 DEF Adapter
    <3>4. n \in Spaces /\ n # Home
      BY <2>3 DEF Mounts
    <3> QED
      BY <3>3, <3>4, <2>1, <2>3, <1>1, <1>2 DEF AdapterOK
  <2>4. CASE f.type = "folder" /\ f.service = Id(n) /\ f.parent = Empty
    <3>1. a = Adapter(f, "user_root", Home, Empty)
      BY <2>1, <2>4, RefFacts DEF DropboxAdapter
    <3>2. /\ a.service = Id(n) /\ a.parent = Empty /\ a.type = "folder" /\ a.context = "user_root"
          /\ a.space = Home
      BY <3>1, <2>4 DEF Adapter
    <3>3. Id(n) \in Items
      BY <1>1 DEF Items
    <3> QED
      BY <3>2, <3>3, <2>1, <2>4, <1>1, <1>2, ProviderFacts DEF AdapterOK
  <2> QED
    BY <2>2, <2>3, <2>4, <1>2 DEF FolderOK
<1>3. CASE provider = "box"
  <2>1. f.service = Id(n) /\ Id(n) \in Items
    BY <1>1, <1>3 DEF FolderOK, Items
  <2>2. a = Adapter(f, f.type, Home, Id(n))
    BY <2>1, <1>3, RefFacts DEF CreateAdapter, BoxAdapter
  <2>3. a.service = Id(n) /\ a.folder = Id(n) /\ a.space = Home /\ a.context = f.type
    BY <2>1, <2>2 DEF Adapter
  <2> QED
    BY <2>1, <2>3, <1>1, <1>3, ProviderFacts DEF AdapterOK
<1>4. CASE provider \in {"googledrive", "onedrive"}
  <2>1. (f.service = Id(n) \/ (n = Home /\ f.service = Root)) /\ Id(n) \in Items /\ f.service # Empty
    BY <1>1, <1>4, RefFacts DEF FolderOK, Items
  <2>2. a = Adapter(f, "my_drive", Home, f.service)
    BY <2>1, <1>4 DEF CreateAdapter, DriveAdapter, OneDriveAdapter
  <2>3. a.service = f.service /\ a.folder = f.service /\ a.space = Home /\ a.context = "my_drive"
    BY <2>2 DEF Adapter
  <2> QED
    BY <2>1, <2>3, <1>1, <1>4, ProviderFacts DEF AdapterOK
<1>5. CASE provider = "sharepoint"
  <2>1. a = SharePointAdapter(f) /\ Shared \in Nodes \ Sites /\ Shared \in Spaces /\ Shared \in Mounts
    BY <1>5, ProviderFacts, FolderSets, FiveFolders DEF CreateAdapter
  <2>2. CASE n = Shared /\ f.type = "sharepoint_drive" /\ f.service = Ns(Shared) /\ f.parent = Ns(Shared)
    <3>1. a = Adapter(f, "sharepoint_drive", Shared, Root)
      BY <2>1, <2>2, RefFacts DEF SharePointAdapter
    <3>2. a.service = Ns(n) /\ a.folder = Root /\ a.space = Shared /\ a.context = "sharepoint_drive"
      BY <3>1, <2>2 DEF Adapter
    <3> QED
      BY <3>2, <2>1, <2>2, <1>5 DEF AdapterOK
  <2>3. CASE n \notin Sites /\ f.type = "folder" /\ f.service = Id(n) /\ f.parent = Ns(Shared)
    <3>1. a = Adapter(f, "sharepoint_drive", Shared, Id(n))
      BY <2>1, <2>3, RefFacts DEF SharePointAdapter
    <3>2. a.service = Id(n) /\ a.folder = Id(n) /\ a.space = Shared /\ a.context = "sharepoint_drive"
      BY <3>1, <2>3 DEF Adapter
    <3>3. Id(n) \in Items
      BY <1>1 DEF Items
    <3> QED
      BY <3>2, <3>3, <2>1, <2>3, <1>1, <1>5 DEF AdapterOK
  <2> QED
    BY <2>2, <2>3, <1>5 DEF FolderOK
<1> QED
  BY <1>2, <1>3, <1>4, <1>5, ProviderFacts

-----------------------------------------------------------------------------
(* Steps that leave the tree alone. *)

\* The tree and the names, and what was shown, are what they were.
LEMMA SameTree ==
  ASSUME FoldersInv, UNCHANGED <<provider, parent, name>>
  PROVE  provider' \in Providers /\ IsTree(parent') /\ FixedOK' /\ NamesOK'
<1>1. provider' \in Providers /\ IsTree(parent')
  BY DEF FoldersInv
<1>2. FixedOK'
  BY ProviderStays DEF FoldersInv, FixedOK
<1>3. NamesOK'
  BY DEF FoldersInv, NamesOK
<1> QED
  BY <1>1, <1>2, <1>3

LEMMA SameShown ==
  ASSUME FoldersInv, Keeps, shown' = shown
  PROVE  ShownOK'
<1>1. ASSUME NEW q \in shown'
      PROVE  FolderOK(q.folder, q.node)' /\ (q.node \in New => name'[q.node] # Blank)
  BY <1>1, KnownStays DEF FoldersInv, ShownOK, Keeps
<1> QED
  BY <1>1 DEF ShownOK

\* One call changes.
LEMMA CallChanges ==
  ASSUME FoldersInv, Keeps, NEW c \in Callers, NEW r, Set(c, r),
         CallFits(r, References', known', adapter'.service)
  PROVE  CallsOK'
<1>1. DOMAIN call = Callers /\ DOMAIN call' = Callers /\ call'[c] = r
  BY DEF Set, FoldersInv, CallsOK
<1>2. ASSUME NEW d \in Callers
      PROVE  CallFits(call'[d], References', known', adapter'.service)
  <2>1. CASE d = c
    BY <2>1, <1>1
  <2>2. CASE d # c
    <3>1. call'[d] = call[d]
      BY <2>2, <1>1 DEF Set
    <3>2. CallFits(call[d], References, known, adapter.service)
      BY DEF FoldersInv, CallsOK
    <3> QED
      BY <3>1, <3>2, KnownStays
  <2> QED
    BY <2>1, <2>2
<1> QED
  BY <1>1, <1>2 DEF CallsOK

\* All calls are what they were.
LEMMA SameCalls ==
  ASSUME FoldersInv, Keeps, call' = call
  PROVE  CallsOK'
  BY KnownStays DEF FoldersInv, CallsOK

\* A call is made for a migration, whose adapter stays what it is.
LEMMA CallerHasAdapter ==
  ASSUME FoldersInv, NEW c \in Callers, call[c].at # "idle"
  PROVE  adapter # NoAdapter /\ shown = {} /\ AdapterOK(adapter)
<1>1. call[c] # Idle
  BY DEF Idle
<1> QED
  BY <1>1 DEF FoldersInv, PhaseOK

LEMMA SamePhase ==
  ASSUME FoldersInv, Keeps, shown' = shown, adapter # NoAdapter
  PROVE  PhaseOK'
  BY KnownStays DEF FoldersInv, PhaseOK, Keeps

LEMMA BrowseKeeps ==
  ASSUME FoldersInv, NEW q \in shown, Browse(q)
  PROVE  FoldersInv'
<1>1. /\ provider \in Providers /\ IsTree(parent) /\ provider' = provider /\ parent' = parent
      /\ name' = name /\ adapter' = adapter /\ known' = known /\ call' = call
      /\ adapter = NoAdapter /\ BrowseTarget(q) # NoNode
      /\ shown' = shown \cup {Found(q, n) : n \in Children(BrowseTarget(q))}
  BY DEF FoldersInv, Browse
<1>2. Keeps
  BY <1>1 DEF Keeps
<1>3. ASSUME NEW p \in shown'
      PROVE  FolderOK(p.folder, p.node)' /\ (p.node \in New => name'[p.node] # Blank)
  <2>1. CASE p \in shown
    BY <2>1, <1>1, <1>2, KnownStays DEF FoldersInv, ShownOK
  <2>2. CASE p \notin shown
    <3>1. PICK n \in Children(BrowseTarget(q)) : p = Found(q, n)
      BY <2>2, <1>3, <1>1
    <3>2. n \in Nodes /\ parent[n] # NoNode
      BY <3>1, <1>1 DEF Children
    <3>3. p.folder = Entry(n) /\ p.node = n
      BY <3>1 DEF Found, Request
    <3>4. FolderOK(p.folder, p.node)
      BY <3>2, <3>3, <1>1, EntryIsOK
    <3>5. n \in New => name[n] # Blank
      BY <3>2 DEF FoldersInv, NamesOK
    <3> QED
      BY <3>3, <3>4, <3>5, <1>1, <1>2, KnownStays
  <2> QED
    BY <2>1, <2>2
<1>4. ShownOK'
  BY <1>3 DEF ShownOK
<1>5. PhaseOK'
  BY <1>1 DEF FoldersInv, PhaseOK
<1>6. \A e \in known' : KnownOK(e)'
  BY <1>1, <1>2, KnownStays DEF FoldersInv
<1> QED
  BY <1>1, <1>2, <1>4, <1>5, <1>6, SameTree, SameCalls DEF FoldersInv

LEMMA OpenKeeps ==
  ASSUME FoldersInv, NEW q \in shown, Open(q)
  PROVE  FoldersInv'
<1> DEFINE a == CreateAdapter(q.folder)
<1>1. /\ provider \in Providers /\ IsTree(parent) /\ provider' = provider /\ parent' = parent
      /\ name' = name /\ adapter = NoAdapter /\ adapter' = a /\ a # NoAdapter /\ call' = call
      /\ known' = {[service |-> q.folder.service, under |-> Empty, node |-> q.node]}
      /\ shown' = {} /\ q.folder.type # "sharepoint_site"
      /\ FolderOK(q.folder, q.node) /\ (q.node \in New => name[q.node] # Blank)
  BY DEF FoldersInv, Open, ShownOK
<1> HIDE DEF a
<1>2. /\ AdapterOK(a) /\ q.node \in Nodes \ Sites
      /\ \/ q.folder.service = Id(q.node)
         \/ q.folder.service = Ns(q.node) /\ q.node \in Mounts
         \/ q.folder.service = Root /\ q.node = Home /\ a.space = Home /\ provider # "box"
  BY <1>1, AdapterIsOK DEF a
<1>3. Spaces' = Spaces /\ Sites' = Sites /\ Mounts' = Mounts /\ References' = References
  BY <1>1, ProviderStays
<1>4. AdapterOK(adapter)'
  BY <1>1, <1>2, <1>3 DEF AdapterOK
<1>5. \A e \in known' : KnownOK(e)'
  <2> SUFFICES ASSUME NEW e \in known'
               PROVE  KnownOK(e)'
    OBVIOUS
  <2>1. e.service = q.folder.service /\ e.under = Empty /\ e.node = q.node
    BY <1>1
  <2>2. Empty \in References
    BY DEF References
  <2> QED
    BY <2>1, <2>2, <1>1, <1>2, <1>3 DEF KnownOK
<1>6. PhaseOK'
  BY <1>1, <1>4 DEF PhaseOK
<1>7. CallsOK'
  BY <1>1, IdleFits DEF FoldersInv, PhaseOK, CallsOK
<1>8. ShownOK'
  BY <1>1 DEF ShownOK
<1> QED
  BY <1>1, <1>5, <1>6, <1>7, <1>8, SameTree DEF FoldersInv

\* A listing of a known folder is of that folder, or refused.
LEMMA ListedIsKnown ==
  ASSUME FoldersInv, adapter # NoAdapter, NEW e \in known, ListTarget(adapter, e.service) # NoNode
  PROVE  /\ ListTarget(adapter, e.service) = e.node
         /\ e.service = Id(e.node) => InSpace(adapter.space, e.node)
<1>1. /\ provider \in Providers /\ IsTree(parent) /\ FixedOK /\ AdapterOK(adapter) /\ KnownOK(e)
      /\ parent \in Trees /\ e.node \in Nodes
  BY DEF FoldersInv, PhaseOK, IsTree, KnownOK
<1>2. CASE e.service = Id(e.node)
  BY <1>1, <1>2, ItemTargets
<1>3. CASE e.service = Ns(e.node) /\ e.node \in Mounts
  BY <1>1, <1>3, MountTargets, RefFacts
<1>4. CASE e.service = Root /\ e.node = Home /\ adapter.space = Home /\ provider # "box"
  BY <1>1, <1>4, AliasTargets, RefFacts
<1> QED
  BY <1>1, <1>2, <1>3, <1>4 DEF KnownOK

LEMMA ListChildrenKeeps ==
  ASSUME FoldersInv, adapter # NoAdapter, NEW ref \in Refs, ListChildren(ref)
  PROVE  FoldersInv'
<1>1. /\ provider \in Providers /\ IsTree(parent) /\ FixedOK /\ provider' = provider /\ parent' = parent
      /\ name' = name /\ adapter' = adapter /\ call' = call /\ shown' = shown
      /\ AdapterOK(adapter) /\ ListTarget(adapter, ref) # NoNode
      /\ known' = known \cup {Known(Entry(n).service, ref, n) : n \in Children(ListTarget(adapter, ref))}
  BY DEF FoldersInv, ListChildren, PhaseOK
<1>2. Keeps
  BY <1>1 DEF Keeps
<1>3. PICK e0 \in known : ref = e0.service
  BY DEF Refs
<1>4. KnownOK(e0)
  BY DEF FoldersInv
<1>5. ref \in References
  BY <1>3, <1>4 DEF KnownOK, References, Items
<1>6. ASSUME NEW e \in known'
      PROVE  KnownOK(e)'
  <2>1. CASE e \in known
    BY <2>1, <1>2, KnownStays DEF FoldersInv
  <2>2. CASE e \notin known
    <3>1. PICK n \in Children(ListTarget(adapter, ref)) : e = Known(Entry(n).service, ref, n)
      BY <2>2, <1>6, <1>1
    <3>2. n \in Nodes /\ parent[n] = ListTarget(adapter, ref) /\ parent[n] # NoNode
      BY <3>1, <1>1 DEF Children
    <3>3. e.service = Entry(n).service /\ e.under = ref /\ e.node = n
      BY <3>1 DEF Known
    <3>4. n \notin Sites
      <4>1. parent[n] \notin Sites
        BY <3>2, <1>3, <1>4, ListedIsKnown DEF KnownOK
      <4>2. n \in Sites => provider = "sharepoint" /\ (n = Home \/ n = Plain) /\ Home \in Sites
        BY <1>1, ProviderFacts
      <4> QED
        BY <3>2, <4>1, <4>2, <1>1 DEF FixedOK, IsTree
    <3>5. KnownOK(e)
      <4>1. n \in New => name[n] # Blank
        BY <3>2 DEF FoldersInv, NamesOK
      <4> QED
        BY <3>2, <3>3, <3>4, <4>1, <1>1, <1>5, EntryIsOK DEF KnownOK
    <3> QED
      BY <3>5, <1>2, KnownStays
  <2> QED
    BY <2>1, <2>2
<1> QED
  BY <1>1, <1>2, <1>6, SameTree, SameShown, SamePhase, SameCalls DEF FoldersInv

\* A call begins.
LEMMA CallBegins ==
  ASSUME FoldersInv, NEW c \in Callers, NEW r, Set(c, r), adapter # NoAdapter,
         UNCHANGED <<provider, parent, name, shown, adapter, known>>,
         CallFits(r, References, known, adapter.service)
  PROVE  FoldersInv'
<1>1. Keeps
  BY DEF Keeps
<1>2. CallFits(r, References', known', adapter'.service)
  BY <1>1, KnownStays
<1>3. \A e \in known' : KnownOK(e)'
  BY <1>1, KnownStays DEF FoldersInv
<1> QED
  BY <1>1, <1>2, <1>3, SameTree, SameShown, SamePhase, CallChanges DEF FoldersInv

\* The services of known folders are references.
LEMMA KnownIsReference ==
  ASSUME NEW e, KnownOK(e)
  PROVE  e.service \in References
  BY DEF KnownOK, References, Items

LEMMA CreateFolderKeeps ==
  ASSUME FoldersInv, NEW c \in Callers, NEW ref \in Refs \cup {Empty, Root}, NEW x \in Names,
         CreateFolder(c, ref, x)
  PROVE  FoldersInv'
<1> DEFINE r == Asking("create", ref, Empty, NoNode, x, << >>)
<1>1. Set(c, r) /\ adapter # NoAdapter /\ UNCHANGED <<provider, parent, name, shown, adapter, known>>
  BY DEF CreateFolder
<1>2. ref \in References
  <2>1. CASE ref \in {Empty, Root}
    BY <2>1 DEF References
  <2>2. CASE ref \in Refs
    BY <2>2, KnownIsReference DEF FoldersInv, Refs
  <2> QED
    BY <2>1, <2>2
<1>3. /\ r.at = "asking" /\ r.op = "create" /\ r.ref = ref /\ r.name = x /\ r.tries = MaxTries
      /\ r = [at |-> r.at, op |-> r.op, ref |-> r.ref, under |-> r.under, node |-> r.node,
              name |-> r.name, tries |-> r.tries, todo |-> r.todo]
  BY DEF Asking
<1> HIDE DEF r
<1>4. MaxTries \in 0 .. MaxTries
  BY ConstantFacts
<1>5. CallFits(r, References, known, adapter.service)
  BY <1>2, <1>3, <1>4 DEF CallFits
<1> QED
  BY <1>1, <1>5, CallBegins

LEMMA RenameNodeKeeps ==
  ASSUME FoldersInv, NEW c \in Callers, NEW e \in known, NEW x \in Names, RenameNode(c, e, x)
  PROVE  FoldersInv'
<1> DEFINE r == Asking("rename", e.service, e.under, e.node, x, << >>)
<1>1. /\ Set(c, r) /\ UNCHANGED <<provider, parent, name, shown, adapter, known>>
      /\ e.service # adapter.service
  BY DEF RenameNode
<1>2. adapter # NoAdapter
  BY DEF FoldersInv, PhaseOK
<1>3. /\ r.at = "asking" /\ r.op = "rename" /\ r.ref = e.service /\ r.under = e.under
      /\ r.node = e.node /\ r.name = x /\ r.tries = MaxTries
      /\ r = [at |-> r.at, op |-> r.op, ref |-> r.ref, under |-> r.under, node |-> r.node,
              name |-> r.name, tries |-> r.tries, todo |-> r.todo]
  BY DEF Asking
<1> HIDE DEF r
<1>4. MaxTries \in 0 .. MaxTries
  BY ConstantFacts
<1>5. CallFits(r, References, known, adapter.service)
  BY <1>1, <1>3, <1>4 DEF CallFits
<1> QED
  BY <1>1, <1>2, <1>5, CallBegins

LEMMA DeleteNodesKeeps ==
  ASSUME FoldersInv, NEW c \in Callers, NEW e \in known, NEW f \in known, DeleteNodes(c, <<e, f>>)
  PROVE  FoldersInv'
<1> DEFINE d == Deletable(<<e, f>>)
           r == Asking("delete", Empty, Empty, NoNode, Blank, d)
<1>1. /\ Set(c, r) /\ UNCHANGED <<provider, parent, name, shown, adapter, known>>
  BY DEF DeleteNodes
<1>2. adapter # NoAdapter
  BY DEF FoldersInv, PhaseOK
<1> HIDE DEF d
<1>3. /\ r.at = "asking" /\ r.op = "delete" /\ r.tries = MaxTries
      /\ r = [at |-> r.at, op |-> r.op, ref |-> r.ref, under |-> r.under, node |-> r.node,
              name |-> r.name, tries |-> r.tries, todo |-> r.todo]
  BY DEF Asking
<1> HIDE DEF r
<1>4. MaxTries \in 0 .. MaxTries
  BY ConstantFacts
<1>5. CallFits(r, References, known, adapter.service)
  BY <1>3, <1>4 DEF CallFits
<1> QED
  BY <1>1, <1>2, <1>5, CallBegins

LEMMA RefusedKeeps ==
  ASSUME FoldersInv, NEW c \in Callers, Refused(c)
  PROVE  FoldersInv'
<1> DEFINE r == IF call[c].todo = << >> THEN Idle ELSE NextEntry(call[c])
<1>1. Set(c, r) /\ call[c].at # "idle" /\ UNCHANGED <<provider, parent, name, shown, adapter, known>>
  BY DEF Refused
<1>2. CallFits(call[c], References, known, adapter.service)
  BY DEF FoldersInv, CallsOK
<1>3. CallFits(NextEntry(call[c]), References, known, adapter.service)
  BY <1>2, CallGoesOn
<1>4. CallFits(r, References, known, adapter.service)
  BY <1>3, IdleFits
<1> HIDE DEF r
<1> QED
  BY <1>1, <1>4, CallerHasAdapter, CallBegins

-----------------------------------------------------------------------------
(* Steps that change the tree. *)

\* A folder that is none of the fixed ones is hung into another, under a name that is
\* free there.
LEMMA FolderHung ==
  ASSUME FoldersInv, NEW n \in Nodes, n \notin Spaces, n \notin Sites,
         NEW p \in Nodes, Home \in Up(parent, p), n \notin Up(parent, p),
         provider = "sharepoint" => Shared \in Up(parent, p),
         NEW x, n \in New => x # Blank, ~Taken(p, x, n),
         provider' = provider, parent' = [parent EXCEPT ![n] = p],
         name' = [name EXCEPT ![n] = x] \/ (name' = name /\ name[n] = x)
  PROVE  IsTree(parent') /\ FixedOK' /\ NamesOK'
<1>1. provider \in Providers /\ IsTree(parent) /\ FixedOK /\ NamesOK /\ parent \in Trees
  BY DEF FoldersInv, IsTree
<1>2. /\ DOMAIN parent = Nodes /\ DOMAIN name = Nodes
      /\ parent'[n] = p /\ name'[n] = x
      /\ \A m \in Nodes \ {n} : parent'[m] = parent[m] /\ name'[m] = name[m]
  BY <1>1 DEF Trees, NamesOK
<1>3. n # Home
  BY <1>1, ProviderFacts
<1>4. /\ IsTree(parent')
      /\ \A m \in Nodes : n \notin Up(parent, m) => Up(parent', m) = Up(parent, m)
      /\ \A m \in Nodes : n \in Up(parent, m) => Up(parent, p) \subseteq Up(parent', m)
  <2>1. parent' \in Trees
    BY <1>1 DEF Trees
  <2>2. n \in Nodes \ {Home} /\ \A m \in Nodes : m # n => parent'[m] = parent[m]
    BY <1>2, <1>3
  <2>3. PICK a, b : a = parent /\ b = parent'
    OBVIOUS
  <2>4. /\ IsTree(a) /\ b \in Trees /\ b[n] = p /\ Home \in Up(a, p) /\ n \notin Up(a, p)
        /\ \A m \in Nodes : m # n => b[m] = a[m]
    BY <2>1, <2>2, <2>3, <1>1, <1>2
  <2>5. IsTree(b)
    BY <2>2, <2>4, Hanging
  <2>6. \A m \in Nodes : n \notin Up(a, m) => Up(b, m) = Up(a, m)
    BY <2>2, <2>4, Hanging
  <2>7. \A m \in Nodes : n \in Up(a, m) => Up(a, p) \subseteq Up(b, m)
    BY <2>2, <2>4, Hanging
  <2> QED
    BY <2>3, <2>5, <2>6, <2>7
<1>5. Spaces' = Spaces /\ Sites' = Sites
  BY ProviderStays
<1>6. FixedOK'
  <2>1. provider = "dropbox" => parent'[Shared] = Home /\ parent'[Nested] = Shared
    BY <1>1, <1>2, ProviderFacts, FolderSets DEF FixedOK
  <2>2. provider = "sharepoint" => parent'[Shared] = Home /\ parent'[Plain] = Home
    BY <1>1, <1>2, ProviderFacts, FolderSets DEF FixedOK
  <2>3. ASSUME provider = "sharepoint", NEW m \in Nodes \ Sites, Home \in Up(parent', m)
        PROVE  Shared \in Up(parent', m)
    BY <2>3, <1>1, <1>4 DEF FixedOK
  <2> QED
    BY <2>1, <2>2, <2>3, <1>5 DEF FixedOK
<1>7. NamesOK'
  <2>1. ASSUME NEW k \in Nodes, NEW m \in Nodes, k # m, parent'[k] = parent'[m], parent'[k] # NoNode,
               provider # "googledrive"
        PROVE  name'[k] # name'[m]
    <3>1. \A j \in Nodes : j # n /\ parent[j] = p => name[j] # x
      BY <2>1 DEF Taken, Children
    <3> QED
      BY <3>1, <2>1, <1>1, <1>2 DEF NamesOK
  <2>2. ASSUME NEW m \in New, parent'[m] # NoNode
        PROVE  name'[m] # Blank
    BY <2>2, <1>1, <1>2 DEF NamesOK, Nodes
  <2>3. DOMAIN name' = Nodes
    BY <1>2
  <2> QED
    BY <2>1, <2>2, <2>3 DEF NamesOK
<1> QED
  BY <1>4, <1>6, <1>7

\* The answer to a call's request arrives or is lost.
LEMMA CallAnswered ==
  ASSUME FoldersInv, Keeps, NEW c \in Callers, Set(c, Idle) \/ Repeat(c, call[c])
  PROVE  CallsOK'
<1>1. CASE Set(c, Idle)
  BY <1>1, IdleFits, CallChanges
<1>2. CASE Repeat(c, call[c])
  <2> DEFINE q == [call[c] EXCEPT !.tries = @ - 1]
             r == IF call[c].tries > 1 THEN q ELSE Idle
  <2>1. CallFits(call[c], References, known, adapter.service)
    BY DEF FoldersInv, CallsOK
  <2>2. call[c].tries > 1 => CallFits(q, References, known, adapter.service)
    BY <2>1, CallGoesOn
  <2>3. CallFits(Idle, References, known, adapter.service)
    BY IdleFits
  <2> HIDE DEF q
  <2>4. CallFits(r, References, known, adapter.service)
    BY <2>2, <2>3
  <2>5. Set(c, r)
    BY <1>2 DEF Repeat, q
  <2> HIDE DEF r
  <2>6. CallFits(r, References', known', adapter'.service)
    BY <2>4, KnownStays
  <2> QED
    BY <2>5, <2>6, CallChanges
<1> QED
  BY <1>1, <1>2

LEMMA CreatedKeeps ==
  ASSUME FoldersInv, NEW c \in Callers, NEW n \in New, Created(c, n)
  PROVE  FoldersInv'
<1> DEFINE r == call[c]
           p == CreateTarget(adapter, r.ref)
<1>1. /\ r.at = "asking" /\ r.op = "create" /\ p # NoNode /\ ~Taken(p, r.name, NoNode)
      /\ parent[n] = NoNode /\ name[n] = Blank
      /\ parent' = [parent EXCEPT ![n] = p] /\ name' = [name EXCEPT ![n] = r.name]
      /\ provider' = provider /\ shown' = shown /\ adapter' = adapter
      /\ known' \in {known, known \cup {Known(Id(n), r.ref, n)}}
      /\ Set(c, Idle) \/ Repeat(c, r)
  BY DEF Created
<1>2. CallFits(r, References, known, adapter.service) /\ adapter # NoAdapter /\ AdapterOK(adapter)
  BY <1>1, CallerHasAdapter DEF FoldersInv, CallsOK
<1>3. r.ref \in References /\ r.name \in Names
  BY <1>1, <1>2 DEF CallFits
<1>4. /\ provider \in Providers /\ IsTree(parent) /\ FixedOK /\ NamesOK /\ parent \in Trees
  BY DEF FoldersInv, IsTree
<1>5. p \in Nodes /\ InSpace(adapter.space, p)
  BY <1>1, <1>2, <1>3, <1>4, CreatedIsListed
<1> HIDE DEF p, r
<1>6. n \in Nodes /\ n \notin Old /\ n # Home /\ n \notin Spaces /\ n \notin Sites
  BY <1>4, ConstantFacts, ProviderFacts DEF Nodes, Old
<1>7. n \notin Up(parent, p)
  BY <1>1, <1>4, <1>5, <1>6, TopIsHome DEF InSpace
<1>8. provider = "sharepoint" => Shared \in Up(parent, p)
  BY <1>2, <1>4, <1>5, ProviderFacts DEF AdapterOK, InSpace
<1>9. ~Taken(p, r.name, n)
  BY <1>1, FolderSets DEF Taken, Children
<1>10. r.name # Blank
  BY <1>3, ConstantFacts
<1>11. IsTree(parent') /\ FixedOK' /\ NamesOK'
  BY <1>1, <1>5, <1>6, <1>7, <1>8, <1>9, <1>10, FolderHung DEF InSpace
<1>12. Keeps
  <2>1. \A m \in New : m # n => name'[m] = name[m]
    BY <1>1
  <2> QED
    BY <2>1, <1>1 DEF Keeps
<1>13. ASSUME NEW e \in known'
       PROVE  KnownOK(e)'
  <2>1. CASE e \in known
    BY <2>1, <1>12, KnownStays DEF FoldersInv
  <2>2. CASE e \notin known
    <3>1. e = Known(Id(n), r.ref, n)
      BY <2>2, <1>1, <1>13
    <3>2. e.service = Id(n) /\ e.under = r.ref /\ e.node = n
      BY <3>1 DEF Known
    <3>3. name'[n] = r.name
      BY <1>1, <1>4, <1>6 DEF NamesOK
    <3>4. Sites' = Sites /\ References' = References
      BY <1>1, ProviderStays
    <3> QED
      BY <3>2, <3>3, <3>4, <1>3, <1>6, <1>10 DEF KnownOK
  <2> QED
    BY <2>1, <2>2
<1>14. CallsOK'
  BY <1>1, <1>12, CallAnswered DEF r
<1> QED
  BY <1>1, <1>2, <1>4, <1>11, <1>12, <1>13, <1>14, SameShown, SamePhase DEF FoldersInv

\* What a call renames is the known folder it was made for, by its id.
LEMMA RenamedIsKnown ==
  ASSUME FoldersInv, NEW c \in Callers, call[c].at = "asking", call[c].op = "rename",
         NEW n, n = NodeTarget(adapter, call[c].ref), n \notin Spaces, n # NoNode
  PROVE  /\ n = call[c].node /\ n \in Nodes /\ n \notin Sites /\ InSpace(adapter.space, n)
         /\ call[c].name # Blank /\ call[c].under \in References
         /\ \E e \in known : /\ e.service # adapter.service
                             /\ e.service = Id(n) /\ e.under = call[c].under /\ e.node = n
<1> DEFINE r == call[c]
<1>1. /\ provider \in Providers /\ IsTree(parent) /\ FixedOK /\ parent \in Trees
      /\ CallFits(r, References, known, adapter.service) /\ AdapterOK(adapter) /\ adapter # NoAdapter
  BY CallerHasAdapter DEF FoldersInv, IsTree, CallsOK
<1>2. PICK e \in known : /\ e.service # adapter.service
                         /\ r.ref = e.service /\ r.under = e.under /\ r.node = e.node
  BY <1>1 DEF CallFits
<1>3. r.name # Blank
  BY <1>1, ConstantFacts DEF CallFits
<1>4. KnownOK(e)
  BY DEF FoldersInv
<1>5. CASE e.service = Id(e.node)
  <2>1. e.node \in Nodes /\ e.node \notin Sites /\ e.under \in References
    BY <1>4 DEF KnownOK
  <2>2. n = e.node /\ InSpace(adapter.space, e.node)
    BY <2>1, <1>1, <1>2, <1>5, ItemTargets
  <2> QED
    BY <2>1, <2>2, <1>2, <1>3, <1>5
<1>6. CASE e.service = Ns(e.node) /\ e.node \in Mounts
  BY <1>6, <1>1, <1>2, MountTargets
<1>7. CASE e.service = Root
  <2>1. n \in {NoNode, adapter.space}
    BY <1>7, <1>1, <1>2, AliasTargets
  <2> QED
    BY <2>1, <1>1 DEF AdapterOK
<1> QED
  BY <1>4, <1>5, <1>6, <1>7 DEF KnownOK

LEMMA RenamedKeeps ==
  ASSUME FoldersInv, NEW c \in Callers, Renamed(c)
  PROVE  FoldersInv'
<1> DEFINE r == call[c]
           n == NodeTarget(adapter, r.ref)
           p == IF provider = "dropbox" THEN DropboxCreate(adapter, r.under) ELSE parent[n]
<1>1. /\ r.at = "asking" /\ r.op = "rename" /\ n \notin Spaces /\ n # NoNode
      /\ p # NoNode /\ n \notin Path(p) /\ ~Taken(p, r.name, n)
      /\ parent' = [parent EXCEPT ![n] = p] /\ name' = [name EXCEPT ![n] = r.name]
      /\ provider' = provider /\ shown' = shown /\ adapter' = adapter /\ known' = known
      /\ Set(c, Idle) \/ Repeat(c, r)
  BY Zenon DEF Renamed
<1> HIDE DEF n
<1>2. n \in Nodes /\ n \notin Sites /\ InSpace(adapter.space, n) /\ r.name # Blank /\ r.under \in References
  BY <1>1, RenamedIsKnown DEF n
<1>3. adapter # NoAdapter /\ AdapterOK(adapter)
  BY <1>1, CallerHasAdapter
<1>4. /\ provider \in Providers /\ IsTree(parent) /\ FixedOK /\ NamesOK /\ parent \in Trees
  BY DEF FoldersInv, IsTree
<1>5. p \in Nodes /\ Home \in Up(parent, p) /\ (provider = "sharepoint" => Shared \in Up(parent, p))
  <2>1. CASE provider = "dropbox"
    <3>1. p = CreateTarget(adapter, r.under)
      BY <2>1, <1>3 DEF CreateTarget
    <3>2. p \in Nodes /\ InSpace(adapter.space, p)
      BY <3>1, <1>1, <1>2, <1>3, <1>4, CreatedIsListed
    <3> QED
      BY <3>2, <2>1 DEF InSpace
  <2>2. CASE provider # "dropbox"
    <3>1. p = parent[n] /\ p # NoNode
      BY <2>2, <1>1
    <3>2. p \in Nodes /\ Up(parent, n) = {n} \cup Up(parent, p)
      BY <3>1, <1>2, <1>4, UpUnfolds
    <3>3. Home \in Up(parent, n) /\ n # Home
      BY <3>1, <1>2, <1>4 DEF InSpace, IsTree
    <3>4. provider = "sharepoint" => Shared \in Up(parent, n) /\ n # Shared
      BY <3>3, <1>1, <1>2, <1>4, ProviderFacts DEF FixedOK
    <3> QED
      BY <3>2, <3>3, <3>4
  <2> QED
    BY <2>1, <2>2
<1> HIDE DEF p, r
<1>6. n \notin Up(parent, p)
  BY <1>1, <1>4, <1>5, PathIsUp
<1>7. IsTree(parent') /\ FixedOK' /\ NamesOK'
  BY <1>1, <1>2, <1>5, <1>6, FolderHung
<1>8. Keeps
  <2>1. \A m \in New : name'[m] = name[m] \/ name'[m] = r.name
    BY <1>1, <1>4 DEF NamesOK, Nodes
  <2> QED
    BY <2>1, <1>1, <1>2 DEF Keeps
<1>9. CallsOK'
  BY <1>1, <1>8, CallAnswered DEF r
<1>10. \A e \in known' : KnownOK(e)'
  BY <1>1, <1>8, KnownStays DEF FoldersInv
<1> QED
  BY <1>1, <1>3, <1>4, <1>7, <1>8, <1>9, <1>10, SameShown, SamePhase DEF FoldersInv

\* The folders below one are those whose ways up lead over it.
LEMMA BelowIsUp ==
  ASSUME parent \in Trees, NEW n
  PROVE  Below(n) = {m \in Nodes : Home \in Up(parent, m) /\ n \in Up(parent, m)}
  BY PathIsUp DEF Below

LEMMA DeletedKeeps ==
  ASSUME FoldersInv, NEW c \in Callers, Deleted(c)
  PROVE  FoldersInv'
<1> DEFINE r == call[c]
           n == NodeTarget(adapter, Head(r.todo).service)
<1>1. /\ r.at = "asking" /\ n \notin Spaces
      /\ parent' = [m \in Nodes |-> IF m \in Below(n) THEN NoNode ELSE parent[m]]
      /\ provider' = provider /\ name' = name /\ shown' = shown /\ adapter' = adapter /\ known' = known
      /\ Set(c, NextEntry(r)) \/ Repeat(c, r)
  BY DEF Deleted
<1> HIDE DEF n
<1>2. adapter # NoAdapter /\ AdapterOK(adapter)
  BY <1>1, CallerHasAdapter
<1>3. /\ provider \in Providers /\ IsTree(parent) /\ FixedOK /\ NamesOK /\ parent \in Trees
  BY DEF FoldersInv, IsTree
<1>4. \A m \in Nodes : parent'[m] = IF Home \in Up(parent, m) /\ n \in Up(parent, m) THEN NoNode ELSE parent[m]
  BY <1>1, <1>3, BelowIsUp
<1>5. parent' = [m \in Nodes |-> IF Home \in Up(parent, m) /\ n \in Up(parent, m) THEN NoNode ELSE parent[m]]
  BY <1>1, <1>3, BelowIsUp
<1>6. /\ IsTree(parent')
      /\ \A m \in Nodes : n \notin Up(parent, m) => Up(parent', m) = Up(parent, m)
      /\ \A m \in Nodes : Home \in Up(parent', m) => m = Home \/ n \notin Up(parent, m)
  BY <1>3, <1>5, Cutting
<1>7. Keeps
  BY <1>1 DEF Keeps
<1>8. FixedOK'
  <2>1. CASE provider = "dropbox"
    <3>1. Home \in Nodes /\ Shared \in Nodes /\ Nested \in Nodes /\ Home \in Spaces /\ Shared \in Spaces /\ Nested \in Spaces
      BY <2>1, <1>3, ProviderFacts, FolderSets
    <3>2. /\ parent[Home] = NoNode /\ parent[Shared] = Home /\ parent[Nested] = Shared
          /\ Home # NoNode /\ Shared # NoNode
      BY <2>1, <1>3, <3>1, FolderSets DEF FixedOK, IsTree
    <3>3. Up(parent, Home) = {Home} /\ Up(parent, Shared) = {Shared, Home} /\ Up(parent, Nested) = {Nested, Shared, Home}
      BY <3>1, <3>2, <1>3, UpUnfolds
    <3>4. n \notin Up(parent, Shared) /\ n \notin Up(parent, Nested)
      BY <3>1, <3>3, <1>1
    <3> QED
      BY <3>1, <3>2, <3>4, <2>1, <1>1, <1>4 DEF FixedOK
  <2>2. CASE provider = "sharepoint"
    <3>1. /\ Home \in Nodes /\ Shared \in Nodes /\ Plain \in Nodes /\ Home # NoNode
          /\ Spaces = {Shared} /\ Sites = {Home, Plain} /\ adapter.space = Shared
          /\ Sites' = Sites /\ Shared # Home /\ Shared # Plain
      BY <2>2, <1>1, <1>2, <1>3, ProviderFacts, ProviderStays, FolderSets, FiveFolders DEF AdapterOK
    <3>2. parent[Home] = NoNode /\ parent[Shared] = Home /\ parent[Plain] = Home
      BY <2>2, <1>3 DEF FixedOK, IsTree
    <3>3. Up(parent, Home) = {Home} /\ Up(parent, Shared) = {Shared, Home} /\ Up(parent, Plain) = {Plain, Home}
      BY <3>1, <3>2, <1>3, UpUnfolds
    <3>4. n \in Nodes => Shared \in Up(parent, n)
      <4> DEFINE s == Head(r.todo).service
      <4>1. n \in {NoNode, Shared, Item(Shared, s)}
        BY <3>1, <2>2, <1>2 DEF n, NodeTarget, ItemPath
      <4>2. Item(Shared, s) \in Nodes => Shared \in Path(Item(Shared, s))
        BY FolderSets DEF Item
      <4> QED
        BY <4>1, <4>2, <3>1, <1>1, <1>3, PathIsUp, FolderSets
    <3>5. n \notin Up(parent, Shared) /\ n \notin Up(parent, Plain)
      BY <3>1, <3>3, <3>4, <1>1
    <3>6. parent'[Shared] = Home /\ parent'[Plain] = Home
      BY <3>1, <3>2, <3>5, <1>4
    <3>7. ASSUME NEW m \in Nodes \ Sites, Home \in Up(parent', m)
          PROVE  Shared \in Up(parent', m)
      <4>1. n \notin Up(parent, m) /\ Up(parent', m) = Up(parent, m)
        BY <3>1, <3>7, <1>6
      <4> QED
        BY <4>1, <3>7, <2>2, <1>3 DEF FixedOK
    <3> QED
      BY <3>1, <3>6, <3>7, <2>2, <1>1 DEF FixedOK
  <2>3. CASE provider \notin {"dropbox", "sharepoint"}
    BY <2>3, <1>1 DEF FixedOK
  <2> QED
    BY <2>1, <2>2, <2>3
<1>9. NamesOK'
  <2>1. \A m \in Nodes : parent'[m] # NoNode => parent'[m] = parent[m]
    BY <1>4
  <2>2. New \subseteq Nodes
    BY DEF Nodes
  <2> QED
    BY <2>1, <2>2, <1>1, <1>3 DEF NamesOK
<1>10. CallsOK'
  <2>1. CASE Repeat(c, r)
    BY <2>1, <1>7, CallAnswered
  <2>2. CASE Set(c, NextEntry(r))
    <3>1. CallFits(r, References, known, adapter.service)
      BY DEF FoldersInv, CallsOK
    <3>2. CallFits(NextEntry(r), References, known, adapter.service)
      BY <3>1, CallGoesOn
    <3> HIDE DEF r
    <3>3. CallFits(NextEntry(r), References', known', adapter'.service)
      BY <3>2, <1>7, KnownStays
    <3> QED
      BY <3>3, <2>2, <1>7, CallChanges
  <2> QED
    BY <2>1, <2>2, <1>1
<1>11. \A e \in known' : KnownOK(e)'
  BY <1>1, <1>7, KnownStays DEF FoldersInv
<1> QED
  BY <1>1, <1>2, <1>3, <1>6, <1>7, <1>8, <1>9, <1>10, <1>11, SameShown, SamePhase DEF FoldersInv

LEMMA MoveKeeps ==
  ASSUME FoldersInv, NEW n \in Nodes, NEW p \in Nodes, Move(n, p)
  PROVE  FoldersInv'
<1>1. /\ Exists(n) /\ n \notin Spaces /\ n \notin Sites /\ Exists(p) /\ p \notin Sites /\ n \notin Path(p)
      /\ ~Taken(p, name[n], n) /\ parent' = [parent EXCEPT ![n] = p]
      /\ provider' = provider /\ name' = name /\ shown' = shown /\ adapter' = adapter
      /\ known' = known /\ call' = call
  BY DEF Move
<1>2. /\ provider \in Providers /\ IsTree(parent) /\ FixedOK /\ NamesOK /\ parent \in Trees
  BY DEF FoldersInv, IsTree
<1>3. Home \in Up(parent, n) /\ Home \in Up(parent, p) /\ n \notin Up(parent, p)
  BY <1>1, <1>2, PathIsUp
<1>4. provider = "sharepoint" => Shared \in Up(parent, p)
  BY <1>1, <1>2, <1>3 DEF FixedOK
<1>5. n # Home /\ parent[n] # NoNode
  BY <1>1, <1>2, <1>3, ProviderFacts, TopIsHome, UpIsLeast
<1>6. n \in New => name[n] # Blank
  BY <1>2, <1>5 DEF NamesOK
<1>7. IsTree(parent') /\ FixedOK' /\ NamesOK'
  BY <1>1, <1>3, <1>4, <1>6, FolderHung
<1>8. Keeps
  BY <1>1 DEF Keeps
<1>9. PhaseOK'
  <2>1. CASE adapter = NoAdapter
    BY <2>1, <1>1 DEF FoldersInv, PhaseOK
  <2>2. CASE adapter # NoAdapter
    BY <2>2, <1>1, <1>8, SamePhase
  <2> QED
    BY <2>1, <2>2
<1>10. \A e \in known' : KnownOK(e)'
  BY <1>1, <1>8, KnownStays DEF FoldersInv
<1> QED
  BY <1>1, <1>2, <1>7, <1>8, <1>9, <1>10, SameShown, SameCalls DEF FoldersInv

-----------------------------------------------------------------------------
(* The invariant holds. *)

\* The tree as it is at first: Home holds Plain and Shared, Shared holds Inner and Nested.
LEMMA FirstTree ==
  ASSUME Init
  PROVE  IsTree(parent) /\ FixedOK /\ NamesOK
<1>1. /\ Home # Plain /\ Home # Shared /\ Home # Inner /\ Home # Nested /\ Plain # Shared
      /\ Plain # Inner /\ Plain # Nested /\ Shared # Inner /\ Shared # Nested /\ Inner # Nested
  BY FiveFolders
<1>2. /\ Home \in Nodes /\ Plain \in Nodes /\ Shared \in Nodes /\ Inner \in Nodes /\ Nested \in Nodes
      /\ Home # NoNode /\ Shared # NoNode /\ NoNode \notin Nodes
  BY FolderSets
<1>3. /\ parent = [n \in Nodes |-> CASE n \in {Plain, Shared} -> Home
                                      [] n \in {Inner, Nested} -> Shared
                                      [] OTHER -> NoNode]
      /\ name = [n \in Nodes |-> IF n \in Old THEN FirstNames[n] ELSE Blank]
  BY DEF Init
<1>4. /\ parent[Plain] = Home /\ parent[Shared] = Home /\ parent[Inner] = Shared /\ parent[Nested] = Shared
      /\ \A n \in Nodes \ {Plain, Shared, Inner, Nested} : parent[n] = NoNode
  BY <1>1, <1>2, <1>3
<1>5. parent[Home] = NoNode
  BY <1>1, <1>2, <1>4
<1>6. parent \in Trees
  BY <1>2, <1>3 DEF Trees
<1>7. /\ Up(parent, Home) = {Home} /\ Up(parent, Plain) = {Plain, Home} /\ Up(parent, Shared) = {Shared, Home}
      /\ Up(parent, Inner) = {Inner, Shared, Home} /\ Up(parent, Nested) = {Nested, Shared, Home}
  BY <1>2, <1>4, <1>5, <1>6, UpUnfolds
<1>8. \A n \in Nodes : n \notin {Home, Plain, Shared, Inner, Nested} => Up(parent, n) = {n}
  BY <1>4, <1>6, UpUnfolds
<1>9. IsTree(parent)
  BY <1>4, <1>5, <1>6, <1>7 DEF IsTree
<1>10. FixedOK
  <2>1. \A n \in Nodes : n \notin {Home, Plain} /\ Home \in Up(parent, n) => Shared \in Up(parent, n)
    BY <1>7, <1>8
  <2>2. provider = "sharepoint" => Sites = {Home, Plain}
    BY DEF Sites
  <2> QED
    BY <2>1, <2>2, <1>4 DEF FixedOK
<1>11. NamesOK
  <2>1. \A n \in Old : name[n] = FirstNames[n]
    BY <1>3 DEF Nodes
  <2>2. /\ Plain \in Old /\ Shared \in Old /\ Inner \in Old /\ Nested \in Old /\ Old \cap New = {}
        /\ FirstNames[Plain] # FirstNames[Shared] /\ FirstNames[Inner] # FirstNames[Nested]
    BY ConstantFacts DEF Old
  <2>3. /\ name[Plain] # name[Shared] /\ name[Inner] # name[Nested]
    BY <2>1, <2>2
  <2>4. ASSUME NEW n \in Nodes, NEW m \in Nodes, n # m, parent[n] = parent[m], parent[n] # NoNode
        PROVE  name[n] # name[m]
    BY <2>3, <2>4, <1>1, <1>4
  <2>5. \A n \in New : parent[n] = NoNode
    BY <2>2, <1>4 DEF Nodes
  <2>6. DOMAIN name = Nodes
    BY <1>3
  <2> QED
    BY <2>4, <2>5, <2>6 DEF NamesOK
<1> QED
  BY <1>9, <1>10, <1>11

LEMMA InitHolds ==
  ASSUME Init
  PROVE  FoldersInv
<1>1. /\ provider \in Providers /\ adapter = NoAdapter /\ known = {} /\ shown = ListRoots
      /\ call = [c \in Callers |-> Idle]
  BY DEF Init
<1>2. /\ provider \in {"dropbox", "box", "googledrive", "onedrive", "sharepoint"}
      /\ Home \in Nodes /\ Sites \subseteq Nodes
      /\ provider = "dropbox" => Shared \in Mounts /\ Nested \in Mounts
      /\ provider = "sharepoint" => Sites = {Home, Plain}
  BY <1>1, ProviderFacts, FolderSets
<1>3. /\ Home \notin New /\ Plain \notin New /\ Shared \notin New /\ Nested \notin New
      /\ Shared \in Nodes /\ Nested \in Nodes
  BY ConstantFacts, FolderSets DEF Old
<1>4. ASSUME NEW q \in shown
      PROVE  FolderOK(q.folder, q.node) /\ q.node \notin New
  <2>1. CASE provider = "dropbox"
    <3>1. CASE q = RootRequest(Root, "user_root", Ns(Home), Home)
      <4>1. q.node = Home /\ q.folder = BrowseFolder(Root, "user_root", Ns(Home))
        BY <3>1 DEF RootRequest, Request
      <4>2. Ns(Home) # Empty
        BY RefFacts
      <4>3. BrowseFolder(Root, "user_root", Ns(Home)) = Folder(Root, Ns(Home), "user_root")
        BY <4>2 DEF BrowseFolder, Blank
      <4> QED
        BY <4>1, <4>3, <2>1, <1>2, <1>3 DEF FolderOK, Folder
    <3>2. CASE \E n \in {Shared, Nested}, t \in SharedRoots : q = RootRequest(Ns(n), t, Ns(n), n)
      <4>1. PICK n \in {Shared, Nested}, t \in SharedRoots : q = RootRequest(Ns(n), t, Ns(n), n)
        BY <3>2
      <4>2. q.node = n /\ q.folder = BrowseFolder(Ns(n), t, Ns(n))
        BY <4>1 DEF RootRequest, Request
      <4>3. Ns(n) # Empty /\ t \in {"shared_folder", "team_folder"}
        BY RefFacts, ConstantFacts
      <4>4. BrowseFolder(Ns(n), t, Ns(n)) = Folder(Ns(n), Ns(n), t)
        BY <4>3 DEF BrowseFolder, Blank
      <4> QED
        BY <4>2, <4>3, <4>4, <2>1, <1>2, <1>3 DEF FolderOK, Folder
    <3> QED
      BY <3>1, <3>2, <2>1, <1>1 DEF ListRoots
  <2>2. CASE provider = "box"
    <3>1. q = RootRequest(Id(Home), "my_drive", Empty, Home)
      BY <2>2, <1>1 DEF ListRoots
    <3>2. q.node = Home /\ q.folder = BrowseFolder(Id(Home), "my_drive", Empty)
      BY <3>1 DEF RootRequest, Request
    <3>3. q.folder = Folder(Id(Home), Empty, "my_drive")
      BY <3>2, RefFacts DEF BrowseFolder, Blank
    <3> QED
      BY <3>2, <3>3, <2>2, <1>2, <1>3 DEF FolderOK, Folder
  <2>3. CASE provider \in {"googledrive", "onedrive"}
    <3>1. \E d : q = RootRequest(Root, "my_drive", d, Home)
      BY <2>3, <1>1 DEF ListRoots
    <3>2. PICK d : q.node = Home /\ q.folder = BrowseFolder(Root, "my_drive", d)
      BY <3>1 DEF RootRequest, Request
    <3>3. q.folder = Folder(Root, Empty, "my_drive")
      BY <3>2, RefFacts DEF BrowseFolder, Blank
    <3> QED
      BY <3>2, <3>3, <2>3, <1>2, <1>3 DEF FolderOK, Folder
  <2>4. CASE provider = "sharepoint"
    <3>1. PICK n \in Sites : q = RootRequest(Id(n), "sharepoint_site", Empty, n)
      BY <2>4, <1>1 DEF ListRoots
    <3>2. q.node = n /\ q.folder = BrowseFolder(Id(n), "sharepoint_site", Empty)
      BY <3>1 DEF RootRequest, Request
    <3>3. q.folder = Folder(Id(n), Empty, "sharepoint_site")
      BY <3>2 DEF BrowseFolder, Blank
    <3> QED
      BY <3>2, <3>3, <2>4, <1>2, <1>3 DEF FolderOK, Folder
  <2> QED
    BY <2>1, <2>2, <2>3, <2>4, <1>2
<1>5. ShownOK
  BY <1>4 DEF ShownOK
<1>6. PhaseOK
  BY <1>1 DEF PhaseOK
<1>7. CallsOK
  BY <1>1, IdleFits DEF CallsOK
<1> QED
  BY <1>1, <1>5, <1>6, <1>7, FirstTree DEF FoldersInv

LEMMA NextKeeps ==
  ASSUME FoldersInv, [Next]_vars
  PROVE  FoldersInv'
<1>1. CASE \E q \in shown : Browse(q) \/ Open(q)
  BY <1>1, BrowseKeeps, OpenKeeps
<1>2. CASE adapter # NoAdapter /\ \E ref \in Refs : ListChildren(ref)
  BY <1>2, ListChildrenKeeps
<1>3. ASSUME NEW c \in Callers, \E ref \in Refs \cup {Empty, Root}, x \in Names : CreateFolder(c, ref, x)
      PROVE  FoldersInv'
  BY <1>3, CreateFolderKeeps
<1>4. ASSUME NEW c \in Callers, \E e \in known, x \in Names : RenameNode(c, e, x)
      PROVE  FoldersInv'
  BY <1>4, RenameNodeKeeps
<1>5. ASSUME NEW c \in Callers, \E e, f \in known : DeleteNodes(c, <<e, f>>)
      PROVE  FoldersInv'
  BY <1>5, DeleteNodesKeeps
<1>6. ASSUME NEW c \in Callers, \E n \in New : Created(c, n)
      PROVE  FoldersInv'
  BY <1>6, CreatedKeeps
<1>7. ASSUME NEW c \in Callers, Renamed(c) \/ Deleted(c) \/ Refused(c)
      PROVE  FoldersInv'
  BY <1>7, RenamedKeeps, DeletedKeeps, RefusedKeeps
<1>8. CASE \E n, p \in Nodes : Move(n, p)
  BY <1>8, MoveKeeps
<1>9. CASE UNCHANGED vars
  <2>1. /\ UNCHANGED <<provider, parent, name>> /\ shown' = shown /\ adapter' = adapter
        /\ known' = known /\ call' = call
    BY <1>9 DEF vars
  <2>2. Keeps
    BY <2>1 DEF Keeps
  <2>3. \A e \in known' : KnownOK(e)'
    BY <2>1, <2>2, KnownStays DEF FoldersInv
  <2>4. PhaseOK'
    <3>1. CASE adapter = NoAdapter
      BY <3>1, <2>1 DEF FoldersInv, PhaseOK
    <3>2. CASE adapter # NoAdapter
      BY <3>2, <2>1, <2>2, SamePhase
    <3> QED
      BY <3>1, <3>2
  <2> QED
    BY <2>1, <2>2, <2>3, <2>4, SameTree, SameShown, SameCalls DEF FoldersInv
<1> QED
  BY <1>1, <1>2, <1>3, <1>4, <1>5, <1>6, <1>7, <1>8, <1>9 DEF Next

\* The invariant holds for every provider and every choice of the constants that
\* FoldersAssumption allows, whoever else moves folders in the account.
THEOREM FoldersInvariant == Spec => []FoldersInv
<1>1. Init => FoldersInv
  BY InitHolds
<1>2. FoldersInv /\ [Next]_vars => FoldersInv'
  BY NextKeeps
<1> QED
  BY <1>1, <1>2, PTL DEF Spec

\* Every variable keeps its type, and the tree stays one: what was deleted has nothing
\* below it, and siblings differ in name, although several callers and other users
\* create, rename, move and delete in it.
THEOREM TypeCorrect == Spec => []TypeOK
<1>1. FoldersInv => TypeOK
  <2> SUFFICES ASSUME FoldersInv
               PROVE  TypeOK
    OBVIOUS
  <2>1. \A n \in Nodes \ {Home} : parent[n] # NoNode => Exists(n)
    BY PathIsUp DEF FoldersInv, IsTree
  <2>2. \A e \in known : e.node \in Nodes
    BY DEF FoldersInv, KnownOK
  <2>3. \A c \in Callers : call[c].at \in {"idle", "asking"} /\ call[c].tries \in 0 .. MaxTries
    BY DEF FoldersInv, CallsOK, CallFits
  <2> QED
    BY <2>1, <2>2, <2>3 DEF TypeOK, FoldersInv, NamesOK
<1> QED
  BY <1>1, FoldersInvariant, PTL

-----------------------------------------------------------------------------
(* Folders are made where they are listed. *)

\* A folder that is not made yet is on no way up to Home.
LEMMA UnmadeStays ==
  ASSUME FoldersInv, NEW n \in New, parent[n] = NoNode, NEW m \in Nodes
  PROVE  n \in Up(parent, m) => Home \notin Up(parent, m)
<1>1. IsTree(parent) /\ n \in Nodes /\ n # Home
  BY ConstantFacts DEF FoldersInv, Nodes, Old
<1> QED
  BY <1>1, TopIsHome

\* What a step of CloudFolders that makes a folder is.
MadeWhereListed ==
  \A n \in New : parent[n] = NoNode /\ parent'[n] # NoNode =>
    \E c \in Callers : /\ call[c].op = "create" /\ call'[c] # call[c]
                       /\ parent'[n] = ListTarget(adapter, call[c].ref)

LEMMA CreatedIsMade ==
  ASSUME FoldersInv, NEW c \in Callers, NEW n \in New, Created(c, n)
  PROVE  MadeWhereListed
<1> DEFINE r == call[c]
           p == CreateTarget(adapter, r.ref)
<1>1. /\ r.at = "asking" /\ r.op = "create" /\ p # NoNode
      /\ parent' = [parent EXCEPT ![n] = p]
      /\ Set(c, Idle) \/ Repeat(c, r)
  BY DEF Created
<1>2. /\ provider \in Providers /\ IsTree(parent) /\ FixedOK /\ DOMAIN parent = Nodes
      /\ CallFits(r, References, known, adapter.service) /\ AdapterOK(adapter) /\ DOMAIN call = Callers
  BY <1>1, CallerHasAdapter DEF FoldersInv, CallsOK, IsTree, Trees
<1>3. p = ListTarget(adapter, r.ref)
  BY <1>1, <1>2, CreatedIsListed DEF CallFits
<1>4. call'[c] # r
  <2> DEFINE q == [r EXCEPT !.tries = @ - 1]
  <2>1. r.tries > 1 => q # r
    BY <1>2, CallGoesOn
  <2>2. Idle # r
    BY <1>1 DEF Idle
  <2>3. call'[c] = Idle \/ (r.tries > 1 /\ call'[c] = q)
    BY <1>1, <1>2 DEF Set, Repeat
  <2> QED
    BY <2>1, <2>2, <2>3
<1>5. \A m \in New : parent[m] = NoNode /\ parent'[m] # NoNode => m = n /\ parent'[m] = p
  BY <1>1, <1>2 DEF Nodes
<1> QED
  BY <1>1, <1>3, <1>4, <1>5 DEF MadeWhereListed

\* A folder is made only in answer to a create, and in the folder that a listing by the
\* same reference shows, for every provider, adapter and reference.
THEOREM MadeWhereListedAlways == Spec => CreatedWhereListed
<1>1. ASSUME FoldersInv, [Next]_vars
      PROVE  [MadeWhereListed]_vars
  <2>1. CASE parent' = parent
    BY <2>1 DEF MadeWhereListed
  <2>2. CASE \E c \in Callers, n \in New : Created(c, n)
    BY <2>2, <1>1, CreatedIsMade
  <2>3. ASSUME NEW c \in Callers, Renamed(c)
        PROVE  MadeWhereListed
    <3> DEFINE n == NodeTarget(adapter, call[c].ref)
               p == IF provider = "dropbox" THEN DropboxCreate(adapter, call[c].under) ELSE parent[n]
    <3>1. /\ call[c].at = "asking" /\ call[c].op = "rename" /\ n \notin Spaces /\ n # NoNode
          /\ parent' = [parent EXCEPT ![n] = p]
      BY <2>3, Zenon DEF Renamed
    <3> HIDE DEF n, p
    <3>2. n \in Nodes /\ InSpace(adapter.space, n)
      BY <1>1, <2>3, <3>1, RenamedIsKnown DEF n
    <3>3. n \in New => parent[n] # NoNode
      BY <1>1, <3>2, UnmadeStays, UpIsLeast DEF InSpace, FoldersInv, IsTree
    <3>4. \A m \in New : m # n => parent'[m] = parent[m]
      BY <1>1, <3>1 DEF FoldersInv, IsTree, Trees, Nodes
    <3> QED
      BY <3>3, <3>4 DEF MadeWhereListed
  <2>4. ASSUME NEW c \in Callers, Deleted(c)
        PROVE  MadeWhereListed
    <3>1. PICK S : parent' = [m \in Nodes |-> IF m \in S THEN NoNode ELSE parent[m]]
      BY <2>4 DEF Deleted
    <3> QED
      BY <3>1 DEF MadeWhereListed, Nodes
  <2>5. ASSUME NEW n \in Nodes, NEW p \in Nodes, Move(n, p)
        PROVE  MadeWhereListed
    <3>1. Exists(n) /\ parent' = [parent EXCEPT ![n] = p]
      BY <2>5 DEF Move
    <3>2. n \in New => parent[n] # NoNode
      BY <1>1, <3>1, PathIsUp, UnmadeStays, UpIsLeast DEF FoldersInv, IsTree
    <3>3. \A m \in New : m # n => parent'[m] = parent[m]
      BY <1>1, <3>1 DEF FoldersInv, IsTree, Trees, Nodes
    <3> QED
      BY <3>2, <3>3 DEF MadeWhereListed
  <2>6. \/ parent' = parent
        \/ \E c \in Callers, n \in New : Created(c, n)
        \/ \E c \in Callers : Renamed(c) \/ Deleted(c)
        \/ \E n, p \in Nodes : Move(n, p)
    BY <1>1 DEF Next, vars, Browse, Open, ListChildren, CreateFolder, RenameNode, DeleteNodes, Refused
  <2> QED
    BY <2>1, <2>2, <2>3, <2>4, <2>5, <2>6
<1>2. FoldersInv /\ [Next]_vars => [MadeWhereListed]_vars
  BY <1>1
<1> QED
  BY <1>2, FoldersInvariant, PTL DEF Spec, CreatedWhereListed, MadeWhereListed

-----------------------------------------------------------------------------
(* What a migration was given addresses the same folders later. *)

\* The folder a reference is meant for where something is put under it in Dropbox.
Meant(a, ref) ==
  IF ref \in {Empty, Root, Ns(a.space)} THEN a.space ELSE IF ref[1] = "id" THEN ref[2] ELSE NoNode

\* A known folder is in the adapter's namespace, and where a rename would put it: where
\* it was found.
FolderPlaced(e) ==
  Exists(e.node) =>
    /\ adapter.space \in Up(parent, e.node)
    /\ e.service # adapter.service => Meant(adapter, e.under) \in {NoNode, parent[e.node]}

AddressInv == provider = "dropbox" => \A e \in known : FolderPlaced(e)

\* What is made under a reference in Dropbox is put where the reference is meant for.
LEMMA CreateIsMeant ==
  ASSUME provider = "dropbox", parent \in Trees, NEW a, AdapterOK(a), NEW ref \in References,
         DropboxCreate(a, ref) # NoNode
  PROVE  DropboxCreate(a, ref) = Meant(a, ref)
<1>1. /\ a.service = Root \/ a.service = Ns(a.space)
         \/ a.type \notin {"user_root", "shared_folder", "team_folder"}
  BY DEF AdapterOK
<1>2. CASE ref \in {Empty, Root, Ns(a.space)}
  BY <1>2 DEF DropboxCreate, Meant
<1>3. CASE ref \notin {Empty, Root, Ns(a.space)}
  <2>1. DropboxCreate(a, ref) = Item(a.space, ref)
    BY <1>1, <1>3 DEF DropboxCreate
  <2>2. Item(a.space, ref) # NoNode => ref[1] = "id" /\ Item(a.space, ref) = ref[2]
    BY DEF Item
  <2> QED
    BY <2>1, <2>2, <1>3 DEF Meant
<1> QED
  BY <1>2, <1>3

\* Outside Dropbox there is one space, and all that a migration can know is in it.
LEMMA OneSpace ==
  ASSUME provider \in Providers, provider # "dropbox", IsTree(parent), FixedOK, AdapterOK(adapter),
         NEW e, KnownOK(e), Exists(e.node)
  PROVE  adapter.space \in Up(parent, e.node)
<1>1. Home \in Up(parent, e.node)
  BY PathIsUp DEF IsTree, KnownOK
<1>2. CASE provider = "sharepoint"
  <2>1. adapter.space = Shared /\ e.node \in Nodes \ Sites
    BY <1>2, ProviderFacts DEF AdapterOK, KnownOK
  <2> QED
    BY <2>1, <1>1, <1>2 DEF FixedOK
<1>3. CASE provider # "sharepoint"
  <2>1. adapter.space = Home
    BY <1>3, ProviderFacts DEF AdapterOK
  <2> QED
    BY <2>1, <1>1
<1> QED
  BY <1>2, <1>3

\* A folder that is as it was, with the way up from it, is in its place as it was.
LEMMA PlaceStays ==
  ASSUME provider' = provider, adapter' = adapter, parent \in Trees, parent' \in Trees,
         NEW e, e.node \in Nodes, FolderPlaced(e),
         Home \in Up(parent', e.node) =>
           Up(parent', e.node) = Up(parent, e.node) /\ parent'[e.node] = parent[e.node]
  PROVE  FolderPlaced(e)'
<1>1. Exists(e.node)' => Exists(e.node) /\ Up(parent', e.node) = Up(parent, e.node) /\ parent'[e.node] = parent[e.node]
  BY PathIsUp
<1>2. Meant(adapter', e.under) = Meant(adapter, e.under)
  OBVIOUS
<1> QED
  BY <1>1, <1>2 DEF FolderPlaced

\* The folder that a listing was made of, by its reference.
LEMMA ListedIsMeant ==
  ASSUME FoldersInv, adapter # NoAdapter, NEW e \in known
  PROVE  Meant(adapter, e.service) \in {NoNode, e.node}
<1>1. KnownOK(e)
  BY DEF FoldersInv
<1>2. CASE e.service = Id(e.node)
  BY <1>2, RefFacts DEF Meant
<1>3. CASE e.service = Ns(e.node)
  BY <1>3, RefFacts DEF Meant
<1>4. CASE e.service = Root /\ e.node = Home /\ adapter.space = Home
  BY <1>4, RefFacts DEF Meant
<1> QED
  BY <1>1, <1>2, <1>3, <1>4 DEF KnownOK

LEMMA OpenPlaces ==
  ASSUME FoldersInv, NEW q \in shown, Open(q)
  PROVE  AddressInv'
<1> DEFINE a == CreateAdapter(q.folder)
<1>1. /\ provider \in Providers /\ IsTree(parent) /\ provider' = provider /\ parent' = parent
      /\ adapter' = a /\ a # NoAdapter
      /\ known' = {[service |-> q.folder.service, under |-> Empty, node |-> q.node]}
      /\ q.folder.type # "sharepoint_site" /\ FolderOK(q.folder, q.node)
  BY DEF FoldersInv, Open, ShownOK
<1> HIDE DEF a
<1>2. /\ a.service = q.folder.service /\ q.node \in Nodes
      /\ provider = "dropbox" => a.space \in {Home, q.node}
  BY <1>1, AdapterIsOK DEF a
<1> SUFFICES ASSUME provider = "dropbox", NEW e \in known'
             PROVE  FolderPlaced(e)'
  BY <1>1 DEF AddressInv
<1>3. e.service = q.folder.service /\ e.node = q.node
  BY <1>1
<1>4. Exists(e.node)' => Home \in Up(parent', e.node)
  BY <1>1, <1>2, <1>3, PathIsUp DEF IsTree
<1>5. e.node \in Up(parent', e.node)
  BY <1>1, <1>2, <1>3, UpIsLeast DEF IsTree
<1> QED
  BY <1>1, <1>2, <1>3, <1>4, <1>5 DEF FolderPlaced

LEMMA ListChildrenPlaces ==
  ASSUME FoldersInv, AddressInv, adapter # NoAdapter, NEW ref \in Refs, ListChildren(ref)
  PROVE  AddressInv'
<1>1. /\ provider \in Providers /\ IsTree(parent) /\ FixedOK /\ AdapterOK(adapter) /\ parent \in Trees
      /\ provider' = provider /\ parent' = parent /\ adapter' = adapter
      /\ ListTarget(adapter, ref) # NoNode
      /\ known' = known \cup {Known(Entry(n).service, ref, n) : n \in Children(ListTarget(adapter, ref))}
  BY DEF FoldersInv, ListChildren, PhaseOK, IsTree
<1>2. PICK f \in known : ref = f.service
  BY DEF Refs
<1> SUFFICES ASSUME provider = "dropbox", NEW e \in known'
             PROVE  FolderPlaced(e)'
  BY <1>1 DEF AddressInv
<1>3. CASE e \in known
  <2>1. e.node \in Nodes /\ FolderPlaced(e)
    BY <1>3 DEF FoldersInv, KnownOK, AddressInv
  <2> QED
    BY <2>1, <1>1, PlaceStays
<1>4. CASE e \notin known
  <2>1. PICK n \in Children(ListTarget(adapter, ref)) : e = Known(Entry(n).service, ref, n)
    BY <1>1, <1>4
  <2>2. e.under = ref /\ e.node = n /\ n \in Nodes /\ parent[n] = f.node /\ parent[n] # NoNode
    BY <2>1, <1>1, <1>2, ListedIsKnown DEF Known, Children
  <2>3. Up(parent, n) = {n} \cup Up(parent, f.node) /\ Home \in Up(parent, n) /\ n # Home
    BY <2>2, <1>1, UpUnfolds DEF IsTree
  <2>4. f.node \in Nodes /\ FolderPlaced(f)
    BY DEF FoldersInv, KnownOK, AddressInv
  <2>5. adapter.space \in Up(parent, f.node)
    BY <2>3, <2>4, <1>1, PathIsUp DEF FolderPlaced
  <2>6. Meant(adapter, e.under) \in {NoNode, parent[n]}
    BY <2>2, <1>1, <1>2, ListedIsMeant
  <2>7. Meant(adapter', e.under) = Meant(adapter, e.under)
    BY <1>1
  <2> QED
    BY <2>2, <2>3, <2>5, <2>6, <2>7, <1>1 DEF FolderPlaced
<1> QED
  BY <1>3, <1>4

\* Below a folder that is not made yet there is nothing.
LEMMA NothingBelow ==
  ASSUME FoldersInv, NEW n \in New, parent[n] = NoNode, NEW m \in Nodes, n \in Up(parent, m)
  PROVE  m = n
<1>1. IsTree(parent) /\ parent \in Trees
  BY DEF FoldersInv, IsTree
<1>2. Home \notin Up(parent, m)
  BY UnmadeStays
<1>3. parent[m] = NoNode
  BY <1>1, <1>2 DEF IsTree
<1> QED
  BY <1>1, <1>3, UpUnfolds

LEMMA CreatedPlaces ==
  ASSUME FoldersInv, AddressInv, NEW c \in Callers, NEW n \in New, Created(c, n)
  PROVE  AddressInv'
<1> DEFINE r == call[c]
           p == CreateTarget(adapter, r.ref)
<1>1. /\ r.at = "asking" /\ r.op = "create" /\ p # NoNode
      /\ parent[n] = NoNode /\ name[n] = Blank
      /\ parent' = [parent EXCEPT ![n] = p] /\ provider' = provider /\ adapter' = adapter
      /\ known' \in {known, known \cup {Known(Id(n), r.ref, n)}}
  BY DEF Created
<1>2. /\ provider \in Providers /\ IsTree(parent) /\ FixedOK /\ parent \in Trees
      /\ AdapterOK(adapter) /\ adapter # NoAdapter /\ r.ref \in References
  BY <1>1, CallerHasAdapter DEF FoldersInv, IsTree, CallsOK, CallFits
<1>3. p \in Nodes /\ InSpace(adapter.space, p)
  BY <1>1, <1>2, CreatedIsListed
<1> SUFFICES ASSUME provider = "dropbox", NEW e \in known'
             PROVE  FolderPlaced(e)'
  BY <1>1 DEF AddressInv
<1>4. p = Meant(adapter, r.ref)
  <2>1. p = DropboxCreate(adapter, r.ref)
    BY <1>2 DEF CreateTarget
  <2> QED
    BY <2>1, <1>1, <1>2, CreateIsMeant
<1> HIDE DEF p, r
<1>5. /\ n \in Nodes /\ parent' \in Trees /\ parent'[n] = p
      /\ \A m \in Nodes : m # n => parent'[m] = parent[m]
  BY <1>1, <1>2, <1>3 DEF Trees, Nodes
<1>6. \A m \in Nodes : m # n => n \notin Up(parent, m) /\ Up(parent, m) \subseteq Nodes
  BY <1>1, <1>2, NothingBelow, UpIsLeast
<1>7. ASSUME NEW m \in Nodes, m # n
      PROVE  Up(parent', m) = Up(parent, m)
  <2>1. \A k \in Up(parent, m) : parent'[k] = parent[k]
    BY <1>5, <1>6, <1>7
  <2> QED
    BY <2>1, <1>2, <1>5, UpAgrees
<1>8. CASE e \in known
  <2>1. e.node \in Nodes /\ FolderPlaced(e) /\ e.node # n
    BY <1>1, <1>8 DEF FoldersInv, KnownOK, AddressInv
  <2> QED
    BY <2>1, <1>1, <1>2, <1>5, <1>7, PlaceStays
<1>9. CASE e \notin known
  <2>1. e.under = r.ref /\ e.node = n
    BY <1>1, <1>9 DEF Known
  <2>2. p # n
    BY <1>1, <1>2, <1>3, UnmadeStays, UpIsLeast DEF InSpace
  <2>3. Up(parent', n) = {n} \cup Up(parent, p)
    <3>1. parent'[n] # NoNode
      BY <1>1, <1>5
    <3>2. Up(parent', n) = {n} \cup Up(parent', parent'[n])
      BY <3>1, <1>5, UpUnfolds
    <3>3. Up(parent', p) = Up(parent, p)
      BY <2>2, <1>3, <1>7
    <3> QED
      BY <3>2, <3>3, <1>5
  <2>4. Meant(adapter', e.under) = p
    BY <2>1, <1>1, <1>4
  <2> QED
    BY <2>1, <2>3, <2>4, <1>1, <1>3, <1>5 DEF FolderPlaced, InSpace
<1> QED
  BY <1>8, <1>9

\* In Dropbox a rename moves a folder to where it is: nothing but a create, a delete and
\* other users change the tree.
LEMMA RenamedStays ==
  ASSUME FoldersInv, AddressInv, NEW c \in Callers, Renamed(c)
  PROVE  parent' = parent
<1> DEFINE r == call[c]
           n == NodeTarget(adapter, r.ref)
           p == IF provider = "dropbox" THEN DropboxCreate(adapter, r.under) ELSE parent[n]
<1>1. /\ r.at = "asking" /\ r.op = "rename" /\ n \notin Spaces /\ n # NoNode /\ p # NoNode
      /\ parent' = [parent EXCEPT ![n] = p]
  BY Zenon DEF Renamed
<1> HIDE DEF n
<1>2. /\ provider \in Providers /\ IsTree(parent) /\ parent \in Trees /\ AdapterOK(adapter)
  BY <1>1, CallerHasAdapter DEF FoldersInv, IsTree
<1>3. /\ n \in Nodes /\ InSpace(adapter.space, n) /\ r.under \in References
      /\ \E e \in known : e.service # adapter.service /\ e.under = r.under /\ e.node = n
  BY <1>1, RenamedIsKnown DEF n
<1>4. p = parent[n]
  <2>1. CASE provider = "dropbox"
    <3>1. p = Meant(adapter, r.under)
      BY <2>1, <1>1, <1>2, <1>3, CreateIsMeant
    <3>2. PICK e \in known : e.service # adapter.service /\ e.under = r.under /\ e.node = n
      BY <1>3
    <3>3. Exists(n)
      BY <1>2, <1>3, PathIsUp DEF InSpace
    <3> QED
      BY <3>1, <3>2, <3>3, <2>1, <1>1 DEF AddressInv, FolderPlaced
  <2>2. CASE provider # "dropbox"
    BY <2>2
  <2> QED
    BY <2>1, <2>2
<1> HIDE DEF p
<1> QED
  BY <1>1, <1>2, <1>4 DEF Trees

\* What is left after a delete is where it was.
LEMMA DeletedStays ==
  ASSUME FoldersInv, NEW c \in Callers, Deleted(c)
  PROVE  /\ parent' \in Trees
         /\ \A m \in Nodes : Home \in Up(parent', m) =>
              Up(parent', m) = Up(parent, m) /\ parent'[m] = parent[m]
<1>1. IsTree(parent) /\ parent \in Trees /\ Home \in Nodes
  BY FolderSets DEF FoldersInv, IsTree
<1>2. PICK n : parent' = [m \in Nodes |-> IF m \in Below(n) THEN NoNode ELSE parent[m]]
  BY DEF Deleted
<1>3. parent' = [m \in Nodes |-> IF Home \in Up(parent, m) /\ n \in Up(parent, m) THEN NoNode ELSE parent[m]]
  BY <1>1, <1>2, BelowIsUp
<1>4. /\ IsTree(parent')
      /\ \A m \in Nodes : n \notin Up(parent, m) => Up(parent', m) = Up(parent, m)
      /\ \A m \in Nodes : Home \in Up(parent', m) => m = Home \/ n \notin Up(parent, m)
  BY <1>1, <1>3, Cutting
<1>5. ASSUME NEW m \in Nodes, Home \in Up(parent', m)
      PROVE  Up(parent', m) = Up(parent, m) /\ parent'[m] = parent[m]
  <2>1. CASE m = Home
    BY <2>1, <1>1, <1>4, UpUnfolds DEF IsTree
  <2>2. CASE n \notin Up(parent, m)
    BY <2>2, <1>3, <1>4
  <2> QED
    BY <2>1, <2>2, <1>4, <1>5
<1> QED
  BY <1>4, <1>5 DEF IsTree

LEMMA NextPlaces ==
  ASSUME "dropbox" \notin Movers, FoldersInv, AddressInv, [Next]_vars
  PROVE  AddressInv'
<1>1. ASSUME NEW q \in shown, Open(q)
      PROVE  AddressInv'
  BY <1>1, OpenPlaces
<1>2. CASE adapter # NoAdapter /\ \E ref \in Refs : ListChildren(ref)
  BY <1>2, ListChildrenPlaces
<1>3. CASE \E c \in Callers, n \in New : Created(c, n)
  BY <1>3, CreatedPlaces
<1>4. ASSUME provider' = provider, adapter' = adapter, known' = known, parent' \in Trees,
             provider = "dropbox" => \A m \in Nodes : Home \in Up(parent', m) =>
               Up(parent', m) = Up(parent, m) /\ parent'[m] = parent[m]
      PROVE  AddressInv'
  <2> SUFFICES ASSUME provider = "dropbox", NEW e \in known
               PROVE  FolderPlaced(e)'
    BY <1>4 DEF AddressInv
  <2>1. e.node \in Nodes /\ FolderPlaced(e) /\ parent \in Trees
    BY DEF FoldersInv, KnownOK, AddressInv, IsTree
  <2> QED
    BY <2>1, <1>4, PlaceStays
<1>5. parent \in Trees
  BY DEF FoldersInv, IsTree
<1>6. ASSUME NEW c \in Callers, Renamed(c)
      PROVE  AddressInv'
  <2>1. parent' = parent /\ provider' = provider /\ adapter' = adapter /\ known' = known
    BY <1>6, RenamedStays DEF Renamed
  <2> QED
    BY <2>1, <1>4, <1>5
<1>7. ASSUME NEW c \in Callers, Deleted(c)
      PROVE  AddressInv'
  <2>1. provider' = provider /\ adapter' = adapter /\ known' = known
    BY <1>7 DEF Deleted
  <2> QED
    BY <2>1, <1>4, <1>7, DeletedStays
<1>8. ASSUME NEW n \in Nodes, NEW p \in Nodes, Move(n, p)
      PROVE  AddressInv'
  BY <1>8 DEF Move, AddressInv
<1>9. CASE parent' = parent /\ provider' = provider /\ adapter' = adapter /\ known' = known
  BY <1>4, <1>5, <1>9
<1>10. \/ \E q \in shown : Open(q)
       \/ adapter # NoAdapter /\ \E ref \in Refs : ListChildren(ref)
       \/ \E c \in Callers, n \in New : Created(c, n)
       \/ \E c \in Callers : Renamed(c) \/ Deleted(c)
       \/ \E n, p \in Nodes : Move(n, p)
       \/ parent' = parent /\ provider' = provider /\ adapter' = adapter /\ known' = known
  BY DEF Next, vars, Browse, CreateFolder, RenameNode, DeleteNodes, Refused
<1> QED
  BY <1>1, <1>2, <1>3, <1>6, <1>7, <1>8, <1>9, <1>10

LEMMA AddressHolds ==
  ASSUME "dropbox" \notin Movers
  PROVE  Spec => []AddressInv
<1>1. Init => AddressInv
  BY DEF Init, AddressInv
<1>2. FoldersInv /\ AddressInv /\ [Next]_vars => AddressInv'
  BY NextPlaces
<1> QED
  BY <1>1, <1>2, FoldersInvariant, PTL DEF Spec

\* A known folder that is still there is in the space of the migration's adapter.
LEMMA KnownIsInSpace ==
  ASSUME FoldersInv, AddressInv, NEW e \in known, Exists(e.node)
  PROVE  InSpace(adapter.space, e.node)
<1>1. /\ provider \in Providers /\ IsTree(parent) /\ FixedOK /\ AdapterOK(adapter) /\ KnownOK(e)
      /\ e.node \in Nodes /\ parent \in Trees
  BY DEF FoldersInv, PhaseOK, KnownOK, IsTree
<1>2. Home \in Up(parent, e.node)
  BY <1>1, PathIsUp
<1>3. adapter.space \in Up(parent, e.node)
  BY <1>1, OneSpace DEF AddressInv, FolderPlaced
<1> QED
  BY <1>2, <1>3 DEF InSpace

\* The ServiceID a migration has for a folder goes on addressing that folder, to list it
\* and to write into it, but for the two exceptions that the property names, whatever
\* the migration's callers do. In a Dropbox account nobody else may move folders: one
\* that is moved out of the adapter's namespace is not found there.
THEOREM FoldersStayAddressed ==
  ASSUME "dropbox" \notin Movers
  PROVE  Spec => []FoldersAreAddressed
<1>1. ASSUME FoldersInv, AddressInv
      PROVE  FoldersAreAddressed
  <2> SUFFICES ASSUME NEW e \in known, Exists(e.node)
               PROVE  /\ ListTarget(adapter, e.service)   = IF NotListable(e) THEN NoNode ELSE e.node
                      /\ CreateTarget(adapter, e.service) = IF NotWritable(e) THEN NoNode ELSE e.node
    BY DEF FoldersAreAddressed
  <2>1. /\ provider \in Providers /\ IsTree(parent) /\ FixedOK /\ AdapterOK(adapter) /\ KnownOK(e)
        /\ e.node \in Nodes /\ parent \in Trees
    BY <1>1 DEF FoldersInv, PhaseOK, KnownOK, IsTree
  <2>2. CASE e.service = Id(e.node)
    <3>1. ~NotListable(e) /\ ~NotWritable(e)
      BY <2>2, RefFacts DEF NotListable, NotWritable
    <3>2. ListTarget(adapter, e.service) = e.node /\ CreateTarget(adapter, e.service) = e.node
      BY <2>1, <2>2, <1>1, KnownIsInSpace, ItemTargets
    <3> QED
      BY <3>1, <3>2
  <2>3. CASE e.service = Ns(e.node) /\ e.node \in Mounts
    <3>1. /\ NotListable(e) <=> adapter.context = "user_root"
          /\ NotWritable(e) <=> provider = "sharepoint" \/ e.node # adapter.space
      BY <2>3, RefFacts DEF NotListable, NotWritable
    <3> QED
      BY <3>1, <2>1, <2>3, MountTargets
  <2>4. CASE e.service = Root /\ e.node = Home /\ adapter.space = Home /\ provider # "box"
    <3>1. ~NotListable(e) /\ ~NotWritable(e)
      BY <2>4, RefFacts DEF NotListable, NotWritable
    <3> QED
      BY <3>1, <2>1, <2>4, AliasTargets
  <2> QED
    BY <2>1, <2>2, <2>3, <2>4 DEF KnownOK
<1>2. FoldersInv /\ AddressInv => FoldersAreAddressed
  BY <1>1
<1> QED
  BY <1>2, FoldersInvariant, AddressHolds, PTL

\* What one step of a rename may do: change the name of the folder it was made for.
RenamesInPlace ==
  \A c \in Callers : call[c].op = "rename" /\ call[c].at = "asking" /\ call'[c] # call[c] =>
    /\ parent' = parent
    /\ \A n \in Nodes : name'[n] # name[n] => n = call[c].node

\* A rename leaves the tree alone and names only the folder it was made for, in Dropbox
\* too, where it is a move to the folder the item was listed or made under.
THEOREM RenamesStayInPlace ==
  ASSUME "dropbox" \notin Movers
  PROVE  Spec => RenameIsInPlace
<1>1. ASSUME FoldersInv, AddressInv, [Next]_vars
      PROVE  [RenamesInPlace]_vars
  <2>1. ASSUME NEW c \in Callers, call[c].op = "rename", call[c].at = "asking", call'[c] # call[c],
               ~UNCHANGED vars
        PROVE  Renamed(c) \/ Refused(c)
    <3>1. ASSUME NEW d \in Callers, NEW r, Set(d, r)
          PROVE  d = c
      BY <3>1, <2>1 DEF Set
    <3>2. \/ call' = call
          \/ \E d \in Callers : \E ref, x : CreateFolder(d, ref, x)
          \/ \E d \in Callers : \E e, x : RenameNode(d, e, x)
          \/ \E d \in Callers : \E es : DeleteNodes(d, es)
          \/ \E d \in Callers : \E n : Created(d, n)
          \/ \E d \in Callers : Renamed(d) \/ Deleted(d) \/ Refused(d)
      BY <1>1, <2>1 DEF Next, Browse, Open, ListChildren, Move
    <3>3. ASSUME NEW d \in Callers, NEW n, Created(d, n)
          PROVE  FALSE
      BY <3>1, <3>3, <2>1 DEF Created, Repeat
    <3>4. ASSUME NEW d \in Callers, Deleted(d)
          PROVE  FALSE
      BY <3>1, <3>4, <2>1 DEF Deleted, Repeat
    <3>5. ASSUME NEW d \in Callers, Renamed(d) \/ Refused(d)
          PROVE  d = c
      BY <3>1, <3>5, <2>1 DEF Renamed, Refused, Repeat
    <3>6. ASSUME NEW d \in Callers, NEW e, NEW x, CreateFolder(d, e, x) \/ RenameNode(d, e, x)
          PROVE  FALSE
      BY <3>1, <3>6, <2>1 DEF CreateFolder, RenameNode
    <3>7. ASSUME NEW d \in Callers, NEW es, DeleteNodes(d, es)
          PROVE  FALSE
      BY <3>1, <3>7, <2>1 DEF DeleteNodes
    <3> QED
      BY <3>2, <3>3, <3>4, <3>5, <3>6, <3>7, <2>1
  <2>2. ASSUME NEW c \in Callers, call[c].op = "rename", call[c].at = "asking", Renamed(c)
        PROVE  /\ parent' = parent
               /\ \A n \in Nodes : name'[n] # name[n] => n = call[c].node
    <3>1. PICK n : /\ n = NodeTarget(adapter, call[c].ref) /\ n \notin Spaces /\ n # NoNode
                   /\ name' = [name EXCEPT ![n] = call[c].name]
      BY <2>2 DEF Renamed
    <3>2. n = call[c].node
      BY <3>1, <2>2, <1>1, RenamedIsKnown
    <3>3. \A m \in Nodes : m # n => name'[m] = name[m]
      BY <3>1, <1>1 DEF FoldersInv, NamesOK
    <3> QED
      BY <3>2, <3>3, <2>2, <1>1, RenamedStays
  <2>3. ASSUME NEW c \in Callers, Refused(c)
        PROVE  parent' = parent /\ name' = name
    BY <2>3 DEF Refused
  <2> QED
    BY <2>1, <2>2, <2>3 DEF RenamesInPlace
<1>2. FoldersInv /\ AddressInv /\ [Next]_vars => [RenamesInPlace]_vars
  BY <1>1
<1> QED
  BY <1>2, FoldersInvariant, AddressHolds, PTL DEF Spec, RenameIsInPlace, RenamesInPlace

-----------------------------------------------------------------------------
(* The browser. *)

\* What the browser is made to send for a folder, so that the adapter made of it, and
\* nothing else, finds the folder again.
SentOK(q) ==
  /\ q.node \in Nodes
  /\ provider = "dropbox" =>
       \/ q.node = Home /\ q.id = Root /\ q.type = "user_root" /\ q.drive = Ns(Home)
       \/ /\ q.node \in Mounts /\ q.id = Ns(q.node) /\ q.drive = Ns(q.node)
          /\ q.type \in {Blank, "shared_folder", "team_folder"}
       \/ /\ q.id = Id(q.node) /\ q.type = Blank
          /\ \E s \in Spaces : /\ q.drive = Ns(s)
                               /\ Home \in Up(parent, q.node) => s \in Up(parent, q.node)
  /\ provider = "box" =>
       /\ q.id = Id(q.node) /\ q.drive = Empty
       /\ q.type = Blank \/ (q.node = Home /\ q.type = "my_drive")
  /\ provider = "googledrive" =>
       /\ q.drive = Empty
       /\ \/ q.node = Home /\ q.id = Root /\ q.type = "my_drive"
          \/ q.id = Id(q.node) /\ q.type = Blank
  /\ provider = "onedrive" =>
       /\ q.drive = Ns(Home)
       /\ \/ q.node = Home /\ q.id = Root /\ q.type = "my_drive"
          \/ q.id = Id(q.node) /\ q.type = Blank
  /\ provider = "sharepoint" =>
       \/ q.node \in Sites /\ q.id = Id(q.node) /\ q.type = "sharepoint_site" /\ q.drive = Empty
       \/ q.node = Shared /\ q.id = Ns(Shared) /\ q.type = "sharepoint_drive" /\ q.drive = Ns(Shared)
       \/ q.node \notin Sites /\ q.id = Id(q.node) /\ q.type = Blank /\ q.drive = Ns(Shared)

BrowseInv == \A q \in shown : SentOK(q)

\* Blank is none of the types of folders.
LEMMA NoType ==
  Blank \notin {"user_root", "my_drive", "shared_folder", "team_folder", "sharepoint_drive", "sharepoint_site"}
  BY DEF Blank

\* The adapter made for the listing of a nested folder, and of a root.
LEMMA AdapterOfNested ==
  ASSUME NEW q, q.type = Blank
  PROVE  BrowseAdapter(q) = CreateAdapter(Folder(q.id, q.drive, "folder"))
<1>1. ~IsVirtualRootListing(q.id, q.type)
  BY NoType DEF IsVirtualRootListing
<1>2. BrowseFolder(q.id, Blank, q.drive) = Folder(q.id, Empty, "folder")
  BY NoType DEF BrowseFolder
<1>3. [Folder(q.id, Empty, "folder") EXCEPT !.parent = q.drive] = Folder(q.id, q.drive, "folder")
  BY DEF Folder
<1> QED
  BY <1>1, <1>2, <1>3 DEF BrowseAdapter

LEMMA AdapterOfRoot ==
  ASSUME NEW q, q.id # Empty
  PROVE  /\ q.type \in {"user_root", "my_drive"} /\ q.id \in {Root, Id(Home)} =>
              BrowseAdapter(q) = CreateAdapter(BrowseFolder(q.id, q.type, q.drive))
         /\ q.type \in {"shared_folder", "team_folder", "sharepoint_drive", "sharepoint_site"} =>
              BrowseAdapter(q) = CreateAdapter(BrowseFolder(q.id, q.type, q.drive))
  BY DEF BrowseAdapter, IsVirtualRootListing

\* A listing that is asked for as it should be is of the folder it was asked for, and
\* refused if that is gone.
LEMMA BrowseFinds ==
  ASSUME provider \in Providers, IsTree(parent), FixedOK, NEW q, SentOK(q)
  PROVE  BrowseTarget(q) = IF Home \in Up(parent, q.node) THEN q.node ELSE NoNode
<1> DEFINE a == BrowseAdapter(q)
           n == q.node
           t == IF Home \in Up(parent, n) THEN n ELSE NoNode
<1>1. /\ parent \in Trees /\ n \in Nodes /\ Home \in Nodes /\ Home # NoNode
      /\ \A m \in Spaces : Home \in Up(parent, m)
      /\ Home \in Up(parent, Home)
  BY MountsExist, FolderSets, UpIsLeast DEF IsTree, SentOK
<1>2. Item(Home, Id(n)) = t
  BY <1>1, ItemFacts
<1>3. BrowseTarget(q) = ListTarget(a, q.id)
  BY DEF BrowseTarget
<1> HIDE DEF a
<1>4. CASE provider = "dropbox"
  <2>1. CASE n = Home /\ q.id = Root /\ q.type = "user_root" /\ q.drive = Ns(Home)
    <3>1. BrowseFolder(q.id, q.type, q.drive) = Folder(Root, Ns(Home), "user_root")
      BY <2>1, RefFacts, NoType DEF BrowseFolder
    <3>2. a = CreateAdapter(Folder(Root, Ns(Home), "user_root"))
      BY <2>1, <3>1, RefFacts, AdapterOfRoot DEF a
    <3>3. a.space = Home
      BY <3>2, <1>4 DEF CreateAdapter, DropboxAdapter, Adapter, Folder
    <3>4. ListTarget(a, Root) = Home
      BY <3>3, <1>1, <1>4 DEF ListTarget, DropboxList, DropboxIsRoot, NoAdapter
    <3> QED
      BY <3>4, <2>1, <1>1, <1>3
  <2>2. CASE n \in Mounts /\ q.id = Ns(n) /\ q.drive = Ns(n) /\ q.type \in {Blank, "shared_folder", "team_folder"}
    <3>1. PICK y \in {"folder", "shared_folder", "team_folder"} : a = CreateAdapter(Folder(Ns(n), Ns(n), y))
      <4>1. CASE q.type = Blank
        BY <4>1, <2>2, AdapterOfNested DEF a
      <4>2. CASE q.type \in {"shared_folder", "team_folder"}
        <5>1. BrowseFolder(q.id, q.type, q.drive) = Folder(Ns(n), Ns(n), q.type)
          BY <4>2, <2>2, RefFacts, NoType DEF BrowseFolder
        <5> QED
          BY <4>2, <5>1, <2>2, RefFacts, AdapterOfRoot DEF a
      <4> QED
        BY <4>1, <4>2, <2>2
    <3>2. a.space = n /\ a.context # "user_root" /\ a.service = Ns(n)
      BY <3>1, <1>4, RefFacts DEF CreateAdapter, DropboxAdapter, Adapter, Folder
    <3>3. ListTarget(a, Ns(n)) = n
      BY <3>2, <1>1, <1>4, FolderSets DEF ListTarget, DropboxList, DropboxIsRoot, NoAdapter
    <3>4. n \in Spaces
      BY <2>2 DEF Mounts
    <3> QED
      BY <3>3, <3>4, <2>2, <1>1, <1>3
  <2>3. CASE /\ q.id = Id(n) /\ q.type = Blank
             /\ \E s \in Spaces : q.drive = Ns(s) /\ (Home \in Up(parent, n) => s \in Up(parent, n))
    <3>1. PICK s \in Spaces : q.drive = Ns(s) /\ (Home \in Up(parent, n) => s \in Up(parent, n))
      BY <2>3
    <3> DEFINE f == Folder(Id(n), Ns(s), "folder")
    <3>2. a = CreateAdapter(f)
      BY <2>3, <3>1, AdapterOfNested DEF a
    <3>3. /\ f.service = Id(n) /\ f.parent = Ns(s) /\ f.type = "folder" /\ f.service[1] = "id"
          /\ f.parent # Empty /\ f.parent[2] = s
      BY RefFacts DEF Folder
    <3>4. Item(s, Id(n)) = t
      BY <3>1, <1>1, ItemFacts
    <3> HIDE DEF f
    <3>5. CASE t = NoNode
      <4>1. a = NoAdapter
        BY <3>2, <3>3, <3>4, <3>5, <1>4 DEF CreateAdapter, DropboxAdapter
      <4> QED
        BY <4>1, <3>5, <1>3 DEF ListTarget
    <3>6. CASE t # NoNode
      <4>1. a = Adapter(f, "user_root", Home, Empty)
        BY <3>2, <3>3, <3>4, <3>6, <1>4 DEF CreateAdapter, DropboxAdapter
      <4>2. a.space = Home /\ a.context = "user_root" /\ a.parent = Ns(s)
        BY <4>1, <3>3 DEF Adapter
      <4>3. ListTarget(a, Id(n)) = Item(Home, Id(n))
        BY <4>2, <1>1, <1>4, RefFacts DEF ListTarget, DropboxList, DropboxIsRoot, NoAdapter
      <4> QED
        BY <4>3, <2>3, <1>2, <1>3
    <3> QED
      BY <3>5, <3>6
  <2> QED
    BY <2>1, <2>2, <2>3, <1>4 DEF SentOK
<1>5. CASE provider = "box"
  <2>1. \E y : a = CreateAdapter(Folder(Id(n), Empty, y)) /\ q.id = Id(n)
    <3>1. CASE q.type = Blank
      BY <3>1, <1>5, AdapterOfNested DEF a, SentOK
    <3>2. CASE n = Home /\ q.type = "my_drive"
      <4>1. BrowseFolder(q.id, q.type, q.drive) = Folder(Id(n), Empty, "my_drive")
        BY <3>2, <1>5, RefFacts, NoType DEF BrowseFolder, SentOK
      <4> QED
        BY <3>2, <4>1, <1>5, RefFacts, AdapterOfRoot DEF a, SentOK
    <3> QED
      BY <3>1, <3>2, <1>5 DEF SentOK
  <2>2. a.folder = Id(n) /\ a.space = Home
    BY <2>1, <1>5, RefFacts DEF CreateAdapter, BoxAdapter, Adapter, Folder
  <2>3. ListTarget(a, Id(n)) = Item(Home, Id(n))
    BY <2>2, <1>1, <1>5 DEF ListTarget, BoxList, NoAdapter
  <2> QED
    BY <2>1, <2>3, <1>2, <1>3
<1>6. CASE provider \in {"googledrive", "onedrive"}
  <2>1. /\ \E x, p, y : a = CreateAdapter(Folder(x, p, y))
        /\ q.id = Id(n) \/ (n = Home /\ q.id = Root)
    <3>1. CASE q.type = Blank
      BY <3>1, <1>6, NoType, AdapterOfNested DEF a, SentOK
    <3>2. CASE n = Home /\ q.id = Root /\ q.type = "my_drive"
      <4>1. BrowseFolder(q.id, q.type, q.drive) = Folder(Root, Empty, "my_drive")
        BY <3>2, RefFacts, NoType DEF BrowseFolder
      <4> QED
        BY <3>2, <4>1, RefFacts, AdapterOfRoot DEF a
    <3> QED
      BY <3>1, <3>2, <1>6 DEF SentOK
  <2>2. a.space = Home /\ a.context = "my_drive"
    BY <2>1, <1>6 DEF CreateAdapter, DriveAdapter, OneDriveAdapter, Adapter
  <2>3. ListTarget(a, Id(n)) = Item(Home, Id(n))
    BY <2>2, <1>1, <1>6, RefFacts DEF ListTarget, DriveList, GraphList, GraphFolder, ItemPath, NoAdapter
  <2>4. ListTarget(a, Root) = Home
    BY <2>2, <1>1, <1>6, RefFacts DEF ListTarget, DriveList, GraphList, GraphFolder, ItemPath, NoAdapter
  <2> QED
    BY <2>1, <2>3, <2>4, <1>1, <1>2, <1>3
<1>7. CASE provider = "sharepoint"
  <2>1. CASE n \in Sites /\ q.id = Id(n) /\ q.type = "sharepoint_site" /\ q.drive = Empty
    <3>1. BrowseFolder(q.id, q.type, q.drive) = Folder(Id(n), Empty, "sharepoint_site")
      BY <2>1, NoType DEF BrowseFolder
    <3>2. a = CreateAdapter(Folder(Id(n), Empty, "sharepoint_site"))
      BY <2>1, <3>1, RefFacts, AdapterOfRoot DEF a
    <3>3. a.context = "sharepoint_site" /\ a # NoAdapter
      BY <3>2, <1>7 DEF CreateAdapter, SharePointAdapter, Adapter, Folder, NoAdapter
    <3>4. ListTarget(a, Id(n)) = SiteList(a, Id(n))
      BY <3>3, <1>7 DEF ListTarget
    <3>5. Exists(n) <=> Home \in Up(parent, n)
      BY <1>1, PathIsUp
    <3>6. SiteList(a, Id(n)) = t
      BY <3>5, <2>1, RefFacts DEF SiteList
    <3> QED
      BY <3>4, <3>6, <2>1, <1>3
  <2>2. CASE n = Shared /\ q.id = Ns(Shared) /\ q.type = "sharepoint_drive" /\ q.drive = Ns(Shared)
    <3>1. BrowseFolder(q.id, q.type, q.drive) = Folder(Root, Ns(Shared), "sharepoint_drive")
      BY <2>2, RefFacts, NoType DEF BrowseFolder
    <3>2. a = CreateAdapter(Folder(Root, Ns(Shared), "sharepoint_drive"))
      BY <2>2, <3>1, RefFacts, AdapterOfRoot DEF a
    <3>3. a.space = Shared /\ a.context = "sharepoint_drive"
      BY <3>2, <1>7, RefFacts DEF CreateAdapter, SharePointAdapter, Adapter, Folder
    <3>4. ListTarget(a, Ns(Shared)) = Shared
      BY <3>3, <1>7, RefFacts DEF ListTarget, GraphList, GraphFolder, NoAdapter
    <3>5. Shared \in Spaces
      BY <1>7, ProviderFacts
    <3> QED
      BY <3>4, <3>5, <2>2, <1>1, <1>3
  <2>3. CASE n \notin Sites /\ q.id = Id(n) /\ q.type = Blank /\ q.drive = Ns(Shared)
    <3>1. a = CreateAdapter(Folder(Id(n), Ns(Shared), "folder"))
      BY <2>3, AdapterOfNested DEF a
    <3>2. a.space = Shared /\ a.context = "sharepoint_drive"
      BY <3>1, <1>7, RefFacts DEF CreateAdapter, SharePointAdapter, Adapter, Folder
    <3>3. ListTarget(a, Id(n)) = Item(Shared, Id(n))
      BY <3>2, <1>7, RefFacts DEF ListTarget, GraphList, GraphFolder, ItemPath, NoAdapter
    <3>4. Home \in Up(parent, n) => Shared \in Up(parent, n)
      BY <2>3, <1>1, <1>7 DEF FixedOK
    <3>5. Item(Shared, Id(n)) = t
      BY <3>4, <1>1, ItemFacts
    <3> QED
      BY <3>3, <3>5, <2>3, <1>3
  <2> QED
    BY <2>1, <2>2, <2>3, <1>7 DEF SentOK
<1> QED
  BY <1>4, <1>5, <1>6, <1>7, ProviderFacts

\* What is sent for the roots that are listed first.
LEMMA RootsAreSent ==
  ASSUME Init
  PROVE  BrowseInv
<1>1. provider \in Providers /\ shown = ListRoots
  BY DEF Init
<1>2. /\ provider \in {"dropbox", "box", "googledrive", "onedrive", "sharepoint"}
      /\ Home \in Nodes /\ Sites \subseteq Nodes /\ Mounts \subseteq Nodes
      /\ provider = "dropbox" => Shared \in Mounts /\ Nested \in Mounts
      /\ provider = "sharepoint" => Sites = {Home, Plain}
  BY <1>1, ProviderFacts, FolderSets
<1>3. \A i, y, d, m : LET q == RootRequest(i, y, d, m)
                      IN q.id = i /\ q.type = y /\ q.drive = d /\ q.node = m
  BY DEF RootRequest, Request
<1> SUFFICES ASSUME NEW q \in shown
             PROVE  SentOK(q)
  BY DEF BrowseInv
<1>4. CASE provider = "dropbox"
  <2>1. CASE q = RootRequest(Root, "user_root", Ns(Home), Home)
    <3>1. q.id = Root /\ q.type = "user_root" /\ q.drive = Ns(Home) /\ q.node = Home
      BY <2>1, <1>3
    <3> QED
      BY <3>1, <1>2, <1>4 DEF SentOK
  <2>2. CASE \E n \in {Shared, Nested}, t \in SharedRoots : q = RootRequest(Ns(n), t, Ns(n), n)
    <3>1. PICK n \in {Shared, Nested}, t \in SharedRoots : q = RootRequest(Ns(n), t, Ns(n), n)
      BY <2>2
    <3>2. q.id = Ns(n) /\ q.type = t /\ q.drive = Ns(n) /\ q.node = n
      BY <3>1, <1>3
    <3>3. t \in {"shared_folder", "team_folder"}
      BY <3>1, ConstantFacts
    <3> QED
      BY <3>1, <3>2, <3>3, <1>2, <1>4 DEF SentOK
  <2> QED
    BY <2>1, <2>2, <1>1, <1>4 DEF ListRoots
<1>5. CASE provider = "box"
  <2>1. q = RootRequest(Id(Home), "my_drive", Empty, Home)
    BY <1>1, <1>5 DEF ListRoots
  <2>2. q.id = Id(Home) /\ q.type = "my_drive" /\ q.drive = Empty /\ q.node = Home
    BY <2>1, <1>3
  <2> QED
    BY <2>2, <1>2, <1>5 DEF SentOK
<1>6. CASE provider \in {"googledrive", "onedrive"}
  <2>1. q = RootRequest(Root, "my_drive", IF provider = "onedrive" THEN Ns(Home) ELSE Empty, Home)
    BY <1>1, <1>6 DEF ListRoots
  <2>2. /\ q.id = Root /\ q.type = "my_drive" /\ q.node = Home
        /\ q.drive = IF provider = "onedrive" THEN Ns(Home) ELSE Empty
    BY <2>1, <1>3
  <2> QED
    BY <2>2, <1>2, <1>6 DEF SentOK
<1>7. CASE provider = "sharepoint"
  <2>1. PICK n \in Sites : q = RootRequest(Id(n), "sharepoint_site", Empty, n)
    BY <1>1, <1>7 DEF ListRoots
  <2>2. q.id = Id(n) /\ q.type = "sharepoint_site" /\ q.drive = Empty /\ q.node = n
    BY <2>1, <1>3
  <2> QED
    BY <2>2, <1>2, <1>7 DEF SentOK
<1> QED
  BY <1>2, <1>4, <1>5, <1>6, <1>7

\* What is sent for a folder that a listing shows.
LEMMA FoundIsSent ==
  ASSUME ~KeepRootType, FoldersInv, NEW q, SentOK(q), NEW n \in Nodes, parent[n] = BrowseTarget(q),
         parent[n] # NoNode
  PROVE  SentOK(Found(q, n))
<1> DEFINE f == Found(q, n)
           e == Entry(n)
<1>1. /\ provider \in Providers /\ IsTree(parent) /\ FixedOK /\ parent \in Trees
      /\ provider \in {"dropbox", "box", "googledrive", "onedrive", "sharepoint"}
  BY ProviderFacts DEF FoldersInv, IsTree
<1>2. parent[n] = q.node /\ q.node \in Nodes /\ Home \in Up(parent, q.node) /\ n # Home
  BY <1>1, BrowseFinds DEF SentOK, IsTree
<1>3. Up(parent, n) = {n} \cup Up(parent, q.node)
  BY <1>1, <1>2, UpUnfolds
<1>4. /\ f.id = e.service /\ f.node = n
      /\ f.type = IF e.type # "folder" THEN e.type ELSE Blank
      /\ f.drive = IF e.parent[1] = "ns" THEN e.parent ELSE q.drive
  <2>1. f = Request(e.service, IF e.type # "folder" THEN e.type ELSE Blank,
                    IF e.parent[1] = "ns" THEN e.parent ELSE q.drive, e, n)
    BY Zenon DEF Found
  <2> HIDE DEF f, e
  <2> QED
    BY <2>1 DEF Request
<1>5. \A s, p, t : Folder(s, p, t).service = s /\ Folder(s, p, t).parent = p /\ Folder(s, p, t).type = t
  BY DEF Folder
<1> SUFFICES SentOK(f)
  OBVIOUS
<1> HIDE DEF f
<1>6. CASE provider = "dropbox"
  <2>1. CASE n \in Spaces
    <3>1. e.service = Ns(n) /\ e.parent = Ns(n) /\ e.type = "folder"
      BY <2>1, <1>5, <1>6 DEF Entry
    <3>2. f.id = Ns(n) /\ f.type = Blank /\ f.drive = Ns(n) /\ n \in Mounts
      BY <3>1, <2>1, <1>2, <1>4, RefFacts DEF Mounts
    <3> QED
      BY <3>2, <1>4, <1>6 DEF SentOK
  <2>2. CASE n \notin Spaces
    <3>1. e.service = Id(n) /\ e.parent = Empty /\ e.type = "folder"
      BY <2>2, <1>5, <1>6 DEF Entry
    <3>2. f.id = Id(n) /\ f.type = Blank /\ f.drive = q.drive
      BY <3>1, <1>4, RefFacts
    <3>3. \E s \in Spaces : q.drive = Ns(s) /\ s \in Up(parent, q.node)
      <4>1. Home \in Spaces /\ Mounts \subseteq Spaces /\ q.node \in Up(parent, q.node)
        BY <1>1, <1>2, <1>6, ProviderFacts, UpIsLeast
      <4> QED
        BY <4>1, <1>2, <1>6 DEF SentOK
    <3> QED
      BY <3>2, <3>3, <1>3, <1>4, <1>6 DEF SentOK
  <2> QED
    BY <2>1, <2>2
<1>7. CASE provider \in {"box", "googledrive"}
  <2>1. n \notin Sites
    BY <1>1, <1>7, ProviderFacts
  <2>2. e.service = Id(n) /\ e.parent = Id(parent[n]) /\ e.type = "folder"
    BY <2>1, <1>5, <1>7 DEF Entry
  <2>3. f.id = Id(n) /\ f.type = Blank /\ f.drive = q.drive
    BY <2>2, <1>4, RefFacts
  <2> QED
    BY <2>3, <1>4, <1>7 DEF SentOK
<1>8. CASE provider = "onedrive"
  <2>1. n \notin Sites
    BY <1>1, <1>8, ProviderFacts
  <2>2. e.service = Id(n) /\ e.parent = Ns(Home) /\ e.type = "folder"
    BY <2>1, <1>5, <1>8 DEF Entry
  <2>3. f.id = Id(n) /\ f.type = Blank /\ f.drive = Ns(Home)
    BY <2>2, <1>4, RefFacts
  <2> QED
    BY <2>3, <1>4, <1>8 DEF SentOK
<1>9. CASE provider = "sharepoint"
  <2>1. Sites = {Home, Plain} /\ parent[Shared] = Home /\ parent[Plain] = Home /\ Shared # Home /\ Shared # Plain
    BY <1>1, <1>9, ProviderFacts, FiveFolders DEF FixedOK
  <2>2. CASE n \in Sites
    <3>1. e.service = Id(n) /\ e.parent = Empty /\ e.type = "sharepoint_site"
      BY <2>2, <1>5, <1>9 DEF Entry
    <3>2. f.id = Id(n) /\ f.type = "sharepoint_site" /\ f.drive = q.drive
      BY <3>1, <1>4, RefFacts
    <3>3. q.drive = Empty
      BY <2>1, <2>2, <1>2, <1>9 DEF SentOK
    <3> QED
      BY <3>2, <3>3, <2>2, <1>4, <1>9 DEF SentOK
  <2>3. CASE n = Shared
    <3>1. e.service = Ns(n) /\ e.parent = Ns(n) /\ e.type = "sharepoint_drive"
      BY <2>1, <2>3, <1>5, <1>9 DEF Entry
    <3>2. f.id = Ns(n) /\ f.type = "sharepoint_drive" /\ f.drive = Ns(n)
      BY <3>1, <1>4, RefFacts
    <3> QED
      BY <3>2, <2>3, <1>4, <1>9 DEF SentOK
  <2>4. CASE n \notin Sites /\ n # Shared
    <3>1. e.service = Id(n) /\ e.parent = Ns(Shared) /\ e.type = "folder"
      BY <2>4, <1>5, <1>9 DEF Entry
    <3>2. f.id = Id(n) /\ f.type = Blank /\ f.drive = Ns(Shared)
      BY <3>1, <1>4, RefFacts
    <3> QED
      BY <3>2, <2>4, <1>4, <1>9 DEF SentOK
  <2> QED
    BY <2>2, <2>3, <2>4
<1> QED
  BY <1>1, <1>6, <1>7, <1>8, <1>9

\* What is sent stays right while the tree of a Dropbox account stays what it is.
LEMMA SentStays ==
  ASSUME provider' = provider, provider = "dropbox" => parent' = parent, NEW q, SentOK(q)
  PROVE  SentOK(q)'
<1>1. Spaces' = Spaces /\ Sites' = Sites /\ Mounts' = Mounts
  BY ProviderStays
<1>2. CASE provider = "dropbox"
  BY <1>1, <1>2 DEF SentOK
<1>3. CASE provider # "dropbox"
  BY <1>1, <1>3 DEF SentOK
<1> QED
  BY <1>2, <1>3

LEMMA BrowseSends ==
  ASSUME ~KeepRootType, FoldersInv, BrowseInv, NEW q \in shown, Browse(q)
  PROVE  BrowseInv'
<1>1. /\ provider' = provider /\ parent' = parent /\ BrowseTarget(q) # NoNode
      /\ shown' = shown \cup {Found(q, n) : n \in Children(BrowseTarget(q))}
  BY DEF Browse
<1> SUFFICES ASSUME NEW p \in shown'
             PROVE  SentOK(p)'
  BY DEF BrowseInv
<1>2. SentOK(p)
  <2>1. CASE p \in shown
    BY <2>1 DEF BrowseInv
  <2>2. CASE p \notin shown
    <3>1. PICK n \in Children(BrowseTarget(q)) : p = Found(q, n)
      BY <2>2, <1>1
    <3>2. n \in Nodes /\ parent[n] = BrowseTarget(q) /\ parent[n] # NoNode /\ SentOK(q)
      BY <3>1, <1>1 DEF Children, BrowseInv
    <3> QED
      BY <3>1, <3>2, FoundIsSent
  <2> QED
    BY <2>1, <2>2
<1> QED
  BY <1>1, <1>2, SentStays

LEMMA NextSends ==
  ASSUME "dropbox" \notin Movers, ~KeepRootType, FoldersInv, BrowseInv, [Next]_vars
  PROVE  BrowseInv'
<1>1. ASSUME NEW q \in shown, Browse(q)
      PROVE  BrowseInv'
  BY <1>1, BrowseSends
<1>2. CASE shown' = {}
  BY <1>2 DEF BrowseInv
<1>3. CASE shown' = shown /\ provider' = provider /\ (provider = "dropbox" => parent' = parent)
  BY <1>3, SentStays DEF BrowseInv
<1>4. ASSUME NEW c \in Callers, call[c].at = "asking", shown' = shown
      PROVE  shown' = {}
  BY <1>4, CallerHasAdapter
<1>5. ASSUME NEW c \in Callers, \/ \E n \in New : Created(c, n)
                               \/ Renamed(c) \/ Deleted(c) \/ Refused(c)
      PROVE  shown' = {}
  <2>1. call[c].at = "asking" /\ shown' = shown
    BY <1>5 DEF Created, Renamed, Deleted, Refused
  <2> QED
    BY <2>1, <1>4
<1>6. \/ \E q \in shown : Browse(q)
      \/ shown' = {}
      \/ shown' = shown /\ provider' = provider /\ (provider = "dropbox" => parent' = parent)
  <2>1. ASSUME NEW q \in shown, Open(q)
        PROVE  shown' = {}
    BY <2>1 DEF Open
  <2>2. ASSUME NEW n \in Nodes, NEW p \in Nodes, Move(n, p)
        PROVE  shown' = shown /\ provider' = provider /\ provider # "dropbox"
    BY <2>2 DEF Move
  <2>3. ASSUME \/ \E ref : ListChildren(ref)
               \/ \E c, ref, x : CreateFolder(c, ref, x)
               \/ \E c, e, x : RenameNode(c, e, x)
               \/ \E c, es : DeleteNodes(c, es)
               \/ UNCHANGED vars
        PROVE  shown' = shown /\ provider' = provider /\ parent' = parent
    BY <2>3 DEF ListChildren, CreateFolder, RenameNode, DeleteNodes, vars
  <2> QED
    BY <2>1, <2>2, <2>3, <1>5 DEF Next
<1> QED
  BY <1>1, <1>2, <1>3, <1>6

\* The browser gets the children of the folder it asks for, at any depth and from every
\* provider, although each listing makes its adapter anew: if it does not go on sending
\* the type of the root, and nobody moves folders out of the namespaces of Dropbox.
THEOREM BrowseStaysFaithful ==
  ASSUME "dropbox" \notin Movers, ~KeepRootType
  PROVE  Spec => []BrowseIsFaithful
<1>1. Init => BrowseInv
  BY RootsAreSent
<1>2. FoldersInv /\ BrowseInv /\ [Next]_vars => BrowseInv'
  BY NextSends
<1>3. FoldersInv /\ BrowseInv => BrowseIsFaithful
  <2> SUFFICES ASSUME FoldersInv, BrowseInv, NEW q \in shown, Exists(q.node)
               PROVE  BrowseTarget(q) = q.node
    BY DEF BrowseIsFaithful
  <2>1. provider \in Providers /\ IsTree(parent) /\ FixedOK /\ SentOK(q) /\ parent \in Trees /\ q.node \in Nodes
    BY DEF FoldersInv, BrowseInv, IsTree, SentOK
  <2>2. Home \in Up(parent, q.node)
    BY <2>1, PathIsUp
  <2> QED
    BY <2>1, <2>2, BrowseFinds
<1> QED
  BY <1>1, <1>2, <1>3, FoldersInvariant, PTL DEF Spec

-----------------------------------------------------------------------------
(* The pages that a listing is cut into, for listings and limits of every size. *)

\* The position on the whole listing, folders then files, of each entry of a
\* page.
OnPage(o, l, nF, nL) ==
  FolderPage(o, l, nF) \cup {nF + j : j \in FilePage(o, l, nF, nL)}

\* A clamped offset and limit are ones a page can be cut by.
LEMMA ClampedArguments ==
  ASSUME NEW offset \in Int, NEW limit \in Int
  PROVE  /\ Offset(offset) \in Nat
         /\ Limit(limit) \in Nat \ {0}
         /\ Limit(limit) <= MaxLimit
  BY LimitAssumption DEF Offset, Limit, Lesser

\* The number of folders on a page is the number of positions the page cuts.
LEMMA FolderRange ==
  ASSUME NEW o \in Nat, NEW l \in Nat \ {0}, NEW nF \in Nat
  PROVE  /\ FolderPage(o, l, nF) = IF o < nF THEN o .. o + FolderCount(o, l, nF) - 1 ELSE {}
         /\ FolderCount(o, l, nF) \in 0 .. l
         /\ o + FolderCount(o, l, nF) <= nF \/ FolderCount(o, l, nF) = 0
  BY DEF FolderPage, FolderCount, Cut, Lesser

\* A page is the whole listing from its offset on, as far as the limit goes:
\* the two cuts, one of the folders and one of the files, leave no gap where
\* folders end and files begin, and overlap nowhere.
THEOREM PageIsContiguous ==
  ASSUME NEW o \in Nat, NEW l \in Nat \ {0}, NEW nF \in Nat, NEW nL \in Nat
  PROVE  OnPage(o, l, nF, nL) = {p \in 0 .. nF + nL - 1 : o <= p /\ p < o + l}
<1> DEFINE Want == {p \in 0 .. nF + nL - 1 : o <= p /\ p < o + l}
<1>1. ASSUME NEW p \in Int
      PROVE  p \in FolderPage(o, l, nF) <=> p \in Want /\ p < nF
  BY DEF FolderPage, Cut, Lesser
<1>2. ASSUME NEW j \in Int
      PROVE  j \in FilePage(o, l, nF, nL) <=> j >= 0 /\ nF + j \in Want
  <2>1. CASE o < nF
    BY <2>1 DEF FilePage, FolderCount, Cut, Lesser
  <2>2. CASE o >= nF
    BY <2>2 DEF FilePage, FolderCount, Cut, Lesser
  <2> QED
    BY <2>1, <2>2
<1>3. FolderPage(o, l, nF) \subseteq Int /\ FilePage(o, l, nF, nL) \subseteq Int
  BY DEF FolderPage, FilePage, FolderCount, Cut, Lesser
<1>4. ASSUME NEW p \in OnPage(o, l, nF, nL)
      PROVE  p \in Want
  <2>1. CASE p \in FolderPage(o, l, nF)
    BY <2>1, <1>1, <1>3
  <2>2. CASE p \in {nF + j : j \in FilePage(o, l, nF, nL)}
    BY <2>2, <1>2, <1>3
  <2> QED
    BY <1>4, <2>1, <2>2 DEF OnPage
<1>5. ASSUME NEW p \in Want
      PROVE  p \in OnPage(o, l, nF, nL)
  <2>1. CASE p < nF
    BY <2>1, <1>1 DEF OnPage
  <2>2. CASE p >= nF
    <3>1. p - nF \in Int /\ p - nF >= 0 /\ nF + (p - nF) = p
      BY <2>2
    <3>2. p - nF \in FilePage(o, l, nF, nL)
      BY <3>1, <1>2
    <3> QED
      BY <3>1, <3>2 DEF OnPage
  <2> QED
    BY <2>1, <2>2
<1> QED
  BY <1>4, <1>5

\* The page after one that reports HasMore begins where that one ended, and
\* is not empty; one that does not report it ends the listing.
THEOREM HasMoreIsExact ==
  ASSUME NEW o \in Nat, NEW l \in Nat \ {0}, NEW nF \in Nat, NEW nL \in Nat
  PROVE  HasMore(o, l, nF + nL)
           <=> \E p \in 0 .. nF + nL - 1 : p >= o + l
<1>1. ASSUME HasMore(o, l, nF + nL)
      PROVE  o + l \in 0 .. nF + nL - 1
  BY <1>1 DEF HasMore
<1>2. ASSUME NEW p \in 0 .. nF + nL - 1, p >= o + l
      PROVE  HasMore(o, l, nF + nL)
  BY <1>2 DEF HasMore
<1> QED
  BY <1>1, <1>2
=============================================================================
