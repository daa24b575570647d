----------------------------- MODULE FilesProofs -----------------------------
(***************************************************************************)
(* Proofs about Files, for all callers, trees, paths, sources and numbers  *)
(* of attempts and faults, and for both adapters. First what a path leads  *)
(* to, before and after a change of the tree: Lookup is a recursive        *)
(* function, and all that is used of it is that a path leads to a node     *)
(* exactly along a way from the root (FindIs). Then the invariant, one     *)
(* lemma for each action that keeps it, and the properties.                *)
(***************************************************************************)
EXTENDS Files, SequenceTheorems, WellFoundedInduction, NaturalsInduction, TLAPS

\* A path and the path of the folder it leads into.
LEMMA FrontFacts ==
  ASSUME NEW path \in Seq(Names), path # << >>
  PROVE  /\ Front(path) \in Seq(Names) /\ Last(path) \in Names
         /\ Len(path) \in Nat \ {0} /\ Len(Front(path)) = Len(path) - 1
         /\ Last(path) = path[Len(path)]
         /\ \A i \in 1 .. Len(path) - 1 : Front(path)[i] = path[i]
         /\ path = Append(Front(path), Last(path))
  BY SMTT(30) DEF Front, Last

\* A path that is one name longer.
LEMMA AppendFacts ==
  ASSUME NEW path \in Seq(Names), NEW x \in Names
  PROVE  /\ Append(path, x) \in Seq(Names) /\ Append(path, x) # << >>
         /\ Front(Append(path, x)) = path /\ Last(Append(path, x)) = x
  BY DEF Front, Last

USE FilesAssumption

-----------------------------------------------------------------------------
(* What a path leads to. *)

\* Files' Kids, Child and Lookup, with the tree as arguments: what is found in a tree
\* before a step can so be compared with what is found after it.
KidsIn(par, n) == {m \in Nodes \ {Top} : n # None /\ par[m] = n}
ChildIn(par, nam, n, x) ==
  IF \E m \in KidsIn(par, n) : nam[m] = x
  THEN CHOOSE m \in KidsIn(par, n) : nam[m] = x ELSE None
Find(par, nam, path) ==
  LET node[i \in 0 .. Len(path)] == IF i = 0 THEN Top ELSE ChildIn(par, nam, node[i - 1], path[i])
  IN node[Len(path)]

\* The tree is one: what has a parent is in a folder that is itself attached, under a
\* name of its own.
TreeOK(par, nam) ==
  /\ par \in [Nodes -> Nodes \cup {None}]
  /\ nam \in [Nodes -> Names \cup {""}]
  /\ \A n \in Nodes \ {Top} :
       par[n] # None => /\ IsDir(par[n]) /\ (par[n] = Top \/ par[par[n]] # None)
                        /\ nam[n] \in Names
  /\ \A m, n \in Nodes \ {Top} :
       m # n /\ par[m] = par[n] /\ par[m] # None => nam[m] # nam[n]

\* w is the way from the root down a path.
IsWalk(par, nam, path, w) ==
  /\ w \in [0 .. Len(path) -> Nodes] /\ w[0] = Top
  /\ \A i \in 1 .. Len(path) : w[i] # Top /\ par[w[i]] = w[i - 1] /\ nam[w[i]] = path[i]

\* An empty file is a file.
LEMMA NoData == << >> \in Seq(0 .. SourceLen)
OBVIOUS

\* Lookup is Find in the tree of its state.
LEMMA LookupFinds ==
  ASSUME NEW path
  PROVE  /\ Lookup(path) = Find(parent, name, path)
         /\ Lookup(path)' = Find(parent', name', path)
  BY DEF Lookup, Find, Child, ChildIn, Kids, KidsIn

\* A set of numbers that is not empty has a least one.
LEMMA LeastElement ==
  ASSUME NEW T, T \subseteq Nat, T # {}
  PROVE  \E x \in T : \A y \in T : x <= y
<1> DEFINE R == {ss \in Nat \X Nat : ss[1] < ss[2]}
<1>1. OpToRel(<, Nat) = R
  BY DEF OpToRel
<1>2. IsWellFoundedOn(R, Nat)
  BY <1>1, NatLessThanWellFounded
<1>3. PICK x \in T : \A y \in T : ~ (<<y, x>> \in R)
  <2> HIDE DEF R
  <2> QED
    BY <1>2, WFMin
<1>4. ASSUME NEW y \in T, y < x PROVE FALSE
  <2>1. <<y, x>> \in Nat \X Nat
    OBVIOUS
  <2>2. <<y, x>>[1] < <<y, x>>[2]
    BY <1>4
  <2> QED
    BY <1>3, <2>1, <2>2
<1> QED
  BY <1>4

\* Find follows a path name by name: along any path there is a function that obeys its
\* recursive definition. If there were none for some length there would be a least
\* such length, and the function for the length before it could be continued.
LEMMA FindUnfolds ==
  ASSUME NEW par, NEW nam, NEW path \in Seq(Names)
  PROVE  \E node : /\ node = [i \in 0 .. Len(path) |->
                                IF i = 0 THEN Top ELSE ChildIn(par, nam, node[i - 1], path[i])]
                   /\ Find(par, nam, path) = node[Len(path)]
<1> DEFINE Along(g, i) == IF i = 0 THEN Top ELSE ChildIn(par, nam, g[i - 1], path[i])
           IsUpTo(g, k) == g = [i \in 0 .. k |-> Along(g, i)]
           Bad == {k \in Nat : ~ \E g : IsUpTo(g, k)}
<1>1. Bad = {}
  <2> SUFFICES ASSUME Bad # {}
               PROVE  FALSE
    OBVIOUS
  <2>1. PICK k \in Bad : \A j \in Bad : k <= j
    BY LeastElement
  <2>2. CASE k = 0
    <3> DEFINE g == [i \in 0 .. 0 |-> Top]
    <3>1. g = [i \in 0 .. 0 |-> Along(g, i)]
      OBVIOUS
    <3> QED
      BY <2>1, <2>2, <3>1
  <2>3. CASE k # 0
    <3>1. k \in Nat /\ k - 1 \in Nat /\ k - 1 \notin Bad
      <4> HIDE DEF IsUpTo
      <4> QED
        BY <2>1, <2>3
    <3>2. PICK g : IsUpTo(g, k - 1)
      <4> HIDE DEF IsUpTo
      <4> QED
        BY <3>1
    <3> DEFINE h == [i \in 0 .. k |-> Along(g, i)]
    <3>3. ASSUME NEW i \in 0 .. k
          PROVE  Along(h, i) = Along(g, i)
      <4>1. CASE i = 0
        BY <4>1
      <4>2. CASE i # 0
        <5>1. i - 1 \in 0 .. k - 1 /\ i - 1 \in 0 .. k
          BY <3>1, <4>2
        <5>2. h[i - 1] = Along(g, i - 1) /\ g[i - 1] = Along(g, i - 1)
          <6> HIDE DEF Along
          <6> QED
            BY <5>1, <3>2
        <5> HIDE DEF h
        <5> QED
          BY <5>2, <4>2
      <4> QED
        BY <4>1, <4>2
    <3>4. h = [i \in 0 .. k |-> Along(h, i)]
      <4> HIDE DEF Along
      <4> QED
        BY <3>3
    <3>5. IsUpTo(h, k)
      BY <3>4
    <3> HIDE DEF h, IsUpTo
    <3> QED
      BY <2>1, <3>5
  <2> QED
    BY <2>2, <2>3
<1>2. PICK g : IsUpTo(g, Len(path))
  <2>1. Len(path) \in Nat
    OBVIOUS
  <2> HIDE DEF IsUpTo
  <2> QED
    BY <1>1, <2>1
<1> DEFINE node == CHOOSE f : IsUpTo(f, Len(path))
<1>3. IsUpTo(node, Len(path))
  <2> HIDE DEF IsUpTo
  <2> QED
    BY <1>2
<1>4. Find(par, nam, path) = node[Len(path)]
  BY DEF Find
<1> HIDE DEF node
<1> QED
  BY <1>3, <1>4
\* In a folder a name leads to the one node of that name.
LEMMA ChildFacts ==
  ASSUME NEW par, NEW nam, TreeOK(par, nam)
  PROVE  /\ \A n, x : ChildIn(par, nam, n, x) \in (Nodes \ {Top}) \cup {None}
         /\ \A n, x : \A m \in Nodes \ {Top} :
                n # None /\ par[m] = n /\ nam[m] = x => ChildIn(par, nam, n, x) = m
         /\ \A n, x : ChildIn(par, nam, n, x) # None =>
                n # None /\ par[ChildIn(par, nam, n, x)] = n /\ nam[ChildIn(par, nam, n, x)] = x
<1>1. None \notin Nodes
  BY DEF FilesAssumption
<1>2. ASSUME NEW n, NEW x, \E m \in KidsIn(par, n) : nam[m] = x
      PROVE  /\ ChildIn(par, nam, n, x) \in KidsIn(par, n)
             /\ nam[ChildIn(par, nam, n, x)] = x
  BY <1>2 DEF ChildIn
<1>3. ASSUME NEW n, NEW x
      PROVE  /\ ChildIn(par, nam, n, x) \in (Nodes \ {Top}) \cup {None}
             /\ ChildIn(par, nam, n, x) # None =>
                n # None /\ par[ChildIn(par, nam, n, x)] = n /\ nam[ChildIn(par, nam, n, x)] = x
  <2>1. CASE \E m \in KidsIn(par, n) : nam[m] = x
    BY <1>2, <2>1 DEF KidsIn
  <2>2. CASE ~ \E m \in KidsIn(par, n) : nam[m] = x
    BY <2>2 DEF ChildIn
  <2> QED
    BY <2>1, <2>2
<1>4. ASSUME NEW n, NEW x, NEW m \in Nodes \ {Top}, n # None, par[m] = n, nam[m] = x
      PROVE  ChildIn(par, nam, n, x) = m
  <2>1. m \in KidsIn(par, n)
    BY <1>4 DEF KidsIn
  <2>2. ChildIn(par, nam, n, x) \in KidsIn(par, n) /\ nam[ChildIn(par, nam, n, x)] = x
    BY <1>2, <1>4, <2>1
  <2> QED
    BY <1>4, <2>1, <2>2 DEF KidsIn, TreeOK
<1> QED
  BY <1>3, <1>4

\* A path leads to a node exactly along a way from the root.
LEMMA FindWalks ==
  ASSUME NEW par, NEW nam, TreeOK(par, nam), NEW path \in Seq(Names)
  PROVE  /\ Find(par, nam, path) \in Nodes \cup {None}
         /\ \A w : IsWalk(par, nam, path, w) => Find(par, nam, path) = w[Len(path)]
         /\ Find(par, nam, path) # None =>
              \E w : IsWalk(par, nam, path, w) /\ w[Len(path)] = Find(par, nam, path)
<1> DEFINE k == Len(path)
<1>0. k \in Nat /\ None \notin Nodes /\ Top \in Nodes
  BY DEF FilesAssumption, Nodes
<1>1. PICK node : /\ node = [i \in 0 .. k |-> IF i = 0 THEN Top ELSE ChildIn(par, nam, node[i - 1], path[i])]
                  /\ Find(par, nam, path) = node[k]
  BY FindUnfolds
<1> DEFINE N == Nodes \cup {None}
<1>2. /\ node \in [0 .. k -> N] /\ node[0] = Top
      /\ \A i \in 1 .. k : /\ node[i] = ChildIn(par, nam, node[i - 1], path[i])
                            /\ node[i] \in (Nodes \ {Top}) \cup {None}
  <2>1. \A i \in 0 .. k : node[i] = IF i = 0 THEN Top ELSE ChildIn(par, nam, node[i - 1], path[i])
    BY <1>1, Zenon
  <2>2. DOMAIN node = 0 .. k
    BY <1>1, Zenon
  <2>3. \A i \in 1 .. k : /\ node[i] = ChildIn(par, nam, node[i - 1], path[i])
                            /\ node[i] \in (Nodes \ {Top}) \cup {None}
    BY <2>1, ChildFacts
  <2>4. 0 \in 0 .. k
    BY <1>0
  <2>5. node[0] = Top
    BY <2>1, <2>4
  <2>6. \A i \in 0 .. k : node[i] \in N
    BY <2>3, <2>5, <1>0
  <2>7. node = [i \in 0 .. k |-> node[i]]
    BY <1>1, Zenon
  <2> QED
    BY <2>3, <2>5, <2>6, <2>7, Zenon
<1>3. ASSUME NEW w, IsWalk(par, nam, path, w)
      PROVE  node[k] = w[k]
  <2> DEFINE Off == {i \in Nat : i <= k /\ node[i] # w[i]}
  <2>1. Off = {}
    <3> SUFFICES ASSUME Off # {}
                 PROVE  FALSE
      OBVIOUS
    <3>1. PICK i \in Off : \A j \in Off : i <= j
      BY LeastElement
    <3>2. CASE i = 0
      BY <3>1, <3>2, <1>2, <1>3 DEF IsWalk
    <3>3. CASE i # 0
      <4>1. i \in 1 .. k /\ i - 1 \in 0 .. k /\ node[i - 1] = w[i - 1]
        BY <3>1, <3>3, <1>0
      <4>2. w[i] \in Nodes \ {Top} /\ w[i - 1] \in Nodes /\ par[w[i]] = w[i - 1] /\ nam[w[i]] = path[i]
        BY <4>1, <1>3, <1>0, SMTT(30) DEF IsWalk
      <4>3. w[i - 1] # None
        BY <4>2, <1>0
      <4>4. ChildIn(par, nam, w[i - 1], path[i]) = w[i]
        BY <4>2, <4>3, ChildFacts
      <4> QED
        BY <3>1, <4>1, <4>4, <1>2
    <3> QED
      BY <3>2, <3>3
  <2> QED
    BY <2>1, <1>0
<1>4. ASSUME node[k] # None
      PROVE  IsWalk(par, nam, path, node)
  <2>1. ASSUME NEW i \in 0 .. k
        PROVE  node[i] # None
    <3> SUFFICES ASSUME node[i] = None
                 PROVE  FALSE
      OBVIOUS
    <3> DEFINE On == {j \in Nat : i <= j /\ j <= k /\ node[j] # None}
    <3>1. k \in On
      BY <1>0, <1>4
    <3>2. PICK j \in On : \A m \in On : j <= m
      BY <3>1, LeastElement
    <3>3. j # i /\ j \in 1 .. k /\ j - 1 \in Nat /\ i <= j - 1 /\ j - 1 <= k
      BY <3>2
    <3>4. node[j - 1] = None
      BY <3>2, <3>3
    <3> QED
      BY <3>2, <3>3, <3>4, <1>2, ChildFacts
  <2>2. \A i \in 0 .. k : node[i] \in Nodes
    BY <2>1, <1>2
  <2>3. node \in [0 .. k -> Nodes]
    BY <2>2, <1>2
  <2>4. \A i \in 1 .. k : node[i] # Top /\ par[node[i]] = node[i - 1] /\ nam[node[i]] = path[i]
    <3> TAKE i \in 1 .. k
    <3>1. node[i] # None /\ node[i] # Top /\ node[i] = ChildIn(par, nam, node[i - 1], path[i])
      BY <2>1, <1>2
    <3> QED
      BY <3>1, ChildFacts
  <2> QED
    BY <2>3, <2>4, <1>2 DEF IsWalk
<1>5. Find(par, nam, path) \in Nodes \cup {None}
  <2>1. k \in 0 .. k
    BY <1>0
  <2> QED
    BY <2>1, <1>1, <1>2
<1> QED
  BY <1>1, <1>3, <1>4, <1>5

\* A way from the root to n along path.
Leads(par, nam, path, n) == \E w : IsWalk(par, nam, path, w) /\ w[Len(path)] = n

\* A path leads to n exactly if there is a way from the root to n along it.
LEMMA FindIs ==
  ASSUME NEW par, NEW nam, TreeOK(par, nam), NEW path \in Seq(Names), NEW n \in Nodes
  PROVE  Find(par, nam, path) = n <=> Leads(par, nam, path, n)
<1>1. n # None
  BY DEF FilesAssumption
<1> QED
  BY <1>1, FindWalks DEF Leads

\* The last step of a path.
LEMMA FindStep ==
  ASSUME NEW par, NEW nam, TreeOK(par, nam), NEW path \in Seq(Names), path # << >>
  PROVE  /\ Find(par, nam, path) # None =>
              /\ Find(par, nam, path) \in Nodes \ {Top}
              /\ Find(par, nam, Front(path)) \in Nodes
              /\ par[Find(par, nam, path)] = Find(par, nam, Front(path))
              /\ nam[Find(par, nam, path)] = Last(path)
         /\ \A m \in Nodes \ {Top} :
              Find(par, nam, Front(path)) # None /\ par[m] = Find(par, nam, Front(path)) /\ nam[m] = Last(path)
                => Find(par, nam, path) = m
<1> DEFINE k == Len(path)
           n == Find(par, nam, path)
           d == Find(par, nam, Front(path))
<1>0. k \in Nat \ {0} /\ Len(Front(path)) = k - 1 /\ Front(path) \in Seq(Names) /\ None \notin Nodes
  BY FrontFacts DEF FilesAssumption
<1>1. ASSUME n # None
      PROVE  n \in Nodes \ {Top} /\ d \in Nodes /\ par[n] = d /\ nam[n] = Last(path)
  <2>1. PICK w : IsWalk(par, nam, path, w) /\ w[k] = n
    BY <1>1, FindWalks
  <2> DEFINE v == [i \in 0 .. k - 1 |-> w[i]]
  <2>2. \A i \in 0 .. k : w[i] \in Nodes
    BY <2>1 DEF IsWalk
  <2>3. v \in [0 .. k - 1 -> Nodes] /\ \A i \in 0 .. k - 1 : v[i] = w[i]
    <3>1. 0 .. k - 1 \subseteq 0 .. k
      BY <1>0
    <3> QED
      BY <2>2, <3>1
  <2> HIDE DEF v
  <2>4. \A i \in 1 .. k - 1 : v[i] # Top /\ par[v[i]] = v[i - 1] /\ nam[v[i]] = Front(path)[i]
    <3> TAKE i \in 1 .. k - 1
    <3>1. i \in 1 .. k /\ i \in 0 .. k - 1 /\ i - 1 \in 0 .. k - 1
      BY <1>0
    <3>2. v[i] = w[i] /\ v[i - 1] = w[i - 1] /\ Front(path)[i] = path[i]
      BY <3>1, <2>3, FrontFacts
    <3> QED
      BY <2>1, <3>1, <3>2 DEF IsWalk
  <2>5. v[0] = Top
    BY <1>0, <2>1, <2>3 DEF IsWalk
  <2>6. IsWalk(par, nam, Front(path), v)
    BY <1>0, <2>3, <2>4, <2>5 DEF IsWalk
  <2>7. d = w[k - 1]
    <3>1. d = v[k - 1]
      BY <2>6, <1>0, FindWalks
    <3> QED
      BY <3>1, <2>3, <1>0
  <2>8. k \in 1 .. k
    BY <1>0
  <2>9. w[k] # Top /\ par[w[k]] = w[k - 1] /\ nam[w[k]] = path[k]
    BY <2>1, <2>8 DEF IsWalk
  <2>10. w[k - 1] \in Nodes /\ w[k] \in Nodes
    BY <1>0, <2>2
  <2> QED
    BY <2>1, <2>7, <2>9, <2>10, FrontFacts
<1>2. ASSUME NEW m \in Nodes \ {Top}, d # None, par[m] = d, nam[m] = Last(path)
      PROVE  n = m
  <2>1. PICK w : IsWalk(par, nam, Front(path), w) /\ w[k - 1] = d
    BY <1>0, <1>2, FindWalks
  <2> DEFINE v == [i \in 0 .. k |-> IF i = k THEN m ELSE w[i]]
  <2>2. \A i \in 0 .. k - 1 : w[i] \in Nodes
    BY <2>1, <1>0 DEF IsWalk
  <2>3. /\ v \in [0 .. k -> Nodes] /\ v[k] = m
        /\ \A i \in 0 .. k - 1 : v[i] = w[i]
    <3>1. \A i \in 0 .. k : i = k \/ i \in 0 .. k - 1
      BY <1>0
    <3>2. k \in 0 .. k /\ k \notin 0 .. k - 1 /\ 0 .. k - 1 \subseteq 0 .. k
      BY <1>0
    <3> QED
      BY <2>2, <3>1, <3>2
  <2> HIDE DEF v
  <2>4. \A i \in 1 .. k : v[i] # Top /\ par[v[i]] = v[i - 1] /\ nam[v[i]] = path[i]
    <3> TAKE i \in 1 .. k
    <3>1. CASE i = k
      <4>1. v[k - 1] = w[k - 1]
        BY <1>0, <2>3
      <4> QED
        BY <3>1, <4>1, <2>1, <2>3, <1>2, FrontFacts
    <3>2. CASE i # k
      <4>1. i \in 1 .. k - 1 /\ i \in 0 .. k - 1 /\ i - 1 \in 0 .. k - 1
        BY <3>2, <1>0
      <4>2. v[i] = w[i] /\ v[i - 1] = w[i - 1] /\ Front(path)[i] = path[i]
        BY <4>1, <2>3, FrontFacts
      <4>3. w[i] # Top /\ par[w[i]] = w[i - 1] /\ nam[w[i]] = Front(path)[i]
        BY <4>1, <2>1, <1>0 DEF IsWalk
      <4> QED
        BY <4>2, <4>3
    <3> QED
      BY <3>1, <3>2
  <2>5. v[0] = Top
    BY <1>0, <2>1, <2>3 DEF IsWalk
  <2>6. IsWalk(par, nam, path, v)
    BY <2>3, <2>4, <2>5 DEF IsWalk
  <2> QED
    BY <2>6, <2>3, FindWalks
<1> QED
  BY <1>1, <1>2

\* A node of the folder that a path leads into is found by its name.
LEMMA FindChild ==
  ASSUME NEW par, NEW nam, TreeOK(par, nam), NEW path \in Seq(Names), path # << >>,
         NEW m \in Nodes \ {Top}, Find(par, nam, Front(path)) # None,
         par[m] = Find(par, nam, Front(path)), nam[m] = Last(path)
  PROVE  Find(par, nam, path) = m
  BY FindStep

\* On its way from the root a path passes the root and what is attached.
LEMMA WayIsAttached ==
  ASSUME NEW par, NEW nam, TreeOK(par, nam), NEW path \in Seq(Names), NEW w,
         IsWalk(par, nam, path, w)
  PROVE  \A i \in 0 .. Len(path) : w[i] \in Nodes /\ (w[i] = Top \/ par[w[i]] # None)
<1> TAKE i \in 0 .. Len(path)
<1>1. CASE i = 0
  BY <1>1 DEF IsWalk
<1>2. CASE i # 0
  <2>1. i \in 1 .. Len(path) /\ i - 1 \in 0 .. Len(path)
    BY <1>2
  <2>2. par[w[i]] = w[i - 1] /\ w[i - 1] \in Nodes /\ w[i] \in Nodes
    BY <2>1 DEF IsWalk
  <2> QED
    BY <2>2 DEF FilesAssumption
<1> QED
  BY <1>1, <1>2

\* Make, on trees as arguments: n becomes the node at path.
Makes(par, nam, n, path, par2, nam2) ==
  /\ par2 = [par EXCEPT ![n] = Find(par, nam, Front(path))]
  /\ nam2 = [nam EXCEPT ![n] = Last(path)]

\* A new node under the path it was made for: that path leads to it, and no other
\* path is led astray.
LEMMA MakeFinds ==
  ASSUME NEW par, NEW nam, TreeOK(par, nam), NEW path \in Seq(Names), path # << >>,
         NEW n \in Nodes \ {Top}, par[n] = None,
         IsDir(Find(par, nam, Front(path))), Find(par, nam, path) = None,
         NEW par2, NEW nam2, Makes(par, nam, n, path, par2, nam2)
  PROVE  /\ TreeOK(par2, nam2)
         /\ Find(par2, nam2, path) = n
         /\ \A q \in Seq(Names) : Find(par, nam, q) # None => Find(par2, nam2, q) = Find(par, nam, q)
         /\ \A q \in Seq(Names) : Find(par2, nam2, q) # n => Find(par2, nam2, q) = Find(par, nam, q)
<1> DEFINE d == Find(par, nam, Front(path))
<1>0. /\ None \notin Nodes /\ d \in Nodes /\ Front(path) \in Seq(Names) /\ Last(path) \in Names
      /\ {Top} \cup Dirs \subseteq Nodes
  BY FrontFacts DEF IsDir, FilesAssumption, Nodes
<1>1. /\ par2 \in [Nodes -> Nodes \cup {None}] /\ nam2 \in [Nodes -> Names \cup {""}]
      /\ par2[n] = d /\ nam2[n] = Last(path)
      /\ \A m \in Nodes \ {n} : par2[m] = par[m] /\ nam2[m] = nam[m]
  BY <1>0 DEF TreeOK, Makes
<1>2. \A m \in Nodes \ {Top} : par[m] # n
  BY <1>0 DEF TreeOK, FilesAssumption
<1>3. d = Top \/ par[d] # None
  <2>1. PICK w : IsWalk(par, nam, Front(path), w) /\ w[Len(Front(path))] = d
    BY <1>0, FindWalks
  <2>2. Len(Front(path)) \in 0 .. Len(Front(path))
    BY <1>0
  <2>3. w[Len(Front(path))] = Top \/ par[w[Len(Front(path))]] # None
    BY <2>1, <2>2, <1>0, WayIsAttached
  <2> QED
    BY <2>1, <2>3
<1>4. \A m \in Nodes \ {Top} : par[m] = d => nam[m] # Last(path)
  <2> SUFFICES ASSUME NEW m \in Nodes \ {Top}, par[m] = d, nam[m] = Last(path)
               PROVE  FALSE
    OBVIOUS
  <2>1. Find(par, nam, path) = m
    BY <1>0, FindStep
  <2> QED
    BY <2>1, <1>0
<1>5. TreeOK(par2, nam2)
  <2>1. d # n
    BY <1>3, <1>0
  <2>2. ASSUME NEW m \in Nodes \ {Top}, par2[m] # None
        PROVE  /\ IsDir(par2[m]) /\ (par2[m] = Top \/ par2[par2[m]] # None)
               /\ nam2[m] \in Names
    <3>1. CASE m = n
      BY <3>1, <2>1, <1>1, <1>3, <1>0
    <3>2. CASE m # n
      <4>1. par2[m] = par[m] /\ nam2[m] = nam[m] /\ par[m] # n /\ par[m] \in Nodes
        BY <3>2, <2>2, <1>1, <1>2 DEF TreeOK
      <4>2. IsDir(par[m]) /\ (par[m] = Top \/ par[par[m]] # None) /\ nam[m] \in Names
        BY <4>1, <2>2 DEF TreeOK
      <4>3. par2[par[m]] = par[par[m]]
        BY <4>1, <1>1
      <4> QED
        BY <4>1, <4>2, <4>3
    <3> QED
      BY <3>1, <3>2
  <2>3. ASSUME NEW m1 \in Nodes \ {Top}, NEW m2 \in Nodes \ {Top},
               m1 # m2, par2[m1] = par2[m2], par2[m1] # None
        PROVE  nam2[m1] # nam2[m2]
    <3>1. CASE m1 = n
      BY <3>1, <2>3, <1>1, <1>4
    <3>2. CASE m2 = n
      BY <3>2, <2>3, <1>1, <1>4
    <3>3. CASE m1 # n /\ m2 # n
      <4>1. par2[m1] = par[m1] /\ par2[m2] = par[m2] /\ nam2[m1] = nam[m1] /\ nam2[m2] = nam[m2]
        BY <3>3, <1>1
      <4>2. par[m1] = par[m2] /\ par[m1] # None
        BY <4>1, <2>3
      <4>3. nam[m1] # nam[m2]
        BY <4>2, <2>3 DEF TreeOK
      <4> QED
        BY <4>1, <4>3
    <3> QED
      BY <3>1, <3>2, <3>3
  <2> QED
    BY <2>2, <2>3, <1>1 DEF TreeOK
<1>6. ASSUME NEW q \in Seq(Names), Find(par, nam, q) # None
      PROVE  Find(par2, nam2, q) = Find(par, nam, q)
  <2>1. PICK w : IsWalk(par, nam, q, w) /\ w[Len(q)] = Find(par, nam, q)
    BY <1>6, FindWalks
  <2>2. \A i \in 1 .. Len(q) : w[i] \in Nodes /\ w[i] # n
    <3> TAKE i \in 1 .. Len(q)
    <3>1. i \in 0 .. Len(q) /\ w[i] # Top
      BY <2>1 DEF IsWalk
    <3> QED
      BY <3>1, <2>1, WayIsAttached
  <2>3. IsWalk(par2, nam2, q, w)
    BY <2>1, <2>2, <1>1 DEF IsWalk
  <2> QED
    BY <2>1, <2>3, <1>5, FindWalks
<1>7. Find(par2, nam2, path) = n
  <2>1. Find(par2, nam2, Front(path)) = d
    BY <1>0, <1>6
  <2> QED
    <3> HIDE DEF d
    <3>1. d # None /\ par2[n] = Find(par2, nam2, Front(path)) /\ nam2[n] = Last(path)
      BY <2>1, <1>0, <1>1
    <3>2. Find(par2, nam2, Front(path)) # None
      BY <2>1, <3>1
    <3> QED
      BY <3>1, <3>2, <1>5, FindChild
<1>8. ASSUME NEW q \in Seq(Names), Find(par2, nam2, q) # n
      PROVE  Find(par2, nam2, q) = Find(par, nam, q)
  <2>1. CASE Find(par2, nam2, q) = None
    BY <2>1, <1>6
  <2>2. CASE Find(par2, nam2, q) # None
    <3>1. PICK w : IsWalk(par2, nam2, q, w) /\ w[Len(q)] = Find(par2, nam2, q)
      BY <2>2, <1>5, FindWalks
    <3>2. ASSUME NEW i \in 1 .. Len(q), w[i] = n
          PROVE  FALSE
      <4>1. i # Len(q)
        BY <3>1, <3>2, <1>8
      <4>2. i + 1 \in 1 .. Len(q) /\ i + 1 \in 0 .. Len(q)
        BY <4>1
      <4>3. w[i + 1] # Top /\ w[i + 1] \in Nodes /\ par2[w[i + 1]] = w[(i + 1) - 1]
        BY <3>1, <4>2 DEF IsWalk
      <4>4. (i + 1) - 1 = i
        OBVIOUS
      <4>5. par2[w[i + 1]] = n
        BY <4>3, <4>4, <3>2
      <4>6. d # n
        BY <1>3, <1>0
      <4> QED
        BY <4>3, <4>5, <4>6, <1>1, <1>2
    <3>3. \A i \in 1 .. Len(q) : w[i] \in Nodes /\ w[i] # n
      <4> TAKE i \in 1 .. Len(q)
      <4>1. i \in 0 .. Len(q)
        OBVIOUS
      <4>2. w[i] \in Nodes
        BY <4>1, <3>1 DEF IsWalk
      <4> QED
        BY <4>2, <3>2
    <3>4. IsWalk(par, nam, q, w)
      BY <3>1, <3>3, <1>1 DEF IsWalk
    <3> QED
      BY <3>1, <3>4, FindWalks
  <2> QED
    BY <2>1, <2>2
<1> QED
  BY <1>5, <1>6, <1>7, <1>8

-----------------------------------------------------------------------------
(* What a removal and a rename change of it. *)

\* A way from the root passes no node twice.
LEMMA WaysDoNotReturn ==
  ASSUME NEW par, NEW nam, NEW path \in Seq(Names), NEW w, IsWalk(par, nam, path, w),
         NEW i \in 0 .. Len(path), NEW j \in 0 .. Len(path), i < j
  PROVE  w[i] # w[j]
<1> DEFINE k == Len(path)
           Again2 == {a \in Nat : \E b \in 0 .. k : a < b /\ w[a] = w[b]}
<1>0. k \in Nat
  OBVIOUS
<1>1. Again2 = {}
  <2> SUFFICES ASSUME Again2 # {}
               PROVE  FALSE
    OBVIOUS
  <2>1. PICK a \in Again2 : \A c \in Again2 : a <= c
    BY LeastElement
  <2>2. PICK b \in 0 .. k : a < b /\ w[a] = w[b]
    BY <2>1
  <2>3. b \in 1 .. k /\ b - 1 \in 0 .. k /\ a \in Nat
    BY <2>1, <2>2
  <2>4. w[b] # Top /\ par[w[b]] = w[b - 1]
    BY <2>3 DEF IsWalk
  <2>5. CASE a = 0
    BY <2>2, <2>4, <2>5 DEF IsWalk
  <2>6. CASE a # 0
    <3>1. a \in 1 .. k /\ a - 1 \in Nat /\ a - 1 < b - 1
      BY <2>2, <2>3, <2>6
    <3>2. par[w[a]] = w[a - 1]
      BY <3>1 DEF IsWalk
    <3>3. w[a - 1] = w[b - 1]
      BY <3>2, <2>2, <2>4
    <3>4. a - 1 \in Again2
      BY <3>1, <3>3, <2>3
    <3>5. a <= a - 1
      BY <3>4, <2>1
    <3> QED
      BY <3>1, <3>5
  <2> QED
    BY <2>5, <2>6
<1> QED
  BY <1>1, <1>0

\* Nothing is below n.
Leaf(par, n) == \A m \in Nodes \ {Top} : par[m] # n

\* Unlink, on trees as arguments.
Unlinks(par, nam, n, par2, nam2) ==
  /\ par2 \in [Nodes -> Nodes \cup {None}] /\ nam2 \in [Nodes -> Names \cup {""}]
  /\ par2[n] = None
  /\ \A m \in Nodes \ {n} : par2[m] = par[m] /\ nam2[m] = nam[m]

\* The effect of Rename, on trees as arguments: n takes the name to, and m is gone.
Renames(par, nam, n, m, to, par2, nam2) ==
  /\ par2 \in [Nodes -> Nodes \cup {None}] /\ nam2 \in [Nodes -> Names \cup {""}]
  /\ \A x \in Nodes : par2[x] = IF x = m THEN None ELSE par[x]
  /\ \A x \in Nodes : x # m => nam2[x] = IF x = n THEN to ELSE nam[x]

\* When a node is removed that has nothing below it, the path to it leads nowhere
\* and no other path leads elsewhere.
LEMMA UnlinkFinds ==
  ASSUME NEW par, NEW nam, TreeOK(par, nam),
         NEW n \in Nodes \ {Top}, Leaf(par, n), NEW par2, NEW nam2, Unlinks(par, nam, n, par2, nam2)
  PROVE  /\ TreeOK(par2, nam2)
         /\ \A q \in Seq(Names) : Find(par, nam, q) = n => Find(par2, nam2, q) = None
<1>0. None \notin Nodes /\ {Top} \cup Dirs \subseteq Nodes
  BY DEF FilesAssumption, Nodes
<1>1. /\ par2 \in [Nodes -> Nodes \cup {None}] /\ nam2 \in [Nodes -> Names \cup {""}]
      /\ par2[n] = None /\ \A m \in Nodes \ {n} : par2[m] = par[m] /\ nam2[m] = nam[m]
  BY DEF Unlinks
<1>2. TreeOK(par2, nam2)
  <2>1. ASSUME NEW m \in Nodes \ {Top}, par2[m] # None
        PROVE  /\ IsDir(par2[m]) /\ (par2[m] = Top \/ par2[par2[m]] # None)
               /\ nam2[m] \in Names
    <3>1. m # n /\ par2[m] = par[m] /\ nam2[m] = nam[m]
      BY <2>1, <1>1
    <3>2. IsDir(par[m]) /\ (par[m] = Top \/ par[par[m]] # None) /\ nam[m] \in Names /\ par[m] \in Nodes
      BY <3>1, <2>1 DEF TreeOK
    <3>3. par[m] # n
      BY DEF Leaf
    <3>4. par2[par[m]] = par[par[m]]
      BY <3>2, <3>3, <1>1
    <3> QED
      BY <3>1, <3>2, <3>4
  <2>2. ASSUME NEW m1 \in Nodes \ {Top}, NEW m2 \in Nodes \ {Top},
               m1 # m2, par2[m1] = par2[m2], par2[m1] # None
        PROVE  nam2[m1] # nam2[m2]
    <3>1. m1 # n /\ m2 # n
      BY <2>2, <1>1
    <3>2. par2[m1] = par[m1] /\ par2[m2] = par[m2] /\ nam2[m1] = nam[m1] /\ nam2[m2] = nam[m2]
      BY <3>1, <1>1
    <3>3. par[m1] = par[m2] /\ par[m1] # None
      BY <3>2, <2>2
    <3>4. nam[m1] # nam[m2]
      BY <3>3, <2>2 DEF TreeOK
    <3> QED
      BY <3>2, <3>4
  <2> QED
    BY <2>1, <2>2, <1>1 DEF TreeOK
<1>3. ASSUME NEW q \in Seq(Names), Find(par, nam, q) = n, Find(par2, nam2, q) # None
      PROVE  FALSE
  <2>1. PICK w : IsWalk(par2, nam2, q, w) /\ w[Len(q)] = Find(par2, nam2, q)
    BY <1>2, <1>3, FindWalks
  <2>2. \A i \in 0 .. Len(q) : w[i] \in Nodes /\ w[i] # n
    <3>1. \A i \in 0 .. Len(q) : w[i] \in Nodes /\ (w[i] = Top \/ par2[w[i]] # None)
      BY <2>1, <1>2, WayIsAttached
    <3> QED
      BY <3>1, <1>1
  <2>3. \A i \in 1 .. Len(q) : w[i] \in Nodes /\ w[i] # n
    <3> TAKE i \in 1 .. Len(q)
    <3>1. i \in 0 .. Len(q)
      OBVIOUS
    <3> QED
      BY <3>1, <2>2
  <2>4. IsWalk(par, nam, q, w)
    BY <2>1, <2>3, <1>1 DEF IsWalk
  <2>5. w[Len(q)] = n
    BY <2>4, <1>3, FindWalks
  <2>6. Len(q) \in 0 .. Len(q)
    OBVIOUS
  <2> QED
    BY <2>2, <2>5, <2>6
<1> QED
  BY <1>2, <1>3

\* A node is given another name in its folder, where what had that name, and
\* nothing below it, is replaced.
LEMMA RenameFinds ==
  ASSUME NEW par, NEW nam, TreeOK(par, nam),
         NEW path \in Seq(Names), path # << >>, NEW to \in Names, to # Last(path),
         NEW n \in Nodes, n = Find(par, nam, path),
         NEW m, m = Find(par, nam, Append(Front(path), to)),
         m = None \/ Leaf(par, m), NEW par2, NEW nam2, Renames(par, nam, n, m, to, par2, nam2)
  PROVE  /\ TreeOK(par2, nam2)
         /\ Find(par2, nam2, path) = None
         /\ Find(par2, nam2, Append(Front(path), to)) = n
<1> DEFINE d == Find(par, nam, Front(path))
           k == Len(path)
<1>0. /\ None \notin Nodes /\ {Top} \cup Dirs \subseteq Nodes
      /\ Front(path) \in Seq(Names) /\ Last(path) \in Names /\ Append(Front(path), to) \in Seq(Names)
      /\ k \in Nat \ {0} /\ Len(Front(path)) = k - 1
      /\ Append(Front(path), to) # << >>
      /\ Front(Append(Front(path), to)) = Front(path) /\ Last(Append(Front(path), to)) = to
  BY FrontFacts, AppendFacts DEF FilesAssumption, Nodes
<1>1. n \in Nodes \ {Top} /\ d \in Nodes /\ par[n] = d /\ nam[n] = Last(path)
  BY <1>0, FindStep
<1>2. m # None => m \in Nodes \ {Top} /\ par[m] = d /\ nam[m] = to
  <2> DEFINE q == Append(Front(path), to)
  <2>1. q \in Seq(Names) /\ q # << >> /\ Front(q) = Front(path) /\ Last(q) = to
        /\ m = Find(par, nam, q)
    BY <1>0
  <2> HIDE DEF q
  <2> QED
    BY <2>1, FindStep
<1>3. m # n /\ \A x \in Nodes \ {Top} : par[x] # None => par[x] # m
  BY <1>1, <1>2 DEF Leaf
<1>4. \A x \in Nodes \ {Top} : par[x] = d /\ nam[x] = to => x = m
  <2> SUFFICES ASSUME NEW x \in Nodes \ {Top}, par[x] = d, nam[x] = to
               PROVE  x = m
    OBVIOUS
  <2>1. par[x] = Find(par, nam, Front(Append(Front(path), to))) /\ nam[x] = Last(Append(Front(path), to))
        /\ Find(par, nam, Front(Append(Front(path), to))) # None
    BY <1>0, <1>1
  <2> QED
    BY <2>1, <1>0, FindChild
<1>5. /\ par2 \in [Nodes -> Nodes \cup {None}] /\ nam2 \in [Nodes -> Names \cup {""}]
      /\ \A x \in Nodes : x = m => par2[x] = None
      /\ par2[n] = d /\ nam2[n] = to
      /\ \A x \in Nodes : x # m => par2[x] = par[x]
      /\ \A x \in Nodes : x # m /\ x # n => nam2[x] = nam[x]
  BY <1>1, <1>3 DEF Renames
<1> HIDE DEF d
<1>6. TreeOK(par2, nam2)
  <2>1. ASSUME NEW x \in Nodes \ {Top}, par2[x] # None
        PROVE  /\ IsDir(par2[x]) /\ (par2[x] = Top \/ par2[par2[x]] # None)
               /\ nam2[x] \in Names
    <3>1. x # m /\ par2[x] = par[x] /\ par[x] # None
      BY <2>1, <1>5
    <3>2. IsDir(par[x]) /\ (par[x] = Top \/ par[par[x]] # None) /\ nam[x] \in Names /\ par[x] \in Nodes
      BY <3>1, <2>1 DEF TreeOK
    <3>3. par2[par[x]] = par[par[x]]
      BY <3>1, <3>2, <1>3, <1>5
    <3>4. nam2[x] \in Names
      BY <3>1, <3>2, <1>5
    <3> QED
      BY <3>1, <3>2, <3>3, <3>4
  <2>2. ASSUME NEW x \in Nodes \ {Top}, NEW y \in Nodes \ {Top},
               x # y, par2[x] = par2[y], par2[x] # None
        PROVE  nam2[x] # nam2[y]
    <3>1. x # m /\ y # m /\ par2[x] = par[x] /\ par2[y] = par[y]
      BY <2>2, <1>5
    <3>2. nam[x] # nam[y]
      BY <3>1, <2>2 DEF TreeOK
    <3>3. CASE x = n
      BY <3>1, <3>3, <2>2, <1>1, <1>4, <1>5
    <3>4. CASE y = n
      BY <3>1, <3>4, <2>2, <1>1, <1>4, <1>5
    <3>5. CASE x # n /\ y # n
      BY <3>1, <3>2, <3>5, <1>5
    <3> QED
      BY <3>3, <3>4, <3>5
  <2> QED
    BY <2>1, <2>2, <1>5 DEF TreeOK
<1>7. Find(par2, nam2, Front(path)) = d
  <2>1. PICK v : IsWalk(par, nam, path, v) /\ v[k] = n
    BY <1>0, FindWalks
  <2>2. ASSUME NEW i \in 0 .. k - 1
        PROVE  v[i] \in Nodes /\ v[i] # n /\ v[i] # m
    <3>1. i \in 0 .. k /\ k \in 0 .. k /\ i < k
      BY <1>0
    <3>2. v[i] # n
      BY <3>1, <2>1, WaysDoNotReturn
    <3>3. i + 1 \in 1 .. k /\ i + 1 \in 0 .. k /\ (i + 1) - 1 = i
      BY <1>0
    <3>4. v[i + 1] # Top /\ v[i + 1] \in Nodes /\ par[v[i + 1]] = v[(i + 1) - 1] /\ v[i] \in Nodes
      BY <3>1, <3>3, <2>1 DEF IsWalk
    <3>5. par[v[i + 1]] = v[i]
      BY <3>3, <3>4
    <3> QED
      BY <3>2, <3>4, <3>5, <1>0, <1>3
  <2> DEFINE u == [i \in 0 .. k - 1 |-> v[i]]
  <2>3. u \in [0 .. k - 1 -> Nodes] /\ \A i \in 0 .. k - 1 : u[i] = v[i]
    BY <2>2
  <2> HIDE DEF u
  <2>4. ASSUME NEW i \in 1 .. k - 1
        PROVE  /\ u[i] # Top /\ u[i] = v[i] /\ u[i - 1] = v[i - 1]
               /\ par[u[i]] = u[i - 1] /\ nam[u[i]] = Front(path)[i]
    <3>1. i \in 1 .. k /\ i \in 0 .. k - 1 /\ i - 1 \in 0 .. k - 1
      BY <1>0
    <3>2. u[i] = v[i] /\ u[i - 1] = v[i - 1] /\ Front(path)[i] = path[i]
      BY <3>1, <2>3, FrontFacts
    <3>3. v[i] # Top /\ par[v[i]] = v[i - 1] /\ nam[v[i]] = path[i]
      BY <3>1, <2>1 DEF IsWalk
    <3> QED
      BY <3>2, <3>3
  <2>5. 0 \in 0 .. k - 1 /\ k - 1 \in 0 .. k - 1 /\ 0 \in 0 .. k
    BY <1>0
  <2>6. u[0] = Top
    BY <2>1, <2>3, <2>5 DEF IsWalk
  <2>7. IsWalk(par, nam, Front(path), u)
    BY <1>0, <2>3, <2>4, <2>6 DEF IsWalk
  <2>8. u[k - 1] = d
    <3>1. u[Len(Front(path))] = d
      BY <2>7, <1>0, FindWalks DEF d
    <3> QED
      BY <3>1, <1>0
  <2>9. ASSUME NEW i \in 1 .. k - 1
        PROVE  par2[u[i]] = u[i - 1] /\ nam2[u[i]] = Front(path)[i]
    <3>1. i \in 0 .. k - 1
      BY <1>0
    <3>2. u[i] \in Nodes /\ u[i] # n /\ u[i] # m
      BY <3>1, <2>2, <2>3
    <3> QED
      BY <3>2, <2>4, <1>5
  <2>10. IsWalk(par2, nam2, Front(path), u)
    BY <2>3, <2>4, <2>6, <2>9, <1>0 DEF IsWalk
  <2>11. Front(path) \in Seq(Names) /\ Len(Front(path)) = k - 1
    BY <1>0
  <2>12. Find(par2, nam2, Front(path)) = u[Len(Front(path))]
    BY <2>10, <2>11, <1>6, FindWalks
  <2> QED
    BY <2>8, <2>11, <2>12
<1>8. Find(par2, nam2, Append(Front(path), to)) = n
  <2> DEFINE q == Append(Front(path), to)
  <2>1. q \in Seq(Names) /\ q # << >> /\ Front(q) = Front(path) /\ Last(q) = to
    BY <1>0
  <2> HIDE DEF q
  <2>2. Find(par2, nam2, Front(q)) # None /\ par2[n] = Find(par2, nam2, Front(q)) /\ nam2[n] = Last(q)
    <3>1. Find(par2, nam2, Front(q)) = d
      BY <2>1, <1>7
    <3> QED
      BY <3>1, <2>1, <1>0, <1>1, <1>5, ZenonT(60)
  <2>3. Find(par2, nam2, q) = n
    BY <2>1, <2>2, <1>1, <1>6, FindChild
  <2> QED
    BY <2>3 DEF q
<1>9. ASSUME Find(par2, nam2, path) # None
      PROVE  FALSE
  <2> DEFINE a == Find(par2, nam2, path)
  <2>1. a \in Nodes \ {Top} /\ par2[a] = d /\ nam2[a] = Last(path)
    BY <1>6, <1>7, <1>9, FindStep
  <2> HIDE DEF a
  <2>2. a # m /\ a # n
    BY <2>1, <1>0, <1>1, <1>5
  <2>3. par[a] = d /\ nam[a] = Last(path)
    BY <2>1, <2>2, <1>5
  <2>4. Find(par, nam, path) = a
    BY <2>1, <2>3, <1>0, <1>1, FindChild DEF d
  <2> QED
    BY <2>2, <2>4
<1> QED
  BY <1>6, <1>8, <1>9

-----------------------------------------------------------------------------
(* The invariant. *)

\* What a call consists of: the folders removeAll is in, and every field of its
\* record.
Frames == [dir: Nodes, path: Seq(Names), todo: SUBSET (Names \X BOOLEAN)]
Ops    == {"mkdir", "create", "copy", "delete", "rename"}
Active == {"mkdir", "create", "stat", "lstat", "remove", "removeAll", "rename", "copy", "write"}

Calls == [at: Active \cup {"idle", "done", "failed"}, op: Ops \cup {"none"}, path: Seq(Names),
          to: Names \cup {"", "file", "folder"}, tries: 0 .. MaxTries, stack: Seq(Frames),
          node: FileNodes \cup {None}, pos: Nat, offset: 0 .. SourceLen,
          touched: BOOLEAN, fit: BOOLEAN, own: BOOLEAN, faulted: Nat]

\* What an operation passes, and what its call then holds.
Stage(r) ==
  /\ r.at = "idle" <=> r.op = "none"
  /\ r.at # "idle" => r.path # << >>
  /\ r.at = "mkdir" => r.op = "mkdir" /\ r.pos < Len(r.path)
  /\ r.at = "create" => r.op = "create"
  /\ r.at = "stat" => r.op \in {"mkdir", "create"}
  /\ r.at \in {"lstat", "remove", "removeAll"} => r.op = "delete"
  /\ r.at = "rename" => r.op = "rename"
  /\ r.at \in {"copy", "write"} => r.op = "copy"
  /\ r.at = "write" => r.pos = r.offset
  /\ r.at \notin {"mkdir", "write"} => r.pos = 0
  /\ r.at \notin {"removeAll"} => r.stack = << >>
  /\ r.op = "delete" => r.to \in {"file", "folder"}
  /\ r.op = "rename" => r.to \in Names /\ r.to # Last(r.path)
  /\ r.op \notin {"copy", "none"} => r.offset = 0
  /\ r.node # None <=> r.at = "write"
  /\ r.stack # << >> => r.stack[1].path = r.path
  /\ \A i \in 1 .. Len(r.stack) - 1 :
       r.stack[i + 1].path # << >> /\ Front(r.stack[i + 1].path) = r.stack[i].path

\* A copy nobody interfered with has what it was told is written.
Kept(r) ==
  (r.offset > 0 \/ r.at = "write" \/ (r.at = "done" /\ r.op = "copy")) /\ ~r.touched =>
    LET n == Lookup(r.path) IN
      /\ n \in FileNodes /\ Len(data[n]) <= SourceLen /\ r.offset <= Len(data[n])
      /\ \A i \in 1 .. r.offset : data[n][i] = i
      /\ r.at = "write" => r.node = n
      /\ r.at = "done" => r.offset = SourceLen

\* What FailsForCause accepts as a cause.
Excused(r) ==
  \/ r.faulted > IF backend = "local" /\ r.op # "copy" THEN MaxTries ELSE 0
  \/ r.own /\ r.op \in {"delete", "rename"}

\* A call that may not fail any more: it could be done when it began, nobody came in
\* its way, and it has no excuse.
Owed(r) == r.fit /\ ~r.touched /\ ~Excused(r)

\* What ReadDir finds in a folder.
Entries(n) == {<<name[m], IsDir(m)>> : m \in Kids(n)}

\* The operation can be done, or done again from its beginning.
Fits(r) ==
  /\ r.op = "mkdir" /\ backend = "local" =>
       \A i \in 1 .. Len(r.path) : Lookup(SubSeq(r.path, 1, i)) \notin FileNodes
  /\ r.op = "create" => InDir(r.path) /\ ~IsDir(Lookup(r.path))
  /\ r.op = "delete" => Lookup(r.path) # None /\ IsDir(Lookup(r.path)) = (r.to = "folder")
  /\ r.op = "rename" => Lookup(r.path) # None /\ Lookup(To(r)) = None
  /\ r.op = "copy" => Lookup(r.path) \in FileNodes

\* So can what is left of it: it has found, or made, what its place requires.
Able(r) ==
  /\ Fits(r)
  /\ r.at = "mkdir" /\ backend = "local" => IsDir(Lookup(SubSeq(r.path, 1, r.pos)))
  /\ r.at = "mkdir" /\ backend = "sftp" => InDir(r.path) /\ Lookup(r.path) = None
  /\ r.at = "stat" => Lookup(r.path) # None
  /\ r.at = "remove" => r.to = "file"
  /\ r.at = "removeAll" => r.to = "folder"
  /\ \A i \in 1 .. Len(r.stack) : IsDir(r.stack[i].dir) /\ r.stack[i].dir = Lookup(r.stack[i].path)
  /\ r.stack # << >> => r.stack[Len(r.stack)].todo = Entries(r.stack[Len(r.stack)].dir)

\* A call that is owed success is able to come to it, and has its attempts left.
Succeeds(r) ==
  Owed(r) => /\ r.at # "failed"
             /\ r.at \in Active /\ backend = "local" /\ r.op # "copy" =>
                  r.tries = MaxTries - r.faulted
             /\ Able(r)

\* What is kept of each call.
CallOK(r) == Stage(r) /\ Kept(r) /\ Succeeds(r)

\* A write on its way is of the unit for its position: position and offset of a handle
\* never part, whether the copy was begun or resumed.
Late == {w \in FileNodes \X (0 .. SourceLen - 1) \X (1 .. SourceLen) : w[3] = w[2] + 1}

\* The inductive invariant.
FilesInv ==
  /\ backend \in Backends /\ faults \in 0 .. MaxFaults
  /\ TreeOK(parent, name)
  /\ data \in [FileNodes -> Seq(0 .. SourceLen)]
  /\ late \subseteq Late
  /\ call \in [Callers -> Calls]
  /\ \A c \in Callers : CallOK(call[c])
-----------------------------------------------------------------------------

-----------------------------------------------------------------------------
(* Steps sorted by what they do to the tree and to other callers. *)

\* In an unchanged tree a call stands as it stood.
LEMMA SameTree ==
  ASSUME UNCHANGED <<backend, tree>>, NEW r
  PROVE  CallOK(r)' <=> CallOK(r)
<1>1. \A p : Lookup(p)' = Lookup(p)
  BY LookupFinds DEF tree
<1>2. \A n : Kids(n)' = Kids(n)
  BY DEF Kids, tree
<1>3. Kept(r)' <=> Kept(r)
  BY <1>1 DEF Kept, tree
<1>4. \A n : Entries(n)' = Entries(n)
  BY <1>2 DEF Entries, tree
<1>5. Able(r)' <=> Able(r)
  BY <1>1, <1>4 DEF Able, Fits, InDir
<1>6. Owed(r)' <=> Owed(r)
  BY DEF Owed, Excused
<1>7. Succeeds(r)' <=> Succeeds(r)
  BY <1>5, <1>6 DEF Succeeds
<1> QED
  BY <1>3, <1>7 DEF CallOK, Stage

\* A step that leaves the tree alone keeps the invariant if it keeps its own call.
LEMMA QuietStep ==
  ASSUME FilesInv, NEW c \in Callers, NEW j \in Calls, CallOK(j),
         call' = [call EXCEPT ![c] = j], UNCHANGED <<backend, tree>>,
         late' \subseteq Late, faults' \in 0 .. MaxFaults
  PROVE  FilesInv'
<1>1. call' \in [Callers -> Calls] /\ \A d \in Callers : call'[d] = IF d = c THEN j ELSE call[d]
  BY DEF FilesInv
<1>2. \A d \in Callers : CallOK(call'[d])
  BY <1>1 DEF FilesInv
<1>3. \A x : CallOK(x)' <=> CallOK(x)
  BY SameTree
<1>4. \A d \in Callers : CallOK(call[d])'
  BY <1>2, <1>3
<1> QED
  BY <1>1, <1>4 DEF FilesInv, tree, Late

\* A call that gives up keeps what its caller asked for.
LEMMA FatalFields ==
  ASSUME NEW r \in Calls
  PROVE  LET q == Fatal(r) IN
         /\ q \in Calls /\ q.op = r.op /\ q.path = r.path /\ q.to = r.to /\ q.offset = r.offset
         /\ q.node = r.node /\ q.touched = r.touched /\ q.fit = r.fit /\ q.own = r.own
         /\ q.faulted = r.faulted /\ q.stack = << >> /\ q.pos = 0
         /\ q.at = "failed" /\ q.tries = 0
<1>1. 0 \in 0 .. MaxTries /\ << >> \in Seq(Frames) /\ 0 \in Nat /\ "failed" \in Active \cup {"idle", "done", "failed"}
  BY FilesAssumption
<1> QED
  BY <1>1 DEF Fatal, Calls

\* So does a call that comes to its end.
LEMMA DoneFields ==
  ASSUME NEW r \in Calls
  PROVE  LET q == Done(r) IN
         /\ q \in Calls /\ q.op = r.op /\ q.path = r.path /\ q.to = r.to /\ q.offset = r.offset
         /\ q.node = r.node /\ q.touched = r.touched /\ q.fit = r.fit /\ q.own = r.own
         /\ q.faulted = r.faulted /\ q.stack = << >> /\ q.pos = 0
         /\ q.at = "done" /\ q.tries = 0
<1>1. 0 \in 0 .. MaxTries /\ << >> \in Seq(Frames) /\ 0 \in Nat /\ "done" \in Active \cup {"idle", "done", "failed"}
  BY FilesAssumption
<1> QED
  BY <1>1 DEF Done, Calls

\* Whoever is interfered with is promised nothing more.
LEMMA Bystander ==
  ASSUME NEW x, Stage(x), x.touched = TRUE \/ x = Idle
  PROVE  CallOK(x)'
<1>1. CASE x.touched = TRUE
  BY <1>1 DEF CallOK, Stage, Kept, Succeeds, Owed
<1>2. CASE x = Idle
  <2>1. x.offset = 0 /\ x.at = "idle" /\ x.fit = FALSE
    BY <1>2 DEF Idle
  <2> QED
    BY <2>1 DEF CallOK, Stage, Kept, Succeeds, Owed
<1> QED
  BY <1>1, <1>2

\* A step that changes the tree touches everybody else, and keeps the invariant if it
\* keeps its own call and the tree.
LEMMA ChangeStep ==
  ASSUME FilesInv, NEW c \in Callers, NEW j \in Calls, CallOK(j)',
         call' = [Touched EXCEPT ![c] = j], backend' = backend, TreeOK(parent', name'),
         data' \in [FileNodes -> Seq(0 .. SourceLen)], late' = late, faults' \in 0 .. MaxFaults
  PROVE  FilesInv'
<1>1. \A d \in Callers : call[d] \in Calls /\ Stage(call[d])
  BY DEF FilesInv, CallOK
<1> DEFINE t(r) == IF r = Idle THEN Idle ELSE [r EXCEPT !.touched = TRUE]
<1>2. \A d \in Callers : call'[d] = IF d = c THEN j ELSE t(call[d])
  BY DEF Touched
<1>3. \A r \in Calls : t(r) \in Calls /\ (t(r).touched = TRUE \/ t(r) = Idle) /\ (Stage(r) => Stage(t(r)))
  <2> SUFFICES ASSUME NEW r \in Calls, r # Idle
               PROVE  LET q == [r EXCEPT !.touched = TRUE]
                      IN q \in Calls /\ q.touched = TRUE /\ (Stage(r) => Stage(q))
    OBVIOUS
  <2>1. [r EXCEPT !.touched = TRUE] \in Calls /\ [r EXCEPT !.touched = TRUE].touched = TRUE
    BY ZenonT(60) DEF Calls
  <2>2. ASSUME Stage(r)
        PROVE  Stage([r EXCEPT !.touched = TRUE])
    BY <2>2, ZenonT(60) DEF Stage, Calls
  <2> QED
    BY <2>1, <2>2
<1> HIDE DEF t
<1>4. call' \in [Callers -> Calls]
  <2>1. DOMAIN call' = Callers /\ call' = [d \in Callers |-> call'[d]]
    BY DEF Touched
  <2>2. \A d \in Callers : call'[d] \in Calls
    BY <1>1, <1>2, <1>3
  <2> QED
    BY <2>1, <2>2
<1>5. \A d \in Callers : CallOK(call[d])'
  <2> SUFFICES ASSUME NEW d \in Callers, d # c
               PROVE  CallOK(call[d])'
    BY <1>2
  <2>1. \A x : Stage(x) /\ (x.touched = TRUE \/ x = Idle) => CallOK(x)'
    BY Bystander
  <2>2. Stage(call'[d]) /\ (call'[d].touched = TRUE \/ call'[d] = Idle)
    BY <1>1, <1>2, <1>3
  <2> QED
    BY <2>1, <2>2
<1>6. late' \subseteq Late
  BY DEF FilesInv
<1> QED
  BY <1>4, <1>5, <1>6 DEF FilesInv, Late

\* The empty path leads to the root.
LEMMA FindsTop ==
  ASSUME NEW par, NEW nam, NEW path \in Seq(Names), Len(path) = 0
  PROVE  Find(par, nam, path) = Top
<1> DEFINE k == Len(path)
<1>1. PICK node : /\ node = [i \in 0 .. k |-> IF i = 0 THEN Top ELSE ChildIn(par, nam, node[i - 1], path[i])]
                  /\ Find(par, nam, path) = node[k]
  BY FindUnfolds
<1> QED
  BY <1>1

\* The root is where the walk of MkdirAll starts.
LEMMA TopIsFound ==
  ASSUME NEW path, path = << >>
  PROVE  Lookup(path) = Top
<1>1. path \in Seq(Names) /\ Len(path) = 0
  OBVIOUS
<1> QED
  BY <1>1, FindsTop, LookupFinds

\* What is left of a call that starts over, when its operation can be done again.
Renewed(r) ==
  /\ r \in Calls /\ Stage(r) /\ Kept(r) /\ r.at \in Active \ {"write"}
  /\ Owed(r) => /\ backend = "local" /\ r.op # "copy"
                /\ Fits(r) /\ r.tries > 0 /\ r.tries - 1 = MaxTries - r.faulted

\* A call that begins again stands as a call should.
LEMMA AgainHolds ==
  \A r : Renewed(r) => Again(r) \in Calls /\ CallOK(Again(r))
<1> SUFFICES ASSUME NEW r, Renewed(r)
             PROVE  Again(r) \in Calls /\ CallOK(Again(r))
  OBVIOUS
<1>0. r \in Calls /\ Stage(r) /\ Kept(r) /\ r.at \in Active \ {"write"}
  BY DEF Renewed
<1> DEFINE q == Again(r)
<1>1. /\ q \in Calls /\ q.op = r.op /\ q.path = r.path /\ q.to = r.to /\ q.offset = r.offset
      /\ q.node = r.node /\ q.touched = r.touched /\ q.fit = r.fit /\ q.own = r.own
      /\ q.faulted = r.faulted /\ q.stack = << >> /\ q.pos = 0
      /\ q.at = IF r.tries = 0 THEN "failed" ELSE First(r)
      /\ q.tries = IF r.tries = 0 THEN 0 ELSE r.tries - 1
  <2>0. r.tries \in Nat
    <3>1. r.tries \in 0 .. MaxTries /\ MaxTries \in Nat
      BY <1>0, FilesAssumption DEF Calls
    <3> QED
      BY <3>1
  <2>1. CASE r.tries = 0
    <3>1. q = Fatal(r)
      BY <2>1 DEF Again
    <3> QED
      BY <1>0, <2>1, <3>1, FatalFields
  <2>2. CASE r.tries # 0
    <3>1. First(r) \in Active
      BY <1>0 DEF First, Stage, Active, Ops, Calls
    <3>2. q = [r EXCEPT !.at = First(r), !.tries = @ - 1, !.stack = << >>, !.pos = 0]
      BY <2>2 DEF Again
    <3> HIDE DEF q
    <3>3. r.tries > 0
      BY <2>0, <2>2
    <3>4. r \in Calls
      BY <1>0
    <3>5. /\ q \in Calls /\ q.op = r.op /\ q.path = r.path /\ q.to = r.to /\ q.offset = r.offset
          /\ q.node = r.node /\ q.touched = r.touched /\ q.fit = r.fit /\ q.own = r.own
          /\ q.faulted = r.faulted /\ q.stack = << >> /\ q.pos = 0
          /\ q.at = First(r) /\ q.tries = r.tries - 1
      <4>1. /\ r.tries - 1 \in 0 .. MaxTries /\ << >> \in Seq(Frames) /\ 0 \in Nat
            /\ First(r) \in Active \cup {"idle", "done", "failed"}
        <5>1. r.tries \in 0 .. MaxTries /\ MaxTries \in Nat
          BY <3>4, FilesAssumption DEF Calls
        <5>2. r.tries - 1 \in 0 .. MaxTries
          BY <5>1, <3>3
        <5> QED
          BY <5>2, <3>1
      <4> QED
        BY <3>2, <3>4, <4>1 DEF Calls
    <3> QED
      BY <2>2, <3>5
  <2> QED
    BY <2>1, <2>2
<1> HIDE DEF q
<1>2. /\ First(r) \in Active \ {"write", "stat"}
      /\ First(r) = "mkdir" => r.op = "mkdir"
      /\ First(r) = "create" => r.op = "create"
      /\ First(r) = "rename" => r.op = "rename"
      /\ First(r) = "copy" => r.op = "copy"
      /\ First(r) \in {"lstat", "remove", "removeAll"} => r.op = "delete"
      /\ First(r) = "remove" => r.to = "file"
      /\ First(r) = "removeAll" => r.to # "file"
  BY <1>0 DEF First, Stage, Active, Ops, Calls
<1>3. Stage(q)
  <2>1. r.path # << >> /\ Len(r.path) \in Nat \ {0} /\ r.node = None /\ r.op # "none"
    <3>1. r.path \in Seq(Names)
      BY <1>0 DEF Calls
    <3>2. r.at # "idle" /\ r.at # "write"
      BY <1>0 DEF Active
    <3>3. r.path # << >> /\ r.node = None /\ r.op # "none"
      BY <1>0, <3>2 DEF Stage
    <3> QED
      BY <3>1, <3>3
  <2> QED
    BY <1>0, <1>1, <1>2, <2>1 DEF Stage, Active
<1>4. Kept(q)
  BY <1>0, <1>1, <1>2 DEF Kept, Active
<1>5. Succeeds(q)
  <2> SUFFICES ASSUME Owed(q)
               PROVE  /\ q.at # "failed"
                      /\ q.at \in Active /\ backend = "local" /\ q.op # "copy" =>
                           q.tries = MaxTries - q.faulted
                      /\ Able(q)
    BY DEF Succeeds
  <2>1. Owed(r)
    BY <1>1 DEF Owed, Excused
  <2>2. backend = "local" /\ Fits(r) /\ r.tries > 0 /\ r.tries - 1 = MaxTries - r.faulted
    BY <2>1 DEF Renewed
  <2>3. q.at = First(r) /\ q.tries = r.tries - 1
    BY <1>1, <2>2
  <2>4. Fits(q)
    BY <1>1, <2>2 DEF Fits, InDir, To
  <2>5. IsDir(Lookup(SubSeq(q.path, 1, q.pos)))
    <3>1. SubSeq(q.path, 1, q.pos) = << >>
      <4>1. q.pos = 0 /\ q.path \in Seq(Names)
        BY <1>1 DEF Calls
      <4> QED
        BY <4>1
    <3> QED
      BY <3>1, TopIsFound DEF IsDir
  <2>6. Able(q)
    <3>1. q.at # "stat" /\ backend # "sftp" /\ (q.at = "remove" => q.to = "file")
      BY <1>1, <1>2, <2>2, <2>3
    <3>2. q.at # "removeAll"
      BY <1>0, <1>1, <2>2, <2>3 DEF First, Stage, Active
    <3>3. Len(q.stack) = 0 /\ q.stack = << >>
      BY <1>1
    <3> QED
      BY <2>4, <2>5, <3>1, <3>2, <3>3 DEF Able
  <2> QED
    BY <1>1, <1>2, <2>2, <2>3, <2>6 DEF Active
<1> QED
  BY <1>1, <1>3, <1>4, <1>5 DEF CallOK, q

\* The same in the state after a step.
LEMMA AgainHoldsNext ==
  (\A r : Renewed(r) => Again(r) \in Calls /\ CallOK(Again(r)))'
  BY AgainHolds, PTL

-----------------------------------------------------------------------------
(* Ends, retries and faults. *)

\* A call that is not owed success may give up.
LEMMA FatalHolds ==
  \A r : r \in Calls /\ Stage(r) /\ Kept(r) /\ r.at \in Active \ {"write"} /\ ~Owed(r)
           => Fatal(r) \in Calls /\ CallOK(Fatal(r))
<1> SUFFICES ASSUME NEW r, r \in Calls, Stage(r), Kept(r), r.at \in Active \ {"write"}, ~Owed(r)
             PROVE  Fatal(r) \in Calls /\ CallOK(Fatal(r))
  OBVIOUS
<1> DEFINE q == Fatal(r)
<1>1. /\ q \in Calls /\ q.op = r.op /\ q.path = r.path /\ q.to = r.to /\ q.offset = r.offset
      /\ q.node = r.node /\ q.touched = r.touched /\ q.fit = r.fit /\ q.own = r.own
      /\ q.faulted = r.faulted /\ q.stack = << >> /\ q.pos = 0
      /\ q.at = "failed" /\ q.tries = 0
  BY FatalFields
<1> HIDE DEF q
<1>2. Stage(q)
  <2>1. r.path # << >> /\ Len(r.path) \in Nat \ {0} /\ r.node = None /\ r.op # "none"
    <3>1. r.path \in Seq(Names)
      BY DEF Calls
    <3>2. r.at # "idle" /\ r.at # "write"
      BY DEF Active
    <3>3. r.path # << >> /\ r.node = None /\ r.op # "none"
      BY <3>2 DEF Stage
    <3> QED
      BY <3>1, <3>3
  <2> QED
    BY <1>1, <2>1 DEF Stage
<1>3. Kept(q)
  BY <1>1 DEF Kept, Active
<1>4. Succeeds(q)
  BY <1>1 DEF Succeeds, Owed, Excused
<1> QED
  BY <1>1, <1>2, <1>3, <1>4 DEF CallOK, q

\* A call may come to its end; the end of a copy is the matter of CloseStep.
LEMMA DoneHolds ==
  \A r : r \in Calls /\ Stage(r) /\ r.at \in Active \ {"write"} /\ r.op # "copy" /\ (Owed(r) => Fits(r))
           => Done(r) \in Calls /\ CallOK(Done(r))
<1> SUFFICES ASSUME NEW r, r \in Calls, Stage(r), r.at \in Active \ {"write"}, r.op # "copy", Owed(r) => Fits(r)
             PROVE  Done(r) \in Calls /\ CallOK(Done(r))
  OBVIOUS
<1> DEFINE q == Done(r)
<1>1. /\ q \in Calls /\ q.op = r.op /\ q.path = r.path /\ q.to = r.to /\ q.offset = r.offset
      /\ q.node = r.node /\ q.touched = r.touched /\ q.fit = r.fit /\ q.own = r.own
      /\ q.faulted = r.faulted /\ q.stack = << >> /\ q.pos = 0
      /\ q.at = "done" /\ q.tries = 0
  BY DoneFields
<1> HIDE DEF q
<1>2. r.path # << >> /\ Len(r.path) \in Nat \ {0} /\ r.node = None /\ r.op # "none" /\ r.offset = 0
  <2>1. r.path \in Seq(Names)
    BY DEF Calls
  <2>2. r.at # "idle" /\ r.at # "write"
    BY DEF Active
  <2>3. r.path # << >> /\ r.node = None /\ r.op # "none"
    BY <2>2 DEF Stage
  <2> QED
    BY <2>1, <2>3 DEF Stage
<1>3. Stage(q)
  BY <1>1, <1>2 DEF Stage
<1>4. Kept(q)
  BY <1>1, <1>2 DEF Kept
<1>5. Succeeds(q)
  <2> SUFFICES ASSUME Owed(q)
               PROVE  Able(q)
    BY <1>1 DEF Succeeds, Active
  <2>1. Fits(r)
    BY <1>1 DEF Owed, Excused
  <2>2. Fits(q)
    BY <1>1, <2>1 DEF Fits, InDir, To
  <2>3. Len(q.stack) = 0 /\ q.stack = << >>
    BY <1>1
  <2> QED
    BY <1>1, <2>2, <2>3 DEF Able
<1> QED
  BY <1>1, <1>3, <1>4, <1>5 DEF CallOK, q

\* What is left of a call that meets a fault.
Recovers(r) ==
  /\ r \in Calls /\ Stage(r) /\ Kept(r) /\ r.at \in Active \ {"write"}
  /\ Owed(r) => /\ Fits(r)
                /\ backend = "local" /\ r.op # "copy" => r.tries = MaxTries - r.faulted

\* A fault costs a call that is owed success one of its attempts, or its claim.
LEMMA FaultedHolds ==
  \A r : Recovers(r) => Faulted(r) \in Calls /\ CallOK(Faulted(r))
<1> SUFFICES ASSUME NEW r, Recovers(r)
             PROVE  Faulted(r) \in Calls /\ CallOK(Faulted(r))
  OBVIOUS
<1>0. r \in Calls /\ Stage(r) /\ Kept(r) /\ r.at \in Active \ {"write"}
  BY DEF Recovers
<1>1. r.faulted \in Nat /\ r.tries \in Nat /\ MaxTries \in Nat
  <2>1. r.tries \in 0 .. MaxTries /\ MaxTries \in Nat /\ r.faulted \in Nat
    BY <1>0, FilesAssumption DEF Calls
  <2> QED
    BY <2>1
<1> DEFINE f == [r EXCEPT !.faulted = @ + 1]
<1>2. /\ f \in Calls /\ f.at = r.at /\ f.op = r.op /\ f.path = r.path /\ f.to = r.to
      /\ f.offset = r.offset /\ f.node = r.node /\ f.touched = r.touched /\ f.fit = r.fit
      /\ f.own = r.own /\ f.stack = r.stack /\ f.pos = r.pos /\ f.tries = r.tries
      /\ f.faulted = r.faulted + 1
  <2>1. r.faulted + 1 \in Nat
    BY <1>1
  <2> QED
    BY <1>0, <2>1 DEF Calls
<1>3. Faulted(r) = IF backend = "local" THEN Again(f) ELSE Fatal(f)
  BY DEF Faulted
<1> HIDE DEF f
<1>4. Stage(f)
  BY <1>0, <1>2 DEF Stage
<1>5. Kept(f)
  BY <1>0, <1>2 DEF Kept
<1>6. Owed(f) => Owed(r) /\ backend = "local" /\ r.op # "copy" /\ r.faulted + 1 <= MaxTries
  BY <1>2, <1>1 DEF Owed, Excused
<1>7. CASE backend = "local"
  <2>1. Renewed(f)
    <3> SUFFICES ASSUME Owed(f)
                 PROVE  /\ f.op # "copy" /\ Fits(f) /\ f.tries > 0
                        /\ f.tries - 1 = MaxTries - f.faulted
      BY <1>0, <1>2, <1>4, <1>5, <1>7 DEF Renewed
    <3>1. Fits(r) /\ r.tries = MaxTries - r.faulted
      BY <1>6, <1>7 DEF Recovers
    <3>2. Fits(f)
      BY <3>1, <1>2 DEF Fits, InDir, To
    <3> QED
      BY <1>2, <1>1, <1>6, <3>1, <3>2
  <2> QED
    BY <1>3, <1>7, <2>1, AgainHolds
<1>8. CASE backend # "local"
  <2>1. ~Owed(f)
    BY <1>6, <1>8
  <2> QED
    BY <1>0, <1>2, <1>3, <1>4, <1>5, <1>8, <2>1, FatalHolds
<1> QED
  BY <1>7, <1>8

\* A call may give up after a step too,
LEMMA FatalHoldsNext ==
  (\A r : r \in Calls /\ Stage(r) /\ Kept(r) /\ r.at \in Active \ {"write"} /\ ~Owed(r)
            => Fatal(r) \in Calls /\ CallOK(Fatal(r)))'
  BY FatalHolds, PTL

\* or come to its end,
LEMMA DoneHoldsNext ==
  (\A r : r \in Calls /\ Stage(r) /\ r.at \in Active \ {"write"} /\ r.op # "copy" /\ (Owed(r) => Fits(r))
            => Done(r) \in Calls /\ CallOK(Done(r)))'
  BY DoneHolds, PTL

\* or meet a fault.
LEMMA FaultedHoldsNext ==
  (\A r : Recovers(r) => Faulted(r) \in Calls /\ CallOK(Faulted(r)))'
  BY FaultedHolds, PTL

\* The fields of a call whose effect is known.
LEMMA OwnFields ==
  ASSUME NEW r \in Calls, NEW q, q = [r EXCEPT !.own = TRUE]
  PROVE  /\ q \in Calls /\ q.at = r.at /\ q.op = r.op /\ q.path = r.path /\ q.to = r.to
         /\ q.offset = r.offset /\ q.node = r.node /\ q.touched = r.touched /\ q.fit = r.fit
         /\ q.own = TRUE /\ q.stack = r.stack /\ q.pos = r.pos /\ q.tries = r.tries
         /\ q.faulted = r.faulted
  BY DEF Calls

\* Nor does the way of removeAll through the folders touch anything else.
LEMMA StackFields ==
  ASSUME NEW r \in Calls, NEW st \in Seq(Frames), NEW q, q = [r EXCEPT !.stack = st]
  PROVE  /\ q \in Calls /\ q.at = r.at /\ q.op = r.op /\ q.path = r.path /\ q.to = r.to
         /\ q.offset = r.offset /\ q.node = r.node /\ q.touched = r.touched /\ q.fit = r.fit
         /\ q.stack = st /\ q.pos = r.pos /\ q.tries = r.tries /\ q.faulted = r.faulted
         /\ q.own = r.own
  BY DEF Calls

\* The handle of a copy.
LEMMA HandleFields ==
  ASSUME NEW r \in Calls, NEW n \in FileNodes \cup {None}, NEW q, q = [r EXCEPT !.node = n]
  PROVE  /\ q \in Calls /\ q.at = r.at /\ q.op = r.op /\ q.path = r.path /\ q.to = r.to
         /\ q.offset = r.offset /\ q.node = n /\ q.touched = r.touched /\ q.fit = r.fit
         /\ q.own = r.own /\ q.stack = r.stack /\ q.pos = r.pos /\ q.tries = r.tries
         /\ q.faulted = r.faulted
  BY DEF Calls

\* What the invariant says of one call.
LEMMA CallFacts ==
  ASSUME FilesInv, NEW c \in Callers
  PROVE  /\ call[c] \in Calls /\ Stage(call[c]) /\ Kept(call[c]) /\ Succeeds(call[c])
         /\ call[c].path \in Seq(Names) /\ call[c].node \in FileNodes \cup {None}
         /\ call[c].offset \in 0 .. SourceLen /\ call[c].pos \in Nat
         /\ call[c].faulted \in Nat /\ call[c].tries \in 0 .. MaxTries
         /\ call[c].stack \in Seq(Frames)
  BY DEF FilesInv, CallOK, Calls

\* A call that is owed success finds what its place requires.
LEMMA OwedIsAble ==
  ASSUME NEW r, Succeeds(r), Owed(r)
  PROVE  Able(r) /\ Fits(r)
  BY DEF Succeeds, Able

\* A call that is under way has its path, and survives a fault.
LEMMA Started ==
  ASSUME FilesInv, NEW c \in Callers, call[c].at \in Active
  PROVE  /\ call[c].path # << >> /\ call[c].op # "none"
         /\ call[c].at # "write" => Recovers(call[c])
<1>1. call[c].at # "idle"
  BY DEF Active
<1>2. call[c].path # << >> /\ call[c].op # "none"
  BY <1>1, CallFacts DEF Stage
<1>3. ASSUME call[c].at # "write"
      PROVE  Recovers(call[c])
  BY <1>3, CallFacts, OwedIsAble DEF Recovers, Succeeds
<1> QED
  BY <1>2, <1>3

\* An answer that changes nothing.
LEMMA AnswerStep ==
  ASSUME FilesInv, NEW c \in Callers, NEW j \in Calls, CallOK(j), Answer(c, j),
         backend' = backend, late' = late
  PROVE  FilesInv'
<1>1. faults' \in 0 .. MaxFaults /\ late' \subseteq Late
  BY DEF FilesInv, Answer, Set
<1> QED
  BY <1>1, QuietStep DEF Answer, Set

\* A change of the tree: its caller hears of it and goes on as r, or does not hear of
\* it and meets a fault.
LEMMA ChangedStep ==
  ASSUME FilesInv, NEW c \in Callers, NEW r, Changed(c, r),
         NEW j, j = [r EXCEPT !.own = TRUE], j \in Calls, CallOK(j)',
         NEW o, o = [call[c] EXCEPT !.own = TRUE], Recovers(o)',
         backend' = backend, late' = late, TreeOK(parent', name'),
         data' \in [FileNodes -> Seq(0 .. SourceLen)]
  PROVE  FilesInv'
<1>0. faults \in 0 .. MaxFaults /\ MaxFaults \in Nat
  BY FilesAssumption DEF FilesInv
<1>1. CASE /\ call' = [Touched EXCEPT ![c] = [r EXCEPT !.own = TRUE]]
           /\ UNCHANGED faults
  <2>1. faults' \in 0 .. MaxFaults
    BY <1>0, <1>1
  <2>2. call' = [Touched EXCEPT ![c] = j]
    BY <1>1
  <2> QED
    BY <2>1, <2>2, ChangeStep
<1>2. CASE /\ faults < MaxFaults /\ faults' = faults + 1
           /\ call' = [Touched EXCEPT ![c] = Faulted([call[c] EXCEPT !.own = TRUE])]
  <2>1. faults' \in 0 .. MaxFaults
    BY <1>0, <1>2
  <2>2. PICK q : q = Faulted(o)
    OBVIOUS
  <2>3. Faulted(o)' = Faulted(o)
    BY DEF Faulted, Again, Fatal, First
  <2>4. \A x : Recovers(x)' => Faulted(x)' \in Calls /\ CallOK(Faulted(x))'
    BY FaultedHoldsNext
  <2>5. q \in Calls /\ CallOK(q)'
    BY <2>2, <2>3, <2>4
  <2>6. call' = [Touched EXCEPT ![c] = q]
    BY <1>2, <2>2
  <2> QED
    BY <2>1, <2>5, <2>6, ChangeStep
<1> QED
  BY <1>1, <1>2 DEF Changed

-----------------------------------------------------------------------------
(* The tree of a state. *)

\* A path leads to a node, below the root unless it is empty, or nowhere.
LEMMA LookupIs ==
  ASSUME TreeOK(parent, name), NEW path \in Seq(Names)
  PROVE  /\ Lookup(path) \in Nodes \cup {None}
         /\ path # << >> => Lookup(path) \in (Nodes \ {Top}) \cup {None}
<1>1. Lookup(path) \in Nodes \cup {None}
  BY LookupFinds, FindWalks
<1>2. ASSUME path # << >>, Lookup(path) # None
      PROVE  Lookup(path) # Top
  BY <1>2, LookupFinds, FindStep
<1> QED
  BY <1>1, <1>2

\* The folder a node is found in.
LEMMA FoundIn ==
  ASSUME TreeOK(parent, name), NEW path \in Seq(Names), path # << >>, Lookup(path) # None
  PROVE  /\ Lookup(path) \in Nodes \ {Top} /\ Lookup(Front(path)) \in Nodes /\ InDir(path)
         /\ parent[Lookup(path)] = Lookup(Front(path)) /\ name[Lookup(path)] = Last(path)
<1>1. /\ Lookup(path) \in Nodes \ {Top} /\ Lookup(Front(path)) \in Nodes
      /\ parent[Lookup(path)] = Lookup(Front(path)) /\ name[Lookup(path)] = Last(path)
  BY LookupFinds, FindStep
<1>2. Lookup(Front(path)) # None
  BY <1>1, FilesAssumption DEF FilesAssumption
<1> QED
  BY <1>1, <1>2 DEF InDir, TreeOK

\* A node of a folder that is found is found there by its name.
LEMMA KidIsFound ==
  ASSUME TreeOK(parent, name), NEW path \in Seq(Names), path # << >>, NEW m \in Nodes \ {Top},
         Lookup(Front(path)) # None, parent[m] = Lookup(Front(path)), name[m] = Last(path)
  PROVE  Lookup(path) = m
  BY LookupFinds, FindChild

\* The file system's own way to an entry of a folder.
LEMMA ChildIs ==
  ASSUME TreeOK(parent, name), NEW n, NEW x
  PROVE  /\ Child(n, x) \in (Nodes \ {Top}) \cup {None}
         /\ \A m \in Nodes \ {Top} : n # None /\ parent[m] = n /\ name[m] = x => Child(n, x) = m
         /\ Child(n, x) # None => n # None /\ parent[Child(n, x)] = n /\ name[Child(n, x)] = x
<1>1. Child(n, x) = ChildIn(parent, name, n, x)
  BY DEF Child, ChildIn, Kids, KidsIn
<1> QED
  BY <1>1, ChildFacts

\* What a new node changes: its path leads to it, and what was found before is found
\* as before.
LEMMA MakeLooks ==
  ASSUME FilesInv, NEW n \in Dirs \cup FileNodes, Free(n), NEW path \in Seq(Names), path # << >>,
         InDir(path), Lookup(path) = None, Make(n, path)
  PROVE  /\ TreeOK(parent', name') /\ data' \in [FileNodes -> Seq(0 .. SourceLen)]
         /\ Lookup(path)' = n
         /\ \A q \in Seq(Names) : Lookup(q) # None => Lookup(q)' = Lookup(q)
         /\ \A q \in Seq(Names) : Lookup(q)' # n => Lookup(q)' = Lookup(q)
         /\ n \in FileNodes => data'[n] = << >>
<1>1. TreeOK(parent, name) /\ n \in Nodes \ {Top} /\ parent[n] = None
  BY FilesAssumption DEF FilesAssumption, FilesInv, Free, Nodes
<1>2. /\ parent' = [parent EXCEPT ![n] = Find(parent, name, Front(path))]
      /\ name' = [name EXCEPT ![n] = Last(path)]
      /\ IsDir(Find(parent, name, Front(path))) /\ Find(parent, name, path) = None
  BY LookupFinds DEF Make, InDir
<1>3. /\ TreeOK(parent', name')
      /\ Find(parent', name', path) = n
      /\ \A q \in Seq(Names) : Find(parent, name, q) # None => Find(parent', name', q) = Find(parent, name, q)
      /\ \A q \in Seq(Names) : Find(parent', name', q) # n => Find(parent', name', q) = Find(parent, name, q)
  <2>1. PICK par, nam, par2, nam2 : par = parent /\ nam = name /\ par2 = parent' /\ nam2 = name'
    OBVIOUS
  <2>2. /\ TreeOK(par, nam) /\ par[n] = None
        /\ IsDir(Find(par, nam, Front(path))) /\ Find(par, nam, path) = None
    BY <1>1, <1>2, <2>1
  <2>3. Makes(par, nam, n, path, par2, nam2)
    BY <1>2, <2>1 DEF Makes
  <2>4. /\ TreeOK(par2, nam2)
        /\ Find(par2, nam2, path) = n
        /\ \A q \in Seq(Names) : Find(par, nam, q) # None => Find(par2, nam2, q) = Find(par, nam, q)
        /\ \A q \in Seq(Names) : Find(par2, nam2, q) # n => Find(par2, nam2, q) = Find(par, nam, q)
    BY <1>1, <2>2, <2>3, MakeFinds
  <2> QED
    BY <2>1, <2>4
<1>4. data' = [f \in FileNodes |-> IF f = n THEN << >> ELSE data[f]] /\ data \in [FileNodes -> Seq(0 .. SourceLen)]
  BY DEF Make, FilesInv
<1>5. data' \in [FileNodes -> Seq(0 .. SourceLen)]
  <2>1. << >> \in Seq(0 .. SourceLen)
    OBVIOUS
  <2> QED
    BY <1>4, <2>1
<1> QED
  BY <1>3, <1>4, <1>5, LookupFinds

\* What a removal changes: the tree stays one, and no path that led to the node does.
LEMMA UnlinkLooks ==
  ASSUME FilesInv, NEW n \in Nodes \ {Top}, Kids(n) = {}, Unlink(n)
  PROVE  /\ TreeOK(parent', name') /\ data' \in [FileNodes -> Seq(0 .. SourceLen)]
         /\ \A q \in Seq(Names) : Lookup(q) = n => Lookup(q)' = None
<1>1. TreeOK(parent, name) /\ None \notin Nodes
  BY FilesAssumption DEF FilesAssumption, FilesInv
<1>2. Leaf(parent, n)
  BY <1>1 DEF Leaf, Kids
<1>3. Unlinks(parent, name, n, parent', name')
  <2>1. parent \in [Nodes -> Nodes \cup {None}] /\ name \in [Nodes -> Names \cup {""}]
    BY <1>1 DEF TreeOK
  <2> QED
    BY <2>1 DEF Unlink, Unlinks
<1>4. /\ TreeOK(parent', name')
      /\ \A q \in Seq(Names) : Find(parent, name, q) = n => Find(parent', name', q) = None
  BY <1>1, <1>2, <1>3, UnlinkFinds
<1>5. data' = [f \in FileNodes |-> IF f = n THEN << >> ELSE data[f]] /\ data \in [FileNodes -> Seq(0 .. SourceLen)]
  BY DEF Unlink, FilesInv
<1>6. data' \in [FileNodes -> Seq(0 .. SourceLen)]
  <2>1. << >> \in Seq(0 .. SourceLen)
    OBVIOUS
  <2> QED
    BY <1>5, <2>1
<1> QED
  BY <1>4, <1>6, LookupFinds

\* What emptying a file changes: only its data.
LEMMA EmptyLooks ==
  ASSUME FilesInv, NEW n \in FileNodes, Empty(n)
  PROVE  /\ TreeOK(parent', name') /\ data' \in [FileNodes -> Seq(0 .. SourceLen)]
         /\ \A q : Lookup(q)' = Lookup(q)
         /\ data'[n] = << >>
<1>1. data' = [data EXCEPT ![n] = << >>] /\ data \in [FileNodes -> Seq(0 .. SourceLen)]
      /\ parent' = parent /\ name' = name /\ TreeOK(parent, name)
  BY DEF Empty, FilesInv
<1>2. << >> \in Seq(0 .. SourceLen)
  OBVIOUS
<1> QED
  BY <1>1, <1>2, LookupFinds

\* Nothing is below a file.
LEMMA FilesAreLeaves ==
  ASSUME TreeOK(parent, name), NEW n \in FileNodes
  PROVE  Kids(n) = {} /\ ~IsDir(n) /\ n # None /\ n \in Nodes \ {Top}
<1>1. n # Top /\ n \notin Dirs /\ n \in Nodes /\ None \notin Nodes
  BY DEF FilesAssumption, Nodes
<1>2. ~IsDir(n)
  BY <1>1 DEF IsDir
<1>3. \A m \in Nodes \ {Top} : parent[m] # None => IsDir(parent[m])
  BY DEF TreeOK
<1>4. Kids(n) = {}
  BY <1>1, <1>2, <1>3 DEF Kids
<1>5. n # None /\ n \in Nodes \ {Top}
  BY <1>1
<1> QED
  BY <1>2, <1>4, <1>5

\* A removal ends what its caller is owed.
LEMMA RemovalRecovers ==
  ASSUME NEW r \in Calls, Stage(r), r.at \in Active \ {"write"}, r.op \in {"delete", "rename"},
         NEW o, o = [r EXCEPT !.own = TRUE]
  PROVE  o \in Calls /\ Stage(o) /\ Recovers(o)' /\ ~Owed(o)'
<1>1. /\ o \in Calls /\ o.at = r.at /\ o.op = r.op /\ o.path = r.path /\ o.to = r.to
      /\ o.offset = r.offset /\ o.node = r.node /\ o.touched = r.touched /\ o.fit = r.fit
      /\ o.own = TRUE /\ o.stack = r.stack /\ o.pos = r.pos /\ o.tries = r.tries
      /\ o.faulted = r.faulted
  BY OwnFields, ZenonT(60)
<1>2. Stage(o)
  BY <1>1 DEF Stage
<1>3. o.offset = 0
  BY <1>1 DEF Stage, Active
<1>4. Kept(o)'
  BY <1>1, <1>3 DEF Kept, Active
<1>5. ~Owed(o)'
  BY <1>1 DEF Owed, Excused
<1> QED
  BY <1>1, <1>2, <1>4, <1>5 DEF Recovers, Stage

\* And it may come to its end.
LEMMA RemovalIsDone ==
  ASSUME NEW r \in Calls, Stage(r), r.at \in Active \ {"write"}, r.op \in {"delete", "rename"},
         NEW j, j = [Done(r) EXCEPT !.own = TRUE]
  PROVE  j \in Calls /\ CallOK(j)'
<1>1. PICK o : o = [r EXCEPT !.own = TRUE]
  OBVIOUS
<1>2. j = Done(o)
  BY <1>1 DEF Done, Calls
<1>3. o \in Calls /\ Stage(o) /\ ~Owed(o)' /\ o.at = r.at /\ o.op = r.op
  BY <1>1, RemovalRecovers, OwnFields
<1>4. Done(o) \in Calls /\ CallOK(Done(o))'
  <2>1. Stage(o)'
    BY <1>3 DEF Stage
  <2>2. \A x : x \in Calls /\ Stage(x)' /\ x.at \in Active \ {"write"} /\ x.op # "copy" /\ ~Owed(x)'
          => Done(x) \in Calls /\ CallOK(Done(x))'
    BY DoneHoldsNext DEF Done
  <2> QED
    BY <1>3, <2>1, <2>2
<1> QED
  BY <1>2, <1>4

-----------------------------------------------------------------------------
(* Calls that begin, return, fail and look. *)

\* An idle caller's record is a call.
LEMMA IdleCall == Idle \in Calls
<1>1. /\ "idle" \in Active \cup {"idle", "done", "failed"} /\ "none" \in Ops \cup {"none"}
      /\ << >> \in Seq(Names) /\ "" \in Names \cup {"", "file", "folder"} /\ MaxTries \in 0 .. MaxTries
      /\ << >> \in Seq(Frames) /\ None \in FileNodes \cup {None} /\ 0 \in Nat /\ 0 \in 0 .. SourceLen
      /\ FALSE \in BOOLEAN
  BY FilesAssumption
<1> QED
  BY <1>1 DEF Idle, Calls

\* An idle caller who keeps what he was told of an abandoned copy.
Resting(p, k, b) == [Idle EXCEPT !.path = p, !.offset = k, !.touched = b]

\* Nothing is owed to him, and his offset is kept.
LEMMA IdleHolds ==
  ASSUME NEW p \in Seq(Names), NEW k \in 0 .. SourceLen, NEW b \in BOOLEAN,
         NEW j, j = Resting(p, k, b)
  PROVE  /\ j \in Calls /\ Stage(j) /\ ~Owed(j)
         /\ j.path = p /\ j.offset = k /\ j.touched = b /\ j.at = "idle"
<1>1. j \in Calls
  BY IdleCall DEF Calls, Resting
<1>2. /\ j.at = "idle" /\ j.op = "none" /\ j.path = p /\ j.offset = k /\ j.touched = b
      /\ j.node = None /\ j.pos = 0 /\ j.stack = << >> /\ j.fit = FALSE
  BY DEF Idle, Resting
<1>3. Stage(j)
  <2>1. Len(j.stack) = 0
    BY <1>2
  <2> QED
    BY <1>2, <2>1 DEF Stage
<1> QED
  BY <1>1, <1>2, <1>3 DEF Owed

\* An idle caller stands as a call should.
LEMMA IdleIsFine == CallOK(Idle)
<1>1. /\ Idle.at = "idle" /\ Idle.op = "none" /\ Idle.path = << >> /\ Idle.offset = 0
      /\ Idle.node = None /\ Idle.pos = 0 /\ Idle.stack = << >> /\ Idle.fit = FALSE
  BY DEF Idle
<1>2. Len(Idle.stack) = 0
  BY <1>1
<1> QED
  BY <1>1, <1>2 DEF CallOK, Stage, Kept, Succeeds, Owed

\* The call returns: a local copy that failed leaves its offset with the caller.
LEMMA ReturnStep ==
  ASSUME FilesInv, NEW c \in Callers, Return(c)
  PROVE  FilesInv'
<1> DEFINE r == call[c]
<1>1. r \in Calls /\ Stage(r) /\ Kept(r) /\ r.path \in Seq(Names) /\ r.offset \in 0 .. SourceLen
      /\ r.touched \in BOOLEAN
  BY CallFacts DEF Calls
<1>2. CallOK(Idle)
  BY IdleIsFine
<1>3. CASE r.op = "copy" /\ At(c, "failed") /\ backend = "local"
  <2>1. PICK j : j = Resting(r.path, r.offset, r.touched)
    OBVIOUS
  <2>2. /\ j \in Calls /\ Stage(j) /\ ~Owed(j)
        /\ j.path = r.path /\ j.offset = r.offset /\ j.touched = r.touched /\ j.at = "idle"
    BY <1>1, <2>1, IdleHolds
  <2>3. Kept(j)
    BY <1>1, <1>3, <2>2 DEF Kept, At
  <2>4. Answer(c, j) /\ backend' = backend /\ late' = late
    BY <1>3, <2>1 DEF Return, Answer, Resting
  <2> QED
    BY <2>2, <2>3, <2>4, AnswerStep DEF CallOK, Succeeds
<1>4. CASE ~(r.op = "copy" /\ At(c, "failed") /\ backend = "local")
  <2>1. Answer(c, Idle) /\ backend' = backend /\ late' = late
    BY <1>4 DEF Return, Answer
  <2> QED
    BY <1>2, <2>1, IdleCall, AnswerStep
<1> QED
  BY <1>3, <1>4

\* A request fails before it has any effect.
LEMMA FaultStep ==
  ASSUME FilesInv, NEW c \in Callers, Fault(c)
  PROVE  FilesInv'
<1>1. call[c].at \in Active \ {"write"}
  BY CallFacts DEF Fault, Calls
<1>2. Recovers(call[c])
  BY <1>1, Started
<1>3. PICK j : j = Faulted(call[c])
  OBVIOUS
<1>4. j \in Calls /\ CallOK(j)
  BY <1>2, <1>3, FaultedHolds
<1>5. faults' \in 0 .. MaxFaults
  <2>1. faults \in 0 .. MaxFaults /\ MaxFaults \in Nat /\ faults < MaxFaults /\ faults' = faults + 1
    BY FilesAssumption DEF FilesInv, Fault
  <2> QED
    BY <2>1
<1>6. late' \subseteq Late /\ UNCHANGED <<backend, tree>> /\ call' = [call EXCEPT ![c] = j]
  BY <1>3 DEF FilesInv, Fault
<1> QED
  BY <1>4, <1>5, <1>6, QuietStep

\* An answer, with all that it leaves as it is.
Answers(c, j) == Answer(c, j) /\ backend' = backend /\ late' = late

\* It keeps the invariant if it keeps its call.
LEMMA AnswersStep ==
  ASSUME FilesInv, NEW c \in Callers, NEW j, j \in Calls, CallOK(j), Answers(c, j)
  PROVE  FilesInv'
  BY AnswerStep DEF Answers

\* A call at another place in the same attempt.
SameBut(r, j) ==
  /\ j.op = r.op /\ j.path = r.path /\ j.to = r.to /\ j.offset = r.offset /\ j.node = r.node
  /\ j.touched = r.touched /\ j.fit = r.fit /\ j.own = r.own /\ j.faulted = r.faulted

\* Stat after a creation: the node is found, or somebody removed it.
LEMMA StatStep ==
  ASSUME FilesInv, NEW c \in Callers, Stat(c)
  PROVE  FilesInv'
<1> DEFINE r == call[c]
<1>1. r \in Calls /\ Stage(r) /\ Kept(r) /\ Succeeds(r) /\ r.at = "stat" /\ r.at \in Active \ {"write"}
  BY CallFacts DEF Stat, At, Active
<1>2. r.op \in {"mkdir", "create"}
  BY <1>1 DEF Stage
<1>3. PICK j : j = IF Lookup(r.path) = None THEN Fatal(r) ELSE Done(r)
  OBVIOUS
<1>4. j \in Calls /\ CallOK(j)
  <2>1. CASE Lookup(r.path) = None
    <3>1. ~Owed(r)
      BY <1>1, <2>1, OwedIsAble DEF Able
    <3> QED
      BY <1>1, <1>3, <2>1, <3>1, FatalHolds
  <2>2. CASE Lookup(r.path) # None
    <3>1. Owed(r) => Fits(r)
      BY <1>1, OwedIsAble
    <3> QED
      BY <1>1, <1>2, <1>3, <2>2, <3>1, DoneHolds
  <2> QED
    BY <2>1, <2>2
<1>5. Answer(c, j) /\ backend' = backend /\ late' = late
  BY <1>3 DEF Stat, Answer
<1> QED
  BY <1>4, <1>5, AnswerStep

\* The local deletion looks what it is to delete.
LEMMA LstatStep ==
  ASSUME FilesInv, NEW c \in Callers, Lstat(c)
  PROVE  FilesInv'
<1> DEFINE r == call[c]
           n == Lookup(r.path)
<1>1. r \in Calls /\ Stage(r) /\ Kept(r) /\ Succeeds(r) /\ r.at = "lstat" /\ r.at \in Active \ {"write"}
  BY CallFacts DEF Lstat, At, Active
<1>2. r.op = "delete" /\ r.offset = 0 /\ r.to \in {"file", "folder"}
  BY <1>1 DEF Stage
<1>3. PICK j : /\ j = IF n = None \/ IsDir(n) # (r.to = "folder") THEN Again(r)
                      ELSE [r EXCEPT !.at = IF r.to = "file" THEN "remove" ELSE "removeAll"]
               /\ Answers(c, j)
  BY DEF Lstat, Answers, Answer
<1>4. CASE n = None \/ IsDir(n) # (r.to = "folder")
  <2>1. j = Again(r)
    BY <1>3, <1>4
  <2>2. ~Owed(r)
    BY <1>1, <1>2, <1>4, OwedIsAble DEF Fits
  <2>3. Renewed(r)
    BY <1>1, <2>2 DEF Renewed
  <2> QED
    BY <1>3, <2>1, <2>3, AgainHolds, AnswersStep
<1>5. ASSUME NEW a \in {"remove", "removeAll"}, a = IF r.to = "file" THEN "remove" ELSE "removeAll",
             n # None, IsDir(n) = (r.to = "folder")
      PROVE  FilesInv'
  <2>1. j = [r EXCEPT !.at = a]
    BY <1>3, <1>5
  <2>2. j \in Calls /\ SameBut(r, j) /\ j.at = a /\ j.stack = r.stack /\ j.pos = r.pos /\ j.tries = r.tries
    BY <1>1, <1>5, <2>1 DEF Calls, Active, SameBut
  <2>3. r.stack = << >> /\ r.pos = 0 /\ Len(r.stack) = 0 /\ r.path # << >> /\ r.node = None
    BY <1>1 DEF Stage
  <2>4. Stage(j)
    BY <1>2, <1>5, <2>2, <2>3 DEF Stage, SameBut
  <2>5. Kept(j)
    BY <1>2, <1>5, <2>2 DEF Kept, SameBut
  <2>6. ASSUME Owed(j)
        PROVE  Owed(r) /\ Able(r)
    BY <1>1, <2>2, <2>6, OwedIsAble DEF Owed, Excused, SameBut
  <2>7. ASSUME Owed(j)
        PROVE  Able(j)
    BY <1>2, <1>5, <2>2, <2>3, <2>6, <2>7 DEF Able, Fits, InDir, To, SameBut
  <2>8. Succeeds(j)
    BY <1>1, <1>5, <2>2, <2>6, <2>7 DEF Succeeds, SameBut
  <2> QED
    BY <1>3, <2>2, <2>4, <2>5, <2>8, AnswersStep DEF CallOK
<1> QED
  BY <1>4, <1>5

\* A call begins.
Begun(op, path, to, fit, k, b, a) ==
  [Idle EXCEPT !.op = op, !.path = path, !.to = to, !.fit = fit, !.offset = k, !.touched = b, !.at = a]

\* Whether a call can be done is yes or no, also for operations of unknown names.
LEMMA FitIsBoolean ==
  ASSUME NEW op \in Ops, NEW path, NEW to
  PROVE  Fit(op, path, to) \in BOOLEAN
<1>1. op \in {"mkdir", "create", "copy", "delete", "rename"}
  BY DEF Ops
<1>2. CASE op = "mkdir"
  BY <1>2 DEF Fit
<1>3. CASE op = "create"
  BY <1>3 DEF Fit
<1>4. CASE op = "delete"
  BY <1>4 DEF Fit
<1>5. CASE op = "rename"
  BY <1>5 DEF Fit
<1>6. CASE op = "copy"
  BY <1>6 DEF Fit
<1> QED
  BY <1>1, <1>2, <1>3, <1>4, <1>5, <1>6

\* What a caller asks for.
Asked(op, path, to) ==
  /\ op \in Ops /\ path \in Seq(Names) /\ path # << >> /\ to \in Names \cup {"", "file", "folder"}
  /\ op = "delete" => to \in {"file", "folder"}
  /\ op = "rename" => to \in Names /\ to # Last(path)

\* A call begins: what it needs at its first place is what Fit asked for.
LEMMA CallStep ==
  ASSUME FilesInv, NEW c \in Callers, NEW op, NEW path, NEW to, Asked(op, path, to), Call(c, op, path, to)
  PROVE  FilesInv'
<1> DEFINE r == call[c]
           resumed == op = "copy" /\ r.offset > 0
<1>0. /\ op \in {"mkdir", "create", "copy", "delete", "rename"} /\ op \in Ops
      /\ path \in Seq(Names) /\ path # << >> /\ Len(path) \in Nat \ {0}
      /\ to \in Names \cup {"", "file", "folder"} /\ (op = "delete" => to \in {"file", "folder"})
      /\ (op = "rename" => to \in Names /\ to # Last(path))
  <2>1. path \in Seq(Names) /\ path # << >>
    BY DEF Asked
  <2>2. Len(path) \in Nat \ {0}
    BY <2>1
  <2> QED
    BY <2>1, <2>2 DEF Asked, Ops
<1>1. r \in Calls /\ Kept(r) /\ r.offset \in 0 .. SourceLen /\ r.touched \in BOOLEAN
  BY CallFacts DEF Calls
<1>2. PICK fit, k, b : /\ fit = Fit(op, path, to)
                       /\ k = IF resumed THEN r.offset ELSE 0
                       /\ b = (resumed /\ r.touched)
  OBVIOUS
<1>3. fit \in BOOLEAN /\ k \in 0 .. SourceLen /\ b \in BOOLEAN
  <2>1. SourceLen \in Nat
    BY FilesAssumption DEF FilesAssumption
  <2> QED
    <3>1. fit \in BOOLEAN
      BY <1>0, <1>2, FitIsBoolean
    <3>2. k \in 0 .. SourceLen
      BY <1>1, <1>2, <2>1
    <3>3. b \in BOOLEAN
      BY <1>2
    <3> QED
      BY <3>1, <3>2, <3>3
<1>4. PICK j : j = Begun(op, path, to, fit, k, b, First([Idle EXCEPT !.op = op, !.path = path, !.to = to,
                                                 !.fit = fit, !.offset = k, !.touched = b]))
  OBVIOUS
<1>5. PICK a : a = IF op = "delete" THEN IF backend = "local" THEN "lstat"
                                         ELSE IF to = "file" THEN "remove" ELSE "removeAll"
                   ELSE op
  OBVIOUS
<1>6. j = Begun(op, path, to, fit, k, b, a)
  <2>1. First([Idle EXCEPT !.op = op, !.path = path, !.to = to,
                           !.fit = fit, !.offset = k, !.touched = b]) = a
    BY <1>5 DEF First, Idle
  <2> QED
    BY <1>4, <2>1
<1>7. /\ a \in Active \ {"write", "stat"}
      /\ a = "mkdir" => op = "mkdir"
      /\ a = "create" => op = "create"
      /\ a = "rename" => op = "rename"
      /\ a = "copy" => op = "copy"
      /\ a \in {"lstat", "remove", "removeAll"} => op = "delete"
      /\ a = "remove" => to = "file"
      /\ a = "removeAll" => to = "folder"
  BY <1>0, <1>5 DEF Active
<1>8. /\ j \in Calls /\ j.op = op /\ j.path = path /\ j.to = to /\ j.fit = fit /\ j.offset = k
      /\ j.touched = b /\ j.at = a /\ j.tries = MaxTries /\ j.stack = << >> /\ j.node = None
      /\ j.pos = 0 /\ j.own = FALSE /\ j.faulted = 0
  <2>1. j \in Calls
    <3>1. a \in Active \cup {"idle", "done", "failed"} /\ op \in Ops \cup {"none"}
      BY <1>0, <1>7
    <3>2. path \in Seq(Names) /\ to \in Names \cup {"", "file", "folder"}
      BY <1>0
    <3>3. j = [at |-> a, op |-> op, path |-> path, to |-> to, tries |-> MaxTries,
               stack |-> << >>, node |-> None, pos |-> 0, offset |-> k,
               touched |-> b, fit |-> fit, own |-> FALSE, faulted |-> 0]
      BY <1>6 DEF Begun, Idle
    <3>4. /\ MaxTries \in 0 .. MaxTries /\ << >> \in Seq(Frames) /\ None \in FileNodes \cup {None}
          /\ 0 \in Nat /\ FALSE \in BOOLEAN
      BY FilesAssumption
    <3> QED
      BY <1>3, <3>1, <3>2, <3>3, <3>4 DEF Calls
  <2> QED
    BY <1>6, <2>1 DEF Begun, Idle
<1>9. Stage(j)
  <2>1. path # << >> /\ Len(path) \in Nat \ {0} /\ Len(j.stack) = 0 /\ op # "none" /\ (op # "copy" => k = 0)
    BY <1>0, <1>2, <1>8
  <2> QED
    <3>1. a \notin {"idle", "stat", "write"} /\ (op \notin {"copy", "none"} => k = 0)
      BY <1>7, <2>1 DEF Active
    <3>2. op = "rename" => to \in Names /\ to # Last(path)
      BY <1>0
    <3>3. op = "delete" => to \in {"file", "folder"}
      BY <1>0
    <3> QED
      BY <1>7, <1>8, <2>1, <3>1, <3>2, <3>3 DEF Stage
<1>10. Kept(j)
  <2> SUFFICES ASSUME k > 0, ~b
               PROVE  LET n == Lookup(path) IN
                        /\ n \in FileNodes /\ Len(data[n]) <= SourceLen /\ k <= Len(data[n])
                        /\ \A i \in 1 .. k : data[n][i] = i
    BY <1>7, <1>8 DEF Kept, Active
  <2>1. resumed /\ k = r.offset /\ ~r.touched /\ r.path = path
    <3>1. resumed /\ k = r.offset
      BY <1>2, <1>3
    <3>2. ~r.touched
      BY <1>2, <3>1
    <3>3. r.path = path
      BY <3>1 DEF Call
    <3> QED
      BY <3>1, <3>2, <3>3
  <2> QED
    BY <1>1, <2>1 DEF Kept
<1>11. Succeeds(j)
  <2> SUFFICES ASSUME Owed(j)
               PROVE  Able(j)
    <3>1. MaxTries = MaxTries - 0
      BY FilesAssumption DEF FilesAssumption
    <3> QED
      BY <1>7, <1>8, <3>1 DEF Succeeds, Active
  <2>1. Fit(op, path, to)
    BY <1>2, <1>8 DEF Owed
  <2>2. Fits(j)
    <3>1. op \in {"mkdir", "create", "copy", "delete", "rename"}
      BY <1>0
    <3> QED
      BY <1>8, <2>1, <3>1 DEF Fits, Fit, InDir, To
  <2>3. backend = "sftp" /\ op = "mkdir" => InDir(j.path) /\ Lookup(j.path) = None
    BY <1>8, <2>1 DEF Fit
  <2>4. IsDir(Lookup(SubSeq(j.path, 1, j.pos)))
    <3>1. SubSeq(j.path, 1, j.pos) = << >>
      <4>1. j.path \in Seq(Names) /\ j.pos = 0
        BY <1>0, <1>8
      <4> QED
        BY <4>1
    <3> QED
      BY <3>1, TopIsFound DEF IsDir
  <2>5. Len(j.stack) = 0
    BY <1>8
  <2> QED
    BY <1>7, <1>8, <2>2, <2>3, <2>4, <2>5 DEF Able, InDir
<1>12. Answers(c, j)
  <2>1. call' = [call EXCEPT ![c] = j]
    BY <1>2, <1>4 DEF Call, Set, Begun
  <2> QED
    BY <2>1 DEF Answers, Answer, Call, Set
<1> QED
  BY <1>8, <1>9, <1>10, <1>11, <1>12, AnswersStep DEF CallOK

\* Whatever a caller begins.
LEMMA StartStep ==
  ASSUME FilesInv, NEW c \in Callers, Start(c)
  PROVE  FilesInv'
<1>1. PICK p \in Paths : \/ \E op \in {"mkdir", "create", "copy"} : Call(c, op, p, "")
                         \/ \E t \in {"file", "folder"} : Call(c, "delete", p, t)
                         \/ \E x \in Names \ {Last(p)} : Call(c, "rename", p, x)
  BY DEF Start
<1>2. p \in Seq(Names) /\ p # << >>
  BY FilesAssumption DEF FilesAssumption
<1>3. CASE \E op \in {"mkdir", "create", "copy"} : Call(c, op, p, "")
  BY <1>2, <1>3, CallStep DEF Asked, Ops
<1>4. CASE \E t \in {"file", "folder"} : Call(c, "delete", p, t)
  BY <1>2, <1>4, CallStep DEF Asked, Ops
<1>5. CASE \E x \in Names \ {Last(p)} : Call(c, "rename", p, x)
  BY <1>2, <1>5, CallStep DEF Asked, Ops
<1> QED
  BY <1>1, <1>3, <1>4, <1>5

-----------------------------------------------------------------------------
(* Calls that make nodes. *)

\* A call that is not owed success gives up.
LEMMA GiveUpStep ==
  ASSUME FilesInv, NEW c \in Callers, call[c].at \in Active \ {"write"}, ~Owed(call[c]),
         Answers(c, Fatal(call[c]))
  PROVE  FilesInv'
<1>1. Fatal(call[c]) \in Calls /\ CallOK(Fatal(call[c]))
  BY CallFacts, FatalHolds
<1> QED
  BY <1>1, AnswersStep

\* A call that is not owed success begins again, or has no attempt left.
LEMMA RetryStep ==
  ASSUME FilesInv, NEW c \in Callers, call[c].at \in Active \ {"write"}, ~Owed(call[c]),
         Answers(c, Again(call[c]))
  PROVE  FilesInv'
<1>1. Renewed(call[c])
  BY CallFacts DEF Renewed
<1>2. Again(call[c]) \in Calls /\ CallOK(Again(call[c]))
  BY <1>1, AgainHolds
<1> QED
  BY <1>2, AnswersStep

\* A call finds the tree full, and is owed nothing more.
LEMMA NoRoomStep ==
  ASSUME FilesInv, NEW c \in Callers, call[c].at \in Active \ {"write"},
         Answers(c, Fatal([call[c] EXCEPT !.fit = FALSE]))
  PROVE  FilesInv'
<1> DEFINE r == call[c]
<1>1. PICK f : f = [r EXCEPT !.fit = FALSE]
  OBVIOUS
<1>2. r \in Calls /\ Stage(r) /\ Kept(r)
  BY CallFacts
<1>3. /\ f \in Calls /\ f.at = r.at /\ f.op = r.op /\ f.path = r.path /\ f.to = r.to
      /\ f.offset = r.offset /\ f.node = r.node /\ f.touched = r.touched /\ f.fit = FALSE
      /\ f.own = r.own /\ f.stack = r.stack /\ f.pos = r.pos /\ f.tries = r.tries
  BY <1>1, <1>2 DEF Calls
<1>4. Stage(f)
  BY <1>2, <1>3 DEF Stage
<1>5. Kept(f)
  BY <1>2, <1>3 DEF Kept
<1>6. ~Owed(f)
  BY <1>3 DEF Owed
<1>7. Fatal(f) \in Calls /\ CallOK(Fatal(f))
  BY <1>3, <1>4, <1>5, <1>6, FatalHolds
<1> QED
  BY <1>1, <1>7, AnswersStep

\* A free node is free.
LEMMA FreeNodeIs ==
  ASSUME NEW kind, \E n \in kind : Free(n)
  PROVE  FreeNode(kind) \in kind /\ Free(FreeNode(kind))
  BY DEF FreeNode

\* The folders of a path, as MkdirAll walks them.
LEMMA PrefixFacts ==
  ASSUME NEW path \in Seq(Names), NEW i \in 1 .. Len(path)
  PROVE  /\ SubSeq(path, 1, i) \in Seq(Names) /\ SubSeq(path, 1, i) # << >>
         /\ Front(SubSeq(path, 1, i)) = SubSeq(path, 1, i - 1)
         /\ i = Len(path) => SubSeq(path, 1, i) = path
<1>1. SubSeq(path, 1, i) \in Seq(Names) /\ Len(SubSeq(path, 1, i)) = i
  OBVIOUS
<1>2. Front(SubSeq(path, 1, i)) = SubSeq(path, 1, i - 1)
  BY <1>1 DEF Front
<1>3. i = Len(path) => SubSeq(path, 1, i) = path
  OBVIOUS
<1> QED
  BY <1>1, <1>2, <1>3, SMTT(30)

\* The call j in place of r, at another place of the same attempt.
GoesOn(r, j) ==
  /\ j \in Calls /\ Stage(j) /\ j.tries = r.tries
  /\ j.op = r.op /\ j.path = r.path /\ j.to = r.to /\ j.offset = r.offset /\ j.node = r.node
  /\ j.touched = r.touched /\ j.fit = r.fit /\ j.faulted = r.faulted

\* A call that knows it has changed something.
Knowing(x) == [x EXCEPT !.own = TRUE]

\* Something was made for a call that goes on.
LEMMA MadeStep ==
  ASSUME FilesInv, NEW c \in Callers, NEW r, r = call[c], r.at \in {"mkdir", "create"},
         NEW x, Changed(c, x), NEW j, j = Knowing(x),
         GoesOn(r, j), j.at \in {"mkdir", "stat"},
         Owed(r) => Fits(r)', Owed(r) => Able(j)', backend' = backend, late' = late,
         TreeOK(parent', name'), data' \in [FileNodes -> Seq(0 .. SourceLen)]
  PROVE  FilesInv'
<1>0. /\ j \in Calls /\ Stage(j) /\ j.tries = r.tries
      /\ j.op = r.op /\ j.path = r.path /\ j.to = r.to /\ j.offset = r.offset /\ j.node = r.node
      /\ j.touched = r.touched /\ j.fit = r.fit /\ j.faulted = r.faulted
  BY DEF GoesOn
<1>1. r \in Calls /\ Stage(r) /\ Kept(r) /\ Succeeds(r) /\ r.at \in Active \ {"write"}
  BY CallFacts DEF Active
<1>2. r.op \in {"mkdir", "create"} /\ r.offset = 0
  BY <1>1 DEF Stage
<1>3. backend = "local" /\ Owed(r) => r.tries = MaxTries - r.faulted
  BY <1>1, <1>2 DEF Succeeds
<1>4. Kept(j)'
  BY <1>0, <1>2 DEF Kept
<1>5. Owed(j)' => Owed(r)
  BY <1>0, <1>2 DEF Owed, Excused
<1>6. Succeeds(j)'
  BY <1>0, <1>3, <1>5 DEF Succeeds
<1>7. PICK o : o = [r EXCEPT !.own = TRUE]
  OBVIOUS
<1>8. /\ o \in Calls /\ o.at = r.at /\ o.op = r.op /\ o.path = r.path /\ o.to = r.to
      /\ o.offset = r.offset /\ o.node = r.node /\ o.touched = r.touched /\ o.fit = r.fit
      /\ o.own = TRUE /\ o.stack = r.stack /\ o.pos = r.pos /\ o.tries = r.tries
      /\ o.faulted = r.faulted
  BY <1>1, <1>7 DEF Calls
<1>9. Recovers(o)'
  <2>1. Stage(o)'
    BY <1>1, <1>8 DEF Stage
  <2>2. Kept(o)'
    BY <1>2, <1>8 DEF Kept
  <2>3. Owed(o)' => Owed(r)
    BY <1>2, <1>8 DEF Owed, Excused
  <2>4. Owed(o)' => Fits(o)'
    BY <1>2, <1>8, <2>3 DEF Fits, InDir
  <2> QED
    BY <1>1, <1>3, <1>8, <2>1, <2>2, <2>3, <2>4 DEF Recovers
<1>10. CallOK(j)'
  BY <1>0, <1>4, <1>6 DEF CallOK, Stage
<1>11. j = [x EXCEPT !.own = TRUE]
  BY DEF Knowing
<1> QED
  BY <1>0, <1>7, <1>9, <1>10, <1>11, ChangedStep

\* MakeOne finds no room, or makes a node that is free.
LEMMA MakeOneIs ==
  ASSUME NEW c, NEW kind, NEW path, NEW x, MakeOne(c, kind, path, x)
  PROVE  \/ Answer(c, Fatal([call[c] EXCEPT !.fit = FALSE]))
         \/ \E n \in kind : Free(n) /\ Make(n, path) /\ Changed(c, x)
<1>1. CASE \E n \in kind : Free(n)
  BY <1>1, FreeNodeIs DEF MakeOne
<1>2. CASE ~\E n \in kind : Free(n)
  BY <1>2 DEF MakeOne
<1> QED
  BY <1>1, <1>2

\* os.Create, local and remote.
LEMMA CreateFileStep ==
  ASSUME FilesInv, NEW c \in Callers, CreateFile(c)
  PROVE  FilesInv'
<1>1. PICK r : r = call[c]
  OBVIOUS
<1>2. /\ r \in Calls /\ Stage(r) /\ Succeeds(r) /\ r.path \in Seq(Names) /\ r.at = "create"
      /\ r.at \in Active \ {"write"} /\ backend' = backend /\ late' = late
  BY <1>1, CallFacts DEF CreateFile, At, Active
<1>3. r.op = "create" /\ r.path # << >> /\ r.node = None /\ r.offset = 0 /\ r.stack = << >> /\ r.pos = 0
  BY <1>2 DEF Stage
<1> DEFINE n == Lookup(r.path)
<1>4. CASE ~InDir(r.path) /\ Answer(c, Fatal(r))
  <2>1. ~Owed(r)
    BY <1>2, <1>3, <1>4, OwedIsAble DEF Fits
  <2> QED
    BY <1>1, <1>2, <1>4, <2>1, GiveUpStep DEF Answers
<1>5. CASE IsDir(n) /\ Answer(c, IF backend = "local" THEN Fatal(r) ELSE Again(r))
  <2>1. ~Owed(r)
    BY <1>2, <1>3, <1>5, OwedIsAble DEF Fits
  <2>2. CASE backend = "local"
    BY <1>1, <1>2, <1>5, <2>1, <2>2, GiveUpStep DEF Answers
  <2>3. CASE backend # "local"
    BY <1>1, <1>2, <1>5, <2>1, <2>3, RetryStep DEF Answers
  <2> QED
    BY <2>2, <2>3
<1>6. ASSUME NEW x, x = [r EXCEPT !.at = "stat"], Changed(c, x),
             NEW m \in FileNodes, Lookup(r.path)' = m,
             InDir(r.path) => InDir(r.path)', TreeOK(parent', name'),
             data' \in [FileNodes -> Seq(0 .. SourceLen)]
      PROVE  FilesInv'
  <2>1. PICK j : j = Knowing(x)
    OBVIOUS
  <2>2. /\ j \in Calls /\ j.at = "stat" /\ j.op = r.op /\ j.path = r.path /\ j.to = r.to
        /\ j.offset = r.offset /\ j.node = r.node /\ j.touched = r.touched /\ j.fit = r.fit
        /\ j.stack = r.stack /\ j.pos = r.pos /\ j.tries = r.tries /\ j.faulted = r.faulted
    BY <1>2, <1>6, <2>1 DEF Calls, Active, Knowing
  <2>3. Stage(j)
    <3>1. Len(j.stack) = 0
      BY <1>3, <2>2
    <3> QED
      BY <1>3, <2>2, <3>1 DEF Stage
  <2>4. m # None /\ ~IsDir(m)
    BY FilesAreLeaves DEF FilesInv
  <2>5. Owed(r) => Fits(r)'
    <3> SUFFICES ASSUME Owed(r)
                 PROVE  Fits(r)'
      OBVIOUS
    <3>1. InDir(r.path)'
      BY <1>2, <1>3, <1>6, OwedIsAble DEF Fits
    <3>2. ~IsDir(Lookup(r.path)')
      BY <1>6, <2>4
    <3> QED
      BY <1>3, <3>1, <3>2 DEF Fits, IsDir
  <2>6. Owed(r) => Able(j)'
    <3> SUFFICES ASSUME Owed(r)
                 PROVE  Able(j)'
      OBVIOUS
    <3>1. Fits(j)'
      BY <1>3, <2>2, <2>5 DEF Fits, InDir
    <3>2. Len(j.stack) = 0 /\ j.stack = << >>
      BY <1>3, <2>2
    <3>3. Lookup(j.path)' # None
      BY <1>6, <2>2, <2>4
    <3> QED
      BY <2>2, <3>1, <3>2, <3>3 DEF Able
  <2>7. GoesOn(r, j)
    BY <2>2, <2>3 DEF GoesOn
  <2> QED
    BY <1>1, <1>2, <1>6, <2>1, <2>2, <2>5, <2>6, <2>7, MadeStep
<1>7. CASE InDir(r.path) /\ n = None /\ MakeOne(c, FileNodes, r.path, [r EXCEPT !.at = "stat"])
  <2>1. PICK x : x = [r EXCEPT !.at = "stat"]
    OBVIOUS
  <2>2. CASE Answer(c, Fatal([r EXCEPT !.fit = FALSE]))
    BY <1>1, <1>2, <2>2, NoRoomStep DEF Answers
  <2>3. ASSUME NEW m \in FileNodes, Free(m), Make(m, r.path), Changed(c, x)
        PROVE  FilesInv'
    <3>1. /\ TreeOK(parent', name') /\ data' \in [FileNodes -> Seq(0 .. SourceLen)]
          /\ Lookup(r.path)' = m
          /\ \A q \in Seq(Names) : Lookup(q) # None => Lookup(q)' = Lookup(q)
      BY <1>2, <1>3, <1>7, <2>3, MakeLooks
    <3>2. InDir(r.path)'
      <4>1. Front(r.path) \in Seq(Names)
        BY <1>2, <1>3, FrontFacts
      <4>2. Lookup(Front(r.path)) # None
        BY <1>7 DEF InDir, IsDir, FilesAssumption, Nodes
      <4> QED
        BY <1>7, <3>1, <4>1, <4>2 DEF InDir, IsDir
    <3> QED
      BY <1>6, <2>1, <2>3, <3>1, <3>2
  <2>4. \/ Answer(c, Fatal([call[c] EXCEPT !.fit = FALSE]))
        \/ \E m \in FileNodes : Free(m) /\ Make(m, r.path) /\ Changed(c, x)
    BY <1>7, <2>1, MakeOneIs
  <2> QED
    BY <1>1, <2>2, <2>3, <2>4
<1>8. CASE n \in FileNodes /\ Empty(n) /\ Changed(c, [r EXCEPT !.at = "stat"])
  <2>1. PICK x, m : x = [r EXCEPT !.at = "stat"] /\ m = Lookup(r.path)
    OBVIOUS
  <2>2. /\ TreeOK(parent', name') /\ data' \in [FileNodes -> Seq(0 .. SourceLen)]
        /\ \A q : Lookup(q)' = Lookup(q)
    BY <1>8, EmptyLooks
  <2>3. InDir(r.path) => InDir(r.path)'
    BY <2>2 DEF InDir, IsDir
  <2> QED
    BY <1>6, <1>8, <2>1, <2>2, <2>3
<1> QED
  BY <1>1, <1>4, <1>5, <1>7, <1>8 DEF CreateFile

\* Nothing changed, and the call goes on.
LEMMA MoveStep ==
  ASSUME FilesInv, NEW c \in Callers, NEW r, r = call[c], r.at \in Active \ {"write"}, r.op # "copy",
         NEW j, GoesOn(r, j), j.own = r.own, j.at \in Active \ {"write"}, Owed(r) => Able(j), Answers(c, j)
  PROVE  FilesInv'
<1>1. r \in Calls /\ Stage(r) /\ Succeeds(r)
  BY CallFacts
<1>2. r.op # "none" /\ r.offset = 0
  BY <1>1 DEF Stage, Active
<1>3. /\ j \in Calls /\ Stage(j) /\ j.tries = r.tries
      /\ j.op = r.op /\ j.path = r.path /\ j.to = r.to /\ j.offset = r.offset /\ j.node = r.node
      /\ j.touched = r.touched /\ j.fit = r.fit /\ j.faulted = r.faulted
  BY DEF GoesOn
<1>4. Kept(j)
  BY <1>2, <1>3 DEF Kept, Active
<1>5. Owed(j) => Owed(r)
  BY <1>3 DEF Owed, Excused
<1>6. Succeeds(j)
  BY <1>1, <1>3, <1>5 DEF Succeeds, Active
<1> QED
  BY <1>3, <1>4, <1>6, AnswersStep DEF CallOK

\* The place of MkdirAll after its i-th folder.
NextDir(r, i) ==
  IF i = Len(r.path) THEN [r EXCEPT !.at = "stat", !.pos = 0] ELSE [r EXCEPT !.pos = i]

\* To know of a change is to be at the same place.
LEMMA KnowingFields ==
  ASSUME NEW r, NEW x, GoesOn(r, x), NEW j, j = Knowing(x)
  PROVE  GoesOn(r, j) /\ j.at = x.at /\ j.pos = x.pos /\ j.stack = x.stack
<1>1. x \in Calls
  BY DEF GoesOn
<1>2. /\ j \in Calls /\ j.at = x.at /\ j.op = x.op /\ j.path = x.path /\ j.to = x.to
      /\ j.offset = x.offset /\ j.node = x.node /\ j.touched = x.touched /\ j.fit = x.fit
      /\ j.stack = x.stack /\ j.pos = x.pos /\ j.tries = x.tries
      /\ j.faulted = x.faulted
  BY <1>1 DEF Knowing, Calls
<1>3. Stage(x) => Stage(j)
  BY <1>2 DEF Stage
<1> QED
  BY <1>2, <1>3 DEF GoesOn

\* MkdirAll goes on to the next folder, or to Stat.
LEMMA NextFields ==
  ASSUME NEW r \in Calls, Stage(r), r.at = "mkdir", NEW i \in 1 .. Len(r.path),
         NEW j, j = NextDir(r, i)
  PROVE  /\ GoesOn(r, j) /\ j.at \in {"mkdir", "stat"} /\ j.stack = << >> /\ j.own = r.own
         /\ j.at = "mkdir" => j.pos = i
         /\ j.at = "stat" <=> i = Len(r.path)
<1>0. r.path \in Seq(Names) /\ r.path # << >> /\ i \in Nat /\ Len(r.path) \in Nat
  <2>1. r.path \in Seq(Names)
    BY DEF Calls
  <2> QED
    BY <2>1 DEF Stage
<1>1. r.stack = << >> /\ Len(r.stack) = 0 /\ r.op = "mkdir" /\ r.offset = 0 /\ r.node = None
  BY DEF Stage
<1>2. CASE i = Len(r.path)
  <2>0. j = [r EXCEPT !.at = "stat", !.pos = 0]
    BY <1>2 DEF NextDir
  <2>1. /\ j \in Calls /\ j.at = "stat" /\ j.op = r.op /\ j.path = r.path /\ j.to = r.to
        /\ j.offset = r.offset /\ j.node = r.node /\ j.touched = r.touched /\ j.fit = r.fit
        /\ j.stack = r.stack /\ j.pos = 0 /\ j.tries = r.tries /\ j.faulted = r.faulted
        /\ j.own = r.own
    <3>1. "stat" \in Active \cup {"idle", "done", "failed"} /\ 0 \in Nat
      BY DEF Active
    <3> QED
      BY <2>0, <3>1 DEF Calls
  <2>2. Stage(j)
    BY <1>0, <1>1, <2>1 DEF Stage
  <2> QED
    BY <1>1, <1>2, <2>1, <2>2 DEF GoesOn
<1>3. CASE i # Len(r.path)
  <2>0. j = [r EXCEPT !.pos = i]
    BY <1>3 DEF NextDir
  <2>1. /\ j \in Calls /\ j.at = "mkdir" /\ j.op = r.op /\ j.path = r.path /\ j.to = r.to
        /\ j.offset = r.offset /\ j.node = r.node /\ j.touched = r.touched /\ j.fit = r.fit
        /\ j.stack = r.stack /\ j.pos = i /\ j.tries = r.tries /\ j.faulted = r.faulted
        /\ j.own = r.own
    BY <1>0, <2>0 DEF Calls
  <2>2. i < Len(r.path)
    BY <1>0, <1>3
  <2>3. Stage(j)
    BY <1>0, <1>1, <2>1, <2>2 DEF Stage
  <2> QED
    BY <1>1, <1>3, <2>1, <2>3 DEF GoesOn
<1> QED
  BY <1>2, <1>3

\* One folder of MkdirAll, or the one Mkdir: the folder it is made in was found, or
\* made, by this call.
LEMMA MakeDirStep ==
  ASSUME FilesInv, NEW c \in Callers, MakeDir(c)
  PROVE  FilesInv'
<1>1. PICK r, i, p, n :
        /\ r = call[c] /\ i = IF backend = "local" THEN r.pos + 1 ELSE Len(r.path)
        /\ p = SubSeq(r.path, 1, i) /\ n = Lookup(p)
  OBVIOUS
<1>2. /\ r \in Calls /\ Stage(r) /\ Succeeds(r) /\ r.path \in Seq(Names) /\ r.pos \in Nat /\ r.at = "mkdir"
      /\ r.at \in Active \ {"write"} /\ backend' = backend /\ late' = late
  BY <1>1, CallFacts DEF MakeDir, At, Active
<1>3. r.op = "mkdir" /\ r.path # << >> /\ r.pos < Len(r.path)
  BY <1>2 DEF Stage
<1>4. i \in 1 .. Len(r.path) /\ (backend = "local" => i - 1 = r.pos) /\ (backend # "local" => i = Len(r.path))
  <2>1. PICK k, j : k = Len(r.path) /\ j = r.pos
    OBVIOUS
  <2>2. k \in Nat /\ j \in Nat /\ j < k
    <3>1. Len(r.path) \in Nat
      BY <1>2
    <3> QED
      BY <1>2, <1>3, <2>1, <3>1
  <2>3. i = IF backend = "local" THEN j + 1 ELSE k
    BY <1>1, <2>1
  <2>4. i \in 1 .. k /\ (backend = "local" => i - 1 = j) /\ (backend # "local" => i = k)
    BY <2>2, <2>3
  <2> QED
    BY <2>1, <2>4
<1>5. /\ p \in Seq(Names) /\ p # << >> /\ Front(p) = SubSeq(r.path, 1, i - 1)
      /\ i = Len(r.path) => p = r.path
  <2>1. /\ SubSeq(r.path, 1, i) \in Seq(Names) /\ SubSeq(r.path, 1, i) # << >>
        /\ Front(SubSeq(r.path, 1, i)) = SubSeq(r.path, 1, i - 1)
        /\ i = Len(r.path) => SubSeq(r.path, 1, i) = r.path
    BY <1>2, <1>4, PrefixFacts
  <2>2. p = SubSeq(r.path, 1, i)
    BY <1>1
  <2> QED
    BY <2>1, <2>2
<1>6. backend \in {"local", "sftp"}
  BY FilesAssumption DEF FilesAssumption, FilesInv
<1>7. \/ ~InDir(p) /\ Answer(c, Fatal(r))
      \/ InDir(p) /\ n = None /\ MakeOne(c, Dirs, p, NextDir(r, i))
      \/ InDir(p) /\ n # None /\ Answer(c, IF backend = "sftp" THEN Again(r)
                                            ELSE IF IsDir(n) THEN NextDir(r, i) ELSE Fatal(r))
  BY <1>1 DEF MakeDir, NextDir
<1>8. Owed(r) => InDir(p)
  <2> SUFFICES ASSUME Owed(r)
               PROVE  InDir(p)
    OBVIOUS
  <2>1. Able(r)
    BY <1>2, OwedIsAble
  <2> QED
    BY <1>2, <1>4, <1>5, <1>6, <2>1 DEF Able, InDir
<1>9. TreeOK(parent, name)
  BY DEF FilesInv
<1>10. CASE ~InDir(p) /\ Answer(c, Fatal(r))
  BY <1>1, <1>2, <1>8, <1>10, GiveUpStep DEF Answers
<1>11. CASE InDir(p) /\ n = None /\ MakeOne(c, Dirs, p, NextDir(r, i))
  <2>1. CASE Answer(c, Fatal([r EXCEPT !.fit = FALSE]))
    BY <1>1, <1>2, <2>1, NoRoomStep DEF Answers
  <2>2. ASSUME NEW m \in Dirs, Free(m), Make(m, p), Changed(c, NextDir(r, i))
        PROVE  FilesInv'
    <3>1. /\ TreeOK(parent', name') /\ data' \in [FileNodes -> Seq(0 .. SourceLen)]
          /\ Lookup(p)' = m
          /\ \A q \in Seq(Names) : Lookup(q)' # m => Lookup(q)' = Lookup(q)
      BY <1>1, <1>5, <1>11, <2>2, MakeLooks
    <3>2. m # None /\ m \notin FileNodes /\ IsDir(m)
      BY DEF FilesAssumption, Nodes, IsDir
    <3>3. PICK x, j : x = NextDir(r, i) /\ j = Knowing(x)
      OBVIOUS
    <3>4. /\ GoesOn(r, j) /\ j.at \in {"mkdir", "stat"} /\ j.stack = << >> /\ Len(j.stack) = 0
          /\ j.at = "mkdir" => j.pos = i
          /\ j.at = "stat" <=> i = Len(r.path)
      <4>1. /\ GoesOn(r, x) /\ x.at \in {"mkdir", "stat"} /\ x.stack = << >>
            /\ x.at = "mkdir" => x.pos = i
            /\ x.at = "stat" <=> i = Len(r.path)
        BY <1>2, <1>4, <3>3, NextFields
      <4>2. GoesOn(r, j) /\ j.at = x.at /\ j.pos = x.pos /\ j.stack = x.stack
        <5>1. GoesOn(r, x) /\ j = Knowing(x)
          BY <3>3, <4>1
        <5> QED
          BY <5>1, KnowingFields
      <4> QED
        BY <4>1, <4>2
    <3>5. j.path = r.path /\ j.op = r.op
      BY <3>4 DEF GoesOn
    <3>6. Owed(r) => Fits(r)'
      <4> SUFFICES ASSUME Owed(r), backend = "local", NEW k \in 1 .. Len(r.path)
                   PROVE  Lookup(SubSeq(r.path, 1, k))' \notin FileNodes
        BY <1>2, <1>3 DEF Fits
      <4>1. Lookup(SubSeq(r.path, 1, k)) \notin FileNodes
        BY <1>2, <1>3, OwedIsAble DEF Fits
      <4>2. SubSeq(r.path, 1, k) \in Seq(Names)
        BY <1>2, PrefixFacts
      <4> QED
        BY <3>1, <3>2, <4>1, <4>2
    <3>7. Owed(r) => Able(j)'
      <4> SUFFICES ASSUME Owed(r)
                   PROVE  Able(j)'
        OBVIOUS
      <4>1. Fits(j)'
        BY <1>3, <3>5, <3>6 DEF Fits
      <4>2. j.at = "mkdir" => backend' # "sftp" /\ IsDir(Lookup(SubSeq(j.path, 1, j.pos))')
        BY <1>1, <1>2, <1>4, <3>1, <3>2, <3>4, <3>5, <1>6
      <4>3. j.at = "stat" => Lookup(j.path)' # None
        BY <1>5, <3>1, <3>2, <3>4, <3>5
      <4> QED
        BY <3>4, <4>1, <4>2, <4>3 DEF Able, IsDir
    <3> QED
      BY <1>1, <1>2, <2>2, <3>1, <3>3, <3>4, <3>6, <3>7, MadeStep
  <2>3. \/ Answer(c, Fatal([call[c] EXCEPT !.fit = FALSE]))
        \/ \E m \in Dirs : Free(m) /\ Make(m, p) /\ Changed(c, NextDir(r, i))
    BY <1>11, MakeOneIs
  <2> QED
    BY <1>1, <2>1, <2>2, <2>3
<1>12. CASE InDir(p) /\ n # None /\ Answer(c, IF backend = "sftp" THEN Again(r)
                                               ELSE IF IsDir(n) THEN NextDir(r, i) ELSE Fatal(r))
  <2>1. CASE backend = "sftp"
    <3>1. p = r.path
      BY <1>4, <1>5, <2>1
    <3>2. ~Owed(r)
      <4>1. Lookup(r.path) # None
        BY <1>1, <1>12, <3>1
      <4>2. ASSUME Owed(r)
            PROVE  Lookup(r.path) = None
        BY <1>2, <2>1, <4>2, OwedIsAble DEF Able
      <4> QED
        BY <4>1, <4>2
    <3> QED
      BY <1>1, <1>2, <1>12, <2>1, <3>2, RetryStep DEF Answers
  <2>2. CASE backend # "sftp" /\ IsDir(n)
    <3>1. PICK j : j = NextDir(r, i)
      OBVIOUS
    <3>2. /\ GoesOn(r, j) /\ j.at \in {"mkdir", "stat"} /\ j.stack = << >> /\ Len(j.stack) = 0
          /\ j.at = "mkdir" => j.pos = i
          /\ j.at = "stat" <=> i = Len(r.path)
      <4>1. /\ GoesOn(r, j) /\ j.at \in {"mkdir", "stat"} /\ j.stack = << >>
            /\ j.at = "mkdir" => j.pos = i
            /\ j.at = "stat" <=> i = Len(r.path)
        BY <1>2, <1>4, <3>1, NextFields
      <4> QED
        BY <4>1
    <3>3. j.path = r.path /\ j.op = r.op
      BY <3>2 DEF GoesOn
    <3>4. j.own = r.own
      BY <1>2, <3>1 DEF NextDir, Calls
    <3>5. Owed(r) => Able(j)
      <4> SUFFICES ASSUME Owed(r)
                   PROVE  Able(j)
        OBVIOUS
      <4>1. Fits(j)
        BY <1>2, <1>3, <3>3, OwedIsAble DEF Fits
      <4>2. j.at = "stat" => Lookup(j.path) # None
        BY <1>1, <1>5, <1>12, <3>2, <3>3
      <4>3. j.at = "mkdir" => IsDir(Lookup(SubSeq(j.path, 1, j.pos)))
        BY <1>1, <2>2, <3>2, <3>3
      <4> QED
        BY <2>2, <3>2, <4>1, <4>2, <4>3 DEF Able
    <3> QED
      BY <1>1, <1>2, <1>3, <1>12, <2>2, <3>1, <3>2, <3>4, <3>5, MoveStep DEF Answers, Active
  <2>3. CASE backend # "sftp" /\ ~IsDir(n)
    <3>1. n \in FileNodes
      BY <1>1, <1>5, <1>9, <1>12, <2>3, LookupIs DEF IsDir, Nodes
    <3>2. ~Owed(r)
      BY <1>1, <1>2, <1>3, <1>4, <1>6, <2>3, <3>1, OwedIsAble DEF Fits
    <3> QED
      BY <1>1, <1>2, <1>12, <2>3, <3>2, GiveUpStep DEF Answers
  <2> QED
    BY <2>1, <2>2, <2>3
<1> QED
  BY <1>7, <1>10, <1>11, <1>12

-----------------------------------------------------------------------------
(* Calls that remove and rename. *)

\* Something was removed or renamed, and the call has come to its end.
LEMMA RemovedAndDone ==
  ASSUME FilesInv, NEW c \in Callers, call[c].at \in Active \ {"write"},
         call[c].op \in {"delete", "rename"}, Changed(c, Done(call[c])),
         backend' = backend, late' = late, TreeOK(parent', name'),
         data' \in [FileNodes -> Seq(0 .. SourceLen)]
  PROVE  FilesInv'
<1>1. PICK r, x, j, o : r = call[c] /\ x = Done(r) /\ j = [x EXCEPT !.own = TRUE] /\ o = [r EXCEPT !.own = TRUE]
  OBVIOUS
<1>2. r \in Calls /\ Stage(r)
  BY <1>1, CallFacts
<1>3. j = [Done(r) EXCEPT !.own = TRUE]
  BY <1>1
<1>4. j \in Calls /\ CallOK(j)'
  BY <1>1, <1>2, <1>3, RemovalIsDone
<1>5. Recovers(o)'
  BY <1>1, <1>2, RemovalRecovers
<1>6. Changed(c, x) /\ o = [call[c] EXCEPT !.own = TRUE]
  BY <1>1
<1> QED
  BY <1>1, <1>4, <1>5, <1>6, ChangedStep

\* Something was removed, and the call goes on.
LEMMA RemovedAndOn ==
  ASSUME FilesInv, NEW c \in Callers, NEW r, r = call[c], r.at \in Active \ {"write"}, r.op = "delete",
         NEW x, GoesOn(r, x), x.at \in Active \ {"write"}, Changed(c, x),
         backend' = backend, late' = late, TreeOK(parent', name'),
         data' \in [FileNodes -> Seq(0 .. SourceLen)]
  PROVE  FilesInv'
<1>1. PICK j, o : j = Knowing(x) /\ o = [r EXCEPT !.own = TRUE]
  OBVIOUS
<1>2. r \in Calls /\ Stage(r)
  BY CallFacts
<1>3. r.offset = 0
  BY <1>2 DEF Stage
<1>4. GoesOn(r, j) /\ j.at = x.at /\ j.own = TRUE
  <2>1. GoesOn(r, x) /\ j = Knowing(x)
    BY <1>1
  <2>2. x \in Calls /\ GoesOn(r, j) /\ j.at = x.at
    BY <2>1, KnowingFields DEF GoesOn
  <2>3. j.own = TRUE
    BY <2>1, <2>2 DEF Knowing, Calls
  <2> QED
    BY <2>2, <2>3
<1>5. /\ j \in Calls /\ Stage(j) /\ j.op = "delete" /\ j.offset = 0
  BY <1>3, <1>4 DEF GoesOn
<1>6. Kept(j)'
  BY <1>4, <1>5 DEF Kept, Active
<1>7. ~Owed(j)'
  BY <1>4, <1>5 DEF Owed, Excused
<1>8. CallOK(j)'
  BY <1>5, <1>6, <1>7 DEF CallOK, Stage, Succeeds
<1>9. Recovers(o)'
  BY <1>1, <1>2, RemovalRecovers
<1>10. j = [x EXCEPT !.own = TRUE] /\ o = [call[c] EXCEPT !.own = TRUE]
  BY <1>1 DEF Knowing
<1> QED
  BY <1>5, <1>8, <1>9, <1>10, ChangedStep

\* A deletion ends that is owed nothing.
LEMMA FinishStep ==
  ASSUME FilesInv, NEW c \in Callers, call[c].at \in Active \ {"write"}, call[c].op = "delete",
         ~Owed(call[c]), Answers(c, Done(call[c]))
  PROVE  FilesInv'
<1>1. Done(call[c]) \in Calls /\ CallOK(Done(call[c]))
  BY CallFacts, DoneHolds
<1> QED
  BY <1>1, AnswersStep

\* Remove of a file or an empty folder.
LEMMA RemoveOneStep ==
  ASSUME FilesInv, NEW c \in Callers, RemoveOne(c)
  PROVE  FilesInv'
<1>1. PICK r, n : r = call[c] /\ n = Lookup(r.path)
  OBVIOUS
<1>2. /\ r \in Calls /\ Stage(r) /\ Succeeds(r) /\ r.path \in Seq(Names) /\ r.at = "remove"
      /\ r.at \in Active \ {"write"} /\ backend' = backend /\ late' = late
  BY <1>1, CallFacts DEF RemoveOne, At, Active
<1>3. r.op = "delete" /\ r.path # << >>
  BY <1>2 DEF Stage
<1>4. TreeOK(parent, name) /\ n \in (Nodes \ {Top}) \cup {None}
  BY <1>1, <1>2, <1>3, LookupIs DEF FilesInv
<1>5. CASE n = None /\ Answer(c, Fatal(r))
  <2>1. ~Owed(r)
    BY <1>1, <1>2, <1>3, <1>5, OwedIsAble DEF Fits
  <2> QED
    BY <1>1, <1>2, <1>5, <2>1, GiveUpStep DEF Answers
<1>6. CASE n # None /\ Kids(n) # {} /\ Answer(c, Again(r))
  <2>1. ~Owed(r)
    <3> SUFFICES ASSUME Owed(r)
                 PROVE  FALSE
      OBVIOUS
    <3>1. r.to = "file"
      BY <1>2, OwedIsAble DEF Able
    <3>2. IsDir(n) = (r.to = "folder")
      BY <1>1, <1>2, <1>3, OwedIsAble DEF Fits
    <3>3. n \in FileNodes
      BY <1>4, <1>6, <3>1, <3>2 DEF IsDir, Nodes
    <3> QED
      BY <1>4, <1>6, <3>3, FilesAreLeaves
  <2> QED
    BY <1>1, <1>2, <1>6, <2>1, RetryStep DEF Answers
<1>7. CASE n # None /\ Kids(n) = {} /\ Unlink(n) /\ Changed(c, Done(r))
  <2>1. TreeOK(parent', name') /\ data' \in [FileNodes -> Seq(0 .. SourceLen)]
    BY <1>4, <1>7, UnlinkLooks
  <2> QED
    BY <1>1, <1>2, <1>3, <1>7, <2>1, RemovedAndDone
<1> QED
  BY <1>1, <1>5, <1>6, <1>7 DEF RemoveOne

\* What removeAll remembers of a folder it enters.
LEMMA FrameFacts ==
  ASSUME TreeOK(parent, name), NEW n \in Nodes, NEW path \in Seq(Names), NEW f, f = Frame(n, path)
  PROVE  f \in Frames /\ f.dir = n /\ f.path = path /\ f.todo = Entries(n)
<1>1. n # None
  BY DEF FilesAssumption
<1>2. Entries(n) \subseteq Names \X BOOLEAN
  <2> SUFFICES ASSUME NEW m \in Kids(n)
               PROVE  name[m] \in Names /\ IsDir(m) \in BOOLEAN
    BY DEF Entries
  <2>1. m \in Nodes \ {Top} /\ parent[m] # None
    BY <1>1 DEF Kids
  <2>2. name[m] \in Names
    BY <2>1 DEF TreeOK
  <2> QED
    BY <2>2 DEF IsDir
<1>3. f = [dir |-> n, path |-> path, todo |-> Entries(n)]
  BY DEF Frame, Entries
<1> QED
  BY <1>2, <1>3 DEF Frames

\* removeAll looks at the folder it was given.
LEMMA EnterDirStep ==
  ASSUME FilesInv, NEW c \in Callers, EnterDir(c)
  PROVE  FilesInv'
<1>1. PICK r, n : r = call[c] /\ n = Lookup(r.path)
  OBVIOUS
<1>2. /\ r \in Calls /\ Stage(r) /\ Succeeds(r) /\ r.path \in Seq(Names) /\ r.at = "removeAll" /\ r.stack = << >>
      /\ r.at \in Active \ {"write"} /\ backend' = backend /\ late' = late /\ backend \in {"local", "sftp"}
  BY <1>1, CallFacts, FilesAssumption DEF EnterDir, At, Active, FilesAssumption, FilesInv
<1>3. r.op = "delete" /\ r.path # << >> /\ r.offset = 0 /\ r.pos = 0 /\ r.node = None /\ r.to \in {"file", "folder"}
  BY <1>2 DEF Stage
<1>4. TreeOK(parent, name) /\ n \in (Nodes \ {Top}) \cup {None}
  BY <1>1, <1>2, <1>3, LookupIs DEF FilesInv
<1>5. CASE n = None /\ Answer(c, Skip(r))
  <2>1. ~Owed(r)
    BY <1>1, <1>2, <1>3, <1>5, OwedIsAble DEF Fits
  <2>2. Len(r.stack) = 0
    BY <1>2
  <2>3. CASE backend = "sftp"
    BY <1>1, <1>2, <1>5, <2>1, <2>3, GiveUpStep DEF Answers, Skip
  <2>4. CASE backend # "sftp"
    BY <1>1, <1>2, <1>3, <1>5, <2>1, <2>2, <2>4, FinishStep DEF Answers, Skip
  <2> QED
    BY <2>3, <2>4
<1>6. CASE IsDir(n) /\ Answer(c, [r EXCEPT !.stack = <<Frame(n, r.path)>>])
  <2>1. PICK f, j : f = Frame(n, r.path) /\ j = [r EXCEPT !.stack = <<f>>]
    OBVIOUS
  <2>2. n \in Nodes /\ n # None
    BY <1>4, <1>6 DEF IsDir, Nodes, FilesAssumption
  <2>3. f \in Frames /\ f.dir = n /\ f.path = r.path /\ f.todo = Entries(n)
    BY <1>2, <1>4, <2>1, <2>2, FrameFacts
  <2>4. <<f>> \in Seq(Frames) /\ Len(<<f>>) = 1 /\ <<f>>[1] = f
    BY <2>3
  <2>5. /\ j \in Calls /\ j.at = r.at /\ j.op = r.op /\ j.path = r.path /\ j.to = r.to
        /\ j.offset = r.offset /\ j.node = r.node /\ j.touched = r.touched /\ j.fit = r.fit
        /\ j.stack = <<f>> /\ j.pos = r.pos /\ j.tries = r.tries /\ j.faulted = r.faulted
        /\ j.own = r.own
    BY <1>2, <2>1, <2>4 DEF Calls
  <2>6. Stage(j)
    BY <1>2, <1>3, <2>3, <2>4, <2>5 DEF Stage
  <2>7. Owed(r) => Able(j)
    <3> SUFFICES ASSUME Owed(r)
                 PROVE  Able(j)
      OBVIOUS
    <3>1. Fits(r) /\ r.to = "folder"
      BY <1>2, OwedIsAble DEF Able
    <3>2. Fits(j)
      BY <1>3, <2>5, <3>1 DEF Fits
    <3>3. Len(j.stack) = 1 /\ j.stack[1] = f
      BY <2>4, <2>5
    <3> QED
      BY <1>1, <1>2, <1>6, <2>3, <2>5, <3>1, <3>2, <3>3 DEF Able
  <2>8. GoesOn(r, j)
    BY <2>5, <2>6 DEF GoesOn
  <2>9. Answers(c, j)
    BY <1>2, <1>6, <2>1 DEF Answers
  <2> QED
    BY <1>1, <1>2, <1>3, <2>5, <2>7, <2>8, <2>9, MoveStep
<1>7. CASE n \in FileNodes /\ backend = "sftp" /\ Answer(c, Fatal(r))
  <2>1. ~Owed(r)
    <3> SUFFICES ASSUME Owed(r)
                 PROVE  FALSE
      OBVIOUS
    <3>1. r.to = "folder" /\ IsDir(n) = (r.to = "folder")
      BY <1>1, <1>2, <1>3, OwedIsAble DEF Able, Fits
    <3> QED
      BY <1>4, <1>7, <3>1, FilesAreLeaves
  <2> QED
    BY <1>1, <1>2, <1>7, <2>1, GiveUpStep DEF Answers
<1>8. CASE n \in FileNodes /\ backend = "local" /\ Unlink(n) /\ Changed(c, Done(r))
  <2>1. n \in Nodes \ {Top} /\ Kids(n) = {}
    BY <1>4, <1>8, FilesAreLeaves
  <2>2. TreeOK(parent', name') /\ data' \in [FileNodes -> Seq(0 .. SourceLen)]
    BY <1>8, <2>1, UnlinkLooks
  <2> QED
    BY <1>1, <1>2, <1>3, <1>8, <2>2, RemovedAndDone
<1> QED
  BY <1>1, <1>5, <1>6, <1>7, <1>8 DEF EnterDir

\* The folder removeAll is in, without an entry it is done with.
Without(r, e) == [r EXCEPT !.stack[Len(r.stack)].todo = @ \ {e}]

\* And with a further folder it enters.
Into(r, f) == [r EXCEPT !.stack = Append(@, f)]

\* It keeps its way through the folders.
LEMMA WithoutFields ==
  ASSUME NEW r \in Calls, Stage(r), r.at = "removeAll", Len(r.stack) > 0, NEW e, NEW j, j = Without(r, e)
  PROVE  /\ GoesOn(r, j) /\ j.at = "removeAll" /\ j.own = r.own /\ j.pos = r.pos
         /\ j.stack \in Seq(Frames) /\ Len(j.stack) = Len(r.stack)
         /\ \A i \in 1 .. Len(r.stack) : /\ j.stack[i].path = r.stack[i].path
                                         /\ j.stack[i].dir = r.stack[i].dir
<1> DEFINE k == Len(r.stack)
           g == [r.stack[k] EXCEPT !.todo = @ \ {e}]
           st == [r.stack EXCEPT ![k] = g]
<1>1. r.stack \in Seq(Frames) /\ k \in 1 .. k
  <2>1. r.stack \in Seq(Frames)
    BY DEF Calls
  <2> QED
    BY <2>1
<1>2. g \in Frames /\ g.path = r.stack[k].path /\ g.dir = r.stack[k].dir
  <2>1. r.stack[k] \in Frames
    BY <1>1
  <2> QED
    BY <2>1 DEF Frames
<1>3. j = [r EXCEPT !.stack = st]
  BY DEF Without
<1> HIDE DEF g
<1>4. /\ st \in Seq(Frames) /\ Len(st) = k
      /\ \A i \in 1 .. k : st[i] = IF i = k THEN g ELSE r.stack[i]
  BY <1>1, <1>2
<1> HIDE DEF st
<1>5. /\ j \in Calls /\ j.at = r.at /\ j.op = r.op /\ j.path = r.path /\ j.to = r.to
      /\ j.offset = r.offset /\ j.node = r.node /\ j.touched = r.touched /\ j.fit = r.fit
      /\ j.stack = st /\ j.pos = r.pos /\ j.tries = r.tries /\ j.faulted = r.faulted
      /\ j.own = r.own
  BY <1>3, <1>4, StackFields
<1>6. \A i \in 1 .. k : j.stack[i].path = r.stack[i].path /\ j.stack[i].dir = r.stack[i].dir
  BY <1>2, <1>4, <1>5
<1>7. Stage(j)
  <2>1. j.stack[1].path = r.path
    <3>1. 1 \in 1 .. k /\ r.stack # << >>
      BY <1>1
    <3> QED
      BY <1>6, <3>1 DEF Stage
  <2>2. ASSUME NEW i \in 1 .. Len(j.stack) - 1
        PROVE  j.stack[i + 1].path # << >> /\ Front(j.stack[i + 1].path) = j.stack[i].path
    <3>1. i \in 1 .. k - 1 /\ i \in 1 .. k /\ i + 1 \in 1 .. k
      BY <1>1, <1>4, <1>5
    <3>2. r.stack[i + 1].path # << >> /\ Front(r.stack[i + 1].path) = r.stack[i].path
      BY <3>1 DEF Stage
    <3> QED
      BY <1>6, <3>1, <3>2
  <2>3. /\ r.op = "delete" /\ r.path # << >> /\ r.offset = 0 /\ r.pos = 0 /\ r.node = None
        /\ r.to \in {"file", "folder"}
    BY DEF Stage
  <2> QED
    BY <1>5, <2>1, <2>2, <2>3 DEF Stage
<1> QED
  BY <1>4, <1>5, <1>6, <1>7 DEF GoesOn

\* The further folder is below the one it was in.
LEMMA IntoFields ==
  ASSUME NEW r \in Calls, Stage(r), r.at = "removeAll", Len(r.stack) > 0, NEW f \in Frames,
         f.path # << >>, Front(f.path) = r.stack[Len(r.stack)].path, NEW j, j = Into(r, f)
  PROVE  /\ GoesOn(r, j) /\ j.at = "removeAll" /\ j.own = r.own
         /\ j.stack = Append(r.stack, f) /\ r.stack \in Seq(Frames)
<1> DEFINE k == Len(r.stack)
           st == Append(r.stack, f)
<1>1. r.stack \in Seq(Frames) /\ k \in Nat /\ k > 0
  <2>1. r.stack \in Seq(Frames)
    BY DEF Calls
  <2> QED
    BY <2>1
<1>2. /\ st \in Seq(Frames) /\ Len(st) = k + 1 /\ st[k + 1] = f
      /\ \A i \in 1 .. k : st[i] = r.stack[i]
  BY <1>1
<1> HIDE DEF st
<1>3. j = [r EXCEPT !.stack = st]
  BY DEF Into, st
<1>4. /\ j \in Calls /\ j.at = r.at /\ j.op = r.op /\ j.path = r.path /\ j.to = r.to
      /\ j.offset = r.offset /\ j.node = r.node /\ j.touched = r.touched /\ j.fit = r.fit
      /\ j.stack = st /\ j.pos = r.pos /\ j.tries = r.tries /\ j.faulted = r.faulted
      /\ j.own = r.own
  BY <1>2, <1>3, StackFields
<1>5. Stage(j)
  <2>1. j.stack[1].path = r.path
    <3>1. 1 \in 1 .. k /\ r.stack # << >>
      BY <1>1
    <3> QED
      BY <1>2, <1>4, <3>1, ZenonT(60) DEF Stage
  <2>2. ASSUME NEW i \in 1 .. Len(j.stack) - 1
        PROVE  j.stack[i + 1].path # << >> /\ Front(j.stack[i + 1].path) = j.stack[i].path
    <3>1. i \in 1 .. k
      BY <1>1, <1>2, <1>4
    <3>2. CASE i = k
      BY <1>2, <1>4, <3>1, <3>2
    <3>3. CASE i # k
      <4>1. i \in 1 .. k - 1 /\ i + 1 \in 1 .. k
        BY <1>1, <3>1, <3>3
      <4>2. r.stack[i + 1].path # << >> /\ Front(r.stack[i + 1].path) = r.stack[i].path
        BY <4>1 DEF Stage
      <4>3. st[i + 1] = r.stack[i + 1] /\ st[i] = r.stack[i]
        BY <1>2, <3>1, <4>1
      <4> QED
        BY <1>4, <4>2, <4>3
    <3> QED
      BY <3>2, <3>3
  <2>3. /\ r.op = "delete" /\ r.path # << >> /\ r.offset = 0 /\ r.pos = 0 /\ r.node = None
        /\ r.to \in {"file", "folder"}
    BY DEF Stage
  <2> QED
    BY <1>4, <2>1, <2>2, <2>3 DEF Stage
<1> QED
  BY <1>1, <1>4, <1>5 DEF GoesOn, st

\* The folder it leaves.
OutOf(r) == [r EXCEPT !.stack = SubSeq(@, 1, Len(r.stack) - 1)]

\* The remaining way is a way.
LEMMA OutOfFields ==
  ASSUME NEW r \in Calls, Stage(r), r.at = "removeAll", Len(r.stack) > 1, NEW j, j = OutOf(r)
  PROVE  GoesOn(r, j) /\ j.at = "removeAll" /\ j.own = r.own
<1> DEFINE k == Len(r.stack)
           st == SubSeq(r.stack, 1, k - 1)
<1>1. r.stack \in Seq(Frames) /\ k \in Nat /\ k > 1
  <2>1. r.stack \in Seq(Frames)
    BY DEF Calls
  <2> QED
    BY <2>1
<1>2. /\ st \in Seq(Frames) /\ Len(st) = k - 1
      /\ \A i \in 1 .. k - 1 : st[i] = r.stack[i]
  BY <1>1
<1> HIDE DEF st
<1>3. j = [r EXCEPT !.stack = st]
  BY DEF OutOf, st
<1>4. /\ j \in Calls /\ j.at = r.at /\ j.op = r.op /\ j.path = r.path /\ j.to = r.to
      /\ j.offset = r.offset /\ j.node = r.node /\ j.touched = r.touched /\ j.fit = r.fit
      /\ j.stack = st /\ j.pos = r.pos /\ j.tries = r.tries /\ j.faulted = r.faulted
      /\ j.own = r.own
  BY <1>2, <1>3, StackFields
<1>5. Stage(j)
  <2>1. j.stack[1].path = r.path
    <3>1. 1 \in 1 .. k - 1 /\ r.stack # << >>
      BY <1>1
    <3> QED
      BY <1>2, <1>4, <3>1 DEF Stage
  <2>2. ASSUME NEW i \in 1 .. Len(j.stack) - 1
        PROVE  j.stack[i + 1].path # << >> /\ Front(j.stack[i + 1].path) = j.stack[i].path
    <3>1. i \in 1 .. k - 1 /\ i + 1 \in 1 .. k - 1
      BY <1>1, <1>2, <1>4
    <3>2. r.stack[i + 1].path # << >> /\ Front(r.stack[i + 1].path) = r.stack[i].path
      BY <3>1 DEF Stage
    <3> QED
      BY <1>2, <1>4, <3>1, <3>2
  <2>3. /\ r.op = "delete" /\ r.path # << >> /\ r.offset = 0 /\ r.pos = 0 /\ r.node = None
        /\ r.to \in {"file", "folder"}
    BY DEF Stage
  <2> QED
    BY <1>4, <2>1, <2>2, <2>3 DEF Stage
<1> QED
  BY <1>4, <1>5 DEF GoesOn

\* What a deletion that is owed success has found in the folder it is in.
LEMMA OwedEntry ==
  ASSUME TreeOK(parent, name), NEW r \in Calls, Owed(r), Able(r), Len(r.stack) > 0,
         NEW e \in r.stack[Len(r.stack)].todo, NEW f, f = r.stack[Len(r.stack)]
  PROVE  LET n == Entry(f, e[1]) IN n \in Nodes \ {Top} /\ IsDir(n) = e[2] /\ n # None
<1> DEFINE k == Len(r.stack)
<1>1. r.stack \in Seq(Frames) /\ r.stack # << >> /\ k \in 1 .. k
  <2>1. r.stack \in Seq(Frames)
    BY DEF Calls
  <2> QED
    BY <2>1
<1>2. f.todo = Entries(f.dir) /\ IsDir(f.dir) /\ f.dir = Lookup(f.path) /\ f.path \in Seq(Names)
  <2>1. r.stack[k] \in Frames
    BY <1>1
  <2>2. f.path \in Seq(Names)
    BY <2>1 DEF Frames
  <2> QED
    BY <1>1, <2>2 DEF Able
<1>3. PICK m \in Kids(f.dir) : e = <<name[m], IsDir(m)>>
  BY <1>2 DEF Entries
<1>4. m \in Nodes \ {Top} /\ parent[m] = f.dir /\ f.dir # None /\ None \notin Nodes
  BY <1>3 DEF Kids, FilesAssumption
<1>5. name[m] \in Names
  BY <1>4 DEF TreeOK
<1>6. Child(f.dir, name[m]) = m
  BY <1>4, ChildIs
<1>7. Lookup(Append(f.path, name[m])) = m
  <2>1. PICK q : q = Append(f.path, name[m])
    OBVIOUS
  <2>2. q \in Seq(Names) /\ q # << >> /\ Front(q) = f.path /\ Last(q) = name[m]
    BY <1>2, <1>5, <2>1, AppendFacts
  <2> QED
    BY <1>2, <1>4, <2>1, <2>2, KidIsFound
<1>8. e[1] = name[m] /\ e[2] = IsDir(m)
  BY <1>3
<1>9. Entry(f, e[1]) = m
  BY <1>6, <1>7, <1>8 DEF Entry
<1> QED
  BY <1>4, <1>8, <1>9

\* One entry of a folder: gone, entered, or removed.
LEMMA RemoveEntryStep ==
  ASSUME FilesInv, NEW c \in Callers, NEW a \in Names, NEW b \in BOOLEAN, RemoveEntry(c, <<a, b>>)
  PROVE  FilesInv'
<1>1. PICK r, e : r = call[c] /\ e = <<a, b>>
  OBVIOUS
<1>2. PICK f, n, asDir : /\ f = r.stack[Len(r.stack)] /\ n = Entry(f, e[1])
                         /\ asDir = IF backend = "local" THEN IsDir(n) ELSE e[2]
  OBVIOUS
<1>3. /\ r \in Calls /\ Stage(r) /\ Succeeds(r) /\ r.at = "removeAll"
      /\ Len(r.stack) > 0 /\ e \in f.todo /\ e[1] = a /\ e[2] = b
      /\ r.at \in Active \ {"write"} /\ backend' = backend /\ late' = late /\ backend \in {"local", "sftp"}
  BY <1>1, <1>2, CallFacts, FilesAssumption DEF RemoveEntry, At, Active, FilesAssumption, FilesInv
<1>4. r.op = "delete"
  BY <1>3 DEF Stage
<1>5. \/ n = None /\ Answer(c, IF backend = "local" THEN Without(r, e) ELSE Fatal(r))
      \/ n # None /\ asDir
           /\ Answer(c, IF IsDir(n) THEN Into(Without(r, e), Frame(n, Append(f.path, e[1]))) ELSE Fatal(r))
      \/ n # None /\ ~asDir
           /\ IF Kids(n) # {} THEN Answer(c, Again(r)) ELSE Unlink(n) /\ Changed(c, Without(r, e))
  BY <1>1, <1>2 DEF RemoveEntry, Without, Into
<1>6. f \in Frames /\ f.path \in Seq(Names) /\ f.dir \in Nodes
  <2>1. r.stack \in Seq(Frames) /\ Len(r.stack) \in 1 .. Len(r.stack)
    <3>1. r.stack \in Seq(Frames)
      BY <1>3 DEF Calls
    <3> QED
      BY <1>3, <3>1
  <2>2. f \in Frames
    BY <1>2, <2>1
  <2> QED
    BY <2>2 DEF Frames
<1>7. TreeOK(parent, name)
  BY DEF FilesInv
<1>8. n \in (Nodes \ {Top}) \cup {None}
  <2>1. Child(f.dir, a) \in (Nodes \ {Top}) \cup {None}
    BY <1>7, ChildIs
  <2>2. Lookup(Append(f.path, a)) \in (Nodes \ {Top}) \cup {None}
    <3>1. PICK q : q = Append(f.path, a)
      OBVIOUS
    <3>2. q \in Seq(Names) /\ q # << >>
      BY <1>6, <3>1, AppendFacts
    <3> QED
      BY <1>7, <3>1, <3>2, LookupIs
  <2> QED
    BY <1>2, <1>3, <2>1, <2>2 DEF Entry
<1>9. Owed(r) => n # None /\ IsDir(n) = e[2]
  <2> SUFFICES ASSUME Owed(r)
               PROVE  n # None /\ IsDir(n) = e[2]
    OBVIOUS
  <2>1. Able(r)
    BY <1>3, OwedIsAble
  <2> QED
    BY <1>2, <1>3, <1>7, <2>1, OwedEntry
<1>10. PICK w : w = Without(r, e)
  OBVIOUS
<1>11. /\ GoesOn(r, w) /\ w.at = "removeAll" /\ w.own = r.own
       /\ w.stack \in Seq(Frames) /\ Len(w.stack) = Len(r.stack)
       /\ \A i \in 1 .. Len(r.stack) : /\ w.stack[i].path = r.stack[i].path
                                       /\ w.stack[i].dir = r.stack[i].dir
  BY <1>3, <1>10, WithoutFields
<1>12. CASE n = None /\ Answer(c, IF backend = "local" THEN Without(r, e) ELSE Fatal(r))
  <2>1. CASE backend = "local"
    <3>1. Answers(c, w)
      BY <1>3, <1>10, <1>12, <2>1 DEF Answers
    <3> QED
      BY <1>1, <1>3, <1>4, <1>9, <1>11, <1>12, <3>1, MoveStep
  <2>2. CASE backend # "local"
    BY <1>1, <1>3, <1>9, <1>12, <2>2, GiveUpStep DEF Answers
  <2> QED
    BY <2>1, <2>2
<1>13. CASE /\ n # None /\ asDir
            /\ Answer(c, IF IsDir(n) THEN Into(Without(r, e), Frame(n, Append(f.path, e[1]))) ELSE Fatal(r))
  <2>1. CASE ~IsDir(n)
    <3>1. ~Owed(r)
      BY <1>2, <1>9, <1>13, <2>1
    <3> QED
      BY <1>1, <1>3, <1>13, <2>1, <3>1, GiveUpStep DEF Answers
  <2>2. CASE IsDir(n)
    <3>1. PICK p, g, j : p = Append(f.path, a) /\ g = Frame(n, p) /\ j = Into(w, g)
      OBVIOUS
    <3>2. p \in Seq(Names) /\ p # << >> /\ Front(p) = f.path /\ Last(p) = a
      BY <1>6, <3>1, AppendFacts
    <3>3. g \in Frames /\ g.dir = n /\ g.path = p /\ g.todo = Entries(n)
      <4>1. n \in Nodes /\ g = Frame(n, p)
        BY <1>8, <1>13, <3>1
      <4> QED
        BY <1>7, <3>2, <4>1, FrameFacts
    <3>4. w \in Calls /\ Stage(w) /\ Len(w.stack) > 0 /\ Front(g.path) = w.stack[Len(w.stack)].path
      <4>1. Len(r.stack) \in 1 .. Len(r.stack)
        <5>1. r.stack \in Seq(Frames)
          BY <1>3 DEF Calls
        <5> QED
          BY <1>3, <5>1
      <4>2. w.stack[Len(w.stack)].path = f.path
        BY <1>2, <1>11, <4>1
      <4> QED
        BY <1>3, <1>11, <3>2, <3>3, <4>2 DEF GoesOn
    <3>5. /\ GoesOn(w, j) /\ j.at = "removeAll" /\ j.own = w.own
          /\ j.stack = Append(w.stack, g)
      <4>1. j = Into(w, g) /\ g.path # << >>
        BY <3>1, <3>2, <3>3
      <4> QED
        BY <1>11, <3>3, <3>4, <4>1, IntoFields
    <3>6. GoesOn(r, j)
      BY <1>11, <3>5 DEF GoesOn
    <3>7. Owed(r) => Able(j)
      <4> SUFFICES ASSUME Owed(r)
                   PROVE  Able(j)
        OBVIOUS
      <4>1. Able(r)
        BY <1>3, OwedIsAble
      <4>2. PICK k \in Nat : k = Len(r.stack) /\ k \in 1 .. k
        <5>1. r.stack \in Seq(Frames)
          BY <1>3 DEF Calls
        <5> QED
          BY <1>3, <5>1
      <4>3. /\ Len(j.stack) = k + 1 /\ j.stack[k + 1] = g /\ j.stack # << >>
            /\ \A i \in 1 .. k : j.stack[i] = w.stack[i]
        <5>1. w.stack \in Seq(Frames) /\ Len(w.stack) = k /\ g \in Frames
          BY <1>11, <3>3, <4>2
        <5>2. /\ Len(Append(w.stack, g)) = k + 1 /\ Append(w.stack, g)[k + 1] = g
              /\ \A i \in 1 .. k : Append(w.stack, g)[i] = w.stack[i]
          BY <5>1
        <5>3. Append(w.stack, g) # << >>
          BY <5>1
        <5> QED
          BY <3>5, <5>2, <5>3
      <4>4. IsDir(f.dir) /\ f.dir = Lookup(f.path)
        BY <1>2, <4>1, <4>2 DEF Able
      <4>5. n = Lookup(p)
        <5>1. CASE backend = "local"
          <6>1. n = Child(f.dir, a)
            BY <1>2, <1>3, <5>1 DEF Entry
          <6>2. parent[n] = f.dir /\ name[n] = a /\ f.dir # None
            BY <1>7, <1>13, <6>1, ChildIs
          <6> QED
            BY <1>7, <1>8, <1>13, <3>2, <4>4, <6>2, KidIsFound
        <5>2. CASE backend # "local"
          BY <1>2, <1>3, <3>1, <5>2 DEF Entry
        <5> QED
          BY <5>1, <5>2
      <4>6. \A i \in 1 .. Len(j.stack) : IsDir(j.stack[i].dir) /\ j.stack[i].dir = Lookup(j.stack[i].path)
        <5> TAKE i \in 1 .. Len(j.stack)
        <5>1. CASE i = k + 1
          BY <2>2, <3>3, <4>3, <4>5, <5>1
        <5>2. CASE i # k + 1
          <6>1. i \in 1 .. k
            BY <4>2, <4>3, <5>2, SMTT(30)
          <6>2. j.stack[i].dir = r.stack[i].dir /\ j.stack[i].path = r.stack[i].path
            BY <1>11, <4>2, <4>3, <6>1
          <6> QED
            BY <4>1, <4>2, <6>1, <6>2 DEF Able
        <5> QED
          BY <5>1, <5>2
      <4>7. j.stack[Len(j.stack)].todo = Entries(j.stack[Len(j.stack)].dir)
        BY <3>3, <4>3
      <4>8. /\ j.op = r.op /\ j.path = r.path /\ j.to = r.to
        BY <3>6 DEF GoesOn
      <4>9. Fits(j) /\ j.to = "folder"
        BY <1>3, <1>4, <4>1, <4>8 DEF Able, Fits
      <4> QED
        BY <3>5, <4>6, <4>7, <4>9 DEF Able
    <3>8. Answers(c, j)
      BY <1>3, <1>10, <1>13, <2>2, <3>1 DEF Answers
    <3> QED
      BY <1>1, <1>3, <1>4, <1>11, <3>5, <3>6, <3>7, <3>8, MoveStep
  <2> QED
    BY <2>1, <2>2
<1>14. CASE /\ n # None /\ ~asDir
            /\ IF Kids(n) # {} THEN Answer(c, Again(r)) ELSE Unlink(n) /\ Changed(c, Without(r, e))
  <2>1. CASE Kids(n) # {}
    <3>1. n \notin FileNodes
      BY <1>7, <2>1, FilesAreLeaves
    <3>2. IsDir(n)
      BY <1>8, <1>14, <3>1 DEF IsDir, Nodes
    <3>3. ~Owed(r)
      BY <1>2, <1>9, <1>14, <3>2
    <3> QED
      BY <1>1, <1>3, <1>14, <2>1, <3>3, RetryStep DEF Answers
  <2>2. CASE Kids(n) = {}
    <3>1. Unlink(n) /\ Changed(c, w)
      BY <1>10, <1>14, <2>2
    <3>2. TreeOK(parent', name') /\ data' \in [FileNodes -> Seq(0 .. SourceLen)]
      BY <1>8, <1>14, <2>2, <3>1, UnlinkLooks
    <3> QED
      BY <1>1, <1>3, <1>4, <1>11, <3>1, <3>2, RemovedAndOn
  <2> QED
    BY <2>1, <2>2
<1> QED
  BY <1>5, <1>12, <1>13, <1>14

\* The folder itself, once removeAll has seen all of its entries.
LEMMA LeaveDirStep ==
  ASSUME FilesInv, NEW c \in Callers, LeaveDir(c)
  PROVE  FilesInv'
<1>1. PICK r : r = call[c]
  OBVIOUS
<1>2. PICK k, f, n : /\ k = Len(r.stack) /\ f = r.stack[k]
                     /\ n = IF k = 1 THEN Lookup(r.path) ELSE Entry(r.stack[k - 1], Last(f.path))
  OBVIOUS
<1>3. /\ r \in Calls /\ Stage(r) /\ Succeeds(r) /\ r.at = "removeAll" /\ r.path \in Seq(Names)
      /\ k > 0 /\ f.todo = {}
      /\ r.at \in Active \ {"write"} /\ backend' = backend /\ late' = late /\ backend \in {"local", "sftp"}
  BY <1>1, <1>2, CallFacts, FilesAssumption DEF LeaveDir, At, Active, FilesAssumption, FilesInv
<1>4. r.op = "delete" /\ r.path # << >>
  BY <1>3 DEF Stage
<1>5. \/ n = None /\ Answer(c, Skip(r))
      \/ n \in FileNodes /\ Answer(c, Fatal(r))
      \/ IsDir(n) /\ Kids(n) # {} /\ Answer(c, Again(r))
      \/ IsDir(n) /\ Kids(n) = {} /\ Unlink(n) /\ Changed(c, IF k = 1 THEN Done(r) ELSE OutOf(r))
  BY <1>1, <1>2 DEF LeaveDir, OutOf
<1>6. r.stack \in Seq(Frames) /\ k \in 1 .. k /\ k \in Nat /\ r.stack # << >>
  <2>1. r.stack \in Seq(Frames)
    BY <1>3 DEF Calls
  <2> QED
    BY <1>2, <1>3, <2>1
<1>20. k \in Nat /\ k > 0 /\ Len(r.stack) = k
  BY <1>2, <1>3, <1>6
<1>7. f \in Frames /\ f.path \in Seq(Names)
  <2>1. f \in Frames
    BY <1>2, <1>6
  <2> QED
    BY <2>1 DEF Frames
<1>8. TreeOK(parent, name)
  BY DEF FilesInv
<1>9. k # 1 => k - 1 \in 1 .. k - 1 /\ r.stack[k - 1] \in Frames /\ r.stack[k - 1].path \in Seq(Names)
  <2> SUFFICES ASSUME k # 1
               PROVE  k - 1 \in 1 .. k - 1 /\ r.stack[k - 1] \in Frames /\ r.stack[k - 1].path \in Seq(Names)
    OBVIOUS
  <2>1. k - 1 \in 1 .. k - 1 /\ k - 1 \in 1 .. Len(r.stack)
    <3>1. k \in Nat /\ k > 0 /\ k # 1
      BY <1>20
    <3>2. k - 1 \in 1 .. k - 1 /\ k - 1 \in 1 .. k
      BY <3>1
    <3> QED
      BY <3>2, <1>20
  <2>2. r.stack[k - 1] \in Frames
    BY <1>6, <2>1
  <2> QED
    BY <2>1, <2>2 DEF Frames
<1>10. k # 1 => f.path # << >> /\ Front(f.path) = r.stack[k - 1].path
  <2> SUFFICES ASSUME k # 1
               PROVE  f.path # << >> /\ Front(f.path) = r.stack[k - 1].path
    OBVIOUS
  <2>1. k - 1 \in 1 .. Len(r.stack) - 1 /\ (k - 1) + 1 = k
    BY <1>20
  <2>2. r.stack[(k - 1) + 1].path # << >> /\ Front(r.stack[(k - 1) + 1].path) = r.stack[k - 1].path
    BY <1>3, <2>1 DEF Stage
  <2> QED
    BY <1>2, <2>1, <2>2
<1>11. k = 1 => f.path = r.path
  BY <1>2, <1>3, <1>6 DEF Stage
<1>12. f.path # << >> /\ Last(f.path) \in Names /\ f.path = Append(Front(f.path), Last(f.path))
  <2>1. f.path # << >>
    BY <1>4, <1>10, <1>11
  <2> QED
    BY <1>7, <2>1, FrontFacts
<1>13. backend # "local" \/ k = 1 => n = Lookup(f.path)
  <2>1. CASE k = 1
    BY <1>2, <1>11, <2>1
  <2>2. CASE k # 1 /\ backend # "local"
    BY <1>2, <1>10, <1>12, <2>2 DEF Entry
  <2> QED
    BY <2>1, <2>2
<1>14. n \in (Nodes \ {Top}) \cup {None}
  <2>1. CASE backend # "local" \/ k = 1
    BY <1>7, <1>8, <1>12, <1>13, <2>1, LookupIs
  <2>2. CASE ~(backend # "local" \/ k = 1)
    <3>1. n = Child(r.stack[k - 1].dir, Last(f.path))
      BY <1>2, <2>2 DEF Entry
    <3> QED
      BY <1>8, <3>1, ChildIs
  <2> QED
    BY <2>1, <2>2
<1>15. Owed(r) => n = f.dir /\ IsDir(n) /\ n # None /\ Entries(n) = {}
  <2> SUFFICES ASSUME Owed(r)
               PROVE  n = f.dir /\ IsDir(n) /\ n # None /\ Entries(n) = {}
    OBVIOUS
  <2>1. Able(r)
    BY <1>3, OwedIsAble
  <2>2. /\ IsDir(f.dir) /\ f.dir = Lookup(f.path) /\ f.todo = Entries(f.dir)
    BY <1>2, <1>6, <2>1 DEF Able
  <2>3. f.dir # None
    BY <2>2 DEF IsDir, FilesAssumption, Nodes
  <2>4. n = f.dir
    <3>1. CASE backend # "local" \/ k = 1
      BY <1>13, <2>2, <3>1
    <3>2. CASE ~(backend # "local" \/ k = 1)
      <4>1. n = Child(r.stack[k - 1].dir, Last(f.path))
        BY <1>2, <3>2 DEF Entry
      <4>2. r.stack[k - 1].dir = Lookup(r.stack[k - 1].path)
        <5>1. k - 1 \in 1 .. Len(r.stack)
          BY <1>20, <3>2
        <5> QED
          BY <2>1, <5>1 DEF Able
      <4>3. /\ f.dir \in Nodes \ {Top} /\ Lookup(Front(f.path)) \in Nodes
            /\ parent[f.dir] = Lookup(Front(f.path)) /\ name[f.dir] = Last(f.path)
        BY <1>7, <1>8, <1>12, <2>2, <2>3, FoundIn
      <4>4. Lookup(Front(f.path)) = r.stack[k - 1].dir /\ r.stack[k - 1].dir # None
        BY <1>10, <3>2, <4>2, <4>3 DEF FilesAssumption
      <4> QED
        BY <1>8, <4>1, <4>3, <4>4, ChildIs
    <3> QED
      BY <3>1, <3>2
  <2> QED
    BY <1>3, <2>2, <2>3, <2>4
<1>16. CASE n = None /\ Answer(c, Skip(r))
  <2>1. ~Owed(r)
    BY <1>15, <1>16
  <2>2. CASE backend = "sftp"
    BY <1>1, <1>3, <1>16, <2>1, <2>2, GiveUpStep DEF Answers, Skip
  <2>3. CASE backend # "sftp" /\ k = 1
    <3>1. Answers(c, Done(r))
      BY <1>2, <1>3, <1>16, <2>3 DEF Answers, Skip
    <3> QED
      BY <1>1, <1>3, <1>4, <2>1, <3>1, FinishStep
  <2>4. CASE backend # "sftp" /\ k # 1
    <3>1. PICK j : j = OutOf(r)
      OBVIOUS
    <3>2. Len(r.stack) > 1
      BY <1>20, <2>4
    <3>3. GoesOn(r, j) /\ j.at = "removeAll" /\ j.own = r.own
      BY <1>3, <3>1, <3>2, OutOfFields
    <3>4. Answers(c, j)
      BY <1>3, <1>16, <2>4, <3>1, <3>2 DEF Answers, Skip, OutOf
    <3> QED
      BY <1>1, <1>3, <1>4, <2>1, <3>3, <3>4, MoveStep
  <2> QED
    BY <2>2, <2>3, <2>4
<1>17. CASE n \in FileNodes /\ Answer(c, Fatal(r))
  <2>1. ~Owed(r)
    BY <1>8, <1>15, <1>17, FilesAreLeaves
  <2> QED
    BY <1>1, <1>3, <1>17, <2>1, GiveUpStep DEF Answers
<1>18. CASE IsDir(n) /\ Kids(n) # {} /\ Answer(c, Again(r))
  <2>1. ~Owed(r)
    BY <1>15, <1>18 DEF Entries
  <2> QED
    BY <1>1, <1>3, <1>18, <2>1, RetryStep DEF Answers
<1>19. CASE IsDir(n) /\ Kids(n) = {} /\ Unlink(n) /\ Changed(c, IF k = 1 THEN Done(r) ELSE OutOf(r))
  <2>1. n # None
    BY <1>19 DEF IsDir, FilesAssumption, Nodes
  <2>2. TreeOK(parent', name') /\ data' \in [FileNodes -> Seq(0 .. SourceLen)]
    BY <1>14, <1>19, <2>1, UnlinkLooks
  <2>3. CASE k = 1
    BY <1>1, <1>3, <1>4, <1>19, <2>2, <2>3, RemovedAndDone
  <2>4. CASE k # 1
    <3>1. PICK j : j = OutOf(r)
      OBVIOUS
    <3>2. Len(r.stack) > 1
      BY <1>20, <2>4
    <3>3. GoesOn(r, j) /\ j.at = "removeAll"
      BY <1>3, <3>1, <3>2, OutOfFields
    <3>4. Changed(c, j)
      BY <1>19, <2>4, <3>1
    <3> QED
      BY <1>1, <1>3, <1>4, <2>2, <3>3, <3>4, RemovedAndOn
  <2> QED
    BY <2>3, <2>4
<1> QED
  BY <1>5, <1>16, <1>17, <1>18, <1>19

\* What Rename does to the tree.
Renaming(n, m, to) ==
  /\ parent' = [x \in Nodes |-> IF x = m THEN None ELSE parent[x]]
  /\ name' = [x \in Nodes |-> IF x = m THEN "" ELSE IF x = n THEN to ELSE name[x]]
  /\ data' = [f \in FileNodes |-> IF f = m THEN << >> ELSE data[f]]

\* What a rename finds, and what it leaves.
LEMMA RenameLooks ==
  ASSUME FilesInv, NEW path \in Seq(Names), path # << >>, NEW to \in Names, to # Last(path),
         NEW n, n = Lookup(path), n # None,
         NEW m, m = Lookup(Append(Front(path), to)), m = None \/ m \in FileNodes,
         Renaming(n, m, to)
  PROVE  /\ TreeOK(parent', name') /\ data' \in [FileNodes -> Seq(0 .. SourceLen)]
         /\ Lookup(path)' = None /\ Lookup(Append(Front(path), to))' = n
<1>1. /\ parent \in [Nodes -> Nodes \cup {None}] /\ name \in [Nodes -> Names \cup {""}]
      /\ TreeOK(parent, name) /\ data \in [FileNodes -> Seq(0 .. SourceLen)]
  BY DEF FilesInv, TreeOK
<1>2. m = None \/ Leaf(parent, m)
  <2>1. CASE m \in FileNodes
    BY <1>1, <2>1, FilesAreLeaves DEF Leaf, Kids
  <2> QED
    BY <2>1
<1>3. Renames(parent, name, n, m, to, parent', name')
  <2>1. parent' \in [Nodes -> Nodes \cup {None}] /\ name' \in [Nodes -> Names \cup {""}]
    BY <1>1 DEF Renaming
  <2> QED
    BY <2>1 DEF Renames, Renaming
<1>4. n = Find(parent, name, path) /\ m = Find(parent, name, Append(Front(path), to))
  BY LookupFinds
<1>5. /\ TreeOK(parent', name')
      /\ Find(parent', name', path) = None
      /\ Find(parent', name', Append(Front(path), to)) = n
  <2>1. PICK par, nam, par2, nam2 : par = parent /\ nam = name /\ par2 = parent' /\ nam2 = name'
    OBVIOUS
  <2>2. n \in Nodes
    BY <1>1, LookupIs
  <2>3. /\ n = Find(par, nam, path) /\ m = Find(par, nam, Append(Front(path), to))
        /\ Renames(par, nam, n, m, to, par2, nam2)
    BY <1>1, <1>2, <1>3, <1>4, <2>1
  <2>4. TreeOK(par, nam) /\ (m = None \/ Leaf(par, m))
    BY <1>1, <1>2, <2>1
  <2>5. /\ TreeOK(par2, nam2)
        /\ Find(par2, nam2, path) = None
        /\ Find(par2, nam2, Append(Front(path), to)) = n
    BY <2>2, <2>3, <2>4, RenameFinds
  <2> QED
    BY <2>1, <2>5
<1>6. data' \in [FileNodes -> Seq(0 .. SourceLen)]
  BY <1>1, NoData DEF Renaming
<1> QED
  BY <1>5, <1>6, LookupFinds

\* Rename, over a file too on a local disk.
LEMMA RenameStep ==
  ASSUME FilesInv, NEW c \in Callers, Rename(c)
  PROVE  FilesInv'
<1>1. PICK r, n, m : r = call[c] /\ n = Lookup(r.path) /\ m = Lookup(To(r))
  OBVIOUS
<1>2. /\ r \in Calls /\ Stage(r) /\ Succeeds(r) /\ r.path \in Seq(Names) /\ r.at = "rename"
      /\ r.at \in Active \ {"write"} /\ backend' = backend /\ late' = late
  BY <1>1, CallFacts DEF Rename, At, Active
<1>3. r.op = "rename" /\ r.path # << >> /\ r.to \in Names /\ r.to # Last(r.path)
  BY <1>2 DEF Stage
<1>4. CASE n = None /\ Answer(c, Fatal(r))
  <2>1. ~Owed(r)
    BY <1>1, <1>2, <1>3, <1>4, OwedIsAble DEF Fits
  <2> QED
    BY <1>1, <1>2, <1>4, <2>1, GiveUpStep DEF Answers
<1>5. CASE m # None /\ Answer(c, IF backend = "local" /\ m \in FileNodes THEN Fatal(r) ELSE Again(r))
  <2>1. ~Owed(r)
    BY <1>1, <1>2, <1>3, <1>5, OwedIsAble DEF Fits
  <2>2. CASE backend = "local" /\ m \in FileNodes
    BY <1>1, <1>2, <1>5, <2>1, <2>2, GiveUpStep DEF Answers
  <2>3. CASE ~(backend = "local" /\ m \in FileNodes)
    BY <1>1, <1>2, <1>5, <2>1, <2>3, RetryStep DEF Answers
  <2> QED
    BY <2>2, <2>3
<1>6. CASE /\ n # None /\ (m = None \/ Replaces(n, m))
           /\ parent' = [x \in Nodes |-> IF x = m THEN None ELSE parent[x]]
           /\ name' = [x \in Nodes |-> IF x = m THEN "" ELSE IF x = n THEN r.to ELSE name[x]]
           /\ data' = [f \in FileNodes |-> IF f = m THEN << >> ELSE data[f]]
           /\ Changed(c, Done(r))
  <2>1. m = None \/ m \in FileNodes
    BY <1>6 DEF Replaces
  <2>2. m = Lookup(Append(Front(r.path), r.to))
    BY <1>1 DEF To
  <2>3. TreeOK(parent', name') /\ data' \in [FileNodes -> Seq(0 .. SourceLen)]
    <3>1. Renaming(n, m, r.to)
      BY <1>6 DEF Renaming
    <3>2. n = Lookup(r.path) /\ n # None
      BY <1>1, <1>6
    <3> QED
      BY <1>2, <1>3, <2>1, <2>2, <3>1, <3>2, RenameLooks
  <2> QED
    BY <1>1, <1>2, <1>3, <1>6, <2>3, RemovedAndDone
<1> QED
  BY <1>1, <1>4, <1>5, <1>6 DEF Rename

-----------------------------------------------------------------------------
(* Copies. *)

\* q is what is in a file after a write of the source's unit for that place.
IsPut(q, units, pos) == q = Put(units, pos, pos + 1)

\* What a write leaves, whether its caller waits for it or not: the unit in its
\* place, and every other unit where it was.
LEMMA PutFacts ==
  ASSUME NEW units \in Seq(0 .. SourceLen), NEW pos \in 0 .. SourceLen - 1,
         NEW q, IsPut(q, units, pos)
  PROVE  /\ q \in Seq(0 .. SourceLen) /\ Len(units) \in Nat
         /\ Len(q) = IF pos + 1 > Len(units) THEN pos + 1 ELSE Len(units)
         /\ q[pos + 1] = pos + 1
         /\ \A i \in 1 .. Len(units) : q[i] = IF i = pos + 1 THEN i ELSE units[i]
<1>1. PICK k : k = IF pos + 1 > Len(units) THEN pos + 1 ELSE Len(units)
  OBVIOUS
<1>2. SourceLen \in Nat /\ Len(units) \in Nat /\ k \in Nat /\ pos \in Nat /\ pos + 1 <= SourceLen
      /\ k >= pos + 1 /\ k >= Len(units)
  <2>1. SourceLen \in Nat
    BY FilesAssumption DEF FilesAssumption
  <2>2. Len(units) \in Nat
    OBVIOUS
  <2> QED
    BY <1>1, <2>1, <2>2
<1>3. q = [i \in 1 .. k |-> IF i = pos + 1 THEN pos + 1 ELSE IF i <= Len(units) THEN units[i] ELSE 0]
  BY <1>1 DEF Put, IsPut
<1>4. ASSUME NEW i \in 1 .. k
      PROVE  (IF i = pos + 1 THEN pos + 1 ELSE IF i <= Len(units) THEN units[i] ELSE 0) \in 0 .. SourceLen
  <2>1. CASE i = pos + 1
    BY <1>2, <2>1
  <2>2. CASE i # pos + 1 /\ i <= Len(units)
    <3>1. i \in 1 .. Len(units)
      BY <1>2, <2>2
    <3>2. units[i] \in 0 .. SourceLen
      BY <3>1
    <3> QED
      BY <2>2, <3>2
  <2>3. CASE i # pos + 1 /\ ~(i <= Len(units))
    BY <1>2, <2>3
  <2> QED
    BY <2>1, <2>2, <2>3
<1>5. q \in [1 .. k -> 0 .. SourceLen]
  BY <1>3, <1>4
<1>6. q \in Seq(0 .. SourceLen)
  BY <1>2, <1>5
<1>7. Len(q) = k
  BY <1>2, <1>5
<1>8. q[pos + 1] = pos + 1
  <2>1. pos + 1 \in 1 .. k
    BY <1>2
  <2> QED
    BY <1>3, <2>1
<1>9. ASSUME NEW i \in 1 .. Len(units)
      PROVE  q[i] = IF i = pos + 1 THEN i ELSE units[i]
  <2>1. i \in 1 .. k /\ i <= Len(units)
    BY <1>2
  <2> QED
    BY <1>3, <2>1
<1> QED
  BY <1>1, <1>2, <1>6, <1>7, <1>8, <1>9

\* What is left of a copy whose handle is gone after a fault.
Dropped(r) == [Fatal(r) EXCEPT !.node = None, !.faulted = @ + 1]

\* It has a cause to fail, and its offset is kept.
LEMMA DroppedHolds ==
  ASSUME NEW r \in Calls, Stage(r), Kept(r), r.at = "write", NEW j, j = Dropped(r)
  PROVE  j \in Calls /\ CallOK(j)
<1>1. PICK q : q = Fatal(r)
  OBVIOUS
<1>2. /\ q \in Calls /\ q.op = r.op /\ q.path = r.path /\ q.to = r.to /\ q.offset = r.offset
      /\ q.touched = r.touched /\ q.fit = r.fit /\ q.own = r.own
      /\ q.faulted = r.faulted /\ q.stack = << >> /\ q.pos = 0
      /\ q.at = "failed" /\ q.tries = 0
  BY <1>1, FatalFields
<1>3. /\ j.op = r.op /\ j.path = r.path /\ j.to = r.to /\ j.offset = r.offset
      /\ j.touched = r.touched /\ j.fit = r.fit /\ j.own = r.own
      /\ j.faulted = r.faulted + 1 /\ j.stack = << >> /\ j.pos = 0
      /\ j.at = "failed" /\ j.tries = 0 /\ j.node = None /\ j \in Calls
  <2>1. PICK x : x = r.faulted + 1
    OBVIOUS
  <2>2. r.faulted \in Nat
    BY DEF Calls
  <2>3. x \in Nat /\ None \in FileNodes \cup {None}
    BY <2>1, <2>2
  <2>4. j = [q EXCEPT !.node = None, !.faulted = x]
    BY <1>1, <1>2, <2>1 DEF Dropped
  <2>5. PICK h : h = [q EXCEPT !.node = None]
    OBVIOUS
  <2>6. q \in Calls
    BY <1>2
  <2>7. /\ h.op = q.op /\ h.path = q.path /\ h.to = q.to /\ h.offset = q.offset
        /\ h.touched = q.touched /\ h.fit = q.fit /\ h.own = q.own
        /\ h.faulted = q.faulted /\ h.stack = q.stack /\ h.pos = q.pos
        /\ h.at = q.at /\ h.tries = q.tries /\ h.node = None /\ h \in Calls
    BY <2>6, <2>3, <2>5, HandleFields, SMTT(30)
  <2>8. j = [h EXCEPT !.faulted = x]
    BY <1>2, <2>4, <2>5 DEF Calls
  <2>9. h \in Calls
    BY <2>7
  <2>10. /\ j.op = h.op /\ j.path = h.path /\ j.to = h.to /\ j.offset = h.offset
        /\ j.touched = h.touched /\ j.fit = h.fit /\ j.own = h.own
        /\ j.faulted = x /\ j.stack = h.stack /\ j.pos = h.pos
        /\ j.at = h.at /\ j.tries = h.tries /\ j.node = h.node /\ j \in Calls
    BY <2>3, <2>9, <2>8 DEF Calls
  <2> QED
    BY <1>2, <2>1, <2>7, <2>10
<1>4. r.op = "copy" /\ r.path # << >>
  BY DEF Stage
<1>5. Stage(j)
  <2>1. Len(j.stack) = 0
    BY <1>3
  <2> QED
    BY <1>3, <1>4, <2>1 DEF Stage
<1>6. Kept(j)
  BY <1>3 DEF Kept
<1>7. ~Owed(j)
  <2>1. r.faulted \in Nat
    BY DEF Calls
  <2>2. j.faulted > 0 /\ j.op = "copy"
    BY <1>3, <1>4, <2>1
  <2> QED
    BY <2>2 DEF Owed, Excused
<1> QED
  BY <1>3, <1>5, <1>6, <1>7 DEF CallOK, Succeeds

\* A write fails, or its deadline passes and it goes on behind its caller's back.
LEMMA WriteFailsStep ==
  ASSUME FilesInv, NEW c \in Callers, WriteFails(c)
  PROVE  FilesInv'
<1>1. PICK r, j : r = call[c] /\ j = Dropped(r)
  OBVIOUS
<1>2. /\ r \in Calls /\ Stage(r) /\ Kept(r) /\ r.at = "write" /\ r.offset < SourceLen
      /\ r.node \in FileNodes \cup {None} /\ r.offset \in 0 .. SourceLen /\ SourceLen \in Nat
  BY <1>1, CallFacts, FilesAssumption DEF WriteFails, At, FilesAssumption
<1>3. j \in Calls /\ CallOK(j)
  BY <1>1, <1>2, DroppedHolds
<1>4. r.node \in FileNodes /\ r.pos = r.offset
  BY <1>2 DEF Stage
<1>5. <<r.node, r.pos, r.offset + 1>> \in Late
  <2>1. r.offset \in 0 .. SourceLen - 1 /\ r.offset + 1 \in 1 .. SourceLen
    BY <1>2
  <2> QED
    BY <1>4, <2>1 DEF Late
<1>6. faults' \in 0 .. MaxFaults
  <2>1. faults \in 0 .. MaxFaults /\ MaxFaults \in Nat /\ faults < MaxFaults /\ faults' = faults + 1
    BY FilesAssumption DEF FilesInv, WriteFails
  <2> QED
    BY <2>1
<1>7. late' \subseteq Late /\ UNCHANGED <<backend, tree>> /\ call' = [call EXCEPT ![c] = j]
  BY <1>1, <1>5 DEF FilesInv, WriteFails, Dropped
<1> QED
  BY <1>3, <1>6, <1>7, QuietStep

\* The worker is cancelled between two writes.
LEMMA AbandonStep ==
  ASSUME FilesInv, NEW c \in Callers, Abandon(c)
  PROVE  FilesInv'
<1>1. PICK r, j : r = call[c] /\ j = Dropped(r)
  OBVIOUS
<1>2. r \in Calls /\ Stage(r) /\ Kept(r) /\ r.at = "write"
  BY <1>1, CallFacts DEF Abandon, At
<1>3. j \in Calls /\ CallOK(j)
  BY <1>1, <1>2, DroppedHolds
<1>4. faults' \in 0 .. MaxFaults
  <2>1. faults \in 0 .. MaxFaults /\ MaxFaults \in Nat /\ faults < MaxFaults /\ faults' = faults + 1
    BY FilesAssumption DEF FilesInv, Abandon
  <2> QED
    BY <2>1
<1>5. late' \subseteq Late /\ UNCHANGED <<backend, tree>> /\ call' = [call EXCEPT ![c] = j]
  BY <1>1 DEF FilesInv, Abandon, Dropped
<1> QED
  BY <1>3, <1>4, <1>5, QuietStep

\* The copy is closed: everything was fed, and what was fed is there.
LEMMA CloseStep ==
  ASSUME FilesInv, NEW c \in Callers, Close(c)
  PROVE  FilesInv'
<1>1. PICK r, q, j : r = call[c] /\ q = Done(r) /\ j = [q EXCEPT !.node = None]
  OBVIOUS
<1>2. /\ r \in Calls /\ Stage(r) /\ Kept(r) /\ Succeeds(r) /\ r.at = "write" /\ r.offset = SourceLen
  BY <1>1, CallFacts DEF Close, At
<1>3. r.op = "copy" /\ r.path # << >>
  BY <1>2 DEF Stage
<1>4. /\ q \in Calls /\ q.op = r.op /\ q.path = r.path /\ q.to = r.to /\ q.offset = r.offset
      /\ q.touched = r.touched /\ q.fit = r.fit /\ q.own = r.own
      /\ q.faulted = r.faulted /\ q.stack = << >> /\ q.pos = 0
      /\ q.at = "done" /\ q.tries = 0
  BY <1>1, <1>2, DoneFields
<1>5. /\ j.op = r.op /\ j.path = r.path /\ j.to = r.to /\ j.offset = r.offset
      /\ j.touched = r.touched /\ j.fit = r.fit /\ j.own = r.own
      /\ j.faulted = r.faulted /\ j.stack = << >> /\ j.pos = 0
      /\ j.at = "done" /\ j.node = None /\ j \in Calls
  <2>1. None \in FileNodes \cup {None}
    OBVIOUS
  <2>2. /\ j.op = q.op /\ j.path = q.path /\ j.to = q.to /\ j.offset = q.offset
        /\ j.touched = q.touched /\ j.fit = q.fit /\ j.own = q.own
        /\ j.faulted = q.faulted /\ j.stack = q.stack /\ j.pos = q.pos
        /\ j.at = q.at /\ j.node = None /\ j \in Calls
    BY <1>1, <1>4, <2>1, HandleFields
  <2> QED
    BY <1>4, <2>2
<1>6. Stage(j)
  <2>1. Len(j.stack) = 0
    BY <1>5
  <2> QED
    BY <1>3, <1>5, <2>1 DEF Stage
<1>7. Kept(j)
  BY <1>2, <1>5 DEF Kept
<1>8. Succeeds(j)
  <2> SUFFICES ASSUME Owed(j)
               PROVE  Able(j)
    BY <1>5 DEF Succeeds, Active
  <2>1. Owed(r)
    BY <1>5 DEF Owed, Excused
  <2>2. Fits(r)
    BY <1>2, <2>1, OwedIsAble
  <2>3. Lookup(r.path) \in FileNodes
    BY <1>3, <2>2 DEF Fits
  <2>4. Fits(j)
    BY <1>3, <1>5, <2>3 DEF Fits
  <2>5. Len(j.stack) = 0
    BY <1>5
  <2> QED
    BY <1>5, <2>4, <2>5 DEF Able
<1>9. Answers(c, j)
  BY <1>1 DEF Close, Answers, Answer
<1> QED
  BY <1>5, <1>6, <1>7, <1>8, <1>9, AnswersStep DEF CallOK

\* A handle is at the offset its copy goes on from.
LEMMA OpenedFields ==
  ASSUME NEW r \in Calls, Stage(r), r.at = "copy", NEW n \in FileNodes, NEW x, x = Opened(r, n)
  PROVE  /\ x \in Calls /\ Stage(x) /\ x.at = "write" /\ x.node = n /\ x.pos = r.offset
         /\ x.op = "copy" /\ x.path = r.path /\ x.to = r.to /\ x.offset = r.offset
         /\ x.touched = r.touched /\ x.fit = r.fit /\ x.own = r.own /\ x.faulted = r.faulted
         /\ x.stack = << >>
<1>1. r.offset \in 0 .. SourceLen
  BY DEF Calls
<1>2. r.op = "copy" /\ r.path # << >> /\ r.stack = << >> /\ Len(r.stack) = 0
  <2>1. r.op = "copy" /\ r.path # << >> /\ r.stack = << >>
    BY DEF Stage
  <2> QED
    BY <2>1
<1>3. PICK k : k = r.offset
  OBVIOUS
<1>4. k \in Nat /\ x = [r EXCEPT !.at = "write", !.node = n, !.pos = k]
  BY <1>1, <1>3 DEF Opened
<1>5. /\ x \in Calls /\ x.at = "write" /\ x.node = n /\ x.pos = k
      /\ x.op = r.op /\ x.path = r.path /\ x.to = r.to /\ x.offset = r.offset
      /\ x.touched = r.touched /\ x.fit = r.fit /\ x.own = r.own /\ x.faulted = r.faulted
      /\ x.stack = r.stack
  <2>1. PICK h : h = [r EXCEPT !.node = n]
    OBVIOUS
  <2>2. /\ h \in Calls /\ h.op = r.op /\ h.path = r.path /\ h.to = r.to
        /\ h.offset = r.offset /\ h.node = n /\ h.touched = r.touched /\ h.fit = r.fit
        /\ h.own = r.own /\ h.stack = r.stack /\ h.faulted = r.faulted
    BY <2>1, HandleFields
  <2>3. x = [h EXCEPT !.at = "write", !.pos = k]
    BY <1>4, <2>1 DEF Calls
  <2>4. h \in Calls /\ k \in Nat
    BY <1>4, <2>2
  <2>5. /\ x \in Calls /\ x.at = "write" /\ x.node = h.node /\ x.pos = k
        /\ x.op = h.op /\ x.path = h.path /\ x.to = h.to /\ x.offset = h.offset
        /\ x.touched = h.touched /\ x.fit = h.fit /\ x.own = h.own /\ x.faulted = h.faulted
        /\ x.stack = h.stack
    BY <2>4, <2>3, ZenonT(60) DEF Calls, Active
  <2> QED
    BY <2>2, <2>5
<1>6. n # None
  BY DEF FilesAssumption, Nodes
<1>7. Stage(x)
  BY <1>2, <1>3, <1>5, <1>6 DEF Stage
<1> QED
  BY <1>2, <1>3, <1>5, <1>7

\* A copy is resumed.
LEMMA OpenWriteFromOffsetStep ==
  ASSUME FilesInv, NEW c \in Callers, OpenWriteFromOffset(c)
  PROVE  FilesInv'
<1>1. PICK r, n : r = call[c] /\ n = Lookup(r.path)
  OBVIOUS
<1>2. /\ r \in Calls /\ Stage(r) /\ Kept(r) /\ Succeeds(r) /\ r.path \in Seq(Names) /\ r.at = "copy"
      /\ r.at \in Active \ {"write"} /\ r.offset > 0 /\ TreeOK(parent, name)
  BY <1>1, CallFacts DEF OpenWriteFromOffset, At, Active, FilesInv
<1>3. r.op = "copy" /\ r.path # << >>
  BY <1>2 DEF Stage
<1>4. n \in (Nodes \ {Top}) \cup {None}
  BY <1>1, <1>2, <1>3, LookupIs
<1>5. Owed(r) => n \in FileNodes
  BY <1>1, <1>2, <1>3, OwedIsAble DEF Fits
<1>6. \A m \in FileNodes : m # None /\ ~IsDir(m)
  BY <1>2, FilesAreLeaves
<1>7. PICK j : /\ j = CASE n = None -> Fatal(r) [] IsDir(n) -> Again(r) [] n \in FileNodes -> Opened(r, n)
               /\ Answers(c, j)
  BY <1>1 DEF OpenWriteFromOffset, Answers, Answer
<1>8. CASE n = None
  <2>1. ~IsDir(n) /\ n \notin FileNodes
    BY <1>6, <1>8 DEF IsDir, FilesAssumption, Nodes
  <2>2. j = Fatal(r)
    BY <1>7, <1>8, <2>1
  <2> QED
    BY <1>1, <1>2, <1>5, <1>7, <2>1, <2>2, GiveUpStep
<1>9. CASE IsDir(n)
  <2>1. n # None /\ n \notin FileNodes
    BY <1>6, <1>9 DEF IsDir, FilesAssumption, Nodes
  <2>2. j = Again(r)
    BY <1>7, <1>9, <2>1
  <2> QED
    BY <1>1, <1>2, <1>5, <1>7, <2>1, <2>2, RetryStep
<1>10. CASE n \in FileNodes
  <2>1. n # None /\ ~IsDir(n)
    BY <1>6, <1>10
  <2>2. j = Opened(r, n)
    BY <1>7, <1>10, <2>1
  <2>3. /\ j \in Calls /\ Stage(j) /\ j.at = "write" /\ j.node = n /\ j.pos = r.offset
        /\ j.op = "copy" /\ j.path = r.path /\ j.to = r.to /\ j.offset = r.offset
        /\ j.touched = r.touched /\ j.fit = r.fit /\ j.own = r.own /\ j.faulted = r.faulted
        /\ j.stack = << >>
    BY <1>2, <1>10, <2>2, OpenedFields
  <2>4. Kept(j)
    BY <1>1, <1>2, <2>3 DEF Kept
  <2>5. Fits(j)
    BY <1>1, <1>10, <2>3 DEF Fits
  <2>6. Able(j)
    <3>1. Len(j.stack) = 0
      BY <2>3
    <3> QED
      BY <2>3, <2>5, <3>1 DEF Able
  <2>7. Succeeds(j)
    BY <2>3, <2>6 DEF Succeeds
  <2> QED
    BY <1>7, <2>3, <2>4, <2>7, AnswersStep DEF CallOK
<1> QED
  BY <1>4, <1>8, <1>9, <1>10 DEF Nodes, IsDir

\* A copy begun with an empty file.
LEMMA OpenedStep ==
  ASSUME FilesInv, NEW c \in Callers, NEW r, r = call[c], r.at = "copy", r.offset = 0,
         NEW n \in FileNodes, NEW x, x = Opened(r, n), Changed(c, x),
         Lookup(r.path)' = n, data'[n] = << >>, backend' = backend, late' = late,
         TreeOK(parent', name'), data' \in [FileNodes -> Seq(0 .. SourceLen)]
  PROVE  FilesInv'
<1>1. r \in Calls /\ Stage(r)
  BY CallFacts
<1>2. r.op = "copy" /\ r.path # << >>
  BY <1>1 DEF Stage
<1>3. PICK j : j = [x EXCEPT !.own = TRUE]
  OBVIOUS
<1>4. /\ j \in Calls /\ j.at = "write" /\ j.node = n /\ j.pos = 0 /\ j.op = "copy"
      /\ j.path = r.path /\ j.offset = 0 /\ j.stack = << >> /\ Stage(x)
      /\ x.pos = 0 /\ x.at = "write" /\ x.op = "copy" /\ x.path = r.path /\ x.node = n
      /\ x.offset = 0 /\ x.stack = << >> /\ x.to = j.to
  <2>1. /\ x \in Calls /\ Stage(x) /\ x.at = "write" /\ x.node = n /\ x.pos = 0
        /\ x.op = "copy" /\ x.path = r.path /\ x.offset = 0 /\ x.stack = << >>
    BY <1>1, OpenedFields
  <2>2. x \in Calls
    BY <2>1
  <2>3. /\ j \in Calls /\ j.at = x.at /\ j.node = x.node /\ j.pos = x.pos /\ j.op = x.op
        /\ j.path = x.path /\ j.offset = x.offset /\ j.stack = x.stack /\ j.to = x.to
    BY <1>3, <2>2, <2>1, ZenonT(60) DEF Calls
  <2> QED
    BY <2>1, <2>3
<1>5. Stage(j)
  BY <1>4 DEF Stage
<1>6. Kept(j)'
  <2>1. Len(data'[n]) = 0 /\ 0 <= SourceLen /\ 0 <= 0
    BY FilesAssumption DEF FilesAssumption
  <2>2. Lookup(j.path)' = n /\ j.offset = 0
    BY <1>4
  <2>3. \A i \in 1 .. j.offset : FALSE
    BY <1>4
  <2> QED
    BY <1>4, <2>1, <2>2, <2>3 DEF Kept
<1>7. Succeeds(j)'
  <2>1. Fits(j)'
    BY <1>4 DEF Fits
  <2>2. Len(j.stack) = 0
    BY <1>4
  <2>3. Able(j)'
    BY <1>4, <2>1, <2>2 DEF Able
  <2> QED
    BY <1>4, <2>3 DEF Succeeds
<1>8. CallOK(j)'
  BY <1>5, <1>6, <1>7 DEF CallOK, Stage
<1>9. PICK o : o = [r EXCEPT !.own = TRUE]
  OBVIOUS
<1>10. /\ o \in Calls /\ o.at = r.at /\ o.op = r.op /\ o.path = r.path /\ o.to = r.to
       /\ o.offset = r.offset /\ o.node = r.node /\ o.touched = r.touched /\ o.fit = r.fit
       /\ o.own = TRUE /\ o.stack = r.stack /\ o.pos = r.pos /\ o.tries = r.tries
       /\ o.faulted = r.faulted
  BY <1>1, <1>9 DEF Calls
<1>11. Recovers(o)'
  <2>1. Stage(o)'
    BY <1>1, <1>10 DEF Stage
  <2>2. Kept(o)'
    BY <1>10 DEF Kept
  <2>3. Fits(o)'
    BY <1>2, <1>10 DEF Fits
  <2> QED
    BY <1>2, <1>10, <2>1, <2>2, <2>3 DEF Recovers, Active
<1> QED
  BY <1>3, <1>4, <1>8, <1>9, <1>11, ChangedStep

\* A copy is begun: in a new file, or in one that is emptied.
LEMMA OpenWriteStep ==
  ASSUME FilesInv, NEW c \in Callers, OpenWrite(c)
  PROVE  FilesInv'
<1>1. PICK r, n : r = call[c] /\ n = Lookup(r.path)
  OBVIOUS
<1>2. /\ r \in Calls /\ Stage(r) /\ Succeeds(r) /\ r.path \in Seq(Names) /\ r.at = "copy"
      /\ r.at \in Active \ {"write"} /\ r.offset = 0 /\ TreeOK(parent, name)
      /\ backend' = backend /\ late' = late
  BY <1>1, CallFacts DEF OpenWrite, At, Active, FilesInv
<1>3. r.op = "copy" /\ r.path # << >>
  BY <1>2 DEF Stage
<1>4. Owed(r) => n \in FileNodes
  BY <1>1, <1>2, <1>3, OwedIsAble DEF Fits
<1>5. \A m \in FileNodes : m # None /\ ~IsDir(m)
  BY <1>2, FilesAreLeaves
<1>6. CASE IsDir(n) /\ Answer(c, Again(r))
  BY <1>1, <1>2, <1>4, <1>5, <1>6, RetryStep DEF Answers
<1>7. CASE n = None /\ Answer(c, Fatal(r))
  BY <1>1, <1>2, <1>4, <1>5, <1>7, GiveUpStep DEF Answers
<1>8. CASE /\ n = None /\ InDir(r.path)
           /\ MakeOne(c, FileNodes, r.path, Opened(r, FreeNode(FileNodes)))
  <2>1. PICK m, x : m = FreeNode(FileNodes) /\ x = Opened(r, m)
    OBVIOUS
  <2>2. CASE ~\E f \in FileNodes : Free(f)
    <3>1. Answer(c, Fatal([call[c] EXCEPT !.fit = FALSE]))
      BY <1>8, <2>2 DEF MakeOne
    <3> QED
      BY <1>1, <1>2, <3>1, NoRoomStep DEF Answers
  <2>3. CASE \E f \in FileNodes : Free(f)
    <3>1. m \in FileNodes /\ Free(m) /\ Make(m, r.path) /\ Changed(c, x)
      BY <1>8, <2>1, <2>3, FreeNodeIs DEF MakeOne
    <3>2. /\ TreeOK(parent', name') /\ data' \in [FileNodes -> Seq(0 .. SourceLen)]
          /\ Lookup(r.path)' = m /\ data'[m] = << >>
      BY <1>1, <1>2, <1>3, <1>8, <3>1, MakeLooks
    <3> QED
      BY <1>1, <1>2, <2>1, <3>1, <3>2, OpenedStep
  <2> QED
    BY <2>2, <2>3
<1>9. CASE n \in FileNodes /\ Empty(n) /\ Changed(c, Opened(r, n))
  <2>1. PICK x : x = Opened(r, n)
    OBVIOUS
  <2>2. /\ TreeOK(parent', name') /\ data' \in [FileNodes -> Seq(0 .. SourceLen)]
        /\ Lookup(r.path)' = n /\ data'[n] = << >>
    BY <1>1, <1>9, EmptyLooks
  <2> QED
    BY <1>1, <1>2, <1>9, <2>1, <2>2, OpenedStep
<1> QED
  BY <1>1, <1>6, <1>7, <1>8, <1>9 DEF OpenWrite

\* A write is one of the source's units in its place, or none of these.
PutInto(f, w) == data' = [data EXCEPT ![f] = Put(@, w, w + 1)]

\* Whatever file is looked at, it is not shorter afterwards, not longer than the
\* source if it was not before, and the units in their place stay in their place.
LEMMA PutLooks ==
  ASSUME FilesInv, NEW f \in FileNodes, NEW k \in 0 .. SourceLen - 1, PutInto(f, k)
  PROVE  /\ data' \in [FileNodes -> Seq(0 .. SourceLen)]
         /\ \A n \in FileNodes : /\ Len(data[n]) \in Nat
                                 /\ Len(data'[n]) >= Len(data[n])
                                 /\ Len(data[n]) <= SourceLen => Len(data'[n]) <= SourceLen
                                 /\ \A i \in 1 .. Len(data[n]) : data[n][i] = i => data'[n][i] = i
         /\ Len(data'[f]) >= k + 1 /\ data'[f][k + 1] = k + 1
<1>1. PICK q : q = Put(data[f], k, k + 1)
  OBVIOUS
<1>2. data \in [FileNodes -> Seq(0 .. SourceLen)] /\ data[f] \in Seq(0 .. SourceLen)
  BY DEF FilesInv
<1>3. /\ q \in Seq(0 .. SourceLen) /\ Len(data[f]) \in Nat
      /\ Len(q) = IF k + 1 > Len(data[f]) THEN k + 1 ELSE Len(data[f])
      /\ q[k + 1] = k + 1
      /\ \A i \in 1 .. Len(data[f]) : q[i] = IF i = k + 1 THEN i ELSE data[f][i]
  <2>1. PICK u : u = data[f]
    OBVIOUS
  <2>2. u \in Seq(0 .. SourceLen) /\ IsPut(q, u, k)
    BY <1>1, <1>2, <2>1 DEF IsPut
  <2>3. /\ q \in Seq(0 .. SourceLen) /\ Len(u) \in Nat
        /\ Len(q) = IF k + 1 > Len(u) THEN k + 1 ELSE Len(u)
        /\ q[k + 1] = k + 1
        /\ \A i \in 1 .. Len(u) : q[i] = IF i = k + 1 THEN i ELSE u[i]
    BY <2>2, PutFacts
  <2> QED
    BY <2>1, <2>3
<1>4. data' = [data EXCEPT ![f] = q]
  BY <1>1, <1>2 DEF PutInto
<1>5. data' \in [FileNodes -> Seq(0 .. SourceLen)] /\ data'[f] = q
  BY <1>2, <1>3, <1>4
<1>6. \A n \in FileNodes : n # f => data'[n] = data[n]
  BY <1>2, <1>4
<1>7. SourceLen \in Nat /\ k \in Nat /\ k + 1 <= SourceLen
  BY FilesAssumption DEF FilesAssumption
<1>8. ASSUME NEW n \in FileNodes
      PROVE  /\ Len(data[n]) \in Nat
             /\ Len(data'[n]) >= Len(data[n])
             /\ Len(data[n]) <= SourceLen => Len(data'[n]) <= SourceLen
             /\ \A i \in 1 .. Len(data[n]) : data[n][i] = i => data'[n][i] = i
  <2>1. CASE n # f
    <3>1. data[n] \in Seq(0 .. SourceLen)
      BY <1>2
    <3>2. Len(data[n]) \in Nat
      BY <3>1
    <3> QED
      BY <1>6, <2>1, <3>2
  <2>2. CASE n = f
    <3>1. Len(data[n]) \in Nat
      BY <1>3, <2>2
    <3>2. Len(data'[n]) = IF k + 1 > Len(data[n]) THEN k + 1 ELSE Len(data[n])
      BY <1>3, <1>5, <2>2
    <3>3. Len(data'[n]) >= Len(data[n]) /\ (Len(data[n]) <= SourceLen => Len(data'[n]) <= SourceLen)
      BY <1>7, <3>1, <3>2
    <3>4. \A i \in 1 .. Len(data[n]) : data[n][i] = i => data'[n][i] = i
      BY <1>3, <1>5, <2>2
    <3> QED
      BY <3>1, <3>3, <3>4
  <2> QED
    BY <2>1, <2>2
<1>9. Len(data'[f]) >= k + 1
  <2>1. Len(data'[f]) = IF k + 1 > Len(data[f]) THEN k + 1 ELSE Len(data[f])
    BY <1>3, <1>5
  <2>2. Len(data[f]) \in Nat
    BY <1>3
  <2> QED
    BY <1>7, <2>1, <2>2
<1> QED
  BY <1>3, <1>5, <1>8, <1>9

\* One unit is written, and fed only once.
LEMMA WriteStep ==
  ASSUME FilesInv, NEW c \in Callers, Write(c)
  PROVE  FilesInv'
<1>1. PICK r, k, j : r = call[c] /\ k = r.offset /\ j = [r EXCEPT !.pos = @ + 1, !.offset = @ + 1]
  OBVIOUS
<1>2. /\ r \in Calls /\ Stage(r) /\ Kept(r) /\ Succeeds(r) /\ r.at = "write" /\ k < SourceLen
      /\ r.node \in FileNodes \cup {None} /\ k \in 0 .. SourceLen /\ SourceLen \in Nat
      /\ r.path \in Seq(Names)
  BY <1>1, CallFacts, FilesAssumption DEF Write, At, FilesAssumption
<1>3. r.node \in FileNodes /\ r.pos = k /\ r.op = "copy" /\ r.path # << >> /\ r.stack = << >>
  BY <1>1, <1>2 DEF Stage
<1>4. k \in 0 .. SourceLen - 1 /\ k \in Nat /\ k + 1 \in 0 .. SourceLen /\ k + 1 \in Nat
  BY <1>2
<1>5. PutInto(r.node, k)
  BY <1>1, <1>3 DEF Write, PutInto
<1>6. /\ data' \in [FileNodes -> Seq(0 .. SourceLen)]
      /\ \A n \in FileNodes : /\ Len(data[n]) \in Nat
                              /\ Len(data'[n]) >= Len(data[n])
                              /\ Len(data[n]) <= SourceLen => Len(data'[n]) <= SourceLen
                              /\ \A i \in 1 .. Len(data[n]) : data[n][i] = i => data'[n][i] = i
      /\ Len(data'[r.node]) >= k + 1 /\ data'[r.node][k + 1] = k + 1
  BY <1>3, <1>4, <1>5, PutLooks
<1>7. /\ parent' = parent /\ name' = name /\ backend' = backend /\ late' = late /\ faults' = faults
      /\ call' = [Touched EXCEPT ![c] = j]
  BY <1>1 DEF Write
<1>8. PICK h : h = k + 1
  OBVIOUS
<1>9. j = [r EXCEPT !.pos = h, !.offset = h]
  BY <1>1, <1>2, <1>3, <1>8 DEF Calls
<1>10. /\ j \in Calls /\ j.at = r.at /\ j.op = r.op /\ j.path = r.path /\ j.to = r.to /\ j.node = r.node
       /\ j.touched = r.touched /\ j.fit = r.fit /\ j.own = r.own /\ j.faulted = r.faulted
       /\ j.stack = r.stack /\ j.pos = h /\ j.offset = h
  BY <1>2, <1>4, <1>8, <1>9 DEF Calls
<1>11. \A p : Lookup(p)' = Lookup(p)
  BY <1>7, LookupFinds
<1>12. Stage(j)
  <2>1. Len(j.stack) = 0
    BY <1>3, <1>10
  <2> QED
    BY <1>2, <1>3, <1>10, <2>1 DEF Stage
<1>13. Kept(j)'
  <2> SUFFICES ASSUME ~j.touched
               PROVE  /\ Lookup(j.path)' \in FileNodes /\ Len(data'[Lookup(j.path)']) <= SourceLen
                      /\ j.offset <= Len(data'[Lookup(j.path)'])
                      /\ \A i \in 1 .. j.offset : data'[Lookup(j.path)'][i] = i
                      /\ j.node = Lookup(j.path)'
    BY <1>2, <1>10 DEF Kept
  <2>1. PICK n : n = Lookup(r.path)
    OBVIOUS
  <2>2. /\ n \in FileNodes /\ Len(data[n]) <= SourceLen /\ k <= Len(data[n])
        /\ \A i \in 1 .. k : data[n][i] = i
        /\ r.node = n
    BY <1>1, <1>2, <1>10, <2>1 DEF Kept
  <2>3. Lookup(j.path)' = n
    BY <1>10, <1>11, <2>1
  <2>4. Len(data'[n]) <= SourceLen /\ h <= Len(data'[n])
    <3>1. data'[n] \in Seq(0 .. SourceLen)
      BY <1>6, <2>2
    <3>2. Len(data'[n]) \in Nat
      BY <3>1
    <3> QED
      BY <1>4, <1>6, <1>8, <2>2, <3>2
  <2>5. ASSUME NEW i \in 1 .. h
        PROVE  data'[n][i] = i
    <3>1. CASE i = h
      BY <1>6, <1>8, <2>2, <3>1
    <3>2. CASE i # h
      <4>1. Len(data[n]) \in Nat /\ k <= Len(data[n]) /\ k \in Nat
        BY <1>4, <1>6, <2>2
      <4>2. i \in 1 .. k
        BY <1>4, <1>8, <3>2
      <4>3. i \in 1 .. Len(data[n])
        BY <4>1, <4>2
      <4> QED
        BY <1>6, <2>2, <4>2, <4>3
    <3> QED
      BY <3>1, <3>2
  <2> QED
    BY <1>10, <2>2, <2>3, <2>4, <2>5
<1>14. Succeeds(j)'
  <2> SUFFICES ASSUME Owed(j)'
               PROVE  Able(j)'
    BY <1>2, <1>3, <1>10 DEF Succeeds
  <2>1. Owed(r)
    BY <1>7, <1>10 DEF Owed, Excused
  <2>2. Lookup(r.path) \in FileNodes
    BY <1>2, <1>3, <2>1, OwedIsAble DEF Fits
  <2>3. Fits(j)'
    BY <1>3, <1>10, <1>11, <2>2 DEF Fits
  <2>4. Len(j.stack) = 0
    BY <1>3, <1>10
  <2> QED
    BY <1>2, <1>3, <1>10, <2>3, <2>4 DEF Able
<1>15. CallOK(j)'
  BY <1>12, <1>13, <1>14 DEF CallOK, Stage
<1>16. TreeOK(parent', name') /\ faults' \in 0 .. MaxFaults
  BY <1>7 DEF FilesInv
<1> QED
  BY <1>6, <1>7, <1>10, <1>15, <1>16, ChangeStep

\* A write that nobody waits for arrives, or does not; no call is touched by it.
LEMMA LateWriteStep ==
  ASSUME FilesInv, NEW w \in late, LateWrite(w)
  PROVE  FilesInv'
<1>1. PICK f, k : f = w[1] /\ k = w[2]
  OBVIOUS
<1>2. f \in FileNodes /\ k \in 0 .. SourceLen - 1 /\ w[3] = k + 1
  <2>1. w \in Late
    BY DEF FilesInv
  <2> QED
    BY <1>1, <2>1 DEF Late
<1>3. /\ parent' = parent /\ name' = name /\ backend' = backend /\ call' = call /\ faults' = faults
      /\ late' \subseteq Late /\ (PutInto(f, k) \/ UNCHANGED data)
  BY <1>1, <1>2 DEF LateWrite, FilesInv, PutInto
<1>4. CASE UNCHANGED data
  <2>1. UNCHANGED <<backend, tree>>
    BY <1>3, <1>4 DEF tree
  <2>2. \A r : CallOK(r)' <=> CallOK(r)
    BY <2>1, SameTree
  <2> QED
    BY <1>3, <1>4, <2>2 DEF FilesInv, Late
<1>5. CASE PutInto(f, k)
  <2>1. /\ data' \in [FileNodes -> Seq(0 .. SourceLen)]
        /\ \A n \in FileNodes : /\ Len(data[n]) \in Nat
                                /\ Len(data'[n]) >= Len(data[n])
                                /\ Len(data[n]) <= SourceLen => Len(data'[n]) <= SourceLen
                                /\ \A i \in 1 .. Len(data[n]) : data[n][i] = i => data'[n][i] = i
    BY <1>2, <1>5, PutLooks
  <2>2. \A p : Lookup(p)' = Lookup(p)
    BY <1>3, LookupFinds
  <2>3. \A n : Kids(n)' = Kids(n)
    BY <1>3 DEF Kids
  <2>4. \A n : Entries(n)' = Entries(n)
    BY <1>3, <2>3 DEF Entries
  <2>5. ASSUME NEW c \in Callers
        PROVE  CallOK(call[c])'
    <3>1. PICK r : r = call[c]
      OBVIOUS
    <3>2. Stage(r) /\ Kept(r) /\ Succeeds(r) /\ r.offset \in 0 .. SourceLen
      BY <3>1, CallFacts
    <3>3. Kept(r)'
      <4> SUFFICES ASSUME (r.offset > 0 \/ r.at = "write" \/ (r.at = "done" /\ r.op = "copy")) /\ ~r.touched
                   PROVE  /\ Lookup(r.path)' \in FileNodes /\ Len(data'[Lookup(r.path)']) <= SourceLen
                          /\ r.offset <= Len(data'[Lookup(r.path)'])
                          /\ \A i \in 1 .. r.offset : data'[Lookup(r.path)'][i] = i
                          /\ r.at = "write" => r.node = Lookup(r.path)'
                          /\ r.at = "done" => r.offset = SourceLen
        BY DEF Kept
      <4>1. PICK n : n = Lookup(r.path)
        OBVIOUS
      <4>2. /\ n \in FileNodes /\ Len(data[n]) <= SourceLen /\ r.offset <= Len(data[n])
            /\ \A i \in 1 .. r.offset : data[n][i] = i
            /\ r.at = "write" => r.node = n
            /\ r.at = "done" => r.offset = SourceLen
        BY <3>2, <4>1 DEF Kept
      <4>3. data'[n] \in Seq(0 .. SourceLen) /\ Len(data[n]) \in Nat /\ Len(data'[n]) >= Len(data[n])
            /\ Len(data'[n]) <= SourceLen
        BY <2>1, <4>2
      <4>4. r.offset <= Len(data'[n])
        <5>1. Len(data'[n]) \in Nat
          BY <4>3
        <5> QED
          BY <3>2, <4>2, <4>3, <5>1
      <4>5. ASSUME NEW i \in 1 .. r.offset
            PROVE  data'[n][i] = i
        <5>1. i \in 1 .. Len(data[n])
          BY <3>2, <4>2, <4>3
        <5> QED
          BY <2>1, <4>2, <5>1
      <4> QED
        BY <2>2, <4>1, <4>2, <4>3, <4>4, <4>5
    <3>4. Able(r) => Able(r)'
      BY <1>3, <2>2, <2>4 DEF Able, Fits, InDir
    <3>5. Succeeds(r)'
      BY <1>3, <3>2, <3>4 DEF Succeeds, Owed, Excused
    <3> QED
      BY <1>3, <3>1, <3>2, <3>3, <3>5 DEF CallOK, Stage
  <2> QED
    BY <1>3, <2>1, <2>5 DEF FilesInv, Late
<1> QED
  BY <1>3, <1>4, <1>5

-----------------------------------------------------------------------------
(* The invariant holds. *)

\* The invariant holds at first.
LEMMA InitHolds == Init => FilesInv
<1> SUFFICES ASSUME Init
             PROVE  FilesInv
  OBVIOUS
<1>1. PICK d \in Dirs, f \in FileNodes :
        /\ parent = [n \in Nodes |-> CASE n = d -> Top [] n = f -> d [] OTHER -> None]
        /\ name = [n \in Nodes |-> IF n \in {d, f} THEN OldName ELSE ""]
        /\ data = [n \in FileNodes |-> IF n = f THEN OldData ELSE << >>]
  <2>1. /\ (CHOOSE d \in Dirs : TRUE) \in Dirs
        /\ (CHOOSE f \in FileNodes : TRUE) \in FileNodes
    BY FilesAssumption DEF FilesAssumption
  <2>2. LET d == CHOOSE d \in Dirs : TRUE  f == CHOOSE f \in FileNodes : TRUE IN
          /\ parent = [n \in Nodes |-> CASE n = d -> Top [] n = f -> d [] OTHER -> None]
          /\ name = [n \in Nodes |-> IF n \in {d, f} THEN OldName ELSE ""]
          /\ data = [n \in FileNodes |-> IF n = f THEN OldData ELSE << >>]
    BY DEF Init
  <2> QED
    BY <2>1, <2>2
<1>2. /\ d # f /\ d # Top /\ f # Top /\ {d, f, Top} \subseteq Nodes /\ None \notin Nodes
      /\ OldName \in Names /\ IsDir(d) /\ IsDir(Top)
  BY FilesAssumption DEF FilesAssumption, Nodes, IsDir
<1>3. /\ parent \in [Nodes -> Nodes \cup {None}] /\ name \in [Nodes -> Names \cup {""}]
      /\ parent[d] = Top /\ parent[f] = d /\ \A n \in Nodes \ {d, f} : parent[n] = None
      /\ name[d] = OldName /\ name[f] = OldName
  <2>1. \A n \in Nodes : parent[n] = IF n = d THEN Top ELSE IF n = f THEN d ELSE None
    BY <1>1, <1>2
  <2>2. parent = [n \in Nodes |-> IF n = d THEN Top ELSE IF n = f THEN d ELSE None]
    BY <1>1, <1>2
  <2> QED
    BY <1>1, <1>2, <2>1, <2>2
<1>4. TreeOK(parent, name)
  <2>1. \A n \in Nodes \ {Top} :
          parent[n] # None => /\ IsDir(parent[n]) /\ (parent[n] = Top \/ parent[parent[n]] # None)
                              /\ name[n] \in Names
    BY <1>2, <1>3
  <2>2. \A m, n \in Nodes \ {Top} :
          m # n /\ parent[m] = parent[n] /\ parent[m] # None => name[m] # name[n]
    <3>1. \A n \in Nodes : parent[n] # None => n = d \/ n = f
      BY <1>3
    <3>2. parent[d] = Top /\ parent[f] = d /\ d # Top
      BY <1>2, <1>3
    <3> QED
      BY <3>1, <3>2
  <2> QED
    BY <1>3, <2>1, <2>2 DEF TreeOK
<1>5. data \in [FileNodes -> Seq(0 .. SourceLen)]
  <2>1. OldData \in Seq({0}) /\ {0} \subseteq 0 .. SourceLen
    BY FilesAssumption DEF FilesAssumption
  <2>2. OldData \in Seq(0 .. SourceLen)
    BY <2>1
  <2> QED
    BY <1>1, <2>2, NoData
<1>6. backend \in Backends /\ faults \in 0 .. MaxFaults /\ late \subseteq Late
  <2>1. 0 \in 0 .. MaxFaults
    BY FilesAssumption DEF FilesAssumption
  <2> QED
    BY <2>1 DEF Init
<1>7. call \in [Callers -> Calls] /\ \A c \in Callers : CallOK(call[c])
  BY IdleCall, IdleIsFine DEF Init
<1> QED
  BY <1>4, <1>5, <1>6, <1>7 DEF FilesInv

\* It holds when nothing happens.
LEMMA StutterHolds ==
  ASSUME FilesInv, UNCHANGED vars
  PROVE  FilesInv'
<1>1. \A r : CallOK(r)' <=> CallOK(r)
  BY SameTree DEF vars
<1>2. late' = late /\ call' = call /\ faults' = faults /\ backend' = backend /\ parent' = parent
      /\ name' = name /\ data' = data
  BY DEF vars, tree
<1> QED
  BY <1>1, <1>2 DEF FilesInv, Late

\* Every step of a caller under way keeps it.
LEMMA StepHolds ==
  ASSUME FilesInv, NEW c \in Callers, Step(c)
  PROVE  FilesInv'
<1>1. CASE MakeDir(c)
  BY <1>1, MakeDirStep
<1>2. CASE CreateFile(c)
  BY <1>2, CreateFileStep
<1>3. CASE Stat(c)
  BY <1>3, StatStep
<1>4. CASE Lstat(c)
  BY <1>4, LstatStep
<1>5. CASE RemoveOne(c)
  BY <1>5, RemoveOneStep
<1>6. CASE EnterDir(c)
  BY <1>6, EnterDirStep
<1>7. CASE LeaveDir(c)
  BY <1>7, LeaveDirStep
<1>8. CASE \E x \in Names, b \in BOOLEAN : RemoveEntry(c, <<x, b>>)
  BY <1>8, RemoveEntryStep
<1>9. CASE Rename(c)
  BY <1>9, RenameStep
<1>10. CASE OpenWrite(c)
  BY <1>10, OpenWriteStep
<1>11. CASE OpenWriteFromOffset(c)
  BY <1>11, OpenWriteFromOffsetStep
<1>12. CASE Write(c)
  BY <1>12, WriteStep
<1>13. CASE Close(c)
  BY <1>13, CloseStep
<1> QED
  BY <1>1, <1>2, <1>3, <1>4, <1>5, <1>6, <1>7, <1>8, <1>9, <1>10, <1>11, <1>12, <1>13 DEF Step

\* So does every step.
LEMMA NextHolds == FilesInv /\ [Next]_vars => FilesInv'
<1> SUFFICES ASSUME FilesInv, [Next]_vars
             PROVE  FilesInv'
  OBVIOUS
<1>1. ASSUME NEW c \in Callers, Start(c)
      PROVE  FilesInv'
  BY <1>1, StartStep
<1>2. ASSUME NEW c \in Callers, Step(c)
      PROVE  FilesInv'
  BY <1>2, StepHolds
<1>3. ASSUME NEW c \in Callers, Fault(c)
      PROVE  FilesInv'
  BY <1>3, FaultStep
<1>4. ASSUME NEW c \in Callers, WriteFails(c)
      PROVE  FilesInv'
  BY <1>4, WriteFailsStep
<1>5. ASSUME NEW c \in Callers, Abandon(c)
      PROVE  FilesInv'
  BY <1>5, AbandonStep
<1>6. ASSUME NEW c \in Callers, Return(c)
      PROVE  FilesInv'
  BY <1>6, ReturnStep
<1>7. ASSUME NEW w \in late, LateWrite(w)
      PROVE  FilesInv'
  BY <1>7, LateWriteStep
<1>8. CASE UNCHANGED vars
  BY <1>8, StutterHolds
<1> QED
  BY <1>1, <1>2, <1>3, <1>4, <1>5, <1>6, <1>7, <1>8 DEF Next

\* The inductive invariant holds for all callers, trees, paths, sources and faults of
\* either adapter.
THEOREM FilesInvariant == Spec => []FilesInv
<1>1. Init => FilesInv
  BY InitHolds
<1>2. FilesInv /\ [Next]_vars => FilesInv'
  BY NextHolds
<1> QED
  BY <1>1, <1>2, PTL DEF Spec

\* TypeOK: every variable keeps its type and the tree stays a tree, whoever makes,
\* removes, renames and copies in it at once.
THEOREM FilesTypes == Spec => []TypeOK
<1>1. FilesInv => TypeOK
  <2> SUFFICES ASSUME FilesInv
               PROVE  TypeOK
    OBVIOUS
  <2>1. /\ backend \in Backends /\ faults \in 0 .. MaxFaults
        /\ data \in [FileNodes -> Seq(0 .. SourceLen)]
    BY DEF FilesInv
  <2>2. /\ \A n \in Nodes \ {Top} :
             parent[n] # None => IsDir(parent[n]) /\ (parent[n] = Top \/ parent[parent[n]] # None)
        /\ \A m, n \in Nodes \ {Top} :
             m # n /\ parent[m] = parent[n] /\ parent[m] # None => name[m] # name[n]
    BY DEF FilesInv, TreeOK
  <2>3. ASSUME NEW w \in late
        PROVE  w \in FileNodes \X (0 .. SourceLen) \X (1 .. SourceLen)
    <3>1. w \in FileNodes \X (0 .. SourceLen - 1) \X (1 .. SourceLen)
      BY DEF FilesInv, Late
    <3>2. 0 .. SourceLen - 1 \subseteq 0 .. SourceLen
      BY FilesAssumption DEF FilesAssumption
    <3> QED
      BY <3>1, <3>2
  <2>4. ASSUME NEW c \in Callers
        PROVE  /\ call[c].tries \in 0 .. MaxTries /\ call[c].offset \in 0 .. SourceLen
               /\ call[c].pos \in 0 .. IF At(c, "mkdir") THEN Len(call[c].path) - 1 ELSE SourceLen
               /\ (call[c].node # None) <=> At(c, "write")
    <3>1. /\ Stage(call[c]) /\ call[c].offset \in 0 .. SourceLen /\ call[c].pos \in Nat
          /\ call[c].tries \in 0 .. MaxTries /\ call[c].path \in Seq(Names)
      BY CallFacts
    <3>2. (call[c].node # None) <=> At(c, "write")
      BY <3>1 DEF Stage, At
    <3>3. call[c].pos \in 0 .. IF At(c, "mkdir") THEN Len(call[c].path) - 1 ELSE SourceLen
      <4>0. SourceLen \in Nat /\ Len(call[c].path) \in Nat
        BY <3>1, FilesAssumption DEF FilesAssumption
      <4>1. CASE At(c, "mkdir")
        <5>1. call[c].pos < Len(call[c].path)
          BY <3>1, <4>1 DEF Stage, At
        <5>2. call[c].pos \in 0 .. Len(call[c].path) - 1
          BY <3>1, <4>0, <5>1, SMTT(30)
        <5> QED
          BY <4>1, <5>2
      <4>2. CASE ~At(c, "mkdir")
        <5>1. call[c].pos = 0 \/ call[c].pos = call[c].offset
          BY <3>1, <4>2 DEF Stage, At
        <5>2. call[c].pos \in 0 .. SourceLen
          BY <3>1, <4>0, <5>1
        <5> QED
          BY <4>2, <5>2
      <4> QED
        BY <4>1, <4>2
    <3> QED
      BY <3>1, <3>2, <3>3
  <2> QED
    BY <2>1, <2>2, <2>3, <2>4 DEF TypeOK
<1> QED
  BY <1>1, FilesInvariant, PTL

\* CopyIsWhole: a copy that is closed is the source, for a source of any length, any
\* number of abandoned attempts and of writes still on their way, unless somebody else
\* changed something meanwhile.
THEOREM CopiesAreWhole == Spec => []CopyIsWhole
<1>1. FilesInv => CopyIsWhole
  <2> SUFFICES ASSUME FilesInv, NEW c \in Callers, At(c, "done"), call[c].op = "copy", ~call[c].touched
               PROVE  Lookup(call[c].path) \in FileNodes /\ data[Lookup(call[c].path)] = Source
    BY DEF CopyIsWhole
  <2>1. PICK r, n : r = call[c] /\ n = Lookup(r.path)
    OBVIOUS
  <2>2. Kept(r) /\ r.offset \in 0 .. SourceLen /\ r.at = "done" /\ r.op = "copy" /\ ~r.touched
    BY <2>1, CallFacts DEF At
  <2>3. /\ n \in FileNodes /\ Len(data[n]) <= SourceLen /\ SourceLen <= Len(data[n])
        /\ \A i \in 1 .. SourceLen : data[n][i] = i
    BY <2>1, <2>2 DEF Kept
  <2>4. data[n] \in Seq(0 .. SourceLen) /\ SourceLen \in Nat
    BY <2>3, FilesAssumption DEF FilesInv, FilesAssumption
  <2>5. Len(data[n]) = SourceLen
    <3>1. Len(data[n]) \in Nat
      BY <2>4
    <3> QED
      BY <2>3, <2>4, <3>1
  <2>6. data[n] = [i \in 1 .. SourceLen |-> data[n][i]]
    BY <2>4, <2>5
  <2>7. data[n] = Source
    BY <2>3, <2>6 DEF Source
  <2> QED
    BY <2>1, <2>3, <2>7
<1> QED
  BY <1>1, FilesInvariant, PTL

\* FailsForCause: a call that could be done, with nobody else in its way, fails only
\* for its faults, however deep its folders and long its paths.
THEOREM FailuresHaveCause == Spec => []FailsForCause
<1>1. FilesInv => FailsForCause
  <2> SUFFICES ASSUME FilesInv, NEW c \in Callers, At(c, "failed"), call[c].fit, ~call[c].touched
               PROVE  Excused(call[c])
    BY DEF FailsForCause, Excused
  <2>1. Succeeds(call[c])
    BY CallFacts
  <2> QED
    BY <2>1 DEF Succeeds, Owed, At
<1> QED
  BY <1>1, FilesInvariant, PTL

-----------------------------------------------------------------------------
(* Calls that are reported as done. *)

\* A step of one caller moves no other, though it may touch it.
MovesOnly(d) ==
  \E j : call' = [call EXCEPT ![d] = j] \/ call' = [Touched EXCEPT ![d] = j]

\* So nobody else's place changes.
LEMMA OthersStay ==
  ASSUME FilesInv, NEW c \in Callers, NEW d \in Callers, c # d, MovesOnly(d)
  PROVE  call'[c].at = call[c].at
<1>1. PICK j : call' = [call EXCEPT ![d] = j] \/ call' = [Touched EXCEPT ![d] = j]
  BY DEF MovesOnly
<1>2. call \in [Callers -> Calls]
  BY DEF FilesInv
<1>3. CASE call' = [call EXCEPT ![d] = j]
  BY <1>2, <1>3
<1>4. CASE call' = [Touched EXCEPT ![d] = j]
  <2>1. call'[c] = IF call[c] = Idle THEN Idle ELSE [call[c] EXCEPT !.touched = TRUE]
    BY <1>4 DEF Touched
  <2>2. call[c] \in Calls
    BY <1>2
  <2>3. [call[c] EXCEPT !.touched = TRUE].at = call[c].at
    BY <2>2 DEF Calls
  <2> QED
    BY <2>1, <2>3
<1> QED
  BY <1>1, <1>3, <1>4

\* An answer moves its caller only.
LEMMA AnswerMoves ==
  ASSUME NEW c, NEW j, Set(c, j)
  PROVE  MovesOnly(c)
BY DEF Set, MovesOnly

\* So does a change.
LEMMA ChangedMoves ==
  ASSUME NEW c, NEW x, Changed(c, x)
  PROVE  MovesOnly(c)
BY DEF Changed, MovesOnly

\* So does a creation.
LEMMA MakeOneMoves ==
  ASSUME NEW c, NEW kind, NEW path, NEW x, MakeOne(c, kind, path, x)
  PROVE  MovesOnly(c)
BY AnswerMoves, ChangedMoves DEF MakeOne, Answer

\* Whatever a caller does moves only that caller.
LEMMA CallerMoves ==
  ASSUME NEW c, Start(c) \/ Step(c) \/ Fault(c) \/ WriteFails(c) \/ Abandon(c) \/ Return(c)
  PROVE  MovesOnly(c)
<1>1. ASSUME Start(c) PROVE MovesOnly(c)
  <2>1. PICK op, p, x : Call(c, op, p, x)
    BY <1>1 DEF Start
  <2>2. PICK j : Set(c, j)
    BY <2>1 DEF Call
  <2> QED
    BY <2>2, AnswerMoves
<1>2. ASSUME MakeDir(c) PROVE MovesOnly(c)
  BY <1>2, AnswerMoves, MakeOneMoves DEF MakeDir, Answer
<1>3. ASSUME CreateFile(c) PROVE MovesOnly(c)
  BY <1>3, AnswerMoves, MakeOneMoves, ChangedMoves DEF CreateFile, Answer
<1>4. ASSUME Stat(c) \/ Lstat(c) PROVE MovesOnly(c)
  BY <1>4, AnswerMoves DEF Stat, Lstat
<1>5. ASSUME RemoveOne(c) PROVE MovesOnly(c)
  BY <1>5, AnswerMoves, ChangedMoves DEF RemoveOne, Answer
<1>6. ASSUME EnterDir(c) PROVE MovesOnly(c)
  BY <1>6, AnswerMoves, ChangedMoves DEF EnterDir, Answer
<1>7. ASSUME LeaveDir(c) PROVE MovesOnly(c)
  BY <1>7, AnswerMoves, ChangedMoves DEF LeaveDir, Answer
<1>8. ASSUME NEW e, RemoveEntry(c, e) PROVE MovesOnly(c)
  BY <1>8, AnswerMoves, ChangedMoves DEF RemoveEntry, Answer
<1>9. ASSUME Rename(c) PROVE MovesOnly(c)
  BY <1>9, AnswerMoves, ChangedMoves DEF Rename, Answer
<1>10. ASSUME OpenWrite(c) PROVE MovesOnly(c)
  BY <1>10, AnswerMoves, ChangedMoves, MakeOneMoves DEF OpenWrite, Answer
<1>11. ASSUME OpenWriteFromOffset(c) \/ Close(c) \/ Return(c) PROVE MovesOnly(c)
  BY <1>11, AnswerMoves DEF OpenWriteFromOffset, Close, Return
<1>12. ASSUME Write(c) PROVE MovesOnly(c)
  BY <1>12 DEF Write, MovesOnly
<1>13. ASSUME Fault(c) \/ WriteFails(c) \/ Abandon(c) PROVE MovesOnly(c)
  BY <1>13 DEF Fault, WriteFails, Abandon, MovesOnly
<1> QED
  BY <1>1, <1>2, <1>3, <1>4, <1>5, <1>6, <1>7, <1>8, <1>9, <1>10, <1>11, <1>12, <1>13 DEF Step

\* A call that gives up, or begins again, is not done.
LEMMA NeverDone ==
  ASSUME NEW r \in Calls
  PROVE  Fatal(r).at # "done" /\ Again(r).at # "done" /\ Faulted(r).at # "done"
<1>1. \A q \in Calls : Fatal(q).at = "failed"
  BY FatalFields
<1>2. \A q \in Calls : First(q) # "done"
  <2> SUFFICES ASSUME NEW q \in Calls
               PROVE  First(q) # "done"
    OBVIOUS
  <2>1. q.op \in Ops \cup {"none"}
    BY DEF Calls
  <2> QED
    BY <2>1 DEF First, Ops
<1>3. \A q \in Calls : Again(q).at # "done"
  <2> SUFFICES ASSUME NEW q \in Calls
               PROVE  Again(q).at # "done"
    OBVIOUS
  <2>1. CASE q.tries = 0
    BY <1>1, <2>1 DEF Again
  <2>2. CASE q.tries # 0
    <3>1. PICK a, t : a = First(q) /\ t = q.tries - 1
      OBVIOUS
    <3>2. Again(q) = [q EXCEPT !.at = a, !.tries = t, !.stack = << >>, !.pos = 0]
      BY <2>2, <3>1 DEF Again, Calls
    <3>3. Again(q).at = a
      BY <3>2 DEF Calls
    <3> QED
      BY <1>2, <3>1, <3>3
  <2> QED
    BY <2>1, <2>2
<1>4. PICK f : f = [r EXCEPT !.faulted = @ + 1]
  OBVIOUS
<1>5. f \in Calls
  <2>1. PICK k : k = r.faulted + 1
    OBVIOUS
  <2>2. r.faulted \in Nat
    BY DEF Calls
  <2>3. k \in Nat
    BY <2>1, <2>2
  <2>4. f = [r EXCEPT !.faulted = k]
    BY <1>4, <2>1 DEF Calls
  <2> QED
    BY <2>3, <2>4 DEF Calls
<1>6. Faulted(r) = IF backend = "local" THEN Again(f) ELSE Fatal(f)
  BY <1>4 DEF Faulted
<1> QED
  BY <1>1, <1>3, <1>5, <1>6

\* A call that ends with a change, ends because it heard of it.
LEMMA ChangedEnds ==
  ASSUME FilesInv, NEW c \in Callers, NEW x \in Calls, Changed(c, x), call'[c].at = "done"
  PROVE  x.at = "done" /\ call'[c].path = x.path /\ call'[c].to = x.to
<1>1. PICK o, j : o = [call[c] EXCEPT !.own = TRUE] /\ j = [x EXCEPT !.own = TRUE]
  OBVIOUS
<1>2. j \in Calls /\ j.at = x.at /\ j.path = x.path /\ j.to = x.to
  BY <1>1, OwnFields
<1>3. o \in Calls
  BY <1>1, CallFacts, OwnFields
<1>4. call'[c] = j \/ call'[c] = Faulted(o)
  BY <1>1 DEF Changed, Touched
<1> QED
  BY <1>2, <1>3, <1>4, NeverDone

\* An answer is what the call goes on with, in the same tree.
LEMMA AnswerEnds ==
  ASSUME FilesInv, NEW c \in Callers, NEW j, Answer(c, j)
  PROVE  call'[c] = j /\ (\A p : Lookup(p)' = Lookup(p))
<1>1. call' = [call EXCEPT ![c] = j] /\ parent' = parent /\ name' = name
  BY DEF Answer, Set, tree
<1> QED
  BY <1>1, LookupFinds DEF FilesInv

\* What a call that ends must have brought about.
Real(r) ==
  /\ r.op = "delete" => Lookup(r.path) = None
  /\ r.op = "rename" => Lookup(r.path) = None /\ Lookup(To(r)) # None
  /\ r.op \in {"mkdir", "create"} => Lookup(r.path) # None

\* The call r ends: its caller still means the same node, and has what it asked for.
Ends(c, r) == call'[c].path = r.path /\ call'[c].to = r.to /\ Real(r)'

\* No call ends with a Mkdir.
LEMMA MakeDirEnds ==
  ASSUME FilesInv, NEW c \in Callers, MakeDir(c)
  PROVE  call'[c].at # "done"
<1>1. PICK r, i, p, n :
        /\ r = call[c] /\ i = IF backend = "local" THEN r.pos + 1 ELSE Len(r.path)
        /\ p = SubSeq(r.path, 1, i) /\ n = Lookup(p)
  OBVIOUS
<1>2. r \in Calls /\ Stage(r) /\ r.at = "mkdir" /\ r.path \in Seq(Names) /\ r.pos \in Nat
  BY <1>1, CallFacts DEF MakeDir, At
<1>3. i \in 1 .. Len(r.path)
  <2>1. r.path # << >> /\ r.pos < Len(r.path)
    BY <1>2 DEF Stage
  <2>2. PICK k, j : k = Len(r.path) /\ j = r.pos
    OBVIOUS
  <2>3. k \in Nat /\ j \in Nat /\ j < k
    <3>1. Len(r.path) \in Nat
      BY <1>2
    <3> QED
      BY <1>2, <2>1, <2>2, <3>1
  <2>4. i = IF backend = "local" THEN j + 1 ELSE k
    BY <1>1, <2>2
  <2>5. i \in 1 .. k
    BY <2>3, <2>4
  <2> QED
    BY <2>2, <2>5
<1>4. PICK x : x = NextDir(r, i)
  OBVIOUS
<1>5. x \in Calls /\ x.at # "done"
  BY <1>2, <1>3, <1>4, NextFields DEF GoesOn
<1>6. PICK y : y = [r EXCEPT !.fit = FALSE]
  OBVIOUS
<1>7. y \in Calls
  BY <1>2, <1>6 DEF Calls
<1>8. \/ \E j \in {Fatal(r), Again(r), x, Fatal(y)} : Answer(c, j)
      \/ Changed(c, x)
  BY <1>1, <1>4, <1>6 DEF MakeDir, NextDir, MakeOne
<1>9. \A j : Answer(c, j) => call'[c] = j
  BY AnswerEnds
<1> QED
  BY <1>2, <1>5, <1>7, <1>8, <1>9, NeverDone, ChangedEnds

\* Nor with a Create.
LEMMA CreateFileEnds ==
  ASSUME FilesInv, NEW c \in Callers, CreateFile(c)
  PROVE  call'[c].at # "done"
<1>1. PICK r, x, y : r = call[c] /\ x = [r EXCEPT !.at = "stat"] /\ y = [r EXCEPT !.fit = FALSE]
  OBVIOUS
<1>2. r \in Calls
  BY <1>1, CallFacts
<1>3. x \in Calls /\ x.at # "done" /\ y \in Calls
  BY <1>1, <1>2 DEF Calls, Active
<1>4. \/ \E j \in {Fatal(r), Again(r), Fatal(y)} : Answer(c, j)
      \/ Changed(c, x)
  BY <1>1 DEF CreateFile, MakeOne
<1>5. \A j : Answer(c, j) => call'[c] = j
  BY AnswerEnds
<1> QED
  BY <1>2, <1>3, <1>4, <1>5, NeverDone, ChangedEnds

\* A creation ends when Stat has found the node.
LEMMA StatEnds ==
  ASSUME FilesInv, NEW c \in Callers, Stat(c), call'[c].at = "done", NEW r, r = call[c]
  PROVE  Ends(c, r)
<1>2. r \in Calls /\ Stage(r) /\ r.at = "stat"
  BY CallFacts DEF Stat, At
<1>3. r.op \in {"mkdir", "create"}
  BY <1>2 DEF Stage
<1>4. PICK j : j = (IF Lookup(r.path) = None THEN Fatal(r) ELSE Done(r)) /\ Answer(c, j)
  BY DEF Stat, Answer
<1>5. call'[c] = j /\ Lookup(r.path)' = Lookup(r.path)
  BY <1>4, AnswerEnds
<1>6. Lookup(r.path) # None /\ j = Done(r)
  BY <1>2, <1>4, <1>5, NeverDone
<1>7. j.path = r.path /\ j.to = r.to
  BY <1>2, <1>6, DoneFields
<1>8. Real(r)'
  BY <1>3, <1>5, <1>6 DEF Real
<1> QED
  BY <1>5, <1>7, <1>8 DEF Ends

\* No call ends with an Lstat.
LEMMA LstatEnds ==
  ASSUME FilesInv, NEW c \in Callers, Lstat(c)
  PROVE  call'[c].at # "done"
<1>1. PICK r, j : r = call[c] /\ Answer(c, j)
                  /\ (j = Again(r) \/ \E a \in {"remove", "removeAll"} : j = [r EXCEPT !.at = a])
  BY DEF Lstat, Answer
<1>2. r \in Calls
  BY <1>1, CallFacts
<1>3. call'[c] = j
  BY <1>1, AnswerEnds
<1>4. \A a \in {"remove", "removeAll"} : [r EXCEPT !.at = a].at # "done"
  BY <1>2 DEF Calls
<1> QED
  BY <1>1, <1>2, <1>3, <1>4, NeverDone

\* A removal of what the call was after.
LEMMA RemovedEnds ==
  ASSUME FilesInv, NEW c \in Callers, NEW r, r = call[c], r.op = "delete", r.path # << >>,
         NEW n, n = Lookup(r.path), n # None, Kids(n) = {}, Unlink(n),
         Changed(c, Done(r)), call'[c].at = "done"
  PROVE  Ends(c, r)
<1>1. r \in Calls /\ r.path \in Seq(Names) /\ TreeOK(parent, name)
  BY CallFacts DEF FilesInv
<1>2. n \in Nodes \ {Top}
  BY <1>1, LookupIs
<1>3. Lookup(r.path)' = None
  BY <1>1, <1>2, UnlinkLooks
<1>4. PICK j : j = Done(r)
  OBVIOUS
<1>5. j \in Calls /\ j.path = r.path /\ j.to = r.to
  BY <1>1, <1>4, DoneFields
<1>6. call'[c].path = j.path /\ call'[c].to = j.to
  BY <1>4, <1>5, ChangedEnds
<1>7. Real(r)'
  BY <1>3 DEF Real
<1> QED
  BY <1>5, <1>6, <1>7 DEF Ends

\* What was to be removed is not there any more.
LEMMA GoneEnds ==
  ASSUME FilesInv, NEW c \in Callers, NEW r, r = call[c], r.op = "delete", Lookup(r.path) = None,
         Answer(c, Done(r))
  PROVE  Ends(c, r)
<1>1. r \in Calls
  BY CallFacts
<1>2. call'[c] = Done(r) /\ Lookup(r.path)' = None
  BY AnswerEnds
<1>3. Done(r).path = r.path /\ Done(r).to = r.to
  BY <1>1, DoneFields
<1>4. Real(r)'
  BY <1>2 DEF Real
<1> QED
  BY <1>2, <1>3, <1>4 DEF Ends

\* A deletion ends with the removal of its node,
LEMMA RemoveOneEnds ==
  ASSUME FilesInv, NEW c \in Callers, RemoveOne(c), call'[c].at = "done", NEW r, r = call[c]
  PROVE  Ends(c, r)
<1>1. PICK n : n = Lookup(r.path)
  OBVIOUS
<1>2. r \in Calls /\ Stage(r) /\ r.at = "remove"
  BY <1>1, CallFacts DEF RemoveOne, At
<1>3. r.op = "delete" /\ r.path # << >>
  BY <1>2 DEF Stage
<1>4. ~Answer(c, Fatal(r)) /\ ~Answer(c, Again(r))
  BY <1>2, AnswerEnds, NeverDone
<1>5. n # None /\ Kids(n) = {} /\ Unlink(n) /\ Changed(c, Done(r))
  BY <1>1, <1>4 DEF RemoveOne
<1> QED
  BY <1>1, <1>3, <1>5, RemovedEnds

\* or because its folder is gone, or is a file by now and is removed,
LEMMA EnterDirEnds ==
  ASSUME FilesInv, NEW c \in Callers, EnterDir(c), call'[c].at = "done", NEW r, r = call[c]
  PROVE  Ends(c, r)
<1>1. PICK n : n = Lookup(r.path)
  OBVIOUS
<1>2. r \in Calls /\ Stage(r) /\ r.at = "removeAll" /\ r.stack = << >>
  BY <1>1, CallFacts DEF EnterDir, At
<1>3. r.op = "delete" /\ r.path # << >>
  BY <1>2 DEF Stage
<1>4. ~Answer(c, Fatal(r))
  BY <1>2, AnswerEnds, NeverDone
<1>5. ~Answer(c, [r EXCEPT !.stack = <<Frame(n, r.path)>>])
  <2>1. [r EXCEPT !.stack = <<Frame(n, r.path)>>].at = "removeAll"
    BY <1>2 DEF Calls
  <2> QED
    BY <2>1, AnswerEnds
<1>6. \/ n = None /\ Answer(c, Skip(r))
      \/ n \in FileNodes /\ Unlink(n) /\ Changed(c, Done(r))
  BY <1>1, <1>4, <1>5 DEF EnterDir
<1>7. CASE n = None /\ Answer(c, Skip(r))
  <2>1. Len(r.stack) = 0
    BY <1>2
  <2>2. Skip(r) = IF backend = "sftp" THEN Fatal(r) ELSE Done(r)
    BY <2>1 DEF Skip
  <2>3. Answer(c, Done(r))
    BY <1>4, <1>7, <2>2
  <2> QED
    BY <1>1, <1>3, <1>7, <2>3, GoneEnds
<1>8. CASE n \in FileNodes /\ Unlink(n) /\ Changed(c, Done(r))
  <2>1. n # None /\ Kids(n) = {}
    BY <1>8, FilesAreLeaves DEF FilesInv
  <2> QED
    BY <1>1, <1>3, <1>8, <2>1, RemovedEnds
<1> QED
  BY <1>6, <1>7, <1>8

\* No call ends with an entry of a folder.
LEMMA RemoveEntryEnds ==
  ASSUME FilesInv, NEW c \in Callers, NEW a \in Names, NEW b \in BOOLEAN, RemoveEntry(c, <<a, b>>)
  PROVE  call'[c].at # "done"
<1>1. PICK r, e : r = call[c] /\ e = <<a, b>>
  OBVIOUS
<1>2. PICK f, n, x, y : /\ f = r.stack[Len(r.stack)] /\ n = Entry(f, e[1]) /\ x = Without(r, e)
                        /\ y = Into(x, Frame(n, Append(f.path, e[1])))
  OBVIOUS
<1>3. r \in Calls /\ Stage(r) /\ r.at = "removeAll" /\ Len(r.stack) > 0
  BY <1>1, CallFacts DEF RemoveEntry, At
<1>4. x \in Calls /\ x.at = "removeAll"
  BY <1>2, <1>3, WithoutFields DEF GoesOn
<1>5. y.at = "removeAll"
  BY <1>2, <1>4 DEF Into, Calls
<1>6. \/ \E j \in {x, y, Fatal(r), Again(r)} : Answer(c, j)
      \/ Changed(c, x)
  BY <1>1, <1>2 DEF RemoveEntry, Without, Into
<1>7. \A j : Answer(c, j) => call'[c] = j
  BY AnswerEnds
<1> QED
  BY <1>3, <1>4, <1>5, <1>6, <1>7, NeverDone, ChangedEnds

\* or with its folder, the last that removeAll leaves.
LEMMA LeaveDirEnds ==
  ASSUME FilesInv, NEW c \in Callers, LeaveDir(c), call'[c].at = "done", NEW r, r = call[c]
  PROVE  Ends(c, r)
<1>1. PICK k, f, n : /\ k = Len(r.stack) /\ f = r.stack[k]
                     /\ n = IF k = 1 THEN Lookup(r.path) ELSE Entry(r.stack[k - 1], Last(f.path))
  OBVIOUS
<1>2. r \in Calls /\ Stage(r) /\ r.at = "removeAll" /\ k > 0 /\ r.stack \in Seq(Frames)
  BY <1>1, CallFacts DEF LeaveDir, At
<1>3. r.op = "delete" /\ r.path # << >>
  BY <1>2 DEF Stage
<1>4. k \in Nat /\ k > 0 /\ k = Len(r.stack)
  BY <1>1, <1>2
<1>5. ~Answer(c, Fatal(r)) /\ ~Answer(c, Again(r))
  BY <1>2, AnswerEnds, NeverDone
<1>6. \/ n = None /\ Answer(c, Skip(r))
      \/ Kids(n) = {} /\ IsDir(n) /\ Unlink(n) /\ Changed(c, IF k = 1 THEN Done(r) ELSE OutOf(r))
  BY <1>1, <1>5 DEF LeaveDir, OutOf
<1>7. CASE k = 1
  <2>1. Skip(r) = IF backend = "sftp" THEN Fatal(r) ELSE Done(r)
    BY <1>4, <1>7 DEF Skip
  <2>2. CASE n = None /\ Answer(c, Skip(r))
    <3>1. Answer(c, Done(r))
      BY <1>5, <2>1, <2>2
    <3> QED
      BY <1>1, <1>3, <1>7, <2>2, <3>1, GoneEnds
  <2>3. CASE Kids(n) = {} /\ IsDir(n) /\ Unlink(n) /\ Changed(c, Done(r))
    <3>1. n # None
      BY <2>3, FilesAssumption DEF IsDir, FilesAssumption, Nodes
    <3> QED
      BY <1>1, <1>3, <1>7, <2>3, <3>1, RemovedEnds
  <2> QED
    BY <1>6, <1>7, <2>2, <2>3
<1>8. CASE k # 1
  <2>1. PICK x : x = OutOf(r)
    OBVIOUS
  <2>2. Len(r.stack) > 1
    <3>1. k \in Nat /\ k > 0 /\ k # 1
      BY <1>4, <1>8
    <3>2. k > 1
      BY <3>1
    <3> QED
      BY <1>4, <3>2
  <2>3. x \in Calls /\ x.at = "removeAll"
    BY <1>2, <2>1, <2>2, OutOfFields DEF GoesOn
  <2>4. Skip(r) = Fatal(r) \/ Skip(r) = x
    BY <2>1, <2>2 DEF Skip, OutOf
  <2>5. ~Answer(c, Skip(r))
    BY <1>5, <2>3, <2>4, AnswerEnds
  <2>6. ~Changed(c, x)
    BY <2>3, ChangedEnds
  <2> QED
    BY <1>6, <1>8, <2>1, <2>5, <2>6
<1> QED
  BY <1>7, <1>8

\* A rename ends with the rename.
LEMMA RenameEnds ==
  ASSUME FilesInv, NEW c \in Callers, Rename(c), call'[c].at = "done", NEW r, r = call[c]
  PROVE  Ends(c, r)
<1>1. PICK n, m : n = Lookup(r.path) /\ m = Lookup(To(r))
  OBVIOUS
<1>2. r \in Calls /\ Stage(r) /\ r.at = "rename" /\ r.path \in Seq(Names)
  BY CallFacts DEF Rename, At
<1>3. r.op = "rename" /\ r.path # << >> /\ r.to \in Names /\ r.to # Last(r.path)
  BY <1>2 DEF Stage
<1>4. ~Answer(c, Fatal(r)) /\ ~Answer(c, Again(r))
  BY <1>2, AnswerEnds, NeverDone
<1>5. n # None /\ (m = None \/ Replaces(n, m)) /\ Renaming(n, m, r.to) /\ Changed(c, Done(r))
  BY <1>1, <1>4 DEF Rename, Renaming
<1>6. Lookup(r.path)' = None /\ Lookup(To(r))' = n
  <2>1. m = None \/ m \in FileNodes
    BY <1>5 DEF Replaces
  <2>2. m = Lookup(Append(Front(r.path), r.to))
    BY <1>1 DEF To
  <2>3. Lookup(r.path)' = None /\ Lookup(Append(Front(r.path), r.to))' = n
    BY <1>1, <1>2, <1>3, <1>5, <2>1, <2>2, RenameLooks
  <2> QED
    BY <2>3 DEF To
<1>7. PICK j : j = Done(r)
  OBVIOUS
<1>8. j \in Calls /\ j.path = r.path /\ j.to = r.to
  BY <1>2, <1>7, DoneFields
<1>9. call'[c].path = j.path /\ call'[c].to = j.to
  BY <1>5, <1>7, <1>8, ChangedEnds
<1>10. Real(r)'
  BY <1>3, <1>5, <1>6 DEF Real
<1> QED
  BY <1>8, <1>9, <1>10 DEF Ends

\* A call other than a copy ends when it has what was asked for.
LEMMA StepEnds ==
  ASSUME FilesInv, NEW c \in Callers, call'[c].at = "done", NEW r, r = call[c], r.op # "copy", Step(c)
  PROVE  Ends(c, r)
<1>1. Stage(r)
  BY CallFacts
<1>2. r.at # "copy" /\ r.at # "write"
  BY <1>1 DEF Stage
<1>3. ~OpenWrite(c) /\ ~OpenWriteFromOffset(c) /\ ~Write(c) /\ ~Close(c)
  BY <1>2 DEF OpenWrite, OpenWriteFromOffset, Write, Close, At
<1>4. ~MakeDir(c) /\ ~CreateFile(c) /\ ~Lstat(c)
  BY MakeDirEnds, CreateFileEnds, LstatEnds
<1>5. ~\E x \in Names, b \in BOOLEAN : RemoveEntry(c, <<x, b>>)
  BY RemoveEntryEnds
<1>6. Stat(c) \/ RemoveOne(c) \/ EnterDir(c) \/ LeaveDir(c) \/ Rename(c)
  BY <1>3, <1>4, <1>5 DEF Step
<1> QED
  BY <1>6, StatEnds, RemoveOneEnds, EnterDirEnds, LeaveDirEnds, RenameEnds

\* No call ends because it begins, meets a fault or returns; copies end in their own
\* way.
LEMMA OthersEnd ==
  ASSUME FilesInv, NEW c \in Callers,
         Start(c) \/ Fault(c) \/ WriteFails(c) \/ Abandon(c) \/ Return(c)
  PROVE  call'[c].at # "done" \/ call[c].op = "copy"
<1>1. call \in [Callers -> Calls] /\ Stage(call[c]) /\ call[c] \in Calls
  BY CallFacts DEF FilesInv
<1>2. CASE Fault(c)
  <2>1. call'[c] = Faulted(call[c])
    BY <1>1, <1>2 DEF Fault
  <2> QED
    BY <1>1, <2>1, NeverDone
<1>3. CASE WriteFails(c) \/ Abandon(c)
  BY <1>1, <1>3 DEF WriteFails, Abandon, At, Stage
<1>4. CASE Return(c)
  <2>1. \E p, k, b : call'[c] = Idle \/ call'[c] = Resting(p, k, b)
    BY <1>1, <1>4 DEF Return, Set, Resting
  <2>2. \A p, k, b : Resting(p, k, b).at = "idle" /\ Idle.at = "idle"
    BY DEF Resting, Idle
  <2> QED
    BY <2>1, <2>2
<1>5. CASE Start(c)
  <2>1. PICK op, path, to : op \in Ops /\ Call(c, op, path, to)
    <3>1. PICK p \in Paths :
            \/ \E op \in {"mkdir", "create", "copy"} : Call(c, op, p, "")
            \/ \E t \in {"file", "folder"} : Call(c, "delete", p, t)
            \/ \E x \in Names \ {Last(p)} : Call(c, "rename", p, x)
      BY <1>5 DEF Start
    <3>2. CASE \E op \in {"mkdir", "create", "copy"} : Call(c, op, p, "")
      <4>1. PICK op \in {"mkdir", "create", "copy"} : Call(c, op, p, "")
        BY <3>2
      <4>2. op \in Ops
        BY DEF Ops
      <4> QED
        BY <4>1, <4>2
    <3>3. CASE \E t \in {"file", "folder"} : Call(c, "delete", p, t)
      BY <3>3 DEF Ops
    <3>4. CASE \E x \in Names \ {Last(p)} : Call(c, "rename", p, x)
      BY <3>4 DEF Ops
    <3> QED
      BY <3>1, <3>2, <3>3, <3>4
  <2>2. PICK r, resumed, a :
          /\ resumed = (op = "copy" /\ call[c].offset > 0)
          /\ r = [Idle EXCEPT !.op = op, !.path = path, !.to = to, !.fit = Fit(op, path, to),
                              !.offset = IF resumed THEN call[c].offset ELSE 0,
                              !.touched = resumed /\ call[c].touched]
          /\ a = First(r)
    OBVIOUS
  <2>3. call'[c] = [r EXCEPT !.at = a]
    BY <1>1, <2>1, <2>2 DEF Call, Set
  <2>4. r.op = op /\ [r EXCEPT !.at = a].at = a
    BY <2>2 DEF Idle
  <2>5. a # "done"
    BY <2>1, <2>2, <2>4 DEF First, Ops
  <2> QED
    BY <2>3, <2>4, <2>5
<1> QED
  BY <1>2, <1>3, <1>4, <1>5

\* SuccessIsReal: when a deletion, a rename or a creation comes to its end, what it
\* was to bring about is so in the tree at that moment, whatever others did while it
\* was under way.
THEOREM SuccessesAreReal == Spec => SuccessIsReal
<1> DEFINE Realizes == \A c \in Callers : ~At(c, "done") /\ At(c, "done")' =>
             LET r == call[c] IN
             CASE r.op = "delete" -> Lookup(r.path)' = None
               [] r.op = "rename" -> Lookup(r.path)' = None /\ Lookup(To(r))' # None
               [] r.op \in {"mkdir", "create"} -> Lookup(r.path)' # None
               [] OTHER -> TRUE
<1>1. FilesInv /\ [Next]_vars => [Realizes]_vars
  <2> SUFFICES ASSUME FilesInv, Next, NEW c \in Callers, call[c].at # "done", call'[c].at = "done"
               PROVE  LET r == call[c] IN
                      CASE r.op = "delete" -> Lookup(r.path)' = None
                        [] r.op = "rename" -> Lookup(r.path)' = None /\ Lookup(To(r))' # None
                        [] r.op \in {"mkdir", "create"} -> Lookup(r.path)' # None
                        [] OTHER -> TRUE
    BY DEF At
  <2>1. PICK r : r = call[c]
    OBVIOUS
  <2>2. CASE r.op = "copy"
    BY <2>1, <2>2
  <2>3. CASE r.op # "copy"
    <3>1. Start(c) \/ Step(c) \/ Fault(c) \/ WriteFails(c) \/ Abandon(c) \/ Return(c)
      <4>1. \A w \in late : ~LateWrite(w)
        BY DEF LateWrite
      <4>2. PICK d \in Callers : Start(d) \/ Step(d) \/ Fault(d) \/ WriteFails(d) \/ Abandon(d) \/ Return(d)
        BY <4>1 DEF Next
      <4>3. d = c
        BY <4>2, CallerMoves, OthersStay
      <4> QED
        BY <4>2, <4>3
    <3>2. Step(c)
      BY <2>1, <2>3, <3>1, OthersEnd
    <3>3. Ends(c, r)
      BY <2>1, <2>3, <3>2, StepEnds
    <3>4. PICK p, t : p = r.path /\ t = r.to
      OBVIOUS
    <3>5. call'[c].path = p /\ call'[c].to = t
      BY <3>3, <3>4 DEF Ends
    <3>6. /\ r.op = "delete" => Lookup(p)' = None
          /\ r.op = "rename" => Lookup(p)' = None /\ Lookup(Append(Front(p), t))' # None
          /\ r.op \in {"mkdir", "create"} => Lookup(p)' # None
      BY <3>3, <3>4 DEF Ends, Real, To
    <3>7. Lookup(call[c].path)' = Lookup(p)' /\ Lookup(To(call[c]))' = Lookup(Append(Front(p), t))'
      BY <3>5 DEF Lookup, To
    <3> QED
      BY <2>1, <2>3, <3>6, <3>7
  <2> QED
    BY <2>2, <2>3
<1> QED
  BY <1>1, FilesInvariant, PTL DEF Spec, SuccessIsReal
=============================================================================
