---------------------------- MODULE ShellProofs ----------------------------
(***************************************************************************)
(* Proofs about Shell and the file system below it, for every number of    *)
(* nodes, every set of names and arguments.                                *)
(***************************************************************************)
EXTENDS Shell, SequenceTheorems, WellFoundedInduction, TLAPS

(***************************************************************************)
(* fs_resolve, component by component.                                     *)
(***************************************************************************)

\* A set of numbers that is not empty has a smallest one.
LEMMA Smallest ==
    ASSUME NEW T, T \subseteq Nat, T # {}
    PROVE  \E m \in T : \A n \in T : m <= n
<1>1. PICK m \in T : \A n \in T : ~ (<<n, m>> \in OpToRel(<, Nat))
  BY WFMin, NatLessThanWellFounded, Zenon
<1>2. \A n \in T : ~ (n < m)
  BY <1>1, Zenon DEF OpToRel
<1>3. QED
  BY <1>2

Child(f, d, name) == IF d = None THEN None ELSE FindChild(f, d, name)

\* w holds the nodes after each of the first m components.
Walk(f, path, m, w) ==
    w = [i \in 0 .. m |-> IF i = 0 THEN ROOT_IDX ELSE Child(f, w[i - 1], path[i])]

\* There is such a w: a smallest m without one would have a predecessor.
LEMMA WalkExists ==
    ASSUME NEW f, NEW path, NEW m \in Nat
    PROVE  \E w : Walk(f, path, m, w)
<1> DEFINE T == {n \in Nat : ~ \E w : Walk(f, path, n, w)}
<1> SUFFICES ASSUME T # {}  PROVE FALSE
  OBVIOUS
<1>1. PICK k \in T : \A n \in T : k <= n
  <2>1. T \subseteq Nat
    OBVIOUS
  <2> HIDE DEF T
  <2>2. QED  BY <2>1, Smallest
<1>2. k \in Nat
  OBVIOUS
<1>3. CASE k = 0
  <2> DEFINE w == [n \in 0 .. 0 |-> ROOT_IDX]
  <2>1. Walk(f, path, 0, w)
    BY DEF Walk
  <2>2. QED  BY <1>3, <2>1
<1>4. CASE k # 0
  <2>1. k - 1 \in Nat /\ k - 1 \notin T
    BY <1>1, <1>2, <1>4
  <2>2. PICK w : Walk(f, path, k - 1, w)
    BY <2>1
  <2> DEFINE g == [n \in 0 .. k |-> IF n = k THEN Child(f, w[k - 1], path[k]) ELSE w[n]]
  <2>3. ASSUME NEW n \in 0 .. k
        PROVE  g[n] = IF n = 0 THEN ROOT_IDX ELSE Child(f, g[n - 1], path[n])
    <3>1. CASE n = k
      <4>1. n - 1 \in 0 .. k /\ n - 1 # k
        BY <3>1, <1>2, <1>4
      <4>2. g[n - 1] = w[n - 1]
        BY <4>1
      <4>3. g[n] = Child(f, w[k - 1], path[k])
        BY <3>1
      <4>4. QED  BY <4>2, <4>3, <3>1, <1>4
    <3>2. CASE n # k
      <4>1. n \in 0 .. k - 1
        BY <3>2, <1>2
      <4>2. w[n] = IF n = 0 THEN ROOT_IDX ELSE Child(f, w[n - 1], path[n])
        BY <2>2, <4>1 DEF Walk
      <4>3. g[n] = w[n]
        BY <3>2
      <4>4. n # 0 => n - 1 \in 0 .. k /\ n - 1 # k
        BY <4>1, <1>2
      <4>5. n # 0 => g[n - 1] = w[n - 1]
        BY <4>4
      <4>6. QED  BY <4>2, <4>3, <4>5
    <3>3. QED  BY <3>1, <3>2
  <2>4. Walk(f, path, k, g)
    <3> DEFINE h == [n \in 0 .. k |-> IF n = 0 THEN ROOT_IDX ELSE Child(f, g[n - 1], path[n])]
    <3>1. \A n \in 0 .. k : g[n] = h[n]
      BY <2>3
    <3>2. g = h
      BY <3>1
    <3>3. QED  BY <3>2 DEF Walk
  <2>5. QED  BY <2>4
<1>5. QED  BY <1>3, <1>4

LEMMA ResolveWalks ==
    ASSUME NEW f, NEW path, Len(path) \in Nat
    PROVE  \E w : Walk(f, path, Len(path), w) /\ Resolve(f, path) = w[Len(path)]
<1> DEFINE W == CHOOSE w : Walk(f, path, Len(path), w)
<1>1. Walk(f, path, Len(path), W)
  BY WalkExists
<1>2. Resolve(f, path) = W[Len(path)]
  BY DEF Resolve, Walk, Child
<1>3. QED  BY <1>1, <1>2

\* Two walks are the same as far as the paths are: the first place where they
\* differ would have one before.
LEMMA WalksAgree ==
    ASSUME NEW f, NEW p, NEW q, NEW m \in Nat, NEW n \in Nat, NEW w, NEW v,
           Walk(f, p, m, w), Walk(f, q, n, v), m <= n, \A i \in 1 .. m : p[i] = q[i]
    PROVE  w[m] = v[m]
<1> DEFINE T == {i \in Nat : i <= m /\ w[i] # v[i]}
<1>1. CASE T = {}
  BY <1>1
<1>2. CASE T # {}
  <2>1. PICK k \in T : \A i \in T : k <= i
    <3>1. T \subseteq Nat
      OBVIOUS
    <3> HIDE DEF T
    <3>2. QED  BY <3>1, <1>2, Smallest
  <2>2. k \in 0 .. m /\ k \in 0 .. n /\ w[k] # v[k]
    OBVIOUS
  <2>3. /\ w[k] = IF k = 0 THEN ROOT_IDX ELSE Child(f, w[k - 1], p[k])
        /\ v[k] = IF k = 0 THEN ROOT_IDX ELSE Child(f, v[k - 1], q[k])
    BY <2>2 DEF Walk
  <2>4. CASE k = 0
    BY <2>2, <2>3, <2>4
  <2>5. CASE k # 0
    <3>1. k - 1 \in Nat /\ k - 1 <= m /\ ~ (k <= k - 1) /\ k \in 1 .. m
      BY <2>2, <2>5
    <3>2. w[k - 1] = v[k - 1]
      BY <3>1, <2>1
    <3>3. QED  BY <3>1, <3>2, <2>2, <2>3, <2>5
  <2>6. QED  BY <2>4, <2>5
<1>3. QED  BY <1>1, <1>2

LEMMA ResolveRoot == ASSUME NEW f  PROVE Resolve(f, <<>>) = ROOT_IDX
<1>1. PICK w : Walk(f, <<>>, Len(<<>>), w) /\ Resolve(f, <<>>) = w[Len(<<>>)]
  <2>1. Len(<<>>) \in Nat
    OBVIOUS
  <2>2. QED  BY <2>1, ResolveWalks
<1>2. Len(<<>>) = 0
  OBVIOUS
<1>3. QED  BY <1>1, <1>2 DEF Walk

\* One component more is one search more.
LEMMA ResolveChild ==
    ASSUME NEW f, NEW S, NEW p \in Seq(S), NEW x
    PROVE  Resolve(f, Append(p, x)) = Child(f, Resolve(f, p), x)
<1> DEFINE n == Len(p)
           q == Append(p, x)
<1>1. n \in Nat /\ Len(q) = n + 1 /\ q[n + 1] = x /\ \A i \in 1 .. n : p[i] = q[i]
  <2>1. p \in Seq(S \cup {x})
    OBVIOUS
  <2>2. QED  BY <2>1
<1>2. PICK w : Walk(f, p, n, w) /\ Resolve(f, p) = w[n]
  BY <1>1, ResolveWalks
<1>3. PICK v : Walk(f, q, n + 1, v) /\ Resolve(f, q) = v[n + 1]
  <2>1. Len(q) \in Nat
    BY <1>1
  <2>2. \E v : Walk(f, q, Len(q), v) /\ Resolve(f, q) = v[Len(q)]
    BY <2>1, ResolveWalks, Zenon
  <2>3. QED  BY <2>2, <1>1
<1> HIDE DEF n, q
<1>4. v[n + 1] = Child(f, v[n], x)
  BY <1>1, <1>3 DEF Walk
<1>5. w[n] = v[n]
  <2>1. n + 1 \in Nat /\ n <= n + 1
    BY <1>1
  <2>2. QED  BY <2>1, <1>1, <1>2, <1>3, WalksAgree
<1>6. QED  BY <1>2, <1>3, <1>4, <1>5 DEF q

(***************************************************************************)
(* Searches.                                                               *)
(***************************************************************************)

LEMMA LowestIs ==
    ASSUME NEW S, S \subseteq Nat
    PROVE  /\ S = {} => Lowest(S) = None
           /\ S # {} => Lowest(S) \in S /\ \A i \in S : Lowest(S) <= i
<1>1. CASE S = {}
  BY <1>1 DEF Lowest
<1>2. CASE S # {}
  <2>1. \E i \in S : \A j \in S : i <= j
    BY <1>2, Smallest
  <2>2. Lowest(S) = CHOOSE i \in S : \A j \in S : i <= j
    BY <1>2 DEF Lowest
  <2>3. QED  BY <1>2, <2>1, <2>2
<1>3. QED  BY <1>1, <1>2

LEMMA SlotsAre == ROOT_IDX \in Slots /\ Slots \subseteq Nat /\ None \notin Slots
BY FsSizes DEF Slots, ROOT_IDX, None

\* What a search gives is a child of that name, and nothing only if there is none.
ChildOf(f, d, name, i) == i \in Existing(f) /\ f[i].parent = d /\ f[i].name = name

LEMMA FindChildIs ==
    ASSUME NEW f, NEW d, NEW name, NEW i, i = FindChild(f, d, name)
    PROVE  \/ i \in Slots /\ ChildOf(f, d, name, i)
           \/ i = None /\ \A j \in Slots : ~ ChildOf(f, d, name, j)
<1> DEFINE S == {j \in Children(f, d) : f[j].name = name}
<1>1. S \subseteq Nat /\ \A j \in S : j \in Slots /\ ChildOf(f, d, name, j)
  BY SlotsAre DEF Children, Existing, ChildOf
<1>2. \A j \in Slots : ChildOf(f, d, name, j) => j \in S
  BY DEF Children, Existing, ChildOf
<1>3. i = Lowest(S)
  BY DEF FindChild
<1> HIDE DEF S
<1>4. S = {} \/ i \in S
  BY <1>1, <1>3, LowestIs
<1>5. S = {} => i = None
  BY <1>1, <1>3, LowestIs
<1>6. QED  BY <1>1, <1>2, <1>4, <1>5

LEMMA AllocNodeIs ==
    AllocNode # None => AllocNode \in Slots \ {ROOT_IDX} /\ ~ files[AllocNode].exists
<1> DEFINE S == Slots \ (Existing(files) \cup {ROOT_IDX})
<1>1. S \subseteq Nat
  BY SlotsAre
<1>2. AllocNode = Lowest(S)
  BY DEF AllocNode
<1>3. \A i \in S : i \in Slots \ {ROOT_IDX} /\ ~ files[i].exists
  BY DEF Existing
<1> HIDE DEF S
<1>4. AllocNode # None => AllocNode \in S
  BY <1>1, <1>2, LowestIs
<1>5. QED  BY <1>3, <1>4

(***************************************************************************)
(* What is true of the array between any two steps, as long as nothing is  *)
(* loaded from the disk.                                                   *)
(***************************************************************************)
Arrays == [Slots -> Node]

\* No directory has two entries of one name.
NamesApart(f) ==
    \A i, j \in Existing(f) :
       f[i].parent = f[j].parent /\ f[i].parent # None /\ f[i].name = f[j].name => i = j

\* The contents have the size that the node says.
SizeIs(node) ==
    \/ node.data = NULL /\ node.size = 0
    \/ node.data \in Seq(Bytes) /\ Len(node.data) = node.size

\* Every node but the root is in a directory.
Directories(f) == {i \in Existing(f) : f[i].is_dir}
Shape(f) ==
    /\ ROOT_IDX \in Directories(f) /\ f[ROOT_IDX].parent = None
    /\ \A i \in Existing(f) \ {ROOT_IDX} : f[i].parent \in Directories(f)

Sound(f) == f \in Arrays /\ NamesApart(f) /\ (\A i \in Slots : SizeIs(f[i])) /\ Shape(f)

\* No other entry of the directory of v has its name.
Alone(f, k, v) ==
    \A j \in Existing(f) \ {k} : ~ (f[j].parent = v.parent /\ f[j].name = v.name)

\* Every operation changes one node at a time.
LEMMA PutSound ==
    ASSUME NEW f, Sound(f), NEW k \in Slots \ {ROOT_IDX}, NEW v \in Node, SizeIs(v),
           v.exists => v.parent \in Directories(f) \cup {k} /\ Alone(f, k, v),
           \/ v.exists /\ v.is_dir
           \/ \A j \in Existing(f) : f[j].parent # k,
           v.exists /\ v.parent = k => v.is_dir,
           NEW g, g = [f EXCEPT ![k] = v]
    PROVE  Sound(g)
<1>1. f \in Arrays /\ NamesApart(f) /\ (\A i \in Slots : SizeIs(f[i])) /\ Shape(f)
  BY DEF Sound
<1>2. /\ g \in Arrays /\ g[k] = v /\ \A i \in Slots \ {k} : g[i] = f[i]
  BY <1>1 DEF Arrays
<1>3. /\ \A i \in Slots \ {k} : i \in Existing(g) <=> i \in Existing(f)
      /\ k \in Existing(g) <=> v.exists
      /\ Existing(g) \subseteq Slots /\ Existing(f) \subseteq Slots
  BY <1>2 DEF Existing
<1>4. NamesApart(g)
  <2> SUFFICES ASSUME NEW i \in Existing(g), NEW j \in Existing(g),
                      g[i].parent = g[j].parent, g[i].parent # None, g[i].name = g[j].name
               PROVE  i = j
    BY DEF NamesApart
  <2>1. CASE i = k /\ j # k
    <3>1. j \in Existing(f) \ {k} /\ g[j] = f[j] /\ v.exists /\ Alone(f, k, v)
      BY <2>1, <1>2, <1>3
    <3>2. ~ (f[j].parent = v.parent /\ f[j].name = v.name)
      BY <3>1 DEF Alone
    <3>3. QED  BY <2>1, <3>1, <3>2, <1>2
  <2>2. CASE i # k /\ j = k
    <3>1. i \in Existing(f) \ {k} /\ g[i] = f[i] /\ v.exists /\ Alone(f, k, v)
      BY <2>2, <1>2, <1>3
    <3>2. ~ (f[i].parent = v.parent /\ f[i].name = v.name)
      BY <3>1 DEF Alone
    <3>3. QED  BY <2>2, <3>1, <3>2, <1>2
  <2>3. CASE i # k /\ j # k
    <3>1. i \in Existing(f) /\ j \in Existing(f) /\ g[i] = f[i] /\ g[j] = f[j]
      BY <2>3, <1>2, <1>3
    <3>2. QED  BY <3>1, <1>1 DEF NamesApart
  <2>4. QED  BY <2>1, <2>2, <2>3
<1>5. \A i \in Slots : SizeIs(g[i])
  BY <1>1, <1>2
<1>6. \A i \in Directories(f) \ {k} : i \in Directories(g)
  BY <1>2, <1>3 DEF Directories
<1>7. Shape(g)
  <2>1. ROOT_IDX \in Directories(g) /\ g[ROOT_IDX].parent = None
    BY <1>1, <1>2, <1>6, SlotsAre DEF Shape
  <2>2. ASSUME NEW i \in Existing(g) \ {ROOT_IDX}  PROVE g[i].parent \in Directories(g)
    <3>1. CASE i = k
      <4>1. v.exists /\ g[i] = v
        BY <3>1, <2>2, <1>2, <1>3
      <4>2. CASE v.parent = k
        BY <3>1, <4>1, <4>2, <2>2 DEF Directories
      <4>3. CASE v.parent # k
        <5>1. v.parent \in Directories(f) \ {k}
          BY <4>1, <4>3
        <5>2. QED  BY <4>1, <5>1, <1>6
      <4>4. QED  BY <4>2, <4>3
    <3>2. CASE i # k
      <4>1. f[i].parent \in Directories(f) /\ g[i].parent = f[i].parent /\ i \in Existing(f)
        BY <3>2, <1>1, <1>2, <1>3 DEF Shape
      <4>2. CASE f[i].parent = k
        BY <4>1, <4>2, <1>2, <1>3 DEF Directories
      <4>3. QED  BY <4>1, <4>2, <1>6
    <3>3. QED  BY <3>1, <3>2
  <2>3. QED  BY <2>1, <2>2 DEF Shape
<1>8. QED  BY <1>2, <1>4, <1>5, <1>7 DEF Sound

\* A path resolves to a node that exists, or to none.
LEMMA ResolveExists ==
    ASSUME NEW f, Sound(f), NEW p \in Seq(Names)
    PROVE  Resolve(f, p) \in Existing(f) \cup {None}
<1>1. CASE p = <<>>
  <2>1. ROOT_IDX \in Existing(f)
    BY DEF Sound, Shape, Directories
  <2>2. QED  BY <1>1, <2>1, ResolveRoot
<1>2. CASE p # <<>>
  <2>1. PICK front \in Seq(Names), last \in Names : p = Append(front, last)
    BY <1>2, SequenceEmptyOrAppend
  <2>2. Resolve(f, p) = Child(f, Resolve(f, front), last)
    BY <2>1, ResolveChild
  <2>3. QED
    BY <2>2, FindChildIs DEF Child, ChildOf
<1>3. QED  BY <1>1, <1>2

\* Nothing is below what is not a directory.
LEMMA FilesHaveNoChildren ==
    ASSUME NEW f, Sound(f), NEW k \in Slots \ {ROOT_IDX}, k \notin Directories(f)
    PROVE  \A j \in Existing(f) : f[j].parent # k
<1>1. f[ROOT_IDX].parent = None /\ \A j \in Existing(f) \ {ROOT_IDX} : f[j].parent \in Directories(f)
  BY DEF Sound, Shape
<1>2. QED  BY <1>1, SlotsAre

\* A name that is not in a directory may be put there.
LEMMA FreeName ==
    ASSUME NEW f, Sound(f), NEW d, NEW name, FindChild(f, d, name) = None, NEW k,
           NEW v, v.parent = d, v.name = name
    PROVE  Alone(f, k, v)
<1>1. \A j \in Slots : ~ ChildOf(f, d, name, j)
  BY FindChildIs, SlotsAre
<1>2. QED  BY <1>1 DEF Alone, ChildOf, Existing

\* A node that stays where it is has its name for itself.
LEMMA SameName ==
    ASSUME NEW f, Sound(f), NEW k \in Existing(f) \ {ROOT_IDX},
           NEW v, v.parent = f[k].parent, v.name = f[k].name
    PROVE  f[k].parent \in Directories(f) /\ f[k].parent # None /\ Alone(f, k, v)
<1>1. f[k].parent \in Directories(f) /\ f[k].parent # None
  BY SlotsAre DEF Sound, Shape, Directories, Existing
<1>2. NamesApart(f)
  BY DEF Sound
<1>3. QED  BY <1>1, <1>2 DEF NamesApart, Alone

\* What a new entry of the directory d looks like.
Fresh(v, d, name) == v \in Node /\ SizeIs(v) /\ v.exists /\ v.parent = d /\ v.name = name

LEMMA EntryIs ==
    ASSUME NEW dir \in BOOLEAN, NEW d \in Slots, NEW name \in Names, NEW v, v = Entry(dir, d, name)
    PROVE  Fresh(v, d, name) /\ v.is_dir = dir
<1>1. v = [exists |-> TRUE, is_dir |-> dir, parent |-> d, name |-> name, size |-> 0, data |-> NULL]
  BY DEF Entry, Empty
<1>2. QED  BY <1>1 DEF Node, SizeIs, Fresh

LEMMA NewDirIs ==
    ASSUME NEW d \in Slots, NEW name \in Names, NEW v, v = Entry(TRUE, d, name)
    PROVE  Fresh(v, d, name) /\ v.is_dir
<1>1. PICK dir \in BOOLEAN : dir = TRUE
  OBVIOUS
<1>2. v = Entry(dir, d, name)
  BY <1>1, Zenon
<1>3. Fresh(v, d, name) /\ v.is_dir = dir
  BY <1>2, EntryIs
<1>4. QED  BY <1>1, <1>3

LEMMA NewFileIs ==
    ASSUME NEW d \in Slots, NEW name \in Names, NEW v, v = Entry(FALSE, d, name)
    PROVE  Fresh(v, d, name) /\ ~ v.is_dir
<1>1. PICK dir \in BOOLEAN : dir = FALSE
  OBVIOUS
<1>2. v = Entry(dir, d, name)
  BY <1>1, Zenon
<1>3. Fresh(v, d, name) /\ v.is_dir = dir
  BY <1>2, EntryIs
<1>4. QED  BY <1>1, <1>3

With(k, v) == [files EXCEPT ![k] = v]

\* fs_create, fs_mkdir: a new entry in a directory that has none of its name.
LEMMA NewEntrySound ==
    ASSUME Sound(files), NEW k, k = AllocNode, k # None, NEW d \in Directories(files), NEW name,
           FindChild(files, d, name) = None, NEW v, Fresh(v, d, name)
    PROVE  /\ Sound(With(k, v)) /\ k \in Slots \ {ROOT_IDX}
           /\ With(k, v)[k] = v
           /\ \A i \in Existing(files) :
                 i # k /\ i \in Existing(With(k, v)) /\ With(k, v)[i] = files[i]
<1>1. k \in Slots \ {ROOT_IDX} /\ ~ files[k].exists
  BY AllocNodeIs
<1>2. d \in Slots /\ files \in Arrays
  BY DEF Directories, Existing, Sound
<1>3. v \in Node /\ SizeIs(v) /\ v.exists /\ v.parent = d /\ v.name = name
  BY DEF Fresh
<1>4. Alone(files, k, v)
  BY <1>3, FreeName
<1>5. \A j \in Existing(files) : files[j].parent # k
  BY <1>1, FilesHaveNoChildren DEF Directories, Existing
<1>6. PICK g : g = [files EXCEPT ![k] = v]
  OBVIOUS
<1>7. v.parent \in Directories(files) \cup {k} /\ v.parent # k
  BY <1>1, <1>3 DEF Directories, Existing
<1>8. Sound(g)
  BY <1>1, <1>3, <1>4, <1>5, <1>6, <1>7, PutSound
<1>9. g[k] = v /\ \A i \in Slots \ {k} : g[i] = files[i]
  BY <1>1, <1>2, <1>6 DEF Arrays
<1>10. \A i \in Existing(files) : i # k /\ i \in Existing(g) /\ g[i] = files[i]
  BY <1>1, <1>9 DEF Existing
<1>11. g = With(k, v)
  BY <1>6 DEF With
<1>12. QED  BY <1>1, <1>8, <1>9, <1>10, <1>11

(***************************************************************************)
(* The operation under way, and the operations.                            *)
(***************************************************************************)
Texts == Seq(Seq(Bytes))

OpOf(kind, cmd, path, at, dir, node, writes) ==
    [kind |-> kind, cmd |-> cmd, path |-> path, at |-> at, dir |-> dir, node |-> node,
     writes |-> writes]

Kinds == {"none", "mkdir", "create", "rename", "append"}
IsOp(o) ==
    /\ o = OpOf(o.kind, o.cmd, o.path, o.at, o.dir, o.node, o.writes)
    /\ o.kind \in Kinds
    /\ o.path \in Seq(Names) /\ o.at \in Nat /\ o.dir \in Slots
    /\ o.node \in Slots \cup {None} /\ o.writes \in Texts

WalksPath(o) == o.kind \in {"mkdir", "create", "rename"}
Movable(f, i) == i \in Existing(f) \ {ROOT_IDX}
File(f, i) == i \in Existing(f) \ {ROOT_IDX} /\ ~ f[i].is_dir

\* What the operation o holds of the array f is still there.
Current(f, o) ==
    /\ IsOp(o)
    /\ WalksPath(o) => o.dir \in Directories(f)
    /\ o.kind = "rename" => Movable(f, o.node)
    /\ o.kind = "append" => File(f, o.node)

FsInv == Sound(files) /\ Current(files, op)

\* One more component of the path has been followed.
Onward(o, k) == [o EXCEPT !.at = @ + 1, !.dir = k]

LEMMA Advanced ==
    ASSUME NEW o, IsOp(o), NEW k \in Slots, NEW n, n = Onward(o, k)
    PROVE  /\ IsOp(n) /\ n.dir = k /\ n.kind = o.kind /\ n.node = o.node
<1>1. n = OpOf(o.kind, o.cmd, o.path, o.at + 1, k, o.node, o.writes)
  BY DEF IsOp, OpOf, Onward
<1>2. /\ n.kind = o.kind /\ n.cmd = o.cmd /\ n.path = o.path /\ n.at = o.at + 1
      /\ n.dir = k /\ n.node = o.node /\ n.writes = o.writes
  BY <1>1 DEF OpOf
<1>3. o.at + 1 \in Nat
  BY DEF IsOp
<1>4. QED  BY <1>1, <1>2, <1>3 DEF IsOp

LEMMA IdleIs == IsOp(Idle) /\ Idle.kind = "none"
<1>1. Idle = OpOf("none", "none", <<>>, 0, ROOT_IDX, None, <<>>)
  BY DEF Idle, OpOf
<1>2. /\ Idle.kind = "none" /\ Idle.cmd = "none" /\ Idle.path = <<>> /\ Idle.at = 0
      /\ Idle.dir = ROOT_IDX /\ Idle.node = None /\ Idle.writes = <<>>
  BY DEF Idle
<1>3. <<>> \in Seq(Names) /\ <<>> \in Texts
  BY DEF Texts
<1>4. ROOT_IDX \in Slots
  BY SlotsAre
<1>5. /\ Idle = OpOf(Idle.kind, Idle.cmd, Idle.path, Idle.at, Idle.dir, Idle.node, Idle.writes)
      /\ Idle.kind \in Kinds /\ Idle.path \in Seq(Names) /\ Idle.at \in Nat
      /\ Idle.dir \in Slots /\ Idle.node \in Slots \cup {None} /\ Idle.writes \in Texts
  <2>1. Idle = OpOf(Idle.kind, Idle.cmd, Idle.path, Idle.at, Idle.dir, Idle.node, Idle.writes)
    BY <1>1, <1>2
  <2>2. Idle.kind \in Kinds /\ Idle.at \in Nat
    BY <1>2 DEF Kinds
  <2>3. Idle.dir \in Slots /\ Idle.node \in Slots \cup {None}
    BY <1>2, <1>4
  <2>4. Idle.path \in Seq(Names) /\ Idle.writes \in Texts
    BY <1>2, <1>3
  <2>5. QED  BY <2>1, <2>2, <2>3, <2>4
<1>6. QED  BY <1>2, <1>5 DEF IsOp

LEMMA IdleCurrent == \A f : Current(f, Idle)
BY IdleIs DEF Current, WalksPath

\* What exists stays as it is: the operation is still current.
LEMMA StaysCurrent ==
    ASSUME NEW f, NEW g, NEW o, Current(f, o),
           \A i \in Existing(f) : i \in Existing(g) /\ g[i] = f[i]
    PROVE  Current(g, o)
<1>1. \A i \in Directories(f) : i \in Directories(g)
  BY DEF Directories
<1>2. QED  BY <1>1 DEF Current, Movable, File

\* A walk that goes on in the directory k.
LEMMA GoesOn ==
    ASSUME NEW f, NEW o, Current(f, o), WalksPath(o), NEW k \in Directories(f),
           NEW n, n = Onward(o, k)
    PROVE  Current(f, n)
<1>1. k \in Slots
  BY DEF Directories, Existing
<1>2. IsOp(n) /\ n.dir = k /\ n.kind = o.kind /\ n.node = o.node
  <2>1. IsOp(o)
    BY DEF Current
  <2>2. QED  BY <1>1, <2>1, Advanced
<1>3. QED  BY <1>2 DEF Current, WalksPath

LEMMA MakeParentKeeps == ASSUME FsInv, MakeParent  PROVE FsInv'
<1>1. PICK k : k = AllocNode
  OBVIOUS
<1>2. PICK name : name = op.path[op.at + 1]
  OBVIOUS
<1>3. PICK v : v = Entry(TRUE, op.dir, name)
  OBVIOUS
<1>4. IsOp(op) /\ WalksPath(op) /\ op.dir \in Directories(files) /\ Sound(files) /\ Current(files, op)
  BY DEF FsInv, Current, MakeParent, MoreDirs, Walking, WalksPath
<1>5. name \in Names
  <2>1. op.path \in Seq(Names) /\ op.at \in Nat
    BY <1>4 DEF IsOp
  <2>2. op.at < Len(op.path) - 1
    BY DEF MakeParent, MoreDirs
  <2>3. op.at + 1 \in 1 .. Len(op.path)
    BY <2>1, <2>2
  <2>4. QED  BY <1>2, <2>1, <2>3
<1>6. /\ FindChild(files, op.dir, name) = None /\ k # None
      /\ files' = With(k, v)
      /\ op' = Onward(op, k)
  BY <1>1, <1>2, <1>3 DEF MakeParent, Next1, With, Onward
<1>7. Fresh(v, op.dir, name) /\ v.is_dir
  <2>1. op.dir \in Slots
    BY <1>4 DEF IsOp
  <2>2. QED  BY <1>3, <1>5, <2>1, NewDirIs
<1>8. /\ Sound(files') /\ k \in Slots \ {ROOT_IDX} /\ files'[k] = v
      /\ \A i \in Existing(files) : i # k /\ i \in Existing(files') /\ files'[i] = files[i]
  BY <1>1, <1>4, <1>6, <1>7, NewEntrySound
<1>9. k \in Directories(files')
  BY <1>7, <1>8 DEF Directories, Existing, Fresh
<1>10. Current(files', op)
  BY <1>4, <1>8, StaysCurrent
<1>11. Current(files', op')
  BY <1>4, <1>6, <1>9, <1>10, GoesOn
<1>12. QED  BY <1>8, <1>11 DEF FsInv

LEMMA EnterKeeps == ASSUME FsInv, Enter  PROVE FsInv'
<1>1. PICK k : k = Next1
  OBVIOUS
<1>2. WalksPath(op) /\ Sound(files) /\ Current(files, op)
  BY DEF FsInv, Enter, MoreDirs, Walking, WalksPath
<1>3. k # None /\ files[k].is_dir /\ op' = Onward(op, k) /\ files' = files
  BY <1>1 DEF Enter, Onward
<1>4. k \in Directories(files)
  <2>1. k = FindChild(files, op.dir, op.path[op.at + 1])
    BY <1>1 DEF Next1
  <2>2. QED  BY <1>3, <2>1, FindChildIs DEF ChildOf, Directories
<1>5. Current(files, op')
  BY <1>2, <1>3, <1>4, GoesOn
<1>6. QED  BY <1>2, <1>3, <1>5 DEF FsInv

\* The last component is a name.
LEMMA LeafIs ==
    ASSUME FsInv, AtLeaf
    PROVE  /\ Leaf \in Names /\ op.dir \in Directories(files) /\ op.dir \in Slots /\ IsOp(op)
           /\ Sound(files)
<1>1. IsOp(op) /\ op.dir \in Directories(files) /\ Sound(files)
  BY DEF FsInv, Current, AtLeaf, Walking, WalksPath
<1>2. op.path \in Seq(Names) /\ op.at \in Nat /\ op.dir \in Slots
  BY <1>1 DEF IsOp
<1>3. Len(op.path) \in 1 .. Len(op.path)
  BY <1>2 DEF AtLeaf
<1>4. QED  BY <1>1, <1>2, <1>3 DEF Leaf

LEMMA MkdirKeeps == ASSUME FsInv, Mkdir  PROVE FsInv'
<1>1. PICK k : k = AllocNode
  OBVIOUS
<1>2. PICK name : name = Leaf
  OBVIOUS
<1>3. PICK v : v = Entry(TRUE, op.dir, name)
  OBVIOUS
<1>4. name \in Names /\ op.dir \in Directories(files) /\ op.dir \in Slots /\ Sound(files)
  BY <1>2, LeafIs DEF Mkdir
<1>5. FindChild(files, op.dir, name) = None /\ k # None /\ op' = Idle /\ files' = With(k, v)
  BY <1>1, <1>2, <1>3 DEF Mkdir, Found, With
<1>6. Fresh(v, op.dir, name)
  BY <1>3, <1>4, NewDirIs
<1>7. Sound(files')
  BY <1>1, <1>4, <1>5, <1>6, NewEntrySound
<1>8. QED  BY <1>5, <1>7, IdleCurrent DEF FsInv

\* fs_create has given the node i.
LEMMA WritingIs ==
    ASSUME NEW i \in Slots, Writing(i), IsOp(op), NEW f, File(f, i)
    PROVE  Current(f, op')
<1>1. op' = OpOf("append", op.cmd, <<>>, 0, ROOT_IDX, i, op.writes)
  BY DEF Writing, Idle, OpOf
<1>2. /\ op'.kind = "append" /\ op'.cmd = op.cmd /\ op'.path = <<>> /\ op'.at = 0
      /\ op'.dir = ROOT_IDX /\ op'.node = i /\ op'.writes = op.writes
  BY <1>1 DEF OpOf
<1>3. op.writes \in Texts /\ <<>> \in Seq(Names) /\ ROOT_IDX \in Slots
  BY SlotsAre DEF IsOp
<1>4. IsOp(op')
  <2>1. op' = OpOf(op'.kind, op'.cmd, op'.path, op'.at, op'.dir, op'.node, op'.writes)
    BY <1>1, <1>2
  <2>2. op'.kind \in Kinds /\ op'.at \in Nat
    BY <1>2 DEF Kinds
  <2>3. op'.dir \in Slots /\ op'.node \in Slots \cup {None}
    BY <1>2, <1>3
  <2>4. op'.path \in Seq(Names) /\ op'.writes \in Texts
    BY <1>2, <1>3
  <2>5. QED  BY <2>1, <2>2, <2>3, <2>4 DEF IsOp
<1>5. QED  BY <1>2, <1>4 DEF Current, WalksPath

LEMMA CreateKeeps == ASSUME FsInv, Create  PROVE FsInv'
<1>1. PICK k : k = AllocNode
  OBVIOUS
<1>2. PICK name : name = Leaf
  OBVIOUS
<1>3. PICK v : v = Entry(FALSE, op.dir, name)
  OBVIOUS
<1>4. name \in Names /\ op.dir \in Directories(files) /\ op.dir \in Slots /\ Sound(files) /\ IsOp(op)
  BY <1>2, LeafIs DEF Create
<1>5. FindChild(files, op.dir, name) = None /\ k # None /\ Writing(k) /\ files' = With(k, v)
  BY <1>1, <1>2, <1>3 DEF Create, Found, With
<1>6. Fresh(v, op.dir, name) /\ ~ v.is_dir
  BY <1>3, <1>4, NewFileIs
<1>7. Sound(files') /\ k \in Slots \ {ROOT_IDX} /\ files'[k] = v
  BY <1>1, <1>4, <1>5, <1>6, NewEntrySound
<1>8. File(files', k)
  BY <1>6, <1>7 DEF File, Existing, Fresh
<1>9. Current(files', op')
  BY <1>4, <1>5, <1>7, <1>8, WritingIs
<1>10. QED  BY <1>7, <1>9 DEF FsInv

\* A file gets other contents.
LEMMA RewrittenSound ==
    ASSUME Sound(files), NEW k, File(files, k), NEW v \in Node, SizeIs(v), v.exists, ~ v.is_dir,
           v.parent = files[k].parent, v.name = files[k].name
    PROVE  Sound(With(k, v)) /\ File(With(k, v), k)
<1>1. k \in Slots \ {ROOT_IDX} /\ k \in Existing(files) \ {ROOT_IDX} /\ k \notin Directories(files)
  BY DEF File, Existing, Directories
<1>2. files[k].parent \in Directories(files) /\ Alone(files, k, v)
  BY <1>1, SameName
<1>3. \A j \in Existing(files) : files[j].parent # k
  BY <1>1, FilesHaveNoChildren
<1>4. PICK g : g = [files EXCEPT ![k] = v]
  OBVIOUS
<1>5. v.parent \in Directories(files) \cup {k} /\ v.parent # k
  BY <1>1, <1>2
<1>6. Sound(g)
  BY <1>1, <1>2, <1>3, <1>4, <1>5, PutSound
<1>7. g[k] = v /\ k \in Slots
  BY <1>1, <1>4 DEF Sound, Arrays
<1>8. File(g, k)
  BY <1>1, <1>7 DEF File, Existing
<1>9. g = With(k, v)
  BY <1>4 DEF With
<1>10. QED  BY <1>6, <1>8, <1>9

LEMMA NodeFields ==
    ASSUME Sound(files), NEW k \in Slots
    PROVE  files[k] \in Node /\ SizeIs(files[k])
BY DEF Sound, Arrays

Resized(node, size, data) == [node EXCEPT !.size = size, !.data = data]

LEMMA ResizedIs ==
    ASSUME NEW node \in Node, NEW size \in Nat, NEW data \in Seq(Bytes) \cup {NULL}, NEW v,
           v = Resized(node, size, data)
    PROVE  /\ v \in Node /\ v.size = size /\ v.data = data
           /\ v.exists = node.exists /\ v.is_dir = node.is_dir
           /\ v.parent = node.parent /\ v.name = node.name
BY DEF Node, Resized

LEMMA TruncateKeeps == ASSUME FsInv, Truncate  PROVE FsInv'
<1>1. PICK k : k = Found
  OBVIOUS
<1>2. op.dir \in Directories(files) /\ op.dir \in Slots /\ Sound(files) /\ IsOp(op)
  BY LeafIs DEF Truncate
<1>3. k # None /\ ~ files[k].is_dir /\ Writing(k)
  BY <1>1 DEF Truncate
<1>4. k \in Slots /\ ChildOf(files, op.dir, Leaf, k)
  BY <1>1, <1>3, FindChildIs DEF Found
<1>5. File(files, k)
  <2>1. k # ROOT_IDX
    BY <1>2, <1>3 DEF Sound, Shape, Directories
  <2>2. QED  BY <1>3, <1>4, <2>1 DEF File, ChildOf
<1>6. PICK v : v = Resized(files[k], 0, NULL)
  OBVIOUS
<1>7. files[k] \in Node /\ files[k].exists
  BY <1>2, <1>4, NodeFields DEF ChildOf, Existing
<1>8. /\ v \in Node /\ v.size = 0 /\ v.data = NULL /\ v.exists /\ ~ v.is_dir
      /\ v.parent = files[k].parent /\ v.name = files[k].name
  BY <1>3, <1>6, <1>7, ResizedIs
<1>9. SizeIs(v)
  BY <1>8 DEF SizeIs
<1>10. files' = With(k, v)
  <2>1. files' = [files EXCEPT ![k].size = 0, ![k].data = NULL]
    BY <1>1 DEF Truncate
  <2>2. QED  BY <2>1, <1>2, <1>4, <1>6 DEF With, Resized, Sound, Arrays
<1>11. Sound(files') /\ File(files', k)
  BY <1>2, <1>5, <1>8, <1>9, <1>10, RewrittenSound
<1>12. Current(files', op')
  BY <1>2, <1>3, <1>4, <1>11, WritingIs
<1>13. QED  BY <1>11, <1>12 DEF FsInv

\* fs_append has more to write, or has not.
LEMMA RestIs ==
    ASSUME NEW o, IsOp(o), o.kind = "append", o.writes # <<>>, NEW f, File(f, o.node),
           NEW n, n = [o EXCEPT !.writes = Tail(@)]
    PROVE  Current(f, n)
<1>1. Tail(o.writes) \in Texts
  BY DEF IsOp, Texts
<1>2. PICK rest : rest = Tail(o.writes)
  OBVIOUS
<1>3. n = OpOf(o.kind, o.cmd, o.path, o.at, o.dir, o.node, rest)
  BY <1>2 DEF IsOp, OpOf
<1>4. /\ n.kind = o.kind /\ n.cmd = o.cmd /\ n.path = o.path /\ n.at = o.at
      /\ n.dir = o.dir /\ n.node = o.node /\ n.writes = rest
  BY <1>3 DEF OpOf
<1>5. IsOp(n)
  BY <1>1, <1>2, <1>3, <1>4 DEF IsOp
<1>6. QED  BY <1>4, <1>5 DEF Current, WalksPath

LEMMA Append1Keeps == ASSUME FsInv, Append1  PROVE FsInv'
<1>1. PICK k : k = op.node
  OBVIOUS
<1>2. PICK bytes : bytes = Head(op.writes)
  OBVIOUS
<1>3. /\ IsOp(op) /\ op.kind = "append" /\ op.writes # <<>> /\ File(files, k) /\ Sound(files)
      /\ op' = [op EXCEPT !.writes = Tail(@)]
  BY <1>1 DEF FsInv, Current, Append1
<1>4. bytes \in Seq(Bytes)
  <2>1. op.writes \in Seq(Seq(Bytes))
    BY <1>3 DEF IsOp, Texts
  <2>2. QED  BY <1>2, <1>3, <2>1
<1>5. k \in Slots /\ files[k].exists /\ ~ files[k].is_dir
  BY <1>3 DEF File, Existing
<1>6. files[k] \in Node /\ SizeIs(files[k])
  BY <1>3, <1>5, NodeFields
<1>7. PICK old \in Seq(Bytes) :
         /\ old = IF files[k].data = NULL THEN <<>> ELSE files[k].data
         /\ Len(old) = files[k].size
  <2>1. CASE files[k].data = NULL
    <3>1. files[k].size = 0
      BY <1>6, <2>1, FsSizes DEF SizeIs
    <3>2. <<>> \in Seq(Bytes) /\ Len(<<>>) = 0
      OBVIOUS
    <3>3. QED  BY <2>1, <3>1, <3>2
  <2>2. CASE files[k].data # NULL
    BY <1>6, <2>2 DEF SizeIs
  <2>3. QED  BY <2>1, <2>2
<1>8. files[k].size \in Nat
  BY <1>6 DEF Node
<1>9. PICK new \in Seq(Bytes) : new = old \o bytes /\ Len(new) = files[k].size + Len(bytes)
  <2>1. old \o bytes \in Seq(Bytes) /\ Len(old \o bytes) = Len(old) + Len(bytes)
    BY <1>4, <1>7, ConcatProperties
  <2>2. QED  BY <1>7, <2>1
<1>10. PICK size \in Nat : size = files[k].size + Len(bytes)
  BY <1>4, <1>8
<1>11. CASE files' = files
  <2>1. Current(files, op')
    BY <1>1, <1>3, RestIs
  <2>2. QED  BY <1>3, <1>11, <2>1 DEF FsInv
<1>12. CASE files' = [files EXCEPT
                        ![k].data = (IF @ = NULL THEN <<>> ELSE @) \o bytes,
                        ![k].size = @ + Len(bytes)]
  <2>1. PICK v : v = Resized(files[k], size, new)
    OBVIOUS
  <2>2. /\ v \in Node /\ v.size = size /\ v.data = new /\ v.exists /\ ~ v.is_dir
        /\ v.parent = files[k].parent /\ v.name = files[k].name
    <3>1. new \in Seq(Bytes) \cup {NULL} /\ files[k] \in Node
      BY <1>6
    <3>2. /\ v \in Node /\ v.size = size /\ v.data = new
          /\ v.exists = files[k].exists /\ v.is_dir = files[k].is_dir
          /\ v.parent = files[k].parent /\ v.name = files[k].name
      BY <2>1, <3>1 DEF Node, Resized
    <3>3. QED  BY <1>5, <3>2
  <2>3. SizeIs(v)
    BY <1>9, <1>10, <2>2 DEF SizeIs
  <2>4. files' = With(k, v)
    <3>1. files' = [files EXCEPT ![k] = [files[k] EXCEPT
                       !.data = (IF @ = NULL THEN <<>> ELSE @) \o bytes,
                       !.size = @ + Len(bytes)]]
      BY <1>12, <1>3, <1>5, <1>6 DEF Sound, Arrays, Node
    <3>2. [files[k] EXCEPT !.data = (IF @ = NULL THEN <<>> ELSE @) \o bytes,
                           !.size = @ + Len(bytes)] = v
      BY <1>6, <1>7, <1>9, <1>10, <2>1 DEF Resized, Node
    <3>3. QED  BY <3>1, <3>2 DEF With
  <2>5. Sound(files') /\ File(files', k)
    BY <1>3, <2>2, <2>3, <2>4, RewrittenSound
  <2>6. Current(files', op')
    BY <1>1, <1>3, <2>5, RestIs
  <2>7. QED  BY <2>5, <2>6 DEF FsInv
<1>13. QED
  BY <1>1, <1>2, <1>11, <1>12 DEF Append1

Moved(node, d, name) == [node EXCEPT !.parent = d, !.name = name]

LEMMA MovedIs ==
    ASSUME NEW node \in Node, NEW d \in Slots, NEW name \in Names, NEW v, v = Moved(node, d, name)
    PROVE  /\ v \in Node /\ v.parent = d /\ v.name = name
           /\ v.exists = node.exists /\ v.is_dir = node.is_dir
           /\ v.size = node.size /\ v.data = node.data
BY DEF Node, Moved

LEMMA RenameKeeps == ASSUME FsInv, Rename  PROVE FsInv'
<1>1. PICK k : k = op.node
  OBVIOUS
<1>2. PICK name : name = Leaf
  OBVIOUS
<1>3. /\ name \in Names /\ op.dir \in Directories(files) /\ op.dir \in Slots /\ Sound(files)
      /\ k \in Existing(files) \ {ROOT_IDX}
  BY <1>1, <1>2, LeafIs DEF Rename, FsInv, Current, Movable
<1>4. FindChild(files, op.dir, name) = None /\ op' = Idle
  BY <1>2 DEF Rename, Found
<1>5. k \in Slots \ {ROOT_IDX} /\ files[k] \in Node /\ SizeIs(files[k]) /\ files[k].exists
  BY <1>3, NodeFields DEF Existing
<1>6. PICK v : v = Moved(files[k], op.dir, name)
  OBVIOUS
<1>7. /\ v \in Node /\ v.parent = op.dir /\ v.name = name /\ v.exists
      /\ v.is_dir = files[k].is_dir /\ v.size = files[k].size /\ v.data = files[k].data
  BY <1>3, <1>5, <1>6, MovedIs
<1>8. SizeIs(v) /\ Alone(files, k, v)
  BY <1>3, <1>4, <1>5, <1>7, FreeName DEF SizeIs
<1>9. PICK g : g = [files EXCEPT ![k] = v]
  OBVIOUS
<1>10. \/ v.exists /\ v.is_dir
       \/ \A j \in Existing(files) : files[j].parent # k
  <2>1. CASE ~ files[k].is_dir
    BY <1>3, <1>5, <2>1, FilesHaveNoChildren DEF Directories
  <2>2. QED  BY <1>7, <2>1
<1>11. v.exists /\ v.parent = k => v.is_dir
  BY <1>3, <1>7 DEF Directories
<1>12. v.parent \in Directories(files) \cup {k}
  BY <1>3, <1>7
<1>13. Sound(g)
  BY <1>3, <1>5, <1>7, <1>8, <1>9, <1>10, <1>11, <1>12, PutSound
<1>14. files' = g
  <2>1. files' = [files EXCEPT ![k].parent = op.dir, ![k].name = name]
    BY <1>1, <1>2 DEF Rename
  <2>2. QED  BY <2>1, <1>3, <1>5, <1>6, <1>9 DEF Moved, Sound, Arrays
<1>15. QED  BY <1>4, <1>13, <1>14, IdleCurrent DEF FsInv

LEMMA OpStepKeeps == ASSUME FsInv, OpStep  PROVE FsInv'
<1>1. CASE NoLeaf \/ FileInTheWay \/ NoRoomForParent \/ Refused \/ Written
  <2>1. op' = Idle /\ files' = files
    BY <1>1 DEF NoLeaf, FileInTheWay, NoRoomForParent, Refused, Written
  <2>2. QED  BY <2>1, IdleCurrent DEF FsInv
<1>2. QED
  BY <1>1, EnterKeeps, MakeParentKeeps, MkdirKeeps, RenameKeeps, TruncateKeeps, CreateKeeps,
     Append1Keeps
  DEF OpStep

\* fs_rmdir, fs_delete
LEMMA RemovedSound ==
    ASSUME Sound(files), NEW k \in Existing(files) \ {ROOT_IDX},
           \A j \in Existing(files) : files[j].parent # k
    PROVE  Sound([files EXCEPT ![k] = Empty])
<1>1. PICK v : v = Empty
  OBVIOUS
<1>2. PICK dir \in BOOLEAN : dir = FALSE
  OBVIOUS
<1>3. Empty = [exists |-> dir, is_dir |-> dir, parent |-> ROOT_IDX, name |-> Root,
               size |-> 0, data |-> NULL]
  BY <1>2, Zenon DEF Empty
<1>4. v \in Node /\ SizeIs(v) /\ ~ v.exists
  BY <1>1, <1>2, <1>3, SlotsAre DEF Node, SizeIs
<1>5. PICK g : g = [files EXCEPT ![k] = v]
  OBVIOUS
<1>6. k \in Slots \ {ROOT_IDX}
  BY DEF Existing
<1>7. Sound(g)
  BY <1>4, <1>5, <1>6, PutSound
<1>8. QED  BY <1>1, <1>5, <1>7

LEMMA RmdirKeeps ==
    ASSUME FsInv, op = Idle, NEW p \in Seq(Names), Rmdir(p)
    PROVE  FsInv'
<1>1. PICK k : k = Resolve(files, p)
  OBVIOUS
<1>2. k \in Existing(files) \cup {None} /\ Sound(files)
  BY <1>1, ResolveExists DEF FsInv
<1>3. /\ k \notin {None, ROOT_IDX} /\ Children(files, k) = {} /\ op' = op
      /\ files' = [files EXCEPT ![k] = Empty]
  BY <1>1 DEF Rmdir
<1>4. \A j \in Existing(files) : files[j].parent # k
  BY <1>3 DEF Children
<1>5. Sound(files')
  BY <1>2, <1>3, <1>4, RemovedSound
<1>6. QED  BY <1>3, <1>5, IdleCurrent DEF FsInv

LEMMA DeleteKeeps ==
    ASSUME FsInv, op = Idle, NEW p \in Seq(Names), Delete(p)
    PROVE  FsInv'
<1>1. PICK k : k = Resolve(files, p)
  OBVIOUS
<1>2. k \in Existing(files) \cup {None} /\ Sound(files)
  BY <1>1, ResolveExists DEF FsInv
<1>3. /\ k \notin {None, ROOT_IDX} /\ ~ files[k].is_dir /\ op' = op
      /\ files' = [files EXCEPT ![k] = Empty]
  BY <1>1 DEF Delete
<1>4. k \in Slots \ {ROOT_IDX} /\ k \notin Directories(files) /\ k \in Existing(files)
  BY <1>2, <1>3 DEF Directories, Existing
<1>5. \A j \in Existing(files) : files[j].parent # k
  BY <1>2, <1>4, FilesHaveNoChildren
<1>6. Sound(files')
  BY <1>2, <1>3, <1>4, <1>5, RemovedSound
<1>7. QED  BY <1>3, <1>6, IdleCurrent DEF FsInv

\* A command begins an operation, on a path that may be any.
LEMMA BeginIs ==
    ASSUME NEW kind \in {"mkdir", "create", "rename"}, NEW cmd, NEW p \in Seq(Names),
           NEW node \in Slots \cup {None}, NEW writes \in Texts, Begin(kind, cmd, p, node, writes),
           Sound(files), kind = "rename" => Movable(files, node)
    PROVE  Current(files, op')
<1>1. op' = OpOf(kind, cmd, p, 0, ROOT_IDX, node, writes)
  BY DEF Begin, OpOf
<1>2. /\ op'.kind = kind /\ op'.cmd = cmd /\ op'.path = p /\ op'.at = 0
      /\ op'.dir = ROOT_IDX /\ op'.node = node /\ op'.writes = writes
  BY <1>1 DEF OpOf
<1>3. IsOp(op')
  <2>1. op' = OpOf(op'.kind, op'.cmd, op'.path, op'.at, op'.dir, op'.node, op'.writes)
    BY <1>1, <1>2
  <2>2. op'.kind \in Kinds /\ op'.at \in Nat
    BY <1>2 DEF Kinds
  <2>3. op'.dir \in Slots /\ op'.node \in Slots \cup {None}
    BY <1>2, SlotsAre
  <2>4. op'.path \in Seq(Names) /\ op'.writes \in Texts
    BY <1>2
  <2>5. QED  BY <2>1, <2>2, <2>3, <2>4 DEF IsOp
<1>4. ROOT_IDX \in Directories(files)
  BY DEF Sound, Shape
<1>5. QED  BY <1>2, <1>3, <1>4 DEF Current

LEMMA NoTexts == <<>> \in Texts
BY DEF Texts

LEMMA MkdirBegins ==
    ASSUME FsInv, NEW p \in Seq(Names), Begin("mkdir", "mkdir", p, None, <<>>), files' = files
    PROVE  FsInv'
<1>1. Sound(files)
  BY DEF FsInv
<1>2. Current(files, op')
  BY <1>1, NoTexts, BeginIs
<1>3. QED  BY <1>1, <1>2 DEF FsInv

LEMMA RenameBegins ==
    ASSUME FsInv, NEW p \in Seq(Names), NEW q \in Seq(Names), BeginRename(p, q)
    PROVE  FsInv'
<1>1. PICK k : k = Resolve(files, p)
  OBVIOUS
<1>2. k \in Existing(files) \cup {None} /\ Sound(files)
  BY <1>1, ResolveExists DEF FsInv
<1>3. k \notin {None, ROOT_IDX} /\ files' = files /\ Begin("rename", "mv", q, k, <<>>)
  BY <1>1 DEF BeginRename
<1>4. k \in Slots \cup {None} /\ Movable(files, k)
  BY <1>2, <1>3 DEF Movable, Existing
<1>5. Current(files, op')
  BY <1>2, <1>3, <1>4, NoTexts, BeginIs
<1>6. QED  BY <1>2, <1>3, <1>5 DEF FsInv

\* What is read has the size that the node says.
LEMMA CatIs ==
    ASSUME Sound(files), NEW p \in Seq(Names), NEW text \in Cat(p)
    PROVE  text \in Seq(Bytes) /\ Find(p) \in Slots /\ Len(text) = files[Find(p)].size
<1>1. PICK k : k = Find(p)
  OBVIOUS
<1>2. ~ (IsDir(k) \/ SizeOf(k) = 0) /\ text \in Reads(k)
  BY <1>1 DEF Cat
<1>3. k # None /\ ~ files[k].is_dir /\ files[k].size # 0
  BY <1>2 DEF IsDir, SizeOf
<1>4. k \in Slots
  <2>1. k = Resolve(files, p)
    BY <1>1, <1>3 DEF Find
  <2>2. QED  BY <1>3, <2>1, ResolveExists DEF Existing
<1>5. SizeIs(files[k])
  BY <1>4, NodeFields
<1>6. files[k].data \in Seq(Bytes) /\ Len(files[k].data) = files[k].size /\ files[k].data # NULL
  BY <1>3, <1>5, FsSizes DEF SizeIs
<1>7. text = files[k].data
  BY <1>2, <1>6 DEF Reads
<1>8. QED  BY <1>1, <1>4, <1>6, <1>7

(***************************************************************************)
(* The commands.                                                           *)
(***************************************************************************)
ShellInv == FsInv /\ cwd \in Seq(Names)

LEMMA JoinIs == ASSUME ShellInv, NEW a \in Args  PROVE Join(a) \in Seq(Names)
<1>1. cwd \in Seq(Names) /\ a.comps \in Seq(Names)
  BY ArgsAreNames DEF ShellInv
<1>2. cwd \o a.comps \in Seq(Names)
  BY <1>1, ConcatProperties
<1>3. QED  BY <1>1, <1>2 DEF Join

LEMMA OneText == ASSUME NEW S, NEW x \in S  PROVE <<x>> \in Seq(S)
OBVIOUS

LEMMA PromptIs == ASSUME NEW cmd, Prompt(cmd)  PROVE op = Idle /\ cmd \in Commands
BY DEF Prompt, Busy

LEMMA CommandKeeps ==
    ASSUME ShellInv, NEW a \in Args, CmdMkdir(a) \/ CmdRmdir(a) \/ CmdDel(a) \/ CmdCd(a)
    PROVE  ShellInv'
<1>1. PICK p \in Seq(Names) : p = Join(a)
  BY JoinIs
<1>2. FsInv /\ cwd \in Seq(Names)
  BY DEF ShellInv
<1>3. CASE CmdMkdir(a)
  <2>1. Begin("mkdir", "mkdir", p, None, <<>>) /\ files' = files /\ cwd' = cwd
    BY <1>1, <1>3 DEF CmdMkdir
  <2>2. FsInv'
    BY <1>2, <2>1, MkdirBegins
  <2>3. QED  BY <1>2, <2>1, <2>2 DEF ShellInv
<1>4. CASE CmdRmdir(a)
  <2>1. op = Idle /\ Rmdir(p) /\ cwd' = cwd
    BY <1>1, <1>4, PromptIs DEF CmdRmdir
  <2>2. FsInv'
    BY <1>2, <2>1, RmdirKeeps
  <2>3. QED  BY <1>2, <2>1, <2>2 DEF ShellInv
<1>5. CASE CmdDel(a)
  <2>1. op = Idle /\ Delete(p) /\ cwd' = cwd
    BY <1>1, <1>5, PromptIs DEF CmdDel
  <2>2. FsInv'
    BY <1>2, <2>1, DeleteKeeps
  <2>3. QED  BY <1>2, <2>1, <2>2 DEF ShellInv
<1>6. CASE CmdCd(a)
  <2>1. cwd' = p /\ files' = files /\ op' = op
    BY <1>1, <1>6 DEF CmdCd
  <2>2. QED  BY <1>2, <2>1 DEF ShellInv, FsInv
<1>7. QED  BY <1>3, <1>4, <1>5, <1>6

LEMMA TwoPathsKeep ==
    ASSUME ShellInv, NEW a \in Args, NEW b \in Args, CmdRen(a, b) \/ CmdCopy(a, b)
    PROVE  ShellInv'
<1>1. PICK p \in Seq(Names) : p = Join(a)
  BY JoinIs
<1>2. PICK q \in Seq(Names) : q = Join(b)
  BY JoinIs
<1>3. FsInv /\ cwd \in Seq(Names) /\ Sound(files)
  BY DEF ShellInv, FsInv
<1>4. CASE CmdRen(a, b)
  <2>1. BeginRename(p, q) /\ cwd' = cwd
    BY <1>1, <1>2, <1>4 DEF CmdRen
  <2>2. FsInv'
    BY <1>3, <2>1, RenameBegins
  <2>3. QED  BY <1>3, <2>1, <2>2 DEF ShellInv
<1>5. CASE CmdCopy(a, b)
  <2>1. PICK text \in Cat(p) : Begin("create", "cp", q, None, <<text>>)
    BY <1>1, <1>2, <1>5 DEF CmdCopy
  <2>2. files' = files /\ cwd' = cwd
    BY <1>5 DEF CmdCopy
  <2>3. text \in Seq(Bytes)
    BY <1>3, CatIs
  <2>4. PICK writes \in Texts : writes = <<text>>
    BY <2>3, OneText DEF Texts
  <2>5. Begin("create", "cp", q, None, writes)
    BY <2>1, <2>4
  <2>6. Current(files, op')
    BY <1>3, <2>5, BeginIs
  <2>7. QED  BY <1>3, <2>2, <2>6 DEF ShellInv, FsInv
<1>6. QED  BY <1>4, <1>5

\* What is made at boot: any number of programs in the root, then a directory
\* and a file in it.
LEMMA BootTextIs ==
    ASSUME NEW d \in Slots, NEW t \in BootTexts, NEW v, v = TextFile(d, t)
    PROVE  Fresh(v, d, t.name) /\ ~ v.is_dir
<1>1. t.name \in Names /\ \E n \in 1 .. MAX_FILE_SIZE : t.text \in [1 .. n -> Bytes]
  BY DEF BootTexts
<1>2. t.text \in Seq(Bytes) /\ Len(t.text) \in Nat
  BY <1>1, FsSizes
<1>3. PICK u, size, data : u = Entry(FALSE, d, t.name) /\ size = Len(t.text) /\ data = t.text
  OBVIOUS
<1>4. Fresh(u, d, t.name) /\ ~ u.is_dir
  BY <1>1, <1>3, NewFileIs
<1>5. v = [u EXCEPT !.size = size, !.data = data]
  BY <1>3 DEF TextFile
<1>6. QED  BY <1>2, <1>3, <1>4, <1>5 DEF Fresh, Node, SizeIs

LEMMA RootIs ==
    ASSUME NEW root, root = RootNode
    PROVE  /\ root \in Node /\ root.exists /\ root.is_dir /\ root.parent = None
           /\ SizeIs(root)
<1>1. PICK b \in BOOLEAN : b = TRUE
  OBVIOUS
<1>2. root = [exists |-> b, is_dir |-> b, parent |-> None, name |-> Root, size |-> 0, data |-> NULL]
  BY <1>1, Zenon DEF RootNode, Entry, Empty
<1>3. root \in Node /\ root.exists /\ root.is_dir /\ root.parent = None
  BY <1>1, <1>2 DEF Node
<1>4. root.data = NULL /\ root.size = 0
  BY <1>2
<1>5. QED  BY <1>3, <1>4 DEF SizeIs

LEMMA EmptyIs ==
    ASSUME NEW e, e = Empty
    PROVE  e \in Node /\ ~ e.exists /\ SizeIs(e)
<1>1. PICK b \in BOOLEAN : b = FALSE
  OBVIOUS
<1>2. e = [exists |-> b, is_dir |-> b, parent |-> ROOT_IDX, name |-> Root, size |-> 0,
           data |-> NULL]
  BY <1>1, Zenon DEF Empty
<1>3. QED  BY <1>1, <1>2, SlotsAre DEF Node, SizeIs

LEMMA BootSound == Sound(BootFiles)
<1>1. PICK f, n, root, dir :
         /\ f = BootFiles /\ n = Len(BootPrograms)
         /\ root = RootNode /\ dir = Entry(TRUE, 0, BootDir)
  OBVIOUS
<1>2. /\ n \in Nat /\ n + 2 \in Slots /\ BootDir \in Names /\ BootIndex \in BootTexts
      /\ \A i \in 1 .. n : /\ BootPrograms[i] \in BootTexts /\ BootPrograms[i].name # BootDir
                           /\ \A j \in 1 .. n :
                                 BootPrograms[i].name = BootPrograms[j].name => i = j
  <2>1. MAX_FILES \in Nat /\ BootPrograms \in Seq(BootTexts)
    BY FsSizes, BootIsMade
  <2>2. n \in Nat /\ DOMAIN BootPrograms = 1 .. n /\ \A i \in 1 .. n : BootPrograms[i] \in BootTexts
    BY <1>1, <2>1
  <2>3. n + 2 \in Slots
    BY <1>1, <2>1, <2>2, BootIsMade DEF Slots
  <2>4. QED  BY <2>2, <2>3, BootIsMade
<1>3. 1 .. n \subseteq Slots /\ n + 1 \in Slots /\ 0 \in Slots
  BY <1>2, FsSizes DEF Slots
<1>4. /\ f[0] = root
      /\ \A i \in 1 .. n : f[i] = TextFile(0, BootPrograms[i])
      /\ f[n + 1] = dir
      /\ f[n + 2] = TextFile(n + 1, BootIndex)
      /\ \A i \in Slots \ (0 .. n + 2) : f[i] = Empty
  <2>1. \A i \in Slots : f[i] = BootNode(i)
    BY <1>1 DEF BootFiles
  <2>2. f[0] = root
    <3>1. 0 \notin 1 .. n /\ 0 # n + 1 /\ 0 # n + 2
      BY <1>2
    <3>2. BootNode(0) = root
      BY <1>1, <3>1, Zenon DEF BootNode, ROOT_IDX
    <3>3. QED  BY <1>3, <2>1, <3>2
  <2>3. ASSUME NEW i \in 1 .. n  PROVE f[i] = TextFile(0, BootPrograms[i])
    <3>1. i # 0 /\ i # n + 1 /\ i # n + 2
      BY <1>2
    <3>2. BootNode(i) = TextFile(ROOT_IDX, BootPrograms[i])
      BY <1>1, <2>3, <3>1, Zenon DEF BootNode, ROOT_IDX
    <3>3. QED  BY <1>3, <2>1, <3>2 DEF ROOT_IDX
  <2>4. f[n + 1] = dir
    <3>1. n + 1 # 0 /\ n + 1 \notin 1 .. n /\ n + 1 # n + 2
      BY <1>2
    <3>2. BootNode(n + 1) = dir
      BY <1>1, <3>1, Zenon DEF BootNode, ROOT_IDX
    <3>3. QED  BY <1>3, <2>1, <3>2
  <2>5. f[n + 2] = TextFile(n + 1, BootIndex)
    <3>1. n + 2 # 0 /\ n + 2 \notin 1 .. n /\ n + 2 # n + 1
      BY <1>2
    <3>2. BootNode(n + 2) = TextFile(n + 1, BootIndex)
      BY <1>1, <3>1, Zenon DEF BootNode, ROOT_IDX
    <3>3. QED  BY <1>2, <2>1, <3>2
  <2>6. ASSUME NEW i \in Slots \ (0 .. n + 2)  PROVE f[i] = Empty
    <3>1. i # 0 /\ i \notin 1 .. n /\ i # n + 1 /\ i # n + 2
      BY <1>2, <2>6
    <3>2. BootNode(i) = Empty
      BY <1>1, <3>1, Zenon DEF BootNode, ROOT_IDX
    <3>3. QED  BY <2>1, <3>2
  <2>7. QED  BY <2>2, <2>3, <2>4, <2>5, <2>6
<1>5. /\ f[0] \in Node /\ f[0].exists /\ f[0].is_dir /\ f[0].parent = None /\ SizeIs(f[0])
  BY <1>1, <1>4, RootIs
<1>6. \A i \in 1 .. n : Fresh(f[i], 0, BootPrograms[i].name)
  BY <1>2, <1>3, <1>4, BootTextIs
<1>7. Fresh(f[n + 1], 0, BootDir) /\ f[n + 1].is_dir
  BY <1>1, <1>2, <1>3, <1>4, NewDirIs
<1>8. Fresh(f[n + 2], n + 1, BootIndex.name)
  BY <1>2, <1>3, <1>4, BootTextIs
<1>9. \A i \in Slots \ (0 .. n + 2) : f[i] \in Node /\ ~ f[i].exists /\ SizeIs(f[i])
  BY <1>4, EmptyIs
<1>10. \A i \in Slots : i = 0 \/ i \in 1 .. n \/ i = n + 1 \/ i = n + 2 \/ i \in Slots \ (0 .. n + 2)
  BY <1>2 DEF Slots
<1>11. Existing(f) = 0 .. n + 2
  <2>1. ASSUME NEW i \in 0 .. n + 2  PROVE i \in Existing(f)
    <3>1. i = 0 \/ i \in 1 .. n \/ i = n + 1 \/ i = n + 2
      BY <1>2
    <3>2. QED  BY <1>2, <1>3, <1>5, <1>6, <1>7, <1>8, <3>1 DEF Existing, Fresh
  <2>2. QED  BY <1>9, <2>1 DEF Existing
<1>12. f \in Arrays /\ \A i \in Slots : SizeIs(f[i])
  <2>1. \A i \in Slots : f[i] \in Node /\ SizeIs(f[i])
    BY <1>5, <1>6, <1>7, <1>8, <1>9, <1>10 DEF Fresh
  <2>2. f = [i \in Slots |-> f[i]]
    BY <1>1 DEF BootFiles
  <2>3. QED  BY <2>1, <2>2 DEF Arrays
<1>13. NamesApart(f)
  <2> SUFFICES ASSUME NEW i \in 0 .. n + 2, NEW j \in 0 .. n + 2,
                      f[i].parent = f[j].parent, f[i].parent # None, f[i].name = f[j].name
               PROVE  i = j
    BY <1>11 DEF NamesApart
  <2>1. i # 0 /\ j # 0
    BY <1>5
  <2>2. CASE i = n + 2 \/ j = n + 2
    <3>1. \A k \in 1 .. n + 1 : f[k].parent = 0
      BY <1>2, <1>6, <1>7 DEF Fresh
    <3>2. f[n + 2].parent = n + 1 /\ n + 1 # 0
      BY <1>2, <1>8 DEF Fresh
    <3>3. \A k \in 0 .. n + 2 : k # 0 /\ k # n + 2 => k \in 1 .. n + 1
      BY <1>2
    <3>4. QED  BY <2>1, <2>2, <3>1, <3>2, <3>3
  <2>3. CASE i # n + 2 /\ j # n + 2
    <3>1. /\ i \in 1 .. n \/ i = n + 1
          /\ j \in 1 .. n \/ j = n + 1
      BY <1>2, <2>1, <2>3
    <3>2. f[n + 1].name = BootDir /\ \A k \in 1 .. n : f[k].name = BootPrograms[k].name
      BY <1>6, <1>7 DEF Fresh
    <3>3. QED  BY <1>2, <3>1, <3>2
  <2>4. QED  BY <2>2, <2>3
<1>14. Shape(f)
  <2>1. 0 \in Directories(f) /\ n + 1 \in Directories(f)
    BY <1>2, <1>5, <1>7, <1>11 DEF Directories
  <2>2. ASSUME NEW i \in 0 .. n + 2, i # 0  PROVE f[i].parent \in Directories(f)
    <3>1. i \in 1 .. n \/ i = n + 1 \/ i = n + 2
      BY <1>2, <2>2
    <3>2. QED  BY <1>6, <1>7, <1>8, <2>1, <3>1 DEF Fresh
  <2>3. QED  BY <1>5, <1>11, <2>1, <2>2 DEF Shape, ROOT_IDX
<1>15. QED  BY <1>1, <1>12, <1>13, <1>14 DEF Sound

LEMMA NextKeeps ==
    ASSUME "load" \notin Commands, ShellInv, [Next]_vars
    PROVE  ShellInv'
<1>1. CASE UNCHANGED vars
  BY <1>1 DEF vars, fsVars, ShellInv, FsInv
<1>2. CASE \E a \in Args : CmdMkdir(a) \/ CmdRmdir(a) \/ CmdDel(a) \/ CmdCd(a)
  BY <1>2, CommandKeeps
<1>3. CASE \E a, b \in Args : CmdRen(a, b) \/ CmdCopy(a, b)
  BY <1>3, TwoPathsKeep
<1>4. CASE CmdCdUp
  <2>1. files' = files /\ op' = op /\ cwd # <<>> /\ cwd' = Front(cwd)
    BY <1>4 DEF CmdCdUp
  <2>2. cwd' \in Seq(Names)
    <3>1. SubSeq(cwd, 1, Len(cwd) - 1) \in Seq(Names)
      BY DEF ShellInv
    <3>2. QED  BY <2>1, <3>1 DEF Front
  <2>3. QED  BY <2>1, <2>2 DEF ShellInv, FsInv
<1>5. CASE Operation
  BY <1>5, OpStepKeeps DEF Operation, ShellInv
<1>6. CASE CmdSave \/ SaveSector
  <2>1. files' = files /\ op' = op /\ cwd' = cwd
    BY <1>6 DEF CmdSave, SaveSector, BeginSave, WriteSector, fsVars
  <2>2. QED  BY <2>1 DEF ShellInv, FsInv
<1>7. CASE CmdLoad
  BY <1>7 DEF CmdLoad, Prompt
<1>8. CASE Crash
  <2>1. files' = BootFiles /\ op' = Idle /\ cwd' = <<>>
    BY <1>8 DEF Crash
  <2>2. QED  BY <2>1, BootSound, IdleCurrent DEF ShellInv, FsInv
<1>9. QED
  BY <1>1, <1>2, <1>3, <1>4, <1>5, <1>6, <1>7, <1>8 DEF Next

\* An entry that ls lists is the one that its name leads to.
LEMMA ListedIs ==
    ASSUME ShellInv, NEW p \in Seq(Names), NEW i \in List(p, LS_MAX)
    PROVE  /\ i \in Existing(files)
           /\ Find(Append(p, files[i].name)) = i
<1>1. PICK d : d = Resolve(files, p)
  OBVIOUS
<1>2. IsDir(d) /\ i \in Children(files, d)
  BY <1>1 DEF List
<1>3. i \in Existing(files) /\ files[i].parent = d /\ d # None
  BY <1>2 DEF Children, IsDir
<1>4. PICK name : name = files[i].name
  OBVIOUS
<1>5. Resolve(files, Append(p, name)) = FindChild(files, d, name)
  BY <1>1, <1>3, ResolveChild DEF Child
<1>6. PICK j : j = FindChild(files, d, name)
  OBVIOUS
<1>7. ChildOf(files, d, name, i) /\ i \in Slots
  BY <1>3, <1>4 DEF ChildOf, Existing
<1>8. j \in Slots /\ ChildOf(files, d, name, j)
  BY <1>6, <1>7, FindChildIs
<1>9. i = j
  BY <1>3, <1>7, <1>8 DEF ShellInv, FsInv, Sound, NamesApart, ChildOf
<1>10. i # None /\ files[i].exists
  BY <1>7, SlotsAre DEF ChildOf, Existing
<1>11. QED  BY <1>3, <1>4, <1>5, <1>6, <1>9, <1>10 DEF Find

(* Whatever is made, renamed, copied and removed, through whatever paths,  *)
(* with the disk written or failing and the power failing, what ls lists   *)
(* is what fs_resolve finds by that name, and as long as was listed.  An   *)
(* image that fs_load reads half may hold anything; it is left out.        *)
THEOREM EntriesOpen ==
    ASSUME "load" \notin Commands
    PROVE  Spec => []ListedEntriesOpen
<1>1. Init => ShellInv
  BY BootSound, IdleCurrent DEF Init, ShellInv, FsInv
<1>2. ShellInv /\ [Next]_vars => ShellInv'
  BY NextKeeps
<1>3. ShellInv => ListedEntriesOpen
  <2> SUFFICES ASSUME ShellInv, NEW p \in Paths, NEW entry \in Ls(p)
               PROVE  LET q == Append(p, entry.name) IN
                      IF entry.dir THEN IsDir(Find(q))
                      ELSE /\ Find(q) # None /\ ~IsDir(Find(q))
                           /\ entry.size = 0 <=> Cat(q) = {}
                           /\ \A text \in Cat(q) : Len(text) = entry.size
    BY DEF ListedEntriesOpen
  <2>1. p \in Seq(Names)
    BY DEF Paths
  <2>2. PICK i \in List(p, LS_MAX) :
           entry = [name |-> files[i].name, dir |-> IsDir(i), size |-> SizeOf(i)]
    BY DEF Ls
  <2>3. PICK q : q = Append(p, entry.name)
    OBVIOUS
  <2>4. Find(q) = i /\ i \in Existing(files) /\ i \in Slots /\ i # None
    BY <2>1, <2>2, <2>3, ListedIs, SlotsAre DEF Existing
  <2>5. entry.dir <=> IsDir(i)
    BY <2>2
  <2>6. entry.size = SizeOf(i)
    BY <2>2
  <2>7. SizeIs(files[i])
    BY <2>4, NodeFields DEF ShellInv, FsInv
  <2>8. ASSUME ~ IsDir(i)
        PROVE  /\ entry.size = 0 <=> Cat(q) = {}
               /\ \A text \in Cat(q) : Len(text) = entry.size
    <3>1. entry.size = files[i].size
      BY <2>4, <2>6, <2>8 DEF SizeOf, IsDir
    <3>2. Cat(q) = IF files[i].size = 0 THEN {} ELSE Reads(i)
      BY <2>4, <2>6, <2>8, <3>1 DEF Cat
    <3>3. CASE files[i].size = 0
      BY <3>1, <3>2, <3>3
    <3>4. CASE files[i].size # 0
      <4>1. files[i].data \in Seq(Bytes) /\ Len(files[i].data) = files[i].size /\ files[i].data # NULL
        BY <2>7, <3>4, FsSizes DEF SizeIs
      <4>2. Reads(i) = {files[i].data}
        BY <4>1 DEF Reads
      <4>3. QED  BY <3>1, <3>2, <3>4, <4>1, <4>2
    <3>5. QED  BY <3>3, <3>4
  <2>9. QED  BY <2>3, <2>4, <2>5, <2>8
<1>4. QED  BY <1>1, <1>2, <1>3, PTL DEF Spec
==============================================================================
