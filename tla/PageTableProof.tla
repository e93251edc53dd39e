--------------------------- MODULE PageTableProof ---------------------------
(***************************************************************************)
(* Proofs about the page tables, for any size of the tables, any memory    *)
(* and any order of the calls.                                             *)
(***************************************************************************)
EXTENDS PageTable, FiniteSetTheorems, WellFoundedInduction, TLAPS

-----------------------------------------------------------------------------
(* Arithmetic: the three parts of an index.                                *)

\* A quotient is the only number that leaves a remainder in range.
LEMMA DivIs ==
  ASSUME NEW x \in Nat, NEW n \in Nat \ {0}, NEW q \in Nat, NEW r \in 0 .. n - 1, x = n * q + r
  PROVE  x \div n = q /\ x % n = r
<1>1. PICK d \in Nat, m \in 0 .. n - 1 : d = x \div n /\ m = x % n /\ x = n * d + m
  OBVIOUS
<1>2. n * (d - q) = r - m
  <2>1. n * (d - q) = n * d - n * q
    OBVIOUS
  <2>2. QED
    BY <1>1, <2>1
<1>3. d - q >= 1 => n * (d - q) >= n
  OBVIOUS
<1>4. d - q <= -1 => n * (d - q) <= -n
  OBVIOUS
<1>5. d = q
  BY <1>2, <1>3, <1>4
<1>6. QED
  BY <1>1, <1>5

LEMMA DivBounds ==
  ASSUME NEW x \in Nat, NEW n \in Nat \ {0}
  PROVE  x = n * (x \div n) + (x % n) /\ x \div n \in Nat /\ x % n \in 0 .. n - 1
  OBVIOUS

\* A number below a product divides to one below the other factor.
LEMMA DivBelow ==
  ASSUME NEW x \in Nat, NEW n \in Nat \ {0}, NEW k \in Nat, x < k * n
  PROVE  x \div n < k
<1>1. PICK d \in Nat, m \in 0 .. n - 1 : d = x \div n /\ x = n * d + m
  BY DivBounds
<1>2. d >= k => n * d >= n * k
  OBVIOUS
<1>3. n * k = k * n
  OBVIOUS
<1>4. QED
  BY <1>1, <1>2, <1>3

\* Entries of the three levels.
Top == 0 .. NPdpe - 1
Mid == 0 .. NPdp - 1
Low == 0 .. NPte - 1

\* The parts of an index are entries of their level; together they are it.
LEMMA Parts ==
  ASSUME NEW v \in VPages
  PROVE  /\ v \in Nat /\ v \div NPte \in 0 .. NPdpe * NPdp - 1
         /\ PdpeOff(v) \in Top /\ PdpOff(v) \in Mid /\ PteOff(v) \in Low
         /\ v = NPte * (v \div NPte) + PteOff(v)
         /\ v \div NPte = NPdp * PdpeOff(v) + PdpOff(v)
         /\ (v \div NPte) \div NPdp = PdpeOff(v)
<1> USE TableAssumption
<1>1. v \in Nat /\ v < NPdpe * NPdp * NPte
  <2>1. NPdpe * NPdp * NPte \in Nat
    OBVIOUS
  <2>2. QED
    BY <2>1 DEF VPages
<1>2. PICK d \in Nat, k \in Low : d = v \div NPte /\ k = v % NPte /\ v = NPte * d + k
  <2>1. v = NPte * (v \div NPte) + (v % NPte) /\ v \div NPte \in Nat /\ v % NPte \in Low
    BY <1>1, DivBounds DEF Low
  <2>2. QED
    BY <2>1
<1>3. d < NPdpe * NPdp
  <2>1. NPdpe * NPdp \in Nat
    OBVIOUS
  <2>2. QED
    BY <1>1, <1>2, <2>1, DivBelow
<1>4. PICK i \in Nat, j \in Mid : i = d \div NPdp /\ j = d % NPdp /\ d = NPdp * i + j
  <2>1. d = NPdp * (d \div NPdp) + (d % NPdp) /\ d \div NPdp \in Nat /\ d % NPdp \in Mid
    BY DivBounds DEF Mid
  <2>2. QED
    BY <2>1
<1>5. i < NPdpe
  BY <1>3, <1>4, DivBelow
<1>6. v \div (NPdp * NPte) = i
  <2>1. NPdp * NPte \in Nat \ {0}
    OBVIOUS
  <2>2. v = (NPdp * NPte) * i + (NPte * j + k)
    <3>1. NPte * d = NPte * (NPdp * i) + NPte * j
      BY <1>4 DEF Mid
    <3>2. NPte * (NPdp * i) = (NPdp * NPte) * i
      OBVIOUS
    <3> DEFINE a == NPte * d  b == NPte * (NPdp * i)  c == NPte * j  e == (NPdp * NPte) * i
    <3>3. a \in Int /\ b \in Int /\ c \in Int /\ e \in Int /\ k \in Int
      BY DEF Low, Mid
    <3> HIDE DEF a, b, c, e
    <3>4. v = a + k /\ a = b + c /\ b = e => v = e + (c + k)
      BY <3>3
    <3>5. QED
      BY <1>2, <3>1, <3>2, <3>4 DEF a, b, c, e
  <2>3. NPte * j + k \in 0 .. NPdp * NPte - 1
    <3>1. NPte * j <= NPte * (NPdp - 1)
      BY DEF Mid
    <3>2. NPte * (NPdp - 1) = NPdp * NPte - NPte
      OBVIOUS
    <3>3. NPte * j >= 0 /\ NPte * j \in Int
      BY DEF Mid
    <3>4. k >= 0 /\ k <= NPte - 1 /\ k \in Int
      BY DEF Low
    <3> DEFINE c == NPte * j  m == NPdp * NPte
    <3>5. m \in Int /\ c \in Int
      BY <3>3
    <3> HIDE DEF c, m
    <3>6. c <= m - NPte /\ c >= 0
      BY <3>1, <3>2, <3>3 DEF c, m
    <3>7. c + k \in 0 .. m - 1
      BY <3>4, <3>5, <3>6
    <3>8. QED
      BY <3>7 DEF c, m
  <2>4. QED
    BY <1>1, <2>1, <2>2, <2>3, DivIs
<1>7. PdpeOff(v) = i /\ PdpOff(v) = j /\ PteOff(v) = k
  BY <1>2, <1>4, <1>6 DEF PdpeOff, PdpOff, PteOff
<1>8. v \div NPte \in 0 .. NPdpe * NPdp - 1
  <2>1. NPdpe * NPdp \in Nat
    OBVIOUS
  <2>2. QED
    BY <1>2, <1>3, <2>1
<1>9. QED
  BY <1>1, <1>2, <1>4, <1>5, <1>7, <1>8 DEF Top

\* No two pages have the same parts.
LEMMA PartsApart ==
  ASSUME NEW v \in VPages, NEW w \in VPages,
         PdpeOff(v) = PdpeOff(w), PdpOff(v) = PdpOff(w), PteOff(v) = PteOff(w)
  PROVE  v = w
  BY Parts

-----------------------------------------------------------------------------
(* The allocator.                                                          *)

\* A non-empty set of numbers has a least element.
LEMMA LeastOf ==
  ASSUME NEW T \in SUBSET Nat, T # {} PROVE \E x \in T : \A y \in T : x <= y
<1> DEFINE Less == {ss \in Nat \X Nat : ss[1] < ss[2]}
<1>1. IsWellFoundedOn(Less, Nat)
  BY NatLessThanWellFounded DEF OpToRel
<1> HIDE DEF Less
<1>2. PICK x \in T : \A y \in T : ~ (<<y, x>> \in Less)
  BY <1>1, WFMin
<1>3. ASSUME NEW y \in T, y < x PROVE FALSE
  <2> DEFINE yx == <<y, x>>
  <2>1. yx \in Nat \X Nat /\ yx[1] = y /\ yx[2] = x
    OBVIOUS
  <2> HIDE DEF yx
  <2>2. yx \in Less
    BY <1>3, <2>1 DEF Less
  <2>3. QED
    BY <1>2, <2>2 DEF yx
<1>4. QED
  BY <1>3

\* Frames are numbers between the two limits.
LEMMA FramesFinite == IsFiniteSet(Frames) /\ \E b \in Int : Frames \subseteq {x \in Int : x <= b}
<1> DEFINE a == PageUp(Base)  b == PageDown(Limit) - 1
<1>1. a \in Int /\ b \in Int
  BY MemoryAssumption DEF PageUp, PageDown
<1>2. Frames \subseteq a .. b
  BY DEF Frames, RangePages
<1> HIDE DEF a, b
<1>3. IsFiniteSet(Frames)
  BY <1>1, <1>2, FS_Interval, FS_Subset
<1>4. QED
  BY <1>1, <1>2, <1>3

\* allocate_page gives a free frame when there is one.
LEMMA MaxIn == ASSUME NEW S \in SUBSET Frames, S # {} PROVE Max(S) \in S
<1>1. PICK b \in Int : Frames \subseteq {x \in Int : x <= b}
  BY FramesFinite
<1> DEFINE T == {b - x : x \in S}
<1>2. T \in SUBSET Nat /\ T # {}
  <2>1. \A x \in S : b - x \in Nat
    BY <1>1
  <2>2. QED
    BY <2>1
<1>3. PICK y \in T : \A z \in T : y <= z
  BY <1>2, LeastOf
<1>4. PICK x \in S : y = b - x
  BY <1>3
<1>5. \A z \in S : x >= z
  BY <1>1, <1>3, <1>4
<1>6. QED
  BY <1>5 DEF Max

LEMMA TakeOne == ASSUME NEW S \in SUBSET Frames, Cardinality(S) >= 1 PROVE S # {}
  BY FS_EmptySet

LEMMA TakeTwo ==
  ASSUME NEW S \in SUBSET Frames, Cardinality(S) >= 2, NEW x PROVE S \ {x} # {}
<1>1. IsFiniteSet(S)
  BY FramesFinite, FS_Subset
<1>2. Cardinality(S) \in Nat /\ IsFiniteSet(S \ {x}) /\ Cardinality(S \ {x}) >= Cardinality(S) - 1
  BY <1>1, FS_CardinalityType, FS_RemoveElement
<1>3. QED
  BY <1>2, FS_EmptySet

-----------------------------------------------------------------------------
(* Tables that hold together.  Here p and t stand for pdpe_ and tables, fr  *)
(* for free_, before or after a step.                                      *)

HasDir(p, i)    == p[i].p
Dir(p, i)       == p[i].addr
HasTab(p, t, i, j) == HasDir(p, i) /\ t[Dir(p, i)][j].p
Tab(p, t, i, j)    == t[Dir(p, i)][j].addr
HasPage(p, t, i, j, k) == HasTab(p, t, i, j) /\ t[Tab(p, t, i, j)][k].p
Leaf(p, t, i, j, k)    == t[Tab(p, t, i, j)][k]

Typed(p, t, fr) ==
  /\ p \in [Top -> Records]
  /\ t = [f \in Frames |-> t[f]]
  /\ \A f \in Frames : t[f] \in {<< >>} \cup [Mid -> Records] \cup [Low -> Records]
  /\ fr \subseteq Frames

\* An entry of the top table refers to a frame of its own, which holds a table
\* of the second level with an entry; so do the entries of these.
Dirs(p, t, fr) ==
  \A i \in Top : HasDir(p, i) =>
    /\ Dir(p, i) \in Frames /\ Dir(p, i) \notin fr
    /\ t[Dir(p, i)] \in [Mid -> Records]
    /\ \E j \in Mid : HasTab(p, t, i, j)

Tabs(p, t, fr) ==
  \A i \in Top, j \in Mid : HasTab(p, t, i, j) =>
    /\ Tab(p, t, i, j) \in Frames /\ Tab(p, t, i, j) \notin fr
    /\ t[Tab(p, t, i, j)] \in [Low -> Records]
    /\ \E k \in Low : HasPage(p, t, i, j, k)

Apart(p, t) ==
  /\ \A i, x \in Top : HasDir(p, i) /\ HasDir(p, x) /\ Dir(p, i) = Dir(p, x) => i = x
  /\ \A i, x \in Top, j, y \in Mid :
       HasTab(p, t, i, j) /\ HasTab(p, t, x, y) /\ Tab(p, t, i, j) = Tab(p, t, x, y) => i = x /\ j = y
  /\ \A i, x \in Top, y \in Mid : HasDir(p, i) /\ HasTab(p, t, x, y) => Dir(p, i) # Tab(p, t, x, y)

\* What is mapped are pages that callers mapped.
Leaves(p, t) ==
  \A i \in Top, j \in Mid, k \in Low :
    HasPage(p, t, i, j, k) => Leaf(p, t, i, j, k).addr \in MapPages

\* No frame is lost.
Covered(p, t, fr) ==
  \A f \in Frames :
    \/ f \in fr
    \/ \E i \in Top : HasDir(p, i) /\ f = Dir(p, i)
    \/ \E i \in Top, j \in Mid : HasTab(p, t, i, j) /\ f = Tab(p, t, i, j)

Sound(p, t, fr) ==
  /\ Typed(p, t, fr) /\ Dirs(p, t, fr) /\ Tabs(p, t, fr)
  /\ Apart(p, t) /\ Leaves(p, t) /\ Covered(p, t, fr)

\* The entries along the way to page entry k are written, in pdp and pte.  The
\* tables are those that are there, or were taken from the allocator where they
\* are missing.
Found(p, t, fr, i, j, pdp, pte) ==
  /\ IF HasDir(p, i) THEN pdp = Dir(p, i) ELSE pdp \in fr
  /\ IF HasTab(p, t, i, j) THEN pte = Tab(p, t, i, j) ELSE pte \in fr \ {pdp}

Wrote(p, t, q, u, i, j, k, pdp, pte) ==
  /\ q \in [Top -> Records] /\ HasDir(q, i) /\ Dir(q, i) = pdp
  /\ \A x \in Top \ {i} : q[x] = p[x]
  /\ u = [f \in Frames |-> u[f]]
  /\ \A f \in Frames \ {pdp, pte} : u[f] = t[f]
  /\ u[pdp] \in [Mid -> Records] /\ u[pdp][j].p /\ u[pdp][j].addr = pte
  /\ \A y \in Mid \ {j} : IF HasDir(p, i) THEN u[pdp][y] = t[pdp][y] ELSE ~u[pdp][y].p
  /\ u[pte] \in [Low -> Records] /\ u[pte][k].p /\ u[pte][k].addr \in MapPages
  /\ \A z \in Low \ {k} : IF HasTab(p, t, i, j) THEN u[pte][z] = t[pte][z] ELSE ~u[pte][z].p

\* One entry is e, the others are as they were.
Gained(p, t, q, u, i, j, k, e) ==
  \A x \in Top, y \in Mid, z \in Low :
    /\ x = i /\ y = j /\ z = k => HasPage(q, u, x, y, z) /\ Leaf(q, u, x, y, z) = e
    /\ ~(x = i /\ y = j /\ z = k) =>
         /\ HasPage(q, u, x, y, z) <=> HasPage(p, t, x, y, z)
         /\ HasPage(p, t, x, y, z) => Leaf(q, u, x, y, z) = Leaf(p, t, x, y, z)

\* That is what map does, and everything that only changes an entry.
LEMMA Written ==
  ASSUME NEW p, NEW t, NEW fr, Sound(p, t, fr), NEW q, NEW u,
         NEW i \in Top, NEW j \in Mid, NEW k \in Low, NEW pdp, NEW pte,
         Found(p, t, fr, i, j, pdp, pte), Wrote(p, t, q, u, i, j, k, pdp, pte)
  PROVE  Sound(q, u, fr \ {pdp, pte}) /\ Gained(p, t, q, u, i, j, k, u[pte][k])
<1>1. /\ Typed(p, t, fr) /\ Dirs(p, t, fr) /\ Tabs(p, t, fr)
      /\ Apart(p, t) /\ Leaves(p, t) /\ Covered(p, t, fr)
  BY DEF Sound
<1>0. /\ IF HasDir(p, i) THEN pdp = Dir(p, i) ELSE pdp \in fr
      /\ IF HasTab(p, t, i, j) THEN pte = Tab(p, t, i, j) ELSE pte \in fr \ {pdp}
  BY DEF Found
<1>2. pdp \in Frames /\ pte \in Frames /\ pdp # pte
  <2>1. HasTab(p, t, i, j) => HasDir(p, i)
    BY DEF HasTab
  <2>2. CASE HasTab(p, t, i, j)
    BY <1>0, <1>1, <2>1, <2>2 DEF Dirs, Tabs, Apart
  <2>3. CASE HasDir(p, i) /\ ~HasTab(p, t, i, j)
    BY <1>0, <1>1, <2>3 DEF Dirs, Typed
  <2>4. CASE ~HasDir(p, i)
    BY <1>0, <1>1, <2>1, <2>4 DEF Typed
  <2>5. QED
    BY <2>2, <2>3, <2>4
<1>3. /\ u = [f \in Frames |-> u[f]]
      /\ \A f \in Frames \ {pdp, pte} : u[f] = t[f]
      /\ u[pdp] \in [Mid -> Records] /\ u[pdp][j].p /\ u[pdp][j].addr = pte
      /\ u[pte] \in [Low -> Records] /\ u[pte][k].p /\ u[pte][k].addr \in MapPages
  BY DEF Wrote
<1>4. /\ q \in [Top -> Records]
      /\ HasDir(q, i) /\ Dir(q, i) = pdp
      /\ \A x \in Top : x # i => /\ HasDir(q, x) <=> HasDir(p, x)
                                 /\ Dir(q, x) = Dir(p, x)
  BY DEF Wrote, HasDir, Dir
<1>5. ASSUME NEW x \in Top, HasDir(p, x), x # i
      PROVE  Dir(p, x) \in Frames /\ u[Dir(p, x)] = t[Dir(p, x)]
  <2>1. Dir(p, x) \in Frames /\ Dir(p, x) \notin fr
    BY <1>1, <1>5 DEF Dirs
  <2>2. Dir(p, x) # pdp
    BY <1>0, <1>1, <1>5, <2>1 DEF Apart
  <2>3. Dir(p, x) # pte
    BY <1>0, <1>1, <1>5, <2>1 DEF Apart
  <2>4. QED
    BY <1>3, <2>1, <2>2, <2>3
<1>6. ASSUME NEW x \in Top, NEW y \in Mid
      PROVE  /\ x = i /\ y = j => HasTab(q, u, x, y) /\ Tab(q, u, x, y) = pte
             /\ ~(x = i /\ y = j) =>
                  /\ HasTab(q, u, x, y) <=> HasTab(p, t, x, y)
                  /\ HasTab(p, t, x, y) => Tab(q, u, x, y) = Tab(p, t, x, y)
  <2>1. CASE x # i
    BY <1>4, <1>5, <2>1 DEF HasTab, Tab
  <2>2. CASE x = i /\ y = j
    BY <1>3, <1>4, <2>2 DEF HasTab, Tab
  <2>3. CASE x = i /\ y # j
    <3>1. IF HasDir(p, i) THEN u[pdp][y] = t[pdp][y] ELSE ~u[pdp][y].p
      BY <2>3 DEF Wrote
    <3>2. QED
      BY <1>0, <1>4, <2>3, <3>1 DEF HasTab, Tab
  <2>4. QED
    BY <2>1, <2>2, <2>3
<1>7. ASSUME NEW x \in Top, NEW y \in Mid, HasTab(p, t, x, y), ~(x = i /\ y = j)
      PROVE  /\ Tab(p, t, x, y) \in Frames /\ Tab(p, t, x, y) \notin {pdp, pte}
             /\ u[Tab(p, t, x, y)] = t[Tab(p, t, x, y)]
  <2>1. Tab(p, t, x, y) \in Frames /\ Tab(p, t, x, y) \notin fr
    BY <1>1, <1>7 DEF Tabs
  <2>2. Tab(p, t, x, y) # pdp
    BY <1>0, <1>1, <1>7, <2>1 DEF Apart
  <2>3. Tab(p, t, x, y) # pte
    BY <1>0, <1>1, <1>7, <2>1 DEF Apart
  <2>4. QED
    BY <1>3, <2>1, <2>2, <2>3
<1>8. ASSUME NEW x \in Top, NEW y \in Mid, NEW z \in Low
      PROVE  /\ x = i /\ y = j /\ z = k => HasPage(q, u, x, y, z) /\ Leaf(q, u, x, y, z) = u[pte][k]
             /\ ~(x = i /\ y = j /\ z = k) =>
                  /\ HasPage(q, u, x, y, z) <=> HasPage(p, t, x, y, z)
                  /\ HasPage(p, t, x, y, z) => Leaf(q, u, x, y, z) = Leaf(p, t, x, y, z)
  <2>1. CASE ~(x = i /\ y = j)
    BY <1>6, <1>7, <2>1 DEF HasPage, Leaf
  <2>2. CASE x = i /\ y = j /\ z = k
    BY <1>3, <1>6, <2>2 DEF HasPage, Leaf
  <2>3. CASE x = i /\ y = j /\ z # k
    <3>1. IF HasTab(p, t, i, j) THEN u[pte][z] = t[pte][z] ELSE ~u[pte][z].p
      BY <2>3 DEF Wrote
    <3>2. QED
      BY <1>0, <1>6, <2>3, <3>1 DEF HasPage, Leaf
  <2>4. QED
    BY <2>1, <2>2, <2>3
<1>9. Typed(q, u, fr \ {pdp, pte})
  <2>1. ASSUME NEW f \in Frames
        PROVE  u[f] \in {<< >>} \cup [Mid -> Records] \cup [Low -> Records]
    BY <1>1, <1>3 DEF Typed
  <2>2. QED
    BY <1>1, <1>3, <1>4, <2>1 DEF Typed
<1>10. Dirs(q, u, fr \ {pdp, pte})
  <2> SUFFICES ASSUME NEW x \in Top, HasDir(q, x)
               PROVE  /\ Dir(q, x) \in Frames /\ Dir(q, x) \notin fr \ {pdp, pte}
                      /\ u[Dir(q, x)] \in [Mid -> Records]
                      /\ \E y \in Mid : HasTab(q, u, x, y)
    BY DEF Dirs
  <2>1. CASE x = i
    BY <1>2, <1>3, <1>4, <1>6, <2>1
  <2>2. CASE x # i
    BY <1>1, <1>4, <1>5, <1>6, <2>2 DEF Dirs
  <2>3. QED
    BY <2>1, <2>2
<1>11. Tabs(q, u, fr \ {pdp, pte})
  <2> SUFFICES ASSUME NEW x \in Top, NEW y \in Mid, HasTab(q, u, x, y)
               PROVE  /\ Tab(q, u, x, y) \in Frames /\ Tab(q, u, x, y) \notin fr \ {pdp, pte}
                      /\ u[Tab(q, u, x, y)] \in [Low -> Records]
                      /\ \E z \in Low : HasPage(q, u, x, y, z)
    BY DEF Tabs
  <2>1. CASE x = i /\ y = j
    BY <1>2, <1>3, <1>6, <1>8, <2>1
  <2>2. CASE ~(x = i /\ y = j)
    <3>1. HasTab(p, t, x, y) /\ Tab(q, u, x, y) = Tab(p, t, x, y)
      BY <1>6, <2>2
    <3>2. QED
      BY <1>1, <1>7, <1>8, <2>2, <3>1 DEF Tabs
  <2>3. QED
    BY <2>1, <2>2
<1>12. Apart(q, u)
  <2>1. ASSUME NEW x \in Top, NEW y \in Top, HasDir(q, x), HasDir(q, y), Dir(q, x) = Dir(q, y)
        PROVE  x = y
    <3>1. \A w \in Top : HasDir(p, w) /\ w # i => Dir(p, w) # pdp
      BY <1>0, <1>1 DEF Dirs, Apart
    <3>2. QED
      BY <1>1, <1>4, <2>1, <3>1 DEF Apart
  <2>2. ASSUME NEW x \in Top, NEW xx \in Top, NEW y \in Mid, NEW yy \in Mid,
               HasTab(q, u, x, y), HasTab(q, u, xx, yy), Tab(q, u, x, y) = Tab(q, u, xx, yy)
        PROVE  x = xx /\ y = yy
    BY <1>1, <1>6, <1>7, <2>2 DEF Apart
  <2>3. ASSUME NEW x \in Top, NEW xx \in Top, NEW y \in Mid, HasDir(q, x), HasTab(q, u, xx, y)
        PROVE  Dir(q, x) # Tab(q, u, xx, y)
    <3>1. CASE xx = i /\ y = j
      <4>1. \A w \in Top : HasDir(p, w) => Dir(p, w) # pte
        BY <1>0, <1>1 DEF Dirs, Apart
      <4>2. QED
        BY <1>2, <1>4, <1>6, <2>3, <3>1, <4>1
    <3>2. CASE ~(xx = i /\ y = j)
      <4>1. HasTab(p, t, xx, y) /\ Tab(q, u, xx, y) = Tab(p, t, xx, y)
        BY <1>6, <2>3, <3>2
      <4>2. QED
        BY <1>1, <1>4, <1>7, <2>3, <3>2, <4>1 DEF Apart
    <3>3. QED
      BY <3>1, <3>2
  <2>4. QED
    BY <2>1, <2>2, <2>3 DEF Apart
<1>13. Leaves(q, u)
  <2> SUFFICES ASSUME NEW x \in Top, NEW y \in Mid, NEW z \in Low, HasPage(q, u, x, y, z)
               PROVE  Leaf(q, u, x, y, z).addr \in MapPages
    BY DEF Leaves
  <2>1. CASE x = i /\ y = j /\ z = k
    BY <1>3, <1>8, <2>1
  <2>2. CASE ~(x = i /\ y = j /\ z = k)
    BY <1>1, <1>8, <2>2 DEF Leaves
  <2>3. QED
    BY <2>1, <2>2
<1>14. Covered(q, u, fr \ {pdp, pte})
  <2> SUFFICES ASSUME NEW f \in Frames, f \notin fr \ {pdp, pte}
               PROVE  \/ \E x \in Top : HasDir(q, x) /\ f = Dir(q, x)
                      \/ \E x \in Top, y \in Mid : HasTab(q, u, x, y) /\ f = Tab(q, u, x, y)
    BY DEF Covered
  <2>1. CASE f = pdp
    BY <1>4, <2>1
  <2>2. CASE f = pte
    BY <1>6, <2>2
  <2>3. CASE f \notin {pdp, pte}
    <3>1. f \notin fr
      BY <2>3
    <3>2. ASSUME NEW x \in Top, HasDir(p, x), f = Dir(p, x) PROVE HasDir(q, x) /\ f = Dir(q, x)
      BY <1>0, <1>4, <2>3, <3>2
    <3>3. ASSUME NEW x \in Top, NEW y \in Mid, HasTab(p, t, x, y), f = Tab(p, t, x, y)
          PROVE  HasTab(q, u, x, y) /\ f = Tab(q, u, x, y)
      BY <1>0, <1>6, <2>3, <3>3
    <3>4. QED
      BY <1>1, <3>1, <3>2, <3>3 DEF Covered
  <2>4. QED
    BY <2>1, <2>2, <2>3
<1>15. QED
  BY <1>8, <1>9, <1>10, <1>11, <1>12, <1>13, <1>14 DEF Sound, Gained

-----------------------------------------------------------------------------
(* Clearing entries.                                                       *)

\* Entry k of a table is that of a page in G.
Hit(G, i, j, k) == \E v \in G : PdpeOff(v) = i /\ PdpOff(v) = j /\ PteOff(v) = k

\* The entries of the pages in G are cleared; dt are the tables that this
\* leaves empty, dd the tables of the second level that are then empty in turn.
Pruned(p, t, q, u, G, dt, dd) ==
  /\ q \in [Top -> Records]
  /\ \A i \in Top : IF HasDir(p, i) /\ Dir(p, i) \in dd THEN ~q[i].p ELSE q[i] = p[i]
  /\ u = [f \in Frames |-> u[f]]
  /\ \A f \in Frames : u[f] \in {<< >>} \cup [Mid -> Records] \cup [Low -> Records]
  /\ \A i \in Top : HasDir(p, i) /\ Dir(p, i) \notin dd =>
       /\ u[Dir(p, i)] \in [Mid -> Records]
       /\ \A j \in Mid : IF HasTab(p, t, i, j) /\ Tab(p, t, i, j) \in dt
                           THEN ~u[Dir(p, i)][j].p ELSE u[Dir(p, i)][j] = t[Dir(p, i)][j]
  /\ \A i \in Top, j \in Mid : HasTab(p, t, i, j) /\ Tab(p, t, i, j) \notin dt =>
       /\ u[Tab(p, t, i, j)] \in [Low -> Records]
       /\ \A k \in Low : IF Hit(G, i, j, k)
                           THEN ~u[Tab(p, t, i, j)][k].p
                           ELSE u[Tab(p, t, i, j)][k] = t[Tab(p, t, i, j)][k]

\* Which tables die.
Dead(p, t, G, dt, dd) ==
  /\ \A i \in Top, j \in Mid : HasTab(p, t, i, j) =>
       (Tab(p, t, i, j) \in dt <=> \A k \in Low : HasPage(p, t, i, j, k) => Hit(G, i, j, k))
  /\ \A i \in Top : HasDir(p, i) =>
       (Dir(p, i) \in dd <=> \A j \in Mid : HasTab(p, t, i, j) => Tab(p, t, i, j) \in dt)
  /\ \A f \in dt : \E i \in Top, j \in Mid : HasTab(p, t, i, j) /\ f = Tab(p, t, i, j)
  /\ \A f \in dd : \E i \in Top : HasDir(p, i) /\ f = Dir(p, i)

\* The pages in G are no longer there, the others are.
Gone(p, t, q, u, G) ==
  \A i \in Top, j \in Mid, k \in Low :
    /\ HasPage(q, u, i, j, k) <=> HasPage(p, t, i, j, k) /\ ~Hit(G, i, j, k)
    /\ HasPage(q, u, i, j, k) => Leaf(q, u, i, j, k) = Leaf(p, t, i, j, k)

LEMMA Cleared ==
  ASSUME NEW p, NEW t, NEW fr, Sound(p, t, fr), NEW q, NEW u, NEW G, NEW dt, NEW dd,
         Pruned(p, t, q, u, G, dt, dd), Dead(p, t, G, dt, dd)
  PROVE  Sound(q, u, fr \cup dt \cup dd) /\ Gone(p, t, q, u, G)
<1>1. /\ Typed(p, t, fr) /\ Dirs(p, t, fr) /\ Tabs(p, t, fr)
      /\ Apart(p, t) /\ Leaves(p, t) /\ Covered(p, t, fr)
  BY DEF Sound
<1>2. ASSUME NEW i \in Top
      PROVE  /\ HasDir(q, i) <=> HasDir(p, i) /\ Dir(p, i) \notin dd
             /\ HasDir(q, i) => Dir(q, i) = Dir(p, i)
  BY DEF Pruned, HasDir, Dir
<1>3. ASSUME NEW i \in Top, NEW j \in Mid, HasTab(p, t, i, j), Tab(p, t, i, j) \notin dt
      PROVE  HasDir(p, i) /\ Dir(p, i) \notin dd
  BY <1>3 DEF Dead, HasTab
<1>4. ASSUME NEW i \in Top, NEW j \in Mid
      PROVE  /\ HasTab(q, u, i, j) <=> HasTab(p, t, i, j) /\ Tab(p, t, i, j) \notin dt
             /\ HasTab(q, u, i, j) => Tab(q, u, i, j) = Tab(p, t, i, j)
  <2>1. CASE HasDir(p, i) /\ Dir(p, i) \notin dd
    <3>1. IF HasTab(p, t, i, j) /\ Tab(p, t, i, j) \in dt
            THEN ~u[Dir(p, i)][j].p ELSE u[Dir(p, i)][j] = t[Dir(p, i)][j]
      BY <2>1 DEF Pruned
    <3>2. HasDir(q, i) /\ Dir(q, i) = Dir(p, i)
      BY <1>2, <2>1
    <3>3. QED
      BY <2>1, <3>1, <3>2 DEF HasTab, Tab
  <2>2. CASE ~(HasDir(p, i) /\ Dir(p, i) \notin dd)
    <3>1. ~HasTab(q, u, i, j)
      BY <1>2, <2>2 DEF HasTab
    <3>2. QED
      BY <1>3, <2>2, <3>1
  <2>3. QED
    BY <2>1, <2>2
<1>5. ASSUME NEW i \in Top, NEW j \in Mid, NEW k \in Low
      PROVE  /\ HasPage(q, u, i, j, k) <=> HasPage(p, t, i, j, k) /\ ~Hit(G, i, j, k)
             /\ HasPage(q, u, i, j, k) => Leaf(q, u, i, j, k) = Leaf(p, t, i, j, k)
  <2>1. CASE HasTab(p, t, i, j) /\ Tab(p, t, i, j) \notin dt
    <3>1. IF Hit(G, i, j, k) THEN ~u[Tab(p, t, i, j)][k].p
                             ELSE u[Tab(p, t, i, j)][k] = t[Tab(p, t, i, j)][k]
      BY <2>1 DEF Pruned
    <3>2. HasTab(q, u, i, j) /\ Tab(q, u, i, j) = Tab(p, t, i, j)
      BY <1>4, <2>1
    <3>3. QED
      BY <2>1, <3>1, <3>2 DEF HasPage, Leaf
  <2>2. CASE HasTab(p, t, i, j) /\ Tab(p, t, i, j) \in dt
    <3>1. ~HasPage(q, u, i, j, k)
      BY <1>4, <2>2 DEF HasPage
    <3>2. HasPage(p, t, i, j, k) => Hit(G, i, j, k)
      BY <2>2 DEF Dead
    <3>3. QED
      BY <3>1, <3>2
  <2>3. CASE ~HasTab(p, t, i, j)
    BY <1>4, <2>3 DEF HasPage
  <2>4. QED
    BY <2>1, <2>2, <2>3
<1>6. dt \cup dd \subseteq Frames
  BY <1>1 DEF Dead, Dirs, Tabs
<1>7. Typed(q, u, fr \cup dt \cup dd)
  BY <1>1, <1>6 DEF Typed, Pruned
<1>8. Dirs(q, u, fr \cup dt \cup dd)
  <2> SUFFICES ASSUME NEW i \in Top, HasDir(q, i)
               PROVE  /\ Dir(q, i) \in Frames /\ Dir(q, i) \notin fr \cup dt \cup dd
                      /\ u[Dir(q, i)] \in [Mid -> Records]
                      /\ \E j \in Mid : HasTab(q, u, i, j)
    BY DEF Dirs
  <2>1. HasDir(p, i) /\ Dir(p, i) \notin dd /\ Dir(q, i) = Dir(p, i)
    BY <1>2
  <2>2. Dir(p, i) \in Frames /\ Dir(p, i) \notin fr
    BY <1>1, <2>1 DEF Dirs
  <2>3. Dir(p, i) \notin dt
    BY <1>1, <2>1 DEF Dead, Apart
  <2>4. u[Dir(p, i)] \in [Mid -> Records]
    BY <2>1 DEF Pruned
  <2>5. \E j \in Mid : HasTab(p, t, i, j) /\ Tab(p, t, i, j) \notin dt
    BY <2>1 DEF Dead
  <2>6. QED
    BY <1>4, <2>1, <2>2, <2>3, <2>4, <2>5
<1>9. Tabs(q, u, fr \cup dt \cup dd)
  <2> SUFFICES ASSUME NEW i \in Top, NEW j \in Mid, HasTab(q, u, i, j)
               PROVE  /\ Tab(q, u, i, j) \in Frames /\ Tab(q, u, i, j) \notin fr \cup dt \cup dd
                      /\ u[Tab(q, u, i, j)] \in [Low -> Records]
                      /\ \E k \in Low : HasPage(q, u, i, j, k)
    BY DEF Tabs
  <2>1. HasTab(p, t, i, j) /\ Tab(p, t, i, j) \notin dt /\ Tab(q, u, i, j) = Tab(p, t, i, j)
    BY <1>4
  <2>2. Tab(p, t, i, j) \in Frames /\ Tab(p, t, i, j) \notin fr
    BY <1>1, <2>1 DEF Tabs
  <2>3. Tab(p, t, i, j) \notin dd
    BY <1>1, <2>1 DEF Dead, Apart
  <2>4. u[Tab(p, t, i, j)] \in [Low -> Records]
    BY <2>1 DEF Pruned
  <2>5. \E k \in Low : HasPage(p, t, i, j, k) /\ ~Hit(G, i, j, k)
    BY <2>1 DEF Dead
  <2>6. QED
    BY <1>5, <2>1, <2>2, <2>3, <2>4, <2>5
<1>10. Apart(q, u)
  BY <1>1, <1>2, <1>4 DEF Apart
<1>11. Leaves(q, u)
  BY <1>1, <1>5 DEF Leaves
<1>12. Covered(q, u, fr \cup dt \cup dd)
  <2> SUFFICES ASSUME NEW f \in Frames, f \notin fr \cup dt \cup dd
               PROVE  \/ \E i \in Top : HasDir(q, i) /\ f = Dir(q, i)
                      \/ \E i \in Top, j \in Mid : HasTab(q, u, i, j) /\ f = Tab(q, u, i, j)
    BY DEF Covered
  <2>1. CASE \E i \in Top : HasDir(p, i) /\ f = Dir(p, i)
    BY <1>2, <2>1
  <2>2. CASE \E i \in Top, j \in Mid : HasTab(p, t, i, j) /\ f = Tab(p, t, i, j)
    BY <1>4, <2>2
  <2>3. QED
    BY <1>1, <2>1, <2>2 DEF Covered
<1>13. QED
  BY <1>5, <1>7, <1>8, <1>9, <1>10, <1>11, <1>12 DEF Sound, Gone

-----------------------------------------------------------------------------
(* The operators of the model, in these terms.                             *)

LEMMA Seen ==
  ASSUME NEW v
  PROVE  /\ Pdpe(v).p <=> HasDir(pdpe_, PdpeOff(v))
         /\ Pdpe(v).addr = Dir(pdpe_, PdpeOff(v))
         /\ HasPte(v) <=> HasTab(pdpe_, tables, PdpeOff(v), PdpOff(v))
         /\ Pdp(v) = tables[Dir(pdpe_, PdpeOff(v))][PdpOff(v)]
         /\ Pdp(v).addr = Tab(pdpe_, tables, PdpeOff(v), PdpOff(v))
         /\ Mapped(v) <=> HasPage(pdpe_, tables, PdpeOff(v), PdpOff(v), PteOff(v))
         /\ Pte(v) = Leaf(pdpe_, tables, PdpeOff(v), PdpOff(v), PteOff(v))
  BY DEF Pdpe, HasPte, Pdp, Mapped, Pte, HasDir, Dir, HasTab, Tab, HasPage, Leaf

LEMMA SeenAfter ==
  ASSUME NEW v
  PROVE  /\ Mapped(v)' <=> HasPage(pdpe_', tables', PdpeOff(v), PdpOff(v), PteOff(v))
         /\ Pte(v)' = Leaf(pdpe_', tables', PdpeOff(v), PdpOff(v), PteOff(v))
  BY DEF Pdpe, HasPte, Pdp, Mapped, Pte, HasDir, Dir, HasTab, Tab, HasPage, Leaf

LEMMA NoEntries == ASSUME NEW e PROVE [k \in DOMAIN << >> |-> e] = << >>
  OBVIOUS

LEMMA AbsentIs == Absent \in Records /\ ~Absent.p
  BY DEF Absent, Records

\* Pages in G are no longer mapped, the others are as they were.
Taken(G) ==
  \A w \in VPages : /\ Mapped(w)' <=> Mapped(w) /\ w \notin G
                    /\ Mapped(w)' => Pte(w)' = Pte(w)

\* The entry of v is e, the others are as they were.
Given(v, e) ==
  /\ Mapped(v)' /\ Pte(v)' = e
  /\ \A w \in VPages \ {v} : /\ Mapped(w)' <=> Mapped(w)
                             /\ Mapped(w) => Pte(w)' = Pte(w)

\* ClearEntries clears the entries of the pages in G, and those only.
LEMMA ClearStep ==
  ASSUME Sound(pdpe_, tables, free_), NEW G \in SUBSET VPages, \A v \in G : Mapped(v), ClearEntries(G)
  PROVE  Sound(pdpe_', tables', free_') /\ Taken(G)
<1> DEFINE p == pdpe_
           t == tables
           At(f, k) == \E v \in G : Pdp(v).addr = f /\ PteOff(v) = k
           wiped == [f \in Frames |-> [k \in DOMAIN t[f] |-> IF At(f, k) THEN Absent ELSE t[f][k]]]
           dt == {f \in {Pdp(v).addr : v \in G} : IsEmpty(wiped[f])}
           dirs == {Pdpe(v).addr : v \in G}
           unlinked == [f \in Frames |-> IF f \notin dirs THEN wiped[f] ELSE
                          [j \in DOMAIN t[f] |->
                            IF t[f][j].p /\ t[f][j].addr \in dt THEN Absent ELSE t[f][j]]]
           dd == {f \in {Pdpe(v).addr : v \in {w \in G : Pdp(w).addr \in dt}} : IsEmpty(unlinked[f])}
           q == pdpe_'
           u == tables'
<1>1. /\ q = [i \in DOMAIN p |-> IF p[i].p /\ p[i].addr \in dd THEN Absent ELSE p[i]]
      /\ u = [f \in Frames |-> IF f \in dt \cup dd THEN << >> ELSE unlinked[f]]
      /\ free_' = free_ \cup dt \cup dd
  BY DEF ClearEntries
<1>2. /\ Typed(p, t, free_) /\ Dirs(p, t, free_) /\ Tabs(p, t, free_) /\ Apart(p, t)
  BY DEF Sound
<1>3. ASSUME NEW v \in G
      PROVE  /\ PdpeOff(v) \in Top /\ PdpOff(v) \in Mid /\ PteOff(v) \in Low
             /\ HasDir(p, PdpeOff(v)) /\ Pdpe(v).addr = Dir(p, PdpeOff(v))
             /\ HasTab(p, t, PdpeOff(v), PdpOff(v)) /\ Pdp(v).addr = Tab(p, t, PdpeOff(v), PdpOff(v))
  <2>1. v \in VPages /\ Mapped(v)
    OBVIOUS
  <2>2. QED
    BY <2>1, Parts, Seen DEF HasPage, HasTab
<1>4. ASSUME NEW i \in Top, NEW j \in Mid, HasTab(p, t, i, j), NEW k
      PROVE  At(Tab(p, t, i, j), k) <=> Hit(G, i, j, k)
  BY <1>2, <1>3, <1>4 DEF Apart, Hit
<1>5. ASSUME NEW i \in Top, HasDir(p, i), NEW k PROVE ~At(Dir(p, i), k)
  BY <1>2, <1>3, <1>5 DEF Apart
<1> HIDE DEF At
<1>6. ASSUME NEW i \in Top, NEW j \in Mid, HasTab(p, t, i, j)
      PROVE  wiped[Tab(p, t, i, j)] = [k \in Low |-> IF Hit(G, i, j, k) THEN Absent
                                                     ELSE t[Tab(p, t, i, j)][k]]
  <2>1. Tab(p, t, i, j) \in Frames /\ DOMAIN t[Tab(p, t, i, j)] = Low
    BY <1>2, <1>6 DEF Tabs
  <2>2. QED
    BY <1>4, <1>6, <2>1
<1>7. ASSUME NEW i \in Top, HasDir(p, i) PROVE wiped[Dir(p, i)] = t[Dir(p, i)]
  <2>1. Dir(p, i) \in Frames /\ t[Dir(p, i)] \in [Mid -> Records]
    BY <1>2, <1>7 DEF Dirs
  <2>2. wiped[Dir(p, i)] = [k \in DOMAIN t[Dir(p, i)] |-> t[Dir(p, i)][k]]
    BY <1>5, <1>7, <2>1
  <2>3. QED
    BY <2>1, <2>2
<1>8. ASSUME NEW f \in Frames
      PROVE  wiped[f] \in {<< >>} \cup [Mid -> Records] \cup [Low -> Records]
  <2>1. wiped[f] = [k \in DOMAIN t[f] |-> IF At(f, k) THEN Absent ELSE t[f][k]]
    OBVIOUS
  <2>2. t[f] \in {<< >>} \cup [Mid -> Records] \cup [Low -> Records]
    BY <1>2 DEF Typed
  <2>3. CASE t[f] = << >>
    BY <2>1, <2>3
  <2>4. CASE t[f] \in [Mid -> Records]
    BY <2>1, <2>4, AbsentIs
  <2>5. CASE t[f] \in [Low -> Records]
    BY <2>1, <2>5, AbsentIs
  <2>6. QED
    BY <2>2, <2>3, <2>4, <2>5
<1> HIDE DEF wiped
<1>9. ASSUME NEW i \in Top, NEW j \in Mid, HasTab(p, t, i, j)
      PROVE  Tab(p, t, i, j) \in dt <=> \A k \in Low : HasPage(p, t, i, j, k) => Hit(G, i, j, k)
  <2>1. IsEmpty(wiped[Tab(p, t, i, j)]) <=> \A k \in Low : HasPage(p, t, i, j, k) => Hit(G, i, j, k)
    <3> DEFINE F == wiped[Tab(p, t, i, j)]
               e(k) == IF Hit(G, i, j, k) THEN Absent ELSE t[Tab(p, t, i, j)][k]
    <3>0. F = [k \in Low |-> e(k)]
      BY <1>6, <1>9
    <3> HIDE DEF e, F
    <3>5. DOMAIN F = Low /\ \A k \in Low : F[k] = e(k)
      BY <3>0
    <3>1. DOMAIN F = Low /\ \A k \in Low : F[k] = IF Hit(G, i, j, k) THEN Absent ELSE t[Tab(p, t, i, j)][k]
      BY <3>5 DEF e
    <3>2. \A k \in Low : HasPage(p, t, i, j, k) <=> t[Tab(p, t, i, j)][k].p
      BY <1>9 DEF HasPage
    <3>3. \A k \in Low : ~F[k].p <=> (HasPage(p, t, i, j, k) => Hit(G, i, j, k))
      BY <3>1, <3>2, AbsentIs
    <3>4. QED
      BY <3>1, <3>3 DEF IsEmpty, F
  <2>2. PICK k \in Low : HasPage(p, t, i, j, k)
    BY <1>2, <1>9 DEF Tabs
  <2>3. Hit(G, i, j, k) => Tab(p, t, i, j) \in {Pdp(v).addr : v \in G}
    BY <1>3 DEF Hit
  <2>4. QED
    BY <2>1, <2>2, <2>3
<1>10. \A f \in dt : \E i \in Top, j \in Mid :
          /\ HasTab(p, t, i, j) /\ f = Tab(p, t, i, j)
          /\ \E v \in G : PdpeOff(v) = i /\ PdpOff(v) = j /\ Pdp(v).addr = f
  BY <1>3
<1> HIDE DEF dt
<1>11. ASSUME NEW i \in Top, NEW j \in Mid, HasTab(p, t, i, j)
       PROVE  unlinked[Tab(p, t, i, j)] = wiped[Tab(p, t, i, j)]
  <2>1. Tab(p, t, i, j) \in Frames
    BY <1>2, <1>11 DEF Tabs
  <2>2. Tab(p, t, i, j) \notin dirs
    BY <1>2, <1>3, <1>11 DEF Apart
  <2>3. QED
    BY <2>1, <2>2
<1>12. ASSUME NEW i \in Top, HasDir(p, i)
       PROVE  unlinked[Dir(p, i)] = [j \in Mid |-> IF HasTab(p, t, i, j) /\ Tab(p, t, i, j) \in dt
                                                     THEN Absent ELSE t[Dir(p, i)][j]]
  <2>1. Dir(p, i) \in Frames /\ t[Dir(p, i)] \in [Mid -> Records]
    BY <1>2, <1>12 DEF Dirs
  <2>2. \A j \in Mid : /\ HasTab(p, t, i, j) <=> t[Dir(p, i)][j].p
                       /\ Tab(p, t, i, j) = t[Dir(p, i)][j].addr
    BY <1>12 DEF HasTab, Tab
  <2>3. CASE Dir(p, i) \in dirs
    <3>1. unlinked[Dir(p, i)] = [j \in DOMAIN t[Dir(p, i)] |->
             IF t[Dir(p, i)][j].p /\ t[Dir(p, i)][j].addr \in dt THEN Absent ELSE t[Dir(p, i)][j]]
      BY <2>1, <2>3
    <3>2. QED
      BY <2>1, <2>2, <3>1
  <2>4. CASE Dir(p, i) \notin dirs
    <3>1. unlinked[Dir(p, i)] = t[Dir(p, i)]
      BY <1>7, <1>12, <2>1, <2>4
    <3>2. ASSUME NEW j \in Mid, HasTab(p, t, i, j), Tab(p, t, i, j) \in dt PROVE FALSE
      <4>1. PICK x \in Top, y \in Mid : /\ HasTab(p, t, x, y) /\ Tab(p, t, i, j) = Tab(p, t, x, y)
                                        /\ \E v \in G : PdpeOff(v) = x
        BY <1>10, <3>2
      <4>2. x = i
        BY <1>2, <3>2, <4>1 DEF Apart
      <4>3. QED
        BY <1>3, <2>4, <4>1, <4>2
    <3>3. QED
      BY <2>1, <3>1, <3>2
  <2>5. QED
    BY <2>3, <2>4
<1>13. ASSUME NEW f \in Frames
       PROVE  unlinked[f] \in {<< >>} \cup [Mid -> Records] \cup [Low -> Records]
  <2>1. CASE f \notin dirs
    BY <1>8, <2>1
  <2>2. CASE f \in dirs
    <3>1. PICK v \in G : f = Dir(p, PdpeOff(v)) /\ HasDir(p, PdpeOff(v)) /\ PdpeOff(v) \in Top
      BY <1>3, <2>2
    <3>2. t[f] \in [Mid -> Records]
      BY <1>2, <3>1 DEF Dirs
    <3>3. unlinked[f] \in [Mid -> Records]
      <4> DEFINE e(j) == IF HasTab(p, t, PdpeOff(v), j) /\ Tab(p, t, PdpeOff(v), j) \in dt
                           THEN Absent ELSE t[f][j]
      <4>1. unlinked[f] = [j \in Mid |-> e(j)]
        BY <1>12, <3>1
      <4>2. \A j \in Mid : e(j) \in Records
        BY <3>2, AbsentIs
      <4> HIDE DEF e
      <4>3. QED
        BY <4>1, <4>2
    <3>4. QED
      BY <3>3
  <2>3. QED
    BY <2>1, <2>2
<1> HIDE DEF unlinked
<1>14. ASSUME NEW i \in Top, HasDir(p, i)
       PROVE  Dir(p, i) \in dd <=> \A j \in Mid : HasTab(p, t, i, j) => Tab(p, t, i, j) \in dt
  <2>1. IsEmpty(unlinked[Dir(p, i)]) <=> \A j \in Mid : HasTab(p, t, i, j) => Tab(p, t, i, j) \in dt
    BY <1>12, <1>14, AbsentIs DEF IsEmpty, HasTab
  <2>2. PICK j \in Mid : HasTab(p, t, i, j)
    BY <1>2, <1>14 DEF Dirs
  <2>3. ASSUME Tab(p, t, i, j) \in dt
        PROVE  Dir(p, i) \in {Pdpe(v).addr : v \in {w \in G : Pdp(w).addr \in dt}}
    <3>1. PICK x \in Top, y \in Mid, v \in G :
             /\ HasTab(p, t, x, y) /\ Tab(p, t, i, j) = Tab(p, t, x, y)
             /\ PdpeOff(v) = x /\ Pdp(v).addr = Tab(p, t, i, j)
      BY <1>10, <2>3
    <3>2. x = i
      BY <1>2, <2>2, <3>1 DEF Apart
    <3>3. QED
      BY <1>3, <2>3, <3>1, <3>2
  <2>4. QED
    BY <2>1, <2>2, <2>3
<1>15. \A f \in dd : \E i \in Top : HasDir(p, i) /\ f = Dir(p, i)
  BY <1>3
<1> HIDE DEF dd
<1>16. Dead(p, t, G, dt, dd)
  BY <1>9, <1>10, <1>14, <1>15 DEF Dead
<1>17. Pruned(p, t, q, u, G, dt, dd)
  <2>1. /\ q \in [Top -> Records]
        /\ \A i \in Top : IF HasDir(p, i) /\ Dir(p, i) \in dd THEN ~q[i].p ELSE q[i] = p[i]
    BY <1>1, <1>2, AbsentIs DEF Typed, HasDir, Dir
  <2>2. /\ u = [f \in Frames |-> u[f]]
        /\ \A f \in Frames : u[f] \in {<< >>} \cup [Mid -> Records] \cup [Low -> Records]
    BY <1>1, <1>13
  <2>3. ASSUME NEW i \in Top, HasDir(p, i), Dir(p, i) \notin dd
        PROVE  /\ u[Dir(p, i)] \in [Mid -> Records]
               /\ \A j \in Mid : IF HasTab(p, t, i, j) /\ Tab(p, t, i, j) \in dt
                                   THEN ~u[Dir(p, i)][j].p ELSE u[Dir(p, i)][j] = t[Dir(p, i)][j]
    <3>1. Dir(p, i) \in Frames /\ t[Dir(p, i)] \in [Mid -> Records]
      BY <1>2, <2>3 DEF Dirs
    <3>2. Dir(p, i) \notin dt
      BY <1>2, <1>10, <2>3 DEF Apart
    <3>3. u[Dir(p, i)] = unlinked[Dir(p, i)]
      BY <1>1, <2>3, <3>1, <3>2
    <3>4. QED
      <4> DEFINE e(j) == IF HasTab(p, t, i, j) /\ Tab(p, t, i, j) \in dt THEN Absent ELSE t[Dir(p, i)][j]
      <4>1. u[Dir(p, i)] = [j \in Mid |-> e(j)]
        BY <1>12, <2>3, <3>3
      <4>2. \A j \in Mid : e(j) \in Records
        BY <3>1, AbsentIs
      <4>3. \A j \in Mid : IF HasTab(p, t, i, j) /\ Tab(p, t, i, j) \in dt
                              THEN ~e(j).p ELSE e(j) = t[Dir(p, i)][j]
        BY AbsentIs
      <4> HIDE DEF e
      <4>4. u[Dir(p, i)] \in [Mid -> Records] /\ \A j \in Mid : u[Dir(p, i)][j] = e(j)
        BY <4>1, <4>2
      <4>5. QED
        BY <4>3, <4>4
  <2>4. ASSUME NEW i \in Top, NEW j \in Mid, HasTab(p, t, i, j), Tab(p, t, i, j) \notin dt
        PROVE  /\ u[Tab(p, t, i, j)] \in [Low -> Records]
               /\ \A k \in Low : IF Hit(G, i, j, k)
                                   THEN ~u[Tab(p, t, i, j)][k].p
                                   ELSE u[Tab(p, t, i, j)][k] = t[Tab(p, t, i, j)][k]
    <3>1. Tab(p, t, i, j) \in Frames /\ t[Tab(p, t, i, j)] \in [Low -> Records]
      BY <1>2, <2>4 DEF Tabs
    <3>2. Tab(p, t, i, j) \notin dd
      BY <1>2, <1>15, <2>4 DEF Apart
    <3>3. u[Tab(p, t, i, j)] = wiped[Tab(p, t, i, j)]
      BY <1>1, <1>11, <2>4, <3>1, <3>2
    <3>4. QED
      <4> DEFINE e(k) == IF Hit(G, i, j, k) THEN Absent ELSE t[Tab(p, t, i, j)][k]
      <4>1. u[Tab(p, t, i, j)] = [k \in Low |-> e(k)]
        BY <1>6, <2>4, <3>3
      <4>2. \A k \in Low : e(k) \in Records
        BY <3>1, AbsentIs
      <4>3. \A k \in Low : IF Hit(G, i, j, k) THEN ~e(k).p ELSE e(k) = t[Tab(p, t, i, j)][k]
        BY AbsentIs
      <4> HIDE DEF e
      <4>4. u[Tab(p, t, i, j)] \in [Low -> Records] /\ \A k \in Low : u[Tab(p, t, i, j)][k] = e(k)
        BY <4>1, <4>2
      <4>5. QED
        BY <4>3, <4>4
  <2>5. QED
    BY <2>1, <2>2, <2>3, <2>4 DEF Pruned
<1>18. Sound(q, u, free_') /\ Gone(p, t, q, u, G)
  <2>1. free_' = free_ \cup dt \cup dd
    BY <1>1
  <2>2. Sound(q, u, free_ \cup dt \cup dd) /\ Gone(p, t, q, u, G)
    <3>1. Sound(p, t, free_)
      OBVIOUS
    <3> HIDE DEF p, t, q, u
    <3>2. QED
      BY <1>16, <1>17, <3>1, Cleared
  <2>3. QED
    BY <2>1, <2>2
<1>19. ASSUME NEW w \in VPages
       PROVE  /\ Mapped(w)' <=> Mapped(w) /\ w \notin G
              /\ Mapped(w)' => Pte(w)' = Pte(w)
  <2>1. Hit(G, PdpeOff(w), PdpOff(w), PteOff(w)) <=> w \in G
    BY PartsApart DEF Hit
  <2>2. QED
    BY <1>18, <2>1, Parts, Seen, SeenAfter DEF Gone
<1>20. QED
  BY <1>18, <1>19 DEF Taken

\* A step that writes the entry of v.
LEMMA WriteStep ==
  ASSUME Sound(pdpe_, tables, free_), NEW v \in VPages, NEW pdp, NEW pte,
         Found(pdpe_, tables, free_, PdpeOff(v), PdpOff(v), pdp, pte),
         Wrote(pdpe_, tables, pdpe_', tables', PdpeOff(v), PdpOff(v), PteOff(v), pdp, pte),
         free_' = free_ \ {pdp, pte}
  PROVE  Sound(pdpe_', tables', free_') /\ Given(v, tables'[pte][PteOff(v)])
<1> DEFINE p == pdpe_  t == tables  fr == free_  q == pdpe_'  u == tables'
           i == PdpeOff(v)  j == PdpOff(v)  k == PteOff(v)
<1>1. i \in Top /\ j \in Mid /\ k \in Low
  BY Parts
<1>2. Sound(p, t, fr) /\ Found(p, t, fr, i, j, pdp, pte) /\ Wrote(p, t, q, u, i, j, k, pdp, pte)
  OBVIOUS
<1>3. Sound(q, u, fr \ {pdp, pte}) /\ Gained(p, t, q, u, i, j, k, u[pte][k])
  <2> HIDE DEF p, t, fr, q, u, i, j, k
  <2>1. QED
    BY <1>1, <1>2, Written
<1>4. Mapped(v)' /\ Pte(v)' = u[pte][k]
  BY <1>1, <1>3, SeenAfter DEF Gained
<1>5. ASSUME NEW w \in VPages \ {v}
      PROVE  /\ Mapped(w)' <=> Mapped(w)
             /\ Mapped(w) => Pte(w)' = Pte(w)
  <2>1. ~(PdpeOff(w) = i /\ PdpOff(w) = j /\ PteOff(w) = k)
    BY PartsApart
  <2>2. PdpeOff(w) \in Top /\ PdpOff(w) \in Mid /\ PteOff(w) \in Low
    BY Parts
  <2>3. /\ HasPage(q, u, PdpeOff(w), PdpOff(w), PteOff(w)) <=> HasPage(p, t, PdpeOff(w), PdpOff(w), PteOff(w))
        /\ HasPage(p, t, PdpeOff(w), PdpOff(w), PteOff(w)) =>
             Leaf(q, u, PdpeOff(w), PdpOff(w), PteOff(w)) = Leaf(p, t, PdpeOff(w), PdpOff(w), PteOff(w))
    BY <1>3, <2>1, <2>2 DEF Gained
  <2>4. QED
    BY <2>3, Seen, SeenAfter
<1>6. QED
  BY <1>3, <1>4, <1>5 DEF Given

\* What an entry that is mapped is.
LEMMA PteIs ==
  ASSUME Sound(pdpe_, tables, free_), NEW v \in VPages, Mapped(v)
  PROVE  /\ HasTab(pdpe_, tables, PdpeOff(v), PdpOff(v))
         /\ Pdp(v).addr = Tab(pdpe_, tables, PdpeOff(v), PdpOff(v))
         /\ Pdp(v).addr \in Frames /\ tables[Pdp(v).addr] \in [Low -> Records]
         /\ PteOff(v) \in Low
         /\ Pte(v) = tables[Pdp(v).addr][PteOff(v)]
         /\ Pte(v) \in Records /\ Pte(v).p /\ Pte(v).addr \in MapPages
<1>1. PdpeOff(v) \in Top /\ PdpOff(v) \in Mid /\ PteOff(v) \in Low
  BY Parts
<1>2. /\ HasTab(pdpe_, tables, PdpeOff(v), PdpOff(v))
      /\ Pdp(v).addr = Tab(pdpe_, tables, PdpeOff(v), PdpOff(v))
      /\ Pte(v) = Leaf(pdpe_, tables, PdpeOff(v), PdpOff(v), PteOff(v))
      /\ HasPage(pdpe_, tables, PdpeOff(v), PdpOff(v), PteOff(v))
  BY Seen DEF HasPage
<1>3. Pdp(v).addr \in Frames /\ tables[Pdp(v).addr] \in [Low -> Records]
  BY <1>1, <1>2 DEF Sound, Tabs
<1>4. Pte(v).p /\ Pte(v).addr \in MapPages
  BY <1>1, <1>2 DEF Sound, Leaves, HasPage, Leaf
<1>5. QED
  BY <1>1, <1>2, <1>3, <1>4 DEF Leaf

\* A step that only changes the entry of v, which stays present.
LEMMA ChangeStep ==
  ASSUME Sound(pdpe_, tables, free_), NEW v \in VPages, Mapped(v),
         NEW e \in Records, e.p, e.addr = Pte(v).addr,
         tables' = [tables EXCEPT ![Pdp(v).addr][PteOff(v)] = e],
         UNCHANGED <<pdpe_, free_>>
  PROVE  Sound(pdpe_', tables', free_') /\ Given(v, e)
<1> DEFINE i == PdpeOff(v)  j == PdpOff(v)  k == PteOff(v)
           pdp == Dir(pdpe_, i)  pte == Tab(pdpe_, tables, i, j)
<1>1. i \in Top /\ j \in Mid /\ k \in Low
  BY Parts
<1>2. /\ HasTab(pdpe_, tables, i, j) /\ HasDir(pdpe_, i) /\ Pdp(v).addr = pte
      /\ pte \in Frames /\ tables[pte] \in [Low -> Records] /\ e.addr \in MapPages
  BY PteIs DEF HasTab
<1>3. /\ pdp \in Frames /\ pdp \notin free_ /\ pte \notin free_ /\ pdp # pte
      /\ tables[pdp] \in [Mid -> Records]
      /\ pdpe_ \in [Top -> Records] /\ tables = [f \in Frames |-> tables[f]]
  BY <1>1, <1>2 DEF Sound, Dirs, Tabs, Apart, Typed
<1>4. /\ tables' = [f \in Frames |-> tables'[f]]
      /\ \A f \in Frames \ {pte} : tables'[f] = tables[f]
      /\ tables'[pte] = [tables[pte] EXCEPT ![k] = e]
  <2>1. tables' = [tables EXCEPT ![pte] = [tables[pte] EXCEPT ![k] = e]]
    BY <1>2
  <2> HIDE DEF pte, k
  <2>2. QED
    BY <1>2, <1>3, <2>1
<1>5. /\ tables'[pte] \in [Low -> Records] /\ tables'[pte][k] = e
      /\ \A z \in Low \ {k} : tables'[pte][z] = tables[pte][z]
  BY <1>1, <1>2, <1>4
<1>6. Found(pdpe_, tables, free_, i, j, pdp, pte)
  BY <1>2 DEF Found
<1>7. tables[pdp][j].p /\ tables[pdp][j].addr = pte
  BY <1>2 DEF HasTab, Tab
<1>8. Wrote(pdpe_, tables, pdpe_', tables', i, j, k, pdp, pte)
  <2>1. tables'[pdp] = tables[pdp]
    BY <1>3, <1>4
  <2>2. pdpe_' = pdpe_ /\ Dir(pdpe_', i) = pdp /\ HasDir(pdpe_', i)
    BY <1>2
  <2> HIDE DEF i, j, k, pdp, pte
  <2>3. QED
    BY <1>2, <1>3, <1>4, <1>5, <1>7, <2>1, <2>2 DEF Wrote
<1>9. free_' = free_ \ {pdp, pte}
  BY <1>3
<1>10. Sound(pdpe_', tables', free_') /\ Given(v, tables'[pte][k])
  BY <1>6, <1>8, <1>9, WriteStep
<1>11. QED
  BY <1>5, <1>10

-----------------------------------------------------------------------------
(* The operations.                                                         *)

LEMMA RecordIs ==
  ASSUME NEW a \in Frames \cup PageNos \cup {0}, NEW fl \in SUBSET {"RW", "NX", "A", "D"}
  PROVE  /\ Create(a, fl) \in Records /\ Create(a, fl).p
         /\ Create(a, fl).addr = a /\ Create(a, fl).fl = fl
  BY DEF Create, Records

LEMMA ApplyIs == ASSUME NEW perm, NEW leaf PROVE Apply(perm, leaf) \in SUBSET {"RW", "NX", "A", "D"}
  BY DEF Apply

LEMMA ReplacedIs ==
  ASSUME NEW S, NEW R, NEW F \in [S -> R], NEW a \in S, NEW e \in R
  PROVE  /\ [F EXCEPT ![a] = e] \in [S -> R] /\ [F EXCEPT ![a] = e][a] = e
         /\ \A b \in S \ {a} : [F EXCEPT ![a] = e][b] = F[b]
  OBVIOUS

\* map: v leads to pg, every other page to where it did.
LEMMA MapStep ==
  ASSUME Sound(pdpe_, tables, free_), NEW v \in MapAt, NEW pg \in MapPages, NEW perm \in MapPerms,
         Map(v, pg, perm)
  PROVE  Sound(pdpe_', tables', free_') /\ Given(v, Create(pg, Apply(perm, TRUE)))
<1> DEFINE i == PdpeOff(v)  j == PdpOff(v)  k == PteOff(v)
           pdp == IF Pdpe(v).p THEN Pdpe(v).addr ELSE Max(free_)
           left == free_ \ {pdp}
           pte == IF HasPte(v) THEN Pdp(v).addr ELSE Max(left)
           A == IF Pdpe(v).p THEN tables[pdp] ELSE EmptyTable(NPdp)
           B == IF HasPte(v) THEN tables[pte] ELSE EmptyTable(NPte)
           e0 == Create(pdp, {})
           e1 == CombineTable(Create(pte, {}), perm)
           e2 == CombineLeaf(Create(pg, {}), perm)
<1>1. /\ Cardinality(free_) >= MissingTables(v)
      /\ pdpe_' = [pdpe_ EXCEPT ![i] = e0]
      /\ tables' = [tables EXCEPT ![pdp] = [A EXCEPT ![j] = e1], ![pte] = [B EXCEPT ![k] = e2]]
      /\ free_' = left \ {pte}
  BY DEF Map
<1>2. v \in VPages /\ i \in Top /\ j \in Mid /\ k \in Low
  BY MapAtAssumption, Parts
<1>3. /\ Pdpe(v).p <=> HasDir(pdpe_, i)
      /\ Pdpe(v).addr = Dir(pdpe_, i)
      /\ HasPte(v) <=> HasTab(pdpe_, tables, i, j)
      /\ Pdp(v).addr = Tab(pdpe_, tables, i, j)
      /\ HasTab(pdpe_, tables, i, j) => HasDir(pdpe_, i)
  BY Seen DEF HasTab
<1>4. free_ \in SUBSET Frames /\ IsFiniteSet(free_)
  BY FramesFinite, FS_Subset DEF Sound, Typed
<1>5. IF HasDir(pdpe_, i) THEN pdp = Dir(pdpe_, i) /\ A = tables[pdp] /\ pdp \in Frames \ free_
                          ELSE pdp \in free_ /\ A = EmptyTable(NPdp)
  <2>1. CASE HasDir(pdpe_, i)
    BY <1>2, <1>3, <2>1 DEF Sound, Dirs
  <2>2. CASE ~HasDir(pdpe_, i)
    <3>1. Cardinality(free_) >= 1
      BY <1>1, <1>3, <1>4, <2>2, FS_CardinalityType DEF MissingTables
    <3>2. QED
      BY <1>3, <1>4, <2>2, <3>1, TakeOne, MaxIn
  <2>3. QED
    BY <2>1, <2>2
<1>6. IF HasTab(pdpe_, tables, i, j)
        THEN pte = Tab(pdpe_, tables, i, j) /\ B = tables[pte] /\ pte \in Frames \ free_
        ELSE pte \in left /\ B = EmptyTable(NPte)
  <2>1. CASE HasTab(pdpe_, tables, i, j)
    BY <1>2, <1>3, <2>1 DEF Sound, Tabs
  <2>2. CASE ~HasTab(pdpe_, tables, i, j)
    <3>1. left # {}
      <4>1. CASE HasDir(pdpe_, i)
        <5>1. Cardinality(free_) >= 1
          BY <1>1, <1>3, <1>4, <2>2, <4>1, FS_CardinalityType DEF MissingTables
        <5>2. QED
          BY <1>4, <1>5, <4>1, <5>1, TakeOne
      <4>2. CASE ~HasDir(pdpe_, i)
        <5>1. Cardinality(free_) >= 2
          BY <1>1, <1>3, <1>4, <4>2, FS_CardinalityType DEF MissingTables
        <5>2. QED
          BY <1>4, <5>1, TakeTwo
      <4>3. QED
        BY <4>1, <4>2
    <3>2. left \in SUBSET Frames
      BY <1>4
    <3>3. QED
      BY <1>3, <2>2, <3>1, <3>2, MaxIn
  <2>3. QED
    BY <2>1, <2>2
<1>7. /\ pdp \in Frames /\ pte \in Frames
      /\ Found(pdpe_, tables, free_, i, j, pdp, pte)
      /\ A \in [Mid -> Records] /\ B \in [Low -> Records]
      /\ \A y \in Mid : IF HasDir(pdpe_, i) THEN A[y] = tables[pdp][y] ELSE ~A[y].p
      /\ \A z \in Low : IF HasTab(pdpe_, tables, i, j) THEN B[z] = tables[pte][z] ELSE ~B[z].p
  <2> HIDE DEF i, j, k, pdp, pte, A, B, e0, e1, e2
  <2>1. pdp \in Frames /\ pte \in Frames
    BY <1>4, <1>5, <1>6 DEF left
  <2>2. Found(pdpe_, tables, free_, i, j, pdp, pte)
    BY <1>5, <1>6 DEF Found, left
  <2>3. /\ A \in [Mid -> Records]
        /\ \A y \in Mid : IF HasDir(pdpe_, i) THEN A[y] = tables[pdp][y] ELSE ~A[y].p
    <3>1. CASE HasDir(pdpe_, i)
      BY <1>2, <1>5, <3>1 DEF Sound, Dirs
    <3>2. CASE ~HasDir(pdpe_, i)
      BY <1>5, <3>2, AbsentIs DEF EmptyTable, Mid
    <3>3. QED
      BY <3>1, <3>2
  <2>4. /\ B \in [Low -> Records]
        /\ \A z \in Low : IF HasTab(pdpe_, tables, i, j) THEN B[z] = tables[pte][z] ELSE ~B[z].p
    <3>1. CASE HasTab(pdpe_, tables, i, j)
      BY <1>2, <1>6, <3>1 DEF Sound, Tabs
    <3>2. CASE ~HasTab(pdpe_, tables, i, j)
      BY <1>6, <3>2, AbsentIs DEF EmptyTable, Low
    <3>3. QED
      BY <3>1, <3>2
  <2>5. QED
    BY <2>1, <2>2, <2>3, <2>4
<1>8. pdp # pte
  <2>1. CASE HasTab(pdpe_, tables, i, j)
    BY <1>2, <1>3, <1>5, <1>6, <2>1 DEF Sound, Apart
  <2>2. CASE ~HasTab(pdpe_, tables, i, j)
    BY <1>6, <2>2
  <2>3. QED
    BY <2>1, <2>2
<1>9. /\ e0 \in Records /\ e0.p /\ e0.addr = pdp
      /\ e1 \in Records /\ e1.p /\ e1.addr = pte
      /\ e2 \in Records /\ e2.p /\ e2.addr \in MapPages /\ e2 = Create(pg, Apply(perm, TRUE))
  <2> HIDE DEF pdp, pte
  <2>1. e0 \in Records /\ e0.p /\ e0.addr = pdp
    BY <1>7, RecordIs
  <2>2. e1 = Create(pte, Apply(perm, FALSE))
    BY DEF CombineTable, Create
  <2>3. e1 \in Records /\ e1.p /\ e1.addr = pte
    <3>1. Apply(perm, FALSE) \in SUBSET {"RW", "NX", "A", "D"}
      BY ApplyIs
    <3> HIDE DEF e1
    <3>2. QED
      BY <1>7, <2>2, <3>1, RecordIs
  <2>4. perm # {} /\ pg \in PageNos
    BY TableAssumption
  <2>5. e2 = Create(pg, Apply(perm, TRUE))
    BY <2>4 DEF CombineLeaf, Create
  <2>6. e2 \in Records /\ e2.p /\ e2.addr \in MapPages
    <3>1. Apply(perm, TRUE) \in SUBSET {"RW", "NX", "A", "D"}
      BY ApplyIs
    <3> HIDE DEF e2
    <3>2. QED
      BY <2>4, <2>5, <3>1, RecordIs
  <2>7. QED
    BY <2>1, <2>3, <2>5, <2>6
<1>10. pdpe_ \in [Top -> Records] /\ tables = [f \in Frames |-> tables[f]]
  BY DEF Sound, Typed
<1> HIDE DEF i, j, k, pdp, left, pte, A, B, e0, e1, e2
<1>11. /\ pdpe_' \in [Top -> Records] /\ pdpe_'[i] = e0
       /\ \A x \in Top \ {i} : pdpe_'[x] = pdpe_[x]
  BY <1>1, <1>2, <1>9, <1>10
<1>12. /\ tables' = [f \in Frames |-> tables'[f]]
       /\ \A f \in Frames \ {pdp, pte} : tables'[f] = tables[f]
       /\ tables'[pdp] = [A EXCEPT ![j] = e1]
       /\ tables'[pte] = [B EXCEPT ![k] = e2]
  BY <1>1, <1>7, <1>8, <1>10
<1>13. /\ tables'[pdp] \in [Mid -> Records] /\ tables'[pdp][j] = e1
       /\ \A y \in Mid \ {j} : tables'[pdp][y] = A[y]
  <2>1. j \in Mid /\ e1 \in Records /\ A \in [Mid -> Records] /\ tables'[pdp] = [A EXCEPT ![j] = e1]
    BY <1>2, <1>7, <1>9, <1>12
  <2>2. QED
    BY <2>1, ReplacedIs
<1>14. /\ tables'[pte] \in [Low -> Records] /\ tables'[pte][k] = e2
       /\ \A z \in Low \ {k} : tables'[pte][z] = B[z]
  <2>1. k \in Low /\ e2 \in Records /\ B \in [Low -> Records] /\ tables'[pte] = [B EXCEPT ![k] = e2]
    BY <1>2, <1>7, <1>9, <1>12
  <2>2. QED
    BY <2>1, ReplacedIs
<1>15. Wrote(pdpe_, tables, pdpe_', tables', i, j, k, pdp, pte)
  <2>1. HasDir(pdpe_', i) /\ Dir(pdpe_', i) = pdp
    BY <1>9, <1>11 DEF HasDir, Dir
  <2>2. \A y \in Mid \ {j} : IF HasDir(pdpe_, i) THEN tables'[pdp][y] = tables[pdp][y] ELSE ~tables'[pdp][y].p
    BY <1>7, <1>13
  <2>3. \A z \in Low \ {k} : IF HasTab(pdpe_, tables, i, j) THEN tables'[pte][z] = tables[pte][z] ELSE ~tables'[pte][z].p
    BY <1>7, <1>14
  <2>4. QED
    BY <1>9, <1>11, <1>12, <1>13, <1>14, <2>1, <2>2, <2>3 DEF Wrote
<1>16. free_' = free_ \ {pdp, pte}
  BY <1>1 DEF left
<1>17. Sound(pdpe_', tables', free_') /\ Given(v, tables'[pte][k])
  BY <1>2, <1>7, <1>15, <1>16, WriteStep DEF i, j, k
<1>18. QED
  BY <1>9, <1>14, <1>17

\* unmap clears the entry that it read.
LEMMA UnmapStep ==
  ASSUME Sound(pdpe_, tables, free_), call.at \in VPages, Mapped(call.at), UnmapClear
  PROVE  Sound(pdpe_', tables', free_') /\ Taken({call.at})
<1>1. ClearEntries({call.at})
  BY DEF UnmapClear
<1>2. QED
  BY <1>1, ClearStep

\* reduce_permission clears the entry, or writes it again with what is left.
LEMMA ReduceStep ==
  ASSUME Sound(pdpe_, tables, free_), call.at \in VPages, Mapped(call.at), ReduceStore
  PROVE  /\ Sound(pdpe_', tables', free_')
         /\ IF call.left = {} THEN Taken({call.at})
            ELSE Given(call.at, Create(Pte(call.at).addr, Apply(call.left, TRUE)))
<1> DEFINE v == call.at  left == call.left
           e == Create(Pte(v).addr, Apply(left, TRUE))
<1>1. /\ left = {} => ClearEntries({v})
      /\ left # {} => /\ tables' = [tables EXCEPT ![Pdp(v).addr][PteOff(v)] = CombineLeaf(@, left)]
                      /\ UNCHANGED <<pdpe_, free_>>
  BY DEF ReduceStore
<1> HIDE DEF v, left, e
<1>0. v \in VPages /\ Mapped(v)
  BY DEF v
<1>2. CASE left = {}
  <2>1. Sound(pdpe_', tables', free_') /\ Taken({v})
    BY <1>0, <1>1, <1>2, ClearStep
  <2>2. QED
    BY <1>2, <2>1 DEF v, left
<1>3. CASE left # {}
  <2>1. Pte(v).addr \in PageNos /\ Pte(v) = tables[Pdp(v).addr][PteOff(v)]
    BY <1>0, PteIs, TableAssumption
  <2>2. Apply(left, TRUE) \in SUBSET {"RW", "NX", "A", "D"}
    BY ApplyIs
  <2>3. e \in Records /\ e.p /\ e.addr = Pte(v).addr
    BY <2>1, <2>2, RecordIs DEF e
  <2>4. tables' = [tables EXCEPT ![Pdp(v).addr][PteOff(v)] = e] /\ UNCHANGED <<pdpe_, free_>>
    BY <1>1, <1>3, <2>1 DEF CombineLeaf, e
  <2>5. Sound(pdpe_', tables', free_') /\ Given(v, e)
    BY <1>0, <2>3, <2>4, ChangeStep
  <2>6. QED
    BY <1>3, <2>5 DEF e, v, left
<1>4. QED
  BY <1>2, <1>3

\* A step that only changes the flags of an entry.
LEMMA FlagStep ==
  ASSUME Sound(pdpe_, tables, free_), NEW v \in VPages, Mapped(v),
         NEW fl \in SUBSET {"RW", "NX", "A", "D"},
         tables' = [tables EXCEPT ![Pdp(v).addr][PteOff(v)].fl = fl],
         UNCHANGED <<pdpe_, free_>>
  PROVE  Sound(pdpe_', tables', free_') /\ Given(v, [Pte(v) EXCEPT !.fl = fl])
<1> DEFINE e == [Pte(v) EXCEPT !.fl = fl]
<1>1. Pte(v) \in Records /\ Pte(v).p /\ Pte(v) = tables[Pdp(v).addr][PteOff(v)]
  BY PteIs
<1>2. e \in Records /\ e.p /\ e.addr = Pte(v).addr
  BY <1>1 DEF Records
<1>3. tables' = [tables EXCEPT ![Pdp(v).addr][PteOff(v)] = e]
  BY <1>1
<1> HIDE DEF e
<1>4. Sound(pdpe_', tables', free_') /\ Given(v, e)
  BY <1>2, <1>3, ChangeStep
<1>5. QED
  BY <1>4 DEF e

LEMMA FlagsAre ==
  ASSUME Sound(pdpe_, tables, free_), NEW v \in VPages, Mapped(v)
  PROVE  /\ Pte(v).fl \in SUBSET {"RW", "NX", "A", "D"} /\ Pte(v).addr \in MapPages
         /\ Pte(v) = [p |-> TRUE, addr |-> Pte(v).addr, fl |-> Pte(v).fl]
         /\ Pte(v) = tables[Pdp(v).addr][PteOff(v)]
  BY PteIs DEF Records

LEMMA FlushStep ==
  ASSUME Sound(pdpe_, tables, free_), NEW v \in VPages, FlushAccessedDirty(v)
  PROVE  /\ Sound(pdpe_', tables', free_') /\ Mapped(v)
         /\ marks' = Credited(marks, Pte(v).addr, Pte(v).fl, NPte)
         /\ Given(v, [Pte(v) EXCEPT !.fl = @ \ {"A", "D"}])
<1>1. /\ Mapped(v) /\ marks' = Credited(marks, Pte(v).addr, Pte(v).fl, NPte)
      /\ tables' = [tables EXCEPT ![Pdp(v).addr][PteOff(v)].fl = @ \ {"A", "D"}]
      /\ UNCHANGED <<pdpe_, free_>>
  BY DEF FlushAccessedDirty
<1>2. Pte(v).fl \ {"A", "D"} \in SUBSET {"RW", "NX", "A", "D"} /\ Pte(v) = tables[Pdp(v).addr][PteOff(v)]
  BY <1>1, FlagsAre
<1>3. tables' = [tables EXCEPT ![Pdp(v).addr][PteOff(v)].fl = Pte(v).fl \ {"A", "D"}]
  BY <1>1, <1>2
<1>4. Sound(pdpe_', tables', free_') /\ Given(v, [Pte(v) EXCEPT !.fl = Pte(v).fl \ {"A", "D"}])
  BY <1>1, <1>2, <1>3, FlagStep
<1>5. QED
  BY <1>1, <1>4

LEMMA CpuStep ==
  ASSUME Sound(pdpe_, tables, free_), NEW v \in VPages, NEW fl \in SUBSET {"A", "D"}, CpuTouches(v, fl)
  PROVE  /\ Sound(pdpe_', tables', free_') /\ Mapped(v) /\ UNCHANGED <<marks, call>>
         /\ Given(v, [Pte(v) EXCEPT !.fl = @ \cup fl])
<1>1. /\ Mapped(v) /\ tables' = [tables EXCEPT ![Pdp(v).addr][PteOff(v)].fl = @ \cup fl]
      /\ UNCHANGED <<pdpe_, free_, marks, call>>
  BY DEF CpuTouches
<1>2. Pte(v).fl \cup fl \in SUBSET {"RW", "NX", "A", "D"} /\ Pte(v) = tables[Pdp(v).addr][PteOff(v)]
  BY <1>1, FlagsAre
<1>3. tables' = [tables EXCEPT ![Pdp(v).addr][PteOff(v)].fl = Pte(v).fl \cup fl]
  BY <1>1, <1>2
<1>4. Sound(pdpe_', tables', free_') /\ Given(v, [Pte(v) EXCEPT !.fl = Pte(v).fl \cup fl])
  BY <1>1, <1>2, <1>3, FlagStep
<1>5. QED
  BY <1>1, <1>4

LEMMA EmptyTop ==
  ASSUME NEW t, NEW fr
  PROVE  /\ EmptyTable(NPdpe) \in [Top -> Records]
         /\ \A i \in Top : ~HasDir(EmptyTable(NPdpe), i)
         /\ \A i \in Top, j \in Mid : ~HasTab(EmptyTable(NPdpe), t, i, j)
  BY AbsentIs DEF EmptyTable, Top, HasDir, HasTab

\* The tables that the model collects are those of the entries.
LEMMA TablesAre ==
  ASSUME Sound(pdpe_, tables, free_)
  PROVE  /\ PdpTables = {Dir(pdpe_, i) : i \in {x \in Top : HasDir(pdpe_, x)}}
         /\ \A f : f \in PteTables <=>
              \E i \in Top, j \in Mid : HasTab(pdpe_, tables, i, j) /\ f = Tab(pdpe_, tables, i, j)
<1>1. DOMAIN pdpe_ = Top
  BY DEF Sound, Typed
<1>2. PdpTables = {Dir(pdpe_, i) : i \in {x \in Top : HasDir(pdpe_, x)}}
  BY <1>1 DEF PdpTables, HasDir, Dir
<1>3. \A i \in Top : HasDir(pdpe_, i) => DOMAIN tables[Dir(pdpe_, i)] = Mid
  BY DEF Sound, Dirs
<1>4. ASSUME NEW f
      PROVE  f \in PteTables <=>
               \E i \in Top, j \in Mid : HasTab(pdpe_, tables, i, j) /\ f = Tab(pdpe_, tables, i, j)
  <2>1. f \in PteTables <=>
          \E d \in PdpTables : \E j \in DOMAIN tables[d] : tables[d][j].p /\ f = tables[d][j].addr
    BY DEF PteTables
  <2>2. QED
    BY <1>2, <1>3, <2>1 DEF HasTab, Tab
<1>5. QED
  BY <1>2, <1>4

\* ~pmap gives every table back.
LEMMA DestroyStep ==
  ASSUME Sound(pdpe_, tables, free_), Destroy
  PROVE  /\ Sound(pdpe_', tables', free_') /\ \A w \in VPages : ~Mapped(w)'
         /\ marks' = Deregistered({w \in VPages : Mapped(w)})
<1>1. /\ marks' = Deregistered({w \in VPages : Mapped(w)})
      /\ free_' = free_ \cup PdpTables \cup PteTables
      /\ tables' = [f \in Frames |-> IF f \in PdpTables \cup PteTables THEN << >> ELSE tables[f]]
      /\ pdpe_' = EmptyTable(NPdpe)
  BY DEF Destroy
<1>2. free_' = Frames
  <2>1. ASSUME NEW f \in Frames PROVE f \in free_ \cup PdpTables \cup PteTables
    BY TablesAre DEF Sound, Covered
  <2>2. ASSUME NEW f \in free_ \cup PdpTables \cup PteTables PROVE f \in Frames
    <3>1. CASE f \in free_
      BY <3>1 DEF Sound, Typed
    <3>2. CASE f \in PdpTables
      BY <3>2, TablesAre DEF Sound, Dirs
    <3>3. CASE f \in PteTables
      BY <3>3, TablesAre DEF Sound, Tabs
    <3>4. QED
      BY <2>2, <3>1, <3>2, <3>3
  <2>3. QED
    BY <1>1, <2>1, <2>2
<1>3. /\ tables' = [f \in Frames |-> tables'[f]]
      /\ \A f \in Frames : tables'[f] \in {<< >>} \cup [Mid -> Records] \cup [Low -> Records]
  BY <1>1 DEF Sound, Typed
<1>4. /\ pdpe_' \in [Top -> Records]
      /\ \A i \in Top : ~HasDir(pdpe_', i)
      /\ \A i \in Top, j \in Mid : ~HasTab(pdpe_', tables', i, j)
  BY <1>1, EmptyTop
<1>5. Sound(pdpe_', tables', free_')
  <2>1. Typed(pdpe_', tables', free_')
    BY <1>2, <1>3, <1>4 DEF Typed
  <2>2. Dirs(pdpe_', tables', free_') /\ Tabs(pdpe_', tables', free_') /\ Apart(pdpe_', tables')
    BY <1>4 DEF Dirs, Tabs, Apart
  <2>3. Leaves(pdpe_', tables')
    BY <1>4 DEF Leaves, HasPage
  <2>4. Covered(pdpe_', tables', free_')
    BY <1>2 DEF Covered
  <2>5. QED
    BY <2>1, <2>2, <2>3, <2>4 DEF Sound
<1>6. \A w \in VPages : ~Mapped(w)'
  BY <1>4, Parts, SeenAfter DEF HasPage
<1>7. QED
  BY <1>1, <1>5, <1>6

-----------------------------------------------------------------------------
(* How far unmap_ goes.                                                    *)

LEMMA VPagesNat == VPages \subseteq Nat
<1>1. NPdpe * NPdp * NPte - 1 \in Int
  BY TableAssumption
<1>2. QED
  BY <1>1 DEF VPages

LEMMA RangeIn ==
  ASSUME NEW v \in VPages, NEW n \in Nat \ {0}, v + n - 1 \in VPages
  PROVE  v .. v + n - 1 \subseteq VPages
<1>1. PICK m \in Int : m = NPdpe * NPdp * NPte - 1
  BY TableAssumption
<1>2. VPages = 0 .. m
  BY <1>1 DEF VPages
<1>3. QED
  BY <1>2

\* What is left of a count after a table that takes s off it.
Less(c, s) == IF c > s THEN c - s ELSE 0

\* The count at each table from a on, s[t] being what table t takes off.
Counts(f, a, b, c, s) ==
  /\ f \in [a .. b -> Nat] /\ f[a] = c
  /\ \A t \in a .. b - 1 : f[t + 1] = Less(f[t], s[t])

\* Counting up, table by table, there is always a next count.
LEMMA CountsExist ==
  ASSUME NEW a \in Nat, NEW b \in Nat, a <= b, NEW c \in Nat, NEW s \in [a .. b -> Nat]
  PROVE  \E f : Counts(f, a, b, c, s)
<1> DEFINE Bad == {m \in a .. b : ~\E f : Counts(f, a, m, c, s)}
<1>1. SUFFICES Bad = {}
  OBVIOUS
<1>2. SUFFICES ASSUME Bad # {} PROVE FALSE
  OBVIOUS
<1>3. Bad \in SUBSET Nat
  OBVIOUS
<1>4. PICK m \in Bad : \A x \in Bad : m <= x
  BY <1>2, <1>3, LeastOf
<1>5. m \in a .. b /\ m \in Nat /\ ~\E f : Counts(f, a, m, c, s)
  BY <1>4
<1>6. CASE m = a
  <2> DEFINE f == [t \in a .. a |-> c]
  <2>1. Counts(f, a, a, c, s)
    BY DEF Counts
  <2>2. QED
    BY <1>5, <1>6, <2>1
<1>7. CASE m # a
  <2>1. m - 1 \in a .. b /\ m - 1 \notin Bad
    BY <1>4, <1>5, <1>7
  <2>2. PICK f : Counts(f, a, m - 1, c, s)
    BY <2>1
  <2>3. f \in [a .. m - 1 -> Nat] /\ f[a] = c /\ \A t \in a .. m - 2 : f[t + 1] = Less(f[t], s[t])
    BY <1>5, <2>2 DEF Counts
  <2> DEFINE x == Less(f[m - 1], s[m - 1])
             g == [t \in a .. m |-> IF t = m THEN x ELSE f[t]]
  <2>4. x \in Nat
    BY <1>5, <2>1, <2>3 DEF Less
  <2>5. g \in [a .. m -> Nat] /\ g[a] = c /\ g[m] = x /\ \A t \in a .. m - 1 : g[t] = f[t]
    <3> HIDE DEF x
    <3>1. QED
      BY <1>5, <1>7, <2>3, <2>4
  <2>6. \A t \in a .. m - 1 : g[t + 1] = Less(g[t], s[t])
    <3> SUFFICES ASSUME NEW t \in a .. m - 1 PROVE g[t + 1] = Less(g[t], s[t])
      OBVIOUS
    <3>1. CASE t = m - 1
      BY <1>5, <2>5, <3>1
    <3>2. CASE t # m - 1
      <4>1. t \in a .. m - 2 /\ t + 1 \in a .. m - 1
        BY <1>5, <3>2
      <4> HIDE DEF g
      <4>2. QED
        BY <2>3, <2>5, <4>1
    <3>3. QED
      BY <3>1, <3>2
  <2> HIDE DEF g
  <2>7. Counts(g, a, m, c, s)
    BY <2>5, <2>6 DEF Counts
  <2>8. QED
    BY <1>5, <2>7
<1>8. QED
  BY <1>6, <1>7

\* The recursive function of Visited.
Left(v, c) ==
  CHOOSE f : f = [t \in v \div NPte .. NPdpe * NPdp - 1 |->
                    IF t = v \div NPte THEN c
                    ELSE IF f[t - 1] > Skip(v, t - 1) THEN f[t - 1] - Skip(v, t - 1) ELSE 0]

LEMMA VisitedAre ==
  ASSUME NEW v, NEW c
  PROVE  Visited(v, c) = {w \in VPages : /\ Mapped(w) /\ w \div NPte >= v \div NPte
                                         /\ PteOff(w) \in PteOff(v) .. PteOff(v) + Left(v, c)[w \div NPte] - 1}
  BY DEF Visited, Left

LEMMA SkipIs ==
  ASSUME NEW v \in VPages, NEW t \in v \div NPte .. NPdpe * NPdp - 1
  PROVE  Skip(v, t) \in Nat /\ Skip(v, v \div NPte) >= 1
<1> USE TableAssumption
<1>1. PteOff(v) \in Low /\ PdpeOff(v) \in Top
  BY Parts
<1>2. NPte - PteOff(v) \in Nat /\ NPte - PteOff(v) >= 1
  BY <1>1 DEF Low
<1>3. NPte * NPdp * (NPdpe - PdpeOff(v)) \in Nat /\ NPte * NPdp * (NPdpe - PdpeOff(v)) >= 1
  <2>1. PICK n \in Nat \ {0} : n = NPte * NPdp
    OBVIOUS
  <2>2. PICK k \in Nat \ {0} : k = NPdpe - PdpeOff(v)
    BY <1>1 DEF Top
  <2>3. n * k \in Nat /\ n * k >= 1
    OBVIOUS
  <2>4. QED
    BY <2>1, <2>2, <2>3
<1>4. QED
  BY <1>2, <1>3 DEF Skip

\* What Left is.
LEMMA LeftIs ==
  ASSUME NEW v \in VPages, NEW c \in Nat
  PROVE  LET a == v \div NPte
             b == NPdpe * NPdp - 1
         IN  /\ a \in Nat /\ b \in Nat /\ a <= b
             /\ Counts(Left(v, c), a, b, c, [t \in a .. b |-> Skip(v, t)])
<1> DEFINE a == v \div NPte  b == NPdpe * NPdp - 1  s == [t \in a .. b |-> Skip(v, t)]
           Is(f) == f = [t \in a .. b |-> IF t = a THEN c
                           ELSE IF f[t - 1] > Skip(v, t - 1) THEN f[t - 1] - Skip(v, t - 1) ELSE 0]
<1>1. a \in Nat /\ b \in Nat /\ a <= b
  <2>1. NPdpe * NPdp \in Nat
    BY TableAssumption
  <2>2. QED
    BY <2>1, Parts
<1>2. s \in [a .. b -> Nat] /\ \A t \in a .. b : s[t] = Skip(v, t)
  BY SkipIs
<1>3. PICK g : Counts(g, a, b, c, s)
  <2> HIDE DEF a, b, s
  <2>1. QED
    BY <1>1, <1>2, CountsExist
<1>4. Is(g)
  <2>1. g \in [a .. b -> Nat] /\ g[a] = c /\ \A t \in a .. b - 1 : g[t + 1] = Less(g[t], s[t])
    BY <1>3 DEF Counts
  <2>2. ASSUME NEW t \in a .. b, t # a
        PROVE  g[t] = IF g[t - 1] > Skip(v, t - 1) THEN g[t - 1] - Skip(v, t - 1) ELSE 0
    <3> HIDE DEF a, b, s
    <3>1. t - 1 \in a .. b - 1 /\ t - 1 \in a .. b /\ (t - 1) + 1 = t
      BY <1>1, <2>2
    <3>2. g[(t - 1) + 1] = Less(g[t - 1], s[t - 1])
      BY <2>1, <3>1
    <3>3. QED
      BY <1>2, <3>1, <3>2 DEF Less
  <2> HIDE DEF a, b
  <2>3. QED
    BY <2>1, <2>2
<1>5. Is(Left(v, c))
  BY <1>4 DEF Left
<1> DEFINE f == Left(v, c)
<1>6. /\ f = [t \in a .. b |-> f[t]] /\ f[a] = c
      /\ \A t \in a .. b : t # a => f[t] = Less(f[t - 1], Skip(v, t - 1))
  <2>1. Is(f)
    BY <1>5
  <2> HIDE DEF f, a, b
  <2>2. QED
    BY <1>1, <2>1 DEF Less
<1> HIDE DEF f, a, b, s, Is
<1>7. \A t \in a .. b : f[t] \in Nat
  <2> DEFINE Bad == {t \in a .. b : f[t] \notin Nat}
  <2>1. SUFFICES ASSUME Bad # {} PROVE FALSE
    OBVIOUS
  <2>2. Bad \in SUBSET Nat
    BY <1>1
  <2>3. PICK m \in Bad : \A x \in Bad : m <= x
    BY <2>1, <2>2, LeastOf
  <2>4. m # a /\ m \in a .. b /\ f[m] \notin Nat
    BY <1>6, <2>3
  <2>5. m - 1 \in a .. b /\ m - 1 \notin Bad
    BY <1>1, <2>3, <2>4
  <2>6. f[m - 1] \in Nat /\ Skip(v, m - 1) \in Nat
    BY <1>2, <2>5
  <2>7. f[m] = Less(f[m - 1], Skip(v, m - 1))
    BY <1>6, <2>4
  <2>8. Less(f[m - 1], Skip(v, m - 1)) \in Nat
    BY <2>6 DEF Less
  <2>9. QED
    BY <2>4, <2>7, <2>8
<1>8. \A t \in a .. b - 1 : f[t + 1] = Less(f[t], s[t])
  <2> SUFFICES ASSUME NEW t \in a .. b - 1 PROVE f[t + 1] = Less(f[t], s[t])
    OBVIOUS
  <2>1. t + 1 \in a .. b /\ t + 1 # a /\ (t + 1) - 1 = t /\ t \in a .. b
    BY <1>1
  <2>2. QED
    BY <1>2, <1>6, <2>1
<1>9. f \in [a .. b -> Nat]
  BY <1>6, <1>7
<1>10. Counts(f, a, b, c, s)
  BY <1>6, <1>8, <1>9 DEF Counts
<1>11. QED
  BY <1>1, <1>10 DEF f, a, b, s

\* A range within one table takes no count to the tables behind it.
LEMMA SkipsRange ==
  ASSUME NEW v \in VPages, NEW n \in Nat \ {0}, InOneTable(v, n)
  PROVE  Skip(v, v \div NPte) >= n
<1> USE TableAssumption
<1>1. PteOff(v) \in Low /\ PdpeOff(v) \in Top
  BY Parts
<1>2. NPte - PteOff(v) >= n /\ NPte >= n
  BY <1>1 DEF Low, InOneTable
<1>3. NPte * NPdp * (NPdpe - PdpeOff(v)) >= NPte
  <2>1. PICK k \in Nat \ {0} : k = NPdpe - PdpeOff(v)
    BY <1>1 DEF Top
  <2>2. NPdp * k \in Nat \ {0}
    OBVIOUS
  <2>3. PICK m \in Nat \ {0} : m = NPdp * k
    BY <2>2
  <2>4. NPte * m >= NPte
    OBVIOUS
  <2>5. NPte * NPdp * k = NPte * m
    BY <2>3
  <2>6. QED
    BY <2>1, <2>4, <2>5
<1>4. NPte * NPdp * (NPdpe - PdpeOff(v)) >= n
  <2> DEFINE x == NPte * NPdp * (NPdpe - PdpeOff(v))
  <2>1. x \in Int
    BY <1>1 DEF Top
  <2> HIDE DEF x
  <2>2. x >= NPte => x >= n
    BY <1>2, <2>1
  <2>3. QED
    BY <1>3, <2>2 DEF x
<1>5. QED
  BY <1>2, <1>4 DEF Skip

\* Numbers of one table, from v on.
LEMMA SameTable ==
  ASSUME NEW v \in VPages, NEW n \in Nat \ {0}, InOneTable(v, n), NEW w \in VPages
  PROVE  /\ w \in v .. v + n - 1 <=> /\ w \div NPte = v \div NPte
                                     /\ PteOff(w) \in PteOff(v) .. PteOff(v) + n - 1
<1>1. PICK a \in Nat, o \in Nat : /\ a = v \div NPte /\ o = PteOff(v) /\ v = NPte * a + o
                                  /\ o <= NPte - 1 /\ NPte \in Nat \ {0} /\ o + n <= NPte
  BY Parts, TableAssumption DEF Low, InOneTable
<1>2. PICK b \in Nat, k \in Nat : b = w \div NPte /\ k = PteOff(w) /\ w = NPte * b + k
  BY Parts, TableAssumption DEF Low
<1>3. ASSUME w \in v .. v + n - 1 PROVE b = a /\ k \in o .. o + n - 1
  <2> DEFINE r == w - v + o
  <2>1. r \in 0 .. NPte - 1 /\ r \in o .. o + n - 1
    <3>1. v \in Nat /\ w \in Nat
      BY VPagesNat
    <3>2. QED
      BY <1>1, <1>3, <3>1
  <2>2. w = NPte * a + r
    <3> DEFINE x == NPte * a
    <3>1. x \in Int /\ v \in Int /\ w \in Int
      BY <1>1, VPagesNat
    <3> HIDE DEF x
    <3>2. v = x + o => w = x + (w - v + o)
      BY <1>1, <3>1
    <3>3. QED
      BY <1>1, <3>2 DEF x
  <2> HIDE DEF r
  <2>3. w \div NPte = a /\ w % NPte = r
    <3>1. w \in Nat /\ NPte \in Nat \ {0} /\ r \in 0 .. NPte - 1 /\ w = NPte * a + r
      BY <1>1, <2>1, <2>2, VPagesNat
    <3>2. QED
      BY <3>1, DivIs
  <2>4. QED
    BY <1>2, <2>1, <2>3 DEF PteOff
<1>4. ASSUME b = a, k \in o .. o + n - 1 PROVE w \in v .. v + n - 1
  <2> DEFINE x == NPte * a
  <2>1. x \in Int
    BY <1>1
  <2>2. v = x + o /\ w = x + k
    BY <1>1, <1>2, <1>4
  <2> HIDE DEF x
  <2>3. QED
    BY <1>1, <1>2, <1>4, <2>1, <2>2
<1>5. QED
  BY <1>1, <1>2, <1>3, <1>4

\* unmap(v, n) comes to every page of its range that is mapped, and to no other.
LEMMA VisitedIs ==
  ASSUME NEW v \in VPages, NEW n \in Nat \ {0}, InOneTable(v, n), v + n - 1 \in VPages
  PROVE  Visited(v, n) = {w \in v .. v + n - 1 : Mapped(w)}
<1> DEFINE G == Visited(v, n)  f == Left(v, n)  o == PteOff(v)
           a == v \div NPte  b == NPdpe * NPdp - 1  s == [t \in a .. b |-> Skip(v, t)]
<1>1. a \in Nat /\ b \in Nat /\ a <= b /\ Counts(f, a, b, n, s)
  BY LeftIs
<1>2. /\ f \in [a .. b -> Nat] /\ f[a] = n
      /\ \A t \in a .. b - 1 : f[t + 1] = Less(f[t], Skip(v, t))
  <2>1. \A t \in a .. b - 1 : s[t] = Skip(v, t)
    BY <1>1
  <2> HIDE DEF s
  <2>2. QED
    BY <1>1, <2>1 DEF Counts
<1>3. \A t \in a .. b : Skip(v, t) \in Nat
  BY SkipIs
<1>4. Skip(v, a) >= n
  BY SkipsRange
<1>5. \A w : w \in G <=> /\ w \in VPages /\ Mapped(w) /\ w \div NPte >= a
                         /\ PteOff(w) \in o .. o + f[w \div NPte] - 1
  BY VisitedAre
<1>6. \A w \in VPages : w \div NPte >= a => w \div NPte \in a .. b
  BY <1>1, Parts
<1>7. o \in Nat
  BY Parts, TableAssumption DEF Low
<1>8. \A w \in VPages : w \in v .. v + n - 1 <=> w \div NPte = a /\ PteOff(w) \in o .. o + n - 1
  BY SameTable
<1>9. v .. v + n - 1 \subseteq VPages
  BY RangeIn
<1> HIDE DEF G, f, o, a, b, s
<1>10. ASSUME NEW t \in a .. b, t # a PROVE f[t] = 0
  <2> DEFINE Bad == {x \in a .. b : x # a /\ f[x] # 0}
  <2>1. Bad \in SUBSET Nat
    BY <1>1
  <2>2. ASSUME Bad # {} PROVE FALSE
    <3>1. PICK m \in Bad : \A x \in Bad : m <= x
      BY <2>1, <2>2, LeastOf
    <3>2. m \in a .. b /\ m # a /\ f[m] # 0
      BY <3>1
    <3>3. m - 1 \in a .. b - 1 /\ m - 1 \notin Bad /\ (m - 1) + 1 = m
      BY <1>1, <3>1, <3>2
    <3>4. f[m] = Less(f[m - 1], Skip(v, m - 1))
      BY <1>2, <3>3
    <3>5. m - 1 \in a .. b
      BY <1>1, <3>2
    <3>6. CASE m - 1 = a
      BY <1>1, <1>2, <1>3, <1>4, <3>2, <3>4, <3>5, <3>6 DEF Less
    <3>7. CASE m - 1 # a
      <4>1. f[m - 1] = 0
        BY <3>3, <3>5, <3>7
      <4>2. Skip(v, m - 1) \in Nat
        BY <1>3, <3>5
      <4>3. QED
        BY <3>2, <3>4, <4>1, <4>2 DEF Less
    <3>8. QED
      BY <3>6, <3>7
  <2>3. QED
    BY <1>10, <2>2
<1>11. ASSUME NEW w \in G PROVE w \in v .. v + n - 1 /\ Mapped(w)
  <2>1. w \in VPages /\ Mapped(w) /\ w \div NPte \in a .. b /\ PteOff(w) \in o .. o + f[w \div NPte] - 1
    BY <1>5, <1>6
  <2>2. w \div NPte = a
    <3>1. ASSUME w \div NPte # a PROVE FALSE
      <4>1. f[w \div NPte] = 0
        BY <1>10, <2>1, <3>1
      <4>2. QED
        BY <1>7, <2>1, <4>1
    <3>2. QED
      BY <3>1
  <2>3. QED
    BY <1>2, <1>8, <2>1, <2>2
<1>12. ASSUME NEW w \in v .. v + n - 1, Mapped(w) PROVE w \in G
  <2>1. w \in VPages /\ w \div NPte = a /\ PteOff(w) \in o .. o + n - 1
    BY <1>8, <1>9
  <2>2. QED
    BY <1>1, <1>2, <1>5, <1>12, <2>1
<1>13. QED
  BY <1>11, <1>12 DEF G

-----------------------------------------------------------------------------
(* The tables hold together.                                               *)

\* The call under way: the pages of its range that are mapped are those that it
\* has still to come to; the entry that it has read is still there and allows
\* what it allowed then, and the flags that it read are with the page.
CallOK ==
  /\ call \in [op : {"idle", "unmap", "clear", "reduce"}, range : SUBSET VPages,
               todo : SUBSET VPages, at : VPages, seen : SUBSET {"A", "D"},
               left : SUBSET {"R", "W", "X"}, ad : BOOLEAN]
  /\ call.op \in {"unmap", "clear"} => call.todo = {w \in call.range : Mapped(w)}
  /\ call.op = "clear" => call.at \in call.todo
  /\ call.op = "reduce" =>
       /\ Mapped(call.at)
       /\ \E perm \in ReducePerms : call.left = perm \cap GetPermission(Pte(call.at).fl)
  /\ call.op = "clear" \/ (call.op = "reduce" /\ (call.ad \/ call.left = {})) =>
       call.seen \subseteq marks[Pte(call.at).addr]

IInv ==
  /\ Sound(pdpe_, tables, free_)
  /\ marks \in [PageNos -> SUBSET {"A", "D"}]
  /\ CallOK

LEMMA ZeroIn == 0 \in VPages
<1>1. NPdpe * NPdp * NPte \in Nat \ {0}
  <2>1. NPdpe * NPdp \in Nat \ {0}
    BY TableAssumption
  <2>2. PICK x \in Nat \ {0} : x = NPdpe * NPdp
    BY <2>1
  <2>3. x * NPte \in Nat \ {0}
    BY TableAssumption
  <2>4. QED
    BY <2>2, <2>3
<1>2. QED
  BY <1>1 DEF VPages

LEMMA IdleOK == ASSUME call = Idle PROVE CallOK
  BY ZeroIn DEF CallOK, Idle

LEMMA IdleAfter == ASSUME call' = Idle PROVE CallOK'
  BY ZeroIn DEF CallOK, Idle

LEMMA InitHolds == Init => IInv
<1> SUFFICES ASSUME Init PROVE IInv
  OBVIOUS
<1>1. pdpe_ = EmptyTable(NPdpe) /\ tables = [f \in Frames |-> << >>] /\ free_ = Frames
  BY DEF Init
<1>2. /\ pdpe_ \in [Top -> Records]
      /\ \A i \in Top : ~HasDir(pdpe_, i)
      /\ \A i \in Top, j \in Mid : ~HasTab(pdpe_, tables, i, j)
  BY <1>1, EmptyTop
<1>3. Typed(pdpe_, tables, free_)
  BY <1>1, <1>2 DEF Typed
<1>4. Dirs(pdpe_, tables, free_) /\ Tabs(pdpe_, tables, free_) /\ Apart(pdpe_, tables)
  BY <1>2 DEF Dirs, Tabs, Apart
<1>5. Leaves(pdpe_, tables) /\ Covered(pdpe_, tables, free_)
  BY <1>1, <1>2 DEF Leaves, HasPage, Covered
<1>6. marks \in [PageNos -> SUBSET {"A", "D"}]
  BY DEF Init
<1>7. CallOK
  BY IdleOK DEF Init
<1>8. QED
  BY <1>3, <1>4, <1>5, <1>6, <1>7 DEF IInv, Sound

LEMMA CreditedType ==
  ASSUME NEW mk \in [PageNos -> SUBSET {"A", "D"}], NEW from, NEW fl, NEW n
  PROVE  Credited(mk, from, fl, n) \in [PageNos -> SUBSET {"A", "D"}]
  BY DEF Credited

LEMMA DeregisteredType ==
  ASSUME marks \in [PageNos -> SUBSET {"A", "D"}], NEW vs
  PROVE  Deregistered(vs) \in [PageNos -> SUBSET {"A", "D"}]
<1>1. ASSUME NEW q \in PageNos
      PROVE  UNION {Pte(v).fl \cap {"A", "D"} : v \in {w \in vs : Pte(w).addr = q}} \subseteq {"A", "D"}
  OBVIOUS
<1>2. QED
  BY <1>1 DEF Deregistered

LEMMA CreditedHas ==
  ASSUME NEW mk, NEW a \in PageNos, NEW fl, marks' = Credited(mk, a, fl, NPte)
  PROVE  fl \cap {"A", "D"} \subseteq marks'[a]
<1>1. a \in a .. a + NPte - 1
  BY TableAssumption
<1>2. QED
  BY <1>1 DEF Credited

LEMMA DeregisteredHas ==
  ASSUME NEW vs, NEW v \in vs, Pte(v).addr \in PageNos, marks' = Deregistered(vs)
  PROVE  Pte(v).fl \cap {"A", "D"} \subseteq marks'[Pte(v).addr]
<1> DEFINE a == Pte(v).addr
<1>1. marks'[a] = marks[a] \cup UNION {Pte(w).fl \cap {"A", "D"} : w \in {x \in vs : Pte(x).addr = a}}
  BY DEF Deregistered
<1>2. v \in {x \in vs : Pte(x).addr = a}
  OBVIOUS
<1> HIDE DEF a
<1>3. Pte(v).fl \cap {"A", "D"} \in {Pte(w).fl \cap {"A", "D"} : w \in {x \in vs : Pte(x).addr = a}}
  BY <1>2
<1>4. QED
  BY <1>1, <1>3 DEF a

\* Steps that leave the tables alone.
LEMMA SameTables ==
  ASSUME UNCHANGED <<pdpe_, tables>>
  PROVE  \A w : (Mapped(w)' <=> Mapped(w)) /\ Pte(w)' = Pte(w)
  BY DEF Mapped, HasPte, Pdpe, Pdp, Pte

LEMMA BeginKeeps ==
  ASSUME IInv, NEW v \in VPages, NEW n \in Nat \ {0}, UnmapBegin(v, n)
  PROVE  /\ IInv' /\ UNCHANGED <<pdpe_, tables, free_, marks>>
         /\ v + n - 1 \in VPages /\ call = Idle /\ call'.op = "unmap" /\ call'.range = v .. v + n - 1
<1> DEFINE R == v .. v + n - 1
<1>1. /\ call = Idle /\ v + n - 1 \in VPages /\ InOneTable(v, n)
      /\ call' = [Idle EXCEPT !.op = "unmap", !.range = R, !.todo = Visited(v, n)]
      /\ UNCHANGED <<pdpe_, tables, free_, marks>>
  BY DEF UnmapBegin
<1>2. R \in SUBSET VPages
  BY <1>1, RangeIn
<1>3. Visited(v, n) = {w \in R : Mapped(w)}
  BY <1>1, VisitedIs
<1> HIDE DEF R
<1>4. call' = [op |-> "unmap", range |-> R, todo |-> {w \in R : Mapped(w)}, at |-> 0, seen |-> {},
               left |-> {}, ad |-> TRUE]
  BY <1>1, <1>3 DEF Idle
<1>5. \A w : Mapped(w)' <=> Mapped(w)
  BY <1>1, SameTables
<1>6. CallOK'
  BY <1>2, <1>4, <1>5, ZeroIn DEF CallOK
<1>7. QED
  BY <1>1, <1>4, <1>6 DEF IInv, Sound, Typed, R

LEMMA ReadKeeps ==
  ASSUME IInv, UnmapRead
  PROVE  /\ IInv' /\ UNCHANGED <<pdpe_, tables, free_>> /\ \A q \in PageNos : marks[q] \subseteq marks'[q]
         /\ call.op = "unmap" /\ call'.op = "clear" /\ call'.range = call.range
<1>1. PICK w \in call.todo :
        /\ call.op = "unmap" /\ marks' = Deregistered({w}) /\ UNCHANGED <<pdpe_, tables, free_>>
        /\ call' = [call EXCEPT !.op = "clear", !.at = w, !.seen = Pte(w).fl \cap {"A", "D"}]
  BY DEF UnmapRead
<1>2. /\ CallOK /\ call.range \in SUBSET VPages /\ call.todo = {x \in call.range : Mapped(x)}
      /\ call.left \in SUBSET {"R", "W", "X"} /\ call.ad \in BOOLEAN
  BY <1>1 DEF IInv, CallOK
<1>3. call' = [op |-> "clear", range |-> call.range, todo |-> call.todo, at |-> w,
               seen |-> Pte(w).fl \cap {"A", "D"}, left |-> call.left, ad |-> call.ad]
  BY <1>1, <1>2 DEF CallOK
<1>4. w \in VPages /\ Mapped(w)
  BY <1>2
<1>5. Pte(w).addr \in PageNos
  BY <1>4, PteIs, TableAssumption DEF IInv
<1>6. Pte(w).fl \cap {"A", "D"} \subseteq marks'[Pte(w).addr]
  BY <1>1, <1>5, DeregisteredHas
<1>7. \A x : (Mapped(x)' <=> Mapped(x)) /\ Pte(x)' = Pte(x)
  BY <1>1, SameTables
<1>8. marks' \in [PageNos -> SUBSET {"A", "D"}] /\ \A q \in PageNos : marks[q] \subseteq marks'[q]
  BY <1>1, DeregisteredType DEF IInv, Deregistered
<1>9. CallOK'
  <2>1. Pte(call.at)' = Pte(w)'
    BY <1>3 DEF Pte, Pdp, Pdpe
  <2>2. call'.seen \subseteq marks'[Pte(call.at)'.addr]
    BY <1>3, <1>6, <1>7, <2>1
  <2>3. call'.todo = {x \in call'.range : Mapped(x)'}
    BY <1>2, <1>3, <1>7
  <2>4. call' \in [op : {"idle", "unmap", "clear", "reduce"}, range : SUBSET VPages,
               todo : SUBSET VPages, at : VPages, seen : SUBSET {"A", "D"},
               left : SUBSET {"R", "W", "X"}, ad : BOOLEAN]
    BY <1>2, <1>3, <1>4
  <2>5. QED
    BY <1>3, <2>2, <2>3, <2>4 DEF CallOK
<1>10. QED
  BY <1>1, <1>3, <1>8, <1>9 DEF IInv, Sound, Typed

LEMMA ClearKeeps ==
  ASSUME IInv, UnmapClear
  PROVE  /\ IInv' /\ call.op = "clear" /\ call.at \in call.range /\ call.at \in VPages
         /\ Taken({call.at}) /\ UNCHANGED marks
         /\ call'.op = "unmap" /\ call'.range = call.range /\ call.seen \subseteq marks[Pte(call.at).addr]
<1> DEFINE u == call.at
<1>1. /\ call.op = "clear" /\ UNCHANGED marks
      /\ call' = [call EXCEPT !.op = "unmap", !.todo = @ \ {call.at}, !.at = 0, !.seen = {}]
  BY DEF UnmapClear
<1>2. /\ call.range \in SUBSET VPages /\ call.todo = {x \in call.range : Mapped(x)} /\ u \in call.todo
      /\ call.left \in SUBSET {"R", "W", "X"} /\ call.ad \in BOOLEAN
      /\ call.seen \subseteq marks[Pte(call.at).addr]
  BY <1>1 DEF IInv, CallOK
<1>3. call' = [op |-> "unmap", range |-> call.range, todo |-> call.todo \ {u}, at |-> 0,
               seen |-> {}, left |-> call.left, ad |-> call.ad]
  BY <1>1 DEF IInv, CallOK
<1>4. u \in VPages /\ Mapped(u)
  BY <1>2
<1>5. Sound(pdpe_', tables', free_') /\ Taken({u})
  BY <1>4, UnmapStep DEF IInv
<1> HIDE DEF u
<1>6. call'.todo = {x \in call'.range : Mapped(x)'}
  <2>1. \A x \in call.range : Mapped(x)' <=> Mapped(x) /\ x # u
    BY <1>2, <1>5 DEF Taken
  <2>2. QED
    BY <1>2, <1>3, <2>1
<1>7. CallOK'
  BY <1>2, <1>3, <1>6, ZeroIn DEF CallOK
<1>8. QED
  BY <1>1, <1>2, <1>3, <1>4, <1>5, <1>7 DEF IInv, u

LEMMA ReduceReadKeeps ==
  ASSUME IInv, NEW v \in VPages, NEW perm \in ReducePerms, NEW ad \in BOOLEAN, ReduceRead(v, perm, ad)
  PROVE  /\ IInv' /\ UNCHANGED <<pdpe_, tables, free_>> /\ \A q \in PageNos : marks[q] \subseteq marks'[q]
         /\ call = Idle /\ call'.op = "reduce"
<1> DEFINE left == perm \cap GetPermission(Pte(v).fl)
<1>1. /\ call = Idle /\ Mapped(v) /\ UNCHANGED <<pdpe_, tables, free_>>
      /\ marks' = IF ad \/ left = {} THEN Credited(marks, Pte(v).addr, Pte(v).fl, NPte) ELSE marks
      /\ call' = [Idle EXCEPT !.op = "reduce", !.at = v, !.seen = Pte(v).fl \cap {"A", "D"},
                              !.left = left, !.ad = ad]
  BY DEF ReduceRead
<1>2. call' = [op |-> "reduce", range |-> {}, todo |-> {}, at |-> v,
               seen |-> Pte(v).fl \cap {"A", "D"}, left |-> left, ad |-> ad]
  BY <1>1 DEF Idle
<1>3. left \in SUBSET {"R", "W", "X"}
  BY TableAssumption
<1> HIDE DEF left
<1>4. Pte(v).addr \in PageNos
  BY <1>1, PteIs, TableAssumption DEF IInv
<1>5. ad \/ left = {} => Pte(v).fl \cap {"A", "D"} \subseteq marks'[Pte(v).addr]
  BY <1>1, <1>4, CreditedHas
<1>6. marks' \in [PageNos -> SUBSET {"A", "D"}] /\ \A q \in PageNos : marks[q] \subseteq marks'[q]
  <2>1. marks \in [PageNos -> SUBSET {"A", "D"}]
    BY DEF IInv
  <2>2. Credited(marks, Pte(v).addr, Pte(v).fl, NPte) \in [PageNos -> SUBSET {"A", "D"}]
    BY <2>1, CreditedType
  <2>3. \A q \in PageNos : marks[q] \subseteq Credited(marks, Pte(v).addr, Pte(v).fl, NPte)[q]
    BY DEF Credited
  <2>4. QED
    BY <1>1, <2>1, <2>2, <2>3
<1>7. \A x : (Mapped(x)' <=> Mapped(x)) /\ Pte(x)' = Pte(x)
  BY <1>1, SameTables
<1>8. CallOK'
  <2>1. Pte(call.at)' = Pte(v)' /\ Mapped(call.at)' = Mapped(v)'
    BY <1>2 DEF Pte, Mapped, HasPte, Pdpe, Pdp
  <2>2. Mapped(call.at)' /\ Pte(call.at)' = Pte(v)
    BY <1>1, <1>7, <2>1
  <2>3. left = perm \cap GetPermission(Pte(call.at)'.fl)
    BY <2>2 DEF left
  <2>4. GetPermission(Pte(call.at).fl)' = GetPermission(Pte(call.at)'.fl)
    BY DEF GetPermission
  <2>5. \E r \in ReducePerms : call'.left = r \cap GetPermission(Pte(call.at).fl)'
    BY <1>2, <2>3, <2>4
  <2>6. call'.ad \/ call'.left = {} => call'.seen \subseteq marks'[Pte(call.at)'.addr]
    BY <1>2, <1>5, <2>2
  <2>7. call' \in [op : {"idle", "unmap", "clear", "reduce"}, range : SUBSET VPages,
               todo : SUBSET VPages, at : VPages, seen : SUBSET {"A", "D"},
               left : SUBSET {"R", "W", "X"}, ad : BOOLEAN]
    BY <1>2, <1>3
  <2>8. call'.op = "reduce"
    BY <1>2
  <2>9. QED
    BY <2>2, <2>5, <2>6, <2>7, <2>8 DEF CallOK
<1>9. QED
  BY <1>1, <1>2, <1>6, <1>8 DEF IInv, Sound, Typed

LEMMA StoreKeeps ==
  ASSUME IInv, ReduceStore
  PROVE  /\ IInv' /\ call.op = "reduce" /\ call' = Idle /\ UNCHANGED marks /\ call.at \in VPages
         /\ Mapped(call.at)
         /\ \E perm \in ReducePerms : call.left = perm \cap GetPermission(Pte(call.at).fl)
         /\ IF call.left = {} THEN Taken({call.at})
            ELSE Given(call.at, Create(Pte(call.at).addr, Apply(call.left, TRUE)))
         /\ call.ad \/ call.left = {} => call.seen \subseteq marks[Pte(call.at).addr]
<1>1. call.op = "reduce" /\ call' = Idle /\ UNCHANGED marks
  BY DEF ReduceStore
<1>2. /\ call.at \in VPages /\ Mapped(call.at)
      /\ \E perm \in ReducePerms : call.left = perm \cap GetPermission(Pte(call.at).fl)
      /\ call.ad \/ call.left = {} => call.seen \subseteq marks[Pte(call.at).addr]
  BY <1>1 DEF IInv, CallOK
<1>3. /\ Sound(pdpe_', tables', free_')
      /\ IF call.left = {} THEN Taken({call.at})
         ELSE Given(call.at, Create(Pte(call.at).addr, Apply(call.left, TRUE)))
  BY <1>2, ReduceStep DEF IInv
<1>4. CallOK'
  BY <1>1, IdleAfter
<1>5. IInv'
  BY <1>1, <1>3, <1>4 DEF IInv
<1>6. QED
  BY <1>1, <1>2, <1>3, <1>5

\* The processor changes nothing that a call under way counts on.
LEMMA CpuKeeps ==
  ASSUME IInv, NEW v \in VPages, NEW fl \in SUBSET {"A", "D"}, CpuTouches(v, fl) PROVE IInv'
<1>1. /\ Sound(pdpe_', tables', free_') /\ Mapped(v) /\ UNCHANGED <<marks, call>>
      /\ Given(v, [Pte(v) EXCEPT !.fl = @ \cup fl])
  BY CpuStep DEF IInv
<1>2. ASSUME NEW w \in VPages
      PROVE  /\ Mapped(w)' <=> Mapped(w)
             /\ Mapped(w) => /\ Pte(w)'.addr = Pte(w).addr
                             /\ GetPermission(Pte(w)'.fl) = GetPermission(Pte(w).fl)
  <2>1. CASE w = v
    <3>1. Pte(v) = [p |-> TRUE, addr |-> Pte(v).addr, fl |-> Pte(v).fl]
      BY <1>1, FlagsAre DEF IInv
    <3>2. Mapped(v)' /\ Pte(v)' = [Pte(v) EXCEPT !.fl = @ \cup fl]
      BY <1>1 DEF Given
    <3>3. Pte(v)'.addr = Pte(v).addr /\ Pte(v)'.fl = Pte(v).fl \cup fl
      BY <3>1, <3>2
    <3>4. GetPermission(Pte(v).fl \cup fl) = GetPermission(Pte(v).fl)
      BY DEF GetPermission
    <3>5. QED
      BY <1>1, <2>1, <3>2, <3>3, <3>4
  <2>2. CASE w # v
    <3>1. w \in VPages \ {v}
      BY <2>2
    <3>2. (Mapped(w)' <=> Mapped(w)) /\ (Mapped(w) => Pte(w)' = Pte(w))
      BY <1>1, <3>1 DEF Given
    <3>3. QED
      BY <3>2
  <2>3. QED
    BY <2>1, <2>2
<1>3. CallOK
  BY DEF IInv
<1>4. CallOK'
  <2>2. call.at \in VPages /\ call.range \in SUBSET VPages
    BY <1>3 DEF CallOK
  <2>3. PICK c : c = call /\ c = call'
    BY <1>1
  <2>4. (Mapped(call.at)' <=> Mapped(c.at)') /\ Pte(call.at)' = Pte(c.at)'
    BY <2>3 DEF Mapped, Pte, HasPte, Pdpe, Pdp
  <2>5. {w \in c.range : Mapped(w)'} = {w \in c.range : Mapped(w)}
    BY <1>2, <2>2, <2>3
  <2>6. Mapped(call.at)' <=> Mapped(c.at)
    BY <1>2, <2>2, <2>3, <2>4
  <2>7. Mapped(c.at) => /\ Pte(call.at)'.addr = Pte(c.at).addr
                        /\ GetPermission(Pte(call.at)'.fl) = GetPermission(Pte(c.at).fl)
    BY <1>2, <2>2, <2>3, <2>4
  <2>8. GetPermission(Pte(call.at).fl)' = GetPermission(Pte(call.at)'.fl)
    BY DEF GetPermission
  <2>9. c.op = "clear" => Mapped(c.at)
    BY <1>3, <2>3 DEF CallOK
  <2>10. c.op = "reduce" => Mapped(c.at)
    BY <1>3, <2>3 DEF CallOK
  <2>11. c.op = "reduce" => \E perm \in ReducePerms : c.left = perm \cap GetPermission(Pte(call.at).fl)'
    <3>1. SUFFICES ASSUME c.op = "reduce"
                   PROVE  \E perm \in ReducePerms : c.left = perm \cap GetPermission(Pte(call.at).fl)'
      OBVIOUS
    <3>2. PICK perm \in ReducePerms : c.left = perm \cap GetPermission(Pte(c.at).fl)
      BY <1>3, <2>3, <3>1 DEF CallOK
    <3>3. QED
      BY <2>7, <2>8, <2>10, <3>1, <3>2
  <2>12. c.op = "clear" \/ (c.op = "reduce" /\ (c.ad \/ c.left = {})) =>
           c.seen \subseteq marks'[Pte(call.at)'.addr]
    BY <1>1, <1>3, <2>3, <2>7, <2>9, <2>10 DEF CallOK
  <2>13. /\ c \in [op : {"idle", "unmap", "clear", "reduce"}, range : SUBSET VPages,
               todo : SUBSET VPages, at : VPages, seen : SUBSET {"A", "D"},
               left : SUBSET {"R", "W", "X"}, ad : BOOLEAN]
         /\ c.op \in {"unmap", "clear"} => c.todo = {w \in c.range : Mapped(w)'}
         /\ c.op = "clear" => c.at \in c.todo
    BY <1>3, <2>3, <2>5 DEF CallOK
  <2>14. QED
    BY <2>3, <2>6, <2>10, <2>11, <2>12, <2>13 DEF CallOK
<1>5. QED
  BY <1>1, <1>4 DEF IInv

\* One case for each operation.
LEMMA StepKeeps == ASSUME IInv, [Next]_vars PROVE IInv'
<1>0. Sound(pdpe_, tables, free_) /\ marks \in [PageNos -> SUBSET {"A", "D"}] /\ MapAt \subseteq VPages
  BY MapAtAssumption DEF IInv
<1>1. ASSUME NEW v \in MapAt, NEW pg \in MapPages, NEW perm \in MapPerms, Map(v, pg, perm)
      PROVE  IInv'
  <2>1. Sound(pdpe_', tables', free_')
    BY <1>0, <1>1, MapStep
  <2>2. marks' = marks /\ call' = Idle
    BY <1>1 DEF Map
  <2>3. QED
    BY <1>0, <2>1, <2>2, IdleAfter DEF IInv
<1>2. ASSUME NEW v \in MapAt, MapFails(v) PROVE IInv'
  <2>1. UNCHANGED vars /\ call' = Idle
    BY <1>2 DEF MapFails, vars
  <2>2. QED
    BY <1>0, <2>1, IdleAfter DEF vars, IInv
<1>3. ASSUME NEW v \in MapAt, NEW n \in 1 .. MaxUnmap, UnmapBegin(v, n) PROVE IInv'
  <2>1. v \in VPages /\ n \in Nat \ {0}
    BY <1>0
  <2>2. QED
    BY <1>3, <2>1, BeginKeeps
<1>4. CASE UnmapRead \/ UnmapClear \/ ReduceStore
  BY <1>4, ReadKeeps, ClearKeeps, StoreKeeps
<1>5. CASE UnmapReturns
  <2>1. UNCHANGED <<pdpe_, tables, free_, marks>> /\ call' = Idle
    BY <1>5 DEF UnmapReturns
  <2>2. QED
    BY <1>0, <2>1, IdleAfter DEF IInv
<1>6. ASSUME NEW v \in MapAt, NEW perm \in ReducePerms, NEW ad \in BOOLEAN, ReduceRead(v, perm, ad)
      PROVE  IInv'
  <2>1. v \in VPages
    BY <1>0
  <2>2. QED
    BY <1>6, <2>1, ReduceReadKeeps
<1>7. ASSUME NEW v \in MapAt, FlushAccessedDirty(v) PROVE IInv'
  <2>1. v \in VPages
    BY <1>0
  <2>2. Sound(pdpe_', tables', free_') /\ marks' = Credited(marks, Pte(v).addr, Pte(v).fl, NPte)
    BY <1>0, <1>7, <2>1, FlushStep
  <2>3. CallOK'
    BY <1>7, IdleAfter DEF FlushAccessedDirty
  <2>4. QED
    BY <1>0, <2>2, <2>3, CreditedType DEF IInv
<1>8. CASE Destroy
  <2>1. CallOK'
    BY <1>8, IdleAfter DEF Destroy
  <2>2. QED
    BY <1>0, <1>8, <2>1, DestroyStep, DeregisteredType DEF IInv
<1>9. CASE CpuReads \/ CpuWrites
  <2>1. PICK v \in TouchAt, fl \in SUBSET {"A", "D"} : CpuTouches(v, fl)
    BY <1>9 DEF CpuReads, CpuWrites
  <2>2. v \in VPages
    BY MapAtAssumption
  <2>3. QED
    BY <2>1, <2>2, CpuKeeps
<1>10. CASE UNCHANGED vars
  <2>1. CallOK'
    <3>1. UNCHANGED <<pdpe_, tables, marks, call>>
      BY <1>10 DEF vars
    <3>2. QED
      BY <3>1 DEF IInv, CallOK, Mapped, HasPte, Pdpe, Pdp, Pte, GetPermission
  <2>2. QED
    BY <1>0, <1>10, <2>1 DEF vars, IInv
<1>11. QED
  BY <1>1, <1>2, <1>3, <1>4, <1>5, <1>6, <1>7, <1>8, <1>9, <1>10 DEF Next

\* Every entry refers to a table of its own with something in it, or to a page
\* that was mapped, and every frame is a table or free.
THEOREM Inductive == Spec => []IInv
<1>1. Init => IInv
  BY InitHolds
<1>2. IInv /\ [Next]_vars => IInv'
  BY StepKeeps
<1>3. QED
  BY <1>1, <1>2, PTL DEF Spec

-----------------------------------------------------------------------------
(* Every frame is in one place.                                            *)

LEMMA TypeHolds == IInv => TypeOK
<1> SUFFICES ASSUME IInv PROVE TypeOK
  OBVIOUS
<1>1. Typed(pdpe_, tables, free_) /\ marks \in [PageNos -> SUBSET {"A", "D"}]
  BY DEF IInv, Sound
<1>2. DOMAIN tables = Frames
  BY <1>1 DEF Typed
<1>3. call \in [op : {"idle", "unmap", "clear", "reduce"}, range : SUBSET VPages,
               todo : SUBSET VPages, at : VPages, seen : SUBSET {"A", "D"},
               left : SUBSET {"R", "W", "X"}, ad : BOOLEAN]
  BY DEF IInv, CallOK
<1>4. QED
  BY <1>1, <1>2, <1>3 DEF Typed, TypeOK, Top, Mid, Low

\* A set that f maps one to one is as large as its image.
LEMMA SameSize ==
  ASSUME NEW S, NEW T, IsFiniteSet(T), NEW f \in [S -> T],
         \A x, y \in S : f[x] = f[y] => x = y, \A z \in T : \E x \in S : f[x] = z
  PROVE  IsFiniteSet(S) /\ Cardinality(S) = Cardinality(T)
<1>1. f \in Injection(S, T) /\ f \in Surjection(S, T)
  BY DEF Injection, Surjection, IsInjective
<1>2. QED
  BY <1>1, FS_Injection

\* FramesExact: the allocator and the entries of the tables together have each
\* frame once.
THEOREM FramesExactHolds == Spec => []FramesExact
<1>1. ASSUME IInv PROVE FramesExact
  <2> DEFINE pdpRefs == {i \in DOMAIN pdpe_ : pdpe_[i].p}
             pteRefs == UNION {{<<f, j>> : j \in {n \in DOMAIN tables[f] : tables[f][n].p}} : f \in PdpTables}
  <2>1. /\ Dirs(pdpe_, tables, free_) /\ Tabs(pdpe_, tables, free_) /\ Apart(pdpe_, tables)
        /\ Covered(pdpe_, tables, free_) /\ free_ \subseteq Frames /\ DOMAIN pdpe_ = Top
        /\ Sound(pdpe_, tables, free_)
    BY <1>1 DEF IInv, Sound, Typed
  <2>2. /\ PdpTables = {Dir(pdpe_, i) : i \in {x \in Top : HasDir(pdpe_, x)}}
        /\ \A f : f \in PteTables <=>
             \E i \in Top, j \in Mid : HasTab(pdpe_, tables, i, j) /\ f = Tab(pdpe_, tables, i, j)
    BY <2>1, TablesAre
  <2>3. PdpTables \subseteq Frames /\ PteTables \subseteq Frames
    BY <2>1, <2>2 DEF Dirs, Tabs
  <2>4. free_ \cup PdpTables \cup PteTables = Frames
    <3>1. ASSUME NEW f \in Frames PROVE f \in free_ \cup PdpTables \cup PteTables
      BY <2>1, <2>2 DEF Covered
    <3>2. QED
      BY <2>1, <2>3, <3>1
  <2>5. free_ \cap PdpTables = {} /\ (free_ \cup PdpTables) \cap PteTables = {}
    <3>1. free_ \cap PdpTables = {}
      BY <2>1, <2>2 DEF Dirs
    <3>2. free_ \cap PteTables = {}
      BY <2>1, <2>2 DEF Tabs
    <3>3. PdpTables \cap PteTables = {}
      BY <2>1, <2>2 DEF Apart
    <3>4. QED
      BY <3>1, <3>2, <3>3
  <2>6. IsFiniteSet(free_) /\ IsFiniteSet(PdpTables) /\ IsFiniteSet(PteTables)
    BY <2>1, <2>3, FramesFinite, FS_Subset
  <2>7. Cardinality(pdpRefs) = Cardinality(PdpTables)
    <3> DEFINE g == [i \in pdpRefs |-> pdpe_[i].addr]
    <3>1. pdpRefs = {x \in Top : HasDir(pdpe_, x)}
      BY <2>1 DEF HasDir
    <3>2. g \in [pdpRefs -> PdpTables]
      BY <2>1, <2>2, <3>1 DEF Dir
    <3>3. \A x, y \in pdpRefs : g[x] = g[y] => x = y
      BY <2>1, <3>1 DEF Apart, Dir
    <3>4. \A z \in PdpTables : \E x \in pdpRefs : g[x] = z
      BY <2>2, <3>1 DEF Dir
    <3> HIDE DEF g, pdpRefs
    <3>5. QED
      BY <2>6, <3>2, <3>3, <3>4, SameSize
  <2>8. Cardinality(pteRefs) = Cardinality(PteTables)
    <3> DEFINE g == [r \in pteRefs |-> tables[r[1]][r[2]].addr]
    <3>1. ASSUME NEW r \in pteRefs
          PROVE  \E i \in Top, j \in Mid :
                   /\ HasTab(pdpe_, tables, i, j) /\ r = <<Dir(pdpe_, i), j>>
                   /\ tables[r[1]][r[2]].addr = Tab(pdpe_, tables, i, j)
      <4>1. PICK f \in PdpTables : \E j \in DOMAIN tables[f] : r = <<f, j>> /\ tables[f][j].p
        OBVIOUS
      <4>2. PICK j \in DOMAIN tables[f] : r = <<f, j>> /\ tables[f][j].p
        BY <4>1
      <4>3. PICK i \in Top : HasDir(pdpe_, i) /\ f = Dir(pdpe_, i)
        BY <2>2
      <4>4. j \in Mid
        BY <2>1, <4>3 DEF Dirs
      <4>5. r[1] = f /\ r[2] = j
        BY <4>2
      <4>6. QED
        BY <4>2, <4>3, <4>4, <4>5 DEF HasTab, Tab
    <3>2. ASSUME NEW i \in Top, NEW j \in Mid, HasTab(pdpe_, tables, i, j)
          PROVE  /\ <<Dir(pdpe_, i), j>> \in pteRefs
                 /\ g[<<Dir(pdpe_, i), j>>] = Tab(pdpe_, tables, i, j)
      <4>1. HasDir(pdpe_, i) /\ Dir(pdpe_, i) \in PdpTables /\ DOMAIN tables[Dir(pdpe_, i)] = Mid
        BY <2>1, <2>2, <3>2 DEF HasTab, Dirs
      <4>2. <<Dir(pdpe_, i), j>> \in pteRefs
        BY <3>2, <4>1 DEF HasTab
      <4>3. QED
        BY <4>2 DEF Tab
    <3>3. g \in [pteRefs -> PteTables]
      <4>1. ASSUME NEW r \in pteRefs PROVE tables[r[1]][r[2]].addr \in PteTables
        BY <2>2, <3>1
      <4> HIDE DEF pteRefs
      <4>2. QED
        BY <4>1
    <3>4. ASSUME NEW x \in pteRefs, NEW y \in pteRefs, g[x] = g[y] PROVE x = y
      <4>1. g[x] = tables[x[1]][x[2]].addr /\ g[y] = tables[y[1]][y[2]].addr
        OBVIOUS
      <4>2. PICK i \in Top, j \in Mid : HasTab(pdpe_, tables, i, j) /\ x = <<Dir(pdpe_, i), j>>
                                        /\ g[x] = Tab(pdpe_, tables, i, j)
        BY <3>1, <4>1
      <4>3. PICK i2 \in Top, j2 \in Mid : HasTab(pdpe_, tables, i2, j2) /\ y = <<Dir(pdpe_, i2), j2>>
                                          /\ g[y] = Tab(pdpe_, tables, i2, j2)
        BY <3>1, <4>1
      <4> HIDE DEF g, pteRefs
      <4>4. i = i2 /\ j = j2
        BY <2>1, <3>4, <4>2, <4>3 DEF Apart
      <4>5. QED
        BY <4>2, <4>3, <4>4
    <3>5. ASSUME NEW z \in PteTables PROVE \E x \in pteRefs : g[x] = z
      <4> HIDE DEF g, pteRefs
      <4>1. PICK i \in Top, j \in Mid : HasTab(pdpe_, tables, i, j) /\ z = Tab(pdpe_, tables, i, j)
        BY <2>2
      <4>2. <<Dir(pdpe_, i), j>> \in pteRefs /\ g[<<Dir(pdpe_, i), j>>] = z
        BY <3>2, <4>1
      <4>3. QED
        BY <4>2
    <3> HIDE DEF g, pteRefs
    <3>6. QED
      BY <2>6, <3>3, <3>4, <3>5, SameSize
  <2> HIDE DEF pdpRefs, pteRefs
  <2>9. Cardinality(free_) + Cardinality(PdpTables) + Cardinality(PteTables) = Cardinality(Frames)
    <3> DEFINE S == free_ \cup PdpTables
    <3>1. IsFiniteSet(S) /\ Cardinality(S) = Cardinality(free_) + Cardinality(PdpTables) - Cardinality({})
      BY <2>5, <2>6, FS_Union
    <3>2. Cardinality(S \cup PteTables) = Cardinality(S) + Cardinality(PteTables) - Cardinality({})
      <4>1. S \cap PteTables = {}
        BY <2>5
      <4> HIDE DEF S
      <4>2. QED
        BY <2>6, <3>1, <4>1, FS_Union
    <3>3. /\ Cardinality({}) = 0 /\ Cardinality(free_) \in Nat /\ Cardinality(PdpTables) \in Nat
          /\ Cardinality(PteTables) \in Nat
      BY <2>6, FS_EmptySet, FS_CardinalityType
    <3>4. Cardinality(S \cup PteTables) = Cardinality(Frames)
      BY <2>4
    <3> HIDE DEF S
    <3>5. QED
      BY <3>1, <3>2, <3>3, <3>4
  <2>10. Cardinality(free_) + Cardinality(pdpRefs) + Cardinality(pteRefs) = Cardinality(Frames)
    BY <2>7, <2>8, <2>9
  <2>11. QED
    BY <1>1, <2>4, <2>10, TypeHolds DEF FramesExact, pdpRefs, pteRefs
<1>2. QED
  BY <1>1, Inductive, PTL

\* NoEmptyTables: a table is given back with its last entry.
THEOREM NoEmptyTablesHolds == Spec => []NoEmptyTables
<1>1. ASSUME IInv PROVE NoEmptyTables
  <2> SUFFICES ASSUME NEW f \in PdpTables \cup PteTables PROVE ~IsEmpty(tables[f])
    BY DEF NoEmptyTables
  <2>0. Sound(pdpe_, tables, free_)
    BY <1>1 DEF IInv
  <2>1. CASE f \in PdpTables
    <3>1. PICK i \in Top : HasDir(pdpe_, i) /\ f = Dir(pdpe_, i)
      BY <2>0, <2>1, TablesAre
    <3>2. DOMAIN tables[f] = Mid /\ \E j \in Mid : tables[f][j].p
      BY <2>0, <3>1 DEF Sound, Dirs, HasTab
    <3>3. QED
      BY <3>2 DEF IsEmpty
  <2>2. CASE f \in PteTables
    <3>1. PICK i \in Top, j \in Mid : HasTab(pdpe_, tables, i, j) /\ f = Tab(pdpe_, tables, i, j)
      BY <2>0, <2>2, TablesAre
    <3>2. DOMAIN tables[f] = Low /\ \E k \in Low : tables[f][k].p
      BY <2>0, <3>1 DEF Sound, Tabs, HasPage
    <3>3. QED
      BY <3>2 DEF IsEmpty
  <2>3. QED
    BY <2>1, <2>2
<1>2. QED
  BY <1>1, Inductive, PTL

-----------------------------------------------------------------------------
(* No mark is forgotten.                                                   *)

Passed(v) ==
  Pte(v).fl \cap {"A", "D"} \subseteq
    marks'[Pte(v).addr] \cup (IF Mapped(v)' THEN Pte(v).fl' ELSE {})

\* An entry that a step leaves alone keeps its flags.
LEMMA KeptPasses == ASSUME NEW v, Mapped(v)', Pte(v)' = Pte(v) PROVE Passed(v)
<1>1. Pte(v).fl' = Pte(v).fl
  OBVIOUS
<1>2. QED
  BY <1>1 DEF Passed

LEMMA OthersPass ==
  ASSUME NEW v \in VPages, Mapped(v), NEW u \in VPages \ {v}, NEW e, Taken({u}) \/ Given(u, e)
  PROVE  Passed(v)
<1>1. CASE Taken({u})
  BY <1>1, KeptPasses DEF Taken
<1>2. CASE Given(u, e)
  <2>1. v \in VPages \ {u}
    OBVIOUS
  <2>2. (Mapped(v)' <=> Mapped(v)) /\ (Mapped(v) => Pte(v)' = Pte(v))
    BY <1>2, <2>1 DEF Given
  <2> HIDE DEF Mapped
  <2>3. Mapped(v)' /\ Pte(v)' = Pte(v)
    BY <2>2
  <2>4. QED
    BY <2>3, KeptPasses
<1>3. QED
  BY <1>1, <1>2

\* Passed is what the property calls nothing lost.
LEMMA PassedIs == ASSUME NEW v, Passed(v) PROVE Lost(v) = {}
  BY DEF Passed, Lost

LEMMA MarkStep ==
  ASSUME IInv, Next, NEW v \in TouchAt, Mapped(v)
  PROVE  \/ Passed(v) \/ (\E pg \in MapPages, perm \in MapPerms : Map(v, pg, perm)) \/ UNCHANGED vars
         \/ /\ call.op \in {"clear", "reduce"} /\ call.at = v
            /\ Lost(v) \cap call.seen = {} \/ (~call.ad /\ call.left # {})
<1>0. /\ Sound(pdpe_, tables, free_) /\ v \in VPages /\ v \in MapAt /\ MapAt \subseteq VPages
      /\ Pte(v).addr \in PageNos
  BY MapAtAssumption, TableAssumption, PteIs DEF IInv
<1>1. ASSUME NEW u \in MapAt, NEW pg \in MapPages, NEW perm \in MapPerms, Map(u, pg, perm), u # v
      PROVE  Passed(v)
  <2>1. Given(u, Create(pg, Apply(perm, TRUE)))
    BY <1>0, <1>1, MapStep
  <2>2. QED
    BY <1>0, <1>1, <2>1, OthersPass
<1>2. ASSUME UNCHANGED <<pdpe_, tables>> PROVE Passed(v)
  BY <1>2, SameTables, KeptPasses
<1>3. CASE UnmapClear
  <2>1. /\ call.op = "clear" /\ call.at \in VPages /\ Taken({call.at}) /\ UNCHANGED marks
        /\ call.seen \subseteq marks[Pte(call.at).addr]
    BY <1>3, ClearKeeps
  <2>2. CASE call.at = v
    BY <2>1, <2>2 DEF Lost
  <2>3. CASE call.at # v
    BY <1>0, <2>1, <2>3, OthersPass
  <2>4. QED
    BY <2>2, <2>3
<1>4. CASE ReduceStore
  <2> DEFINE e == Create(Pte(call.at).addr, Apply(call.left, TRUE))
  <2>1. /\ call.op = "reduce" /\ call.at \in VPages /\ UNCHANGED marks
        /\ Taken({call.at}) \/ Given(call.at, e)
        /\ call.ad \/ call.left = {} => call.seen \subseteq marks[Pte(call.at).addr]
        /\ call.ad \in BOOLEAN
    BY <1>4, StoreKeeps DEF IInv, CallOK
  <2> HIDE DEF e
  <2>2. CASE call.at = v
    BY <2>1, <2>2 DEF Lost
  <2>3. CASE call.at # v
    <3>1. call.at \in VPages /\ v \in VPages \ {call.at} /\ call.at # v
      BY <1>0, <2>1, <2>3
    <3>2. QED
      BY <1>0, <2>1, <2>3, OthersPass
  <2>4. QED
    BY <2>2, <2>3
<1>5. ASSUME NEW u \in MapAt, FlushAccessedDirty(u) PROVE Passed(v)
  <2>1. u \in VPages
    BY <1>0
  <2> DEFINE e == [Pte(u) EXCEPT !.fl = @ \ {"A", "D"}]
  <2>2. marks' = Credited(marks, Pte(u).addr, Pte(u).fl, NPte) /\ Given(u, e)
    BY <1>0, <1>5, <2>1, FlushStep
  <2> HIDE DEF e
  <2>3. CASE u = v
    BY <1>0, <2>2, <2>3, CreditedHas DEF Passed
  <2>4. CASE u # v
    BY <1>0, <2>1, <2>2, <2>4, OthersPass
  <2>5. QED
    BY <2>3, <2>4
<1>6. CASE Destroy
  <2> DEFINE G == {w \in VPages : Mapped(w)}
  <2>1. marks' = Deregistered(G) /\ v \in G
    BY <1>0, <1>6, DestroyStep
  <2> HIDE DEF G
  <2>2. QED
    BY <1>0, <2>1, DeregisteredHas DEF Passed
<1>7. ASSUME NEW u \in TouchAt, NEW fl \in SUBSET {"A", "D"}, CpuTouches(u, fl) PROVE Passed(v)
  <2>1. u \in VPages
    BY MapAtAssumption
  <2> DEFINE e == [Pte(u) EXCEPT !.fl = @ \cup fl]
  <2>2. Given(u, e)
    BY <1>0, <1>7, <2>1, CpuStep
  <2>3. CASE u = v
    <3>1. Mapped(v)' /\ Pte(v)' = e
      BY <2>2, <2>3 DEF Given
    <3>2. e.fl = Pte(v).fl \cup fl
      BY <1>0, <2>3, FlagsAre
    <3> HIDE DEF e
    <3>3. Pte(v).fl' = Pte(v).fl \cup fl
      BY <3>1, <3>2
    <3>4. QED
      BY <3>1, <3>3 DEF Passed
  <2> HIDE DEF e
  <2>4. CASE u # v
    BY <1>0, <2>1, <2>2, <2>4, OthersPass
  <2>5. QED
    BY <2>3, <2>4
<1>8. CASE CpuReads \/ CpuWrites
  BY <1>7, <1>8 DEF CpuReads, CpuWrites
<1>9. ASSUME NEW u \in MapAt, NEW pg \in MapPages, NEW perm \in MapPerms, Map(u, pg, perm)
      PROVE  Passed(v) \/ \E x \in MapPages, r \in MapPerms : Map(v, x, r)
  BY <1>1, <1>9
<1>10. ASSUME NEW u \in MapAt, MapFails(u) PROVE UNCHANGED vars
  BY <1>10 DEF MapFails
<1>11. ASSUME \/ \E u \in MapAt, n \in 1 .. MaxUnmap : UnmapBegin(u, n)
              \/ UnmapRead \/ UnmapReturns
              \/ \E u \in MapAt, perm \in ReducePerms, ad \in BOOLEAN : ReduceRead(u, perm, ad)
       PROVE  Passed(v)
  <2>1. UNCHANGED <<pdpe_, tables>>
    BY <1>11 DEF UnmapBegin, UnmapRead, UnmapReturns, ReduceRead
  <2>2. QED
    BY <1>2, <2>1
<1>12. QED
  BY <1>3, <1>4, <1>5, <1>6, <1>8, <1>9, <1>10, <1>11 DEF Next

\* MarksPassedOn: a flag that a call has read in an entry is with the page when
\* the call stores the entry, and no other step takes one from an entry but map,
\* which replaces it.
THEOREM MarksPassedOnHolds == Spec => MarksPassedOn
<1>1. IInv /\ [Next]_vars =>
        [\A v \in {w \in TouchAt : Mapped(w) /\ Lost(w) # {}} :
           \/ \E pg \in MapPages, perm \in MapPerms : Map(v, pg, perm)
           \/ /\ call.op \in {"clear", "reduce"} /\ call.at = v
              /\ Lost(v) \cap call.seen = {} \/ (~call.ad /\ call.left # {})]_vars
  BY MarkStep, PassedIs
<1>2. QED
  BY <1>1, Inductive, PTL DEF Spec, MarksPassedOn

-----------------------------------------------------------------------------
(* The translation of each page.                                           *)

\* What the model's refinement mapping makes of the tables.
Translation(v) ==
  IF Mapped(v) THEN [page |-> Pte(v).addr, rights |-> GetPermission(Pte(v).fl)] ELSE Nothing
Translations == [v \in VPages |-> Translation(v)]

Implied == IF HasNX THEN {"R"} ELSE {"R", "X"}

\* The flags of an entry stand for the rights it was given, and those that
\* every entry has.
LEMMA RightsAre ==
  ASSUME NEW perm \in SUBSET {"R", "W", "X"}
  PROVE  GetPermission(Apply(perm, TRUE)) = perm \cup Implied
<1>1. HasNX \in BOOLEAN
  BY TableAssumption
<1>2. "RW" \in Apply(perm, TRUE) <=> "W" \in perm
  BY DEF Apply
<1>3. "NX" \in Apply(perm, TRUE) <=> HasNX /\ "X" \notin perm
  BY DEF Apply
<1>4. QED
  BY <1>1, <1>2, <1>3 DEF GetPermission, Implied

LEMMA TranslationIs ==
  ASSUME Sound(pdpe_, tables, free_), NEW v \in VPages
  PROVE  /\ Mapped(v) <=> Translation(v) # Nothing
         /\ Mapped(v) => /\ Translation(v).page = Pte(v).addr
                         /\ Translation(v).rights = GetPermission(Pte(v).fl)
                         /\ Translation(v) = [page |-> Pte(v).addr, rights |-> GetPermission(Pte(v).fl)]
<1>1. CASE Mapped(v)
  <2>1. Pte(v).addr \in MapPages /\ GetPermission(Pte(v).fl) \in SUBSET {"R", "W", "X"}
    BY <1>1, PteIs DEF GetPermission
  <2>2. Translation(v) = [page |-> Pte(v).addr, rights |-> GetPermission(Pte(v).fl)]
    BY <1>1 DEF Translation
  <2>3. Translation(v) \in [page : MapPages, rights : SUBSET {"R", "W", "X"}]
    BY <2>1, <2>2
  <2>4. QED
    BY <1>1, <2>2, <2>3, NothingAssumption
<1>2. CASE ~Mapped(v)
  BY <1>2 DEF Translation
<1>3. QED
  BY <1>1, <1>2

LEMMA GivenTranslates ==
  ASSUME NEW v \in VPages, NEW a, NEW fl, NEW e, e.addr = a, e.fl = fl, Given(v, e)
  PROVE  Translations' = [Translations EXCEPT ![v] = [page |-> a, rights |-> GetPermission(fl)]]
<1>1. ASSUME NEW w \in VPages
      PROVE  Translation(w)' = IF w = v THEN [page |-> a, rights |-> GetPermission(fl)] ELSE Translation(w)
  <2>1. CASE w = v
    <3>1. Mapped(v)' /\ Pte(v)' = e
      BY DEF Given
    <3>2. Translation(v)' = [page |-> Pte(v).addr', rights |-> GetPermission(Pte(v).fl)']
      BY <3>1 DEF Translation
    <3>3. Pte(v).addr' = a /\ Pte(v).fl' = fl
      BY <3>1
    <3>4. GetPermission(Pte(v).fl)' = GetPermission(fl)
      BY <3>3 DEF GetPermission
    <3>5. QED
      BY <2>1, <3>2, <3>3, <3>4
  <2>2. CASE w # v
    <3>1. w \in VPages \ {v}
      BY <2>2
    <3>2. (Mapped(w)' <=> Mapped(w)) /\ (Mapped(w) => Pte(w)' = Pte(w))
      BY <3>1 DEF Given
    <3>3. CASE Mapped(w)
      <4>1. Mapped(w)' /\ Pte(w)' = Pte(w)
        BY <3>2, <3>3
      <4>2. Translation(w)' = [page |-> Pte(w).addr', rights |-> GetPermission(Pte(w).fl)']
        BY <4>1 DEF Translation
      <4>3. Pte(w).addr' = Pte(w).addr /\ Pte(w).fl' = Pte(w).fl
        BY <4>1
      <4>4. GetPermission(Pte(w).fl)' = GetPermission(Pte(w).fl)
        BY <4>3 DEF GetPermission
      <4>5. Translation(w) = [page |-> Pte(w).addr, rights |-> GetPermission(Pte(w).fl)]
        BY <3>3 DEF Translation
      <4>6. QED
        BY <2>2, <4>2, <4>3, <4>4, <4>5
    <3>4. CASE ~Mapped(w)
      BY <2>2, <3>2, <3>4 DEF Translation
    <3>5. QED
      BY <3>3, <3>4
  <2>3. QED
    BY <2>1, <2>2
<1>2. Translations' = [w \in VPages |-> Translation(w)']
  BY DEF Translations
<1>3. Translations = [w \in VPages |-> Translation(w)]
  BY DEF Translations
<1>4. QED
  BY <1>1, <1>2, <1>3

LEMMA TakenTranslates ==
  ASSUME NEW G, Taken(G)
  PROVE  Translations' = [w \in VPages |-> IF w \in G THEN Nothing ELSE Translations[w]]
<1>1. ASSUME NEW w \in VPages
      PROVE  Translation(w)' = IF w \in G THEN Nothing ELSE Translation(w)
  <2>1. (Mapped(w)' <=> Mapped(w) /\ w \notin G) /\ (Mapped(w)' => Pte(w)' = Pte(w))
    BY DEF Taken
  <2>2. QED
    BY <2>1 DEF Translation, GetPermission
<1>2. Translations' = [w \in VPages |-> Translation(w)']
  BY DEF Translations
<1>3. \A w \in VPages : Translations[w] = Translation(w)
  BY DEF Translations
<1>4. QED
  BY <1>1, <1>2, <1>3

-----------------------------------------------------------------------------
(* The tables implement AddressSpace.                                      *)

MappedTo == [v \in VPages |-> IF Mapped(v)
              THEN [page |-> Pte(v).addr, rights |-> GetPermission(Pte(v).fl)] ELSE Nothing]

LEMMA MappedToIs == MappedTo = Translations /\ MappedTo' = Translations'
  BY DEF MappedTo, Translations, Translation

LEMMA SameTranslations == UNCHANGED <<pdpe_, tables>> => Translations' = Translations
  BY DEF Translations, Translation, Mapped, HasPte, Pdpe, Pdp, Pte

\* The range of the unmap call under way.
Going == IF call.op \in {"unmap", "clear"} THEN call.range ELSE {}

LEMMA IdleGoing == (call = Idle => Going = {}) /\ (call' = Idle => Going' = {})
  BY DEF Going, Idle

LEMMA MapImplements ==
  ASSUME Sound(pdpe_, tables, free_), NEW v \in MapAt, NEW pg \in MapPages, NEW perm \in MapPerms,
         Map(v, pg, perm)
  PROVE  Space!Map(v, pg, perm)
<1> DEFINE e == Create(pg, Apply(perm, TRUE))
<1>1. v \in VPages /\ perm \in SUBSET {"R", "W", "X"}
  BY MapAtAssumption, TableAssumption
<1>2. Given(v, e) /\ e.addr = pg /\ e.fl = Apply(perm, TRUE)
  BY MapStep DEF Create
<1> HIDE DEF e
<1>3. Translations' = [Translations EXCEPT ![v] =
                         [page |-> pg, rights |-> GetPermission(Apply(perm, TRUE))]]
  BY <1>1, <1>2, GivenTranslates
<1>4. GetPermission(Apply(perm, TRUE)) = Space!Grant(perm)
  BY <1>1, RightsAre DEF Space!Grant, Implied
<1>5. MappedTo' = [MappedTo EXCEPT ![v] = [page |-> pg, rights |-> Space!Grant(perm)]]
  BY <1>3, <1>4, MappedToIs
<1>6. Going = {} /\ Going' = {}
  BY IdleGoing DEF Map
<1>7. QED
  BY <1>5, <1>6 DEF Space!Map, Space!Put, MappedTo, Going

LEMMA ReduceImplements ==
  ASSUME IInv, ReduceStore
  PROVE  \E perm \in ReducePerms : Space!Reduce(call.at, perm)
<1> DEFINE v == call.at  left == call.left
           e == Create(Pte(v).addr, Apply(left, TRUE))
<1>1. /\ call.op = "reduce" /\ call' = Idle /\ v \in VPages /\ Mapped(v)
      /\ IF left = {} THEN Taken({v}) ELSE Given(v, e)
  BY StoreKeeps
<1>2. PICK perm \in ReducePerms : left = perm \cap GetPermission(Pte(v).fl)
  BY StoreKeeps
<1>3. e.addr = Pte(v).addr /\ e.fl = Apply(left, TRUE)
  BY DEF Create
<1>4. Sound(pdpe_, tables, free_) /\ perm \in SUBSET {"R", "W", "X"}
  BY TableAssumption DEF IInv
<1> HIDE DEF v, left, e
<1>5. /\ Translations[v] # Nothing
      /\ Translations[v].page = Pte(v).addr
      /\ left = perm \cap Translations[v].rights
  BY <1>1, <1>2, <1>4, TranslationIs DEF Translations
<1>6. Translations' = [Translations EXCEPT ![v] =
                         IF left = {} THEN Nothing ELSE [page |-> @.page, rights |-> Space!Grant(left)]]
  <2>1. CASE left = {}
    <3>1. Translations' = [w \in VPages |-> IF w \in {v} THEN Nothing ELSE Translations[w]]
      BY <1>1, <2>1, TakenTranslates
    <3>2. QED
      BY <2>1, <3>1 DEF Translations
  <2>2. CASE left # {}
    <3>1. Translations' = [Translations EXCEPT ![v] =
                             [page |-> Pte(v).addr, rights |-> GetPermission(Apply(left, TRUE))]]
      <4>1. v \in VPages /\ Given(v, e)
        BY <1>1, <2>2
      <4>2. QED
        BY <1>3, <4>1, GivenTranslates
    <3>2. left \in SUBSET {"R", "W", "X"}
      BY <1>2, <1>4
    <3>3. GetPermission(Apply(left, TRUE)) = Space!Grant(left)
      BY <3>2, RightsAre DEF Space!Grant, Implied
    <3>4. QED
      BY <1>5, <2>2, <3>1, <3>3
  <2>3. QED
    BY <2>1, <2>2
<1>7. Going = {} /\ Going' = {}
  BY <1>1, IdleGoing DEF Going
<1>8. /\ MappedTo[v] # Nothing
      /\ left = perm \cap MappedTo[v].rights
      /\ MappedTo' = [MappedTo EXCEPT ![v] =
                        IF left = {} THEN Nothing ELSE [page |-> @.page, rights |-> Space!Grant(left)]]
  BY <1>5, <1>6, MappedToIs
<1>9. Space!Reduce(v, perm)
  BY <1>7, <1>8 DEF Space!Reduce, Space!Put, MappedTo, Going
<1>10. QED
  BY <1>9 DEF v

LEMMA UnmapImplements ==
  ASSUME IInv, UnmapClear
  PROVE  Space!UnmapPage(call.at)
<1> DEFINE v == call.at
<1>1. /\ call.op = "clear" /\ v \in call.range /\ v \in VPages /\ Taken({v})
      /\ call'.op = "unmap" /\ call'.range = call.range
  BY ClearKeeps
<1> HIDE DEF v
<1>2. Translations' = [w \in VPages |-> IF w \in {v} THEN Nothing ELSE Translations[w]]
  BY <1>1, TakenTranslates
<1>3. Translations' = [Translations EXCEPT ![v] = Nothing]
  BY <1>1, <1>2 DEF Translations
<1>4. MappedTo' = [MappedTo EXCEPT ![v] = Nothing]
  BY <1>3, MappedToIs
<1>5. v \in Going /\ Going' = Going
  BY <1>1 DEF Going
<1>6. Space!UnmapPage(v)
  BY <1>4, <1>5 DEF Space!UnmapPage, Space!Put, MappedTo, Going
<1>7. QED
  BY <1>6 DEF v

\* Flags that the rights do not depend on.
LEMMA FlagsOnly ==
  ASSUME Sound(pdpe_, tables, free_), NEW v \in VPages, Mapped(v), NEW fl,
         GetPermission(fl) = GetPermission(Pte(v).fl), Given(v, [Pte(v) EXCEPT !.fl = fl])
  PROVE  Translations' = Translations
<1> DEFINE e == [Pte(v) EXCEPT !.fl = fl]
<1>1. e.addr = Pte(v).addr /\ e.fl = fl
  BY FlagsAre
<1> HIDE DEF e
<1>2. Translations' = [Translations EXCEPT ![v] = [page |-> Pte(v).addr, rights |-> GetPermission(fl)]]
  BY <1>1, GivenTranslates DEF e
<1>3. Translations[v] = [page |-> Pte(v).addr, rights |-> GetPermission(fl)]
  BY TranslationIs DEF Translations
<1>4. QED
  BY <1>2, <1>3 DEF Translations

LEMMA BeginImplements ==
  ASSUME IInv, NEW v \in VPages, NEW n \in Nat \ {0}, UnmapBegin(v, n)
  PROVE  Space!UnmapBegin(v, n)
<1>1. /\ UNCHANGED <<pdpe_, tables>> /\ call = Idle /\ v + n - 1 \in VPages
      /\ call'.op = "unmap" /\ call'.range = v .. v + n - 1
  BY BeginKeeps
<1>2. Going = {} /\ Going' = v .. v + n - 1
  BY <1>1, IdleGoing DEF Going
<1>3. MappedTo' = MappedTo
  BY <1>1, MappedToIs, SameTranslations
<1>4. QED
  BY <1>1, <1>2, <1>3 DEF Space!UnmapBegin, MappedTo, Going

LEMMA EndImplements ==
  ASSUME IInv, UnmapReturns
  PROVE  Space!UnmapEnd
<1>1. call.op = "unmap" /\ call.todo = {} /\ call' = Idle /\ UNCHANGED <<pdpe_, tables>>
  BY DEF UnmapReturns
<1>2. call.range \in SUBSET VPages /\ call.todo = {w \in call.range : Mapped(w)}
  BY <1>1 DEF IInv, CallOK
<1>3. \A w \in Going : w \in VPages /\ ~Mapped(w)
  BY <1>1, <1>2 DEF Going
<1>4. \A w \in Going : MappedTo[w] = Nothing
  BY <1>3 DEF MappedTo
<1>5. Going' = {}
  BY <1>1, IdleGoing
<1>6. MappedTo' = MappedTo
  BY <1>1, MappedToIs, SameTranslations
<1>7. QED
  BY <1>4, <1>5, <1>6 DEF Space!UnmapEnd, MappedTo, Going

\* What a step of the tables is to the promise.
LEMMA StepImplements ==
  ASSUME IInv, Next
  PROVE  Space!Next \/ (MappedTo' = MappedTo /\ Going' = Going)
<1>0. Sound(pdpe_, tables, free_) /\ MapAt \subseteq VPages /\ TouchAt \subseteq VPages
  BY MapAtAssumption DEF IInv
<1>1. ASSUME NEW v \in MapAt, NEW pg \in MapPages, NEW perm \in MapPerms, Map(v, pg, perm)
      PROVE  Space!Next
  <2>1. v \in VPages /\ Space!Map(v, pg, perm)
    BY <1>0, <1>1, MapImplements
  <2>2. QED
    BY <2>1 DEF Space!Next
<1>2. ASSUME NEW v \in MapAt, MapFails(v) PROVE MappedTo' = MappedTo /\ Going' = Going
  BY <1>2, MappedToIs, SameTranslations DEF MapFails, vars, Going
<1>3. ASSUME NEW v \in MapAt, NEW n \in 1 .. MaxUnmap, UnmapBegin(v, n) PROVE Space!Next
  <2>1. v \in VPages /\ n \in Nat \ {0} /\ v + n - 1 \in VPages
    BY <1>0, <1>3, BeginKeeps
  <2>2. Space!UnmapBegin(v, n)
    BY <1>3, <2>1, BeginImplements
  <2>3. n - 1 \in VPages /\ (n - 1) + 1 = n
    <3>1. PICK m \in Int : m = NPdpe * NPdp * NPte - 1
      BY TableAssumption
    <3>2. VPages = 0 .. m
      BY <3>1 DEF VPages
    <3>3. QED
      BY <2>1, <3>2
  <2>4. Space!UnmapBegin(v, (n - 1) + 1)
    BY <2>2, <2>3
  <2>5. QED
    BY <2>1, <2>3, <2>4 DEF Space!Next
<1>4. CASE UnmapRead
  <2>1. /\ UNCHANGED <<pdpe_, tables>>
        /\ call.op = "unmap" /\ call'.op = "clear" /\ call'.range = call.range
    BY <1>4, ReadKeeps
  <2>2. QED
    BY <2>1, MappedToIs, SameTranslations DEF Going
<1>5. CASE UnmapClear
  <2>1. call.at \in VPages /\ Space!UnmapPage(call.at)
    BY <1>5, ClearKeeps, UnmapImplements
  <2>2. QED
    BY <2>1 DEF Space!Next
<1>6. CASE UnmapReturns
  BY <1>6, EndImplements DEF Space!Next
<1>7. ASSUME NEW v \in MapAt, NEW perm \in ReducePerms, NEW ad \in BOOLEAN, ReduceRead(v, perm, ad)
      PROVE  MappedTo' = MappedTo /\ Going' = Going
  <2>1. v \in VPages
    BY <1>0
  <2>2. UNCHANGED <<pdpe_, tables>> /\ call = Idle /\ call'.op = "reduce"
    BY <1>7, <2>1, ReduceReadKeeps
  <2>3. Going = {} /\ Going' = {}
    BY <2>2, IdleGoing DEF Going
  <2>4. QED
    BY <2>2, <2>3, MappedToIs, SameTranslations
<1>8. CASE ReduceStore
  <2>1. call.at \in VPages /\ \E perm \in ReducePerms : Space!Reduce(call.at, perm)
    BY <1>8, StoreKeeps, ReduceImplements
  <2>2. QED
    BY <2>1 DEF Space!Next
<1>9. ASSUME NEW v \in MapAt, FlushAccessedDirty(v) PROVE MappedTo' = MappedTo /\ Going' = Going
  <2>1. Mapped(v) /\ Given(v, [Pte(v) EXCEPT !.fl = Pte(v).fl \ {"A", "D"}])
    BY <1>0, <1>9, FlushStep
  <2>2. GetPermission(Pte(v).fl \ {"A", "D"}) = GetPermission(Pte(v).fl)
    BY DEF GetPermission
  <2>3. Translations' = Translations
    BY <1>0, <2>1, <2>2, FlagsOnly
  <2>4. Going' = Going
    BY <1>9 DEF FlushAccessedDirty, Going
  <2>5. QED
    BY <2>3, <2>4, MappedToIs
<1>10. CASE Destroy
  <2>1. \A w \in VPages : ~Mapped(w)'
    BY <1>0, <1>10, DestroyStep
  <2>2. MappedTo' = [w \in VPages |-> Nothing]
    BY <2>1 DEF MappedTo
  <2>3. Going = {} /\ Going' = {}
    BY <1>10, IdleGoing DEF Destroy
  <2>4. Space!Destroy
    BY <2>2, <2>3 DEF Space!Destroy, MappedTo, Going
  <2>5. QED
    BY <2>4 DEF Space!Next
<1>11. ASSUME NEW v \in TouchAt, NEW fl \in SUBSET {"A", "D"}, CpuTouches(v, fl)
       PROVE  MappedTo' = MappedTo /\ Going' = Going
  <2>1. Mapped(v) /\ Given(v, [Pte(v) EXCEPT !.fl = Pte(v).fl \cup fl]) /\ UNCHANGED call
    BY <1>0, <1>11, CpuStep
  <2>2. GetPermission(Pte(v).fl \cup fl) = GetPermission(Pte(v).fl)
    BY DEF GetPermission
  <2>3. Translations' = Translations
    BY <1>0, <2>1, <2>2, FlagsOnly
  <2>4. QED
    BY <2>1, <2>3, MappedToIs DEF Going
<1>12. CASE CpuReads \/ CpuWrites
  BY <1>11, <1>12 DEF CpuReads, CpuWrites
<1>13. QED
  BY <1>1, <1>2, <1>3, <1>4, <1>5, <1>6, <1>7, <1>8, <1>9, <1>10, <1>12 DEF Next

\* RefinesAddressSpace: through any calls, a page translates as map and
\* reduce_permission say, whatever tables come and go; a call of unmap takes the
\* pages of its range, every one and no other, and nothing else takes any.
THEOREM RefinesAddressSpace == Spec => ImplementsAddressSpace
<1>1. Init => Space!Init
  <2> SUFFICES ASSUME Init PROVE Space!Init
    OBVIOUS
  <2>1. \A v \in VPages : ~Mapped(v)
    BY EmptyTop, Seen, Parts DEF Init, HasPage
  <2>2. Going = {}
    BY IdleGoing DEF Init
  <2>3. QED
    BY <2>1, <2>2 DEF Space!Init, Going
<1>2. IInv /\ [Next]_vars => [Space!Next]_<<MappedTo, Going>>
  <2> SUFFICES ASSUME IInv, [Next]_vars PROVE [Space!Next]_<<MappedTo, Going>>
    OBVIOUS
  <2>1. CASE Next
    BY <2>1, StepImplements
  <2>2. CASE UNCHANGED vars
    <3>1. MappedTo' = MappedTo /\ Going' = Going
      BY <2>2, MappedToIs, SameTranslations DEF vars, Going
    <3>2. QED
      BY <3>1
  <2>3. QED
    BY <2>1, <2>2
<1>3. QED
  BY <1>1, <1>2, Inductive, PTL DEF Spec, ImplementsAddressSpace, Space!Spec, MappedTo, Going
=============================================================================
