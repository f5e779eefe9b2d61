----------------------------- MODULE VfsProofs ------------------------------
(***************************************************************************)
(* The tree of VFS nodes is correct for every root filesystem, every set   *)
(* of paths, devices and mounts, and any number of calls and references.   *)
(***************************************************************************)
EXTENDS Vfs, FiniteSetTheorems, SequenceTheorems, TLAPS

Names == STRING

FileSystems == DevFs \cup {RootFs}

Inodes == [fs : FileSystems, path : Seq(Names)]

NodeRecords == [fs : FileSystems, inode : Inodes, ref_count : Nat,
                mount_fs : FileSystems \cup {NoFs}, child : Seq(Names)]

Lookups == {"open", "mount", "fs", "umount"}

Shape(N) == DOMAIN N \subseteq NodePaths /\ \A p \in DOMAIN N : N[p] \in NodeRecords

Data ==
    /\ files \in [NodePaths -> Nat]
    /\ mounted \subseteq DevFs /\ freed \subseteq FileSystems
    /\ refused \in BOOLEAN /\ lost \in BOOLEAN

Call ==
    /\ op \in Lookups \cup {"idle", "put"}
    /\ path \in Seq(Names) /\ rest \in Seq(Names)
    /\ cur \in NodePaths
    /\ rest # <<>> => op \in Lookups

\* TreeIsLinked of a tree N
Linked(N) ==
    \A p \in DOMAIN N :
        /\ p # Root => Alive(N, Front(p)) /\ Last(p) \in ToSet(N[Front(p)].child)
        /\ IsInjective(N[p].child)
        /\ \A n \in ToSet(N[p].child) : Alive(N, Append(p, n))

\* with a node all nodes above it exist
Closed(N) == \A q \in DOMAIN N, p \in Seq(Names) : IsPrefix(p, q) => p \in DOMAIN N

Tree(N) == Shape(N) /\ Linked(N) /\ Closed(N)

(***************************************************************************)
(* Where the inodes of nodes come from: an inode of the root filesystem    *)
(* lies at its own path, the root of a device filesystem at a directory    *)
(* of the root filesystem.  A mount point has the inode of a filesystem's  *)
(* root.                                                                   *)
(***************************************************************************)
Placed(N) ==
    \A p \in DOMAIN N :
        /\ N[p].inode.fs = RootFs => N[p].inode.path = p /\ N[p].fs = RootFs
                                       /\ p \in RootFiles \cup RootDirs
        /\ N[p].inode.fs # RootFs /\ N[p].inode.path = Root => p \in RootDirs
        /\ N[p].inode.fs = RootFs => N[p].mount_fs \in {NoFs, RootFs}
        /\ N[p].mount_fs # NoFs => N[p].inode.path = Root /\ (p # Root => N[p].fs # RootFs)

\* p is where device filesystem f is mounted, perhaps below another one
Home(N, p, f) == N[p].mount_fs = f \/ (N[p].fs = f /\ N[p].inode.path = Root)

\* a device filesystem is mounted at one place, and its entries are just below
Homes(N) ==
    \A f \in DevFs : \A p, q \in DOMAIN N :
        /\ Home(N, p, f) /\ Home(N, q, f) => p = q
        /\ Home(N, p, f) /\ N[q].fs = f /\ N[q].inode.path # Root => q # Root /\ Front(q) = p

\* nodes use what is mounted and has not been freed
InUse(N, m, d) ==
    \A p \in DOMAIN N : \A f \in FileSystems :
        N[p].fs = f \/ N[p].mount_fs = f => f \notin d /\ (f # RootFs => f \in m)

FsOk(N, m, d) == Placed(N) /\ Homes(N) /\ InUse(N, m, d)

\* mount has a new filesystem; umount removes one that only cur and what is below use
CallFs ==
    /\ op = "mount" => fs \in DevFs \ (mounted \cup freed)
    /\ op = "put" => 
        /\ fs \in FileSystems
        /\ fs = RootFs => cur = Root
        /\ fs # RootFs => \A p \in DOMAIN nodes :
               nodes[p].fs = fs \/ nodes[p].mount_fs = fs => p = cur \/ (p # Root /\ Front(p) = cur)

(***************************************************************************)
(* Counting references.  Tokens(g) has an element for everything that g    *)
(* counts, Weight(g, p) is how much that is at p and below.  Covers is why *)
(* nothing in use is freed although single counters are wrong: in every    *)
(* part of the tree the counters add up to at least the references.        *)
(***************************************************************************)
Tokens(g) == {t \in NodePaths \X Nat : 1 =< t[2] /\ t[2] =< g[t[1]]}
TokensBelow(g, p) == {t \in Tokens(g) : IsPrefix(p, t[1])}
Weight(g, p) == Cardinality(TokensBelow(g, p))
Covers(g, h) ==
    /\ IsFiniteSet(Tokens(g)) /\ IsFiniteSet(Tokens(h))
    /\ \A p \in NodePaths : Weight(h, p) =< Weight(g, p)

More(g, p) == [g EXCEPT ![p] = @ + 1]
Less(g, p) == [g EXCEPT ![p] = IF @ = 0 THEN 0 ELSE @ - 1]

\* the counters of the nodes of N
Refs(N) == [p \in NodePaths |-> IF p \in DOMAIN N THEN N[p].ref_count ELSE 0]

\* what holds nodes between calls: files F and mounts, until a close was refused
Holders(N, F, r) ==
    [p \in NodePaths |-> IF r THEN 0
                         ELSE F[p] + IF p \in DOMAIN N /\ N[p].mount_fs # NoFs THEN 1 ELSE 0]

\* a call holds the node it has reached
Holding == op \in Lookups \/ (op = "put" /\ ~refused)

Counted ==
    ~lost => Covers(Refs(nodes), IF Holding THEN More(Holders(nodes, files, refused), cur)
                                 ELSE Holders(nodes, files, refused))

IInv ==
    /\ Data /\ Call
    /\ Tree(nodes)
    /\ FsOk(nodes, mounted, freed) /\ CallFs
    /\ Counted
-----------------------------------------------------------------------------
(* Paths.                                                                  *)

LEMMA PathTypes ==
    /\ NodePaths \subseteq Seq(Names)
    /\ Root \in NodePaths /\ Root \in Seq(Names)
    /\ RootDirs \subseteq NodePaths /\ RootFiles \subseteq NodePaths
<1>1. RootFiles \subseteq Seq(Names) /\ RootDirs \subseteq Seq(Names) /\ Devices \subseteq Names
  BY VfsAssumption DEF Names
<1>2. ASSUME NEW d \in RootDirs, NEW n \in Devices PROVE Append(d, n) \in Seq(Names)
  BY <1>1, AppendProperties
<1>3. ASSUME NEW p \in NodePaths PROVE p \in Seq(Names)
  <2>1. CASE p \in RootFiles \cup RootDirs
    BY <1>1, <2>1
  <2>2. CASE p \in {Append(d, n) : d \in RootDirs, n \in Devices}
    <3>1. PICK d \in RootDirs, n \in Devices : p = Append(d, n)
      BY <2>2
    <3> QED BY <1>2, <3>1
  <2> QED BY <2>1, <2>2 DEF NodePaths
<1>4. RootDirs \subseteq NodePaths /\ RootFiles \subseteq NodePaths
  BY DEF NodePaths
<1> QED BY <1>3, <1>4, VfsAssumption DEF Names

LEMMA AppendIs ==
    ASSUME NEW p \in Seq(Names), NEW n \in Names
    PROVE  /\ Append(p, n) \in Seq(Names) /\ Append(p, n) # Root
           /\ Len(Append(p, n)) = Len(p) + 1
           /\ \A i \in 1 .. Len(p) : Append(p, n)[i] = p[i]
           /\ Append(p, n)[Len(p) + 1] = n
<1>1. /\ Append(p, n) \in Seq(Names)
      /\ Append(p, n) # <<>>
      /\ Len(Append(p, n)) = Len(p) + 1
      /\ \A i \in 1 .. Len(p) : Append(p, n)[i] = p[i]
      /\ Append(p, n)[Len(p) + 1] = n
  <2>1. \A S : \A q \in Seq(S) : \A e \in S :
           /\ Append(q, e) \in Seq(S)
           /\ Append(q, e) # <<>>
           /\ Len(Append(q, e)) = Len(q) + 1
           /\ \A i \in 1 .. Len(q) : Append(q, e)[i] = q[i]
           /\ Append(q, e)[Len(q) + 1] = e
    BY AppendProperties, Zenon
  <2> QED BY <2>1, Zenon
<1> QED BY <1>1, Zenon DEF Root

LEMMA PathEqual ==
    ASSUME NEW s \in Seq(Names), NEW t \in Seq(Names), Len(s) = Len(t),
           \A i \in 1 .. Len(s) : s[i] = t[i]
    PROVE  s = t
<1> QED OBVIOUS

LEMMA PrefixIs ==
    ASSUME NEW p \in Seq(Names), NEW q \in Seq(Names)
    PROVE  IsPrefix(p, q) <=> Len(p) =< Len(q) /\ \A i \in 1 .. Len(p) : p[i] = q[i]
<1>1. CASE Len(p) =< Len(q)
  <2>1. SubSeq(p, 1, Len(p)) = [i \in 1 .. Len(p) |-> p[i]]
    BY <1>1
  <2>2. SubSeq(q, 1, Len(p)) = [i \in 1 .. Len(p) |-> q[i]]
    BY <1>1
  <2> QED BY <1>1, <2>1, <2>2 DEF IsPrefix
<1> QED BY <1>1 DEF IsPrefix

LEMMA PathParts ==
    ASSUME NEW p \in Seq(Names), NEW n \in Names
    PROVE  /\ Append(p, n) \in Seq(Names) /\ Append(p, n) # Root
           /\ Front(Append(p, n)) = p /\ Last(Append(p, n)) = n
           /\ Len(Append(p, n)) = Len(p) + 1
<1> DEFINE s == Append(p, n)
<1>1. /\ s \in Seq(Names) /\ s # Root /\ Len(s) = Len(p) + 1 /\ s[Len(p) + 1] = n
      /\ \A i \in 1 .. Len(p) : s[i] = p[i]
  BY AppendIs
<1> HIDE DEF s
<1>2. Len(p) \in Nat /\ Len(s) - 1 = Len(p)
  BY <1>1
<1>3. Front(s) = SubSeq(s, 1, Len(p))
  BY <1>2 DEF Front
<1>4. SubSeq(s, 1, Len(p)) \in Seq(Names) /\ Len(SubSeq(s, 1, Len(p))) = Len(p)
  BY <1>1, <1>2
<1>5. \A i \in 1 .. Len(p) : SubSeq(s, 1, Len(p))[i] = p[i]
  BY <1>1, <1>2
<1>6. Front(s) = p
  BY <1>3, <1>4, <1>5, PathEqual
<1>7. Last(s) = n
  BY <1>1 DEF Last
<1> QED BY <1>1, <1>6, <1>7 DEF s

LEMMA FrontLast ==
    ASSUME NEW p \in Seq(Names), p # Root
    PROVE  /\ Front(p) \in Seq(Names) /\ Last(p) \in Names
           /\ Append(Front(p), Last(p)) = p
           /\ Len(p) = Len(Front(p)) + 1
<1>1. Len(p) \in Nat /\ Len(p) > 0
  BY DEF Root
<1>7. PICK m : m = Len(p) - 1
  OBVIOUS
<1>8. m \in Nat /\ m =< Len(p)
  BY <1>1, <1>7
<1>9. SubSeq(p, 1, m) \in Seq(Names) /\ Len(SubSeq(p, 1, m)) = m
  BY <1>8
<1>2. Front(p) \in Seq(Names) /\ Len(Front(p)) = Len(p) - 1
  BY <1>7, <1>9 DEF Front
<1>6. Last(p) \in Names
  BY <1>1 DEF Last
<1>3. \A i \in 1 .. (Len(p) - 1) : Front(p)[i] = p[i]
  BY <1>1 DEF Front
<1>4. Append(Front(p), Last(p)) \in Seq(Names) /\ Len(Append(Front(p), Last(p))) = Len(p)
  BY <1>1, <1>2, <1>6, AppendIs
<1>5. ASSUME NEW i \in 1 .. Len(p) PROVE Append(Front(p), Last(p))[i] = p[i]
  <2>1. CASE i = Len(p)
    BY <1>1, <1>2, <1>6, <2>1, AppendIs DEF Last
  <2>2. CASE i # Len(p)
    BY <1>1, <1>2, <1>3, <1>6, <2>2, AppendIs
  <2> QED BY <2>1, <2>2
<1> QED BY <1>1, <1>2, <1>4, <1>5, <1>6, PathEqual

LEMMA PrefixSelf ==
    ASSUME NEW p \in Seq(Names)
    PROVE  IsPrefix(p, p) /\ IsPrefix(Root, p)
<1> QED BY PrefixIs, PathTypes DEF Root

LEMMA PrefixTrans ==
    ASSUME NEW p \in Seq(Names), NEW q \in Seq(Names), NEW r \in Seq(Names),
           IsPrefix(p, q), IsPrefix(q, r)
    PROVE  IsPrefix(p, r)
<1> QED BY PrefixIs

\* the prefixes of a path are it and those of its parent
LEMMA PrefixAppend ==
    ASSUME NEW p \in Seq(Names), NEW q \in Seq(Names), NEW n \in Names
    PROVE  IsPrefix(p, Append(q, n)) <=> IsPrefix(p, q) \/ p = Append(q, n)
<1> DEFINE s == Append(q, n)
<1>1. s \in Seq(Names) /\ Len(s) = Len(q) + 1 /\ \A i \in 1 .. Len(q) : s[i] = q[i]
  BY AppendIs
<1>4. Len(p) \in Nat /\ Len(q) \in Nat
  OBVIOUS
<1> HIDE DEF s
<1>2. ASSUME IsPrefix(p, q) PROVE IsPrefix(p, s)
  <2>1. Len(p) =< Len(q) /\ \A i \in 1 .. Len(p) : p[i] = q[i]
    BY <1>2, PrefixIs
  <2>2. Len(p) =< Len(s) /\ \A i \in 1 .. Len(p) : p[i] = s[i]
    BY <1>1, <1>4, <2>1
  <2> QED BY <1>1, <2>2, PrefixIs
<1>3. ASSUME IsPrefix(p, s), ~IsPrefix(p, q) PROVE p = s
  <2>1. Len(p) =< Len(s) /\ \A i \in 1 .. Len(p) : p[i] = s[i]
    BY <1>1, <1>3, PrefixIs
  <2>2. Len(p) = Len(s)
    <3>1. CASE Len(p) =< Len(q)
      <4>1. \A i \in 1 .. Len(p) : p[i] = q[i]
        BY <1>1, <1>4, <2>1, <3>1
      <4> QED BY <1>3, <3>1, <4>1, PrefixIs
    <3> QED BY <1>1, <1>4, <2>1, <3>1
  <2> QED BY <1>1, <2>1, <2>2, PathEqual
<1>5. IsPrefix(s, s)
  BY <1>1, PrefixSelf
<1> QED BY <1>1, <1>2, <1>3, <1>5 DEF s

\* below a prefix there is a child on the way to the path
LEMMA PrefixStep ==
    ASSUME NEW p \in Seq(Names), NEW q \in Seq(Names), IsPrefix(p, q), p # q
    PROVE  /\ q[Len(p) + 1] \in Names
           /\ IsPrefix(Append(p, q[Len(p) + 1]), q)
<1>1. Len(p) =< Len(q) /\ \A i \in 1 .. Len(p) : p[i] = q[i]
  BY PrefixIs
<1>2. Len(p) # Len(q)
  BY <1>1, PathEqual
<1>3. Len(p) + 1 \in 1 .. Len(q)
  BY <1>1, <1>2
<1>4. q[Len(p) + 1] \in Names
  BY <1>3
<1> DEFINE s == Append(p, q[Len(p) + 1])
<1>5. /\ s \in Seq(Names) /\ Len(s) = Len(p) + 1 /\ s[Len(p) + 1] = q[Len(p) + 1]
      /\ \A i \in 1 .. Len(p) : s[i] = p[i]
  BY <1>4, AppendIs
<1> HIDE DEF s
<1>6. Len(p) \in Nat
  OBVIOUS
<1>7. ASSUME NEW i \in 1 .. Len(s) PROVE s[i] = q[i]
  BY <1>1, <1>5, <1>6
<1>8. IsPrefix(s, q)
  BY <1>3, <1>5, <1>7, PrefixIs
<1> QED BY <1>4, <1>8 DEF s

LEMMA FrontPath ==
    ASSUME NEW p \in NodePaths, p # Root
    PROVE  Front(p) \in NodePaths /\ IsPrefix(Front(p), p)
<1>0. p \in Seq(Names)
  BY PathTypes
<1>1. Front(p) \in NodePaths
  <2>1. CASE p \in RootFiles \cup RootDirs
    BY <2>1, VfsAssumption, PathTypes
  <2>2. CASE p \notin RootFiles \cup RootDirs
    <3>1. PICK d \in RootDirs, n \in Devices : p = Append(d, n)
      BY <2>2 DEF NodePaths
    <3>2. d \in Seq(Names) /\ n \in Names
      BY VfsAssumption DEF Names
    <3>3. Front(p) = d
      BY <3>1, <3>2, PathParts
    <3> QED BY <3>3, PathTypes
  <2> QED BY <2>1, <2>2
<1>2. IsPrefix(Front(p), p)
  <2>1. Front(p) \in Seq(Names) /\ Last(p) \in Names /\ Append(Front(p), Last(p)) = p
    BY <1>0, FrontLast
  <2>2. IsPrefix(Front(p), Front(p))
    BY <2>1, PrefixSelf
  <2>3. IsPrefix(Front(p), Append(Front(p), Last(p)))
    BY <2>1, <2>2, PrefixAppend
  <2> QED BY <2>1, <2>3
<1> QED BY <1>1, <1>2
-----------------------------------------------------------------------------
(* Lists of children.                                                      *)

LEMMA InList ==
    ASSUME NEW s \in Seq(Names), NEW x
    PROVE  x \in ToSet(s) <=> \E k \in 1 .. Len(s) : s[k] = x
<1> QED BY DEF ToSet

LEMMA AfterPlace ==
    ASSUME NEW S, NEW q \in Seq(S), NEW i \in 1 .. Len(q)
    PROVE  /\ SubSeq(q, i + 1, Len(q)) \in Seq(S)
           /\ Len(SubSeq(q, i + 1, Len(q))) = Len(q) - i
           /\ \A k \in 1 .. (Len(q) - i) : SubSeq(q, i + 1, Len(q))[k] = q[i + k]
<1>1. PICK n : n = Len(q)
  OBVIOUS
<1>2. PICK m : m = i + 1
  OBVIOUS
<1>3. n \in Nat /\ i \in 1 .. n
  BY <1>1
<1>4. m \in Int /\ n \in Int
  BY <1>2, <1>3
<1>5. \A k \in m .. n : q[k] \in S
  BY <1>1, <1>2, <1>3
<1>6. /\ SubSeq(q, m, n) \in Seq(S)
      /\ Len(SubSeq(q, m, n)) = IF m <= n THEN n - m + 1 ELSE 0
      /\ \A k \in 1 .. n - m + 1 : SubSeq(q, m, n)[k] = q[m + k - 1]
  <2>1. SubSeq(q, m, n) \in Seq(S)
    BY <1>4, <1>5, SubSeqProperties
  <2>2. CASE m <= n
    <3>1. Len(SubSeq(q, m, n)) = n - m + 1
      BY <1>4, <1>5, <2>2, SubSeqProperties
    <3>2. \A k \in 1 .. n - m + 1 : SubSeq(q, m, n)[k] = q[m + k - 1]
      BY <1>4, <1>5, <2>2, SubSeqProperties
    <3> QED BY <2>1, <2>2, <3>1, <3>2
  <2>3. CASE ~(m <= n)
    <3>1. Len(SubSeq(q, m, n)) = 0
      BY <1>4, <1>5, <2>3, SubSeqProperties
    <3>2. \A k \in 1 .. n - m + 1 : SubSeq(q, m, n)[k] = q[m + k - 1]
      BY <1>4, <2>3
    <3> QED BY <2>1, <2>3, <3>1, <3>2
  <2> QED BY <2>2, <2>3
<1>7. PICK b : b = SubSeq(q, m, n)
  OBVIOUS
<1>8. (IF m <= n THEN n - m + 1 ELSE 0) = n - i /\ n - m + 1 = n - i
  BY <1>2, <1>3
<1>9. Len(b) = n - i
  BY <1>6, <1>7, <1>8, Zenon
<1>10. ASSUME NEW k \in 1 .. (n - i) PROVE b[k] = q[i + k]
  <2>1. m + k - 1 = i + k
    BY <1>2, <1>3
  <2> QED BY <1>6, <1>7, <1>8, <2>1, Zenon
<1> QED BY <1>1, <1>2, <1>6, <1>7, <1>9, <1>10

LEMMA WithoutResult ==
    ASSUME NEW q \in Seq(Names), IsInjective(q), NEW t \in ToSet(q)
    PROVE  /\ Without(q, t) \in Seq(Names)
           /\ IsInjective(Without(q, t))
           /\ ToSet(Without(q, t)) = ToSet(q) \ {t}
<1> DEFINE n == Len(q)
<1>1. n \in Nat /\ DOMAIN q = 1 .. n
  OBVIOUS
<1>2. PICK i : i = CHOOSE j \in DOMAIN q : q[j] = t
  OBVIOUS
<1>3. i \in 1 .. n /\ q[i] = t
  <2>1. \E j \in DOMAIN q : q[j] = t
    BY DEF ToSet
  <2> QED BY <1>1, <1>2, <2>1
<1>5. PICK a : a = SubSeq(q, 1, i - 1)
  OBVIOUS
<1>6. PICK b : b = SubSeq(q, i + 1, n)
  OBVIOUS
<1>7. /\ a \in Seq(Names) /\ Len(a) = i - 1
      /\ \A k \in 1 .. (i - 1) : a[k] = q[k]
  BY <1>1, <1>3, <1>5
<1>8. /\ b \in Seq(Names) /\ Len(b) = n - i
      /\ \A k \in 1 .. (n - i) : b[k] = q[i + k]
  BY <1>3, <1>6, AfterPlace
<1>9. PICK u : u = a \o b
  OBVIOUS
<1>10. u \in Seq(Names) /\ Len(u) = Len(a) + Len(b)
  BY <1>7, <1>8, <1>9, ConcatProperties, ZenonT(40)
<1>11. \A k \in 1 .. Len(a) + Len(b) : u[k] = IF k <= Len(a) THEN a[k] ELSE b[k - Len(a)]
  BY <1>7, <1>8, <1>9, ConcatProperties, ZenonT(40)
<1>12. Len(u) = n - 1 /\ DOMAIN u = 1 .. (n - 1)
  BY <1>1, <1>3, <1>7, <1>8, <1>10
<1>13. \A k \in 1 .. (n - 1) : u[k] = IF k < i THEN q[k] ELSE q[k + 1]
  <2> SUFFICES ASSUME NEW k \in 1 .. (n - 1) PROVE u[k] = IF k < i THEN q[k] ELSE q[k + 1]
    OBVIOUS
  <2>1. u[k] = IF k <= i - 1 THEN a[k] ELSE b[k - (i - 1)]
    BY <1>1, <1>3, <1>7, <1>8, <1>11
  <2>2. CASE k < i
    BY <1>1, <1>3, <1>7, <2>1, <2>2
  <2>3. CASE ~(k < i)
    <3>1. k - (i - 1) \in 1 .. (n - i) /\ i + (k - (i - 1)) = k + 1
      BY <1>1, <1>3, <2>3
    <3>2. b[k - (i - 1)] = q[k + 1]
      BY <1>8, <3>1
    <3> QED BY <1>1, <1>3, <2>1, <2>3, <3>2
  <2> QED BY <2>2, <2>3
<1>14. u = Without(q, t)
  BY <1>2, <1>5, <1>6, <1>9 DEF Without, RemoveAt
<1>16. IsInjective(u)
  <2> SUFFICES ASSUME NEW x \in 1 .. (n - 1), NEW y \in 1 .. (n - 1), u[x] = u[y]
               PROVE  x = y
    BY <1>12 DEF IsInjective
  <2>1. PICK x1 \in 1 .. n : x1 = IF x < i THEN x ELSE x + 1
    BY <1>1
  <2>2. PICK y1 \in 1 .. n : y1 = IF y < i THEN y ELSE y + 1
    BY <1>1
  <2>3. u[x] = q[x1] /\ u[y] = q[y1]
    BY <1>13, <2>1, <2>2
  <2>4. x1 = y1
    BY <1>1, <2>3 DEF IsInjective
  <2> QED BY <1>3, <2>1, <2>2, <2>4
<1>17. ASSUME NEW x PROVE x \in ToSet(u) <=> x \in ToSet(q) \ {t}
  <2>1. ASSUME x \in ToSet(u) PROVE x \in ToSet(q) \ {t}
    <3>1. PICK k \in 1 .. (n - 1) : u[k] = x
      BY <1>10, <1>12, <2>1, InList
    <3>2. PICK k1 \in 1 .. n : k1 = (IF k < i THEN k ELSE k + 1) /\ k1 # i
      BY <1>1, <1>3
    <3>3. x = q[k1]
      BY <1>13, <3>1, <3>2
    <3>4. q[k1] # q[i]
      BY <1>1, <1>3, <3>2 DEF IsInjective
    <3> QED BY <1>3, <3>3, <3>4, InList
  <2>2. ASSUME x \in ToSet(q), x # t PROVE x \in ToSet(u)
    <3>1. PICK k \in 1 .. n : q[k] = x
      BY <2>2, InList
    <3>2. k # i
      BY <1>3, <2>2, <3>1
    <3>3. PICK k1 \in 1 .. (n - 1) : k1 = IF k < i THEN k ELSE k - 1
      BY <1>1, <1>3, <3>2
    <3>4. u[k1] = q[k]
      <4>1. CASE k < i
        BY <1>13, <3>3, <4>1
      <4>2. CASE k > i
        <5>1. k1 = k - 1 /\ ~(k1 < i) /\ k1 + 1 = k
          BY <1>1, <1>3, <3>3, <4>2
        <5> QED BY <1>13, <5>1
      <4> QED BY <1>3, <3>2, <4>1, <4>2
    <3> QED BY <1>10, <1>12, <3>1, <3>4, InList
  <2> QED BY <2>1, <2>2
<1> QED
  BY <1>10, <1>14, <1>16, <1>17

LEMMA ConsResult ==
    ASSUME NEW q \in Seq(Names), IsInjective(q), NEW t \in Names, t \notin ToSet(q)
    PROVE  /\ <<t>> \o q \in Seq(Names)
           /\ IsInjective(<<t>> \o q)
           /\ ToSet(<<t>> \o q) = ToSet(q) \cup {t}
<1>1. PICK u : u = <<t>> \o q
  OBVIOUS
<1>2. PICK one : one = <<t>>
  OBVIOUS
<1>13. Len(one) = 1
  BY <1>2
<1>14. one[1] = t
  BY <1>2
<1>12. one \in Seq(Names)
  <2>1. <<t>> \in Seq(Names)
    OBVIOUS
  <2> QED BY <1>2, <2>1
<1>10. one \in Seq(Names) /\ Len(one) = 1 /\ one[1] = t
  BY <1>12, <1>13, <1>14
<1>11. u = one \o q
  BY <1>1, <1>2
<1>3. u \in Seq(Names) /\ Len(u) = Len(one) + Len(q)
  BY <1>10, <1>11, ConcatProperties, ZenonT(40)
<1>8. \A k \in 1 .. Len(one) + Len(q) :
         u[k] = IF k <= Len(one) THEN one[k] ELSE q[k - Len(one)]
  BY <1>10, <1>11, ConcatProperties, ZenonT(40)
<1>9. Len(q) \in Nat /\ Len(u) = Len(q) + 1
  BY <1>10, <1>3
<1>4. u[1] = t /\ \A k \in 1 .. Len(q) : u[k + 1] = q[k]
  <2>1. u[1] = t
    <3>1. 1 \in 1 .. Len(one) + Len(q) /\ 1 <= Len(one)
      BY <1>9, <1>10
    <3>2. u[1] = one[1]
      BY <1>8, <3>1
    <3> QED BY <1>10, <3>2
  <2>2. ASSUME NEW k \in 1 .. Len(q) PROVE u[k + 1] = q[k]
    <3>1. k + 1 \in 1 .. Len(one) + Len(q) /\ ~(k + 1 <= Len(one)) /\ k + 1 - Len(one) = k
      BY <1>9, <1>10
    <3> QED BY <1>8, <3>1
  <2> QED BY <2>1, <2>2
<1>5. \A k \in 2 .. Len(u) : k - 1 \in 1 .. Len(q) /\ u[k] = q[k - 1]
  BY <1>9, <1>4
<1>6. IsInjective(u)
  <2> SUFFICES ASSUME NEW x \in 1 .. Len(u), NEW y \in 1 .. Len(u), u[x] = u[y], x < y
               PROVE  FALSE
    BY <1>3 DEF IsInjective
  <2>1. u[y] = q[y - 1] /\ y - 1 \in 1 .. Len(q)
    BY <1>9, <1>5
  <2>2. CASE x = 1
    BY <1>4, <2>1, <2>2, InList
  <2>3. CASE x # 1
    <3>1. u[x] = q[x - 1] /\ x - 1 \in 1 .. Len(q)
      BY <1>9, <1>5, <2>3
    <3> QED BY <2>1, <3>1 DEF IsInjective
  <2> QED BY <2>2, <2>3
<1>7. ASSUME NEW x PROVE x \in ToSet(u) <=> x \in ToSet(q) \cup {t}
  <2>1. ASSUME x \in ToSet(u) PROVE x \in ToSet(q) \cup {t}
    <3>1. PICK k \in 1 .. Len(u) : u[k] = x
      BY <1>3, <2>1, InList
    <3>2. CASE k = 1
      BY <1>4, <3>1, <3>2
    <3>3. CASE k # 1
      <4>1. k - 1 \in 1 .. Len(q) /\ q[k - 1] = x
        BY <1>5, <1>9, <3>1, <3>3
      <4> QED BY <4>1, InList
    <3> QED BY <3>2, <3>3
  <2>2. ASSUME x \in ToSet(q) PROVE x \in ToSet(u)
    <3>1. PICK k \in 1 .. Len(q) : q[k] = x
      BY <2>2, InList
    <3>2. k + 1 \in 1 .. Len(u) /\ u[k + 1] = x
      BY <1>9, <1>4, <3>1
    <3> QED BY <1>3, <3>2, InList
  <2>3. t \in ToSet(u)
    <3>1. 1 \in 1 .. Len(u)
      BY <1>9
    <3> QED BY <1>3, <1>4, <3>1, InList
  <2> QED BY <2>1, <2>2, <2>3
<1> QED BY <1>1, <1>3, <1>6, <1>7
-----------------------------------------------------------------------------
(* Counting.                                                               *)

Counts == [NodePaths -> Nat]

AtMost(h, g) == \A p \in NodePaths : h[p] =< g[p]

LEMMA TokenIs ==
    ASSUME NEW g \in Counts, NEW t
    PROVE  t \in Tokens(g) <=>
               \E q \in NodePaths, i \in Nat : t = <<q, i>> /\ 1 =< i /\ i =< g[q]
<1> QED BY DEF Tokens

LEMMA MoreTokens ==
    ASSUME NEW g \in Counts, NEW c \in NodePaths
    PROVE  /\ More(g, c) \in Counts
           /\ Tokens(More(g, c)) = Tokens(g) \cup {<<c, g[c] + 1>>}
           /\ <<c, g[c] + 1>> \notin Tokens(g)
<1>1. More(g, c) \in Counts /\ g[c] \in Nat
  BY DEF More, Counts
<1>2. \A q \in NodePaths : More(g, c)[q] = IF q = c THEN g[q] + 1 ELSE g[q]
  BY DEF More, Counts
<1>3. <<c, g[c] + 1>> \notin Tokens(g)
  BY <1>1 DEF Tokens
<1>4. ASSUME NEW t \in Tokens(More(g, c)) PROVE t \in Tokens(g) \cup {<<c, g[c] + 1>>}
  <2>1. PICK q \in NodePaths, i \in Nat : t = <<q, i>> /\ 1 =< i /\ i =< More(g, c)[q]
    BY <1>1, <1>4, TokenIs
  <2>2. g[q] \in Nat
    BY DEF Counts
  <2>3. i =< g[q] \/ (q = c /\ i = g[c] + 1)
    BY <1>2, <2>1, <2>2
  <2> QED BY <2>1, <2>3, TokenIs
<1>5. ASSUME NEW t \in Tokens(g) PROVE t \in Tokens(More(g, c))
  <2>1. PICK q \in NodePaths, i \in Nat : t = <<q, i>> /\ 1 =< i /\ i =< g[q]
    BY <1>5, TokenIs
  <2>2. g[q] \in Nat
    BY DEF Counts
  <2>3. i =< More(g, c)[q]
    BY <1>2, <2>1, <2>2
  <2> QED BY <1>1, <2>1, <2>3, TokenIs
<1>6. <<c, g[c] + 1>> \in Tokens(More(g, c))
  <2>1. g[c] + 1 \in Nat /\ 1 =< g[c] + 1 /\ g[c] + 1 =< More(g, c)[c]
    BY <1>1, <1>2
  <2> QED BY <1>1, <2>1, TokenIs
<1> QED BY <1>1, <1>3, <1>4, <1>5, <1>6

LEMMA WeightNat ==
    ASSUME NEW g, IsFiniteSet(Tokens(g)), NEW p
    PROVE  IsFiniteSet(TokensBelow(g, p)) /\ Weight(g, p) \in Nat
<1>1. TokensBelow(g, p) \in SUBSET Tokens(g)
  BY DEF TokensBelow
<1>2. IsFiniteSet(TokensBelow(g, p))
  BY <1>1, FS_Subset
<1> QED BY <1>2, FS_CardinalityType DEF Weight

LEMMA WeightMore ==
    ASSUME NEW g \in Counts, NEW c \in NodePaths, IsFiniteSet(Tokens(g)), NEW p \in NodePaths
    PROVE  /\ IsFiniteSet(Tokens(More(g, c)))
           /\ Weight(More(g, c), p) = IF IsPrefix(p, c) THEN Weight(g, p) + 1 ELSE Weight(g, p)
<1> DEFINE t == <<c, g[c] + 1>>
<1>1. Tokens(More(g, c)) = Tokens(g) \cup {t} /\ t \notin Tokens(g) /\ t[1] = c
  BY MoreTokens
<1> HIDE DEF t
<1>2. IsFiniteSet(Tokens(More(g, c)))
  BY <1>1, FS_AddElement
<1>3. IsFiniteSet(TokensBelow(g, p)) /\ t \notin TokensBelow(g, p)
  BY <1>1, WeightNat DEF TokensBelow
<1>4. CASE IsPrefix(p, c)
  <2>1. TokensBelow(More(g, c), p) = TokensBelow(g, p) \cup {t}
    BY <1>1, <1>4 DEF TokensBelow
  <2>2. Cardinality(TokensBelow(g, p) \cup {t}) = Cardinality(TokensBelow(g, p)) + 1
    BY <1>3, FS_AddElement
  <2> QED BY <1>2, <1>4, <2>1, <2>2 DEF Weight
<1>5. CASE ~IsPrefix(p, c)
  <2>1. TokensBelow(More(g, c), p) = TokensBelow(g, p)
    BY <1>1, <1>5 DEF TokensBelow
  <2> QED BY <1>2, <1>5, <2>1 DEF Weight
<1> QED BY <1>4, <1>5

LEMMA WeightAtMost ==
    ASSUME NEW g \in Counts, NEW h \in Counts, AtMost(h, g), IsFiniteSet(Tokens(g)), NEW p
    PROVE  IsFiniteSet(Tokens(h)) /\ Weight(h, p) =< Weight(g, p)
<1>1. ASSUME NEW t \in Tokens(h) PROVE t \in Tokens(g)
  <2>1. PICK q \in NodePaths, i \in Nat : t = <<q, i>> /\ 1 =< i /\ i =< h[q]
    BY <1>1, TokenIs
  <2>2. i =< g[q]
    BY <2>1 DEF AtMost, Counts
  <2> QED BY <2>1, <2>2, TokenIs
<1>2. IsFiniteSet(Tokens(h))
  BY <1>1, FS_Subset
<1>3. TokensBelow(h, p) \in SUBSET TokensBelow(g, p) /\ IsFiniteSet(TokensBelow(g, p))
  BY <1>1, WeightNat DEF TokensBelow
<1> QED BY <1>2, <1>3, FS_Subset DEF Weight

\* Another reference that is counted.
LEMMA CoversMore ==
    ASSUME NEW g \in Counts, NEW h \in Counts, NEW c \in NodePaths, Covers(g, h)
    PROVE  Covers(More(g, c), More(h, c))
<1>1. IsFiniteSet(Tokens(g)) /\ IsFiniteSet(Tokens(h))
  BY DEF Covers
<1>2. IsFiniteSet(Tokens(More(g, c))) /\ IsFiniteSet(Tokens(More(h, c)))
  BY <1>1, WeightMore
<1>3. ASSUME NEW p \in NodePaths PROVE Weight(More(h, c), p) =< Weight(More(g, c), p)
  <2>1. Weight(g, p) \in Nat /\ Weight(h, p) \in Nat
    BY <1>1, WeightNat
  <2>2. Weight(h, p) =< Weight(g, p)
    BY DEF Covers
  <2>3. Weight(More(g, c), p) = IF IsPrefix(p, c) THEN Weight(g, p) + 1 ELSE Weight(g, p)
    BY <1>1, WeightMore
  <2>4. Weight(More(h, c), p) = IF IsPrefix(p, c) THEN Weight(h, p) + 1 ELSE Weight(h, p)
    BY <1>1, WeightMore
  <2> QED BY <2>1, <2>2, <2>3, <2>4
<1> QED BY <1>2, <1>3 DEF Covers

\* References that are given up without being counted down.
LEMMA CoversAtMost ==
    ASSUME NEW g \in Counts, NEW h \in Counts, NEW k \in Counts, Covers(g, h), AtMost(k, h)
    PROVE  Covers(g, k)
<1>1. IsFiniteSet(Tokens(g)) /\ IsFiniteSet(Tokens(h))
  BY DEF Covers
<1>2. IsFiniteSet(Tokens(k))
  BY <1>1, WeightAtMost
<1>3. ASSUME NEW p \in NodePaths PROVE Weight(k, p) =< Weight(g, p)
  <2>1. Weight(g, p) \in Nat /\ Weight(h, p) \in Nat /\ Weight(k, p) \in Nat
    BY <1>1, <1>2, WeightNat
  <2>2. Weight(h, p) =< Weight(g, p)
    BY DEF Covers
  <2>3. Weight(k, p) =< Weight(h, p)
    BY <1>1, WeightAtMost
  <2> QED BY <2>1, <2>2, <2>3
<1> QED BY <1>1, <1>2, <1>3 DEF Covers

\* A reference that is counted down, if the counter is not 0 already.
LEMMA CoversLess ==
    ASSUME NEW g \in Counts, NEW h \in Counts, NEW c \in NodePaths, Covers(g, More(h, c))
    PROVE  Less(g, c) \in Counts /\ Covers(Less(g, c), h)
<1>1. Less(g, c) \in Counts /\ More(h, c) \in Counts /\ g[c] \in Nat
  BY DEF Less, More, Counts
<1>2. AtMost(h, More(h, c))
  BY DEF AtMost, More, Counts
<1>3. CASE g[c] = 0
  <2>1. Less(g, c) = g
    BY <1>3 DEF Less, Counts
  <2> QED BY <1>1, <1>2, <2>1, CoversAtMost
<1>4. CASE g[c] # 0
  <2>1. PICK k \in Counts : k = Less(g, c)
    BY <1>1
  <2>2. g = More(k, c)
    <3>1. \A q \in NodePaths : k[q] = IF q = c THEN g[c] - 1 ELSE g[q]
      BY <1>1, <1>4, <2>1 DEF Less, Counts
    <3>2. More(k, c) = [q \in NodePaths |-> IF q = c THEN k[q] + 1 ELSE k[q]]
      BY DEF More, Counts
    <3>3. \A q \in NodePaths : More(k, c)[q] = g[q]
      BY <1>1, <3>1, <3>2 DEF Counts
    <3>4. g = [q \in NodePaths |-> g[q]]
      BY DEF Counts
    <3> QED BY <3>2, <3>3, <3>4
  <2>3. AtMost(k, g)
    BY <1>1, <2>1 DEF Less, Counts, AtMost
  <2>4. IsFiniteSet(Tokens(k)) /\ IsFiniteSet(Tokens(h))
    <3>1. IsFiniteSet(Tokens(g)) /\ IsFiniteSet(Tokens(More(h, c)))
      BY DEF Covers
    <3> QED BY <1>1, <1>2, <2>3, <3>1, WeightAtMost
  <2>5. ASSUME NEW p \in NodePaths PROVE Weight(h, p) =< Weight(k, p)
    <3>1. Weight(k, p) \in Nat /\ Weight(h, p) \in Nat
      BY <2>4, WeightNat
    <3>2. Weight(g, p) = IF IsPrefix(p, c) THEN Weight(k, p) + 1 ELSE Weight(k, p)
      BY <2>2, <2>4, WeightMore
    <3>3. Weight(More(h, c), p) = IF IsPrefix(p, c) THEN Weight(h, p) + 1 ELSE Weight(h, p)
      BY <2>4, WeightMore
    <3>4. Weight(More(h, c), p) =< Weight(g, p)
      BY DEF Covers
    <3> QED BY <3>1, <3>2, <3>3, <3>4
  <2>6. Covers(k, h)
    BY <2>4, <2>5 DEF Covers
  <2> QED BY <1>1, <2>1, <2>6
<1> QED BY <1>3, <1>4

\* "..": the reference is used as one of the node above.
LEMMA CoversUp ==
    ASSUME NEW g \in Counts, NEW h \in Counts, NEW c \in NodePaths, NEW d \in NodePaths,
           Covers(g, More(h, c)), IsPrefix(d, c)
    PROVE  Covers(g, More(h, d))
<1>1. AtMost(h, More(h, c)) /\ More(h, c) \in Counts
  BY DEF AtMost, More, Counts
<1>2. IsFiniteSet(Tokens(g)) /\ IsFiniteSet(Tokens(More(h, c)))
  BY DEF Covers
<1>3. IsFiniteSet(Tokens(h))
  BY <1>1, <1>2, WeightAtMost
<1>4. IsFiniteSet(Tokens(More(h, d)))
  BY <1>3, WeightMore
<1>5. ASSUME NEW p \in NodePaths PROVE Weight(More(h, d), p) =< Weight(g, p)
  <2>1. Weight(h, p) \in Nat /\ Weight(g, p) \in Nat
    BY <1>2, <1>3, WeightNat
  <2>2. IsPrefix(p, d) => IsPrefix(p, c)
    BY PathTypes, PrefixTrans
  <2>3. Weight(More(h, c), p) = IF IsPrefix(p, c) THEN Weight(h, p) + 1 ELSE Weight(h, p)
    BY <1>3, WeightMore
  <2>4. Weight(More(h, d), p) = IF IsPrefix(p, d) THEN Weight(h, p) + 1 ELSE Weight(h, p)
    BY <1>3, WeightMore
  <2>5. Weight(More(h, c), p) =< Weight(g, p)
    BY DEF Covers
  <2> QED BY <2>1, <2>2, <2>3, <2>4, <2>5
<1> QED BY <1>2, <1>4, <1>5 DEF Covers

\* Nothing is held: any counters will do.
LEMMA CoversNothing ==
    ASSUME NEW g \in Counts, NEW h \in Counts, IsFiniteSet(Tokens(g)),
           \A p \in NodePaths : h[p] = 0
    PROVE  Covers(g, h)
<1>1. Tokens(h) = {}
  BY TokenIs DEF Counts
<1>2. AtMost(h, g)
  BY DEF AtMost, Counts
<1> QED BY <1>2, WeightAtMost DEF Covers

\* What is held at p is counted there or below.
LEMMA CoveredIsCounted ==
    ASSUME NEW g \in Counts, NEW h \in Counts, Covers(g, h), NEW p \in NodePaths, h[p] # 0
    PROVE  \E q \in NodePaths : IsPrefix(p, q) /\ g[q] # 0
<1>1. IsFiniteSet(Tokens(g)) /\ IsFiniteSet(Tokens(h)) /\ Weight(h, p) =< Weight(g, p)
  BY DEF Covers
<1>2. IsFiniteSet(TokensBelow(g, p)) /\ IsFiniteSet(TokensBelow(h, p))
  BY <1>1, WeightNat
<1>3. <<p, 1>> \in TokensBelow(h, p)
  <2>1. 1 =< h[p]
    BY DEF Counts
  <2>2. <<p, 1>> \in Tokens(h)
    BY <2>1, TokenIs
  <2> QED BY <2>2, PathTypes, PrefixSelf DEF TokensBelow
<1>4. Weight(h, p) # 0 /\ Weight(h, p) \in Nat /\ Weight(g, p) \in Nat
  BY <1>1, <1>2, <1>3, FS_EmptySet, WeightNat DEF Weight
<1>5. Weight(g, p) # 0
  BY <1>1, <1>4
<1>6. TokensBelow(g, p) # {}
  BY <1>2, <1>5, FS_EmptySet DEF Weight
<1>7. PICK t \in Tokens(g) : IsPrefix(p, t[1])
  BY <1>6 DEF TokensBelow
<1>8. PICK q \in NodePaths, i \in Nat : t = <<q, i>> /\ 1 =< i /\ i =< g[q]
  BY <1>7, TokenIs
<1>9. g[q] # 0 /\ t[1] = q
  BY <1>8
<1> QED BY <1>7, <1>9
-----------------------------------------------------------------------------
(* The tree under the operations of node.c.                                *)

\* M has nodes of N, which belong to the same filesystems
Within(M, N) ==
    /\ DOMAIN M \subseteq DOMAIN N
    /\ \A q \in DOMAIN M : /\ M[q].fs = N[q].fs /\ M[q].inode = N[q].inode
                           /\ M[q].mount_fs = N[q].mount_fs

SameNodes(M, N) == DOMAIN M = DOMAIN N /\ Within(M, N)

LEMMA RecordIs ==
    ASSUME NEW r \in NodeRecords
    PROVE  /\ r.fs \in FileSystems /\ r.inode \in Inodes /\ r.ref_count \in Nat
           /\ r.mount_fs \in FileSystems \cup {NoFs} /\ r.child \in Seq(Names)
           /\ r.inode.fs \in FileSystems /\ r.inode.path \in Seq(Names)
<1> QED BY DEF NodeRecords, Inodes

LEMMA RecordCount ==
    ASSUME NEW r \in NodeRecords, NEW n \in Nat, NEW s, s = [r EXCEPT !.ref_count = n]
    PROVE  /\ s \in NodeRecords
           /\ s.fs = r.fs /\ s.inode = r.inode /\ s.mount_fs = r.mount_fs /\ s.child = r.child
           /\ s.ref_count = n
<1> QED BY DEF NodeRecords

LEMMA RecordChild ==
    ASSUME NEW r \in NodeRecords, NEW c \in Seq(Names), NEW s, s = [r EXCEPT !.child = c]
    PROVE  /\ s \in NodeRecords
           /\ s.fs = r.fs /\ s.inode = r.inode /\ s.mount_fs = r.mount_fs /\ s.child = c
           /\ s.ref_count = r.ref_count
<1> QED BY DEF NodeRecords

\* The shape of a tree does not depend on its counters and filesystems.
LEMMA LinkedSame ==
    ASSUME NEW N, NEW M, Linked(N), Closed(N), DOMAIN M = DOMAIN N,
           \A q \in DOMAIN N : M[q].child = N[q].child
    PROVE  Linked(M) /\ Closed(M)
<1>1. Closed(M)
  BY DEF Closed
<1>2. Linked(M)
  BY DEF Linked, Alive
<1> QED BY <1>1, <1>2

SetCount(N, p, n) == [N EXCEPT ![p].ref_count = n]

LEMMA CountTree ==
    ASSUME NEW N, Tree(N), NEW p \in DOMAIN N, NEW n \in Nat, NEW M, M = SetCount(N, p, n)
    PROVE  /\ Tree(M) /\ SameNodes(M, N)
           /\ \A q \in DOMAIN N : M[q].child = N[q].child
           /\ \A q \in DOMAIN N : M[q].ref_count = IF q = p THEN n ELSE N[q].ref_count
<1>1. DOMAIN M = DOMAIN N /\ \A q \in DOMAIN N :
          M[q] = IF q = p THEN [N[p] EXCEPT !.ref_count = n] ELSE N[q]
  BY DEF SetCount
<1>2. ASSUME NEW q \in DOMAIN N
      PROVE  /\ M[q] \in NodeRecords
             /\ M[q].fs = N[q].fs /\ M[q].inode = N[q].inode /\ M[q].mount_fs = N[q].mount_fs
             /\ M[q].child = N[q].child
             /\ M[q].ref_count = IF q = p THEN n ELSE N[q].ref_count
  <2>1. N[q] \in NodeRecords
    BY DEF Tree, Shape
  <2>2. CASE q = p
    BY <1>1, <2>1, <2>2, RecordCount
  <2>3. CASE q # p
    BY <1>1, <2>1, <2>3
  <2> QED BY <2>2, <2>3
<1>3. Shape(M)
  BY <1>1, <1>2 DEF Tree, Shape
<1>4. Linked(M) /\ Closed(M)
  BY <1>1, <1>2, LinkedSame DEF Tree
<1> QED BY <1>1, <1>2, <1>3, <1>4 DEF Tree, SameNodes, Within

\* There is nothing below a node without children.
LEMMA ChildlessAlone ==
    ASSUME NEW N, Tree(N), NEW v \in DOMAIN N, N[v].child = <<>>,
           NEW q \in DOMAIN N, IsPrefix(v, q)
    PROVE  q = v
<1> SUFFICES ASSUME q # v PROVE FALSE
  OBVIOUS
<1>1. v \in Seq(Names) /\ q \in Seq(Names)
  BY PathTypes DEF Tree, Shape
<1>2. PICK n \in Names : IsPrefix(Append(v, n), q)
  BY <1>1, PrefixStep
<1>3. PICK c \in Seq(Names) : c = Append(v, n)
  BY <1>1, AppendIs
<1>4. c \in DOMAIN N
  BY <1>2, <1>3 DEF Tree, Closed
<1>5. c # Root /\ Front(c) = v
  BY <1>1, <1>3, PathParts
<1>6. Last(c) \in ToSet(N[v].child)
  BY <1>4, <1>5 DEF Tree, Linked
<1> QED BY <1>6 DEF ToSet

LEMMA DetachTree ==
    ASSUME NEW N, Tree(N), NEW v \in DOMAIN N, N[v].child = <<>>
    PROVE  /\ Tree(Detach(N, v)) /\ Within(Detach(N, v), N)
           /\ DOMAIN Detach(N, v) = DOMAIN N \ {v}
           /\ \A q \in DOMAIN N \ {v} : Detach(N, v)[q].ref_count = N[q].ref_count
<1>1. PICK M : M = Detach(N, v)
  OBVIOUS
<1>2. DOMAIN M = DOMAIN N \ {v}
  BY <1>1 DEF Detach
<1>3. \A q \in DOMAIN M :
         M[q] = IF v # Root /\ q = Front(v)
                THEN [N[q] EXCEPT !.child = Without(N[q].child, Last(v))] ELSE N[q]
  BY <1>1 DEF Detach
<1>4. \A q \in DOMAIN N : q \in Seq(Names) /\ N[q] \in NodeRecords /\ N[q].child \in Seq(Names)
  BY PathTypes, RecordIs DEF Tree, Shape
<1>5. \A q \in DOMAIN N : IsInjective(N[q].child)
  BY DEF Tree, Linked
<1>6. ASSUME NEW q \in DOMAIN M
      PROVE  /\ M[q] \in NodeRecords /\ IsInjective(M[q].child)
             /\ M[q].fs = N[q].fs /\ M[q].inode = N[q].inode /\ M[q].mount_fs = N[q].mount_fs
             /\ M[q].ref_count = N[q].ref_count
             /\ ToSet(M[q].child) = IF v # Root /\ q = Front(v) THEN ToSet(N[q].child) \ {Last(v)}
                                    ELSE ToSet(N[q].child)
  <2>1. CASE v # Root /\ q = Front(v)
    <3>1. Last(v) \in ToSet(N[q].child)
      BY <2>1 DEF Tree, Linked
    <3>2. PICK c : c = Without(N[q].child, Last(v))
      OBVIOUS
    <3>3. c \in Seq(Names) /\ IsInjective(c) /\ ToSet(c) = ToSet(N[q].child) \ {Last(v)}
      BY <1>2, <1>4, <1>5, <3>1, <3>2, WithoutResult
    <3>4. M[q] = [N[q] EXCEPT !.child = c]
      BY <1>3, <2>1, <3>2
    <3>5. N[q] \in NodeRecords
      BY <1>2, <1>4
    <3> QED BY <2>1, <3>3, <3>4, <3>5, RecordChild
  <2>2. CASE ~(v # Root /\ q = Front(v))
    BY <1>2, <1>3, <1>4, <1>5, <2>2
  <2> QED BY <2>1, <2>2
<1>7. Shape(M)
  BY <1>2, <1>6 DEF Tree, Shape
<1>8. ASSUME NEW p \in DOMAIN M, p # Root
      PROVE  Front(p) \in DOMAIN M /\ Last(p) \in ToSet(M[Front(p)].child)
  <2>1. Front(p) \in DOMAIN N /\ Last(p) \in ToSet(N[Front(p)].child)
    BY <1>2, <1>8 DEF Tree, Linked, Alive
  <2>2. Front(p) # v
    BY <2>1 DEF ToSet
  <2>3. v # Root /\ Front(p) = Front(v) => Last(p) # Last(v)
    <3> SUFFICES ASSUME v # Root, Front(p) = Front(v), Last(p) = Last(v) PROVE FALSE
      OBVIOUS
    <3>1. p = Append(Front(p), Last(p)) /\ v = Append(Front(v), Last(v))
      BY <1>2, <1>4, <1>8, FrontLast
    <3> QED BY <1>2, <3>1
  <2> QED BY <1>2, <1>6, <2>1, <2>2, <2>3
<1>9. ASSUME NEW p \in DOMAIN M, NEW n \in ToSet(M[p].child)
      PROVE  Append(p, n) \in DOMAIN M
  <2>1. n \in ToSet(N[p].child) /\ (v # Root /\ p = Front(v) => n # Last(v))
    BY <1>6
  <2>2. Append(p, n) \in DOMAIN N
    BY <1>2, <2>1 DEF Tree, Linked, Alive
  <2>3. n \in Names
    <3>1. PICK k \in 1 .. Len(N[p].child) : N[p].child[k] = n
      BY <1>2, <1>4, <2>1, InList
    <3>2. N[p].child \in Seq(Names)
      BY <1>2, <1>4
    <3> QED BY <3>1, <3>2
  <2>4. Append(p, n) # v
    <3>1. Append(p, n) # Root /\ Front(Append(p, n)) = p /\ Last(Append(p, n)) = n
      BY <1>2, <1>4, <2>3, PathParts
    <3> QED BY <2>1, <3>1
  <2> QED BY <1>2, <2>2, <2>4
<1>10. Linked(M)
  BY <1>6, <1>8, <1>9 DEF Linked, Alive
<1>11. ASSUME NEW q \in DOMAIN M, NEW p \in Seq(Names), IsPrefix(p, q) PROVE p \in DOMAIN M
  <2>1. p \in DOMAIN N
    BY <1>2, <1>11 DEF Tree, Closed
  <2>2. p # v
    BY <1>2, <1>11, ChildlessAlone
  <2> QED BY <1>2, <2>1, <2>2
<1>12. Closed(M)
  BY <1>11 DEF Closed
<1> QED BY <1>1, <1>2, <1>6, <1>7, <1>10, <1>12 DEF Tree, Within

\* M is N with node a, of record r, as the first child of p
IsAdded(M, N, p, name, a, r) ==
    /\ a = Append(p, name) /\ a \in NodePaths /\ a \notin DOMAIN N
    /\ r \in NodeRecords /\ r.child = <<>>
    /\ DOMAIN M = DOMAIN N \cup {a} /\ M[a] = r
    /\ M[p] = [N[p] EXCEPT !.child = <<name>> \o N[p].child]
    /\ \A q \in DOMAIN N : q # p => M[q] = N[q]

LEMMA AddedTree ==
    ASSUME NEW N, Tree(N), NEW p \in DOMAIN N, NEW name \in Names,
           NEW a, NEW r, NEW M, IsAdded(M, N, p, name, a, r)
    PROVE  /\ Tree(M)
           /\ \A q \in DOMAIN N :
                  /\ M[q].fs = N[q].fs /\ M[q].inode = N[q].inode
                  /\ M[q].mount_fs = N[q].mount_fs /\ M[q].ref_count = N[q].ref_count
<1>1. a = Append(p, name) /\ a \in NodePaths /\ r \in NodeRecords /\ r.child = <<>>
  BY DEF IsAdded
<1>2. \A q \in DOMAIN N : q \in Seq(Names) /\ N[q] \in NodeRecords /\ N[q].child \in Seq(Names)
  BY PathTypes, RecordIs DEF Tree, Shape
<1>3. \A q \in DOMAIN N : IsInjective(N[q].child)
  BY DEF Tree, Linked
<1>4. /\ a \in Seq(Names) /\ a # Root /\ Front(a) = p /\ Last(a) = name
      /\ a \in NodePaths /\ a \notin DOMAIN N /\ DOMAIN M = DOMAIN N \cup {a} /\ M[a] = r
  BY <1>1, <1>2, PathParts DEF IsAdded
<1>5. name \notin ToSet(N[p].child)
  BY <1>1, <1>4 DEF Tree, Linked, Alive
<1>6. PICK c : c = <<name>> \o N[p].child
  OBVIOUS
<1>7. c \in Seq(Names) /\ IsInjective(c) /\ ToSet(c) = ToSet(N[p].child) \cup {name}
  BY <1>2, <1>3, <1>5, <1>6, ConsResult
<1>8. ASSUME NEW q \in DOMAIN N
      PROVE  /\ M[q] \in NodeRecords /\ IsInjective(M[q].child)
             /\ M[q].fs = N[q].fs /\ M[q].inode = N[q].inode /\ M[q].mount_fs = N[q].mount_fs
             /\ M[q].ref_count = N[q].ref_count
             /\ ToSet(M[q].child) = IF q = p THEN ToSet(N[q].child) \cup {name}
                                    ELSE ToSet(N[q].child)
  <2>1. CASE q = p
    <3>1. M[q] = [N[q] EXCEPT !.child = c]
      BY <1>6, <2>1 DEF IsAdded
    <3>2. N[q] \in NodeRecords
      BY <1>2
    <3> QED BY <1>7, <2>1, <3>1, <3>2, RecordChild
  <2>2. CASE q # p
    BY <1>2, <1>3, <2>2 DEF IsAdded
  <2> QED BY <2>1, <2>2
<1>9. ToSet(M[a].child) = {} /\ IsInjective(M[a].child)
  BY <1>1, <1>4 DEF ToSet, IsInjective
<1>10. Shape(M)
  BY <1>1, <1>4, <1>8 DEF Tree, Shape
<1>11. ASSUME NEW q \in DOMAIN M, q # Root
       PROVE  Front(q) \in DOMAIN M /\ Last(q) \in ToSet(M[Front(q)].child)
  <2>1. CASE q = a
    BY <1>4, <1>8, <2>1
  <2>2. CASE q # a
    <3>1. Front(q) \in DOMAIN N /\ Last(q) \in ToSet(N[Front(q)].child)
      BY <1>4, <1>11, <2>2 DEF Tree, Linked, Alive
    <3> QED BY <1>4, <1>8, <3>1
  <2> QED BY <2>1, <2>2
<1>12. ASSUME NEW q \in DOMAIN M, NEW n \in ToSet(M[q].child)
       PROVE  Append(q, n) \in DOMAIN M
  <2>1. q \in DOMAIN N
    BY <1>4, <1>9, <1>12
  <2>2. CASE n \in ToSet(N[q].child)
    BY <1>4, <2>1, <2>2 DEF Tree, Linked, Alive
  <2>3. CASE n \notin ToSet(N[q].child)
    <3>1. q = p /\ n = name
      BY <1>8, <1>12, <2>1, <2>3
    <3> QED BY <1>1, <1>4, <3>1
  <2> QED BY <2>2, <2>3
<1>13. Linked(M)
  <2>1. \A q \in DOMAIN M : IsInjective(M[q].child)
    BY <1>4, <1>8, <1>9
  <2> QED BY <1>11, <1>12, <2>1 DEF Linked, Alive
<1>14. ASSUME NEW q \in DOMAIN M, NEW s \in Seq(Names), IsPrefix(s, q) PROVE s \in DOMAIN M
  <2>1. CASE q = a
    <3>1. IsPrefix(s, p) \/ s = a
      BY <1>1, <1>2, <1>14, <2>1, PrefixAppend
    <3> QED BY <1>4, <3>1 DEF Tree, Closed
  <2>2. CASE q # a
    BY <1>4, <1>14, <2>2 DEF Tree, Closed
  <2> QED BY <2>1, <2>2
<1>15. Closed(M)
  BY <1>14 DEF Closed
<1> QED BY <1>8, <1>10, <1>13, <1>15 DEF Tree
-----------------------------------------------------------------------------
(* Getting and putting nodes.                                              *)

\* Counters as functions of all paths.
LEMMA RefsCounts ==
    ASSUME NEW N, Shape(N)
    PROVE  Refs(N) \in Counts
<1> QED BY RecordIs DEF Shape, Refs, Counts

LEMMA ReferencedIs ==
    ASSUME NEW N, Tree(N), NEW p \in DOMAIN N
    PROVE  /\ Tree(Referenced(N, p)) /\ SameNodes(Referenced(N, p), N)
           /\ Refs(Referenced(N, p)) = More(Refs(N), p)
<1>1. PICK M : M = Referenced(N, p)
  OBVIOUS
<1>2. N[p].ref_count \in Nat /\ DOMAIN N \subseteq NodePaths
  BY RecordIs DEF Tree, Shape
<1>3. PICK n \in Nat : n = N[p].ref_count + 1
  BY <1>2
<1>6. M = SetCount(N, p, n)
  BY <1>1, <1>3 DEF Referenced, SetCount
<1>4. /\ Tree(M) /\ SameNodes(M, N)
      /\ \A q \in DOMAIN N :
            M[q].ref_count = IF q = p THEN n ELSE N[q].ref_count
  BY <1>6, CountTree
<1>5. Refs(M) = More(Refs(N), p)
  <2>1. DOMAIN M = DOMAIN N
    BY <1>4 DEF SameNodes
  <2> QED BY <1>2, <1>3, <1>4, <2>1 DEF Refs, More
<1> QED BY <1>1, <1>4, <1>5

LEMMA DecrementIs ==
    ASSUME NEW N, Tree(N), NEW p \in DOMAIN N
    PROVE  /\ Tree(Decrement(N, p)) /\ SameNodes(Decrement(N, p), N)
           /\ Refs(Decrement(N, p)) = Less(Refs(N), p)
<1>1. PICK M : M = Decrement(N, p)
  OBVIOUS
<1>2. N[p].ref_count \in Nat /\ DOMAIN N \subseteq NodePaths
  BY RecordIs DEF Tree, Shape
<1>3. PICK n \in Nat : n = IF N[p].ref_count = 0 THEN 0 ELSE N[p].ref_count - 1
  BY <1>2
<1>4. M = SetCount(N, p, n)
  BY <1>1, <1>3 DEF Decrement, SetCount
<1>5. /\ Tree(M) /\ SameNodes(M, N)
      /\ \A q \in DOMAIN N : M[q].ref_count = IF q = p THEN n ELSE N[q].ref_count
  BY <1>4, CountTree
<1>6. Refs(M) = Less(Refs(N), p)
  <2>1. DOMAIN M = DOMAIN N
    BY <1>5 DEF SameNodes
  <2> QED BY <1>2, <1>3, <1>5, <2>1 DEF Refs, Less
<1> QED BY <1>1, <1>5, <1>6

(***************************************************************************)
(* vfs_node_put frees at most a node that nothing is below, and counts the *)
(* reference down.                                                         *)
(***************************************************************************)
LEMMA PutIs ==
    ASSUME NEW N, Tree(N), NEW p \in DOMAIN N
    PROVE  /\ Tree(Put(N, p)) /\ Within(Put(N, p), N)
           /\ Refs(Put(N, p)) = Less(Refs(N), p)
<1>1. PICK M : M = Decrement(N, p)
  OBVIOUS
<1>2. Tree(M) /\ SameNodes(M, N) /\ Refs(M) = Less(Refs(N), p)
  BY <1>1, DecrementIs
<1>3. CASE Victims(M, p) = {}
  <2>1. Put(N, p) = M
    BY <1>1, <1>3 DEF Put
  <2> QED BY <1>2, <2>1 DEF SameNodes
<1>4. CASE Victims(M, p) # {}
  <2>1. PICK v : v = CHOOSE q \in Victims(M, p) : TRUE
    OBVIOUS
  <2>2. v \in Victims(M, p)
    BY <1>4, <2>1
  <2>3. v \in DOMAIN M /\ M[v].child = <<>> /\ M[v].ref_count = 0
    BY <2>2 DEF Victims, Deleteable
  <2>4. PICK D : D = Detach(M, v)
    OBVIOUS
  <2>5. /\ Tree(D) /\ Within(D, M) /\ DOMAIN D = DOMAIN M \ {v}
        /\ \A q \in DOMAIN M \ {v} : D[q].ref_count = M[q].ref_count
    BY <1>2, <2>3, <2>4, DetachTree
  <2>6. Put(N, p) = D
    BY <1>1, <1>4, <2>1, <2>4 DEF Put
  <2>7. Within(D, N)
    BY <1>2, <2>5 DEF SameNodes, Within
  <2>8. Refs(D) = Refs(M)
    BY <2>3, <2>5 DEF Refs
  <2> QED BY <1>2, <2>5, <2>6, <2>7, <2>8
<1> QED BY <1>3, <1>4

\* When vfs_node_put returns 0, the node is gone, and nothing was below it.
LEMMA PutDone ==
    ASSUME NEW N, Tree(N), NEW p \in DOMAIN N, PutError(N, p) = "0"
    PROVE  /\ p \notin DOMAIN Put(N, p)
           /\ \A q \in DOMAIN N : IsPrefix(p, q) => q = p
<1>1. PICK M : M = Decrement(N, p)
  OBVIOUS
<1>2. Tree(M) /\ DOMAIN M = DOMAIN N
  BY <1>1, DecrementIs DEF SameNodes
<1>3. p \in Victims(M, p)
  BY <1>1 DEF PutError
<1>8. M[p].child = <<>>
  BY <1>3 DEF Victims
<1>4. \A q \in Victims(M, p) : q = p
  <2>1. \A q \in Victims(M, p) : q \in DOMAIN M /\ IsPrefix(p, q)
    BY DEF Victims
  <2> QED BY <1>2, <1>8, <2>1, ChildlessAlone
<1>5. p = CHOOSE q \in Victims(M, p) : TRUE
  BY <1>3, <1>4
<1>6. Put(N, p) = Detach(M, p)
  BY <1>1, <1>3, <1>5 DEF Put
<1>7. p \notin DOMAIN Put(N, p)
  BY <1>6 DEF Detach
<1> QED BY <1>2, <1>7, <1>8, ChildlessAlone

\* vfs_node_get of a name that names a node.
LEMMA GetExisting ==
    ASSUME NEW N, Tree(N), NEW p \in DOMAIN N, NEW name \in Names, Append(p, name) \in DOMAIN N
    PROVE  /\ Tree(Get(N, p, name)) /\ SameNodes(Get(N, p, name), N)
           /\ Refs(Get(N, p, name)) = More(Refs(N), Append(p, name))
<1>1. Get(N, p, name) = Referenced(N, Append(p, name))
  BY DEF Get, Alive
<1> QED BY <1>1, ReferencedIs

LEMMA GetNothing ==
    ASSUME NEW N, NEW p, NEW name, ~Alive(N, Append(p, name)), ~Namei(N, p, name)
    PROVE  Get(N, p, name) = N
<1> QED BY DEF Get

\* The node of an entry lies where its inode says.
LEMMA NameiPlace ==
    ASSUME NEW N, Tree(N), Placed(N), NEW p \in DOMAIN N, NEW name \in Names, Namei(N, p, name)
    PROVE  /\ Append(p, name) \in NodePaths
           /\ N[p].fs = RootFs => /\ Append(N[p].inode.path, name) = Append(p, name)
                                  /\ Append(p, name) \in RootFiles \cup RootDirs
           /\ N[p].fs # RootFs => N[p].inode.path = Root
<1>1. N[p] \in NodeRecords /\ p \in Seq(Names)
  BY PathTypes DEF Tree, Shape
<1>2. N[p].inode.path \in Seq(Names) /\ N[p].inode.fs = N[p].fs
  BY <1>1, RecordIs DEF Namei
<1>3. CASE N[p].fs = RootFs
  <2>1. N[p].inode.path = p
    BY <1>2, <1>3 DEF Placed
  <2>2. Append(p, name) \in RootFiles \cup RootDirs
    BY <1>3, <2>1 DEF Namei, Entries
  <2> QED BY <1>3, <2>1, <2>2, PathTypes
<1>4. CASE N[p].fs # RootFs
  <2>1. PICK d \in Devices : Append(N[p].inode.path, name) = <<d>>
    BY <1>4 DEF Namei, Entries
  <2>2. Len(Append(N[p].inode.path, name)) = Len(N[p].inode.path) + 1
    BY <1>2, AppendIs
  <2>3. Append(N[p].inode.path, name)[Len(N[p].inode.path) + 1] = name
    BY <1>2, AppendIs
  <2>4. Len(<<d>>) = 1 /\ <<d>>[1] = d
    OBVIOUS
  <2>5. Len(N[p].inode.path) = 0
    BY <1>2, <2>1, <2>2, <2>4
  <2>6. N[p].inode.path = Root
    BY <1>2, <2>5 DEF Root
  <2>7. name = d
    BY <2>1, <2>3, <2>4, <2>5
  <2>8. p \in RootDirs
    BY <1>2, <1>4, <2>6 DEF Placed
  <2>9. Append(p, name) \in NodePaths
    BY <2>7, <2>8 DEF NodePaths
  <2> QED BY <1>4, <2>6, <2>9
<1> QED BY <1>3, <1>4

\* M is N with a new node a for name
MakesNode(M, N, p, name, a) ==
    a = Append(p, name) /\ a \notin DOMAIN N /\ Namei(N, p, name) /\ M = Get(N, p, name)

\* what the new node is, and that the others keep their filesystems
NewNode(M, N, p, name, a) ==
    /\ DOMAIN M = DOMAIN N \cup {a} /\ a \in NodePaths
    /\ M[a].fs = N[p].fs /\ M[a].mount_fs = NoFs
    /\ M[a].inode = Inode(N[p].fs, Append(N[p].inode.path, name))
    /\ \A q \in DOMAIN N : /\ M[q].fs = N[q].fs /\ M[q].inode = N[q].inode
                           /\ M[q].mount_fs = N[q].mount_fs

\* vfs_node_get that makes a new node.
LEMMA GetNew ==
    ASSUME NEW N, Tree(N), Placed(N), NEW p \in DOMAIN N, NEW name \in Names,
           NEW M, NEW a, MakesNode(M, N, p, name, a)
    PROVE  Tree(M) /\ Refs(M) = More(Refs(N), a) /\ NewNode(M, N, p, name, a)
<1>0. M = Added(N, p, name) /\ a = Append(p, name)
  BY DEF MakesNode, Get, Alive
<1>1. PICK r : r = Node(N[p].fs, Inode(N[p].fs, Append(N[p].inode.path, name)))
  OBVIOUS
<1>2. N[p] \in NodeRecords /\ p \in Seq(Names) /\ DOMAIN N \subseteq NodePaths
  BY PathTypes DEF Tree, Shape
<1>3. Append(N[p].inode.path, name) \in Seq(Names) /\ N[p].fs \in FileSystems
  BY <1>2, RecordIs, AppendIs
<1>4. <<>> \in Seq(Names)
  OBVIOUS
<1>5. /\ r \in NodeRecords /\ r.child = <<>> /\ r.ref_count = 1 /\ r.mount_fs = NoFs
      /\ r.fs = N[p].fs /\ r.inode = Inode(N[p].fs, Append(N[p].inode.path, name))
  BY <1>1, <1>3, <1>4 DEF Node, NodeRecords, Inode, Inodes
<1>6. a \in NodePaths /\ a \notin DOMAIN N
  BY NameiPlace DEF MakesNode
<1>7. IsAdded(M, N, p, name, a, r)
  BY <1>0, <1>1, <1>5, <1>6 DEF Added, IsAdded
<1>8. /\ Tree(M)
      /\ \A q \in DOMAIN N :
             /\ M[q].fs = N[q].fs /\ M[q].inode = N[q].inode
             /\ M[q].mount_fs = N[q].mount_fs /\ M[q].ref_count = N[q].ref_count
  BY <1>7, AddedTree
<1>9. DOMAIN M = DOMAIN N \cup {a} /\ M[a] = r
  BY <1>7 DEF IsAdded
<1>10. Refs(M) = More(Refs(N), a)
  <2>1. \A q \in NodePaths : Refs(M)[q] = IF q = a THEN Refs(N)[q] + 1 ELSE Refs(N)[q]
    <3> SUFFICES ASSUME NEW q \in NodePaths
                 PROVE  Refs(M)[q] = IF q = a THEN Refs(N)[q] + 1 ELSE Refs(N)[q]
      OBVIOUS
    <3>1. CASE q = a
      <4>1. Refs(M)[q] = 1 /\ Refs(N)[q] = 0
        BY <1>5, <1>6, <1>9, <3>1 DEF Refs
      <4> QED BY <3>1, <4>1
    <3>2. CASE q \in DOMAIN N
      BY <1>6, <1>8, <1>9, <3>2 DEF Refs
    <3>3. CASE q \notin DOMAIN N /\ q # a
      BY <1>9, <3>3 DEF Refs
    <3> QED BY <3>1, <3>2, <3>3
  <2> QED BY <2>1 DEF Refs, More
<1> QED BY <1>5, <1>6, <1>8, <1>9, <1>10 DEF NewNode
-----------------------------------------------------------------------------
(* Filesystems.                                                            *)

LEMMA FsTypes ==
    /\ RootFs \in FileSystems /\ DevFs \subseteq FileSystems
    /\ NoFs \notin FileSystems /\ RootFs \notin DevFs
    /\ \A f \in FileSystems : f # RootFs => f \in DevFs
<1> QED BY VfsAssumption DEF FileSystems

LEMMA FsWithin ==
    ASSUME NEW N, NEW M, NEW m, NEW d, Within(M, N), FsOk(N, m, d)
    PROVE  FsOk(M, m, d)
<1>1. Placed(M)
  BY DEF FsOk, Placed, Within
<1>2. \A p \in DOMAIN M, f \in DevFs : Home(M, p, f) => Home(N, p, f)
  BY DEF Within, Home
<1>3. Homes(M)
  BY <1>2 DEF FsOk, Homes, Within
<1>4. InUse(M, m, d)
  BY DEF FsOk, InUse, Within
<1> QED BY <1>1, <1>3, <1>4 DEF FsOk

\* A new node belongs to the filesystem of its parent.
LEMMA FsNew ==
    ASSUME NEW N, Tree(N), NEW m, NEW d, FsOk(N, m, d), NEW p \in DOMAIN N, NEW name \in Names,
           NEW M, NEW a, MakesNode(M, N, p, name, a)
    PROVE  FsOk(M, m, d)
<1>1. a = Append(p, name) /\ Namei(N, p, name)
  BY DEF MakesNode
<1>2. Placed(N) /\ Homes(N) /\ InUse(N, m, d)
  BY DEF FsOk
<1>3. /\ DOMAIN M = DOMAIN N \cup {a} /\ a \in NodePaths
      /\ M[a].fs = N[p].fs /\ M[a].mount_fs = NoFs
      /\ M[a].inode = Inode(N[p].fs, Append(N[p].inode.path, name))
      /\ \A q \in DOMAIN N : /\ M[q].fs = N[q].fs /\ M[q].inode = N[q].inode
                             /\ M[q].mount_fs = N[q].mount_fs
  <2>1. NewNode(M, N, p, name, a)
    BY <1>2, GetNew
  <2> QED BY <2>1 DEF NewNode
<1>4. N[p] \in NodeRecords /\ p \in Seq(Names)
  BY PathTypes DEF Tree, Shape
<1>5. N[p].fs \in FileSystems /\ N[p].inode.path \in Seq(Names)
  BY <1>4, RecordIs
<1>6. /\ N[p].fs = RootFs => /\ Append(N[p].inode.path, name) = a
                             /\ a \in RootFiles \cup RootDirs
      /\ N[p].fs # RootFs => N[p].inode.path = Root
  BY <1>1, <1>2, NameiPlace
<1>7. M[a].inode.fs = N[p].fs /\ M[a].inode.path = Append(N[p].inode.path, name)
  BY <1>3 DEF Inode
<1>8. M[a].inode.path # Root
  BY <1>5, <1>7, AppendIs
<1>9. a # Root /\ Front(a) = p
  BY <1>1, <1>4, PathParts
<1>10. Placed(M)
  <2> SUFFICES ASSUME NEW q \in DOMAIN M
               PROVE  /\ M[q].inode.fs = RootFs => M[q].inode.path = q /\ M[q].fs = RootFs
                                                    /\ q \in RootFiles \cup RootDirs
                      /\ M[q].inode.fs # RootFs /\ M[q].inode.path = Root => q \in RootDirs
                      /\ M[q].inode.fs = RootFs => M[q].mount_fs \in {NoFs, RootFs}
                      /\ M[q].mount_fs # NoFs => M[q].inode.path = Root /\ (q # Root => M[q].fs # RootFs)
    BY DEF Placed
  <2>1. CASE q = a
    BY <1>3, <1>6, <1>7, <1>8, <2>1
  <2>2. CASE q \in DOMAIN N
    BY <1>2, <1>3, <2>2 DEF Placed
  <2> QED BY <1>3, <2>1, <2>2
<1>11. ASSUME NEW f \in DevFs PROVE ~Home(M, a, f)
  BY <1>3, <1>8, FsTypes DEF Home
<1>12. ASSUME NEW f \in DevFs, NEW q \in DOMAIN N PROVE Home(M, q, f) <=> Home(N, q, f)
  BY <1>3 DEF Home
<1>13. ASSUME NEW f \in DevFs, NEW q \in DOMAIN M, NEW x \in DOMAIN M,
              Home(M, q, f), M[x].fs = f, M[x].inode.path # Root
       PROVE  x # Root /\ Front(x) = q
  <2>1. q \in DOMAIN N /\ Home(N, q, f)
    BY <1>3, <1>11, <1>12, <1>13
  <2>2. CASE x = a
    <3>1. N[p].fs = f /\ f # RootFs
      BY <1>3, <1>13, <2>2, FsTypes
    <3>2. Home(N, p, f)
      BY <1>6, <3>1 DEF Home
    <3>3. q = p
      BY <1>2, <2>1, <3>2 DEF Homes
    <3> QED BY <1>9, <2>2, <3>3
  <2>3. CASE x \in DOMAIN N
    BY <1>2, <1>3, <1>13, <2>1, <2>3 DEF Homes
  <2> QED BY <1>3, <2>2, <2>3
<1>14. ASSUME NEW f \in DevFs, NEW q \in DOMAIN M, NEW x \in DOMAIN M,
              Home(M, q, f), Home(M, x, f)
       PROVE  q = x
  <2>1. q \in DOMAIN N /\ Home(N, q, f) /\ x \in DOMAIN N /\ Home(N, x, f)
    BY <1>3, <1>11, <1>12, <1>14
  <2> QED BY <1>2, <2>1 DEF Homes
<1>15. Homes(M)
  BY <1>13, <1>14 DEF Homes
<1>16. InUse(M, m, d)
  BY <1>2, <1>3, FsTypes DEF InUse
<1> QED BY <1>10, <1>15, <1>16 DEF FsOk
-----------------------------------------------------------------------------
(* Who holds nodes.                                                        *)

LEMMA HoldersAt ==
    ASSUME NEW N, NEW F \in Counts, NEW r, NEW p \in NodePaths
    PROVE  Holders(N, F, r)[p] =
               IF r THEN 0 ELSE F[p] + IF p \in DOMAIN N /\ N[p].mount_fs # NoFs THEN 1 ELSE 0
<1> QED BY DEF Holders

LEMMA HoldersCounts ==
    ASSUME NEW N, NEW F \in Counts, NEW r
    PROVE  Holders(N, F, r) \in Counts
<1> QED BY DEF Holders, Counts

LEMMA HoldersWithin ==
    ASSUME NEW N, NEW M, NEW F \in Counts, NEW r \in BOOLEAN, Within(M, N)
    PROVE  AtMost(Holders(M, F, r), Holders(N, F, r))
<1> SUFFICES ASSUME NEW p \in NodePaths PROVE Holders(M, F, r)[p] =< Holders(N, F, r)[p]
  BY DEF AtMost
<1>1. F[p] \in Nat
  BY DEF Counts
<1>2. CASE r
  BY <1>2 DEF Holders
<1>3. CASE ~r
  <2>1. Holders(M, F, r)[p] = F[p] + IF p \in DOMAIN M /\ M[p].mount_fs # NoFs THEN 1 ELSE 0
    BY <1>3, HoldersAt
  <2>2. Holders(N, F, r)[p] = F[p] + IF p \in DOMAIN N /\ N[p].mount_fs # NoFs THEN 1 ELSE 0
    BY <1>3, HoldersAt
  <2>3. p \in DOMAIN M /\ M[p].mount_fs # NoFs => p \in DOMAIN N /\ N[p].mount_fs # NoFs
    BY DEF Within
  <2> QED BY <1>1, <2>1, <2>2, <2>3
<1> QED BY <1>2, <1>3

LEMMA HoldersSame ==
    ASSUME NEW N, NEW M, NEW F, NEW r, SameNodes(M, N)
    PROVE  Holders(M, F, r) = Holders(N, F, r)
<1> QED BY DEF Holders, SameNodes, Within

LEMMA MoreCounts ==
    ASSUME NEW g \in Counts, NEW p \in NodePaths
    PROVE  /\ More(g, p) \in Counts /\ AtMost(g, More(g, p))
           /\ \A q \in NodePaths : More(g, p)[q] = IF q = p THEN g[q] + 1 ELSE g[q]
<1> QED BY DEF More, Counts, AtMost

LEMMA MoreMore ==
    ASSUME NEW g \in Counts, NEW p \in NodePaths, NEW q \in NodePaths
    PROVE  More(More(g, p), q) = More(More(g, q), p)
<1> QED BY DEF More, Counts

LEMMA MoreAtMost ==
    ASSUME NEW g \in Counts, NEW h \in Counts, NEW p \in NodePaths, AtMost(h, g)
    PROVE  AtMost(More(h, p), More(g, p))
<1> QED BY DEF More, Counts, AtMost

\* A put of a reference that is held.
LEMMA PutCovers ==
    ASSUME NEW N, Tree(N), NEW p \in DOMAIN N, NEW h \in Counts, NEW k \in Counts,
           Covers(Refs(N), More(h, p)), AtMost(k, h)
    PROVE  Covers(Refs(Put(N, p)), k)
<1>1. Refs(N) \in Counts /\ p \in NodePaths
  BY RefsCounts DEF Tree, Shape
<1>2. Less(Refs(N), p) \in Counts /\ Covers(Less(Refs(N), p), h)
  BY <1>1, CoversLess
<1>3. Refs(Put(N, p)) = Less(Refs(N), p)
  BY PutIs
<1> QED BY <1>2, <1>3, CoversAtMost

\* Nodes that are held exist.
LEMMA HeldExists ==
    ASSUME NEW N, Tree(N), NEW h \in Counts, Covers(Refs(N), h), NEW p \in NodePaths, h[p] # 0
    PROVE  p \in DOMAIN N
<1>1. Refs(N) \in Counts
  BY RefsCounts DEF Tree
<1>2. PICK q \in NodePaths : IsPrefix(p, q) /\ Refs(N)[q] # 0
  BY <1>1, CoveredIsCounted
<1>3. q \in DOMAIN N
  BY <1>2 DEF Refs
<1> QED BY <1>2, <1>3, PathTypes DEF Tree, Closed
-----------------------------------------------------------------------------
(* The ends and the beginnings of calls.                                   *)

\* A put of a node when nothing is held.
LEMMA PutNothing ==
    ASSUME NEW N, Tree(N), NEW p \in DOMAIN N, NEW h, Covers(Refs(N), h),
           NEW k \in Counts, \A q \in NodePaths : k[q] = 0
    PROVE  Covers(Refs(Put(N, p)), k)
<1>1. Refs(N) \in Counts /\ p \in NodePaths
  BY RefsCounts DEF Tree, Shape
<1>2. Tree(Put(N, p)) /\ Refs(Put(N, p)) = Less(Refs(N), p)
  BY PutIs
<1>3. Refs(Put(N, p)) \in Counts
  BY <1>2, RefsCounts DEF Tree
<1>4. AtMost(Less(Refs(N), p), Refs(N))
  BY <1>1 DEF AtMost, Less, Counts
<1>5. IsFiniteSet(Tokens(Refs(N)))
  BY DEF Covers
<1>6. IsFiniteSet(Tokens(Refs(Put(N, p))))
  BY <1>1, <1>2, <1>3, <1>4, <1>5, WeightAtMost
<1> QED BY <1>3, <1>6, CoversNothing

\* all of the state of a call that has ended but its counters
Ended ==
    /\ Data' /\ Return
    /\ Tree(nodes') /\ FsOk(nodes', mounted', freed')

\* A call that has returned holds nothing itself.
LEMMA ReturnInv ==
    ASSUME Ended, ~lost' => Covers(Refs(nodes'), Holders(nodes', files', refused'))
    PROVE  IInv'
<1>1. op' = "idle" /\ path' = Root /\ rest' = <<>> /\ cur' = Root
  BY DEF Ended, Return
<1>2. Call'
  BY <1>1, PathTypes DEF Call
<1>3. CallFs' /\ ~Holding'
  BY <1>1 DEF CallFs, Holding, Lookups
<1>4. Counted'
  BY <1>3 DEF Counted
<1> QED BY <1>2, <1>3, <1>4 DEF IInv, Ended

\* what __vfs_find needs: tree N is in order, and counts what is held
Sound(N) ==
    /\ Tree(N) /\ FsOk(N, mounted, freed)
    /\ ~lost' => Covers(Refs(N), Holders(N, files, refused))

LEMMA FindInv ==
    ASSUME NEW N, Sound(N), Data, state' = state, lost' \in BOOLEAN,
           NEW o \in Lookups, NEW p \in Seq(Names), NEW f,
           o = "mount" => f \in DevFs \ (mounted \cup freed),
           Find(N, o, p, f)
    PROVE  IInv'
<1>1. /\ files' = files /\ mounted' = mounted /\ freed' = freed /\ refused' = refused
      /\ Data'
  BY DEF state, Data
<1>2. CASE Alive(N, Root)
  <2>1. /\ nodes' = Referenced(N, Root)
        /\ op' = o /\ path' = p /\ rest' = p /\ cur' = Root /\ fs' = f
    BY <1>2 DEF Find
  <2>2. Tree(N) /\ Root \in DOMAIN N
    BY <1>2 DEF Sound, Alive
  <2>3. Tree(nodes') /\ SameNodes(nodes', N) /\ Refs(nodes') = More(Refs(N), Root)
    BY <2>1, <2>2, ReferencedIs
  <2>4. FsOk(nodes', mounted', freed')
    BY <1>1, <2>3, FsWithin DEF Sound, SameNodes
  <2>5. Call'
    BY <2>1, PathTypes DEF Call
  <2>6. CallFs'
    BY <1>1, <2>1 DEF CallFs, Lookups
  <2>7. ASSUME ~lost' PROVE Covers(Refs(nodes'), More(Holders(nodes', files', refused'), cur'))
    <3>1. Holders(nodes', files', refused') = Holders(N, files, refused)
      BY <1>1, <2>3, HoldersSame
    <3>2. Refs(N) \in Counts /\ Holders(N, files, refused) \in Counts /\ Root \in NodePaths
      BY <2>2, RefsCounts, HoldersCounts, PathTypes DEF Tree, Data, Counts
    <3>3. Covers(Refs(N), Holders(N, files, refused))
      BY <2>7 DEF Sound
    <3>4. Covers(More(Refs(N), Root), More(Holders(N, files, refused), Root))
      BY <3>2, <3>3, CoversMore
    <3> QED BY <2>1, <2>3, <3>1, <3>4
  <2>8. Holding'
    BY <2>1 DEF Holding
  <2>9. Counted'
    BY <2>7, <2>8 DEF Counted
  <2> QED BY <1>1, <2>3, <2>4, <2>5, <2>6, <2>9 DEF IInv
<1>3. CASE ~Alive(N, Root)
  <2>1. nodes' = N /\ Return
    BY <1>3 DEF Find
  <2>2. Ended
    BY <1>1, <2>1 DEF Ended, Sound
  <2>3. ~lost' => Covers(Refs(nodes'), Holders(nodes', files', refused'))
    BY <1>1, <2>1 DEF Sound
  <2> QED BY <2>2, <2>3, ReturnInv
<1> QED BY <1>2, <1>3
-----------------------------------------------------------------------------
(* What a call may rely on.                                                *)

\* The references that nodes hold between calls.
Held == Holders(nodes, files, refused)

\* Between calls.
LEMMA IdleFacts ==
    ASSUME IInv
    PROVE  /\ files \in Counts /\ Held \in Counts /\ Refs(nodes) \in Counts
           /\ Data /\ Tree(nodes) /\ FsOk(nodes, mounted, freed)
           /\ ~lost /\ op = "idle" => Covers(Refs(nodes), Held)
<1>1. files \in Counts /\ Data /\ Tree(nodes) /\ FsOk(nodes, mounted, freed)
  BY DEF IInv, Data, Counts
<1>2. Held \in Counts /\ Refs(nodes) \in Counts
  BY <1>1, HoldersCounts, RefsCounts DEF Tree, Held
<1>3. ~lost /\ op = "idle" => Covers(Refs(nodes), Held)
  BY DEF IInv, Counted, Holding, Lookups, Held
<1> QED BY <1>1, <1>2, <1>3

\* A lookup holds the node it has reached, so the node exists.
LEMMA LookupFacts ==
    ASSUME IInv, op \in Lookups, ~lost
    PROVE  /\ Covers(Refs(nodes), More(Held, cur))
           /\ cur \in DOMAIN nodes /\ cur \in NodePaths
<1>1. Held \in Counts /\ Tree(nodes) /\ cur \in NodePaths
  BY IdleFacts DEF IInv, Call
<1>2. Covers(Refs(nodes), More(Held, cur))
  BY DEF IInv, Counted, Holding, Held
<1>3. More(Held, cur) \in Counts /\ More(Held, cur)[cur] = Held[cur] + 1 /\ Held[cur] \in Nat
  BY <1>1, MoreCounts DEF Counts
<1>4. More(Held, cur)[cur] # 0
  BY <1>3
<1> QED BY <1>1, <1>2, <1>3, <1>4, HeldExists
-----------------------------------------------------------------------------
(* The steps.                                                              *)

LEMMA BeginInv ==
    ASSUME IInv, Ready, NEW o \in Lookups, NEW p \in Paths \cup Targets, NEW f,
           o = "mount" => f \in DevFs \ (mounted \cup freed),
           Find(nodes, o, p, f), UNCHANGED <<state, lost>>
    PROVE  IInv'
<1>1. ~lost /\ op = "idle"
  BY DEF Ready
<1>2. Sound(nodes) /\ Data
  BY <1>1, IdleFacts DEF Sound, Held
<1>3. lost' \in BOOLEAN
  BY <1>2 DEF Data
<1>4. p \in Seq(Names)
  BY VfsAssumption DEF Names
<1> QED BY <1>2, <1>3, <1>4, FindInv

\* A call that puts the node it has reached and returns.
LEMMA PutReturnInv ==
    ASSUME IInv, op \in Lookups, ~lost, UNCHANGED state, Return,
           nodes' = Put(nodes, cur), lost' = PutLoses(nodes, cur)
    PROVE  IInv'
<1>1. /\ files' = files /\ mounted' = mounted /\ freed' = freed /\ refused' = refused
  BY DEF state
<1>2. /\ files \in Counts /\ Held \in Counts /\ Tree(nodes)
      /\ Data /\ FsOk(nodes, mounted, freed) /\ refused \in BOOLEAN
  BY IdleFacts DEF Data
<1>3. cur \in DOMAIN nodes /\ Covers(Refs(nodes), More(Held, cur))
  BY LookupFacts
<1>4. Tree(nodes') /\ Within(nodes', nodes)
  BY <1>2, <1>3, PutIs
<1>5. Ended
  BY <1>1, <1>2, <1>4, FsWithin DEF Ended, Data, PutLoses
<1>6. Holders(nodes', files, refused) \in Counts /\ AtMost(Holders(nodes', files, refused), Held)
  BY <1>2, <1>4, HoldersCounts, HoldersWithin DEF Held
<1>7. Covers(Refs(nodes'), Holders(nodes', files', refused'))
  BY <1>1, <1>2, <1>3, <1>6, PutCovers
<1> QED BY <1>5, <1>7, ReturnInv

\* The lookup goes on with node a of tree M, where it has another reference.
LEMMA StepDown ==
    ASSUME IInv, op \in Lookups, ~lost, rest # <<>>, UNCHANGED <<state, op, path, fs>>,
           NEW M, Tree(M), FsOk(M, mounted, freed), cur \in DOMAIN M, NEW a \in NodePaths,
           Refs(M) = More(Refs(nodes), a), Holders(M, files, refused) = Held,
           nodes' = Put(M, cur), lost' = PutLoses(M, cur), cur' = a, rest' = Tail(rest)
    PROVE  IInv'
<1>1. /\ files' = files /\ mounted' = mounted /\ freed' = freed /\ refused' = refused
      /\ op' = op /\ path' = path /\ fs' = fs
  BY DEF state
<1>2. /\ files \in Counts /\ Held \in Counts /\ Refs(nodes) \in Counts /\ Data /\ refused \in BOOLEAN
  BY IdleFacts DEF Data
<1>3. Covers(Refs(nodes), More(Held, cur)) /\ cur \in NodePaths
  BY LookupFacts
<1>4. Tree(nodes') /\ Within(nodes', M)
  BY PutIs
<1>5. FsOk(nodes', mounted', freed')
  BY <1>1, <1>4, FsWithin
<1>6. Data'
  BY <1>1, <1>2 DEF Data, PutLoses
<1>7. Call' /\ CallFs'
  <2>1. rest \in Seq(Names) /\ path \in Seq(Names)
    BY DEF IInv, Call
  <2>2. Tail(rest) \in Seq(Names)
    BY <2>1
  <2> QED BY <1>1, <2>1, <2>2 DEF IInv, Call, CallFs, Lookups
<1>8. Covers(Refs(nodes'), More(Holders(nodes', files', refused'), cur'))
  <2>1. PICK H : H = Holders(nodes', files, refused)
    OBVIOUS
  <2>2. H \in Counts /\ AtMost(H, Held)
    BY <1>2, <1>4, <2>1, HoldersCounts, HoldersWithin
  <2>3. /\ More(Held, cur) \in Counts /\ More(Held, a) \in Counts /\ More(H, a) \in Counts
        /\ AtMost(More(H, a), More(Held, a))
    BY <1>2, <1>3, <2>2, MoreCounts, MoreAtMost
  <2>4. Covers(Refs(M), More(More(Held, cur), a))
    BY <1>2, <1>3, <2>3, CoversMore
  <2>5. Covers(Refs(M), More(More(Held, a), cur))
    BY <1>2, <1>3, <2>4, MoreMore
  <2>6. Covers(Refs(Put(M, cur)), More(H, a))
    BY <2>3, <2>5, PutCovers
  <2> QED BY <1>1, <2>1, <2>6
<1>9. Counted'
  BY <1>1, <1>8 DEF Counted, Holding
<1> QED BY <1>4, <1>5, <1>6, <1>7, <1>9 DEF IInv

LEMMA PutNodeIs ==
    ASSUME NEW N, NEW p \in DOMAIN N, PutNode(N, p)
    PROVE  nodes' = Put(N, p) /\ lost' = PutLoses(N, p)
<1>1. nodes' = Put(N, p)
  BY DEF PutNode, Alive
<1>2. lost' = PutLoses(N, p)
  BY DEF PutNode, Alive, PutLoses
<1> QED BY <1>1, <1>2

LEMMA WalkDownInv ==
    ASSUME IInv, WalkDown
    PROVE  IInv'
<1>1. PICK name : name = Head(rest)
  OBVIOUS
<1>2. PICK M : M = Get(nodes, cur, name)
  OBVIOUS
<1>3. PICK a : a = Append(cur, name)
  OBVIOUS
<1>4. /\ op # "idle" /\ rest # <<>> /\ ~lost /\ UNCHANGED state
      /\ PutNode(M, cur)
      /\ \/ Alive(M, a) /\ cur' = a /\ rest' = Tail(rest) /\ UNCHANGED <<op, path, fs>>
         \/ ~Alive(M, a) /\ Return
  BY <1>1, <1>2, <1>3 DEF WalkDown
<1>5. op \in Lookups /\ rest \in Seq(Names)
  BY <1>4 DEF IInv, Call
<1>6. name \in Names
  BY <1>1, <1>4, <1>5
<1>7. /\ files \in Counts /\ Tree(nodes) /\ FsOk(nodes, mounted, freed) /\ Placed(nodes)
      /\ cur \in DOMAIN nodes /\ DOMAIN nodes \subseteq NodePaths
  BY <1>4, <1>5, IdleFacts, LookupFacts DEF FsOk, Tree, Shape
<1>8. CASE a \in DOMAIN nodes
  <2>1. Tree(M) /\ SameNodes(M, nodes) /\ Refs(M) = More(Refs(nodes), a)
    BY <1>2, <1>3, <1>6, <1>7, <1>8, GetExisting
  <2>2. DOMAIN M = DOMAIN nodes /\ Within(M, nodes)
    BY <2>1 DEF SameNodes
  <2>3. FsOk(M, mounted, freed) /\ Holders(M, files, refused) = Held
    BY <1>7, <2>1, <2>2, FsWithin, HoldersSame DEF Held
  <2>4. nodes' = Put(M, cur) /\ lost' = PutLoses(M, cur)
    BY <1>4, <1>7, <2>2, PutNodeIs
  <2>5. cur' = a /\ rest' = Tail(rest) /\ UNCHANGED <<op, path, fs>>
    BY <1>4, <1>8, <2>2 DEF Alive
  <2> QED BY <1>4, <1>5, <1>7, <1>8, <2>1, <2>2, <2>3, <2>4, <2>5, StepDown
<1>9. CASE a \notin DOMAIN nodes /\ Namei(nodes, cur, name)
  <2>1. MakesNode(M, nodes, cur, name, a)
    BY <1>2, <1>3, <1>9 DEF MakesNode
  <2>2. Tree(M) /\ Refs(M) = More(Refs(nodes), a) /\ NewNode(M, nodes, cur, name, a)
    BY <1>6, <1>7, <2>1, GetNew
  <2>3. FsOk(M, mounted, freed)
    BY <1>6, <1>7, <2>1, FsNew
  <2>4. /\ DOMAIN M = DOMAIN nodes \cup {a} /\ a \in NodePaths /\ M[a].mount_fs = NoFs
        /\ \A q \in DOMAIN nodes : M[q].mount_fs = nodes[q].mount_fs
    BY <2>2 DEF NewNode
  <2>5. Holders(M, files, refused) = Held
    BY <1>9, <2>4 DEF Held, Holders
  <2>6. nodes' = Put(M, cur) /\ lost' = PutLoses(M, cur) /\ cur \in DOMAIN M
    BY <1>4, <1>7, <2>4, PutNodeIs
  <2>7. cur' = a /\ rest' = Tail(rest) /\ UNCHANGED <<op, path, fs>>
    BY <1>4, <2>4 DEF Alive
  <2> QED BY <1>4, <1>5, <1>7, <2>2, <2>3, <2>4, <2>5, <2>6, <2>7, StepDown
<1>10. CASE a \notin DOMAIN nodes /\ ~Namei(nodes, cur, name)
  <2>1. M = nodes
    BY <1>2, <1>3, <1>10, GetNothing DEF Alive
  <2>2. nodes' = Put(nodes, cur) /\ lost' = PutLoses(nodes, cur) /\ Return
    BY <1>4, <1>7, <1>10, <2>1, PutNodeIs DEF Alive
  <2> QED BY <1>4, <1>5, <2>2, PutReturnInv
<1> QED BY <1>8, <1>9, <1>10

LEMMA WalkUpInv ==
    ASSUME IInv, WalkUp
    PROVE  IInv'
<1>1. /\ rest # <<>> /\ ~lost /\ rest' = Tail(rest)
      /\ cur' = (IF cur = Root THEN Root ELSE Front(cur))
      /\ UNCHANGED <<nodes, files, mounted, freed, refused, lost, op, path, fs>>
  BY DEF WalkUp, state
<1>2. op \in Lookups /\ rest \in Seq(Names) /\ cur \in NodePaths
  BY <1>1 DEF IInv, Call
<1>3. Held \in Counts /\ Refs(nodes) \in Counts /\ Covers(Refs(nodes), More(Held, cur))
  BY <1>1, <1>2, IdleFacts, LookupFacts
<1>4. cur' \in NodePaths /\ IsPrefix(cur', cur)
  BY <1>1, <1>2, FrontPath, PathTypes, PrefixSelf
<1>5. Covers(Refs(nodes), More(Held, cur'))
  BY <1>2, <1>3, <1>4, CoversUp
<1>6. Tail(rest) \in Seq(Names)
  BY <1>1, <1>2
<1>7. Call' /\ CallFs' /\ Data'
  BY <1>1, <1>2, <1>4, <1>6 DEF IInv, Call, CallFs, Data, Lookups
<1>8. Counted'
  BY <1>1, <1>2, <1>5 DEF Counted, Holding, Held
<1> QED BY <1>1, <1>7, <1>8 DEF IInv

\* A call that returns and keeps its reference.
LEMMA KeepsInv ==
    ASSUME IInv, op \in Lookups, ~lost, Return, UNCHANGED <<nodes, state, lost>>
    PROVE  IInv'
<1>1. UNCHANGED <<nodes, files, mounted, freed, refused, lost>>
  BY DEF state
<1>2. Held \in Counts /\ Refs(nodes) \in Counts /\ Data /\ Tree(nodes) /\ FsOk(nodes, mounted, freed)
  BY IdleFacts
<1>3. Covers(Refs(nodes), More(Held, cur)) /\ cur \in NodePaths
  BY LookupFacts
<1>4. More(Held, cur) \in Counts /\ AtMost(Held, More(Held, cur))
  BY <1>2, <1>3, MoreCounts
<1>5. Covers(Refs(nodes), Held)
  BY <1>2, <1>3, <1>4, CoversAtMost
<1>6. Ended
  BY <1>1, <1>2 DEF Ended, Data
<1> QED BY <1>1, <1>5, <1>6, ReturnInv DEF Held

LEMMA OpenedInv ==
    ASSUME IInv, Opened
    PROVE  IInv'
<1>1. /\ op \in Lookups /\ ~lost /\ Return
      /\ files' = [files EXCEPT ![cur] = @ + 1]
      /\ UNCHANGED <<nodes, mounted, freed, refused, lost>>
  BY DEF Opened, Found, Lookups
<1>2. /\ Held \in Counts /\ Refs(nodes) \in Counts /\ files \in Counts
      /\ Data /\ Tree(nodes) /\ FsOk(nodes, mounted, freed) /\ refused \in BOOLEAN
  BY IdleFacts DEF Data
<1>3. Covers(Refs(nodes), More(Held, cur)) /\ cur \in NodePaths
  BY <1>1, LookupFacts
<1>4. files' = More(files, cur) /\ files' \in Counts
  BY <1>1, <1>2, <1>3, MoreCounts DEF More
<1>5. Holders(nodes, files', refused) \in Counts /\ More(Held, cur) \in Counts
  BY <1>2, <1>3, <1>4, HoldersCounts, MoreCounts
<1>6. AtMost(Holders(nodes, files', refused), More(Held, cur))
  <2> SUFFICES ASSUME NEW q \in NodePaths
               PROVE  Holders(nodes, files', refused)[q] =< More(Held, cur)[q]
    BY DEF AtMost
  <2>1. More(Held, cur)[q] = (IF q = cur THEN Held[q] + 1 ELSE Held[q]) /\ Held[q] \in Nat
    BY <1>2, <1>3, MoreCounts DEF Counts
  <2>2. files'[q] = (IF q = cur THEN files[q] + 1 ELSE files[q]) /\ files[q] \in Nat
    BY <1>2, <1>3, <1>4, MoreCounts DEF Counts
  <2>3. CASE refused
    BY <2>1, <2>3 DEF Holders
  <2>4. CASE ~refused
    <3>1. PICK n \in Nat : n = IF q \in DOMAIN nodes /\ nodes[q].mount_fs # NoFs THEN 1 ELSE 0
      OBVIOUS
    <3>2. Holders(nodes, files', refused)[q] = files'[q] + n /\ Held[q] = files[q] + n
      BY <2>4, <3>1 DEF Holders, Held
    <3> QED BY <2>1, <2>2, <3>2
  <2> QED BY <1>2, <2>3, <2>4
<1>7. Covers(Refs(nodes), Holders(nodes, files', refused))
  BY <1>2, <1>3, <1>5, <1>6, CoversAtMost
<1>8. Data'
  BY <1>1, <1>2, <1>4 DEF Data, Counts
<1>9. Ended
  BY <1>1, <1>2, <1>8 DEF Ended
<1> QED BY <1>1, <1>7, <1>9, ReturnInv

LEMMA OpenFailsInv ==
    ASSUME IInv, OpenFails
    PROVE  IInv'
<1>1. op \in Lookups /\ ~lost /\ Return /\ UNCHANGED state /\ PutNode(nodes, cur)
  BY DEF OpenFails, Found, Lookups
<1>2. cur \in DOMAIN nodes
  BY <1>1, LookupFacts
<1>3. nodes' = Put(nodes, cur) /\ lost' = PutLoses(nodes, cur)
  BY <1>1, <1>2, PutNodeIs
<1> QED BY <1>1, <1>3, PutReturnInv

LEMMA CloseInv ==
    ASSUME IInv, NEW p \in NodePaths, NEW exits, Close(p, exits)
    PROVE  IInv'
<1>1. /\ ~lost /\ ~Dangling /\ op = "idle" /\ files[p] > 0 /\ PutNode(nodes, p)
      /\ UNCHANGED <<mounted, freed, op, path, rest, cur, fs>>
  BY DEF Close, Ready
<1>2. \/ refused' = TRUE /\ files' = files
      \/ refused' = refused /\ files' = [files EXCEPT ![p] = @ - 1]
  BY DEF Close
<1>3. /\ Held \in Counts /\ Refs(nodes) \in Counts /\ files \in Counts
      /\ Data /\ Tree(nodes) /\ FsOk(nodes, mounted, freed) /\ refused \in BOOLEAN
      /\ Covers(Refs(nodes), Held)
  BY <1>1, IdleFacts DEF Data
<1>4. p \in DOMAIN nodes
  BY <1>1 DEF Dangling, Alive
<1>5. nodes' = Put(nodes, p) /\ lost' = PutLoses(nodes, p)
  BY <1>1, <1>4, PutNodeIs
<1>6. Tree(nodes') /\ Within(nodes', nodes) /\ FsOk(nodes', mounted', freed')
  BY <1>1, <1>3, <1>4, <1>5, PutIs, FsWithin
<1>7. files[p] \in Nat /\ files[p] - 1 \in Nat
  BY <1>1, <1>3 DEF Counts
<1>8. files' \in Counts /\ refused' \in BOOLEAN
  BY <1>2, <1>3, <1>7 DEF Counts
<1>9. Data'
  BY <1>1, <1>3, <1>5, <1>8 DEF Data, PutLoses, Counts
<1>10. Call' /\ CallFs' /\ ~Holding'
  BY <1>1 DEF IInv, Call, CallFs, Holding, Lookups
<1>11. Holders(nodes', files', refused') \in Counts
  BY <1>8, HoldersCounts
<1>12. Covers(Refs(nodes'), Holders(nodes', files', refused'))
  <2>1. CASE refused'
    <3>1. \A q \in NodePaths : Holders(nodes', files', refused')[q] = 0
      BY <2>1 DEF Holders
    <3> QED BY <1>3, <1>4, <1>5, <1>11, <3>1, PutNothing
  <2>2. CASE ~refused'
    <3>1. ~refused /\ files' = [files EXCEPT ![p] = @ - 1]
      BY <1>2, <2>2
    <3>2. PICK H : H = Holders(nodes, files', refused')
      OBVIOUS
    <3>3. H \in Counts /\ AtMost(Holders(nodes', files', refused'), H)
      BY <1>6, <1>8, <3>2, HoldersCounts, HoldersWithin
    <3>4. ASSUME NEW q \in NodePaths PROVE Held[q] = IF q = p THEN H[q] + 1 ELSE H[q]
      <4>1. PICK n \in Nat : n = IF q \in DOMAIN nodes /\ nodes[q].mount_fs # NoFs THEN 1 ELSE 0
        OBVIOUS
      <4>2. H[q] = files'[q] + n /\ Held[q] = files[q] + n
        BY <2>2, <3>1, <3>2, <4>1 DEF Holders, Held
      <4>3. files[q] \in Nat /\ files'[q] = IF q = p THEN files[q] - 1 ELSE files[q]
        BY <1>3, <3>1 DEF Counts
      <4> QED BY <4>2, <4>3
    <3>5. Held = More(H, p)
      BY <1>3, <3>3, <3>4 DEF More, Counts
    <3> QED BY <1>3, <1>4, <1>5, <1>11, <3>3, <3>5, PutCovers
  <2> QED BY <1>8, <2>1, <2>2
<1>13. Counted'
  BY <1>10, <1>12 DEF Counted
<1> QED BY <1>6, <1>9, <1>10, <1>13 DEF IInv

LEMMA FsFoundInv ==
    ASSUME IInv, FsFound
    PROVE  IInv'
<1>1. /\ op \in Lookups /\ ~lost /\ UNCHANGED state /\ lost' = PutLoses(nodes, cur)
      /\ \/ Find(Put(nodes, cur), "umount", path, NoFs)
         \/ nodes' = Put(nodes, cur) /\ Return
  BY DEF FsFound, Found, Lookups
<1>2. CASE nodes' = Put(nodes, cur) /\ Return
  BY <1>1, <1>2, PutReturnInv
<1>3. CASE Find(Put(nodes, cur), "umount", path, NoFs)
  <2>1. /\ files \in Counts /\ Held \in Counts /\ Tree(nodes)
        /\ Data /\ FsOk(nodes, mounted, freed) /\ refused \in BOOLEAN
    BY IdleFacts DEF Data
  <2>2. cur \in DOMAIN nodes /\ Covers(Refs(nodes), More(Held, cur))
    BY <1>1, LookupFacts
  <2>3. PICK N : N = Put(nodes, cur)
    OBVIOUS
  <2>4. Tree(N) /\ Within(N, nodes)
    BY <2>1, <2>2, <2>3, PutIs
  <2>5. Holders(N, files, refused) \in Counts /\ AtMost(Holders(N, files, refused), Held)
    BY <2>1, <2>4, HoldersCounts, HoldersWithin DEF Held
  <2>6. Covers(Refs(N), Holders(N, files, refused))
    BY <2>1, <2>2, <2>3, <2>5, PutCovers
  <2>7. Sound(N)
    BY <2>1, <2>4, <2>6, FsWithin DEF Sound
  <2>8. "umount" \in Lookups /\ path \in Seq(Names) /\ lost' \in BOOLEAN /\ state' = state
    BY <1>1 DEF Lookups, IInv, Call, PutLoses
  <2>9. "umount" # "mount"
    OBVIOUS
  <2> QED BY <1>3, <2>1, <2>3, <2>7, <2>8, <2>9, FindInv
<1> QED BY <1>1, <1>2, <1>3
-----------------------------------------------------------------------------
(* Mounting and unmounting.                                                *)

\* M is N with another filesystem f, mount filesystem m and inode i at node c
Refit(M, N, c, f, m, i) ==
    /\ DOMAIN M = DOMAIN N
    /\ M[c] = [N[c] EXCEPT !.fs = f, !.mount_fs = m, !.inode = i]
    /\ \A q \in DOMAIN N : q # c => M[q] = N[q]

LEMMA RefitTree ==
    ASSUME NEW N, Tree(N), NEW c \in DOMAIN N, NEW f \in FileSystems,
           NEW m \in FileSystems \cup {NoFs}, NEW i \in Inodes, NEW M, Refit(M, N, c, f, m, i)
    PROVE  /\ Tree(M) /\ Refs(M) = Refs(N)
           /\ M[c].fs = f /\ M[c].mount_fs = m /\ M[c].inode = i
<1>1. N[c] \in NodeRecords
  BY DEF Tree, Shape
<1>2. /\ M[c] \in NodeRecords /\ M[c].fs = f /\ M[c].mount_fs = m /\ M[c].inode = i
      /\ M[c].child = N[c].child /\ M[c].ref_count = N[c].ref_count
  <2>1. PICK r : r = N[c]
    OBVIOUS
  <2>2. PICK s : s = M[c]
    OBVIOUS
  <2>3. r \in NodeRecords /\ s = [r EXCEPT !.fs = f, !.mount_fs = m, !.inode = i]
    BY <1>1, <2>1, <2>2 DEF Refit
  <2>4. /\ s \in NodeRecords /\ s.fs = f /\ s.mount_fs = m /\ s.inode = i
        /\ s.child = r.child /\ s.ref_count = r.ref_count
    BY <2>3 DEF NodeRecords
  <2> QED BY <2>1, <2>2, <2>4
<1>3. DOMAIN M = DOMAIN N /\ \A q \in DOMAIN N : q # c => M[q] = N[q]
  BY DEF Refit
<1>4. \A q \in DOMAIN N : M[q].child = N[q].child /\ M[q].ref_count = N[q].ref_count
  BY <1>2, <1>3
<1>5. Linked(M) /\ Closed(M)
  BY <1>3, <1>4, LinkedSame DEF Tree
<1>6. Shape(M)
  BY <1>2, <1>3 DEF Tree, Shape
<1>7. Refs(M) = Refs(N)
  BY <1>3, <1>4 DEF Refs
<1> QED BY <1>2, <1>5, <1>6, <1>7 DEF Tree

\* The counts of holders at the other nodes stay.
LEMMA RefitHolders ==
    ASSUME NEW N, NEW c, NEW f, NEW m, NEW i, NEW M, Refit(M, N, c, f, m, i),
           NEW F, NEW r, NEW q \in NodePaths, q # c
    PROVE  Holders(M, F, r)[q] = Holders(N, F, r)[q]
<1> QED BY DEF Holders, Refit

\* The new filesystem of mount is used nowhere else.
LEMMA FsMounted ==
    ASSUME NEW N, Tree(N), NEW m, NEW d, FsOk(N, m, d), NEW c \in DOMAIN N, IsDirectory(N[c].inode),
           NEW f \in DevFs, f \notin m, f \notin d,
           NEW M, Refit(M, N, c, f, N[c].fs, Inode(f, Root))
    PROVE  FsOk(M, m \cup {f}, d)
<1>1. N[c] \in NodeRecords
  BY DEF Tree, Shape
<1>2. N[c].fs \in FileSystems /\ N[c].inode.fs \in FileSystems /\ f \in FileSystems /\ f # RootFs
  BY <1>1, RecordIs, FsTypes
<1>3. Inode(f, Root) \in Inodes /\ Inode(f, Root).fs = f /\ Inode(f, Root).path = Root
  BY <1>2, PathTypes DEF Inode, Inodes
<1>4. /\ M[c].fs = f /\ M[c].mount_fs = N[c].fs /\ M[c].inode = Inode(f, Root)
  BY <1>2, <1>3, RefitTree
<1>5. DOMAIN M = DOMAIN N /\ \A q \in DOMAIN N : q # c => M[q] = N[q]
  BY DEF Refit
<1>6. c \in RootDirs /\ (N[c].fs # RootFs => N[c].inode.path = Root)
  BY VfsAssumption DEF FsOk, Placed, IsDirectory
<1>7. Placed(M)
  BY <1>2, <1>3, <1>4, <1>5, <1>6 DEF FsOk, Placed
<1>8. \A q \in DOMAIN N : N[q].fs # f /\ N[q].mount_fs # f
  BY <1>2 DEF FsOk, InUse
<1>9. ASSUME NEW q \in DOMAIN N PROVE Home(M, q, f) => q = c
  BY <1>5, <1>8 DEF Home
<1>10. ASSUME NEW q \in DOMAIN N, NEW g \in DevFs, g # f, Home(M, q, g) PROVE Home(N, q, g)
  BY <1>3, <1>4, <1>5, <1>6, <1>10, FsTypes DEF Home
<1>11. ASSUME NEW q \in DOMAIN N, NEW g \in DevFs, M[q].fs = g, M[q].inode.path # Root
       PROVE  g # f /\ N[q].fs = g /\ N[q].inode.path # Root
  BY <1>3, <1>4, <1>5, <1>8, <1>11
<1>12. Homes(N)
  BY DEF FsOk
<1>13. ASSUME NEW g \in DevFs, NEW p \in DOMAIN N, NEW q \in DOMAIN N
       PROVE  /\ Home(M, p, g) /\ Home(M, q, g) => p = q
              /\ Home(M, p, g) /\ M[q].fs = g /\ M[q].inode.path # Root => q # Root /\ Front(q) = p
  <2>1. CASE g = f
    BY <1>9, <1>11, <2>1
  <2>2. CASE g # f
    BY <1>10, <1>11, <1>12, <2>2 DEF Homes
  <2> QED BY <2>1, <2>2
<1>14. Homes(M)
  BY <1>5, <1>13 DEF Homes
<1>15. InUse(M, m \cup {f}, d)
  <2> SUFFICES ASSUME NEW p \in DOMAIN N, NEW g \in FileSystems, M[p].fs = g \/ M[p].mount_fs = g
               PROVE  g \notin d /\ (g # RootFs => g \in m \cup {f})
    BY <1>5 DEF InUse
  <2>1. g = f \/ N[p].fs = g \/ N[p].mount_fs = g
    BY <1>4, <1>5
  <2>2. CASE g = f
    BY <2>2
  <2>3. CASE N[p].fs = g \/ N[p].mount_fs = g
    BY <2>3 DEF FsOk, InUse
  <2> QED BY <2>1, <2>2, <2>3
<1> QED BY <1>7, <1>14, <1>15 DEF FsOk

LEMMA MountedInv ==
    ASSUME IInv, Mounted
    PROVE  IInv'
<1>1. /\ op \in Lookups /\ op = "mount" /\ ~lost /\ Return
      /\ IsDirectory(nodes[cur].inode)
      /\ nodes' = [nodes EXCEPT ![cur] = [@ EXCEPT !.mount_fs = nodes[cur].fs, !.fs = fs,
                                                   !.inode = Inode(fs, Root)]]
      /\ mounted' = mounted \cup {fs}
      /\ UNCHANGED <<files, freed, refused, lost>>
  BY DEF Mounted, Found, Lookups
<1>2. fs \in DevFs /\ fs \notin mounted /\ fs \notin freed
  BY <1>1 DEF IInv, CallFs
<1>3. /\ Held \in Counts /\ Refs(nodes) \in Counts /\ files \in Counts
      /\ Data /\ Tree(nodes) /\ FsOk(nodes, mounted, freed) /\ refused \in BOOLEAN
  BY IdleFacts DEF Data
<1>4. Covers(Refs(nodes), More(Held, cur)) /\ cur \in NodePaths /\ cur \in DOMAIN nodes
  BY <1>1, LookupFacts
<1>5. nodes[cur] \in NodeRecords
  BY <1>3, <1>4 DEF Tree, Shape
<1>6. nodes[cur].fs \in FileSystems /\ fs \in FileSystems /\ Inode(fs, Root) \in Inodes
  BY <1>2, <1>5, RecordIs, FsTypes, PathTypes DEF Inode, Inodes
<1>7. Refit(nodes', nodes, cur, fs, nodes[cur].fs, Inode(fs, Root))
  <2>1. nodes'[cur] = [nodes[cur] EXCEPT !.mount_fs = nodes[cur].fs, !.fs = fs, !.inode = Inode(fs, Root)]
    BY <1>1, <1>4
  <2>2. [nodes[cur] EXCEPT !.mount_fs = nodes[cur].fs, !.fs = fs, !.inode = Inode(fs, Root)]
          = [nodes[cur] EXCEPT !.fs = fs, !.mount_fs = nodes[cur].fs, !.inode = Inode(fs, Root)]
    BY <1>5 DEF NodeRecords
  <2> QED BY <1>1, <2>1, <2>2 DEF Refit
<1>8. Tree(nodes') /\ Refs(nodes') = Refs(nodes)
  BY <1>3, <1>4, <1>6, <1>7, RefitTree
<1>9. FsOk(nodes', mounted', freed')
  BY <1>1, <1>2, <1>3, <1>4, <1>7, FsMounted
<1>10. Data'
  BY <1>1, <1>2, <1>3 DEF Data
<1>11. Ended
  BY <1>1, <1>8, <1>9, <1>10 DEF Ended
<1>12. PICK H : H = Holders(nodes', files, refused)
  OBVIOUS
<1>13. H \in Counts /\ More(Held, cur) \in Counts
  BY <1>3, <1>4, <1>12, HoldersCounts, MoreCounts
<1>14. AtMost(H, More(Held, cur))
  <2> SUFFICES ASSUME NEW q \in NodePaths PROVE H[q] =< More(Held, cur)[q]
    BY DEF AtMost
  <2>1. /\ More(Held, cur)[q] = (IF q = cur THEN Held[q] + 1 ELSE Held[q])
        /\ Held[q] \in Nat /\ files[q] \in Nat
    BY <1>3, <1>4, MoreCounts DEF Counts
  <2>2. CASE q # cur
    <3>1. H[q] = Held[q]
      BY <1>7, <1>12, <2>2, RefitHolders DEF Held
    <3> QED BY <2>1, <2>2, <3>1
  <2>3. CASE q = cur
    <3>1. CASE refused
      BY <1>12, <2>1, <3>1 DEF Holders
    <3>2. CASE ~refused
      <4>1. H[q] =< files[q] + 1
        BY <1>12, <2>1, <3>2 DEF Holders
      <4>2. files[q] =< Held[q]
        BY <2>1, <3>2 DEF Held, Holders
      <4>3. H[q] \in Nat
        BY <1>13 DEF Counts
      <4> QED BY <2>1, <2>3, <4>1, <4>2, <4>3
    <3> QED BY <1>3, <3>1, <3>2
  <2> QED BY <2>2, <2>3
<1>15. Covers(Refs(nodes'), H)
  BY <1>3, <1>4, <1>8, <1>13, <1>14, CoversAtMost
<1> QED BY <1>1, <1>11, <1>12, <1>15, ReturnInv

\* Unmounting gives the node back to a filesystem that has its home there already.
LEMMA FsUnmounted ==
    ASSUME NEW N, Tree(N), NEW m, NEW d, FsOk(N, m, d), NEW c \in DOMAIN N, N[c].mount_fs # NoFs,
           NEW M, Refit(M, N, c, N[c].mount_fs, NoFs, N[c].inode)
    PROVE  FsOk(M, m, d)
<1>1. N[c] \in NodeRecords
  BY DEF Tree, Shape
<1>2. N[c].mount_fs \in FileSystems /\ N[c].inode \in Inodes
  BY <1>1, RecordIs
<1>3. M[c].fs = N[c].mount_fs /\ M[c].mount_fs = NoFs /\ M[c].inode = N[c].inode
  BY <1>2, RefitTree
<1>4. DOMAIN M = DOMAIN N /\ \A q \in DOMAIN N : q # c => M[q] = N[q]
  BY DEF Refit
<1>5. N[c].inode.path = Root
  BY DEF FsOk, Placed
<1>6. Placed(M)
  BY <1>3, <1>4 DEF FsOk, Placed
<1>7. ASSUME NEW q \in DOMAIN N, NEW g \in DevFs, Home(M, q, g) PROVE Home(N, q, g)
  <2>1. NoFs # g
    BY FsTypes
  <2> QED BY <1>3, <1>4, <1>7, <2>1 DEF Home
<1>8. ASSUME NEW q \in DOMAIN N, NEW g \in DevFs, M[q].fs = g, M[q].inode.path # Root
      PROVE  N[q].fs = g /\ N[q].inode.path # Root
  BY <1>3, <1>4, <1>5, <1>8
<1>9. Homes(M)
  BY <1>4, <1>7, <1>8 DEF FsOk, Homes
<1>10. InUse(M, m, d)
  <2> SUFFICES ASSUME NEW p \in DOMAIN N, NEW g \in FileSystems, M[p].fs = g \/ M[p].mount_fs = g
               PROVE  g \notin d /\ (g # RootFs => g \in m)
    BY <1>4 DEF InUse
  <2>1. N[p].fs = g \/ N[p].mount_fs = g
    BY <1>3, <1>4, FsTypes
  <2> QED BY <2>1 DEF FsOk, InUse
<1> QED BY <1>6, <1>9, <1>10 DEF FsOk

\* After the first put only cur and the nodes just below it use the filesystem.
LEMMA UnmountUses ==
    ASSUME NEW N, Tree(N), NEW m, NEW d, FsOk(N, m, d), NEW c \in DOMAIN N, N[c].mount_fs # NoFs
    PROVE  /\ N[c].fs \in FileSystems /\ (N[c].fs = RootFs => c = Root)
           /\ N[c].fs # RootFs => \A p \in DOMAIN N :
                  N[p].fs = N[c].fs \/ N[p].mount_fs = N[c].fs => p = c \/ (p # Root /\ Front(p) = c)
<1>1. N[c] \in NodeRecords
  BY DEF Tree, Shape
<1>2. N[c].fs \in FileSystems
  BY <1>1, RecordIs
<1>3. (N[c].fs = RootFs => c = Root) /\ N[c].inode.path = Root
  BY DEF FsOk, Placed
<1>4. ASSUME N[c].fs # RootFs, NEW p \in DOMAIN N, N[p].fs = N[c].fs \/ N[p].mount_fs = N[c].fs
      PROVE  p = c \/ (p # Root /\ Front(p) = c)
  <2>1. N[c].fs \in DevFs /\ Home(N, c, N[c].fs)
    BY <1>2, <1>3, <1>4, FsTypes DEF Home
  <2>2. CASE Home(N, p, N[c].fs)
    BY <2>1, <2>2 DEF FsOk, Homes
  <2>3. CASE ~Home(N, p, N[c].fs)
    <3>1. N[p].fs = N[c].fs /\ N[p].inode.path # Root
      BY <1>4, <2>3 DEF Home
    <3> QED BY <2>1, <3>1 DEF FsOk, Homes
  <2> QED BY <2>2, <2>3
<1> QED BY <1>2, <1>3, <1>4

LEMMA UnmountInv ==
    ASSUME IInv, Unmount
    PROVE  IInv'
<1>1. PICK N : N = Unmounted(nodes, cur)
  OBVIOUS
<1>2. /\ op \in Lookups /\ ~lost /\ rest = <<>> /\ IsMounted(nodes, cur) /\ PutNode(N, cur)
      /\ op' = "put" /\ fs' = nodes[cur].fs
      /\ UNCHANGED <<files, mounted, freed, refused, path, rest, cur>>
  BY <1>1 DEF Unmount, Found, Lookups, state
<1>3. /\ Held \in Counts /\ Refs(nodes) \in Counts /\ files \in Counts
      /\ Data /\ Tree(nodes) /\ FsOk(nodes, mounted, freed) /\ refused \in BOOLEAN
  BY IdleFacts DEF Data
<1>4. Covers(Refs(nodes), More(Held, cur)) /\ cur \in NodePaths /\ cur \in DOMAIN nodes
  BY <1>2, LookupFacts
<1>5. nodes[cur] \in NodeRecords /\ nodes[cur].mount_fs # NoFs
  BY <1>2, <1>3, <1>4 DEF Tree, Shape, IsMounted
<1>6. nodes[cur].mount_fs \in FileSystems /\ nodes[cur].inode \in Inodes
  BY <1>5, RecordIs
<1>7. Refit(N, nodes, cur, nodes[cur].mount_fs, NoFs, nodes[cur].inode)
  <2>1. N[cur] = [nodes[cur] EXCEPT !.fs = nodes[cur].mount_fs, !.mount_fs = NoFs]
    BY <1>1, <1>4 DEF Unmounted
  <2>2. [nodes[cur] EXCEPT !.fs = nodes[cur].mount_fs, !.mount_fs = NoFs]
          = [nodes[cur] EXCEPT !.fs = nodes[cur].mount_fs, !.mount_fs = NoFs, !.inode = nodes[cur].inode]
    BY <1>5 DEF NodeRecords
  <2>3. DOMAIN N = DOMAIN nodes /\ \A q \in DOMAIN nodes : q # cur => N[q] = nodes[q]
    BY <1>1 DEF Unmounted
  <2> QED BY <2>1, <2>2, <2>3 DEF Refit
<1>8. Tree(N) /\ Refs(N) = Refs(nodes) /\ N[cur].mount_fs = NoFs
  <2>1. PICK f \in FileSystems, m \in FileSystems \cup {NoFs}, i \in Inodes :
            f = nodes[cur].mount_fs /\ m = NoFs /\ i = nodes[cur].inode
    BY <1>6
  <2>2. Refit(N, nodes, cur, f, m, i)
    BY <1>7, <2>1
  <2>5. PICK O : O = nodes
    OBVIOUS
  <2>3. PICK c \in DOMAIN O : c = cur /\ Tree(O) /\ Refit(N, O, c, f, m, i)
    BY <1>3, <1>4, <2>2, <2>5
  <2>4. Tree(N) /\ Refs(N) = Refs(O) /\ N[c].mount_fs = m
    BY <2>3, RefitTree
  <2> QED BY <2>1, <2>3, <2>4, <2>5
<1>9. FsOk(N, mounted, freed) /\ DOMAIN N = DOMAIN nodes
  BY <1>3, <1>4, <1>5, <1>7, FsUnmounted DEF Refit
<1>10. nodes' = Put(N, cur) /\ lost' = PutLoses(N, cur)
  BY <1>2, <1>4, <1>9, PutNodeIs
<1>11. Tree(nodes') /\ Within(nodes', N) /\ FsOk(nodes', mounted', freed')
  BY <1>2, <1>4, <1>8, <1>9, <1>10, PutIs, FsWithin
<1>12. Data'
  BY <1>2, <1>3, <1>10 DEF Data, PutLoses
<1>13. Call'
  BY <1>2, <1>4 DEF IInv, Call
<1>14. CallFs'
  <2>1. /\ fs' \in FileSystems /\ (fs' = RootFs => cur = Root)
        /\ fs' # RootFs => \A p \in DOMAIN nodes :
               nodes[p].fs = fs' \/ nodes[p].mount_fs = fs' => p = cur \/ (p # Root /\ Front(p) = cur)
    BY <1>2, <1>3, <1>4, <1>5, UnmountUses
  <2>2. ASSUME NEW p \in DOMAIN nodes', p # cur
        PROVE  p \in DOMAIN nodes /\ nodes'[p].fs = nodes[p].fs /\ nodes'[p].mount_fs = nodes[p].mount_fs
    BY <1>7, <1>11, <2>2 DEF Refit, Within
  <2>3. ASSUME fs' # RootFs, NEW p \in DOMAIN nodes', nodes'[p].fs = fs' \/ nodes'[p].mount_fs = fs'
        PROVE  p = cur \/ (p # Root /\ Front(p) = cur)
    BY <2>1, <2>2, <2>3
  <2> QED BY <1>2, <2>1, <2>3 DEF CallFs
<1>15. PICK H : H = Holders(N, files, refused)
  OBVIOUS
<1>16. PICK K : K = Holders(nodes', files, refused)
  OBVIOUS
<1>17. /\ H \in Counts /\ K \in Counts /\ AtMost(K, H) /\ More(K, cur) \in Counts /\ More(H, cur) \in Counts
       /\ AtMost(More(K, cur), More(H, cur))
  <2>1. H \in Counts /\ K \in Counts /\ AtMost(K, H)
    BY <1>3, <1>11, <1>15, <1>16, HoldersCounts, HoldersWithin
  <2> QED BY <1>4, <2>1, MoreCounts, MoreAtMost
<1>18. CASE refused
  <2>1. H = Held
    BY <1>15, <1>18 DEF Held, Holders
  <2>2. Covers(Refs(nodes'), K)
    BY <1>4, <1>8, <1>9, <1>10, <1>17, <2>1, PutCovers
  <2>3. Counted'
    BY <1>2, <1>16, <1>18, <2>2 DEF Counted, Holding, Lookups
  <2> QED BY <1>11, <1>12, <1>13, <1>14, <2>3 DEF IInv
<1>19. CASE ~refused
  <2>1. ASSUME NEW q \in NodePaths PROVE Held[q] = IF q = cur THEN H[q] + 1 ELSE H[q]
    <3>1. CASE q # cur
      BY <1>7, <1>15, <3>1, RefitHolders DEF Held
    <3>2. CASE q = cur
      <4>1. H[q] = files[q] + 0 /\ Held[q] = files[q] + 1 /\ files[q] \in Nat
        BY <1>3, <1>4, <1>5, <1>8, <1>9, <1>15, <1>19, <3>2 DEF Held, Holders, Counts
      <4> QED BY <3>2, <4>1
    <3> QED BY <3>1, <3>2
  <2>2. Held = More(H, cur)
    BY <1>3, <1>17, <2>1 DEF More, Counts
  <2>3. Covers(Refs(nodes'), More(K, cur))
    BY <1>4, <1>8, <1>9, <1>10, <1>17, <2>2, PutCovers
  <2>4. Counted'
    BY <1>2, <1>16, <1>19, <2>3 DEF Counted, Holding, Lookups
  <2> QED BY <1>11, <1>12, <1>13, <1>14, <2>4 DEF IInv
<1> QED BY <1>3, <1>18, <1>19

\* When umount has freed the filesystem, no node uses it.
LEMMA UmountedUses ==
    ASSUME IInv, op = "put", cur \in DOMAIN nodes, PutError(nodes, cur) = "0",
           NEW N, N = Put(nodes, cur), NEW q \in DOMAIN N
    PROVE  N[q].fs # fs /\ N[q].mount_fs # fs
<1>1. Tree(nodes)
  BY DEF IInv
<1>2. Within(N, nodes)
  BY <1>1, PutIs
<1>3. cur \notin DOMAIN N /\ \A p \in DOMAIN nodes : IsPrefix(cur, p) => p = cur
  BY <1>1, PutDone
<1>4. /\ q \in DOMAIN nodes /\ N[q].fs = nodes[q].fs /\ N[q].mount_fs = nodes[q].mount_fs
      /\ q \in NodePaths /\ q \in Seq(Names)
  BY <1>1, <1>2, PathTypes DEF Within, Tree, Shape
<1>5. q # cur /\ ~IsPrefix(cur, q)
  BY <1>3, <1>4
<1>6. cur # Root
  BY <1>4, <1>5, PrefixSelf
<1>7. fs # RootFs
  BY <1>6 DEF IInv, CallFs
<1>8. ~(q # Root /\ Front(q) = cur)
  BY <1>4, <1>5, FrontPath
<1> QED BY <1>4, <1>5, <1>7, <1>8 DEF IInv, CallFs

LEMMA UmountedInv ==
    ASSUME IInv, Umounted
    PROVE  IInv'
<1>1. /\ op = "put" /\ ~lost /\ PutNode(nodes, cur) /\ Return
      /\ freed' = (IF Alive(nodes, cur) /\ Done(PutError(nodes, cur)) THEN freed \cup {fs} ELSE freed)
      /\ UNCHANGED <<files, mounted, refused>>
  BY DEF Umounted, Found
<1>2. /\ Held \in Counts /\ Refs(nodes) \in Counts /\ files \in Counts
      /\ Data /\ Tree(nodes) /\ FsOk(nodes, mounted, freed) /\ refused \in BOOLEAN
  BY IdleFacts DEF Data
<1>3. CASE cur \notin DOMAIN nodes
  <2>1. nodes' = nodes /\ lost' = TRUE /\ freed' = freed
    BY <1>1, <1>3 DEF PutNode, Alive
  <2>2. Ended
    BY <1>1, <1>2, <2>1 DEF Ended, Data
  <2> QED BY <2>1, <2>2, ReturnInv
<1>4. CASE cur \in DOMAIN nodes
  <2>1. nodes' = Put(nodes, cur) /\ lost' = PutLoses(nodes, cur)
    BY <1>1, <1>4, PutNodeIs
  <2>2. Tree(nodes') /\ Within(nodes', nodes) /\ FsOk(nodes', mounted, freed)
    BY <1>2, <1>4, <2>1, PutIs, FsWithin
  <2>3. fs \in FileSystems
    BY <1>1 DEF IInv, CallFs
  <2>4. Data'
    BY <1>1, <1>2, <2>1, <2>3 DEF Data, PutLoses
  <2>5. InUse(nodes', mounted, freed')
    <3>1. CASE freed' = freed
      BY <2>2, <3>1 DEF FsOk
    <3>2. CASE freed' # freed
      <4>1. freed' = freed \cup {fs} /\ PutError(nodes, cur) = "0"
        BY <1>1, <3>2 DEF Done
      <4>2. \A q \in DOMAIN nodes' : nodes'[q].fs # fs /\ nodes'[q].mount_fs # fs
        BY <1>1, <1>4, <2>1, <4>1, UmountedUses
      <4> QED BY <2>2, <4>1, <4>2 DEF FsOk, InUse
    <3> QED BY <3>1, <3>2
  <2>6. Ended
    BY <1>1, <2>2, <2>4, <2>5 DEF Ended, FsOk
  <2>7. PICK K : K = Holders(nodes', files, refused)
    OBVIOUS
  <2>8. K \in Counts /\ AtMost(K, Held)
    BY <1>2, <2>2, <2>7, HoldersCounts, HoldersWithin DEF Held
  <2>9. Covers(Refs(nodes'), K)
    <3>1. CASE refused
      <4>1. Covers(Refs(nodes), Held)
        BY <1>1, <3>1 DEF IInv, Counted, Holding, Lookups, Held
      <4>2. \A q \in NodePaths : K[q] = 0
        BY <2>7, <3>1 DEF Holders
      <4> QED BY <1>2, <1>4, <2>1, <2>8, <4>1, <4>2, PutNothing
    <3>2. CASE ~refused
      <4>1. Covers(Refs(nodes), More(Held, cur))
        BY <1>1, <3>2 DEF IInv, Counted, Holding, Held
      <4> QED BY <1>2, <1>4, <2>1, <2>8, <4>1, PutCovers
    <3> QED BY <1>2, <3>1, <3>2
  <2> QED BY <1>1, <2>6, <2>7, <2>9, ReturnInv
<1> QED BY <1>3, <1>4
-----------------------------------------------------------------------------
(* The theorems.                                                           *)

LEMMA InitIInv == Init => IInv
<1> SUFFICES ASSUME Init PROVE IInv
  OBVIOUS
<1>1. PICK r : r = [Node(RootFs, Inode(RootFs, Root)) EXCEPT !.mount_fs = RootFs]
  OBVIOUS
<1>2. DOMAIN nodes = {Root} /\ nodes[Root] = r
  BY <1>1 DEF Init
<1>3. files = [p \in NodePaths |-> 0] /\ mounted = {} /\ freed = {} /\ refused = FALSE /\ lost = FALSE
  BY DEF Init
<1>4. op = "idle" /\ path = Root /\ rest = <<>> /\ cur = Root /\ fs = NoFs
  BY DEF Init
<1>5. <<>> \in Seq(Names)
  OBVIOUS
<1>6. /\ r \in NodeRecords /\ r.fs = RootFs /\ r.inode = Inode(RootFs, Root) /\ r.ref_count = 1
      /\ r.mount_fs = RootFs /\ r.child = <<>>
      /\ r.inode.fs = RootFs /\ r.inode.path = Root
  BY <1>1, <1>5, FsTypes, PathTypes DEF Node, NodeRecords, Inode, Inodes
<1>7. Data /\ Call /\ CallFs
  BY <1>3, <1>4, <1>5, PathTypes DEF Data, Call, CallFs
<1>8. Shape(nodes)
  BY <1>2, <1>6, PathTypes DEF Shape
<1>9. ToSet(r.child) = {} /\ IsInjective(r.child)
  BY <1>6 DEF ToSet, IsInjective
<1>10. Linked(nodes)
  BY <1>2, <1>9 DEF Linked
<1>11. Closed(nodes)
  <2> SUFFICES ASSUME NEW p \in Seq(Names), IsPrefix(p, Root) PROVE p = Root
    BY <1>2 DEF Closed
  <2>1. Len(p) =< Len(Root)
    BY PrefixIs, PathTypes
  <2>2. Len(p) = 0
    BY <2>1 DEF Root
  <2> QED BY <2>2 DEF Root
<1>12. Placed(nodes)
  BY <1>2, <1>6, VfsAssumption DEF Placed
<1>13. Homes(nodes)
  BY <1>2, <1>6 DEF Homes
<1>14. InUse(nodes, mounted, freed)
  BY <1>2, <1>3, <1>6 DEF InUse
<1>15. Covers(Refs(nodes), Holders(nodes, files, refused))
  <2>1. PICK Z : Z = [p \in NodePaths |-> 0]
    OBVIOUS
  <2>2. Z \in Counts /\ \A p \in NodePaths : Z[p] = 0
    BY <2>1 DEF Counts
  <2>3. Tokens(Z) = {}
    <3>1. \A t : t \notin Tokens(Z)
      BY <2>2, TokenIs
    <3> QED BY <3>1
  <2>4. Covers(Z, Z)
    BY <2>2, <2>3, CoversNothing, FS_EmptySet
  <2>5. Covers(More(Z, Root), More(Z, Root))
    BY <2>2, <2>4, CoversMore, PathTypes
  <2>6. Refs(nodes) = More(Z, Root)
    BY <1>2, <1>6, <2>1 DEF Refs, More
  <2>7. Holders(nodes, files, refused) = More(Z, Root)
    BY <1>2, <1>3, <1>6, <2>1, FsTypes DEF Holders, More
  <2> QED BY <2>5, <2>6, <2>7
<1>16. Counted
  BY <1>4, <1>15 DEF Counted, Holding, Lookups
<1> QED BY <1>7, <1>8, <1>10, <1>11, <1>12, <1>13, <1>14, <1>16 DEF IInv, Tree, FsOk

LEMMA SameInv == IInv /\ UNCHANGED vars => IInv'
<1> SUFFICES ASSUME IInv, UNCHANGED vars PROVE IInv'
  OBVIOUS
<1>1. UNCHANGED <<nodes, files, mounted, freed, refused, lost, op, path, rest, cur, fs>>
  BY DEF vars, state
<1> QED BY <1>1 DEF IInv, Data, Call, CallFs, Counted, Holding

LEMMA StepIInv == IInv /\ [Next]_vars => IInv'
<1> SUFFICES ASSUME IInv, [Next]_vars PROVE IInv'
  OBVIOUS
<1>1. ASSUME NEW p \in Paths, Open(p) PROVE IInv'
  <2>1. "open" \in Lookups /\ "open" # "mount"
    BY DEF Lookups
  <2> QED BY <1>1, <2>1, BeginInv DEF Open
<1>2. CASE Opened
  BY <1>2, OpenedInv
<1>3. CASE OpenFails
  BY <1>3, OpenFailsInv
<1>4. ASSUME NEW p \in NodePaths, NEW exits \in Exits, Close(p, exits) PROVE IInv'
  BY <1>4, CloseInv
<1>5. ASSUME NEW p \in Targets, NEW f \in DevFs, Mount(p, f) PROVE IInv'
  <2>1. "mount" \in Lookups
    BY DEF Lookups
  <2> QED BY <1>5, <2>1, BeginInv DEF Mount
<1>6. CASE Mounted
  BY <1>6, MountedInv
<1>7. CASE MountFails
  BY <1>7, KeepsInv DEF MountFails, Found, Lookups
<1>8. ASSUME NEW p \in Targets, Umount(p) PROVE IInv'
  <2>1. "fs" \in Lookups /\ "fs" # "mount"
    BY DEF Lookups
  <2> QED BY <1>8, <2>1, BeginInv DEF Umount
<1>9. CASE FsFound
  BY <1>9, FsFoundInv
<1>10. CASE UmountFails
  BY <1>10, KeepsInv DEF UmountFails, Found, Lookups
<1>11. CASE Unmount
  BY <1>11, UnmountInv
<1>12. CASE Umounted
  BY <1>12, UmountedInv
<1>13. CASE WalkUp
  BY <1>13, WalkUpInv
<1>14. CASE WalkDown
  BY <1>14, WalkDownInv
<1>16. CASE WalkFails
  <2>1. op \in Lookups
    BY <1>16 DEF WalkFails, IInv, Call
  <2> QED BY <1>16, <2>1, KeepsInv DEF WalkFails
<1>15. CASE Stop \/ UNCHANGED vars
  BY <1>15, SameInv DEF Stop
<1> QED BY <1>1, <1>2, <1>3, <1>4, <1>5, <1>6, <1>7, <1>8, <1>9, <1>10, <1>11, <1>12, <1>13,
           <1>14, <1>15, <1>16 DEF Next

(***************************************************************************)
(* The inductive invariant of the tree: the nodes are linked, the node of  *)
(* a mounted filesystem is its only home, and in every part of the tree    *)
(* the counters that vfs_node_get and vfs_node_put keep add up to at least *)
(* the references of files, mounts and the call under way.                 *)
(***************************************************************************)
THEOREM VfsInvariant == Spec => []IInv
<1> QED BY InitIInv, StepIInv, PTL DEF Spec

(***************************************************************************)
(* A node that a file refers to is not freed by vfs_node_put, whichever    *)
(* calls other tasks make, until sys_close has kept a file it has put.     *)
(***************************************************************************)
THEOREM OpenNodesStay == Spec => []OpenNodesExist
<1>1. IInv => OpenNodesExist
  <2> SUFFICES ASSUME IInv, ~lost, ~refused, NEW p \in NodePaths, files[p] > 0
               PROVE  p \in DOMAIN nodes
    BY DEF OpenNodesExist, Alive
  <2>1. Held \in Counts /\ files \in Counts /\ Tree(nodes) /\ Refs(nodes) \in Counts /\ cur \in NodePaths
    BY IdleFacts DEF IInv, Call
  <2>2. Covers(Refs(nodes), Held)
    <3>1. CASE Holding
      <4>1. Covers(Refs(nodes), More(Held, cur))
        BY <3>1 DEF IInv, Counted, Held
      <4>2. More(Held, cur) \in Counts /\ AtMost(Held, More(Held, cur))
        BY <2>1, MoreCounts
      <4> QED BY <2>1, <4>1, <4>2, CoversAtMost
    <3>2. CASE ~Holding
      BY <3>2 DEF IInv, Counted, Held
    <3> QED BY <3>1, <3>2
  <2>3. Held[p] # 0
    <3>1. files[p] \in Nat
      BY <2>1 DEF Counts
    <3>2. Held[p] = files[p] + IF p \in DOMAIN nodes /\ nodes[p].mount_fs # NoFs THEN 1 ELSE 0
      BY DEF Held, Holders
    <3> QED BY <3>1, <3>2
  <2> QED BY <2>1, <2>2, <2>3, HeldExists
<1> QED BY <1>1, VfsInvariant, PTL

(***************************************************************************)
(* vfs_node_new and vfs_node_put keep the nodes a tree, though a put may   *)
(* free a node far below the one it is called for.                         *)
(***************************************************************************)
THEOREM TreeStaysLinked == Spec => []TreeIsLinked
<1>1. IInv => TreeIsLinked
  BY DEF IInv, Tree, Linked, TreeIsLinked
<1> QED BY <1>1, VfsInvariant, PTL

(***************************************************************************)
(* sys_umount frees a filesystem only when no node uses it any more, even  *)
(* if filesystems were mounted over each other.                            *)
(***************************************************************************)
THEOREM FilesystemsStay == Spec => []FilesystemsExist
<1>1. IInv => FilesystemsExist
  <2> SUFFICES ASSUME IInv, NEW p \in DOMAIN nodes PROVE nodes[p].fs \notin freed
    BY DEF FilesystemsExist
  <2>1. nodes[p] \in NodeRecords
    BY DEF IInv, Tree, Shape
  <2>2. nodes[p].fs \in FileSystems
    BY <2>1, RecordIs
  <2> QED BY <2>2 DEF IInv, FsOk, InUse
<1> QED BY <1>1, VfsInvariant, PTL

\* The types, and that every node has a filesystem after each mount and umount.
THEOREM VfsTypes == Spec => []TypeOK
<1>1. IInv => TypeOK
  <2> SUFFICES ASSUME IInv PROVE TypeOK
    OBVIOUS
  <2>1. \A p \in DOMAIN nodes : nodes[p] \in NodeRecords
    BY DEF IInv, Tree, Shape
  <2>2. \A p \in DOMAIN nodes : nodes[p].fs \in FileSystems /\ nodes[p].ref_count \in Nat
    BY <2>1, RecordIs
  <2> QED BY <2>2 DEF IInv, Tree, Shape, Data, Call, TypeOK, FileSystems
<1> QED BY <1>1, VfsInvariant, PTL
=============================================================================
