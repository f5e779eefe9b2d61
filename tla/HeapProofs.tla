----------------------------- MODULE HeapProofs -----------------------------
(***************************************************************************)
(* The kernel heap, for any number of pages and chunks and buffers of any  *)
(* size: buffers do not overlap and the free list holds all other chunks,  *)
(* as long as pages come in ascending order and buffers grow by one chunk. *)
(***************************************************************************)
EXTENDS Heap, TLAPS

Top == PerPage * NumPages

-----------------------------------------------------------------------------
(* The inductive invariant.                                                *)

Link == Chunk \cup {NULL}

Heaps == [next : [Chunk -> Link], prev : [Chunk -> Link],
          first : Link, last : Link, pages : 0 .. NumPages]

Types ==
    /\ heap \in Heaps
    /\ size \in [Chunk -> 0 .. MaxSize]
    /\ order \in PageOrders
    /\ pc \in {"idle", "alloc", "realloc", "free"}
    /\ cur \in Link /\ start \in Link /\ end \in Link /\ from \in Link /\ old \in Link
    /\ count \in 0 .. MaxSize /\ want \in 0 .. MaxSize

\* a list through the chunks of F, by address
Listed(h, F) ==
    /\ IsAfter(F, 0, h.first)
    /\ IsBefore(F, Top + 1, h.last)
    /\ \A c \in F : IsAfter(F, c, h.next[c]) /\ IsBefore(F, c, h.prev[c])

\* the chunk a loop looks at is free
CurIsFree == cur = NULL \/ cur \in FreeChunks

\* heap_alloc has a run of count free chunks, the last before cur
RunIsFree ==
    pc = "alloc" =>
        /\ 1 =< want /\ count =< want
        /\ start = NULL => count = 0
        /\ start # NULL => /\ end \in Chunk /\ start =< end /\ count = end - start + 1
                           /\ start .. end \subseteq FreeChunks
        /\ old # NULL => size[old] > 0

\* heap_realloc has its buffer, or the free chunk after it too
GrownByOne ==
    /\ pc # "realloc" => from = NULL
    /\ pc = "realloc" =>
        /\ start \in Chunk /\ size[start] > 0 /\ want = size[start] + 1
        /\ \/ from = NULL /\ count = size[start] /\ end = LastOf(start)
           \/ from = end /\ end = LastOf(start) + 1 /\ end \in FreeChunks /\ count = want

\* the free chunks that the loop of heap_free has visited
Visited == {x \in FreeChunks : cur = NULL \/ x < cur}

\* the chunks a .. b follow each other
Linked(h, a, b) ==
    \A c \in a .. b : (c # b => h.next[c] = c + 1) /\ (c # a => h.prev[c] = c - 1)

\* heap_free has linked the buffer and found its neighbours among the visited chunks
NeighboursFound ==
    pc = "free" =>
        /\ start \in Chunk /\ size[start] > 0 /\ end = LastOf(start)
        /\ Linked(heap, start, end)
        /\ IsBefore(Visited, start, heap.prev[start])
        /\ IsAfter(Visited, end, heap.next[end])

IInv ==
    /\ Types
    /\ Disjoint
    /\ Listing
    /\ CurIsFree
    /\ RunIsFree
    /\ GrownByOne
    /\ NeighboursFound
-----------------------------------------------------------------------------
(* The list.                                                               *)

\* Chunks are numbers.
LEMMA ChunkNumbers ==
    /\ PerPage \in Nat \ {0} /\ NumPages \in Nat \ {0} /\ MaxSize \in Nat \ {0}
    /\ Top \in Nat /\ Chunk = 1 .. Top /\ NULL = 0 /\ NULL \notin Chunk
BY HeapAssumption DEF Chunk, Top, NULL

\* Without the run a .. b, the chunk after it follows the one before it.
LEMMA AfterWithoutRun ==
    ASSUME NEW F \in SUBSET Chunk, NEW a \in F, NEW b \in F, a =< b, a .. b \subseteq F,
           NEW p, NEW n, IsBefore(F, a, p), IsAfter(F, b, n),
           NEW c \in Nat, c \notin a .. b, NEW d, IsAfter(F, c, d)
    PROVE  /\ d # a => IsAfter(F \ (a .. b), c, d)
           /\ d = a => IsAfter(F \ (a .. b), c, n)
           /\ (c \in F \/ c = 0) => (d = a <=> c = p)
<1>1. (\A x \in F : x \in Int /\ x > 0) /\ NULL = 0
  BY ChunkNumbers
<1>2. d # NULL => /\ d \in F /\ c < d /\ (\A x \in F : x =< c \/ d =< x)
  BY DEF IsAfter
<1>3. d = NULL => \A x \in F : x =< c
  BY DEF IsAfter
<1>4. n # NULL => /\ n \in F /\ b < n /\ (\A x \in F : x =< b \/ n =< x)
  BY DEF IsAfter
<1>5. n = NULL => \A x \in F : x =< b
  BY DEF IsAfter
<1>6. p # NULL => /\ p \in F /\ p < a /\ (\A x \in F : x =< p \/ a =< x)
  BY DEF IsBefore
<1>7. p = NULL => \A x \in F : a =< x
  BY DEF IsBefore
<1>8. ASSUME d # a PROVE IsAfter(F \ (a .. b), c, d)
  <2>1. CASE d = NULL
    BY <1>1, <1>3, <2>1 DEF IsAfter
  <2>2. CASE d # NULL
    <3>1. d \notin a .. b
      BY <1>1, <1>2, <1>8, <2>2
    <3> QED BY <1>1, <1>2, <2>2, <3>1 DEF IsAfter
  <2> QED BY <2>1, <2>2
<1>9. ASSUME d = a PROVE IsAfter(F \ (a .. b), c, n)
  <2>0. c < a /\ \A x \in F : x =< c \/ a =< x
    BY <1>1, <1>2, <1>9
  <2>1. CASE n = NULL
    BY <1>1, <1>5, <2>0, <2>1 DEF IsAfter
  <2>2. CASE n # NULL
    BY <1>1, <1>4, <2>0, <2>2 DEF IsAfter
  <2> QED BY <2>1, <2>2
<1>10. ASSUME c \in F \/ c = 0 PROVE d = a <=> c = p
  BY <1>1, <1>2, <1>3, <1>6, <1>7, <1>10
<1> QED BY <1>8, <1>9, <1>10

\* The same backwards.
LEMMA BeforeWithoutRun ==
    ASSUME NEW F \in SUBSET Chunk, NEW a \in F, NEW b \in F, a =< b, a .. b \subseteq F,
           NEW p, NEW n, IsBefore(F, a, p), IsAfter(F, b, n),
           NEW c \in Nat, c \notin a .. b, NEW d, IsBefore(F, c, d)
    PROVE  /\ d # b => IsBefore(F \ (a .. b), c, d)
           /\ d = b => IsBefore(F \ (a .. b), c, p)
           /\ c \in F => (d = b <=> c = n)
<1>1. (\A x \in F : x \in Int /\ x > 0) /\ NULL = 0
  BY ChunkNumbers
<1>2. d # NULL => /\ d \in F /\ d < c /\ (\A x \in F : x =< d \/ c =< x)
  BY DEF IsBefore
<1>3. d = NULL => \A x \in F : c =< x
  BY DEF IsBefore
<1>4. n # NULL => /\ n \in F /\ b < n /\ (\A x \in F : x =< b \/ n =< x)
  BY DEF IsAfter
<1>5. n = NULL => \A x \in F : x =< b
  BY DEF IsAfter
<1>6. p # NULL => /\ p \in F /\ p < a /\ (\A x \in F : x =< p \/ a =< x)
  BY DEF IsBefore
<1>7. p = NULL => \A x \in F : a =< x
  BY DEF IsBefore
<1>8. ASSUME d # b PROVE IsBefore(F \ (a .. b), c, d)
  <2>1. CASE d = NULL
    BY <1>1, <1>3, <2>1 DEF IsBefore
  <2>2. CASE d # NULL
    <3>1. d \notin a .. b
      BY <1>1, <1>2, <1>8, <2>2
    <3> QED BY <1>1, <1>2, <2>2, <3>1 DEF IsBefore
  <2> QED BY <2>1, <2>2
<1>9. ASSUME d = b PROVE IsBefore(F \ (a .. b), c, p)
  <2>0. b < c /\ \A x \in F : x =< b \/ c =< x
    BY <1>1, <1>2, <1>9
  <2>1. CASE p = NULL
    BY <1>1, <1>7, <2>0, <2>1 DEF IsBefore
  <2>2. CASE p # NULL
    BY <1>1, <1>6, <2>0, <2>2 DEF IsBefore
  <2> QED BY <2>1, <2>2
<1>10. ASSUME c \in F PROVE d = b <=> c = n
  <2>1. ASSUME d = b PROVE c = n
    <3>1. c \in Int /\ b \in Int /\ b < c /\ \A x \in F : x =< b \/ c =< x
      BY <1>1, <1>2, <1>10, <2>1
    <3>2. n # NULL
      BY <1>5, <1>10, <3>1
    <3>3. n \in F /\ b < n /\ (c =< b \/ n =< c)
      BY <1>4, <1>10, <3>2
    <3>4. n \in Int /\ (n =< b \/ c =< n)
      BY <1>1, <3>1, <3>3
    <3> QED BY <3>1, <3>3, <3>4
  <2>2. ASSUME c = n PROVE d = b
    <3>1. b \in Int /\ c \in Int /\ b < c /\ d # NULL
      BY <1>1, <1>3, <1>4, <1>10, <2>2
    <3>2. d \in F /\ d < c /\ (b =< d \/ c =< b)
      BY <1>2, <3>1
    <3>3. d \in Int
      BY <1>1, <3>2
    <3> QED BY <1>1, <1>4, <1>10, <2>2, <3>1, <3>2, <3>3
  <2> QED BY <2>1, <2>2
<1> QED BY <1>8, <1>9, <1>10

\* heap_alloc takes a run of neighbouring chunks from the list.
LEMMA CutListed ==
    ASSUME NEW h \in Heaps, NEW F \in SUBSET Chunk, Listed(h, F),
           NEW a \in F, NEW b \in F, a =< b, a .. b \subseteq F
    PROVE  Cut(h, a, b) \in Heaps /\ Listed(Cut(h, a, b), F \ (a .. b))
<1> DEFINE G == F \ (a .. b)
           p == h.prev[a]
           n == h.next[b]
           g == Cut(h, a, b)
<1>1. /\ Top \in Nat /\ Chunk = 1 .. Top /\ NULL = 0
      /\ p \in Link /\ n \in Link
  BY ChunkNumbers DEF Heaps
<1>2. IsBefore(F, a, p) /\ IsAfter(F, b, n)
  BY DEF Listed
<1>3. /\ g.next = Cleared(Set(h.next, p, n), a, b) /\ g.prev = Cleared(Set(h.prev, n, p), a, b)
      /\ g.first = IF h.first = a THEN n ELSE h.first
      /\ g.last = IF h.last = b THEN p ELSE h.last
      /\ g.pages = h.pages
  BY DEF Cut
<1>4. g \in Heaps
  <2>1. g.next \in [Chunk -> Link] /\ g.prev \in [Chunk -> Link]
    BY <1>1, <1>3 DEF Cleared, Set, Heaps, Link
  <2>2. g.first \in Link /\ g.last \in Link /\ g.pages \in 0 .. NumPages
    BY <1>1, <1>3 DEF Heaps
  <2> QED BY <2>1, <2>2 DEF Cut, Heaps
<1>5. \A c \in G : /\ g.next[c] = IF c = p THEN n ELSE h.next[c]
                   /\ g.prev[c] = IF c = n THEN p ELSE h.prev[c]
  BY <1>3 DEF Cleared, Set
<1> HIDE DEF g, p, n
<1>6. ASSUME NEW c \in G PROVE IsAfter(G, c, g.next[c])
  <2>1. c \in Nat /\ c \notin a .. b /\ c \in F /\ IsAfter(F, c, h.next[c])
    BY <1>1 DEF Listed
  <2> QED BY <1>2, <1>5, <2>1, AfterWithoutRun
<1>7. ASSUME NEW c \in G PROVE IsBefore(G, c, g.prev[c])
  <2>1. c \in Nat /\ c \notin a .. b /\ c \in F /\ IsBefore(F, c, h.prev[c])
    BY <1>1 DEF Listed
  <2> QED BY <1>2, <1>5, <2>1, BeforeWithoutRun
<1>8. IsAfter(G, 0, g.first)
  <2>1. 0 \in Nat /\ 0 \notin a .. b /\ IsAfter(F, 0, h.first)
    BY <1>1 DEF Listed
  <2> QED BY <1>2, <1>3, <2>1, AfterWithoutRun
<1>9. IsBefore(G, Top + 1, g.last)
  <2>1. Top + 1 \in Nat /\ Top + 1 \notin a .. b /\ IsBefore(F, Top + 1, h.last)
    BY <1>1 DEF Listed
  <2> QED BY <1>2, <1>3, <2>1, BeforeWithoutRun
<1> QED BY <1>4, <1>6, <1>7, <1>8, <1>9 DEF Listed, g

\* heap_free rewrites the links of its buffer only.
LEMMA ChainListed ==
    ASSUME NEW h \in Heaps, NEW F \in SUBSET Chunk, Listed(h, F),
           NEW a \in Chunk, NEW b \in Chunk, (a .. b) \cap F = {}, a =< b
    PROVE  /\ Chain(h, a, b) \in Heaps /\ Listed(Chain(h, a, b), F)
           /\ Chain(h, a, b).first = h.first /\ Chain(h, a, b).pages = h.pages
           /\ Chain(h, a, b).prev[a] = NULL /\ Chain(h, a, b).next[b] = NULL
           /\ Linked(Chain(h, a, b), a, b)
<1> DEFINE g == Chain(h, a, b)
<1>1. Top \in Nat /\ Chunk = 1 .. Top /\ NULL = 0 /\ a .. b \subseteq Chunk
  BY ChunkNumbers
<1>2. /\ g.next = [c \in Chunk |-> IF c = b THEN NULL ELSE IF c \in a .. b THEN c + 1 ELSE h.next[c]]
      /\ g.prev = [c \in Chunk |-> IF c = a THEN NULL ELSE IF c \in a .. b THEN c - 1 ELSE h.prev[c]]
      /\ g.first = h.first /\ g.last = h.last /\ g.pages = h.pages
  BY DEF Chain, Heaps
<1>3. \A c \in Chunk : /\ c \in a .. b /\ c # b => c + 1 \in Chunk
                       /\ c \in a .. b /\ c # a => c - 1 \in Chunk
  BY <1>1
<1>4. g.next \in [Chunk -> Link] /\ g.prev \in [Chunk -> Link]
  <2>1. h.next \in [Chunk -> Link] /\ h.prev \in [Chunk -> Link] /\ NULL \in Link
    BY DEF Heaps, Link
  <2>2. \A c \in Chunk : c \in Link
    BY DEF Link
  <2> HIDE DEF g
  <2>3. \A c \in Chunk : /\ (IF c = b THEN NULL ELSE IF c \in a .. b THEN c + 1 ELSE h.next[c]) \in Link
                         /\ (IF c = a THEN NULL ELSE IF c \in a .. b THEN c - 1 ELSE h.prev[c]) \in Link
    <3> SUFFICES ASSUME NEW c \in Chunk
                 PROVE  /\ (IF c = b THEN NULL ELSE IF c \in a .. b THEN c + 1 ELSE h.next[c]) \in Link
                        /\ (IF c = a THEN NULL ELSE IF c \in a .. b THEN c - 1 ELSE h.prev[c]) \in Link
      OBVIOUS
    <3>1. h.next[c] \in Link /\ h.prev[c] \in Link
      BY <2>1
    <3>2. (c \in a .. b /\ c # b => c + 1 \in Link) /\ (c \in a .. b /\ c # a => c - 1 \in Link)
      BY <1>1 DEF Link
    <3> QED BY <2>1, <3>1, <3>2
  <2> QED BY <1>2, <2>3
<1>5. g \in Heaps
  BY <1>2, <1>4 DEF Chain, Heaps
<1>6. \A c \in F : g.next[c] = h.next[c] /\ g.prev[c] = h.prev[c]
  BY <1>1, <1>2
<1>7. Listed(g, F)
  BY <1>2, <1>6 DEF Listed
<1>8. Linked(g, a, b)
  BY <1>1, <1>2 DEF Linked
<1>9. g.prev[a] = NULL /\ g.next[b] = NULL
  BY <1>2
<1> HIDE DEF g
<1> QED BY <1>2, <1>5, <1>7, <1>8, <1>9 DEF g

\* heap_free puts its buffer between the neighbours it has found.
LEMMA FreeListed ==
    ASSUME NEW h \in Heaps, NEW F \in SUBSET Chunk, Listed(h, F),
           NEW a \in Chunk, NEW b \in Chunk, a =< b, (a .. b) \cap F = {},
           Linked(h, a, b),
           IsBefore(F, a, h.prev[a]), IsAfter(F, b, h.next[b])
    PROVE  Join(h, a, b) \in Heaps /\ Listed(Join(h, a, b), F \cup (a .. b))
<1> DEFINE p == h.prev[a]
           n == h.next[b]
           G == F \cup (a .. b)
           g == Join(h, a, b)
<1>1. /\ Top \in Nat /\ Chunk = 1 .. Top /\ NULL = 0 /\ a .. b \subseteq Chunk
      /\ p \in Link /\ n \in Link
      /\ \A x \in G : x \in Int /\ x > 0 /\ x =< Top
  BY ChunkNumbers DEF Heaps
<1>2. g.next = Set(h.next, p, a) /\ g.prev = Set(h.prev, n, b)
  BY DEF Join
<1>3. /\ g.first = IF p = NULL THEN a ELSE h.first
      /\ g.last = IF n = NULL THEN b ELSE h.last
      /\ g.pages = h.pages
  BY DEF Join
<1>4. g \in Heaps
  <2>1. g.next \in [Chunk -> Link] /\ g.prev \in [Chunk -> Link]
    BY <1>1, <1>2 DEF Set, Heaps, Link
  <2>2. g.first \in Link /\ g.last \in Link /\ g.pages \in 0 .. NumPages
    BY <1>1, <1>3 DEF Heaps, Link
  <2> QED BY <2>1, <2>2 DEF Heaps, Join
<1>5. \A c \in Chunk : /\ g.next[c] = IF c = p THEN a ELSE h.next[c]
                       /\ g.prev[c] = IF c = n THEN b ELSE h.prev[c]
  BY <1>2 DEF Set
<1>6. /\ p # NULL => p \in F /\ p < a /\ (\A x \in F : x =< p \/ a =< x)
      /\ p = NULL => \A x \in F : a =< x
  BY DEF IsBefore
<1>7. /\ n # NULL => n \in F /\ b < n /\ (\A x \in F : x =< b \/ n =< x)
      /\ n = NULL => \A x \in F : x =< b
  BY DEF IsAfter
<1>8. \A x \in F : x < a \/ b < x
  BY <1>1
<1>9. \A c \in a .. b : (c # b => h.next[c] = c + 1) /\ (c # a => h.prev[c] = c - 1)
  BY DEF Linked
<1> HIDE DEF p, n, G, g
<1>10. ASSUME NEW c \in G PROVE IsAfter(G, c, g.next[c])
  <2>1. CASE c = p
    <3>1. g.next[c] = a /\ p \in F /\ p < a /\ (\A x \in F : x =< p \/ a =< x)
      BY <1>1, <1>5, <1>6, <2>1
    <3>2. \A x \in a .. b : a =< x
      BY <1>1
    <3>3. a \in G /\ a # NULL
      BY <1>1 DEF G
    <3> QED BY <2>1, <3>1, <3>2, <3>3 DEF IsAfter, G
  <2>2. CASE c # p /\ c \in a .. b /\ c # b
    <3>1. g.next[c] = c + 1 /\ c + 1 \in a .. b /\ c \in Int /\ c > 0
      BY <1>1, <1>5, <1>9, <2>2
    <3>2. \A x \in G : x =< c \/ c + 1 =< x
      BY <1>1, <3>1
    <3> QED BY <1>1, <3>1, <3>2 DEF IsAfter, G
  <2>3. CASE c # p /\ c = b
    <3>1. g.next[c] = n
      BY <1>1, <1>5, <2>3 DEF n
    <3>2. CASE n = NULL
      BY <1>1, <1>7, <2>3, <3>1, <3>2 DEF IsAfter, G
    <3>3. CASE n # NULL
      BY <1>1, <1>7, <2>3, <3>1, <3>3 DEF IsAfter, G
    <3> QED BY <3>2, <3>3
  <2>4. CASE c # p /\ c \in F
    <3> DEFINE d == h.next[c]
    <3>1. g.next[c] = d /\ IsAfter(F, c, d) /\ c \in Int
      BY <1>1, <1>5, <2>4 DEF Listed
    <3>2. /\ d # NULL => d \in F /\ c < d /\ (\A x \in F : x =< c \/ d =< x)
          /\ d = NULL => \A x \in F : x =< c
      BY <3>1 DEF IsAfter
    <3> HIDE DEF d
    <3>3. CASE b < c
      <4>1. \A x \in a .. b : x =< c
        BY <1>1, <3>1, <3>3
      <4> QED BY <3>1, <3>2, <4>1 DEF IsAfter, G
    <3>4. CASE c < a
      <4>1. p # NULL /\ p \in F /\ p \in Int /\ c < p /\ p < a
        <5>1. p # NULL
          BY <1>1, <1>6, <2>4, <3>1, <3>4
        <5>2. p \in F /\ p < a /\ (c =< p \/ a =< c)
          BY <1>6, <2>4, <5>1
        <5>3. p \in Int
          BY <1>1, <5>2 DEF G
        <5> QED BY <1>1, <2>4, <3>1, <3>4, <5>1, <5>2, <5>3
      <4>2. d # NULL /\ d \in F /\ d =< p
        BY <3>1, <3>2, <4>1
      <4>3. \A x \in a .. b : d =< x
        BY <1>1, <4>1, <4>2 DEF G
      <4> QED BY <3>1, <3>2, <4>2, <4>3 DEF IsAfter, G
    <3> QED BY <1>8, <2>4, <3>3, <3>4
  <2> QED BY <2>1, <2>2, <2>3, <2>4 DEF G
<1>11. ASSUME NEW c \in G PROVE IsBefore(G, c, g.prev[c])
  <2>1. CASE c = n
    <3>1. g.prev[c] = b /\ n \in F /\ b < n /\ (\A x \in F : x =< b \/ n =< x)
      BY <1>1, <1>5, <1>7, <2>1
    <3>2. \A x \in a .. b : x =< b
      BY <1>1
    <3>3. b \in G /\ b # NULL
      BY <1>1 DEF G
    <3> QED BY <2>1, <3>1, <3>2, <3>3 DEF IsBefore, G
  <2>2. CASE c # n /\ c \in a .. b /\ c # a
    <3>1. g.prev[c] = c - 1 /\ c - 1 \in a .. b /\ c \in Int /\ c - 1 > 0
      BY <1>1, <1>5, <1>9, <2>2
    <3>2. \A x \in G : x =< c - 1 \/ c =< x
      BY <1>1, <3>1
    <3> QED BY <1>1, <3>1, <3>2 DEF IsBefore, G
  <2>3. CASE c # n /\ c = a
    <3>1. g.prev[c] = p
      BY <1>1, <1>5, <2>3 DEF p
    <3>2. CASE p = NULL
      BY <1>1, <1>6, <2>3, <3>1, <3>2 DEF IsBefore, G
    <3>3. CASE p # NULL
      BY <1>1, <1>6, <2>3, <3>1, <3>3 DEF IsBefore, G
    <3> QED BY <3>2, <3>3
  <2>4. CASE c # n /\ c \in F
    <3> DEFINE d == h.prev[c]
    <3>1. g.prev[c] = d /\ IsBefore(F, c, d) /\ c \in Int
      BY <1>1, <1>5, <2>4 DEF Listed
    <3>2. /\ d # NULL => d \in F /\ d < c /\ (\A x \in F : x =< d \/ c =< x)
          /\ d = NULL => \A x \in F : c =< x
      BY <3>1 DEF IsBefore
    <3> HIDE DEF d
    <3>3. CASE c < a
      <4>1. \A x \in a .. b : c =< x
        BY <1>1, <3>1, <3>3
      <4> QED BY <3>1, <3>2, <4>1 DEF IsBefore, G
    <3>4. CASE b < c
      <4>1. n # NULL /\ n \in F /\ n \in Int /\ n < c /\ b < n
        <5>1. n # NULL
          BY <1>1, <1>7, <2>4, <3>1, <3>4
        <5>2. n \in F /\ b < n /\ (c =< b \/ n =< c)
          BY <1>7, <2>4, <5>1
        <5>3. n \in Int
          BY <1>1, <5>2 DEF G
        <5> QED BY <1>1, <2>4, <3>1, <3>4, <5>1, <5>2, <5>3
      <4>2. d # NULL /\ d \in F /\ n =< d
        BY <3>1, <3>2, <4>1
      <4>3. \A x \in a .. b : x =< d
        BY <1>1, <4>1, <4>2 DEF G
      <4> QED BY <3>1, <3>2, <4>2, <4>3 DEF IsBefore, G
    <3> QED BY <1>8, <2>4, <3>3, <3>4
  <2> QED BY <2>1, <2>2, <2>3, <2>4 DEF G
<1>12. IsAfter(G, 0, g.first)
  <2>1. /\ h.first # NULL => h.first \in F /\ (\A x \in F : x =< 0 \/ h.first =< x)
        /\ h.first = NULL => \A x \in F : x =< 0
    BY DEF Listed, IsAfter
  <2>2. CASE p = NULL
    <3>1. g.first = a /\ a \in G /\ a > 0 /\ \A x \in G : a =< x
      BY <1>1, <1>3, <1>6, <2>2 DEF G
    <3> QED BY <1>1, <3>1 DEF IsAfter
  <2>3. CASE p # NULL
    <3>0. g.first = h.first /\ p \in F /\ p < a /\ p \in Int /\ p > 0
      BY <1>1, <1>3, <1>6, <2>3 DEF G
    <3>1. h.first # NULL /\ h.first \in F /\ h.first =< p
      BY <2>1, <3>0
    <3>2. h.first \in 1 .. Top
      BY <1>1, <3>1
    <3>3. \A x \in G : h.first =< x
      BY <1>1, <2>1, <3>0, <3>1, <3>2 DEF G
    <3>4. 0 < h.first
      BY <3>2
    <3> QED BY <3>0, <3>1, <3>3, <3>4 DEF IsAfter, G
  <2> QED BY <2>2, <2>3
<1>13. IsBefore(G, Top + 1, g.last)
  <2>1. /\ h.last # NULL => h.last \in F /\ (\A x \in F : x =< h.last \/ Top + 1 =< x)
        /\ h.last = NULL => \A x \in F : Top + 1 =< x
    BY DEF Listed, IsBefore
  <2>2. CASE n = NULL
    <3>1. g.last = b /\ b \in G /\ b < Top + 1 /\ b > 0 /\ \A x \in G : x =< b
      BY <1>1, <1>3, <1>7, <2>2 DEF G
    <3> QED BY <1>1, <3>1 DEF IsBefore
  <2>3. CASE n # NULL
    <3>0. n \in F /\ b < n /\ n \in Int /\ n =< Top /\ g.last = h.last
      BY <1>1, <1>3, <1>7, <2>3 DEF G
    <3>1. g.last = h.last /\ h.last # NULL /\ h.last \in F /\ n =< h.last
      BY <1>1, <2>1, <3>0
    <3>2. h.last \in Int /\ h.last < Top + 1
      <4>1. h.last \in 1 .. Top
        BY <1>1, <3>1
      <4> QED BY <1>1, <4>1
    <3>3. \A x \in G : x =< h.last
      BY <1>1, <2>1, <3>0, <3>1, <3>2 DEF G
    <3> QED BY <1>1, <3>1, <3>2, <3>3 DEF IsBefore, G
  <2> QED BY <2>2, <2>3
<1> QED BY <1>4, <1>10, <1>11, <1>12, <1>13 DEF Listed, G, g

\* Products of numbers are ordered as the numbers are.
LEMMA Products ==
    ASSUME NEW a \in Nat, NEW b \in Nat, NEW p \in Nat, a =< b
    PROVE  a * p \in Nat /\ b * p \in Nat /\ a * p =< b * p
<1>1. PICK d \in Nat : b = a + d
  BY b - a \in Nat
<1>2. b * p = a * p + d * p /\ d * p \in Nat /\ a * p \in Nat
  BY <1>1
<1> QED BY <1>2

\* the first k pages that vmm_map returns come in ascending order
Ascending(o, k) == \A i, j \in 1 .. k : i < j => o[i] < o[j]

Pages(o, k) == UNION {PageChunks(o[i]) : i \in 1 .. k}

\* The chunks of a page lie within the heap, and after those of lower pages.
LEMMA ChunksOfPages ==
    ASSUME NEW o \in PageOrders, NEW k \in 0 .. (NumPages - 1), Ascending(o, k + 1)
    PROVE  LET head == (o[k + 1] - 1) * PerPage + 1
               tail == head + PerPage - 1
           IN  /\ head \in Chunk /\ tail \in Chunk /\ head =< tail
               /\ PageChunks(o[k + 1]) = head .. tail
               /\ Pages(o, k) \subseteq Chunk
               /\ \A x \in Pages(o, k) : x < head
               /\ Pages(o, k + 1) = Pages(o, k) \cup (head .. tail)
<1> DEFINE q == o[k + 1]
           head == (q - 1) * PerPage + 1
           tail == head + PerPage - 1
<1>1. /\ PerPage \in Nat \ {0} /\ NumPages \in Nat \ {0} /\ Top \in Nat /\ Chunk = 1 .. Top
      /\ q \in 1 .. NumPages /\ q \in Nat /\ q - 1 \in Nat /\ q =< NumPages
      /\ \A i \in 1 .. k : i \in 1 .. NumPages /\ o[i] \in 1 .. NumPages /\ o[i] < q
  <2>1. k + 1 \in 1 .. NumPages /\ o \in [1 .. NumPages -> 1 .. NumPages]
        /\ NumPages \in Nat \ {0} /\ k \in Nat
    <3>1. NumPages \in Nat \ {0} /\ k \in Nat /\ k + 1 \in 1 .. NumPages
      BY HeapAssumption
    <3>2. o \in [1 .. NumPages -> 1 .. NumPages]
      BY DEF PageOrders
    <3> QED BY <3>1, <3>2
  <2>2. k + 1 \in 1 .. (k + 1)
        /\ \A i \in 1 .. k : i \in 1 .. NumPages /\ i \in 1 .. (k + 1) /\ i < k + 1
    BY <2>1
  <2> HIDE DEF q
  <2>3. q \in 1 .. NumPages
    BY <2>1 DEF q
  <2>4. \A i \in 1 .. k : o[i] < q
    BY <2>1, <2>2 DEF Ascending, q
  <2>5. \A i \in 1 .. k : i \in 1 .. NumPages /\ o[i] \in 1 .. NumPages
    BY <2>1, <2>2
  <2>6. q \in Nat /\ q - 1 \in Nat /\ q =< NumPages
    BY <2>1, <2>3
  <2>7. PerPage \in Nat \ {0} /\ Top \in Nat /\ Chunk = 1 .. Top
    BY HeapAssumption, ChunkNumbers
  <2> QED BY <2>1, <2>3, <2>4, <2>5, <2>6, <2>7
<1> HIDE DEF q
<1>2. /\ q * PerPage \in Nat /\ q * PerPage =< Top /\ (q - 1) * PerPage \in Nat
      /\ q * PerPage = (q - 1) * PerPage + PerPage
  <2>1. q * PerPage =< NumPages * PerPage /\ q * PerPage \in Nat /\ NumPages * PerPage \in Nat
    BY <1>1, Products
  <2>2. NumPages * PerPage = PerPage * NumPages
    BY <1>1
  <2>3. (q - 1) * PerPage \in Nat /\ q * PerPage = (q - 1) * PerPage + PerPage
    BY <1>1
  <2> QED BY <2>1, <2>2, <2>3 DEF Top
<1>3. tail = q * PerPage /\ head \in Chunk /\ tail \in Chunk /\ head =< tail
  BY <1>1, <1>2
<1>4. PageChunks(q) = head .. tail
  BY <1>3 DEF PageChunks
<1>5. ASSUME NEW i \in 1 .. k, NEW x \in PageChunks(o[i])
      PROVE  x \in Chunk /\ x < head
  <2>1. o[i] \in Nat /\ o[i] =< q - 1 /\ o[i] - 1 \in Nat
    BY <1>1
  <2>2. o[i] * PerPage =< (q - 1) * PerPage /\ o[i] * PerPage \in Nat
    BY <1>1, <2>1, Products
  <2>3. (o[i] - 1) * PerPage \in Nat
    BY <1>1, <2>1
  <2>4. x \in Int /\ x >= (o[i] - 1) * PerPage + 1 /\ x =< o[i] * PerPage
    BY <2>2, <2>3 DEF PageChunks
  <2> DEFINE low == (o[i] - 1) * PerPage
             high == o[i] * PerPage
             top == (q - 1) * PerPage
  <2>5. low \in Nat /\ high =< top /\ x >= low + 1 /\ x =< high /\ high \in Nat /\ top \in Nat
        /\ top =< Top /\ head = top + 1
    BY <1>1, <1>2, <2>2, <2>3, <2>4
  <2> HIDE DEF low, high, top, head
  <2> QED BY <1>1, <2>4, <2>5
<1>6. Pages(o, k) \subseteq Chunk /\ \A x \in Pages(o, k) : x < head
  BY <1>5 DEF Pages
<1>7. Pages(o, k + 1) = Pages(o, k) \cup (head .. tail)
  <2>1. 1 .. (k + 1) = (1 .. k) \cup {k + 1}
    BY <1>1
  <2>2. Pages(o, k + 1) = Pages(o, k) \cup PageChunks(q)
    BY <2>1 DEF Pages, q
  <2> QED BY <1>4, <2>2
<1> QED BY <1>3, <1>4, <1>6, <1>7 DEF q

\* __heap_extend appends the chunks of a new page, which lie above all others.
LEMMA ExtendListed ==
    ASSUME order \in PageOrders,
           NEW h \in Heaps, h.pages # NumPages, Ascending(order, h.pages + 1),
           NEW F \in SUBSET Pages(order, h.pages), Listed(h, F)
    PROVE  /\ Extend(h) \in Heaps /\ Extend(h).pages = h.pages + 1
           /\ Listed(Extend(h), F \cup PageChunks(order[h.pages + 1]))
<1> DEFINE k == h.pages
           head == (order[k + 1] - 1) * PerPage + 1
           tail == head + PerPage - 1
           N == head .. tail
           G == F \cup N
           g == Extend(h)
           l == h.last
<1>1. k \in 0 .. (NumPages - 1)
  <2>1. k \in 0 .. NumPages /\ k # NumPages
    BY DEF Heaps
  <2> HIDE DEF k
  <2> QED BY <2>1, ChunkNumbers
<1>2. /\ head \in Chunk /\ tail \in Chunk /\ head =< tail /\ PageChunks(order[k + 1]) = N
      /\ F \subseteq Chunk /\ \A x \in F : x < head
  <2> HIDE DEF k
  <2> QED BY <1>1, ChunksOfPages DEF k
<1>3. /\ Top \in Nat /\ Chunk = 1 .. Top /\ NULL = 0
      /\ N \subseteq Chunk /\ \A x \in G : x \in Int /\ x > 0 /\ x =< Top
  <2> HIDE DEF head, tail
  <2> QED BY <1>2, ChunkNumbers
<1>4. /\ g.next = [c \in Chunk |-> IF c = l THEN head
                                   ELSE IF c = tail THEN NULL
                                   ELSE IF c \in N THEN c + 1 ELSE h.next[c]]
      /\ g.prev = [c \in Chunk |-> IF c = head THEN l
                                   ELSE IF c \in N THEN c - 1 ELSE h.prev[c]]
      /\ g.first = IF h.first = NULL THEN head ELSE h.first
      /\ g.last = tail
      /\ g.pages = k + 1
  BY DEF Extend
<1>5. /\ l # NULL => l \in F /\ (\A x \in F : x =< l \/ Top + 1 =< x)
      /\ l = NULL => \A x \in F : Top + 1 =< x
      /\ h.first # NULL => h.first \in F /\ (\A x \in F : x =< 0 \/ h.first =< x)
      /\ h.first = NULL => \A x \in F : x =< 0
  BY DEF Listed, IsBefore, IsAfter
<1>6. /\ l \in Link /\ h.first \in Link /\ h.next \in [Chunk -> Link] /\ h.prev \in [Chunk -> Link]
      /\ \A c \in Chunk : c \in Link /\ NULL \in Link
  BY DEF Heaps, Link
<1>7. g = [next |-> g.next, prev |-> g.prev, first |-> g.first, last |-> g.last, pages |-> g.pages]
  BY DEF Extend
<1> HIDE DEF head, tail, k, g, l
<1>8. \A c \in Chunk : /\ c \in N /\ c # tail => c + 1 \in Link
                       /\ c \in N /\ c # head => c - 1 \in Link
  BY <1>2, <1>3 DEF Link
<1>9. g \in Heaps
  <2>1. g.next \in [Chunk -> Link]
    <3>1. \A c \in Chunk : g.next[c] \in Link
      BY <1>2, <1>4, <1>6, <1>8
    <3> QED BY <1>4, <3>1
  <2>2. g.prev \in [Chunk -> Link]
    <3>1. \A c \in Chunk : g.prev[c] \in Link
      BY <1>2, <1>4, <1>6, <1>8
    <3> QED BY <1>4, <3>1
  <2>3. g.first \in Link /\ g.last \in Link
    BY <1>2, <1>4, <1>6
  <2>4. g.pages \in 0 .. NumPages
    BY <1>1, <1>4, ChunkNumbers
  <2> QED BY <1>7, <2>1, <2>2, <2>3, <2>4 DEF Heaps
<1>10. l \notin N
  BY <1>2, <1>3, <1>5
<1>11. ASSUME NEW c \in G PROVE IsAfter(G, c, g.next[c])
  <2>1. CASE c \in N /\ c # tail
    <3>1. g.next[c] = c + 1 /\ c + 1 \in N /\ c \in Int /\ c > 0
      BY <1>2, <1>3, <1>4, <1>10, <2>1
    <3>2. \A x \in G : x =< c \/ c + 1 =< x
      BY <1>3, <3>1
    <3> QED BY <1>3, <3>1, <3>2 DEF IsAfter
  <2>2. CASE c = tail
    <3>1. g.next[c] = NULL
      BY <1>2, <1>3, <1>4, <1>10, <2>2
    <3>2. \A x \in G : x =< c
      BY <1>2, <1>3, <2>2
    <3> QED BY <3>1, <3>2 DEF IsAfter
  <2>3. CASE c \in F /\ c = l
    <3>1. g.next[c] = head /\ c < head
      BY <1>2, <1>4, <2>3
    <3>2. \A x \in G : x =< c \/ head =< x
      BY <1>2, <1>3, <1>5, <2>3
    <3>3. head \in G /\ head # NULL
      BY <1>2, <1>3
    <3> QED BY <3>1, <3>2, <3>3 DEF IsAfter
  <2>4. CASE c \in F /\ c # l
    <3>1. c \notin N /\ c \in Chunk /\ c # tail
      BY <1>2, <1>3, <2>4
    <3>2. g.next[c] = h.next[c]
      BY <1>4, <2>4, <3>1
    <3>3. IsAfter(F, c, h.next[c])
      BY <2>4 DEF Listed
    <3>4. h.next[c] # NULL
      <4>1. l # NULL /\ l \in F /\ c =< l
        BY <1>3, <1>5, <2>4
      <4>2. l \in Int /\ c \in Int /\ c < l
        BY <1>3, <2>4, <4>1
      <4> QED BY <3>3, <4>1, <4>2 DEF IsAfter
    <3>5. h.next[c] \in F /\ c < h.next[c] /\ (\A x \in F : x =< c \/ h.next[c] =< x)
      BY <3>3, <3>4 DEF IsAfter
    <3>6. \A x \in N : h.next[c] =< x
      <4>1. h.next[c] \in Int /\ h.next[c] < head /\ head \in Int /\ tail \in Int
        <5> DEFINE d == h.next[c]
        <5>1. d \in F
          BY <3>5
        <5> HIDE DEF d
        <5>2. d \in G /\ d \in Int /\ d < head
          BY <1>2, <1>3, <5>1
        <5>3. head \in Int /\ tail \in Int
          BY <1>2, <1>3
        <5> QED BY <5>2, <5>3 DEF d
      <4> QED BY <4>1
    <3> QED BY <3>2, <3>4, <3>5, <3>6 DEF IsAfter
  <2> QED BY <1>2, <2>1, <2>2, <2>3, <2>4
<1>12. ASSUME NEW c \in G PROVE IsBefore(G, c, g.prev[c])
  <2>1. CASE c \in N /\ c # head
    <3>1. g.prev[c] = c - 1 /\ c - 1 \in N /\ c \in Int
      BY <1>2, <1>3, <1>4, <2>1
    <3>2. \A x \in G : x =< c - 1 \/ c =< x
      BY <1>3, <3>1
    <3>3. c - 1 # NULL /\ c - 1 < c
      BY <1>3, <3>1
    <3> QED BY <3>1, <3>2, <3>3 DEF IsBefore
  <2>2. CASE c = head
    <3>1. g.prev[c] = l
      BY <1>2, <1>4, <2>2
    <3>2. \A x \in N : c =< x
      BY <1>2, <1>3, <2>2
    <3>3. CASE l = NULL
      <4>1. \A x \in F : c =< x
        BY <1>2, <1>3, <1>5, <3>3
      <4> QED BY <3>1, <3>2, <3>3, <4>1 DEF IsBefore
    <3>4. CASE l # NULL
      <4>1. l \in F /\ l < c /\ \A x \in F : x =< l
        <5>1. l \in F /\ (\A x \in F : x =< l \/ Top + 1 =< x) /\ \A x \in F : x \in Int /\ x =< Top
          BY <1>3, <1>5, <3>4
        <5>2. l < c
          BY <1>2, <2>2, <5>1
        <5> QED BY <1>3, <5>1, <5>2
      <4> QED BY <3>1, <3>2, <3>4, <4>1 DEF IsBefore
    <3> QED BY <3>3, <3>4
  <2>3. CASE c \in F
    <3>1. c \notin N /\ c \in Chunk /\ c # head
      BY <1>2, <1>3, <2>3
    <3>2. g.prev[c] = h.prev[c] /\ IsBefore(F, c, h.prev[c])
      BY <1>4, <2>3, <3>1 DEF Listed
    <3>3. \A x \in N : c =< x
      BY <1>2, <1>3, <2>3
    <3> QED BY <3>2, <3>3 DEF IsBefore
  <2> QED BY <1>2, <2>1, <2>2, <2>3
<1>13. IsAfter(G, 0, g.first)
  <2>1. CASE h.first = NULL
    <3>1. \A x \in G : head =< x
      BY <1>2, <1>3, <1>5, <2>1
    <3>2. head \in G /\ head # NULL /\ 0 < head
      BY <1>2, <1>3
    <3> QED BY <1>4, <2>1, <3>1, <3>2 DEF IsAfter
  <2>2. CASE h.first # NULL
    <3>1. h.first \in F /\ 0 < h.first /\ h.first < head
      BY <1>2, <1>3, <1>5, <2>2
    <3>2. \A x \in G : h.first =< x
      <4>1. h.first \in Int /\ \A x \in F : x =< 0 \/ h.first =< x
        BY <1>3, <1>5, <2>2, <3>1
      <4>2. \A x \in F : h.first =< x
        BY <1>3, <4>1
      <4>3. \A x \in N : h.first =< x
        BY <1>2, <1>3, <3>1, <4>1
      <4> QED BY <4>2, <4>3
    <3> QED BY <1>4, <2>2, <3>1, <3>2 DEF IsAfter
  <2> QED BY <2>1, <2>2
<1>14. IsBefore(G, Top + 1, g.last)
  <2>1. tail \in G /\ tail # NULL /\ tail < Top + 1 /\ \A x \in G : x =< tail
    BY <1>2, <1>3
  <2> QED BY <1>4, <2>1 DEF IsBefore
<1> QED BY <1>2, <1>4, <1>9, <1>11, <1>12, <1>13, <1>14 DEF Listed, g, k

\* __heap_chunk_next keeps the list of the free chunks, those outside of U; it has a chunk
\* after c, which is free, unless there is no page left.
LEMMA HasNextListed ==
    ASSUME order \in PageOrders,
           NEW h \in Heaps, NEW U \in SUBSET Pages(order, h.pages),
           Listed(h, Pages(order, h.pages) \ U),
           NEW c, c = NULL \/ c \in Pages(order, h.pages) \ U,
           NEW g, g = HasNext(h, c), Ascending(order, g.pages)
    PROVE  /\ g \in Heaps
           /\ Pages(order, h.pages) \subseteq Pages(order, g.pages)
           /\ Listed(g, Pages(order, g.pages) \ U)
           /\ ChunkNext(g, c) = NULL \/ ChunkNext(g, c) \in Pages(order, g.pages) \ U
<1> DEFINE F(k) == Pages(order, k) \ U
<1>1. ASSUME NEW f \in Heaps, Pages(order, h.pages) \subseteq Pages(order, f.pages),
             Listed(f, F(f.pages)), Ascending(order, Extend(f).pages)
      PROVE  /\ Extend(f) \in Heaps
             /\ Pages(order, h.pages) \subseteq Pages(order, Extend(f).pages)
             /\ Listed(Extend(f), F(Extend(f).pages))
  <2>1. CASE f.pages = NumPages
    BY <1>1, <2>1 DEF Extend
  <2>2. CASE f.pages # NumPages
    <3>1. f.pages \in 0 .. (NumPages - 1)
      <4>1. f.pages \in 0 .. NumPages
        BY DEF Heaps
      <4> QED BY <2>2, <4>1, ChunkNumbers
    <3>a. Extend(f).pages = f.pages + 1 /\ Ascending(order, f.pages + 1)
      BY <1>1, <2>2 DEF Extend
    <3>2. /\ Extend(f) \in Heaps /\ Extend(f).pages = f.pages + 1
          /\ Listed(Extend(f), F(f.pages) \cup PageChunks(order[f.pages + 1]))
      BY <1>1, <2>2, <3>a, ExtendListed
    <3> DEFINE P == PageChunks(order[f.pages + 1])
    <3>3. /\ Pages(order, f.pages + 1) = Pages(order, f.pages) \cup P
          /\ \A x \in P : x \in Int /\ \A y \in Pages(order, f.pages) : y < x
      <4> DEFINE head == (order[f.pages + 1] - 1) * PerPage + 1
                 tail == head + PerPage - 1
      <4>1. /\ head \in Chunk /\ tail \in Chunk /\ P = head .. tail
            /\ Pages(order, f.pages) \subseteq Chunk
            /\ \A x \in Pages(order, f.pages) : x < head
            /\ Pages(order, f.pages + 1) = Pages(order, f.pages) \cup P
        BY <3>1, <3>a, ChunksOfPages
      <4> HIDE DEF head, tail
      <4>2. Top \in Nat /\ Chunk = 1 .. Top
        BY ChunkNumbers
      <4>3. \A x \in P : x \in Int /\ \A y \in Pages(order, f.pages) : y < x
        BY <4>1, <4>2
      <4> QED BY <4>1, <4>3
    <3> HIDE DEF P
    <3>4. P \cap U = {}
      <4> SUFFICES ASSUME NEW x \in P, x \in U PROVE FALSE
        OBVIOUS
      <4>1. x < x /\ x \in Int
        BY <1>1, <3>3
      <4> QED BY <4>1
    <3>5. F(f.pages + 1) = F(f.pages) \cup P
      BY <3>3, <3>4
    <3> QED BY <1>1, <3>2, <3>3, <3>5 DEF P
  <2> QED BY <2>1, <2>2
<1> DEFINE f == IF h.first = NULL \/ h.last = NULL THEN Extend(h) ELSE h
<1>a. g = IF c # NULL /\ f.next[c] = NULL THEN Extend(f) ELSE f
  BY DEF HasNext
<1>b. /\ h.pages \in 0 .. NumPages /\ f.pages \in 0 .. NumPages /\ f.pages =< g.pages
      /\ g.pages \in 0 .. NumPages
  <2>1. NumPages \in Nat \ {0} /\ h.pages \in 0 .. NumPages
    BY HeapAssumption DEF Heaps
  <2>2. ASSUME NEW e, e.pages \in 0 .. NumPages
        PROVE  Extend(e).pages \in 0 .. NumPages /\ e.pages =< Extend(e).pages
    <3>1. Extend(e).pages = IF e.pages = NumPages THEN e.pages ELSE e.pages + 1
      BY DEF Extend
    <3> QED BY <2>1, <2>2, <3>1
  <2>3. f.pages \in 0 .. NumPages
    BY <2>1, <2>2
  <2> HIDE DEF f
  <2> QED BY <1>a, <2>1, <2>2, <2>3
<1>c. Ascending(order, f.pages)
  <2> HIDE DEF f
  <2>1. \A i \in 1 .. f.pages : i \in 1 .. g.pages
    BY <1>b
  <2> QED BY <2>1 DEF Ascending
<1>2. /\ f \in Heaps
      /\ Pages(order, h.pages) \subseteq Pages(order, f.pages)
      /\ Listed(f, F(f.pages))
  <2>1. CASE h.first = NULL \/ h.last = NULL
    <3>1. f = Extend(h) /\ Ascending(order, Extend(h).pages)
      BY <1>c, <2>1
    <3> QED BY <1>1, <3>1
  <2>2. CASE ~(h.first = NULL \/ h.last = NULL)
    BY <2>2
  <2> QED BY <2>1, <2>2
<1> HIDE DEF f
<1>3. g = IF c # NULL /\ f.next[c] = NULL THEN Extend(f) ELSE f
  BY <1>a
<1>4. /\ g \in Heaps /\ Pages(order, h.pages) \subseteq Pages(order, g.pages)
      /\ Listed(g, F(g.pages))
  <2>1. CASE c # NULL /\ f.next[c] = NULL
    BY <1>1, <1>2, <1>3, <2>1
  <2>2. CASE ~(c # NULL /\ f.next[c] = NULL)
    BY <1>2, <1>3, <2>2
  <2> QED BY <2>1, <2>2
<1>5. ChunkNext(g, c) = NULL \/ ChunkNext(g, c) \in F(g.pages)
  <2>1. CASE c = NULL
    BY <1>4, <2>1 DEF ChunkNext, Listed, IsAfter
  <2>2. CASE c # NULL
    <3>1. c \in F(g.pages)
      BY <1>4, <2>2
    <3> QED BY <1>4, <2>2, <3>1 DEF ChunkNext, Listed, IsAfter
  <2> QED BY <2>1, <2>2
<1> QED BY <1>4, <1>5
-----------------------------------------------------------------------------
(* Buffers.                                                                *)

Run(s, a) == a .. (a + s[a] - 1)
UsedBy(s) == UNION {Run(s, a) : a \in {c \in Chunk : s[c] > 0}}
Apart(s, M) ==
    \A a, b \in {c \in Chunk : s[c] > 0} :
        Run(s, a) \subseteq M /\ (a # b => Run(s, a) \cap Run(s, b) = {})

\* the sizes become t: the buffer a gets, or grows by, the free chunks N
Takes(s, t, a, N, M) ==
    /\ s \in [Chunk -> Nat] /\ t \in [Chunk -> Nat] /\ a \in Chunk /\ t[a] > 0
    /\ \A c \in Chunk : c # a => t[c] = s[c]
    /\ Run(t, a) = Run(s, a) \cup N
    /\ N \subseteq M \ UsedBy(s)

\* A buffer gets, or grows by, chunks that are free.
LEMMA UseChunks ==
    ASSUME NEW s, NEW t, NEW a, NEW N, NEW M, Apart(s, M), Takes(s, t, a, N, M)
    PROVE  Apart(t, M) /\ UsedBy(t) = UsedBy(s) \cup N
<1>0. /\ s \in [Chunk -> Nat] /\ t \in [Chunk -> Nat] /\ a \in Chunk /\ t[a] > 0
      /\ \A c \in Chunk : c # a => t[c] = s[c]
      /\ Run(t, a) = Run(s, a) \cup N
      /\ N \subseteq M \ UsedBy(s)
  BY DEF Takes
<1>1. \A c \in Chunk : c \in Int
  BY ChunkNumbers
<1>2. /\ \A c \in Chunk : c # a => Run(t, c) = Run(s, c) /\ t[c] = s[c]
      /\ t[a] > 0
  BY <1>0 DEF Run
<1>3. Run(t, a) = Run(s, a) \cup N
  BY <1>0
<1>4. s[a] = 0 => Run(s, a) = {}
  BY <1>0, <1>1 DEF Run
<1>5. \A c \in Chunk : s[c] > 0 => Run(s, c) \cap N = {} /\ Run(s, c) \subseteq M
  BY <1>0 DEF Apart, UsedBy
<1>6. N \subseteq M
  BY <1>0
<1>7. s[a] = 0 \/ s[a] > 0
  BY <1>0
<1>8. Run(t, a) \subseteq M
  BY <1>0, <1>3, <1>4, <1>5, <1>6, <1>7
<1>9. \A c \in Chunk : c # a /\ s[c] > 0 => Run(s, c) \cap Run(t, a) = {}
  <2> SUFFICES ASSUME NEW c \in Chunk, c # a, s[c] > 0 PROVE Run(s, c) \cap Run(t, a) = {}
    OBVIOUS
  <2>1. Run(s, c) \cap N = {}
    BY <1>5
  <2>2. Run(s, c) \cap Run(s, a) = {}
    BY <1>0, <1>4, <1>7 DEF Apart
  <2> QED BY <1>3, <2>1, <2>2
<1>10. Apart(t, M)
  <2> SUFFICES ASSUME NEW c \in Chunk, t[c] > 0, NEW d \in Chunk, t[d] > 0
               PROVE  Run(t, c) \subseteq M /\ (c # d => Run(t, c) \cap Run(t, d) = {})
    BY DEF Apart
  <2>1. CASE c = a
    BY <1>2, <1>8, <1>9, <2>1
  <2>2. CASE c # a /\ d = a
    BY <1>2, <1>5, <1>9, <2>2
  <2>3. CASE c # a /\ d # a
    BY <1>2, <1>5, <2>3 DEF Apart
  <2> QED BY <2>1, <2>2, <2>3
<1>11. \A x : x \in UsedBy(t) <=> x \in UsedBy(s) \/ x \in N
  <2>1. \A x : x \in UsedBy(t) <=> \E c \in Chunk : t[c] > 0 /\ x \in Run(t, c)
    BY DEF UsedBy
  <2>2. \A x : x \in UsedBy(s) <=> \E c \in Chunk : s[c] > 0 /\ x \in Run(s, c)
    BY DEF UsedBy
  <2> SUFFICES ASSUME NEW x PROVE x \in UsedBy(t) <=> x \in UsedBy(s) \/ x \in N
    OBVIOUS
  <2>3. ASSUME x \in UsedBy(t) PROVE x \in UsedBy(s) \/ x \in N
    BY <1>0, <1>2, <1>3, <1>4, <1>7, <2>1, <2>2, <2>3
  <2>4. ASSUME x \in UsedBy(s) PROVE x \in UsedBy(t)
    BY <1>0, <1>2, <1>3, <2>1, <2>2, <2>4
  <2>5. ASSUME x \in N PROVE x \in UsedBy(t)
    BY <1>0, <1>2, <1>3, <2>1, <2>5
  <2> QED BY <2>3, <2>4, <2>5
<1> QED BY <1>10, <1>11

\* A buffer is given back.
LEMMA ReleaseChunks ==
    ASSUME NEW s \in [Chunk -> Nat], NEW M, Apart(s, M), NEW a \in Chunk, s[a] > 0,
           NEW t, t = [s EXCEPT ![a] = 0]
    PROVE  /\ Apart(t, M) /\ UsedBy(t) = UsedBy(s) \ Run(s, a)
           /\ Run(s, a) \subseteq M
<1>1. \A c \in Chunk : c \in Int
  BY ChunkNumbers
<1>2. /\ \A c \in Chunk : c # a => Run(t, c) = Run(s, c) /\ t[c] = s[c]
      /\ t[a] = 0 /\ ~(0 > 0)
  BY <1>1 DEF Run
<1>3. \A c \in Chunk : t[c] > 0 => c # a
  BY <1>2
<1>4. Apart(t, M)
  BY <1>2, <1>3 DEF Apart
<1>5. \A x : x \in UsedBy(t) <=> x \in UsedBy(s) /\ x \notin Run(s, a)
  <2>1. \A x : x \in UsedBy(t) <=> \E c \in Chunk : t[c] > 0 /\ x \in Run(t, c)
    BY DEF UsedBy
  <2>2. \A x : x \in UsedBy(s) <=> \E c \in Chunk : s[c] > 0 /\ x \in Run(s, c)
    BY DEF UsedBy
  <2> SUFFICES ASSUME NEW x PROVE x \in UsedBy(t) <=> x \in UsedBy(s) /\ x \notin Run(s, a)
    OBVIOUS
  <2>3. ASSUME x \in UsedBy(t) PROVE x \in UsedBy(s) /\ x \notin Run(s, a)
    <3>1. PICK c \in Chunk : t[c] > 0 /\ x \in Run(t, c)
      BY <2>1, <2>3
    <3>2. c # a /\ s[c] > 0 /\ x \in Run(s, c)
      BY <1>2, <1>3, <3>1
    <3>3. Run(s, c) \cap Run(s, a) = {}
      BY <3>2 DEF Apart
    <3> QED BY <2>2, <3>2, <3>3
  <2>4. ASSUME x \in UsedBy(s), x \notin Run(s, a) PROVE x \in UsedBy(t)
    BY <1>2, <2>1, <2>2, <2>4
  <2> QED BY <2>3, <2>4
<1>6. Run(s, a) \subseteq M
  BY DEF Apart
<1> QED BY <1>4, <1>5, <1>6
-----------------------------------------------------------------------------
(* The loop of heap_free.                                                  *)

Below(F, c) == {x \in F : x < c}

\* One chunk more: with it, before and after are the neighbours of a .. b among the
\* chunks visited so far.
LEMMA VisitNeighbours ==
    ASSUME NEW F \in SUBSET Chunk, NEW c \in F, NEW q, IsBefore(F, c, q),
           NEW a \in Chunk, NEW b \in Chunk, a =< b, (a .. b) \cap F = {},
           NEW p, NEW n, IsBefore(Below(F, c), a, p), IsAfter(Below(F, c), b, n)
    PROVE  /\ IsBefore(Below(F, c) \cup {c}, a, Before(a, c, p))
           /\ IsAfter(Below(F, c) \cup {c}, b, After(Before(a, c, p), q, b, c, n))
<1> DEFINE V == Below(F, c)
           before == Before(a, c, p)
           after == After(before, q, b, c, n)
<1>0. /\ V = {x \in F : x < c} /\ before = (IF a > c THEN c ELSE p)
      /\ after = IF before = q /\ b < c THEN c ELSE n
  BY DEF Below, Before, After
<1> HIDE DEF V, before, after
<1> SUFFICES IsBefore(V \cup {c}, a, before) /\ IsAfter(V \cup {c}, b, after)
  BY DEF V, before, after
<1>1. /\ NULL = 0 /\ c \in Int /\ c > 0 /\ a \in Int /\ b \in Int
      /\ \A x \in F : x \in Int /\ x > 0 /\ (x < a \/ b < x)
  BY ChunkNumbers
<1>2. /\ p # NULL => p \in V /\ p < a /\ (\A x \in V : x =< p \/ a =< x)
      /\ p = NULL => \A x \in V : a =< x
  BY DEF IsBefore, V
<1>3. /\ n # NULL => n \in V /\ b < n /\ (\A x \in V : x =< b \/ n =< x)
      /\ n = NULL => \A x \in V : x =< b
  BY DEF IsAfter, V
<1>4. /\ q # NULL => q \in V /\ (\A x \in V : x =< q)
      /\ q = NULL => V = {}
  <2>1. /\ q # NULL => q \in F /\ q < c /\ (\A x \in F : x =< q \/ c =< x)
        /\ q = NULL => \A x \in F : c =< x
    BY DEF IsBefore
  <2>2. \A x \in V : x \in F /\ x \in Int /\ x < c /\ ~(c =< x)
    BY <1>0, <1>1
  <2>3. q # NULL => q \in V /\ (\A x \in V : x =< q)
    BY <1>0, <2>1, <2>2
  <2>4. q = NULL => V = {}
    BY <2>1, <2>2
  <2> QED BY <2>3, <2>4
<1>5. V \subseteq F /\ \A x \in V : x < c /\ x \in Int
  BY <1>0, <1>1
<1>6. CASE c < a
  <2>1. before = c /\ \A x \in V : x < a /\ x =< b /\ x =< c
    BY <1>0, <1>1, <1>5, <1>6
  <2>2. n = NULL
    <3> SUFFICES ASSUME n # NULL PROVE FALSE
      OBVIOUS
    <3>1. n \in V /\ b < n
      BY <1>3
    <3>2. n \in Int /\ n =< b
      BY <1>5, <2>1, <3>1
    <3> QED BY <1>1, <3>1, <3>2
  <2>3. after = n
    BY <1>0, <1>1, <1>6
  <2>4. IsBefore(V \cup {c}, a, before)
    BY <1>1, <1>6, <2>1 DEF IsBefore
  <2>5. IsAfter(V \cup {c}, b, after)
    BY <1>1, <1>6, <2>1, <2>2, <2>3 DEF IsAfter
  <2> QED BY <2>4, <2>5
<1>7. CASE b < c
  <2>1. before = p /\ a < c /\ c # NULL
    BY <1>0, <1>1, <1>7
  <2>2. IsBefore(V \cup {c}, a, before)
    BY <1>1, <1>2, <2>1 DEF IsBefore
  <2>3. CASE p = q
    <3>1. after = c
      BY <1>0, <1>7, <2>1, <2>3
    <3>2. \A x \in V : x =< b
      <4>1. CASE p = NULL
        BY <1>4, <2>3, <4>1
      <4>2. CASE p # NULL
        <5>1. p \in Int /\ p < a /\ \A x \in V : x \in Int /\ x =< p
          BY <1>2, <1>4, <1>5, <2>3, <4>2
        <5> QED BY <1>1, <5>1
      <4> QED BY <4>1, <4>2
    <3> QED BY <1>1, <1>7, <2>1, <2>2, <3>1, <3>2 DEF IsAfter
  <2>4. CASE p # q
    <3>1. after = n
      BY <1>0, <2>1, <2>4
    <3>2. n # NULL
      <4> SUFFICES ASSUME n = NULL PROVE FALSE
        OBVIOUS
      <4>1. \A x \in V : x < a
        BY <1>1, <1>3, <1>5
      <4>2. CASE V = {}
        BY <1>2, <1>4, <2>4, <4>2
      <4>3. CASE V # {}
        <5>0. PICK x \in V : x \in Int /\ x < a
          BY <1>5, <4>1, <4>3
        <5>1. q # NULL /\ q \in V /\ p # NULL /\ p \in V
          BY <1>1, <1>2, <1>4, <4>3, <5>0
        <5>2. p =< q /\ (q =< p \/ a =< q) /\ q < a /\ p \in Int /\ q \in Int
          BY <1>1, <1>2, <1>4, <1>5, <4>1, <5>1
        <5> QED BY <1>1, <2>4, <5>2
      <4> QED BY <4>2, <4>3
    <3>3. n \in V /\ b < n /\ (\A x \in V : x =< b \/ n =< x) /\ n =< c
      <4>1. n \in V /\ b < n /\ (\A x \in V : x =< b \/ n =< x)
        BY <1>3, <3>2
      <4>2. n \in Int /\ n < c
        BY <1>5, <4>1
      <4> QED BY <1>1, <4>1, <4>2
    <3> QED BY <2>2, <3>1, <3>2, <3>3 DEF IsAfter
  <2> QED BY <2>3, <2>4
<1> QED BY <1>1, <1>6, <1>7
-----------------------------------------------------------------------------
(* The steps.                                                              *)

\* Pages hold chunks.
LEMMA PagesAreChunks ==
    ASSUME NEW o \in PageOrders, NEW k \in 0 .. NumPages
    PROVE  Pages(o, k) \subseteq Chunk
<1> SUFFICES ASSUME NEW i \in 1 .. k, NEW x \in PageChunks(o[i]) PROVE x \in Chunk
  BY DEF Pages
<1> DEFINE q == o[i]
<1>1. PerPage \in Nat \ {0} /\ NumPages \in Nat \ {0} /\ Top \in Nat /\ Chunk = 1 .. Top
  BY HeapAssumption, ChunkNumbers
<1>2. q \in 1 .. NumPages
  <2>1. i \in 1 .. NumPages /\ o \in [1 .. NumPages -> 1 .. NumPages]
    BY <1>1 DEF PageOrders
  <2> QED BY <2>1
<1> HIDE DEF q
<1>3. q \in Nat /\ q - 1 \in Nat /\ q =< NumPages
  BY <1>1, <1>2
<1>4. q * PerPage =< NumPages * PerPage /\ (q - 1) * PerPage \in Nat /\ q * PerPage \in Nat
  BY <1>1, <1>3, Products
<1>5. NumPages * PerPage = Top
  BY <1>1 DEF Top
<1> DEFINE low == (q - 1) * PerPage
           high == q * PerPage
<1>6. low \in Nat /\ high \in Nat /\ high =< Top /\ x \in (low + 1) .. high
  BY <1>4, <1>5 DEF PageChunks, q
<1> HIDE DEF low, high
<1> QED BY <1>1, <1>6

\* The invariant in terms of the list, the pages and the sizes.
LEMMA Shapes ==
    /\ Mapped = Pages(order, heap.pages) /\ Used = UsedBy(size)
    /\ FreeChunks = Pages(order, heap.pages) \ UsedBy(size)
    /\ Disjoint <=> Apart(size, Pages(order, heap.pages))
    /\ Listing <=> Listed(heap, FreeChunks)
    /\ Mapped' = Pages(order', heap'.pages) /\ Used' = UsedBy(size')
    /\ FreeChunks' = Pages(order', heap'.pages) \ UsedBy(size')
    /\ Disjoint' <=> Apart(size', Pages(order', heap'.pages))
    /\ Listing' <=> Listed(heap', FreeChunks')
<1>1. /\ Mapped = Pages(order, heap.pages) /\ Used = UsedBy(size)
      /\ Mapped' = Pages(order', heap'.pages) /\ Used' = UsedBy(size')
  BY DEF Mapped, Used, UsedBy, Run, Buffer, Pages
<1>2. /\ FreeChunks = Pages(order, heap.pages) \ UsedBy(size)
      /\ FreeChunks' = Pages(order', heap'.pages) \ UsedBy(size')
  BY <1>1 DEF FreeChunks
<1>3. /\ Disjoint <=> Apart(size, Pages(order, heap.pages))
      /\ Disjoint' <=> Apart(size', Pages(order', heap'.pages))
  BY <1>1 DEF Disjoint, Apart, Run, Buffer
<1>4. /\ Listing <=> Listed(heap, FreeChunks)
      /\ Listing' <=> Listed(heap', FreeChunks')
  BY DEF Listing, Listed, Top
<1> QED BY <1>1, <1>2, <1>3, <1>4

\* The invariant says this of the chunks.
LEMMA Facts ==
    ASSUME IInv
    PROVE  /\ FreeChunks \subseteq Chunk
           /\ size \in [Chunk -> Nat] /\ UsedBy(size) \subseteq Pages(order, heap.pages)
           /\ \A a \in Chunk : size[a] > 0 => /\ LastOf(a) \in Chunk /\ a =< LastOf(a)
                                              /\ (a .. LastOf(a)) \cap FreeChunks = {}
                                              /\ a .. LastOf(a) = Run(size, a)
           /\ \A a \in FreeChunks : size[a] = 0
<1>1. /\ heap.pages \in 0 .. NumPages /\ order \in PageOrders
      /\ size \in [Chunk -> 0 .. MaxSize] /\ Apart(size, Pages(order, heap.pages))
  BY Shapes DEF IInv, Types, Heaps
<1>2. Pages(order, heap.pages) \subseteq Chunk
  BY <1>1, PagesAreChunks
<1>3. size \in [Chunk -> Nat] /\ \A a \in Chunk : a \in Int /\ size[a] \in Nat
  BY <1>1, ChunkNumbers
<1>4. \A a \in Chunk : size[a] > 0 => /\ Run(size, a) \subseteq Pages(order, heap.pages)
                                      /\ Run(size, a) \subseteq UsedBy(size)
                                      /\ a \in Run(size, a) /\ LastOf(a) \in Run(size, a)
                                      /\ a =< LastOf(a) /\ a .. LastOf(a) = Run(size, a)
  <2>1. \A a \in Chunk : size[a] > 0 => /\ a \in Run(size, a) /\ LastOf(a) \in Run(size, a)
                                        /\ a =< LastOf(a) /\ a .. LastOf(a) = Run(size, a)
    BY <1>3 DEF Run, LastOf
  <2>2. \A a \in Chunk : size[a] > 0 => /\ Run(size, a) \subseteq Pages(order, heap.pages)
                                        /\ Run(size, a) \subseteq UsedBy(size)
    BY <1>1 DEF Apart, UsedBy
  <2> QED BY <2>1, <2>2
<1>5. UsedBy(size) \subseteq Pages(order, heap.pages)
  BY <1>1 DEF Apart, UsedBy
<1>6. FreeChunks \subseteq Chunk
  BY <1>2, Shapes
<1>7. \A a \in Chunk : size[a] > 0 => /\ LastOf(a) \in Chunk /\ a =< LastOf(a)
                                      /\ (a .. LastOf(a)) \cap FreeChunks = {}
                                      /\ a .. LastOf(a) = Run(size, a)
  BY <1>2, <1>4, Shapes
<1>8. ASSUME NEW a \in FreeChunks PROVE size[a] = 0
  <2>1. a \in Chunk /\ a \notin UsedBy(size)
    BY <1>6, Shapes
  <2>2. ~(size[a] > 0)
    BY <1>4, <2>1
  <2> QED BY <1>3, <2>1, <2>2
<1> QED BY <1>3, <1>5, <1>6, <1>7, <1>8

\* heap_alloc starts at the first free chunk.
LEMMA BeginAllocKeeps ==
    ASSUME IInv, PagesAscend', NEW n \in 1 .. MaxSize, NEW buffer \in Link,
           buffer # NULL => size[buffer] > 0, BeginAlloc(n, buffer)
    PROVE  IInv'
<1>1. /\ heap \in Heaps /\ size \in [Chunk -> 0 .. MaxSize] /\ order \in PageOrders
      /\ MaxSize \in Nat \ {0} /\ NULL \in Link
  BY ChunkNumbers DEF IInv, Types, Link
<1>2. /\ Listed(heap, Pages(order, heap.pages) \ UsedBy(size))
      /\ Apart(size, Pages(order, heap.pages))
      /\ UsedBy(size) \subseteq Pages(order, heap.pages)
  BY Shapes, Facts DEF IInv
<1>3. /\ pc' = "alloc" /\ heap' = HasNext(heap, NULL) /\ cur' = ChunkNext(heap', NULL)
      /\ start' = NULL /\ end' = NULL /\ from' = NULL
      /\ count' = 0 /\ want' = n /\ old' = buffer /\ size' = size /\ order' = order
  BY DEF BeginAlloc
<1>4. /\ heap' \in Heaps
      /\ Pages(order, heap.pages) \subseteq Pages(order, heap'.pages)
      /\ Listed(heap', Pages(order, heap'.pages) \ UsedBy(size))
      /\ cur' = NULL \/ cur' \in Pages(order, heap'.pages) \ UsedBy(size)
  BY <1>1, <1>2, <1>3, HasNextListed DEF PagesAscend, Ascending
<1>5. Disjoint'
  BY <1>2, <1>3, <1>4, Shapes DEF Apart
<1>6. Listing' /\ CurIsFree'
  BY <1>3, <1>4, Shapes DEF CurIsFree
<1>7. Types'
  <2>1. cur' \in Link
    BY <1>3, <1>4 DEF Heaps, ChunkNext
  <2> QED BY <1>1, <1>3, <1>4, <2>1 DEF Types
<1>8. RunIsFree'
  BY <1>1, <1>3 DEF RunIsFree
<1>9. GrownByOne' /\ NeighboursFound'
  BY <1>3 DEF GrownByOne, NeighboursFound
<1> QED BY <1>5, <1>6, <1>7, <1>8, <1>9 DEF IInv

\* heap_free starts with a list of the free chunks, and has visited none.
LEMMA BeginFreeKeeps ==
    ASSUME IInv, NEW h \in Heaps, h.pages = heap.pages, order' = order,
           size' \in [Chunk -> 0 .. MaxSize], Apart(size', Pages(order, h.pages)),
           UsedBy(size) \subseteq UsedBy(size'),
           Listed(h, Pages(order, h.pages) \ UsedBy(size')),
           NEW a \in Chunk, size[a] > 0, size'[a] = size[a], BeginFree(h, a)
    PROVE  IInv'
<1> DEFINE F == Pages(order, h.pages) \ UsedBy(size')
           b == LastOf(a)
<1>1. /\ pc' = "free" /\ heap' = Chain(h, a, b) /\ cur' = h.first
      /\ start' = a /\ end' = b /\ from' = NULL /\ count' = 0 /\ want' = 0 /\ old' = NULL
  BY DEF BeginFree
<1>2. b \in Chunk /\ a =< b /\ (a .. b) \cap FreeChunks = {} /\ FreeChunks \subseteq Chunk
  BY Facts
<1>3. F \subseteq FreeChunks
  BY Shapes
<1>4. F \subseteq Chunk /\ (a .. b) \cap F = {}
  BY <1>2, <1>3
<1>5. order \in PageOrders /\ MaxSize \in Nat \ {0} /\ NULL \in Link /\ a \in Link /\ b \in Link
  BY <1>2, ChunkNumbers DEF IInv, Types, Link
<1> HIDE DEF b, F
<1>6. /\ heap' \in Heaps /\ Listed(heap', F) /\ heap'.first = h.first /\ heap'.pages = h.pages
      /\ heap'.prev[a] = NULL /\ heap'.next[b] = NULL
      /\ Linked(heap', a, b)
  <2>1. Listed(h, F)
    BY DEF F
  <2> QED BY <1>1, <1>2, <1>4, <2>1, ChainListed
<1>7. FreeChunks' = F
  BY <1>6, Shapes DEF F
<1>8. Disjoint' /\ Listing'
  BY <1>6, <1>7, Shapes
<1>9. cur' \in Link /\ CurIsFree' /\ \A x \in F : cur' # NULL /\ ~(x < cur')
  <2>1. IsAfter(F, 0, cur')
    BY <1>1, <1>6 DEF Listed
  <2>2. cur' \in Link
    BY <1>1 DEF Heaps
  <2>3. CurIsFree'
    BY <1>7, <2>1 DEF CurIsFree, IsAfter
  <2>4. ASSUME NEW x \in F PROVE cur' # NULL /\ ~(x < cur')
    <3>1. x \in Int /\ x > 0 /\ NULL = 0
      BY <1>4, ChunkNumbers
    <3>2. cur' # NULL
      BY <2>1, <3>1 DEF IsAfter
    <3>3. cur' \in Chunk /\ (x =< 0 \/ cur' =< x)
      BY <1>4, <2>1, <3>2 DEF IsAfter
    <3>4. cur' \in Int
      BY <3>3, ChunkNumbers
    <3> QED BY <3>1, <3>2, <3>3, <3>4
  <2> QED BY <2>2, <2>3, <2>4
<1>10. Types'
  BY <1>1, <1>5, <1>6, <1>9 DEF Types
<1>11. NeighboursFound'
  <2>1. Visited' = {}
    BY <1>7, <1>9 DEF Visited
  <2>2. end' = LastOf(start)'
    BY <1>1 DEF LastOf, b
  <2>3. IsBefore({}, start', heap'.prev[start']) /\ IsAfter({}, end', heap'.next[end'])
    BY <1>1, <1>6 DEF IsBefore, IsAfter
  <2>4. start' \in Chunk /\ size'[start'] > 0
    BY <1>1
  <2>5. Linked(heap', start', end')
    BY <1>1, <1>6
  <2> QED BY <2>1, <2>2, <2>3, <2>4, <2>5 DEF NeighboursFound
<1>12. RunIsFree' /\ GrownByOne'
  BY <1>1 DEF RunIsFree, GrownByOne
<1> QED BY <1>8, <1>9, <1>10, <1>11, <1>12 DEF IInv

\* A call that returns leaves the list and the buffers as they have to be.
LEMMA ReturnKeeps ==
    ASSUME heap' \in Heaps, size' \in [Chunk -> 0 .. MaxSize], order' \in PageOrders,
           Disjoint', Listing', Return
    PROVE  IInv'
<1>1. /\ pc' = "idle" /\ cur' = NULL /\ start' = NULL /\ end' = NULL /\ from' = NULL
      /\ count' = 0 /\ want' = 0 /\ old' = NULL
  BY DEF Return
<1>2. Types'
  BY <1>1, ChunkNumbers DEF Types, Link
<1>3. CurIsFree' /\ RunIsFree' /\ GrownByOne' /\ NeighboursFound'
  BY <1>1 DEF CurIsFree, RunIsFree, GrownByOne, NeighboursFound
<1> QED BY <1>2, <1>3 DEF IInv

\* Scan looks at a free chunk, which may start a run or continue it.
LEMMA ScanKeeps == ASSUME IInv, PagesAscend', Scan PROVE IInv'
<1>1. /\ heap \in Heaps /\ size \in [Chunk -> 0 .. MaxSize] /\ order \in PageOrders
      /\ MaxSize \in Nat \ {0} /\ NULL = 0 /\ NULL \in Link
      /\ cur \in Link /\ start \in Link /\ from \in Link /\ old \in Link /\ from = NULL
      /\ count \in 0 .. MaxSize /\ want \in 0 .. MaxSize
  BY ChunkNumbers DEF IInv, Types, Link, Scan, GrownByOne
<1>2. /\ Listed(heap, Pages(order, heap.pages) \ UsedBy(size))
      /\ Apart(size, Pages(order, heap.pages))
      /\ UsedBy(size) \subseteq Pages(order, heap.pages)
      /\ FreeChunks = Pages(order, heap.pages) \ UsedBy(size)
      /\ FreeChunks \subseteq Chunk
  BY Shapes, Facts DEF IInv
<1>3. /\ pc = "alloc" /\ pc' = "alloc" /\ cur # NULL /\ count < want
      /\ end' = cur /\ heap' = HasNext(heap, cur) /\ cur' = ChunkNext(heap', cur)
      /\ size' = size /\ order' = order /\ from' = from /\ want' = want /\ old' = old
      /\ \/ start = NULL /\ start' = cur /\ count' = count + 1
         \/ start # NULL /\ start' = NULL /\ count' = 0
         \/ start # NULL /\ end + 1 = cur /\ count' = count + 1 /\ start' = start
  BY DEF Scan, Contiguous
<1>4. cur \in FreeChunks
  BY <1>3 DEF IInv, CurIsFree
<1>5. /\ heap' \in Heaps
      /\ Pages(order, heap.pages) \subseteq Pages(order, heap'.pages)
      /\ Listed(heap', Pages(order, heap'.pages) \ UsedBy(size))
      /\ cur' = NULL \/ cur' \in Pages(order, heap'.pages) \ UsedBy(size)
  BY <1>1, <1>2, <1>3, <1>4, HasNextListed DEF PagesAscend, Ascending
<1>6. Disjoint'
  BY <1>2, <1>3, <1>5, Shapes DEF Apart
<1>7. Listing' /\ CurIsFree' /\ FreeChunks \subseteq FreeChunks'
  BY <1>2, <1>3, <1>5, Shapes DEF CurIsFree
<1>8. count' \in 0 .. MaxSize /\ count' =< want
  BY <1>1, <1>3
<1>9. Types'
  <2>1. cur' \in Link
    BY <1>2, <1>3, <1>4, <1>5 DEF Heaps, ChunkNext
  <2>2. start' \in Link /\ end' \in Link
    BY <1>1, <1>3
  <2> QED BY <1>1, <1>3, <1>5, <1>8, <2>1, <2>2 DEF Types
<1>10. RunIsFree'
  <2>1. /\ 1 =< want /\ (start = NULL => count = 0) /\ (old # NULL => size[old] > 0)
        /\ start # NULL => /\ end \in Chunk /\ start =< end /\ count = end - start + 1
                           /\ start .. end \subseteq FreeChunks
    BY <1>3 DEF IInv, RunIsFree
  <2>2. cur \in Int /\ cur \in Chunk
    BY <1>2, <1>4, ChunkNumbers
  <2>3. CASE start = NULL /\ start' = cur /\ count' = count + 1
    <3>1. count' = 1 /\ end' = start' /\ end' \in Chunk
      BY <1>3, <2>1, <2>2, <2>3
    <3>2. start' .. end' \subseteq FreeChunks'
      BY <1>4, <1>7, <2>2, <2>3, <3>1
    <3>3. start' =< end' /\ count' = end' - start' + 1
      BY <2>2, <2>3, <3>1
    <3> QED BY <1>1, <1>3, <1>8, <2>1, <2>2, <2>3, <3>1, <3>2, <3>3 DEF RunIsFree
  <2>4. CASE start # NULL /\ start' = NULL /\ count' = 0
    BY <1>1, <1>3, <2>1, <2>4 DEF RunIsFree
  <2>5. CASE start # NULL /\ end + 1 = cur /\ count' = count + 1 /\ start' = start
    <3>1. start \in Int /\ end \in Int
      BY <1>1, <2>1, <2>5, ChunkNumbers DEF Link
    <3>2. end' \in Chunk /\ start' =< end' /\ count' = end' - start' + 1
      BY <1>1, <1>3, <2>1, <2>2, <2>5, <3>1
    <3>3. start' .. end' \subseteq FreeChunks'
      <4>1. start' .. end' = (start .. end) \cup {cur}
        BY <1>3, <2>1, <2>2, <2>5, <3>1
      <4> QED BY <1>4, <1>7, <2>1, <2>5, <4>1
    <3> QED BY <1>3, <1>8, <2>1, <2>5, <3>2, <3>3 DEF RunIsFree
  <2> QED BY <1>3, <2>3, <2>4, <2>5
<1>11. GrownByOne' /\ NeighboursFound'
  BY <1>1, <1>3 DEF GrownByOne, NeighboursFound
<1> QED BY <1>6, <1>7, <1>9, <1>10, <1>11 DEF IInv

\* AllocDone takes the run out of the list and hands it out as a buffer.
LEMMA AllocDoneKeeps == ASSUME IInv, AllocDone PROVE IInv'
<1> DEFINE F == FreeChunks
           M == Pages(order, heap.pages)
           h == Cut(heap, start, end)
<1>1. /\ heap \in Heaps /\ size \in [Chunk -> 0 .. MaxSize] /\ order \in PageOrders
      /\ MaxSize \in Nat \ {0} /\ NULL = 0
      /\ start \in Link /\ old \in Link /\ count \in 0 .. MaxSize /\ want \in 0 .. MaxSize
  BY ChunkNumbers DEF IInv, Types
<1>2. /\ Listed(heap, F) /\ Apart(size, M) /\ F = M \ UsedBy(size)
      /\ F \subseteq Chunk /\ size \in [Chunk -> Nat] /\ \A a \in F : size[a] = 0
  BY Shapes, Facts DEF IInv
<1>3. /\ pc = "alloc" /\ count >= want /\ order' = order
      /\ size' = [size EXCEPT ![start] = count]
      /\ \/ old = NULL /\ heap' = h /\ Return
         \/ old # NULL /\ BeginFree(h, old)
  BY DEF AllocDone
<1>4. /\ start # NULL /\ end \in Chunk /\ start =< end /\ count = end - start + 1 /\ count > 0
      /\ start .. end \subseteq F /\ (old # NULL => size[old] > 0)
  <2>1. 1 =< want /\ (start = NULL => count = 0)
    BY <1>3 DEF IInv, RunIsFree
  <2>2. start # NULL /\ count > 0
    BY <1>1, <1>3, <2>1
  <2> QED BY <1>3, <2>2 DEF IInv, RunIsFree
<1>5. start \in Chunk /\ start \in Int /\ end \in Int /\ start \in F /\ end \in F
  <2>1. start \in Chunk
    BY <1>1, <1>4 DEF Link
  <2>2. start \in Int /\ end \in Int
    BY <1>4, <2>1, ChunkNumbers
  <2> QED BY <1>4, <2>1, <2>2
<1>6. size[start] = 0 /\ start + size[start] = start /\ start + count - 1 = end
  BY <1>1, <1>2, <1>4, <1>5
<1>7. Apart(size', M) /\ UsedBy(size') = UsedBy(size) \cup (start .. end)
  <2> DEFINE N == start .. end
  <2>0. size \in [Chunk -> Nat] /\ count \in Nat /\ size' = [size EXCEPT ![start] = count]
    BY <1>1, <1>2, <1>3
  <2>1. N \subseteq M \ UsedBy(size) /\ size' \in [Chunk -> Nat]
    <3>1. N \subseteq M \ UsedBy(size)
      BY <1>2, <1>4
    <3> QED BY <2>0, <3>1
  <2>2. size'[start] > 0 /\ \A c \in Chunk : c # start => size'[c] = size[c]
    BY <1>1, <1>3, <1>4, <1>5
  <2>3. Run(size', start) = Run(size, start) \cup N
    <3>1. size'[start] = count /\ Run(size, start) = {}
      BY <1>1, <1>3, <1>5, <1>6 DEF Run
    <3> QED BY <1>6, <3>1 DEF Run
  <2> HIDE DEF F, M, h, N
  <2>4. Apart(size', M) /\ UsedBy(size') = UsedBy(size) \cup N
    <3>1. Takes(size, size', start, N, M)
      BY <1>2, <1>5, <2>1, <2>2, <2>3 DEF Takes
    <3> QED BY <1>2, <3>1, UseChunks
  <2> QED BY <2>4 DEF N
<1>8. size' \in [Chunk -> 0 .. MaxSize]
  BY <1>1, <1>3
<1>9. h \in Heaps /\ Listed(h, F \ (start .. end)) /\ h.pages = heap.pages
  <2>1. h \in Heaps /\ Listed(h, F \ (start .. end))
    BY <1>1, <1>2, <1>4, <1>5, CutListed
  <2>2. h.pages = heap.pages
    BY DEF Cut
  <2> QED BY <2>1, <2>2
<1>10. M \ UsedBy(size') = F \ (start .. end)
  BY <1>2, <1>7
<1> HIDE DEF F, M, h
<1>11. CASE old = NULL /\ heap' = h /\ Return
  <2>1. Disjoint' /\ Listing'
    BY <1>3, <1>7, <1>9, <1>10, <1>11, Shapes DEF M
  <2> QED BY <1>1, <1>3, <1>8, <1>9, <1>11, <2>1, ReturnKeeps
<1>12. CASE old # NULL /\ BeginFree(h, old)
  <2>1. old \in Chunk /\ size[old] > 0 /\ old # start
    BY <1>1, <1>4, <1>6, <1>12 DEF Link
  <2>2. size'[old] = size[old] /\ UsedBy(size) \subseteq UsedBy(size')
    BY <1>1, <1>3, <1>7, <2>1
  <2>3. Apart(size', Pages(order, h.pages)) /\ Listed(h, Pages(order, h.pages) \ UsedBy(size'))
    BY <1>7, <1>9, <1>10 DEF M
  <2> QED BY <1>3, <1>8, <1>9, <1>12, <2>1, <2>2, <2>3, BeginFreeKeeps
<1> QED BY <1>3, <1>11, <1>12

\* heap_realloc starts at the first free chunk.
LEMMA HeapReallocKeeps ==
    ASSUME IInv, Growths \subseteq {1},
           NEW a \in Chunk, NEW grow \in Growths, HeapRealloc(a, grow)
    PROVE  IInv'
<1>1. /\ heap \in Heaps /\ size \in [Chunk -> 0 .. MaxSize] /\ order \in PageOrders
      /\ from \in Link /\ old \in Link /\ MaxSize \in Nat \ {0} /\ grow = 1
  BY ChunkNumbers DEF IInv, Types
<1>2. /\ pc = "idle" /\ size[a] > 0 /\ size[a] + grow =< MaxSize
      /\ pc' = "realloc" /\ cur' = heap.first /\ start' = a /\ end' = LastOf(a)
      /\ count' = size[a] /\ want' = size[a] + grow
      /\ heap' = heap /\ size' = size /\ order' = order /\ from' = from /\ old' = old
  BY DEF HeapRealloc
<1>3. Listed(heap, FreeChunks) /\ LastOf(a) \in Chunk
  BY <1>2, Facts, Shapes DEF IInv
<1>4. FreeChunks' = FreeChunks /\ LastOf(a)' = LastOf(a)
  BY <1>2, Shapes DEF LastOf
<1>5. Disjoint' /\ Listing'
  BY <1>2, Shapes DEF IInv
<1>6. cur' \in Link /\ CurIsFree'
  BY <1>1, <1>2, <1>3, <1>4 DEF CurIsFree, Listed, IsAfter, Heaps
<1>7. Types'
  <2>1. count' \in 0 .. MaxSize /\ want' \in 0 .. MaxSize
    BY <1>1, <1>2
  <2>2. start' \in Link /\ end' \in Link
    BY <1>2, <1>3 DEF Link
  <2> QED BY <1>1, <1>2, <1>6, <2>1, <2>2 DEF Types
<1>8. GrownByOne'
  <2>1. from = NULL
    BY <1>2 DEF IInv, GrownByOne
  <2>2. end' = LastOf(start)'
    BY <1>2, <1>4 DEF LastOf
  <2>3. start' \in Chunk /\ size'[start'] > 0 /\ want' = size'[start'] + 1 /\ count' = size'[start']
    BY <1>1, <1>2
  <2> QED BY <1>2, <2>1, <2>2, <2>3 DEF GrownByOne
<1>9. RunIsFree' /\ NeighboursFound'
  BY <1>2 DEF RunIsFree, NeighboursFound
<1> QED BY <1>5, <1>6, <1>7, <1>8, <1>9 DEF IInv

\* The loop of heap_realloc stops with the chunk after the buffer, if it is free.
LEMMA GrowKeeps == ASSUME IInv, Grow PROVE IInv'
<1>1. /\ heap \in Heaps /\ size \in [Chunk -> 0 .. MaxSize] /\ order \in PageOrders
      /\ cur \in Link /\ start \in Link /\ end \in Link /\ from \in Link /\ old \in Link
      /\ count \in 0 .. MaxSize /\ want \in 0 .. MaxSize /\ MaxSize \in Nat \ {0}
  BY ChunkNumbers DEF IInv, Types
<1>2. /\ pc = "realloc" /\ pc' = "realloc" /\ cur # NULL /\ count < want
      /\ cur' = heap.next[cur] /\ heap' = heap /\ size' = size /\ order' = order
      /\ start' = start /\ want' = want /\ old' = old
      /\ \/ /\ end + 1 = cur /\ end' = cur /\ count' = count + 1
            /\ from' = IF from = NULL THEN cur ELSE from
         \/ end' = end /\ count' = count /\ from' = from
  BY DEF Grow, Contiguous
<1>3. cur \in FreeChunks /\ cur \in Chunk /\ Listed(heap, FreeChunks)
  BY <1>2, Facts, Shapes DEF IInv, CurIsFree
<1>4. FreeChunks' = FreeChunks /\ LastOf(start)' = LastOf(start)
  BY <1>2, Shapes DEF LastOf
<1>5. /\ start \in Chunk /\ size[start] > 0 /\ want = size[start] + 1
      /\ from = NULL /\ count = size[start] /\ end = LastOf(start)
  <2>1. /\ start \in Chunk /\ size[start] > 0 /\ want = size[start] + 1
        /\ \/ from = NULL /\ count = size[start] /\ end = LastOf(start)
           \/ count = want
    BY <1>2 DEF IInv, GrownByOne
  <2>2. count # want
    BY <1>1, <1>2
  <2> QED BY <2>1, <2>2
<1>6. Disjoint' /\ Listing'
  BY <1>2, Shapes DEF IInv
<1>7. cur' \in Link /\ CurIsFree'
  BY <1>1, <1>2, <1>3, <1>4 DEF CurIsFree, Listed, IsAfter, Heaps
<1>8. Types'
  <2>1. count' \in 0 .. MaxSize /\ end' \in Link /\ from' \in Link
    BY <1>1, <1>2
  <2> QED BY <1>1, <1>2, <1>7, <2>1 DEF Types
<1>9. GrownByOne'
  <2>1. CASE end' = end /\ count' = count /\ from' = from
    BY <1>2, <1>4, <1>5, <2>1 DEF GrownByOne
  <2>2. CASE /\ end + 1 = cur /\ end' = cur /\ count' = count + 1
             /\ from' = IF from = NULL THEN cur ELSE from
    <3>1. from' = end' /\ end' = LastOf(start)' + 1 /\ end' \in FreeChunks' /\ count' = want'
      BY <1>2, <1>3, <1>4, <1>5, <2>2
    <3> QED BY <1>2, <1>5, <3>1 DEF GrownByOne
  <2> QED BY <1>2, <2>1, <2>2
<1>10. RunIsFree' /\ NeighboursFound'
  BY <1>2 DEF RunIsFree, NeighboursFound
<1> QED BY <1>6, <1>7, <1>8, <1>9, <1>10 DEF IInv

\* heap_realloc takes that chunk out of the list.
LEMMA ReallocDoneKeeps == ASSUME IInv, ReallocDone PROVE IInv'
<1> DEFINE F == FreeChunks
           M == Pages(order, heap.pages)
           N == {end}
<1>1. /\ heap \in Heaps /\ size \in [Chunk -> 0 .. MaxSize] /\ order \in PageOrders
      /\ count \in 0 .. MaxSize /\ want \in 0 .. MaxSize /\ MaxSize \in Nat \ {0}
  BY ChunkNumbers DEF IInv, Types
<1>2. /\ pc = "realloc" /\ count >= want /\ order' = order /\ Return
      /\ heap' = CutRealloc(heap, from, end) /\ size' = [size EXCEPT ![start] = count]
  BY DEF ReallocDone
<1>3. /\ start \in Chunk /\ size[start] > 0 /\ want = size[start] + 1
      /\ from = end /\ end = LastOf(start) + 1 /\ end \in F /\ count = want
  <2>1. /\ start \in Chunk /\ size[start] > 0 /\ want = size[start] + 1
        /\ \/ count = size[start]
           \/ from = end /\ end = LastOf(start) + 1 /\ end \in FreeChunks /\ count = want
    BY <1>2 DEF IInv, GrownByOne
  <2>2. size[start] \in Nat
    BY <1>1, <2>1
  <2>3. count # size[start]
    BY <1>1, <1>2, <2>1, <2>2
  <2> QED BY <2>1, <2>3
<1>4. /\ Listed(heap, F) /\ Apart(size, M) /\ F = M \ UsedBy(size)
      /\ F \subseteq Chunk /\ size \in [Chunk -> Nat]
  BY Shapes, Facts DEF IInv
<1>5. start \in Int /\ end \in Int /\ end \in Chunk /\ size[start] \in Nat /\ count = size[start] + 1
      /\ end = start + size[start]
  <2>1. start \in Int /\ end \in Int /\ end \in Chunk /\ size[start] \in Nat
    BY <1>3, <1>4, ChunkNumbers
  <2> QED BY <1>3, <2>1 DEF LastOf
<1>6. heap' = Cut(heap, end, end)
  BY <1>2, <1>3 DEF CutRealloc, Cut
<1>7. heap' \in Heaps /\ Listed(heap', F \ N) /\ heap'.pages = heap.pages
  <2>1. end .. end = N /\ end =< end
    BY <1>5
  <2>2. Cut(heap, end, end) \in Heaps /\ Listed(Cut(heap, end, end), F \ (end .. end))
    <3>1. end .. end \subseteq F /\ F \in SUBSET Chunk
      BY <1>3, <1>4, <2>1
    <3> QED BY <1>1, <1>3, <1>4, <2>1, <3>1, CutListed
  <2>3. Cut(heap, end, end).pages = heap.pages
    BY DEF Cut
  <2> QED BY <1>6, <2>1, <2>2, <2>3
<1>8. size' \in [Chunk -> 0 .. MaxSize] /\ size' \in [Chunk -> Nat]
  <2>1. count \in Nat /\ count \in 0 .. MaxSize
    BY <1>1
  <2>2. size' \in [Chunk -> 0 .. MaxSize]
    BY <1>1, <1>2, <2>1
  <2>3. size' \in [Chunk -> Nat]
    BY <1>2, <1>4, <2>1
  <2> QED BY <2>2, <2>3
<1>9. Apart(size', M) /\ UsedBy(size') = UsedBy(size) \cup N
  <2>1. N \subseteq M \ UsedBy(size)
    BY <1>3, <1>4
  <2>2. size'[start] = count /\ size'[start] > 0
    BY <1>1, <1>2, <1>3, <1>5
  <2>3. \A c \in Chunk : c # start => size'[c] = size[c]
    BY <1>2, <1>4
  <2>4. Run(size', start) = Run(size, start) \cup N
    BY <1>5, <2>2 DEF Run
  <2> HIDE DEF F, M, N
  <2>5. Takes(size, size', start, N, M)
    BY <1>3, <1>4, <1>8, <2>1, <2>2, <2>3, <2>4 DEF Takes
  <2> QED BY <1>4, <2>5, UseChunks
<1>10. M \ UsedBy(size') = F \ N
  BY <1>4, <1>9
<1> HIDE DEF F, M, N
<1>11. Disjoint' /\ Listing'
  BY <1>2, <1>7, <1>9, <1>10, Shapes DEF M
<1> QED BY <1>1, <1>2, <1>7, <1>8, <1>11, ReturnKeeps

\* heap_free has visited one more chunk.
LEMMA VisitKeeps == ASSUME IInv, Visit PROVE IInv'
<1> DEFINE before == Before(start, cur, heap.prev[start])
           after == After(before, heap.prev[cur], end, cur, heap.next[end])
           F == FreeChunks
<1>1. /\ heap \in Heaps /\ size \in [Chunk -> 0 .. MaxSize] /\ order \in PageOrders
      /\ cur \in Link /\ start \in Link /\ end \in Link /\ from \in Link /\ old \in Link
      /\ count \in 0 .. MaxSize /\ want \in 0 .. MaxSize
  BY DEF IInv, Types
<1>2. /\ pc = "free" /\ pc' = "free" /\ cur # NULL /\ cur' = heap.next[cur]
      /\ heap' = [heap EXCEPT !.prev = Set(heap.prev, start, before),
                              !.next = Set(heap.next, end, after)]
      /\ size' = size /\ order' = order /\ start' = start /\ end' = end /\ from' = from
      /\ count' = count /\ want' = want /\ old' = old
  BY DEF Visit
<1>3. /\ start \in Chunk /\ size[start] > 0 /\ end = LastOf(start)
      /\ Linked(heap, start, end)
      /\ IsBefore(Visited, start, heap.prev[start]) /\ IsAfter(Visited, end, heap.next[end])
  BY <1>2 DEF IInv, NeighboursFound
<1>4. /\ F \subseteq Chunk /\ end \in Chunk /\ start =< end /\ (start .. end) \cap F = {}
      /\ Listed(heap, F) /\ cur \in F
  BY <1>2, <1>3, Facts, Shapes DEF IInv, CurIsFree
<1>5. start \in Int /\ end \in Int /\ start \in start .. end /\ end \in start .. end
  BY <1>3, <1>4, ChunkNumbers
<1>6. before \in Link /\ after \in Link
  BY <1>1, <1>3, <1>4 DEF Heaps, Before, After
<1> HIDE DEF before, after
<1>7. /\ heap'.next = Set(heap.next, end, after) /\ heap'.prev = Set(heap.prev, start, before)
      /\ heap'.first = heap.first /\ heap'.last = heap.last /\ heap'.pages = heap.pages
      /\ heap' \in Heaps
  <2>1. /\ Set(heap.next, end, after) \in [Chunk -> Link]
        /\ Set(heap.prev, start, before) \in [Chunk -> Link]
    BY <1>1, <1>6 DEF Set, Heaps
  <2> QED BY <1>1, <1>2, <2>1 DEF Heaps
<1>8. \A c \in Chunk : /\ heap'.next[c] = IF c = end THEN after ELSE heap.next[c]
                       /\ heap'.prev[c] = IF c = start THEN before ELSE heap.prev[c]
  BY <1>7 DEF Set
<1>9. Listed(heap', F)
  <2>1. \A c \in F : heap'.next[c] = heap.next[c] /\ heap'.prev[c] = heap.prev[c]
    BY <1>4, <1>5, <1>8
  <2> QED BY <1>4, <1>7, <2>1 DEF Listed
<1>10. FreeChunks' = F /\ Disjoint' /\ Listing'
  <2>1. FreeChunks' = F
    BY <1>2, <1>7, Shapes
  <2>2. Disjoint'
    BY <1>2, <1>7, Shapes DEF IInv
  <2> QED BY <1>9, <2>1, <2>2, Shapes
<1>11. cur' \in Link /\ IsAfter(F, cur, cur') /\ CurIsFree'
  <2>1. cur' \in Link /\ IsAfter(F, cur, cur')
    BY <1>1, <1>2, <1>4 DEF Listed, Heaps
  <2> QED BY <1>10, <2>1 DEF CurIsFree, IsAfter
<1>12. Types'
  BY <1>1, <1>2, <1>7, <1>11 DEF Types
<1>13. NeighboursFound'
  <2>1. Visited = Below(F, cur)
    BY <1>2 DEF Visited, Below
  <2>2. Visited' = Visited \cup {cur}
    <3>1. \A x \in F : x \in Int
      BY <1>4, ChunkNumbers
    <3>2. \A x \in F : (cur' = NULL \/ x < cur') <=> (x < cur \/ x = cur)
      BY <1>4, <1>11, <3>1 DEF IsAfter
    <3>3. Visited' = {x \in F : cur' = NULL \/ x < cur'}
      BY <1>10 DEF Visited
    <3> QED BY <1>4, <2>1, <3>2, <3>3 DEF Below
  <2>3. IsBefore(F, cur, heap.prev[cur])
    BY <1>4 DEF Listed
  <2>4. IsBefore(Visited \cup {cur}, start, before) /\ IsAfter(Visited \cup {cur}, end, after)
    <3>1. F \in SUBSET Chunk
      BY <1>4
    <3> HIDE DEF F
    <3> QED BY <1>3, <1>4, <2>1, <2>3, <3>1, VisitNeighbours DEF before, after
  <2>5. heap'.prev[start] = before /\ heap'.next[end] = after
    BY <1>3, <1>4, <1>8
  <2>6. Linked(heap', start, end)
    <3>1. \A c \in start .. end : c \in Chunk
      BY <1>3, <1>4, ChunkNumbers
    <3> QED BY <1>3, <1>8, <3>1 DEF Linked
  <2>7. LastOf(start)' = LastOf(start)
    BY <1>2 DEF LastOf
  <2> QED BY <1>2, <1>3, <2>2, <2>4, <2>5, <2>6, <2>7 DEF NeighboursFound
<1>14. RunIsFree' /\ GrownByOne'
  BY <1>2 DEF IInv, RunIsFree, GrownByOne
<1> QED BY <1>10, <1>11, <1>12, <1>13, <1>14 DEF IInv

\* heap_free puts the buffer into the list.
LEMMA FreeDoneKeeps == ASSUME IInv, FreeDone PROVE IInv'
<1> DEFINE F == FreeChunks
           M == Pages(order, heap.pages)
           B == start .. end
<1>1. /\ heap \in Heaps /\ size \in [Chunk -> 0 .. MaxSize] /\ order \in PageOrders
      /\ MaxSize \in Nat \ {0}
  BY ChunkNumbers DEF IInv, Types
<1>2. /\ pc = "free" /\ cur = NULL /\ order' = order /\ Return
      /\ size' = [size EXCEPT ![start] = 0]
      /\ heap' = Join(heap, start, end)
  BY DEF FreeDone
<1>3. /\ start \in Chunk /\ size[start] > 0 /\ end = LastOf(start)
      /\ Linked(heap, start, end)
      /\ IsBefore(Visited, start, heap.prev[start]) /\ IsAfter(Visited, end, heap.next[end])
  BY <1>2 DEF IInv, NeighboursFound
<1>4. Visited = F
  BY <1>2 DEF Visited
<1>5. /\ F \in SUBSET Chunk /\ end \in Chunk /\ start =< end /\ B \cap F = {}
      /\ Listed(heap, F) /\ Apart(size, M) /\ F = M \ UsedBy(size) /\ B = Run(size, start)
      /\ size \in [Chunk -> Nat]
  BY <1>3, Facts, Shapes DEF IInv
<1>6. heap' \in Heaps /\ Listed(heap', F \cup B)
  BY <1>1, <1>2, <1>3, <1>4, <1>5, FreeListed
<1>7. heap'.pages = heap.pages
  BY <1>2 DEF Join
<1>8. size' \in [Chunk -> 0 .. MaxSize]
  <2>1. 0 \in 0 .. MaxSize
    BY <1>1
  <2> QED BY <1>1, <1>2, <2>1
<1>9. Apart(size', M) /\ UsedBy(size') = UsedBy(size) \ B /\ B \subseteq M
  <2> HIDE DEF F, M, B
  <2> QED BY <1>2, <1>3, <1>5, ReleaseChunks
<1>10. M \ UsedBy(size') = F \cup B
  BY <1>5, <1>9
<1> HIDE DEF F, M, B
<1>11. Disjoint' /\ Listing'
  BY <1>2, <1>6, <1>7, <1>9, <1>10, Shapes DEF M
<1> QED BY <1>1, <1>2, <1>6, <1>8, <1>11, ReturnKeeps
-----------------------------------------------------------------------------
(* The theorems.                                                           *)

\* The empty heap satisfies the invariant.
LEMMA InitIInv == ASSUME Init PROVE IInv
<1>1. /\ heap = [next |-> [c \in Chunk |-> NULL], prev |-> [c \in Chunk |-> NULL],
                 first |-> NULL, last |-> NULL, pages |-> 0]
      /\ size = [c \in Chunk |-> 0] /\ order \in PageOrders /\ pc = "idle"
      /\ cur = NULL /\ start = NULL /\ end = NULL /\ from = NULL
      /\ count = 0 /\ want = 0 /\ old = NULL
  BY DEF Init
<1>2. Types
  BY <1>1, ChunkNumbers DEF Types, Heaps, Link
<1>3. Mapped = {} /\ FreeChunks = {}
  BY <1>1 DEF Mapped, FreeChunks
<1>4. Disjoint
  BY <1>1 DEF Disjoint
<1>5. Listing
  BY <1>1, <1>3 DEF Listing, IsAfter, IsBefore
<1>6. CurIsFree /\ RunIsFree /\ GrownByOne /\ NeighboursFound
  BY <1>1 DEF CurIsFree, RunIsFree, GrownByOne, NeighboursFound
<1> QED BY <1>2, <1>4, <1>5, <1>6 DEF IInv

\* Every step keeps it.
LEMMA NextIInv ==
    ASSUME IInv, PagesAscend', Growths \subseteq {1}, [Next]_vars
    PROVE  IInv'
<1>0. CASE UNCHANGED vars
  <2>1. /\ heap' = heap /\ size' = size /\ order' = order /\ pc' = pc /\ cur' = cur
        /\ start' = start /\ end' = end /\ from' = from /\ count' = count /\ want' = want
        /\ old' = old
    BY <1>0 DEF vars
  <2>2. FreeChunks' = FreeChunks /\ (Disjoint <=> Disjoint')
    BY <2>1, Shapes
  <2>3. Types' /\ Disjoint' /\ Listing' /\ CurIsFree'
    BY <2>1, <2>2, Shapes DEF IInv, Types, CurIsFree
  <2>4. RunIsFree' /\ GrownByOne'
    BY <2>1, <2>2 DEF IInv, RunIsFree, GrownByOne, LastOf
  <2>5. NeighboursFound'
    BY <2>1, <2>2 DEF IInv, NeighboursFound, LastOf, Visited
  <2> QED BY <2>3, <2>4, <2>5 DEF IInv
<1>1. ASSUME NEW n \in 1 .. MaxSize, HeapAlloc(n) PROVE IInv'
  <2>1. NULL \in Link /\ BeginAlloc(n, NULL)
    BY <1>1 DEF HeapAlloc, Link
  <2> QED BY <2>1, BeginAllocKeeps
<1>2. ASSUME NEW a \in Chunk, HeapFree(a) PROVE IInv'
  <2>1. size[a] > 0 /\ BeginFree(heap, a) /\ size' = size /\ order' = order
    BY <1>2 DEF HeapFree
  <2>2. /\ heap \in Heaps /\ size \in [Chunk -> 0 .. MaxSize]
        /\ Apart(size, Pages(order, heap.pages))
        /\ Listed(heap, Pages(order, heap.pages) \ UsedBy(size))
    BY Shapes DEF IInv, Types
  <2>3. /\ size' \in [Chunk -> 0 .. MaxSize] /\ size'[a] = size[a]
        /\ Apart(size', Pages(order, heap.pages)) /\ UsedBy(size) \subseteq UsedBy(size')
        /\ Listed(heap, Pages(order, heap.pages) \ UsedBy(size'))
    BY <2>1, <2>2
  <2> QED BY <2>1, <2>2, <2>3, BeginFreeKeeps
<1>3. ASSUME NEW a \in Chunk, NEW grow \in Growths, HeapRealloc(a, grow) PROVE IInv'
  BY <1>3, HeapReallocKeeps
<1>4. CASE Scan
  BY <1>4, ScanKeeps
<1>5. CASE AllocFail
  <2>1. Return /\ heap' = heap /\ size' = size /\ order' = order
    BY <1>5 DEF AllocFail
  <2>2. Disjoint' /\ Listing'
    BY <2>1, Shapes DEF IInv
  <2> QED BY <2>1, <2>2, ReturnKeeps DEF IInv, Types
<1>6. CASE AllocDone
  BY <1>6, AllocDoneKeeps
<1>7. CASE Grow
  BY <1>7, GrowKeeps
<1>8. CASE ReallocDone
  BY <1>8, ReallocDoneKeeps
<1>9. CASE ReallocMove
  <2>1. pc = "realloc" /\ BeginAlloc(want, start)
    BY <1>9 DEF ReallocMove
  <2>2. start \in Chunk /\ size[start] > 0 /\ want = size[start] + 1
    BY <2>1 DEF IInv, GrownByOne
  <2>3. start \in Link /\ want \in 1 .. MaxSize
    <3>1. want \in 0 .. MaxSize /\ size[start] \in 0 .. MaxSize /\ MaxSize \in Nat \ {0}
      BY <2>2, ChunkNumbers DEF IInv, Types
    <3> QED BY <2>2, <3>1 DEF Link
  <2> QED BY <2>1, <2>2, <2>3, BeginAllocKeeps
<1>10. CASE Crash
  BY <1>0, <1>10 DEF Crash
<1>11. CASE Visit
  BY <1>11, VisitKeeps
<1>12. CASE FreeDone
  BY <1>12, FreeDoneKeeps
<1> QED BY <1>0, <1>1, <1>2, <1>3, <1>4, <1>5, <1>6, <1>7, <1>8, <1>9, <1>10, <1>11, <1>12 DEF Next

\* The number of pages never falls, and the order is fixed: once a page has come below an
\* earlier one, that stays so.
Counted == "pages" \in DOMAIN heap /\ heap.pages \in 0 .. NumPages

LEMMA PagesGrow ==
    ASSUME Counted, [Next]_vars
    PROVE  Counted' /\ order' = order /\ heap.pages =< heap'.pages
<1>1. NumPages \in Nat \ {0} /\ heap.pages \in 0 .. NumPages /\ "pages" \in DOMAIN heap
  BY HeapAssumption DEF Counted
<1> DEFINE Keeps(h, g) == /\ "pages" \in DOMAIN g /\ g.pages \in 0 .. NumPages
                          /\ h.pages =< g.pages
<1>2. ASSUME NEW h, "pages" \in DOMAIN h, h.pages \in 0 .. NumPages
      PROVE  Keeps(h, h) /\ Keeps(h, Extend(h))
  <2>1. CASE h.pages = NumPages
    <3>1. Extend(h) = h
      BY <2>1 DEF Extend
    <3> QED BY <1>1, <1>2, <3>1
  <2>2. CASE h.pages # NumPages
    <3>1. "pages" \in DOMAIN Extend(h) /\ Extend(h).pages = h.pages + 1
      BY <2>2 DEF Extend
    <3> QED BY <1>1, <1>2, <2>2, <3>1
  <2> QED BY <2>1, <2>2
<1>3. ASSUME NEW c PROVE Keeps(heap, HasNext(heap, c))
  <2> DEFINE f == IF heap.first = NULL \/ heap.last = NULL THEN Extend(heap) ELSE heap
  <2>1. Keeps(heap, f)
    BY <1>1, <1>2
  <2>2. HasNext(heap, c) = IF c # NULL /\ f.next[c] = NULL THEN Extend(f) ELSE f
    BY DEF HasNext
  <2> HIDE DEF f
  <2>3. Keeps(f, HasNext(heap, c))
    BY <1>2, <2>1, <2>2
  <2> QED BY <1>1, <2>1, <2>3
<1>4. ASSUME NEW h, "pages" \in DOMAIN h, h.pages = heap.pages, NEW a, BeginFree(h, a)
      PROVE  Keeps(heap, heap')
  BY <1>1, <1>4 DEF BeginFree, Chain
<1>5. CASE UNCHANGED vars
  BY <1>1, <1>5 DEF vars, Counted
<1>6. ASSUME NEW n, NEW buffer, BeginAlloc(n, buffer) PROVE Counted' /\ order' = order /\ heap.pages =< heap'.pages
  BY <1>3, <1>6 DEF BeginAlloc, Counted
<1>7. ASSUME NEW n \in 1 .. MaxSize, HeapAlloc(n)
      PROVE  Counted' /\ order' = order /\ heap.pages =< heap'.pages
  BY <1>6, <1>7 DEF HeapAlloc
<1>8. ASSUME NEW a \in Chunk, HeapFree(a)
      PROVE  Counted' /\ order' = order /\ heap.pages =< heap'.pages
  BY <1>1, <1>4, <1>8 DEF HeapFree, Counted
<1>9. ASSUME NEW a \in Chunk, NEW grow \in Growths, HeapRealloc(a, grow)
      PROVE  Counted' /\ order' = order /\ heap.pages =< heap'.pages
  BY <1>1, <1>9 DEF HeapRealloc, Counted
<1>10. CASE Scan
  BY <1>3, <1>10 DEF Scan, Counted
<1>11. CASE AllocFail
  BY <1>1, <1>11 DEF AllocFail, Counted
<1>12. CASE AllocDone
  <2> DEFINE h == Cut(heap, start, end)
  <2>1. "pages" \in DOMAIN h /\ h.pages = heap.pages
    BY DEF Cut
  <2>2. order' = order /\ (heap' = h \/ BeginFree(h, old))
    BY <1>12 DEF AllocDone
  <2> HIDE DEF h
  <2> QED BY <1>1, <1>4, <2>1, <2>2 DEF Counted
<1>13. CASE Grow
  BY <1>1, <1>13 DEF Grow, Counted
<1>14. CASE ReallocDone
  BY <1>1, <1>14 DEF ReallocDone, CutRealloc, Cut, Counted
<1>15. CASE ReallocMove
  BY <1>6, <1>15 DEF ReallocMove
<1>16. CASE Crash
  BY <1>5, <1>16 DEF Crash
<1>17. CASE Visit
  BY <1>1, <1>17 DEF Visit, Counted
<1>18. CASE FreeDone
  BY <1>1, <1>18 DEF FreeDone, Join, Counted
<1> QED BY <1>5, <1>7, <1>8, <1>9, <1>10, <1>11, <1>12, <1>13, <1>14, <1>15, <1>16, <1>17, <1>18
        DEF Next

\* At every step of heap_alloc, heap_realloc and heap_free (heap.c:103, 170, 243) the
\* chunk looked at is free, the run of heap_alloc is, heap_realloc has at most the chunk
\* after its buffer, and heap_free has the neighbours among the chunks visited; as long
\* as vmm_map has returned ascending pages, for callers that enlarge a buffer by one
\* chunk (pci.c:138).
THEOREM HeapInvariant ==
    ASSUME Growths \subseteq {1}
    PROVE  Spec => [](Counted /\ (PagesAscend => IInv))
<1>1. Init => Counted /\ IInv
  <2>1. ASSUME Init PROVE Counted
    <3>1. heap = [next |-> [c \in Chunk |-> NULL], prev |-> [c \in Chunk |-> NULL],
                  first |-> NULL, last |-> NULL, pages |-> 0]
      BY <2>1 DEF Init
    <3>2. "pages" \in DOMAIN heap /\ heap.pages = 0
      BY <3>1
    <3> QED BY <3>2, HeapAssumption DEF Counted
  <2> QED BY <2>1, InitIInv
<1>2. Counted /\ (PagesAscend => IInv) /\ [Next]_vars => Counted' /\ (PagesAscend => IInv)'
  <2> SUFFICES ASSUME Counted, PagesAscend => IInv, [Next]_vars, PagesAscend'
               PROVE  IInv'
    BY PagesGrow
  <2>1. /\ order' = order /\ heap.pages =< heap'.pages
        /\ heap.pages \in 0 .. NumPages /\ heap'.pages \in 0 .. NumPages
        /\ NumPages \in Nat
    BY PagesGrow, HeapAssumption DEF Counted
  <2>2. \A i \in 1 .. heap.pages : i \in 1 .. heap'.pages
    BY <2>1
  <2>3. PagesAscend
    BY <2>1, <2>2 DEF PagesAscend
  <2> QED BY <2>3, NextIInv
<1> QED BY <1>1, <1>2, PTL DEF Spec

\* Two buffers from heap_alloc and heap_realloc (heap.c:163, 239) never share a chunk,
\* and lie in pages that the heap has mapped, as long as the pages have come in ascending
\* order, for callers that enlarge a buffer by one chunk (pci.c:138).
THEOREM BuffersStayDisjoint ==
    ASSUME Growths \subseteq {1}
    PROVE  Spec => []BuffersAreDisjoint
<1>1. (PagesAscend => IInv) => BuffersAreDisjoint
  BY DEF IInv, BuffersAreDisjoint
<1> QED BY <1>1, HeapInvariant, PTL

\* Under the same conditions the list of heap_free and heap_alloc (heap.c:137, 264) runs
\* through exactly the chunks that no buffer has, by address, in both directions: none is
\* lost, none is in use.
THEOREM FreeListStaysExact ==
    ASSUME Growths \subseteq {1}
    PROVE  Spec => []FreeListIsExact
<1>1. (PagesAscend => IInv) => FreeListIsExact
  BY DEF IInv, FreeListIsExact
<1> QED BY <1>1, HeapInvariant, PTL
=============================================================================
