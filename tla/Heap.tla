-------------------------------- MODULE Heap --------------------------------
(***************************************************************************)
(* The kernel heap, kernel/mm/heap.c: a doubly linked list of free chunks  *)
(* that heap_alloc cuts runs of neighbouring chunks from, heap_realloc     *)
(* extends buffers with, and heap_free puts them back into by address.     *)
(* Chunks are numbered by address; sizes are counted in chunks (the first  *)
(* chunk of a buffer holds 16 bytes of data, each further one 32).  A step *)
(* is one chunk that a loop looks at, or what a call does before or after  *)
(* its loop.  Calls run one after the other, with interrupts off.          *)
(***************************************************************************)
EXTENDS Integers

CONSTANTS
    PerPage,      \* HEAP_CHUNK_PER_PAGE
    NumPages,     \* bound: pages the heap can be extended by
    MaxSize,      \* bound: chunks of a buffer
    Growths       \* by how many chunks callers of heap_realloc enlarge a buffer

ASSUME HeapAssumption ==
    /\ PerPage \in Nat \ {0}
    /\ NumPages \in Nat \ {0}
    /\ MaxSize \in Nat \ {0}
    /\ Growths \subseteq Nat \ {0}

(***************************************************************************)
(* The orders in which vmm_map may return the pages: it takes the first    *)
(* free one, which lies below the heap's when a page of a program's        *)
(* regions has been unmapped since.                                        *)
(***************************************************************************)
PageOrders ==
    {o \in [1 .. NumPages -> 1 .. NumPages] :
        \A i, j \in 1 .. NumPages : o[i] = o[j] => i = j}

Chunk == 1 .. (PerPage * NumPages)
NULL == 0

VARIABLES
    heap,         \* the free list: next, prev, first, last, and pages used so far
    size,         \* chunks of the buffer that starts at each chunk, 0 if none does
    order,        \* the order of pages of this behaviour
    pc,           \* which loop is running
    cur,          \* the chunk it looks at
    start, end,   \* the run or buffer it works on
    from,         \* realloc_start of heap_realloc
    count, want,  \* chunks found so far (total_size), and how many it takes
    old           \* the buffer that heap_realloc is moving

vars == <<heap, size, order, pc, cur, start, end, from, count, want, old>>

Init ==
    /\ heap = [next |-> [c \in Chunk |-> NULL], prev |-> [c \in Chunk |-> NULL],
               first |-> NULL, last |-> NULL, pages |-> 0]
    /\ size = [c \in Chunk |-> 0]
    /\ order \in PageOrders
    /\ pc = "idle"
    /\ cur = NULL /\ start = NULL /\ end = NULL /\ from = NULL
    /\ count = 0 /\ want = 0 /\ old = NULL

Return ==
    /\ pc' = "idle"
    /\ cur' = NULL /\ start' = NULL /\ end' = NULL /\ from' = NULL
    /\ count' = 0 /\ want' = 0 /\ old' = NULL
-----------------------------------------------------------------------------
(* The free list.                                                          *)

\* the assignment *p = v, where p may be NULL
Set(f, p, v) == [c \in Chunk |-> IF c = p THEN v ELSE f[c]]

\* __heap_extend: the chunks of a new page go to the end of the list; without a
\* page nothing changes
Extend(h) ==
    IF h.pages = NumPages THEN h
    ELSE LET head == (order[h.pages + 1] - 1) * PerPage + 1
             tail == head + PerPage - 1
             new == head .. tail
         IN  [next |-> [c \in Chunk |-> IF c = h.last THEN head
                                        ELSE IF c = tail THEN NULL
                                        ELSE IF c \in new THEN c + 1 ELSE h.next[c]],
              prev |-> [c \in Chunk |-> IF c = head THEN h.last
                                        ELSE IF c \in new THEN c - 1 ELSE h.prev[c]],
              first |-> IF h.first = NULL THEN head ELSE h.first,
              last |-> tail,
              pages |-> h.pages + 1]

\* __heap_chunk_next: the list after it, from which the chunk is read
HasNext(h, c) ==
    LET g == IF h.first = NULL \/ h.last = NULL THEN Extend(h) ELSE h
    IN  IF c # NULL /\ g.next[c] = NULL THEN Extend(g) ELSE g
ChunkNext(h, c) == IF c = NULL THEN h.first ELSE h.next[c]

\* chunks of a buffer hold data where free chunks have their links
Cleared(f, a, b) == [c \in Chunk |-> IF c \in a .. b THEN NULL ELSE f[c]]

\* mutant of Cut: the chunk after the run keeps pointing back into it
CutNoBack(h, a, b) ==
    [next |-> Cleared(Set(h.next, h.prev[a], h.next[b]), a, b),
     prev |-> Cleared(h.prev, a, b),
     first |-> IF h.first = a THEN h.next[b] ELSE h.first,
     last |-> IF h.last = b THEN h.prev[a] ELSE h.last,
     pages |-> h.pages]

\* the run a .. b leaves the list
Cut(h, a, b) ==
    [next |-> Cleared(Set(h.next, h.prev[a], h.next[b]), a, b),
     prev |-> Cleared(Set(h.prev, h.next[b], h.prev[a]), a, b),
     first |-> IF h.first = a THEN h.next[b] ELSE h.first,
     last |-> IF h.last = b THEN h.prev[a] ELSE h.last,
     pages |-> h.pages]

\* the same in heap_realloc, where the ends of the list are compared with the other end
\* of the run
CutRealloc(h, a, b) ==
    [Cut(h, a, b) EXCEPT !.first = IF h.first = b THEN h.next[b] ELSE h.first,
                         !.last = IF h.last = a THEN h.prev[a] ELSE h.last]

\* heap_free: the chunks of the buffer become a list of their own
Chain(h, a, b) ==
    [h EXCEPT !.next = [c \in Chunk |-> IF c = b THEN NULL ELSE IF c \in a .. b THEN c + 1 ELSE h.next[c]],
              !.prev = [c \in Chunk |-> IF c = a THEN NULL ELSE IF c \in a .. b THEN c - 1 ELSE h.prev[c]]]

\* heap_free: the list a .. b goes between the neighbours its ends point to
Join(h, a, b) ==
    [next |-> Set(h.next, h.prev[a], a),
     prev |-> Set(h.prev, h.next[b], b),
     first |-> IF h.prev[a] = NULL THEN a ELSE h.first,
     last |-> IF h.next[b] = NULL THEN b ELSE h.last,
     pages |-> h.pages]

LastOf(a) == a + size[a] - 1
-----------------------------------------------------------------------------
(* heap_alloc; with buffer # NULL it is called by heap_realloc.            *)

BeginAlloc(n, buffer) ==
    /\ pc' = "alloc"
    /\ heap' = HasNext(heap, NULL)
    /\ cur' = ChunkNext(heap', NULL)
    /\ start' = NULL /\ end' = NULL /\ from' = NULL
    /\ count' = 0 /\ want' = n /\ old' = buffer
    /\ UNCHANGED <<size, order>>

\* heap_free up to its loop: h is the list it finds
BeginFree(h, a) ==
    /\ pc' = "free"
    /\ heap' = Chain(h, a, LastOf(a))
    /\ cur' = h.first
    /\ start' = a /\ end' = LastOf(a) /\ from' = NULL
    /\ count' = 0 /\ want' = 0 /\ old' = NULL

\* mutant of Contiguous: holes between chunks are not noticed
ContiguousAny(e, c) == TRUE

Contiguous(e, c) == e + 1 = c

HeapAlloc(n) == pc = "idle" /\ BeginAlloc(n, NULL)

\* one chunk of the loop: a run starts, is broken off, or grows
Scan ==
    /\ pc = "alloc"
    /\ cur # NULL /\ count < want
    /\ \/ /\ start = NULL
          /\ start' = cur
          /\ count' = count + 1
       \/ /\ start # NULL /\ ~Contiguous(end, cur)
          /\ start' = NULL
          /\ count' = 0
       \/ /\ start # NULL /\ Contiguous(end, cur)
          /\ count' = count + 1
          /\ UNCHANGED start
    /\ end' = cur
    /\ heap' = HasNext(heap, cur)
    /\ cur' = ChunkNext(heap', cur)
    /\ UNCHANGED <<size, order, pc, from, want, old>>

\* there is no next chunk, even if the run is long enough
AllocFail ==
    /\ pc = "alloc"
    /\ cur = NULL
    /\ old = NULL
    /\ Return
    /\ UNCHANGED <<heap, size, order>>

AllocDone ==
    /\ pc = "alloc"
    /\ cur # NULL /\ count >= want
    /\ size' = [size EXCEPT ![start] = count]
    /\ \/ /\ old = NULL
          /\ heap' = Cut(heap, start, end)
          /\ Return
       \/ /\ old # NULL
          /\ BeginFree(Cut(heap, start, end), old)
    /\ UNCHANGED order
-----------------------------------------------------------------------------
(* heap_realloc of the buffer a, to more chunks than it has: the chunks    *)
(* right after it are taken if they are free, otherwise the buffer moves.  *)

HeapRealloc(a, grow) ==
    /\ pc = "idle"
    /\ size[a] > 0
    /\ size[a] + grow =< MaxSize
    /\ pc' = "realloc"
    /\ cur' = heap.first
    /\ start' = a /\ end' = LastOf(a)
    /\ count' = size[a] /\ want' = size[a] + grow
    /\ UNCHANGED <<heap, size, order, from, old>>

Grow ==
    /\ pc = "realloc"
    /\ cur # NULL /\ count < want
    /\ \/ /\ Contiguous(end, cur)
          /\ end' = cur
          /\ count' = count + 1
          /\ from' = IF from = NULL THEN cur ELSE from
       \/ /\ ~Contiguous(end, cur)
          /\ UNCHANGED <<end, count, from>>
    /\ cur' = heap.next[cur]
    /\ UNCHANGED <<heap, size, order, pc, start, want, old>>

ReallocDone ==
    /\ pc = "realloc"
    /\ count >= want
    /\ heap' = CutRealloc(heap, from, end)
    /\ size' = [size EXCEPT ![start] = count]
    /\ Return
    /\ UNCHANGED order

ReallocMove ==
    /\ pc = "realloc"
    /\ cur = NULL /\ count < want
    /\ BeginAlloc(want, start)

\* without memory the contents are copied to address 0, which ends the kernel
Crash ==
    /\ pc = "alloc"
    /\ cur = NULL
    /\ old # NULL
    /\ UNCHANGED vars
-----------------------------------------------------------------------------
(* heap_free of a buffer that the caller has.                              *)

HeapFree(a) ==
    /\ pc = "idle"
    /\ size[a] > 0
    /\ BeginFree(heap, a)
    /\ UNCHANGED <<size, order>>

\* one chunk c of the loop: is it the last before the buffer, or the first after it, where
\* p and n are the ones found so far, and q the chunk before c
Before(a, c, p) == IF a > c THEN c ELSE p
After(p, q, b, c, n) == IF p = q /\ b < c THEN c ELSE n

Visit ==
    /\ pc = "free"
    /\ cur # NULL
    /\ LET before == Before(start, cur, heap.prev[start])
           after == After(before, heap.prev[cur], end, cur, heap.next[end])
       IN  heap' = [heap EXCEPT !.prev = Set(heap.prev, start, before),
                                !.next = Set(heap.next, end, after)]
    /\ cur' = heap.next[cur]
    /\ UNCHANGED <<size, order, pc, start, end, from, count, want, old>>

FreeDone ==
    /\ pc = "free"
    /\ cur = NULL
    /\ heap' = Join(heap, start, end)
    /\ size' = [size EXCEPT ![start] = 0]
    /\ Return
    /\ UNCHANGED order
-----------------------------------------------------------------------------
Next ==
    \/ \E n \in 1 .. MaxSize : HeapAlloc(n)
    \/ \E a \in Chunk : HeapFree(a) \/ \E grow \in Growths : HeapRealloc(a, grow)
    \/ Scan \/ AllocFail \/ AllocDone
    \/ Grow \/ ReallocDone \/ ReallocMove \/ Crash
    \/ Visit \/ FreeDone

Spec == Init /\ [][Next]_vars
-----------------------------------------------------------------------------
Buffer(a) == a .. (a + size[a] - 1)
Used == UNION {Buffer(a) : a \in {c \in Chunk : size[c] > 0}}
PageChunks(p) == ((p - 1) * PerPage + 1) .. (p * PerPage)
Mapped == UNION {PageChunks(order[i]) : i \in 1 .. heap.pages}
FreeChunks == Mapped \ Used

\* Types of the list and the sizes.
TypeOK ==
    /\ heap \in [next : [Chunk -> Chunk \cup {NULL}], prev : [Chunk -> Chunk \cup {NULL}],
                 first : Chunk \cup {NULL}, last : Chunk \cup {NULL}, pages : 0 .. NumPages]
    /\ size \in [Chunk -> 0 .. MaxSize]

\* the pages the heap has obtained so far came in ascending order
PagesAscend == \A i, j \in 1 .. heap.pages : i < j => order[i] < order[j]

Disjoint ==
    \A a, b \in {c \in Chunk : size[c] > 0} :
        /\ Buffer(a) \subseteq Mapped
        /\ a # b => Buffer(a) \cap Buffer(b) = {}

(***************************************************************************)
(* As long as vmm_map has returned each page above the ones before it, and *)
(* with buffers that grow as Growths says, by one chunk at a time for the  *)
(* caller in pci.c, the buffers heap_alloc and heap_realloc have given out *)
(* lie in mapped pages and do not overlap, after any sequence of calls and *)
(* in the middle of one.  After a page below another they may overlap:     *)
(* heap_free finds the place of a buffer by address (heap.c:264) in a list *)
(* that __heap_extend only appends to.                                     *)
(***************************************************************************)
BuffersAreDisjoint == PagesAscend => Disjoint

\* d is the first chunk of the set after c, or before it; NULL if there is none
IsAfter(F, c, d) ==
    IF d = NULL THEN \A x \in F : x =< c
    ELSE d \in F /\ c < d /\ \A x \in F : x =< c \/ d =< x
IsBefore(F, c, d) ==
    IF d = NULL THEN \A x \in F : c =< x
    ELSE d \in F /\ d < c /\ \A x \in F : x =< d \/ c =< x

Listing ==
    /\ IsAfter(FreeChunks, 0, heap.first)
    /\ IsBefore(FreeChunks, PerPage * NumPages + 1, heap.last)
    /\ \A c \in FreeChunks : /\ IsAfter(FreeChunks, c, heap.next[c])
                             /\ IsBefore(FreeChunks, c, heap.prev[c])

(***************************************************************************)
(* Under the same conditions no chunk is lost and none is both free and in *)
(* use: from heap_chunk_first on the list runs through exactly the mapped  *)
(* chunks outside of all buffers, by address, and back from                *)
(* heap_chunk_last: it is "a doubly linked list" (heap.c, on the meta      *)
(* data).                                                                  *)
(***************************************************************************)
FreeListIsExact == PagesAscend => Listing
=============================================================================
