------------------------------- MODULE Umalloc -------------------------------
(***************************************************************************)
(* The allocator of user programs, umalloc.c: a circular list of free      *)
(* blocks in the order of their addresses, beginning at base.  Addresses   *)
(* and sizes count headers; base is header 0, the heap grows from 1.  A    *)
(* heap is a record: the headers, freep (-1 before the first malloc()),    *)
(* the break, the blocks in use with the bytes that were asked for, and    *)
(* how much others took with sbrk().                                       *)
(*                                                                         *)
(* Requests are bounded: for NBytes near 2^31 and above, the argument of   *)
(* sbrk() in morecore() turns negative and nbytes + 7 may wrap; such       *)
(* requests are not modelled.                                              *)
(***************************************************************************)
EXTENDS Integers, Sequences, FiniteSets, FiniteSetsExt

CONSTANTS
  NALLOC,     \* the least that morecore() asks for
  HeapMax,    \* sbrk() fails beyond this break
  NBytes,     \* the request sizes to try
  MaxMallocs  \* and how many calls in a row

HeaderBytes == 8
NoHeader == [ptr |-> 0, size |-> 0]
NoHeap == [hdr |-> [a \in 0..HeapMax |-> NoHeader], freep |-> -1, brk |-> 1, live |-> {}, others |-> 0]

\* free(): the free block before bp, where the list turns round included
RECURSIVE Before(_, _, _)
Before(h, bp, p) ==
  LET q == h.hdr[p].ptr IN
  IF (bp > p /\ bp < q) \/ (p >= q /\ (bp > p \/ bp < q)) THEN p ELSE Before(h, bp, q)

\* Mutant: the block is linked without joining it to the next one.
JoinNextNot(h, bp, p) == [h EXCEPT !.hdr[bp].ptr = h.hdr[p].ptr]

JoinNext(h, bp, p) ==
  LET q == h.hdr[p].ptr IN
  IF bp + h.hdr[bp].size = q
  THEN [h EXCEPT !.hdr[bp] = [ptr |-> h.hdr[q].ptr, size |-> @.size + h.hdr[q].size]]
  ELSE [h EXCEPT !.hdr[bp].ptr = q]

JoinPrevious(h, bp, p) ==
  IF p + h.hdr[p].size = bp
  THEN [h EXCEPT !.hdr[p] = [ptr |-> h.hdr[bp].ptr, size |-> @.size + h.hdr[bp].size]]
  ELSE [h EXCEPT !.hdr[p].ptr = bp]

ufree(h, bp) ==
  LET p == Before(h, bp, h.freep)
  IN  [JoinPrevious(JoinNext(h, bp, p), bp, p) EXCEPT !.freep = p]

\* morecore(), for a break that sbrk() can move
morecore(h, nu) ==
  LET n == Max({nu, NALLOC})
  IN  ufree([h EXCEPT !.hdr[h.brk].size = n, !.brk = @ + n], h.brk)

\* A block that fits is taken whole, of a larger one the end.
Cut(h, prevp, p, n) ==
  LET rest == h.hdr[p].size - n IN
  IF rest = 0 THEN [h EXCEPT !.hdr[prevp].ptr = h.hdr[p].ptr, !.freep = prevp]
  ELSE [h EXCEPT !.hdr[p].size = rest, !.hdr[p + rest].size = n, !.freep = prevp]

\* The loop of malloc(): the heap after it and the block, 0 when memory is out, which
\* leaves the heap as it is.
RECURSIVE Search(_, _, _, _)
Search(h, prevp, p, n) ==
  IF h.hdr[p].size >= n THEN <<Cut(h, prevp, p, n), p + h.hdr[p].size - n>>
  ELSE IF p # h.freep THEN Search(h, p, h.hdr[p].ptr, n)
  ELSE IF h.brk + Max({n, NALLOC}) > HeapMax THEN <<h, 0>>
  ELSE LET g == morecore(h, n) IN Search(g, g.freep, g.hdr[g.freep].ptr, n)

\* The headers that nbytes need, and one for the block itself
nunits(nbytes) == (nbytes + HeaderBytes - 1) \div HeaderBytes + 1

malloc(h, nbytes) ==
  LET g == IF h.freep = -1 THEN [h EXCEPT !.freep = 0] ELSE h
      r == Search(g, g.freep, g.hdr[g.freep].ptr, nunits(nbytes))
  IN  IF r[2] = 0 THEN r[1] ELSE [r[1] EXCEPT !.live = @ \cup {[bp |-> r[2], bytes |-> nbytes]}]

\* Somebody else moves the break.
Sbrk(h) == IF h.brk < HeapMax THEN [h EXCEPT !.brk = @ + 1, !.others = @ + 1] ELSE h

FreeLive(h, b) == ufree([h EXCEPT !.live = @ \ {b}], b.bp)

RECURSIVE Heaps(_)
Heaps(k) ==
  IF k = 0 THEN {NoHeap}
  ELSE UNION {{h, Sbrk(h)} \cup {malloc(h, n) : n \in NBytes} \cup {FreeLive(h, b) : b \in h.live} :
              h \in Heaps(k - 1)}

AllHeaps == {h \in Heaps(MaxMallocs) : h.freep # -1}

\* The free blocks, from p round to base
RECURSIVE FreeList(_, _, _)
FreeList(h, p, n) == IF p = 0 \/ n = 0 THEN <<>> ELSE <<p>> \o FreeList(h, h.hdr[p].ptr, n - 1)

Units(h, a) == a..a + h.hdr[a].size - 1

\* After any sequence of malloc() and free(), with the break moved by others in
\* between: the blocks in use and the free ones do not overlap, so that no two
\* callers share memory, and each has room for what it asked for behind the block's
\* header; the list comes back to base, rises in address, and has no
\* two blocks that touch, so that what was freed is one block again;
\* and all that sbrk() gave is in one of the blocks.
BlocksApart ==
  \A h \in AllHeaps :
    LET list == FreeList(h, h.hdr[0].ptr, HeapMax)
        live == {b.bp : b \in h.live}
        blocks == live \cup {list[k] : k \in DOMAIN list}
    IN  /\ Len(list) < HeapMax
        /\ \A k \in 1..Len(list) - 1 : list[k] + h.hdr[list[k]].size < list[k + 1]
        /\ \A a \in blocks : Units(h, a) \subseteq 1..h.brk - 1
        /\ \A a, b \in blocks : a # b => Units(h, a) \cap Units(h, b) = {}
        /\ \A k \in DOMAIN list : list[k] \notin live
        /\ \A b \in h.live : b.bytes <= (h.hdr[b.bp].size - 1) * HeaderBytes
        /\ MapThenSumSet(LAMBDA a : h.hdr[a].size, blocks) = h.brk - 1 - h.others
==============================================================================
