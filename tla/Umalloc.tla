------------------------------- MODULE Umalloc -------------------------------
(***************************************************************************)
(* The user-space allocator (umalloc.c): a circular list of free blocks in *)
(* the order of their addresses, with first fit, splitting and merging.    *)
(*                                                                         *)
(* Addresses count in units of one Header.  The static header base is      *)
(* address 0 and stands for the program's image, which ends at a page      *)
(* boundary; sbrk() gives out the units from 1 on.  A header that is not,  *)
(* or no longer, the start of a block is Dead: its words belong to the     *)
(* program or to the inside of a free block, and reading it is an error.   *)
(*                                                                         *)
(* Numbers of bytes are uints, which wrap around, and the argument of      *)
(* sbrk() is an int.  A process without memory has been killed.            *)
(***************************************************************************)
EXTENDS Integers, FiniteSets

CONSTANTS
  HEAP,      \* units that sbrk() can give, whole pages
  CORE,      \* the least morecore() asks for: 4096 units
  HDR,       \* sizeof(Header) in bytes
  PG,        \* units in a page
  WORD,      \* values of a uint, a multiple of 2 * HDR; more than 2 * HDR * HEAP
  Requests   \* numbers of bytes asked for, less than WORD

VARIABLES
  heap,      \* ptr and size of each header, freep, and the end of the process's memory
  used       \* blocks the program holds: address of the header, bytes asked for

vars == <<heap, used>>

Dead == -1
NoBlock == -2
Base == 0
Unit == 0..HEAP

Init ==
  /\ heap = [ptr |-> [a \in Unit |-> Dead], size |-> [a \in Unit |-> Dead],
             freep |-> NoBlock, brk |-> 1]
  /\ used = {}

\* Headers at the addresses in S become part of something else.
Bury(h, S) ==
  [h EXCEPT !.ptr = [a \in Unit |-> IF a \in S THEN Dead ELSE @[a]],
            !.size = [a \in Unit |-> IF a \in S THEN Dead ELSE @[a]]]

-----------------------------------------------------------------------------
(* free() *)

\* bp belongs between p and its successor, or at one of the ends.
Fits(h, p, bp) ==
  \/ bp > p /\ bp < h.ptr[p]
  \/ p >= h.ptr[p] /\ (bp > p \/ bp < h.ptr[p])

RECURSIVE Place(_, _, _)
Place(h, p, bp) == IF Fits(h, p, bp) THEN p ELSE Place(h, h.ptr[p], bp)

JoinUpper(h, p, bp) ==
  LET n == h.ptr[p]
  IN IF bp + h.size[bp] = n
       THEN Bury([h EXCEPT !.size[bp] = @ + h.size[n], !.ptr[bp] = h.ptr[n]], {n})
       ELSE [h EXCEPT !.ptr[bp] = n]

JoinLower(h, p, bp) ==
  IF p + h.size[p] = bp
    THEN Bury([h EXCEPT !.size[p] = @ + h.size[bp], !.ptr[p] = h.ptr[bp]], {bp})
    ELSE [h EXCEPT !.ptr[p] = bp]

free(h, bp) ==
  LET p == Place(h, h.freep, bp)
  IN [JoinLower(JoinUpper(h, p, bp), p, bp) EXCEPT !.freep = p]

-----------------------------------------------------------------------------
(* malloc() *)

\* Headers' worth of memory for nbytes, and the header itself; the sum wraps.
NUnits(nbytes) == ((nbytes + HDR - 1) % WORD) \div HDR + 1

\* nu * sizeof(Header), which wraps, as an int; in units.
SbrkArg(nu) ==
  LET units == WORD \div HDR
      n == nu % units
  IN IF n < units \div 2 THEN n ELSE n - units

\* sbrk(): the new end of memory, or 0 for failure.  growproc() takes 0 for one;
\* deallocuvm() has nothing to do when the new size has wrapped below 0.
Sbrk(h, n) ==
  IF n > 0 THEN (IF h.brk + n - 1 <= HEAP THEN h.brk + n ELSE 0)
  ELSE IF h.brk + n < 0 THEN h.brk ELSE h.brk + n

\* Whether address a is in one of the pages of a memory that ends at brk.
Mapped(brk, a) == a - 1 < ((brk - 1 + PG - 1) \div PG) * PG

\* A fault, or a process that has given back all its memory.
Killed(h) == [h EXCEPT !.brk = 0]

\* morecore() writes a header at the old end of memory and frees the block.
Morecore(h, nu) ==
  LET n == IF nu < CORE THEN CORE ELSE nu
      brk == Sbrk(h, SbrkArg(n))
  IN IF brk = 0 /\ SbrkArg(n) > 0 THEN [ok |-> FALSE, h |-> h]
     ELSE IF brk = 0 \/ ~Mapped(brk, h.brk) THEN [ok |-> FALSE, h |-> Killed(h)]
     ELSE [ok |-> TRUE, h |-> free([h EXCEPT !.size[h.brk] = n, !.brk = brk], h.brk)]

\* Faulty variant of Carve: the remainder keeps its old size.
CarveTooLong(h, prevp, p, nunits) ==
  IF h.size[p] = nunits
    THEN [block |-> p, h |-> [h EXCEPT !.ptr[prevp] = h.ptr[p], !.freep = prevp]]
    ELSE LET b == p + h.size[p] - nunits
         IN [block |-> b, h |-> [h EXCEPT !.size[b] = nunits, !.freep = prevp]]

\* The whole of block p, or its tail.
Carve(h, prevp, p, nunits) ==
  IF h.size[p] = nunits
    THEN [block |-> p, h |-> [h EXCEPT !.ptr[prevp] = h.ptr[p], !.freep = prevp]]
    ELSE LET b == p + h.size[p] - nunits
         IN [block |-> b, h |-> [h EXCEPT !.size[p] = @ - nunits, !.size[b] = nunits, !.freep = prevp]]

\* The search loop, from the block after prevp.
RECURSIVE Search(_, _, _)
Search(h, prevp, nunits) ==
  LET p == h.ptr[prevp]
  IN IF h.size[p] >= nunits THEN Carve(h, prevp, p, nunits)
     ELSE IF p # h.freep THEN Search(h, p, nunits)
     ELSE LET g == Morecore(h, nunits)
          IN IF g.ok THEN Search(g.h, g.h.freep, nunits) ELSE [block |-> NoBlock, h |-> g.h]

\* The first call makes a list of base alone.
Start(h) ==
  IF h.freep = NoBlock
    THEN [h EXCEPT !.ptr[Base] = Base, !.size[Base] = 0, !.freep = Base]
    ELSE h

\* The program then writes into the block, and may overwrite ptr with data
\* that is not a header: s.ptr of a block in use is Dead.
Malloc(nbytes) ==
  LET h == Start(heap)
      m == Search(h, h.freep, NUnits(nbytes))
  IN IF m.block = NoBlock
       THEN heap' = m.h /\ UNCHANGED used
       ELSE /\ heap' = [m.h EXCEPT !.ptr[m.block] = Dead]
            /\ used' = used \cup {[addr |-> m.block, bytes |-> nbytes]}

FreeBlock(b) ==
  /\ heap' = free(heap, b.addr)
  /\ used' = used \ {b}

\* The block has room for what was asked for besides its header.
HasRoom(b) == (heap.size[b.addr] - 1) * HDR >= b.bytes

\* A program is not followed any further when it has been killed, or uses memory
\* that is not its own: a block beyond the end of memory, or one without room.
Running == heap.brk > 0 /\ \A b \in used : b.addr + heap.size[b.addr] <= heap.brk /\ HasRoom(b)

Next == Running /\ ((\E n \in Requests : Malloc(n)) \/ (\E b \in used : FreeBlock(b)))

Spec == Init /\ [][Next]_vars

-----------------------------------------------------------------------------
(* Properties *)

FreeBlocks == {a \in Unit : a # Base /\ heap.ptr[a] # Dead}
Blocks == FreeBlocks \cup {b.addr : b \in used}
Extent(a) == a..(a + heap.size[a] - 1)

\* The free blocks and the blocks of the program tile the heap.
Tiling ==
  /\ UNION {Extent(a) : a \in Blocks} = 1..(heap.brk - 1)
  /\ \A a, b \in Blocks : a # b => Extent(a) \cap Extent(b) = {}

\* Every header on the list points to the next free block above, the last one to
\* base, and no two free blocks touch.
Merged ==
  heap.freep # NoBlock =>
    \A a \in FreeBlocks \cup {Base} :
      LET above == {b \in FreeBlocks : b > a}
      IN /\ above = {} => heap.ptr[a] = Base
         /\ above # {} => heap.ptr[a] \in above /\ \A b \in above : heap.ptr[a] <= b
         /\ a # Base => a + heap.size[a] \notin FreeBlocks

\* Requests whose block, rounded up and with its header, is less than half a word:
\* 2 GB.
Ordinary(nbytes) == nbytes + 2 * HDR <= WORD \div 2

\* malloc() and free() neither lose memory nor hand it out twice, free() keeps the
\* list in the order that lets it merge, and a block has room for what was asked
\* for.  A larger request is the limit of this: morecore() passes a negative int to
\* sbrk(), which succeeds without growing the memory, and from 2^32 - 7 bytes on the
\* sum in malloc() wraps to a header alone.
HeapSound ==
  heap.brk > 0 /\ (\A b \in used : Ordinary(b.bytes)) =>
    Tiling /\ Merged /\ \A b \in used : HasRoom(b)
=============================================================================
