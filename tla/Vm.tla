--------------------------------- MODULE Vm ----------------------------------
(***************************************************************************)
(* User memory: the two-level page tables of vm.c, the loading of programs *)
(* by exec(), growproc(), and what fork() and wait() do with memory.       *)
(*                                                                         *)
(* An address space as is a page directory, one page table that stands for *)
(* those of the kernel half, a page table (or NoPage) for each group of    *)
(* NPTENTRIES user pages, and the entries of the user pages.  The machine  *)
(* m is the free pages, the contents of all pages, whether the kernel has  *)
(* panicked and whether a free page has been freed.  Pages are alike, so   *)
(* kalloc() takes the least one.                                           *)
(*                                                                         *)
(* A call works on its own address space and shares only the free pages,   *)
(* one kalloc() or kfree() at a time.  What other processes hold for the   *)
(* moment is the part of the free pages that the call does not see.        *)
(***************************************************************************)
EXTENDS Integers, Sequences, SequencesExt, FiniteSetsExt

CONSTANTS
  Proc,        \* process slots
  Page,        \* physical pages that kalloc() gives out
  PGSIZE,      \* bytes in a page
  NPTENTRIES,  \* entries of a page table
  KERNBASE,    \* end of user addresses, in bytes; a word holds 2 * KERNBASE values
  MAXARG,
  Program,     \* programs on disk: loadable segments and lengths of the arguments
  Increment,   \* what sbrk() is asked for
  Touched,     \* pages that processes store into
  Zero, Args   \* contents of a fresh page and of a stack with arguments

VARIABLES
  m,           \* [free, mem, panicked, twice]
  as,          \* address space of each process, or NoSpace
  kstack,      \* kernel stack page of each process, or NoPage
  sz           \* size of each process in bytes

vars == <<m, as, kstack, sz>>

NoPage == 0
Junk == "junk"
WORD == 2 * KERNBASE
INT == 2        \* sizeof(int), and of a pointer
UserPage == 0..(KERNBASE \div PGSIZE - 1)
UserTab == 0..(KERNBASE \div (PGSIZE * NPTENTRIES) - 1)
NoPte == [pa |-> NoPage, u |-> FALSE]
NoSpace == [dir |-> NoPage, ktab |-> NoPage, tab |-> [t \in UserTab |-> NoPage],
            pte |-> [v \in UserPage |-> NoPte]]

PGROUNDUP(a) == ((a + PGSIZE - 1) \div PGSIZE) * PGSIZE
Vpn(a) == a \div PGSIZE
PDX(a) == a \div (PGSIZE * NPTENTRIES)

-----------------------------------------------------------------------------
(* kalloc() and kfree() *)

Out(s) == s.free = {}
Kalloc(s) == Min(s.free)
Taken(s, x) == [s EXCEPT !.free = @ \ {Kalloc(s)}, !.mem[Kalloc(s)] = x]
Kfree(s, pg) ==
  [s EXCEPT !.free = @ \cup {pg}, !.mem[pg] = Junk, !.twice = @ \/ pg \in s.free]
Panic(s) == [s EXCEPT !.panicked = TRUE]

-----------------------------------------------------------------------------
(* Page tables *)

\* mappages() of one page, with the page table that walkpgdir() creates.
MapPage(s, d, a, pg, u) ==
  LET t == PDX(a)
      set(e) == [e EXCEPT !.pte[Vpn(a)] = [pa |-> pg, u |-> u]]
  IN IF d.tab[t] = NoPage /\ Out(s) THEN [ok |-> FALSE, m |-> s, as |-> d]
     ELSE IF d.pte[Vpn(a)] # NoPte THEN [ok |-> TRUE, m |-> Panic(s), as |-> d]
     ELSE IF d.tab[t] = NoPage
       THEN [ok |-> TRUE, m |-> Taken(s, "table"), as |-> set([d EXCEPT !.tab[t] = Kalloc(s)])]
       ELSE [ok |-> TRUE, m |-> s, as |-> set(d)]

NextTable(a) == (PDX(a) + 1) * NPTENTRIES * PGSIZE

\* Faulty variant of Unmap: the entry stays in the page table.
UnmapNot(d, a) == d

\* *pte = 0
Unmap(d, a) == [d EXCEPT !.pte[Vpn(a)] = NoPte]

\* The loop of deallocuvm(), which skips the pages of a missing page table.
RECURSIVE DeallocLoop(_, _, _, _)
DeallocLoop(s, d, a, oldsz) ==
  IF a >= oldsz THEN [m |-> s, as |-> d]
  ELSE IF d.tab[PDX(a)] = NoPage
    THEN DeallocLoop(s, d, NextTable(a), oldsz)
  ELSE IF d.pte[Vpn(a)] = NoPte THEN DeallocLoop(s, d, a + PGSIZE, oldsz)
  ELSE DeallocLoop(Kfree(s, d.pte[Vpn(a)].pa), Unmap(d, a), a + PGSIZE, oldsz)

Deallocuvm(s, d, oldsz, newsz) ==
  IF newsz >= oldsz THEN [sz |-> oldsz, m |-> s, as |-> d]
  ELSE LET r == DeallocLoop(s, d, PGROUNDUP(newsz), oldsz)
       IN [sz |-> newsz, m |-> r.m, as |-> r.as]

\* Faulty variant of Unmapped: the page that could not be mapped is forgotten.
UnmappedForgets(s, d, pg, oldsz, newsz) == [Deallocuvm(s, d, newsz, oldsz) EXCEPT !.sz = 0]

\* allocuvm() has page pg but no page table to map it in.
Unmapped(s, d, pg, oldsz, newsz) ==
  LET undo == Deallocuvm(s, d, newsz, oldsz)
  IN [sz |-> 0, m |-> Kfree(undo.m, pg), as |-> undo.as]

\* The loop of allocuvm(); the size is 0 when memory runs out.
RECURSIVE AllocLoop(_, _, _, _, _)
AllocLoop(s, d, a, oldsz, newsz) ==
  IF a >= newsz THEN [sz |-> newsz, m |-> s, as |-> d]
  ELSE IF Out(s) THEN [Deallocuvm(s, d, newsz, oldsz) EXCEPT !.sz = 0]
  ELSE LET r == MapPage(Taken(s, Zero), d, a, Kalloc(s), TRUE)
       IN IF r.ok THEN AllocLoop(r.m, r.as, a + PGSIZE, oldsz, newsz)
          ELSE Unmapped(r.m, r.as, Kalloc(s), oldsz, newsz)

\* Where allocuvm() starts.
FirstNew(oldsz) == PGROUNDUP(oldsz)

Allocuvm(s, d, oldsz, newsz) ==
  IF newsz >= KERNBASE THEN [sz |-> 0, m |-> s, as |-> d]
  ELSE IF newsz < oldsz THEN [sz |-> oldsz, m |-> s, as |-> d]
  ELSE AllocLoop(s, d, FirstNew(oldsz), oldsz, newsz)

Tables(d) == ({d.tab[t] : t \in UserTab} \cup {d.ktab, d.dir}) \ {NoPage}

Freevm(s, d) ==
  FoldSet(LAMBDA pg, acc : Kfree(acc, pg), Deallocuvm(s, d, KERNBASE, 0).m, Tables(d))

\* A directory and the kernel's page tables; what was taken is given back
\* when one of them cannot be had.
Setupkvm(s) ==
  LET s1 == Taken(s, "table")
  IN IF Out(s) \/ Out(s1) THEN [ok |-> FALSE, m |-> s, as |-> NoSpace]
     ELSE [ok |-> TRUE, m |-> Taken(s1, "table"),
           as |-> [NoSpace EXCEPT !.dir = Kalloc(s), !.ktab = Kalloc(s1)]]

\* The loop of copyuvm(), from address a of address space d into the copy c.
\* When the copy of a page cannot be mapped, freevm() does not find it.
RECURSIVE CopyLoop(_, _, _, _, _)
CopyLoop(s, d, c, a, size) ==
  IF a >= size THEN [ok |-> TRUE, m |-> s, as |-> c]
  ELSE IF d.pte[Vpn(a)] = NoPte THEN [ok |-> FALSE, m |-> Panic(s), as |-> c]
  ELSE IF Out(s) THEN [ok |-> FALSE, m |-> Freevm(s, c), as |-> NoSpace]
  ELSE LET e == d.pte[Vpn(a)]
           r == MapPage(Taken(s, s.mem[e.pa]), c, a, Kalloc(s), e.u)
       IN IF r.ok THEN CopyLoop(r.m, d, r.as, a + PGSIZE, size)
          ELSE [ok |-> FALSE, m |-> Freevm(r.m, r.as), as |-> NoSpace]

Copyuvm(s, d, size) ==
  LET k == Setupkvm(s) IN IF k.ok THEN CopyLoop(k.m, d, k.as, 0, size) ELSE k

\* Faulty variant of Clearpteu: the page stays accessible.
ClearpteuNot(d, a) == d

Clearpteu(d, a) == [d EXCEPT !.pte[Vpn(a)].u = FALSE]

\* uva2ka() of an address with a page table
Uva2ka(d, a) == IF d.pte[Vpn(a)].u THEN d.pte[Vpn(a)].pa ELSE NoPage

Covered(a, len) == {v \in UserPage : v * PGSIZE < a + len /\ a < (v + 1) * PGSIZE}

\* copyout() into the stack of a new image; a copy that fails half-way is only
\* seen by an image that is thrown away.
Copyout(s, d, a, len) ==
  IF \E v \in Covered(a, len) : Uva2ka(d, v * PGSIZE) = NoPage
    THEN [ok |-> FALSE, m |-> s]
    ELSE [ok |-> TRUE, m |-> [s EXCEPT !.mem = [pg \in Page |->
            IF pg \in {d.pte[v].pa : v \in Covered(a, len)} THEN Args ELSE @[pg]]]]

-----------------------------------------------------------------------------
(* exec() *)

\* loaduvm(): a page below the size of the new image that has no entry is a panic.
Loaduvm(s, d, seg) ==
  LET vs == Covered(seg.vaddr, seg.filesz)
  IN IF \E v \in vs : d.pte[v] = NoPte THEN Panic(s)
     ELSE [s EXCEPT !.mem = [pg \in Page |-> IF pg \in {d.pte[v].pa : v \in vs} THEN seg.text ELSE @[pg]]]

\* One loadable program header; r is the image so far.
LoadSegment(r, seg) ==
  LET end == (seg.vaddr + seg.memsz) % WORD
      a == Allocuvm(r.m, r.as, r.sz, end)
  IN IF ~r.ok \/ seg.memsz < seg.filesz \/ end < seg.vaddr THEN [r EXCEPT !.ok = FALSE]
     ELSE IF a.sz = 0 \/ seg.vaddr % PGSIZE # 0 \/ seg.short
       THEN [ok |-> FALSE, m |-> a.m, as |-> a.as, sz |-> a.sz]
     ELSE [ok |-> TRUE, m |-> Loaduvm(a.m, a.as, seg), as |-> a.as, sz |-> a.sz]

\* Push one argument string below r.sp.
PushArg(r, len) ==
  LET sp == ((r.sp - len) \div INT) * INT
      c == Copyout(r.m, r.as, sp, len)
  IN IF ~r.ok \/ ~c.ok THEN [r EXCEPT !.ok = FALSE]
     ELSE [r EXCEPT !.m = c.m, !.sp = sp]

\* A guard page, the stack page, the strings and the vector of pointers.
Stack(r, args) ==
  LET a == Allocuvm(r.m, r.as, PGROUNDUP(r.sz), PGROUNDUP(r.sz) + 2 * PGSIZE)
      d == Clearpteu(a.as, a.sz - 2 * PGSIZE)
      base == [ok |-> Len(args) <= MAXARG, m |-> a.m, as |-> d, sz |-> a.sz, sp |-> a.sz]
      strs == FoldLeft(PushArg, base, args)
  IN IF ~r.ok THEN r
     ELSE IF a.sz = 0 THEN [ok |-> FALSE, m |-> a.m, as |-> a.as, sz |-> 0]
     ELSE PushArg(strs, (3 + Len(args) + 1) * INT)

NewImage(s, prog) ==
  LET k == Setupkvm(s)
  IN Stack(FoldLeft(LoadSegment, [ok |-> k.ok, m |-> k.m, as |-> k.as, sz |-> 0], prog.segs), prog.args)

-----------------------------------------------------------------------------
(* System calls *)

\* The result of f on the pages that other calls leave to this one.
Sees(k) == [m EXCEPT !.free = {pg \in @ : Cardinality({q \in @ : q < pg}) < k}]
Back(k, s) == [s EXCEPT !.free = @ \cup (m.free \ Sees(k).free)]
Seen == 0..Cardinality(m.free)

\* A process can run as long as its first page is there.
Running(p) == ~m.panicked /\ as[p].pte[0] # NoPte

\* The first process: userinit() and inituvm().
Init ==
  LET boot == [free |-> Page, mem |-> [pg \in Page |-> Junk], panicked |-> FALSE,
               twice |-> FALSE]
      k == Setupkvm(Taken(boot, "kstack"))
      i == MapPage(Taken(k.m, "text"), k.as, 0, Kalloc(k.m), TRUE)
      first == Min(Proc)
  IN /\ m = i.m
     /\ as = [p \in Proc |-> IF p = first THEN i.as ELSE NoSpace]
     /\ kstack = [p \in Proc |-> IF p = first THEN Kalloc(boot) ELSE NoPage]
     /\ sz = [p \in Proc |-> IF p = first THEN PGSIZE ELSE 0]

\* The process stores into a page it may use.
Store(p, v) ==
  /\ Running(p) /\ as[p].pte[v].u
  /\ m' = [m EXCEPT !.mem[as[p].pte[v].pa] = "x"]
  /\ UNCHANGED <<as, kstack, sz>>

SizeAfter(old, new, n) == IF new = 0 THEN old ELSE new

\* growproc(): a result of 0 is taken for a failure and the size is kept, also
\* when the process has given back everything.
Grown(p, k, n) ==
  LET r == IF n > 0 THEN Allocuvm(Sees(k), as[p], sz[p], sz[p] + n)
           ELSE Deallocuvm(Sees(k), as[p], sz[p], (sz[p] + n) % WORD)
  IN [r EXCEPT !.sz = SizeAfter(sz[p], r.sz, n)]

Sbrk(p) ==
  /\ Running(p)
  /\ \E k \in Seen, n \in Increment :
       LET r == Grown(p, k, n)
       IN /\ m' = Back(k, r.m)
          /\ as' = [as EXCEPT ![p] = r.as]
          /\ sz' = [sz EXCEPT ![p] = r.sz]
  /\ UNCHANGED kstack

Replaced(s, old) == Freevm(s, old)

\* exec(): commit to the new image and free the old one, or free what was built.
\* sys_exec() refuses a longer vector of arguments.
Exec(p) ==
  /\ Running(p)
  /\ \E k \in Seen, prog \in {q \in Program : Len(q.args) < MAXARG} :
       LET r == NewImage(Sees(k), prog)
       IN IF r.ok THEN /\ m' = Replaced(Back(k, r.m), as[p])
                       /\ as' = [as EXCEPT ![p] = r.as]
                       /\ sz' = [sz EXCEPT ![p] = r.sz]
          ELSE /\ m' = Back(k, IF r.as = NoSpace THEN r.m ELSE Freevm(r.m, r.as))
               /\ UNCHANGED <<as, sz>>
  /\ UNCHANGED kstack

\* The memory of fork(): a kernel stack in allocproc() and a copy of the image.
Fork(p, q) ==
  /\ Running(p) /\ kstack[q] = NoPage
  /\ \E k \in Seen :
       LET s == Sees(k)
           c == Copyuvm(Taken(s, "kstack"), as[p], sz[p])
       IN IF Out(s) THEN UNCHANGED vars
          ELSE IF c.ok THEN /\ m' = Back(k, c.m)
                            /\ as' = [as EXCEPT ![q] = c.as]
                            /\ kstack' = [kstack EXCEPT ![q] = Kalloc(s)]
                            /\ sz' = [sz EXCEPT ![q] = sz[p]]
          ELSE m' = Back(k, Kfree(c.m, Kalloc(s))) /\ UNCHANGED <<as, kstack, sz>>

\* wait() frees the kernel stack and the image of a child that has exited.  The
\* first process is nobody's child.
Reap(p) ==
  /\ ~m.panicked /\ kstack[p] # NoPage /\ p # Min(Proc)
  /\ m' = Freevm(Kfree(m, kstack[p]), as[p])
  /\ as' = [as EXCEPT ![p] = NoSpace]
  /\ kstack' = [kstack EXCEPT ![p] = NoPage]
  /\ sz' = [sz EXCEPT ![p] = 0]

Next ==
  \E p \in Proc : \/ \E v \in Touched : Store(p, v)
                  \/ Sbrk(p) \/ Exec(p) \/ Reap(p)
                  \/ \E q \in Proc : Fork(p, q)

Spec == Init /\ [][Next]_vars

-----------------------------------------------------------------------------
(* The checks on the arguments of system calls *)

Fetchint(p, a) == ~(a >= sz[p] \/ (a + INT) % WORD > sz[p])

\* Faulty variant of Argptr: the end of the block is not tested.
ArgptrStart(p, a, size) == size >= 0 /\ a < sz[p]

Argptr(p, a, size) == ~(size < 0 \/ a >= sz[p] \/ (a + size) % WORD > sz[p])

-----------------------------------------------------------------------------
(* Properties *)

\* Where a page can be: <<process, use, index>>.
Use ==
  Proc \X ({<<"kstack", 0>>, <<"dir", 0>>, <<"ktab", 0>>}
             \cup {<<"tab", t>> : t \in UserTab} \cup {<<"page", v>> : v \in UserPage})
PageAt(x) ==
  LET d == as[x[1]]
  IN CASE x[2][1] = "kstack" -> kstack[x[1]]
       [] x[2][1] = "dir" -> d.dir
       [] x[2][1] = "ktab" -> d.ktab
       [] x[2][1] = "tab" -> d.tab[x[2][2]]
       [] x[2][1] = "page" -> d.pte[x[2][2]].pa
InUse == {x \in Use : PageAt(x) # NoPage}
Lost == Page \ (m.free \cup {PageAt(x) : x \in InUse})

\* No failure path frees a page that is still mapped, frees one twice or maps one
\* twice: a page has one use at a time, or is free.  The tests of this in vm.c and
\* kalloc.c, panic("remap") and panic("kfree") among them, never fail.
OneUse ==
  /\ \A x \in InUse : /\ PageAt(x) \notin m.free
                       /\ \A y \in InUse : PageAt(x) = PageAt(y) => x = y
  /\ ~m.panicked /\ ~m.twice

\* The failure paths give back everything they took, with one exception: a
\* fork() that has copied a page and then finds no page table for it.  So a
\* page is lost only where a process slot is free, one at a time, and by a call
\* that leaves the processes as they were.
LostOnlyByFork ==
  [][Lost' # Lost => /\ Lost \subseteq Lost' /\ Cardinality(Lost') = Cardinality(Lost) + 1
                     /\ (\E q \in Proc : kstack[q] = NoPage) /\ UNCHANGED <<InUse, sz>>]_vars

\* p->sz is the truth about the page table, also after a call that failed: the
\* pages below it are mapped and no others, except that a process that has
\* given back its whole memory has none (and keeps its size).  So what the
\* argument checks of a running process accept is mapped, and the kernel can use
\* it without a fault.
SizeMapped ==
  /\ \A p \in Proc :
       LET mapped == {v \in UserPage : as[p].pte[v] # NoPte}
       IN mapped = {} \/ mapped = {v \in UserPage : v * PGSIZE < sz[p]}
  /\ \A p \in {q \in Proc : Running(q)}, a \in 0..(WORD - 1) :
       /\ Fetchint(p, a) => \A v \in {Vpn(a), Vpn(a + INT - 1)} : as[p].pte[v] # NoPte
       /\ \A size \in {0, 1, PGSIZE - 1, PGSIZE + 1, KERNBASE - 1} :
            Argptr(p, a, size) => \A v \in Covered(a, size) : as[p].pte[v] # NoPte

\* The memory of the processes is what Images says: a page table is private, a
\* fresh page is zero, a copy is exact, and a call that fails changes nothing.
Image(p) ==
  IF kstack[p] = NoPage THEN << "none" >>
  ELSE [i \in 1..Cardinality({v \in UserPage : as[p].pte[v] # NoPte}) |->
          LET e == as[p].pte[i - 1] IN IF e.u THEN m.mem[e.pa] ELSE "guard"]
Abstract == INSTANCE Images WITH image <- [p \in Proc |-> Image(p)]
ImplementsImages == Abstract!Spec
=============================================================================
