------------------------------- MODULE Images --------------------------------
(***************************************************************************)
(* What the kernel promises about user memory: every process has an image, *)
(* a sequence of page contents, that only its own system calls and stores  *)
(* change.  A call that fails leaves the image as it was.                  *)
(***************************************************************************)
EXTENDS Integers, Sequences, FiniteSetsExt

CONSTANTS Proc, Program, PGSIZE, Zero, Args

VARIABLE image

NoImage == << "none" >>

Pages(bytes) == (bytes + PGSIZE - 1) \div PGSIZE

\* The image of a program: its segments from page 0 up, a guard page and a
\* stack page that holds the arguments.
Loaded(prog) ==
  LET segs == DOMAIN prog.segs
      end(s) == prog.segs[s].vaddr + prog.segs[s].memsz
      top == Pages(Max({end(s) : s \in segs}))
      from(i) == {s \in segs : /\ prog.segs[s].vaddr <= (i - 1) * PGSIZE
                               /\ (i - 1) * PGSIZE < prog.segs[s].vaddr + prog.segs[s].filesz}
  IN [i \in 1..(top + 2) |-> IF i = top + 2 THEN Args
                             ELSE IF i = top + 1 THEN "guard"
                             ELSE IF from(i) = {} THEN Zero
                             ELSE prog.segs[Max(from(i))].text]

Init == \E p \in Proc : image = [q \in Proc |-> IF q = p THEN << "text" >> ELSE NoImage]

Store(p) == \E i \in DOMAIN image[p] : image[p][i] # "guard" /\ image' = [image EXCEPT ![p][i] = "x"]
Grow(p) == \E k \in 1..8 : image' = [image EXCEPT ![p] = @ \o [i \in 1..k |-> Zero]]
Shrink(p) == \E k \in 0..(Len(image[p]) - 1) : image' = [image EXCEPT ![p] = SubSeq(@, 1, k)]
Exec(p) == \E prog \in Program : image' = [image EXCEPT ![p] = Loaded(prog)]
Fork(p) == \E q \in Proc : image[q] # NoImage /\ image' = [image EXCEPT ![p] = image[q]]
Reap(p) == image' = [image EXCEPT ![p] = NoImage]

\* A step changes the image of one process, which fork() has just created or
\* which was there.
Next == \E p \in Proc :
          /\ image'[p] # image[p]
          /\ \/ image[p] = NoImage /\ Fork(p)
             \/ image[p] # NoImage /\ (Store(p) \/ Grow(p) \/ Shrink(p) \/ Exec(p) \/ Reap(p))

Spec == Init /\ [][Next]_image
=============================================================================
