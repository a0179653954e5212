------------------------------- MODULE Images -------------------------------
(***************************************************************************)
(* What kernel/vm.c, exec.c and the memory part of proc.c promise: every   *)
(* process has an image of its own, a size and the contents of its pages.  *)
(* A call that fails leaves it alone, and no call touches another's.       *)
(***************************************************************************)
EXTENDS Integers, Sequences

CONSTANTS Proc, PGSIZE, Programs, Sbrks, Masks

VARIABLES image,   \* process -> [live, sz, pages], or NoImage
          mask     \* process -> trace_mask

NoImage == [live |-> FALSE, sz |-> 0, pages |-> <<>>]
Page(data, w, u) == [data |-> data, w |-> w, u |-> u]
PagesIn(sz) == (sz + PGSIZE - 1) \div PGSIZE

Init ==
  /\ \E p \in Proc :
       image = [q \in Proc |->
         IF q = p THEN [live |-> TRUE, sz |-> PGSIZE,
                       pages |-> [v \in {0} |-> Page("init", TRUE, TRUE)]]
         ELSE NoImage]
  /\ mask = [p \in Proc |-> 0]

\* The image that a program starts with: its segments, the guard page and the
\* stack.  A page has the permissions of the first segment that reaches it.
Top(prog) == CHOOSE top \in {PagesIn(prog[i].va + prog[i].memsz) : i \in DOMAIN prog} :
               \A i \in DOMAIN prog : PagesIn(prog[i].va + prog[i].memsz) <= top
Loaded(prog, v) == \E i \in DOMAIN prog : /\ prog[i].va \div PGSIZE <= v
                                          /\ v * PGSIZE < prog[i].va + prog[i].filesz
Writable(prog, v) ==
  LET reach == {i \in DOMAIN prog : v < PagesIn(prog[i].va + prog[i].memsz)}
  IN  prog[CHOOSE i \in reach : \A j \in reach : i <= j].w
Fresh(prog) ==
  [live |-> TRUE, sz |-> (Top(prog) + 2) * PGSIZE,
   pages |-> [v \in 0 .. Top(prog) + 1 |->
     IF v = Top(prog) THEN Page("zero", TRUE, FALSE)
     ELSE IF v > Top(prog) THEN Page("args", TRUE, TRUE)
     ELSE Page(IF Loaded(prog, v) THEN "text" ELSE "zero", Writable(prog, v), TRUE)]]

Fork == \E p, c \in Proc :
  /\ image[p].live /\ image[c] = NoImage
  /\ image' = [image EXCEPT ![c] = image[p]]
  /\ mask' = [mask EXCEPT ![c] = mask[p]]

\* sbrk(n): new pages are zero, kept pages are as they were.
Resized(im, sz) ==
  [live |-> TRUE, sz |-> sz,
   pages |-> [v \in 0 .. PagesIn(sz) - 1 |->
     IF v \in DOMAIN im.pages THEN im.pages[v] ELSE Page("zero", TRUE, TRUE)]]
Sbrk == \E p \in Proc, n \in Sbrks :
  /\ image[p].live /\ image[p].sz + n >= 0
  /\ image' = [image EXCEPT ![p] = Resized(@, @.sz + n)]
  /\ UNCHANGED mask

Exec == \E p \in Proc, prog \in Programs :
  /\ image[p].live
  /\ image' = [image EXCEPT ![p] = Fresh(prog)]
  /\ UNCHANGED mask

\* A store, by the program or by the kernel for it.
Store == \E p \in Proc :
  \E S \in SUBSET {v \in DOMAIN image[p].pages : image[p].pages[v].w /\ image[p].pages[v].u} :
    /\ image' = [image EXCEPT ![p].pages =
         [v \in DOMAIN @ |-> IF v \in S THEN [@[v] EXCEPT !.data = "data"] ELSE @[v]]]
    /\ UNCHANGED mask

Free == \E p \in Proc :
  /\ image' = [image EXCEPT ![p] = NoImage]
  /\ mask' = [mask EXCEPT ![p] = 0]

Trace == \E p \in Proc, k \in Masks :
  /\ image[p].live
  /\ mask' = [mask EXCEPT ![p] = k]
  /\ UNCHANGED image

Next == Fork \/ Sbrk \/ Exec \/ Store \/ Free \/ Trace

Spec == Init /\ [][Next]_<<image, mask>>

=============================================================================
