------------------------------ MODULE UMalloc ------------------------------
(***************************************************************************)
(* The memory allocator of user programs, user/umalloc.c, and a program    *)
(* that calls it and the kernel in any order.                              *)
(*                                                                         *)
(* A heap h is the circular free list h.free, which maps the address of a  *)
(* block to its header, entered at h.freep; and the sizes of the blocks    *)
(* that the program holds, h.used.  Sizes and addresses are in units of a  *)
(* header.                                                                 *)
(***************************************************************************)
EXTENDS Memory

CONSTANTS
  Sbrks,     \* the arguments of sbrk()
  Files,     \* what exec() can find: [prog, segs]
  Argvs,     \* the arguments of exec(): sequences of [va, nul]
  Units,     \* what programs ask malloc() for: nunits
  MINCORE,   \* the least that morecore() asks for, 4096 in the code
  MaxSpent   \* bound on the weight of the calls of programs

Base == 0    \* &base, below every address that sbrk() returns

\* freep and base at malloc()'s first call.
EmptyHeap == [freep |-> Base, free |-> Base :> [ptr |-> Base, size |-> 0], used |-> Empty]

\* The k-th block of the list after freep.
Node(h, k) ==
  LET node[j \in 0..k] == IF j = 0 THEN h.freep ELSE h.free[node[j - 1]].ptr IN node[k]

\* Mutant: no joining with the block above.
JoinUpperNot(h, p, bp) ==
  [h EXCEPT !.free = (bp :> [ptr |-> h.free[p].ptr, size |-> h.used[bp]]) @@ @]

\* free(): block bp, between p and the next free block, joins the next one,
JoinUpper(h, p, bp) ==
  LET next == h.free[p].ptr IN
  IF bp + h.used[bp] = next
    THEN [h EXCEPT !.free = (bp :> [ptr |-> @[next].ptr, size |-> h.used[bp] + @[next].size])
                            @@ Restrict(@, DOMAIN @ \ {next})]
    ELSE [h EXCEPT !.free = (bp :> [ptr |-> next, size |-> h.used[bp]]) @@ @]

\* and then p, if they touch.
JoinLower(h, p, bp) ==
  IF p + h.free[p].size = bp
    THEN [h EXCEPT !.free = [Restrict(@, DOMAIN @ \ {bp})
                               EXCEPT ![p] = [ptr |-> h.free[bp].ptr, size |-> @.size + h.free[bp].size]]]
    ELSE [h EXCEPT !.free[p].ptr = bp]

FreeAt(h, p, bp) ==
  [JoinLower(JoinUpper(h, p, bp), p, bp)
     EXCEPT !.freep = p, !.used = Restrict(@, DOMAIN @ \ {bp})]

\* free() of bp: the loop finds the first p around bp.
HeapFree(h, bp) ==
  LET Around(p, q) == \/ bp > p /\ bp < q
                      \/ p >= q /\ (bp > p \/ bp < q)
      k == Min({j \in 0..Cardinality(DOMAIN h.free) : Around(Node(h, j), Node(h, j + 1))})
  IN FreeAt(h, Node(h, k), bp)

\* The blocks, in the order of the loop of malloc(), that are large enough.
Fits(h, n) == {k \in 1..Cardinality(DOMAIN h.free) : h.free[Node(h, k)].size >= n}

\* malloc() takes the block p after prevp, or its tail.
Take(h, prevp, p, n) ==
  IF h.free[p].size = n
    THEN [free |-> [Restrict(h.free, DOMAIN h.free \ {p}) EXCEPT ![prevp].ptr = h.free[p].ptr],
          used |-> (p :> n) @@ h.used, freep |-> prevp]
    ELSE [free |-> [h.free EXCEPT ![p].size = @ - n],
          used |-> ((p + h.free[p].size - n) :> n) @@ h.used, freep |-> prevp]
TakeAt(h, k, n) == Take(h, Node(h, k - 1), Node(h, k), n)
HeapTake(h, n) == TakeAt(h, Min(Fits(h, n)), n)

\* morecore(): what sbrk() returned becomes a block, which is freed.
Core(h, brk, n) == HeapFree([h EXCEPT !.used = (brk :> n) @@ @], brk)

-----------------------------------------------------------------------------
(* A program: its name, where it is, its heap, the command and child it    *)
(* has in mind, and its standard input, standard output and further files. *)

Console == [end |-> "console", page |-> 0]
NoProgram ==
  [prog |-> "none", pc |-> "start", heap |-> EmptyHeap, cmd |-> [type |-> "none"], kid |-> 0,
   in |-> Console, out |-> Console, ext |-> {}]

\* exec() keeps the open files.
Started(prog, old) ==
  [NoProgram EXCEPT !.prog = prog, !.in = old.in, !.out = old.out, !.ext = old.ext]

\* The program that makes any call, within the bound; system calls weigh 2.
AnyCall(p, weight) ==
  /\ User(p) /\ data[p].prog = "any"
  /\ spent + weight <= MaxSpent
  /\ spent' = spent + weight

AnyFork(p, np) ==
  /\ AnyCall(p, 2)
  /\ Fork(p, np)
  /\ data' = [data EXCEPT ![np] = data[p]]

AnyForkFails(p) ==
  /\ AnyCall(p, 2)
  /\ ForkFails(p)
  /\ UNCHANGED data

\* A program with a heap does not give its memory back.
AnySbrk(p, n, ok) ==
  /\ AnyCall(p, 2)
  /\ n < 0 => data[p].heap = EmptyHeap
  /\ Sbrk(p, n, ok)
  /\ UNCHANGED data

AnyExit(p) ==
  /\ AnyCall(p, 0)
  /\ Exit(p, {})
  /\ data' = [data EXCEPT ![p] = NoProgram]

AnyWait(p, q) ==
  /\ AnyCall(p, 0)
  /\ Wait(p, q)
  /\ UNCHANGED data

\* It executes programs like itself, and what is no program.
AnyExec(p, file, args) ==
  /\ AnyCall(p, 2)
  /\ file.prog \in {"any", "none"}
  /\ SysExec(p, file, args)
  /\ UNCHANGED data

\* A call of the allocator; base is still in the program's memory.
HeapCall(p) == AnyCall(p, 1) /\ proc[p].sz > Base

Malloc(p, n) ==
  /\ HeapCall(p)
  /\ Fits(data[p].heap, n) # {}
  /\ data' = [data EXCEPT ![p].heap = HeapTake(@, n)]
  /\ UNCHANGED kernelVars

MallocGrow(p, n) ==
  LET nu == Max({n, MINCORE}) IN
  /\ HeapCall(p)
  /\ Fits(data[p].heap, n) = {}
  /\ \/ /\ Sbrk(p, nu, TRUE)
        /\ data' = [data EXCEPT ![p].heap = HeapTake(Core(@, proc[p].sz, nu), n)]
     \/ /\ Sbrk(p, nu, FALSE)
        /\ UNCHANGED data

Free(p) ==
  /\ HeapCall(p)
  /\ \E bp \in DOMAIN data[p].heap.used : data' = [data EXCEPT ![p].heap = HeapFree(@, bp)]
  /\ UNCHANGED kernelVars

-----------------------------------------------------------------------------

Blocks(h) == {<<b, h.free[b].size>> : b \in DOMAIN h.free \ {Base}}
             \cup {<<b, h.used[b]>> : b \in DOMAIN h.used}

\* umalloc.c: the blocks of a program, free or not, lie within its memory and
\* do not overlap; the free list runs through all free blocks and back; and no
\* two free blocks touch, they were joined.  fork() copies this, sbrk() moves
\* the break under it.
HeapSound ==
  \A p \in Procs :
    LET h == data[p].heap IN
    proc[p].state = "RUNNING" =>
      /\ \A b \in Blocks(h) : b[2] > 0 /\ b[1] + b[2] <= proc[p].sz
      /\ \A b, c \in Blocks(h) : b[1] < c[1] => b[1] + b[2] <= c[1]
      /\ {Node(h, k) : k \in 1..Cardinality(DOMAIN h.free)} = DOMAIN h.free
      /\ \A b, c \in DOMAIN h.free : c # b + h.free[b].size \/ b = c

=============================================================================
