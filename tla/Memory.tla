------------------------------- MODULE Memory -------------------------------
(***************************************************************************)
(* Physical pages, user page tables and the calls that build, copy and     *)
(* free them: kalloc.c, vm.c, exec.c, sys_exec() and, in proc.c,           *)
(* allocproc(), freeproc(), proc_pagetable(), growproc() and fork(), with  *)
(* every failure of kalloc() on the way.                                   *)
(*                                                                         *)
(* m is the memory as one call works on it: the free pages, the page table *)
(* it builds, ok until an allocation fails, and bad once a panic() of vm.c *)
(* or a second kfree() of a page would be reached.  A page table as has    *)
(* its root page, the pages dirs of its lower levels, and the mappings     *)
(* leaf; a table of either level covers RADIX tables or pages.  Sizes are  *)
(* in bytes, PGSIZE to a page.  What a program does with the result of a   *)
(* call is the business of the modules for programs, which set data.       *)
(***************************************************************************)
EXTENDS Integers, Sequences, FiniteSets, SequencesExt, FiniteSetsExt, Functions, TLC

CONSTANTS
  Procs,      \* process table slots; 1 is init
  Memories,   \* how many physical pages a machine may have
  PGSIZE, RADIX,
  TRAPFRAME,  \* its page number; TRAMPOLINE is the next one
  UINT        \* 2^32

\* memlayout.h, riscv.h: physical memory is smaller than half the range of an
\* int, and the trap pages are above every unsigned int.
ASSUME MemoryLayout ==
  /\ \A n \in Memories : 2 * n * PGSIZE < UINT
  /\ TRAPFRAME * PGSIZE >= UINT /\ TRAPFRAME % RADIX = 0 /\ RADIX > 1

VARIABLES
  npages,     \* physical pages
  free,       \* kmem.freelist
  proc,       \* the processes with their page tables
  image,      \* the exec() that each process is in
  data,       \* the program of each process
  bad,        \* a panic() was reached
  spent       \* what the calls that programs made weigh, to bound them

kernelVars == <<npages, free, proc, image, bad>>
vars == <<kernelVars, data, spent>>

TRAMPOLINE == TRAPFRAME + 1
Pages(sz) == (sz + PGSIZE - 1) \div PGSIZE
PageSeq(first, n) == [j \in 1..n |-> first + j - 1]

Empty == [x \in {} |-> 0]
NoSpace == [root |-> 0, dirs |-> Empty, leaf |-> Empty]
NoProc == [state |-> "UNUSED", trapframe |-> 0, as |-> NoSpace, sz |-> 0, parent |-> 0]
NoImage ==
  [pc |-> "none", prog |-> "none", as |-> NoSpace, sz |-> 0, segs |-> <<>>, argv |-> <<>>]

-----------------------------------------------------------------------------
(* kalloc.c.  The order of the free list is left out: the page taken is    *)
(* the one with the lowest number.                                         *)

Page(m) == Min(m.free)
Fail(m) == [m EXCEPT !.ok = FALSE]
Taken(m) == [m EXCEPT !.free = @ \ {Page(m)}]

Kfree(m, pages) ==
  [m EXCEPT !.bad = @ \/ m.free \cap pages # {}, !.free = @ \cup pages]

-----------------------------------------------------------------------------
(* vm.c *)

\* The page that walk() needs at a lower level.
Table(m, key) ==
  IF ~m.ok \/ key \in DOMAIN m.as.dirs THEN m
  ELSE IF m.free = {} THEN Fail(m)
  ELSE [Taken(m) EXCEPT !.as.dirs = @ @@ (key :> Page(m))]

\* walk() with alloc: level 1, then level 0.
Walk(m, vpn) == Table(Table(m, <<1, vpn \div (RADIX * RADIX)>>), <<0, vpn \div RADIX>>)

\* mappages() of one page.
Install(m, vpn, pte) ==
  IF ~m.ok THEN m
  ELSE [m EXCEPT !.as.leaf = (vpn :> pte) @@ @, !.bad = @ \/ vpn \in DOMAIN m.as.leaf]
Mappages(m, vpn, pte) == Install(Walk(m, vpn), vpn, pte)

\* Mutant: the page is not given back when mappages() fails.
OrKfreeKeeps(m, page) == m

OrKfree(m, page) == IF m.ok THEN m ELSE Kfree(m, {page})

\* One turn of the loops of uvmalloc() and uvmcopy(): kalloc(), mappages().
\* m.n counts the pages mapped.
Counted(m) == IF m.ok THEN [m EXCEPT !.n = @ + 1] ELSE m
NewPage(m, vpn, user) ==
  IF ~m.ok THEN m
  ELSE IF m.free = {} THEN Fail(m)
  ELSE Counted(OrKfree(Mappages(Taken(m), vpn, [pa |-> Page(m), user |-> user]), Page(m)))

\* uvmunmap() of n pages, freeing them.
Uvmunmap(m, first, n) ==
  LET vs == first..(first + n - 1) IN
  [Kfree(m, {m.as.leaf[v].pa : v \in vs \cap DOMAIN m.as.leaf})
     EXCEPT !.bad = @ \/ ~(vs \subseteq DOMAIN m.as.leaf),
            !.as.leaf = Restrict(@, DOMAIN @ \ vs)]

\* uvmunmap() without freeing, of the trampoline and the trapframe.
Detach(m, vs) ==
  [m EXCEPT !.bad = @ \/ ~(vs \subseteq DOMAIN m.as.leaf),
            !.as.leaf = Restrict(@, DOMAIN @ \ vs)]

\* Mutant: the pages mapped before the failure stay.
UndoNot(m, first) == m

\* The loop failed: the pages it mapped are unmapped.
Undo(m, first) == IF m.ok THEN m ELSE Uvmunmap(m, first, m.n)

\* uvmalloc(), from m.sz to newsz.  It returns 0, and so fails, also for 0.
Grown(m, newsz) == IF m.ok /\ newsz # 0 THEN [m EXCEPT !.sz = newsz] ELSE Fail(m)
GrowPage(m, vpn) == NewPage(m, vpn, TRUE)
Uvmalloc(m, newsz) ==
  IF newsz < m.sz THEN m
  ELSE Grown(Undo(FoldLeft(GrowPage, [m EXCEPT !.n = 0],
                           PageSeq(Pages(m.sz), Pages(newsz) - Pages(m.sz))),
                  Pages(m.sz)), newsz)

\* uvmdealloc(), from m.sz to newsz.
Uvmdealloc(m, newsz) ==
  IF newsz >= m.sz THEN m
  ELSE [Uvmunmap(m, Pages(newsz), Pages(m.sz) - Pages(newsz)) EXCEPT !.sz = newsz]

\* freewalk(): no mapping may be left.
Freewalk(m) ==
  [Kfree(m, {m.as.root} \cup {m.as.dirs[k] : k \in DOMAIN m.as.dirs})
     EXCEPT !.bad = @ \/ DOMAIN m.as.leaf # {}, !.as = NoSpace]

\* uvmfree().
Uvmfree(m) == Freewalk(Uvmunmap(m, 0, Pages(m.sz)))

\* uvmcopy() of old, of size sz, into m.
Uvmcopy(m, old, sz) ==
  Undo(FoldLeft(LAMBDA w, vpn : NewPage(w, vpn, old.leaf[vpn].user), [m EXCEPT !.n = 0],
                PageSeq(0, Pages(sz))), 0)

\* uvmclear() of the stack guard page.
Uvmclear(m, vpn) == [m EXCEPT !.as.leaf[vpn].user = FALSE]

\* walkaddr(): the pages that copyin(), copyout() and copyinstr() may touch.
UserPages(as) == {v \in DOMAIN as.leaf : as.leaf[v].user}

\* copyin() and copyout() of len bytes at va succeed.
Copyable(as, va, len) ==
  len = 0 \/ (va \div PGSIZE)..((va + len - 1) \div PGSIZE) \subseteq UserPages(as)

\* copyinstr() of at most max bytes at va, where the first NUL is at nul.
Copyinstr(as, va, nul, max) ==
  /\ nul - va < max
  /\ Copyable(as, va, nul - va + 1)

-----------------------------------------------------------------------------
(* Page tables of processes, proc.c *)

ProcFreepagetable(m) == Uvmfree(Detach(m, {TRAMPOLINE, TRAPFRAME}))

\* The error paths of proc_pagetable().
OrFreewalk(m) == IF m.ok THEN m ELSE Freewalk(Detach(m, DOMAIN m.as.leaf))
Trap(m, tf) ==
  OrFreewalk(Mappages(Mappages(m, TRAMPOLINE, [pa |-> 0, user |-> FALSE]),
                      TRAPFRAME, [pa |-> tf, user |-> FALSE]))

\* proc_pagetable() of a process with trapframe tf.
ProcPagetable(m, tf) ==
  IF m.free = {} THEN Fail(m)
  ELSE Trap([Taken(m) EXCEPT !.as = [NoSpace EXCEPT !.root = Page(m)], !.sz = 0], tf)

\* allocproc(): m.tf is the trapframe page; freeproc() when anything fails.
OrFreeTrapframe(m) == IF m.ok THEN m ELSE [Kfree(m, {m.tf}) EXCEPT !.tf = 0]
Allocproc(m) ==
  IF m.free = {} THEN Fail(m)
  ELSE OrFreeTrapframe(ProcPagetable([Taken(m) EXCEPT !.tf = Page(m)], Page(m)))

\* freeproc().
Freeproc(m) == ProcFreepagetable([Kfree(m, {m.tf}) EXCEPT !.tf = 0])

\* The memory for a call that works on the page table as of size sz.
Begin(as, sz, tf) ==
  [free |-> free, as |-> as, sz |-> sz, tf |-> tf, ok |-> TRUE, bad |-> bad, n |-> 0]
Space(pr) == Begin(pr.as, pr.sz, pr.trapframe)

\* The process entry that m describes.
Entry(m, pr) == [pr EXCEPT !.state = "RUNNING", !.trapframe = m.tf, !.as = m.as, !.sz = m.sz]

Ends(m) == free' = m.free /\ bad' = m.bad /\ UNCHANGED npages

\* userinit(): allocproc() and uvminit() on a machine with all pages free.
Userinit(n) ==
  Uvmalloc(Allocproc([free |-> 1..n, as |-> NoSpace, sz |-> 0, tf |-> 0, ok |-> TRUE,
                      bad |-> FALSE, n |-> 0]), PGSIZE)

Boot ==
  /\ npages \in Memories
  /\ \E m \in {Userinit(npages)} :
       /\ free = m.free
       /\ proc = [p \in Procs |-> IF p = 1 THEN Entry(m, NoProc) ELSE NoProc]
       /\ bad = m.bad
  /\ image = [p \in Procs |-> NoImage]

-----------------------------------------------------------------------------
(* System calls *)

\* p's program runs.
User(p) == proc[p].state = "RUNNING" /\ image[p].pc = "none"

\* The slot that allocproc() takes.
Unused(np) ==
  /\ proc[np].state = "UNUSED"
  /\ \A q \in Procs : q < np => proc[q].state # "UNUSED"

\* fork(): a failed uvmcopy() is followed by freeproc() of the new process.
Sized(m, sz) == IF m.ok THEN [m EXCEPT !.sz = sz] ELSE m
CopyInto(m, parent) ==
  IF m.ok THEN Sized(Uvmcopy(m, parent.as, parent.sz), parent.sz) ELSE m

Fork(p, np) ==
  /\ Unused(np)
  /\ \E m \in {CopyInto(Allocproc(Space(NoProc)), proc[p])} :
       /\ m.ok
       /\ Ends(m)
       /\ proc' = [proc EXCEPT ![np] = Entry(m, [NoProc EXCEPT !.parent = p])]
  /\ UNCHANGED image

ForkFails(p) ==
  /\ \/ (\A np \in Procs : proc[np].state # "UNUSED") /\ UNCHANGED <<npages, free, bad>>
     \/ /\ \E np \in Procs : Unused(np)
        /\ \E a \in {Allocproc(Space(NoProc))} :
           \E m \in {CopyInto(a, proc[p])} :
             /\ ~m.ok
             /\ Ends(IF a.ok THEN Freeproc(m) ELSE m)
  /\ UNCHANGED <<proc, image>>

\* growproc(); sz is an unsigned int, and so wraps.
Growproc(m, n) ==
  IF n > 0 THEN Uvmalloc(m, (m.sz + n) % UINT) ELSE Uvmdealloc(m, (m.sz + n) % UINT)

\* sbrk(n), which succeeds or not.
Sbrk(p, n, ok) ==
  /\ \E m \in {Growproc(Space(proc[p]), n)} :
       /\ m.ok = ok
       /\ Ends(m)
       /\ proc' = [proc EXCEPT ![p] = Entry(m, @)]
  /\ UNCHANGED image

\* exit(): fileclose() frees pages of pipes, reparent() gives the children to
\* init; the memory of p stays until wait().
Exit(p, pages) ==
  /\ p # 1
  /\ Ends(Kfree(Space(proc[p]), pages))
  /\ proc' = [q \in Procs |->
       IF q = p THEN [proc[q] EXCEPT !.state = "ZOMBIE"]
       ELSE IF proc[q].parent = p THEN [proc[q] EXCEPT !.parent = 1] ELSE proc[q]]
  /\ UNCHANGED image

\* wait() finds the zombie q: freeproc().
Wait(p, q) ==
  /\ proc[q].state = "ZOMBIE" /\ proc[q].parent = p
  /\ Ends(Freeproc(Space(proc[q])))
  /\ proc' = [proc EXCEPT ![q] = NoProc]
  /\ UNCHANGED image

-----------------------------------------------------------------------------
(* exec.  Other calls run between its steps: it sleeps for the inode.       *)

ArgPages(p) == ToSet(image[p].argv)

\* The loop of sys_exec(): a page for every string, and fetchstr().
FetchArg(m, as, arg) ==
  IF ~m.ok THEN m
  ELSE IF m.free = {} THEN Fail(m)
  ELSE [Taken(m) EXCEPT !.argv = Append(@, Page(m)),
                        !.ok = Copyinstr(as, arg.va, arg.nul, PGSIZE)]

\* exec() of a file with the arguments args.
SysExec(p, file, args) ==
  /\ \E m \in {FoldLeft(LAMBDA w, arg : FetchArg(w, proc[p].as, arg),
                        [free |-> free, bad |-> bad, ok |-> TRUE, argv |-> <<>>], args)} :
       \/ /\ m.ok
          /\ Ends(m)
          /\ image' = [image EXCEPT ![p] =
                         [NoImage EXCEPT !.pc = "elf", !.prog = file.prog,
                                         !.segs = file.segs, !.argv = m.argv]]
       \/ /\ ~m.ok
          /\ Ends(Kfree(m, ToSet(m.argv)))
          /\ UNCHANGED image
  /\ UNCHANGED proc

\* The image under construction.
Building(p) == Begin(image[p].as, image[p].sz, proc[p].trapframe)

Continue(p, m, segs) ==
  /\ Ends(m)
  /\ image' = [image EXCEPT ![p].pc = "load", ![p].as = m.as, ![p].sz = m.sz, ![p].segs = segs]
  /\ UNCHANGED <<proc, data>>

Discard(m) == IF m.as = NoSpace THEN m ELSE ProcFreepagetable(m)

\* The label bad, and sys_exec() freeing the arguments.
Abandon(p, m) ==
  /\ Ends(Kfree(Discard(m), ArgPages(p)))
  /\ image' = [image EXCEPT ![p] = NoImage]
  /\ UNCHANGED <<proc, data>>

\* namei(), the ELF header, proc_pagetable(); a file that is no program has no segments.
ExecPagetable(p) ==
  /\ image[p].pc = "elf"
  /\ UNCHANGED spent
  /\ \E m \in {IF image[p].segs = <<>> THEN Fail(Building(p))
               ELSE ProcPagetable(Building(p), proc[p].trapframe)} :
       IF m.ok THEN Continue(p, m, image[p].segs) ELSE Abandon(p, m)

\* loadseg(): it panics at a page that is not mapped, and fails when readi() is short.
Loadseg(m, seg) ==
  IF ~m.ok THEN m
  ELSE IF seg.va % PGSIZE # 0 THEN Fail(m)
  ELSE [m EXCEPT !.bad = @ \/ ~Copyable(m.as, seg.va, seg.filesz), !.ok = ~seg.short]

\* One program header.
ExecLoad(p) ==
  LET seg == Head(image[p].segs) IN
  /\ image[p].pc = "load" /\ image[p].segs # <<>>
  /\ UNCHANGED spent
  /\ \E m \in {IF seg.memsz < seg.filesz THEN Fail(Building(p))
               ELSE Loadseg(Uvmalloc(Building(p), seg.va + seg.memsz), seg)} :
       IF m.ok THEN Continue(p, m, Tail(image[p].segs)) ELSE Abandon(p, m)

\* The guard and stack pages.
Stack(m) == Uvmalloc(m, m.sz + 2 * PGSIZE)
Guarded(m) == Uvmclear(m, Pages(m.sz) - 2)
Rounded(m) == [m EXCEPT !.sz = PGSIZE * Pages(@)]

\* The old image and the arguments are freed.
Committed(old, argv) == Kfree(ProcFreepagetable(old), argv)

\* The stack; the arguments, if any, may not fit on it.  Then the new image, a program
\* that starts as start, replaces the old.
ExecCommit(p, start) ==
  /\ image[p].pc = "load" /\ image[p].segs = <<>>
  /\ UNCHANGED spent
  /\ \E m \in {Stack(Rounded(Building(p)))}, fit \in {TRUE, image[p].argv = <<>>} :
       \/ /\ m.ok /\ fit
          /\ Ends(Committed([Space(proc[p]) EXCEPT !.free = m.free, !.bad = m.bad], ArgPages(p)))
          /\ proc' = [proc EXCEPT ![p].as = Guarded(m).as, ![p].sz = m.sz]
          /\ image' = [image EXCEPT ![p] = NoImage]
          /\ data' = [data EXCEPT ![p] = start]
       \/ ~(m.ok /\ fit) /\ Abandon(p, IF m.ok THEN Guarded(m) ELSE m)

-----------------------------------------------------------------------------
(* Properties *)

\* The pages of a page table, its own and those it maps for the user.
TablePages(as) == ({as.root} \cup {as.dirs[k] : k \in DOMAIN as.dirs}) \ {0}
MappedPages(as) == {as.leaf[v].pa : v \in DOMAIN as.leaf \ {TRAPFRAME, TRAMPOLINE}}
SpacePages(as) == TablePages(as) \cup MappedPages(as)
SpaceSize(as) ==
  Cardinality(DOMAIN as.dirs) + Cardinality(DOMAIN as.leaf \ {TRAPFRAME, TRAMPOLINE})
  + (IF as.root = 0 THEN 0 ELSE 1)

\* All that process p holds.
Held(p) ==
  SpacePages(proc[p].as) \cup SpacePages(image[p].as) \cup ArgPages(p)
  \cup ({proc[p].trapframe} \ {0})
HeldCount(p) ==
  SpaceSize(proc[p].as) + SpaceSize(image[p].as) + Len(image[p].argv)
  + (IF proc[p].trapframe = 0 THEN 0 ELSE 1)

\* A page table maps exactly the pages below its process's size, plus the two
\* trap pages, which the user cannot reach: what uvmunmap(), uvmcopy() and
\* copyin() rely on, also for the image that exec() is building.  So no panic()
\* is reached: "remap", "not mapped", "freewalk: leaf", "address should exist".
SizeIsMapped ==
  /\ \A p \in Procs :
       LET Exact(as, sz) ==
             as.root # 0 =>
               /\ DOMAIN as.leaf = (0..(Pages(sz) - 1)) \cup {TRAPFRAME, TRAMPOLINE}
               /\ as.leaf[TRAPFRAME] = [pa |-> proc[p].trapframe, user |-> FALSE]
               /\ TRAMPOLINE \notin UserPages(as)
       IN Exact(proc[p].as, proc[p].sz) /\ Exact(image[p].as, image[p].sz)
  /\ ~bad

=============================================================================
