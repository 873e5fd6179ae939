------------------------------- MODULE Shell -------------------------------
(***************************************************************************)
(* The programs init and sh and the commands that sh runs, on the          *)
(* processes and the memory of module Memory: user/init.c and, in          *)
(* user/sh.c, main(), fork1() and runcmd().                                *)
(*                                                                         *)
(* A pipe is the page that pipealloc() takes; it lives as long as some     *)
(* program has one of its ends.  Writing to a pipe or to a file is left    *)
(* out, reading is waiting for the end of file.                            *)
(***************************************************************************)
EXTENDS UMalloc, ShParse

CONSTANTS
  Lines,      \* what the user types: sequences of tokens, <<>> is end of file,
              \* with what they weigh
  First       \* the first program of a machine, by its number of pages

End(end, page) == [end |-> end, page |-> page]
File == End("file", 0)

\* What a program has open.
Open(d) == {d.in, d.out} \cup d.ext

\* The pages of pipes that no program has open any more once p is left with d.
Closed(p, d) ==
  {f.page : f \in Open(data[p])} \ ({0} \cup {f.page : f \in Open(d)}
     \cup UNION {{f.page : f \in Open(data[q])} : q \in Procs \ {p}})

\* The process p runs prog and is at pc.
At(p, prog, pc) == User(p) /\ data[p].prog = prog /\ data[p].pc = pc
Goto(d, pc) == [d EXCEPT !.pc = pc]

\* A system call that cannot fail, or whose result is ignored.
Becomes(p, d) ==
  /\ Ends(Kfree(Space(proc[p]), Closed(p, d)))
  /\ data' = [data EXCEPT ![p] = d]
  /\ UNCHANGED <<proc, image, spent>>

ExitProgram(p) ==
  /\ Exit(p, Closed(p, NoProgram))
  /\ data' = [data EXCEPT ![p] = NoProgram]
  /\ UNCHANGED spent

\* exec() of a program by its name; the next instruction is at pc if it fails.
ExecNamed(p, name, pc) ==
  /\ \E file \in Files : file.prog = name /\ SysExec(p, file, <<>>)
  /\ data' = [data EXCEPT ![p].pc = pc]
  /\ UNCHANGED spent

-----------------------------------------------------------------------------
(* initcode.S and init.c.  The exit() of init itself is a panic, which ends  *)
(* the machine; here init takes no further step.                             *)

InitcodeExec(p) == At(p, "initcode", "start") /\ ExecNamed(p, "init", "exit")

InitFork(p, np) ==
  /\ At(p, "init", "start")
  /\ Fork(p, np)
  /\ data' = [data EXCEPT ![p] = [@ EXCEPT !.pc = "wait", !.kid = np],
                          ![np] = Goto(data[p], "exec")]
  /\ UNCHANGED spent

InitForkFails(p) ==
  /\ At(p, "init", "start")
  /\ ForkFails(p)
  /\ data' = [data EXCEPT ![p].pc = "exit"]
  /\ UNCHANGED spent

InitExec(p) == At(p, "init", "exec") /\ ExecNamed(p, "sh", "exit")

\* wait() returned the shell, or a parentless process.
InitWait(p, q) ==
  /\ At(p, "init", "wait")
  /\ Wait(p, q)
  /\ data' = [data EXCEPT ![p].pc = IF q = data[p].kid THEN "start" ELSE "wait"]
  /\ UNCHANGED spent

\* The child, after exec() failed.
InitExit(p) == At(p, "init", "exit") /\ ExitProgram(p)

-----------------------------------------------------------------------------
(* sh.c *)

\* getcmd(); cd is run by the shell itself, every other line by a child.
ShGetcmd(p, line) ==
  /\ At(p, "sh", "start")
  /\ spent + Lines[line] <= MaxSpent
  /\ spent' = spent + Lines[line]
  /\ data' = [data EXCEPT ![p] =
       IF line = <<>> THEN Goto(@, "exit")
       ELSE IF Head(line) = "cd" THEN @
       ELSE [@ EXCEPT !.pc = "fork", !.cmd = [type |-> "line", line |-> line]]]
  /\ UNCHANGED kernelVars

\* Mutant: main() does not wait for its command.
CommandForkedOn(d) == <<Goto(d, "start"), Goto(d, "parse")>>

\* The parent and the child after the fork1() of main(),
CommandForked(d) == <<Goto(d, "wait"), Goto(d, "parse")>>

\* and of one of runcmd(), at d.pc: for the left side of a list, a background
\* command and the sides of a pipe, which take its end as their standard
\* output or input and close both ends.
RuncmdForked(d) ==
  LET Run(cmd) == [d EXCEPT !.pc = "run", !.cmd = cmd]
      Pipe(end) == CHOOSE f \in d.ext : f.end = end IN
  CASE d.pc = "list" -> <<Goto(d, "next"), Run(d.cmd.left)>>
    [] d.pc = "back" -> <<Goto(d, "exit"), Run(d.cmd.cmd)>>
    [] d.pc = "left" -> <<Goto(d, "right"), [Run(d.cmd.left) EXCEPT !.out = Pipe("w"), !.ext = {}]>>
    [] d.pc = "right" -> <<Goto(d, "close"), [Run(d.cmd.right) EXCEPT !.in = Pipe("r"), !.ext = {}]>>

Forked(d) == IF d.pc = "fork" THEN CommandForked(d) ELSE RuncmdForked(d)

ShForking(p) ==
  /\ User(p) /\ data[p].prog = "sh"
  /\ data[p].pc \in {"fork", "list", "back", "left", "right"}
  /\ UNCHANGED spent

ShFork1(p, np) ==
  /\ ShForking(p)
  /\ Fork(p, np)
  /\ data' = [data EXCEPT ![p] = Forked(data[p])[1], ![np] = Forked(data[p])[2]]

\* panic("fork").
ShFork1Fails(p) ==
  /\ ShForking(p)
  /\ ForkFails(p)
  /\ data' = [data EXCEPT ![p] = Goto(@, "exit")]

\* parsecmd(), in the child.
ShParsecmd(p) ==
  /\ At(p, "sh", "parse")
  /\ \E r \in {Parsecmd(data[p].cmd.line)} :
       Becomes(p, IF r.ok THEN [data[p] EXCEPT !.pc = "run", !.cmd = r.cmd]
                  ELSE Goto(data[p], "exit"))

\* runcmd() of a command of the type given.
Running(p, type) == At(p, "sh", "run") /\ data[p].cmd.type = type

ShExec(p) ==
  /\ Running(p, "EXEC")
  /\ data[p].cmd.argv # <<>>
  /\ ExecNamed(p, Head(data[p].cmd.argv), "exit")

ShEmpty(p) ==
  /\ Running(p, "EXEC")
  /\ data[p].cmd.argv = <<>>
  /\ Becomes(p, Goto(data[p], "exit"))

\* close(), and open() that may fail.
ShRedir(p) ==
  /\ Running(p, "REDIR")
  /\ \/ Becomes(p, IF data[p].cmd.fd = 0 THEN [data[p] EXCEPT !.in = File, !.cmd = @.cmd]
                   ELSE [data[p] EXCEPT !.out = File, !.cmd = @.cmd])
     \/ Becomes(p, Goto(data[p], "exit"))

ShList(p) == Running(p, "LIST") /\ Becomes(p, Goto(data[p], "list"))
ShBack(p) == Running(p, "BACK") /\ Becomes(p, Goto(data[p], "back"))

\* pipe(): pipealloc() takes a page; panic("pipe") if there is none.
ShPipe(p) ==
  /\ Running(p, "PIPE")
  /\ \E m \in {Space(proc[p])} :
       \/ /\ m.free # {}
          /\ Ends(Taken(m))
          /\ data' = [data EXCEPT ![p].pc = "left",
                                  ![p].ext = {End("r", Page(m)), End("w", Page(m))}]
       \/ /\ m.free = {}
          /\ Ends(m)
          /\ data' = [data EXCEPT ![p] = Goto(@, "exit")]
  /\ UNCHANGED <<proc, image, spent>>

\* The parent of a pipeline closes the pipe before it waits.
ShClose(p) ==
  /\ At(p, "sh", "close")
  /\ Becomes(p, [data[p] EXCEPT !.pc = "wait1", !.ext = {}])

\* After a wait(); there is always a child to wait for.
Waited(d) ==
  CASE d.pc = "wait" -> Goto(d, "start")
    [] d.pc = "next" -> [d EXCEPT !.pc = "run", !.cmd = d.cmd.right]
    [] d.pc = "wait1" -> Goto(d, "wait2")
    [] d.pc = "wait2" -> Goto(d, "exit")

ShWait(p, q) ==
  /\ User(p) /\ data[p].prog = "sh" /\ data[p].pc \in {"wait", "next", "wait1", "wait2"}
  /\ Wait(p, q)
  /\ data' = [data EXCEPT ![p] = Waited(@)]
  /\ UNCHANGED spent

ShExit(p) == At(p, "sh", "exit") /\ ExitProgram(p)

\* A command reads its standard input to the end and exits.
CommandExit(p) ==
  /\ At(p, "cat", "start")
  /\ data[p].in.end = "r" =>
       \A q \in Procs : End("w", data[p].in.page) \notin Open(data[q])
  /\ ExitProgram(p)

\* Nothing is left to do.
Done ==
  /\ \A p \in Procs :
       proc[p].state = "RUNNING" =>
         \/ data[p].prog = "any" /\ spent >= MaxSpent - 1
         \/ data[p].prog = "init" /\ data[p].pc \in {"wait", "exit"}
         \/ At(p, "sh", "start") /\ \A line \in DOMAIN Lines : spent + Lines[line] > MaxSpent
  /\ UNCHANGED vars

-----------------------------------------------------------------------------

Init ==
  /\ Boot
  /\ data = [p \in Procs |-> IF p = 1 THEN Started(First[npages], NoProgram) ELSE NoProgram]
  /\ spent = 0

Next ==
  \/ \E p \in Procs :
       \/ \E np \in Procs : AnyFork(p, np) \/ AnyWait(p, np)
       \/ AnyForkFails(p) \/ AnyExit(p)
       \/ \E n \in Sbrks, ok \in BOOLEAN : AnySbrk(p, n, ok)
       \/ \E file \in Files, args \in Argvs : AnyExec(p, file, args)
       \/ \E n \in Units : Malloc(p, n) \/ MallocGrow(p, n)
       \/ Free(p)
       \/ ExecPagetable(p) \/ ExecLoad(p)
       \/ ExecCommit(p, Started(image[p].prog, data[p]))
       \/ InitcodeExec(p) \/ InitForkFails(p) \/ InitExec(p) \/ InitExit(p)
       \/ \E np \in Procs : InitFork(p, np) \/ InitWait(p, np)
       \/ \E line \in DOMAIN Lines : ShGetcmd(p, line)
       \/ \E np \in Procs : ShFork1(p, np) \/ ShWait(p, np)
       \/ ShFork1Fails(p) \/ ShParsecmd(p)
       \/ ShExec(p) \/ ShEmpty(p) \/ ShRedir(p) \/ ShList(p) \/ ShBack(p) \/ ShPipe(p)
       \/ ShClose(p) \/ ShExit(p) \/ CommandExit(p)
  \/ Done

Spec == Init /\ [][Next]_vars

-----------------------------------------------------------------------------
(* Properties *)

PipePages == {f.page : f \in UNION {Open(data[p]) : p \in Procs}} \ {0}

\* kalloc.c and vm.c: every physical page is on the free list or has exactly
\* one use, in a process, an exec() under way or a pipe, whatever allocation
\* failed in fork(), exec(), sbrk() or pipe() and whatever ran in between: none
\* is lost and none shared.
PagesConserved ==
  /\ free \cup PipePages \cup UNION {Held(p) : p \in Procs} = 1..npages
  /\ Cardinality(free) + Cardinality(PipePages) + MapThenSumSet(HeldCount, Procs) = npages

\* sh.c: a shell that is about to parse its line understands every command tree
\* as it is written with the usual precedence: "|" and ";" group to the right,
\* "&" takes the pipeline before it, redirections stay with their command or
\* block, the last one outermost.
ParserInverts == (\E p \in Procs : At(p, "sh", "parse")) => ReadBack

\* sh.c: the shell that reads a line has no child left, and the one that waits
\* in main() has exactly one: its wait(0) never returns for another process,
\* even when a fork1() in a pipeline failed and left one side running.
WaitsForItsCommand ==
  \A p \in Procs :
    data[p].prog = "sh" /\ data[p].pc \in {"start", "fork", "wait"} =>
      Cardinality({q \in Procs : proc[q].parent = p}) = IF data[p].pc = "wait" THEN 1 ELSE 0

=============================================================================
