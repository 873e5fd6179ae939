------------------------------ MODULE MCShell ------------------------------
(***************************************************************************)
(* The instance of Memory, UMalloc and Shell that TLC checks.              *)
(***************************************************************************)
EXTENDS Shell

MCSeg(va, memsz, filesz, short) ==
  [va |-> va, memsz |-> memsz, filesz |-> filesz, short |-> short]
MCFile(prog, segs) == [prog |-> prog, segs |-> segs]

\* Programs of one segment; no program; and two segments, the second of them
\* bad in each way.
MCFiles ==
  {MCFile(prog, <<MCSeg(0, 2, 2, FALSE)>>) : prog \in {"init", "sh"}}
  \cup {MCFile("cat", <<MCSeg(0, 12, 2, FALSE)>>), MCFile("none", <<>>),
        MCFile("any", <<MCSeg(0, 3, 2, FALSE)>>),
        MCFile("any", <<MCSeg(0, 2, 2, FALSE), MCSeg(2, 1, 2, FALSE)>>),
        MCFile("any", <<MCSeg(0, 2, 2, FALSE), MCSeg(3, 1, 1, FALSE)>>),
        MCFile("any", <<MCSeg(2, 2, 2, TRUE)>>)}

MCFirst == [n \in {8, 13, 16, 19, 21} |-> "any"] @@ [n \in {32, 40, 90} |-> "initcode"]
MCMemories == DOMAIN MCFirst

MCSbrks == {3, -1, -3}

MCArgvs == {<<>>, <<[va |-> 0, nul |-> 1], [va |-> 1, nul |-> 2]>>}

\* A pipeline or list can follow end of file or cd, a simple command also
\* a background command.
MCLines ==
  [line \in {<<>>, <<"cd", "d">>} |-> 2]
  @@ (<<"cat", "&">> :> 3)
  @@ [line \in {<<"none">>, <<"(">>} |-> 4]
  @@ [line \in {<<"cat", "|">>, <<"cat", ";", "cat", "<", "f">>,
                <<"cat", "|", "cat", ">", "f">>} |-> 5]
  @@ (<<"cat", "|", "cat", "|", "cat">> :> 7)

=============================================================================
