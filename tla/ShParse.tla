------------------------------ MODULE ShParse ------------------------------
(***************************************************************************)
(* The parser of the shell, user/sh.c: a line is the sequence of its       *)
(* tokens, a command the tree that runcmd() walks.  A result r of a        *)
(* parsing function has the command, the position k of the next token, and *)
(* ok, FALSE once panic() ended the process.                               *)
(***************************************************************************)
EXTENDS Naturals, Sequences, SequencesExt

CONSTANT MAXARGS

Symbols == {"|", "&", ";", "(", ")", "<", ">", ">>"}

\* execcmd(), redircmd(), pipecmd(), listcmd(), backcmd().
Execcmd(argv) == [type |-> "EXEC", argv |-> argv]
Redircmd(cmd, file, op) ==
  [type |-> "REDIR", cmd |-> cmd, file |-> file, op |-> op, fd |-> IF op = "<" THEN 0 ELSE 1]
Pipecmd(left, right) == [type |-> "PIPE", left |-> left, right |-> right]
Listcmd(left, right) == [type |-> "LIST", left |-> left, right |-> right]
Backcmd(cmd) == [type |-> "BACK", cmd |-> cmd]

\* gettoken(), which skips blanks; 0 at the end of the line.
Token(s, k) == IF k > Len(s) THEN "0" ELSE s[k]
IsWord(t) == t \notin Symbols \cup {"0"}

Parsed(cmd, k) == [cmd |-> cmd, k |-> k, ok |-> TRUE]
Panic == [cmd |-> Execcmd(<<>>), k |-> 0, ok |-> FALSE]

RECURSIVE Parseredirs(_, _, _), Parseargs(_, _, _, _), Parsepipe(_, _), Parseline(_, _),
          Parseback(_, _)

\* parseredirs(): each redirection is around the ones before it.
Parseredirs(s, r, k) ==
  IF ~r.ok \/ Token(s, k) \notin {"<", ">", ">>"} THEN [r EXCEPT !.k = k]
  ELSE IF ~IsWord(Token(s, k + 1)) THEN Panic
  ELSE Parseredirs(s, Parsed(Redircmd(r.cmd, s[k + 1], s[k]), k), k + 2)

\* Replaces the argv of the execcmd inside redirections.
RECURSIVE WithArgv(_, _)
WithArgv(cmd, argv) ==
  IF cmd.type = "EXEC" THEN Execcmd(argv) ELSE [cmd EXCEPT !.cmd = WithArgv(@, argv)]

\* The loop of parseexec(); argv is what it has collected.
Parseargs(s, r, argv, k) ==
  IF ~r.ok THEN Panic
  ELSE IF Token(s, k) \in {"|", ")", "&", ";", "0"} THEN Parsed(WithArgv(r.cmd, argv), k)
  ELSE IF ~IsWord(Token(s, k)) \/ Len(argv) + 1 >= MAXARGS THEN Panic
  ELSE LET n == Parseredirs(s, r, k + 1) IN Parseargs(s, n, Append(argv, s[k]), n.k)

\* parseblock(), at the "(".
Parseblock(s, k) ==
  LET r == Parseline(s, k + 1) IN
  IF ~r.ok \/ Token(s, r.k) # ")" THEN Panic ELSE Parseredirs(s, r, r.k + 1)

Parseexec(s, k) ==
  IF Token(s, k) = "(" THEN Parseblock(s, k)
  ELSE LET r == Parseredirs(s, Parsed(Execcmd(<<>>), k), k) IN Parseargs(s, r, <<>>, r.k)

\* Mutant: pipes are taken from the left, one at a time.
ParsepipeOnce(s, k) ==
  LET l == Parseexec(s, k)
      r == Parseexec(s, l.k + 1) IN
  IF ~l.ok \/ Token(s, l.k) # "|" THEN l
  ELSE IF r.ok THEN Parsed(Pipecmd(l.cmd, r.cmd), r.k) ELSE Panic

Parsepipe(s, k) ==
  LET l == Parseexec(s, k) IN
  IF ~l.ok \/ Token(s, l.k) # "|" THEN l
  ELSE LET r == Parsepipe(s, l.k + 1) IN
       IF r.ok THEN Parsed(Pipecmd(l.cmd, r.cmd), r.k) ELSE Panic

\* parseline(): the loop over "&", and then ";".
Parseback(s, r) ==
  IF r.ok /\ Token(s, r.k) = "&" THEN Parseback(s, Parsed(Backcmd(r.cmd), r.k + 1)) ELSE r

Parseline(s, k) ==
  LET l == Parseback(s, Parsepipe(s, k)) IN
  IF ~l.ok \/ Token(s, l.k) # ";" THEN l
  ELSE LET r == Parseline(s, l.k + 1) IN
       IF r.ok THEN Parsed(Listcmd(l.cmd, r.cmd), r.k) ELSE Panic

\* parsecmd(): nothing may be left over.
Parsecmd(s) ==
  LET r == Parseline(s, 1) IN IF r.ok /\ r.k <= Len(s) THEN Panic ELSE r

-----------------------------------------------------------------------------
(* The grammar, as the way to write a command.  "cmd &" binds looser than  *)
(* "|" and tighter than ";".                                               *)

Loose(cmd) == CASE cmd.type = "LIST" -> 3 [] cmd.type = "BACK" -> 2
                [] cmd.type = "PIPE" -> 1 [] OTHER -> 0

RECURSIVE Written(_, _)
Written(cmd, loosest) ==
  IF Loose(cmd) > loosest THEN <<"(">> \o Written(cmd, 3) \o <<")">>
  ELSE CASE cmd.type = "EXEC" -> cmd.argv
         [] cmd.type = "REDIR" -> Written(cmd.cmd, 0) \o <<cmd.op, cmd.file>>
         [] cmd.type = "PIPE" -> Written(cmd.left, 0) \o <<"|">> \o Written(cmd.right, 1)
         [] cmd.type = "BACK" -> Written(cmd.cmd, 2) \o <<"&">>
         [] cmd.type = "LIST" -> Written(cmd.left, 2) \o <<";">> \o Written(cmd.right, 3)

\* The commands made from the commands cs.
Made(cs) ==
  cs \cup {Redircmd(c, "f", op) : c \in cs, op \in {"<", ">", ">>"}}
     \cup {Backcmd(c) : c \in cs}
     \cup {Pipecmd(c, d) : c, d \in cs} \cup {Listcmd(c, d) : c, d \in cs}
Simple == {Execcmd(<<>>), Execcmd(<<"a", "b">>)}

\* Each of these commands, written down, is what the parser makes of it.
ReadBack ==
  \A cmd \in Made(Made(Simple)) :
    Parsecmd(Written(cmd, 3)) = Parsed(cmd, Len(Written(cmd, 3)) + 1)

=============================================================================
