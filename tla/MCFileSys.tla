----------------------------- MODULE MCFileSys -----------------------------
(***************************************************************************)
(* The instance of FileSys that TLC checks.                                *)
(***************************************************************************)
EXTENDS FileSys

CONSTANTS p1, p2

MCSymmetry == Permutations(Procs)

\* mkfs: the root directory and nothing else.
MCZeroed ==
  [used |-> {},
   item |-> [b \in Blocks |-> [k \in 0..(BSIZE - 1) |-> Zero]],
   addr |-> [b \in Blocks |-> [k \in 0..(NINDIRECT - 1) |-> 0]]]
MCImage(s, dinodes, i) == [disk |-> s.d, dinode |-> [dinodes EXCEPT ![i] = s.ip]]
MCDots(s, i, dir) == Dirlink(Dirlink(s, ".", i), "..", dir)
MCRoot ==
  MCImage(MCDots([d |-> MCZeroed, ip |-> [NewInode("DIR") EXCEPT !.nlink = 1]], 1, 1),
          [i \in 1..NINODES |-> FreeInode], 1)

\* An image after creating a file or a directory, name, in directory dir as inode i.
MCEntry(image, dir, name, i) ==
  MCImage(Dirlink([d |-> image.disk, ip |-> image.dinode[dir]], name, i), image.dinode, dir)
MCNew(type) == [NewInode(type) EXCEPT !.nlink = 1]
MCFile(image, dir, name, i) ==
  MCEntry([image EXCEPT !.dinode[i] = MCNew("FILE")], dir, name, i)
MCDir(image, dir, name, i) ==
  MCEntry(MCImage(MCDots([d |-> image.disk, ip |-> MCNew("DIR")], i, dir),
                  [image.dinode EXCEPT ![dir].nlink = @ + 1], i),
          dir, name, i)

MCImages ==
  {MCRoot, MCFile(MCRoot, 1, "a", 2), MCDir(MCRoot, 1, "a", 2),
   MCFile(MCDir(MCRoot, 1, "a", 2), 2, "b", 3),
   MCFile(MCFile(MCRoot, 1, "a", 2), 1, "b", 3)}

Open(abs, path, mode, create, trunc) ==
  [op |-> "open", absolute |-> abs, path |-> path, mode |-> mode, create |-> create,
   trunc |-> trunc]
PathCall(op, abs, path) == [op |-> op, absolute |-> abs, path |-> path]

MCCalls ==
  {Open(TRUE, <<"a">>, "r", FALSE, FALSE), Open(TRUE, <<"a">>, "rw", TRUE, TRUE),
   Open(TRUE, <<"a", "b">>, "w", TRUE, FALSE),
   PathCall("unlink", TRUE, <<"a">>), PathCall("unlink", TRUE, <<"a", "b">>),
   PathCall("mkdir", TRUE, <<"a">>),
   PathCall("chdir", TRUE, <<"a">>), 
   [op |-> "mknod", absolute |-> FALSE, path |-> <<"b">>, major |-> NDEV],
   [op |-> "link", absolute |-> TRUE, path |-> <<"a">>, absolute2 |-> FALSE, path2 |-> <<"b">>]}

=============================================================================
