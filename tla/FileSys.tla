------------------------------ MODULE FileSys ------------------------------
(***************************************************************************)
(* The file system calls of fs.c, file.c and sysfile.c, made concurrently: *)
(* the inode table with its reference counts and sleep locks, path lookup, *)
(* create, link, unlink, chdir, and the file table above them.             *)
(*                                                                         *)
(* The steps are cut where another process can get in between: at every    *)
(* ilock(), which may sleep, and at every access to the inode table.  What *)
(* happens under one ip->lock to that inode is one step (module Inode).    *)
(* An inode table entry is named by its inum: iget() keeps one entry per   *)
(* inum.  Each call runs in one transaction, which module Log makes        *)
(* atomic, so begin_op() and end_op() are left out here.                   *)
(***************************************************************************)
EXTENDS Inode, FiniteSets

CONSTANTS
  Procs, NINODES, NFILE, NOFILE,
  NDEV,        \* the first device number that is not valid
  MAXWRITE,    \* filewrite()'s max: items per transaction
  Calls,       \* the path calls that programs make: records, see Begin
  Writes,      \* the lengths programs write
  Images,      \* the file systems to start from: [dinode, disk]
  MaxCalls     \* bound: calls in all

VARIABLES
  disk,      \* bitmap and blocks
  dinode,    \* the inodes on disk
  inode,     \* the inode table: the copy of the dinode,
  valid,     \* whether it has been read,
  ref,       \* the references,
  lock,      \* and the holder of ip->lock, 0 if none
  ftable,    \* the file table
  ofile,     \* the descriptors of every process, 0 if closed
  cwd,       \* and its current directory
  t,         \* the system call that each process is in
  ncalls,    \* how many calls have begun
  lost,      \* history: entries that went with a removed directory,
  reused     \* and inodes that ialloc() found while an iput() still had them

fs == <<disk, dinode, inode, valid>>
files == <<ftable, ofile>>
history == <<lost, reused>>
vars == <<disk, dinode, inode, valid, ref, lock, ftable, ofile, cwd, t, ncalls, history>>

Inums == 1..NINODES
ROOTINO == 1
Files == 1..NFILE
Fds == 0..(NOFILE - 1)

User == [pc |-> "user", call |-> [op |-> "none"], ip |-> 0, dp |-> 0, path |-> <<>>,
         name |-> "", put |-> 0, back |-> "user", owe |-> FALSE, left |-> 0]
NoFile == [ref |-> 0, type |-> "NONE", ip |-> 0, off |-> 0, r |-> FALSE, w |-> FALSE]

Init ==
  \E image \in Images :
    /\ disk = image.disk
    /\ dinode = image.dinode
    /\ inode = [i \in Inums |-> FreeInode]
    /\ valid = [i \in Inums |-> FALSE]
    /\ ref = [i \in Inums |-> IF i = ROOTINO THEN Cardinality(Procs) ELSE 0]
    /\ lock = [i \in Inums |-> 0]
    /\ ftable = [f \in Files |-> NoFile]
    /\ ofile = [p \in Procs |-> [fd \in Fds |-> 0]]
    /\ cwd = [p \in Procs |-> ROOTINO]
    /\ t = [p \in Procs |-> User]
    /\ ncalls = 0
    /\ lost = [i \in Inums |-> 0]
    /\ reused = {}

-----------------------------------------------------------------------------
(* The inode table *)

\* The copy that ilock(i) leaves in the table.
Loaded(i) == IF valid[i] THEN inode[i] ELSE dinode[i]

\* Inode i as readi(), writei() and the directory operators take it.
S(i) == [d |-> disk, ip |-> Loaded(i)]

\* iget(), and idup() when i has references.
Iget(i) ==
  /\ ref' = [ref EXCEPT ![i] = @ + 1]
  /\ valid' = [valid EXCEPT ![i] = @ /\ ref[i] # 0]

\* ilock(i), and whatever the caller does before iunlock(i) if that changes nothing.
Ilock(i) ==
  /\ lock[i] = 0
  /\ inode' = [inode EXCEPT ![i] = Loaded(i)]
  /\ valid' = [valid EXCEPT ![i] = TRUE]

\* Mutant: the inode found in the directory is not counted.
LockGetUncounted(dp, i) == Ilock(dp) /\ ref' = ref

\* ilock(dp), then iget(i) for an entry of dp (dirlookup()) or a new inode (ialloc()).
LockGet(dp, i) ==
  /\ lock[dp] = 0
  /\ inode' = [inode EXCEPT ![dp] = Loaded(dp)]
  /\ valid' = [valid EXCEPT ![dp] = TRUE, ![i] = @ /\ ref[i] # 0]
  /\ ref' = [ref EXCEPT ![i] = @ + 1]

Acquired(i, p) == lock' = [lock EXCEPT ![i] = p]
Released(i) == lock' = [lock EXCEPT ![i] = 0]

\* The inode i becomes ip, in the table and, by iupdate(), on disk.
Iupdate(i, ip) ==
  /\ inode' = [inode EXCEPT ![i] = ip]
  /\ dinode' = [dinode EXCEPT ![i] = ip]
  /\ valid' = [valid EXCEPT ![i] = TRUE]

Goto(p, u) == t' = [t EXCEPT ![p] = u]

\* u about to call iput(i) and go on at back.
Iput(u, i, back) == [u EXCEPT !.pc = "iput", !.put = i, !.back = back]

PutIp(u, back) == Iput([u EXCEPT !.ip = 0], u.ip, back)
PutDp(u, back) == Iput([u EXCEPT !.dp = 0], u.dp, back)

At(p, pc) == t[p].pc = pc

\* Back in iput()'s caller.
Return(p) == Goto(p, IF t[p].back = "user" THEN User
                     ELSE [t[p] EXCEPT !.pc = t[p].back, !.put = 0])

\* Mutant: iput() frees although there are other references.
IputFreesShared(i) == valid[i] /\ inode[i].nlink = 0

\* Mutant: iput() tests for the last reference as if after ref--.
IputFreesLate(i) == ref[i] = 0 /\ valid[i] /\ inode[i].nlink = 0

IputFrees(i) == ref[i] = 1 /\ valid[i] /\ inode[i].nlink = 0

\* iput() that only drops a reference.
IputDrop(p) ==
  /\ At(p, "iput")
  /\ ~IputFrees(t[p].put)
  /\ ref' = [ref EXCEPT ![t[p].put] = @ - 1]
  /\ Return(p)
  /\ UNCHANGED <<fs, lock, files, cwd, ncalls, history>>

\* iput() of the last reference to an inode without links takes ip->lock.
IputLock(p) ==
  /\ At(p, "iput")
  /\ IputFrees(t[p].put)
  /\ lock[t[p].put] = 0
  /\ Acquired(t[p].put, p)
  /\ Goto(p, [t[p] EXCEPT !.pc = "iput_trunc"])
  /\ UNCHANGED <<fs, ref, files, cwd, ncalls, history>>

\* itrunc(), type = 0, iupdate().
IputTrunc(p) ==
  LET i == t[p].put IN
  /\ At(p, "iput_trunc")
  /\ \E s \in {Itrunc(S(i))} :
       disk' = s.d /\ Iupdate(i, [s.ip EXCEPT !.type = "NONE"])
  /\ lost' = [j \in Inums |-> lost[j] + Cardinality(
                {off \in 2..(inode[i].size - 1) : inode[i].type = "DIR" /\ Item(S(i), off)[2] = j})]
  /\ Goto(p, [t[p] EXCEPT !.pc = "iput_unlock"])
  /\ UNCHANGED <<ref, lock, files, cwd, ncalls, reused>>

\* valid = 0, releasesleep().
IputUnlock(p) ==
  /\ At(p, "iput_unlock")
  /\ valid' = [valid EXCEPT ![t[p].put] = FALSE]
  /\ Released(t[p].put)
  /\ Goto(p, [t[p] EXCEPT !.pc = "iput_unref"])
  /\ UNCHANGED <<disk, dinode, inode, ref, files, cwd, ncalls, history>>

\* The final ref--.
IputUnref(p) ==
  /\ At(p, "iput_unref")
  /\ ref' = [ref EXCEPT ![t[p].put] = @ - 1]
  /\ Return(p)
  /\ UNCHANGED <<fs, lock, files, cwd, ncalls, history>>

-----------------------------------------------------------------------------
(* Path lookup.  A path is a sequence of elements, what skipelem() makes    *)
(* of the string; an absolute one starts at the root.                      *)

Creates(c) == c.op \in {"mkdir", "mknod"} \/ (c.op = "open" /\ c.create)

\* Whether namex() stops at the parent, and where its caller goes on.
Parent(u) == Creates(u.call) \/ u.call.op = "unlink" \/ u.owe
Found(u) ==
  CASE Creates(u.call) -> "create"
    [] u.owe -> "link_dir"
    [] OTHER -> u.call.op
Missed(u) == IF u.owe THEN "link_bad" ELSE "user"

\* namex() begins for a path whose first reference is i.
Namex(u, i, path) == [u EXCEPT !.pc = "namex", !.dp = i, !.path = path]
Start(p, absolute) == IF absolute THEN ROOTINO ELSE cwd[p]

\* sys_open(), sys_link(), sys_unlink(), sys_mkdir(), sys_mknod() or
\* sys_chdir() is called.
Begin(p, c) ==
  /\ At(p, "user")
  /\ ncalls < MaxCalls
  /\ ncalls' = ncalls + 1
  /\ Iget(Start(p, c.absolute))
  /\ Goto(p, Namex([User EXCEPT !.call = c], Start(p, c.absolute), c.path))
  /\ UNCHANGED <<disk, dinode, inode, lock, files, cwd, history>>

\* The path is used up: namei() returns the inode, nameiparent() fails.
NamexDone(p) ==
  /\ At(p, "namex")
  /\ t[p].path = <<>>
  /\ IF Parent(t[p]) THEN Goto(p, PutDp(t[p], Missed(t[p])))
     ELSE Goto(p, [t[p] EXCEPT !.pc = Found(t[p]), !.ip = t[p].dp, !.dp = 0])
  /\ UNCHANGED <<fs, ref, lock, files, cwd, ncalls, history>>

\* Not a directory, or no such entry.
NamexFail(p) ==
  LET dp == t[p].dp IN
  /\ At(p, "namex")
  /\ t[p].path # <<>>
  /\ \/ Loaded(dp).type # "DIR"
     \/ /\ ~(Parent(t[p]) /\ Len(t[p].path) = 1)
        /\ Dirlookup(S(dp), Head(t[p].path)) = 0
  /\ Ilock(dp)
  /\ Goto(p, PutDp(t[p], Missed(t[p])))
  /\ UNCHANGED <<disk, dinode, ref, lock, files, cwd, ncalls, history>>

\* nameiparent() stops one level early.
NamexParent(p) ==
  /\ At(p, "namex")
  /\ Parent(t[p]) /\ Len(t[p].path) = 1
  /\ Loaded(t[p].dp).type = "DIR"
  /\ Ilock(t[p].dp)
  /\ Goto(p, [t[p] EXCEPT !.pc = Found(t[p]), !.path = <<>>, !.name = Head(t[p].path)])
  /\ UNCHANGED <<disk, dinode, ref, lock, files, cwd, ncalls, history>>

\* One level down: iget(next) under the directory's lock, then iunlockput().
NamexNext(p) ==
  LET dp == t[p].dp
      next == Dirlookup(S(dp), Head(t[p].path))
  IN /\ At(p, "namex")
     /\ t[p].path # <<>>
     /\ ~(Parent(t[p]) /\ Len(t[p].path) = 1)
     /\ Loaded(dp).type = "DIR"
     /\ next # 0
     /\ LockGet(dp, next)
     /\ Goto(p, [Iput(t[p], dp, "namex") EXCEPT !.dp = next, !.path = Tail(@)])
     /\ UNCHANGED <<disk, dinode, lock, files, cwd, ncalls, history>>

-----------------------------------------------------------------------------
(* create(), and what sys_mkdir() and sys_mknod() do after it *)

TypeOf(c) == CASE c.op = "mkdir" -> "DIR" [] c.op = "mknod" -> "DEVICE" [] OTHER -> "FILE"

\* The name exists: iget(), iunlockput(dp).
CreateFound(p) ==
  LET dp == t[p].dp
      ip == Dirlookup(S(dp), t[p].name)
  IN /\ At(p, "create")
     /\ ip # 0
     /\ LockGet(dp, ip)
     /\ Goto(p, [PutDp(t[p], "create_old") EXCEPT !.ip = ip])
     /\ UNCHANGED <<disk, dinode, lock, files, cwd, ncalls, history>>

\* It does not: ialloc(), with dp locked.
CreateAlloc(p) ==
  LET dp == t[p].dp
      ip == Min({i \in Inums : dinode[i].type = "NONE"})
  IN /\ At(p, "create")
     /\ Dirlookup(S(dp), t[p].name) = 0
     /\ LockGet(dp, ip)
     /\ Acquired(dp, p)
     /\ dinode' = [dinode EXCEPT ![ip] = NewInode(TypeOf(t[p].call))]
     /\ Goto(p, [t[p] EXCEPT !.pc = "create_new", !.ip = ip])
     /\ reused' = IF ref[ip] = 0 THEN reused \ {ip} ELSE reused \cup {ip}
     /\ UNCHANGED <<disk, files, cwd, ncalls, lost>>

\* ilock() of the inode that exists; only open() of a file or device gets it.
CreateOld(p) ==
  LET ip == t[p].ip IN
  /\ At(p, "create_old")
  /\ Ilock(ip)
  /\ \/ /\ TypeOf(t[p].call) = "FILE" /\ Loaded(ip).type \in {"FILE", "DEVICE"}
        /\ Acquired(ip, p)
        /\ Goto(p, [t[p] EXCEPT !.pc = "open_fd"])
     \/ /\ ~(TypeOf(t[p].call) = "FILE" /\ Loaded(ip).type \in {"FILE", "DEVICE"})
        /\ Goto(p, PutIp(t[p], "user"))
        /\ UNCHANGED lock
  /\ UNCHANGED <<disk, dinode, ref, files, cwd, ncalls, history>>

\* The new inode with its first link and, for a directory, "." and "..".
Dots(c, s, ip, dp) ==
  IF c.op = "mkdir" THEN Dirlink(Dirlink(s, ".", ip), "..", dp) ELSE s
NewNode(c, ip, dp) ==
  Dots(c, [S(ip) EXCEPT !.ip.nlink = 1, !.ip.major = IF c.op = "mknod" THEN c.major ELSE 0],
       ip, dp)

\* dp->nlink++ for "..".
ParentLink(c, dir) == IF c.op = "mkdir" THEN [dir EXCEPT !.nlink = @ + 1] ELSE dir

\* The rest of create(): both inodes locked, dirlink(dp), then iunlockput(dp).
CreateNew(p) ==
  LET ip == t[p].ip
      dp == t[p].dp
      c == t[p].call
  IN /\ At(p, "create_new")
     /\ lock[ip] = 0
     /\ \E new \in {NewNode(c, ip, dp)} :
        \E dir \in {Dirlink([d |-> new.d, ip |-> ParentLink(c, Loaded(dp))], t[p].name, ip)} :
          /\ disk' = dir.d
          /\ inode' = [inode EXCEPT ![ip] = new.ip, ![dp] = dir.ip]
          /\ dinode' = [dinode EXCEPT ![ip] = new.ip, ![dp] = dir.ip]
     /\ valid' = [valid EXCEPT ![ip] = TRUE]
     /\ lock' = [lock EXCEPT ![ip] = p, ![dp] = 0]
     /\ Goto(p, PutDp(t[p], IF c.op = "open" THEN "open_fd" ELSE "made"))
     /\ UNCHANGED <<ref, files, cwd, ncalls, history>>

\* sys_mkdir() and sys_mknod(): iunlockput() of what create() returned.
Made(p) ==
  /\ At(p, "made")
  /\ Released(t[p].ip)
  /\ Goto(p, PutIp(t[p], "user"))
  /\ UNCHANGED <<fs, ref, files, cwd, ncalls, history>>

-----------------------------------------------------------------------------
(* sys_open(), after namei() or create() *)

ReadOnly(c) == c.mode = "r" /\ ~c.create /\ ~c.trunc

OpenLock(p) ==
  LET ip == t[p].ip IN
  /\ At(p, "open")
  /\ Ilock(ip)
  /\ \/ /\ Loaded(ip).type = "DIR" /\ ~ReadOnly(t[p].call)
        /\ Goto(p, PutIp(t[p], "user"))
        /\ UNCHANGED lock
     \/ /\ Loaded(ip).type # "DIR" \/ ReadOnly(t[p].call)
        /\ Acquired(ip, p)
        /\ Goto(p, [t[p] EXCEPT !.pc = "open_fd"])
  /\ UNCHANGED <<disk, dinode, ref, files, cwd, ncalls, history>>

FreeFiles == {f \in Files : ftable[f].ref = 0}
FreeFds(p) == {fd \in Fds : ofile[p][fd] = 0}

BadDevice(ip) == ip.type = "DEVICE" /\ ip.major >= NDEV

\* A bad device number, no file or no descriptor.
OpenFail(p) ==
  LET ip == t[p].ip IN
  /\ At(p, "open_fd")
  /\ BadDevice(inode[ip]) \/ FreeFiles = {} \/ FreeFds(p) = {}
  /\ Released(ip)
  /\ Goto(p, PutIp(t[p], "user"))
  /\ UNCHANGED <<fs, ref, files, cwd, ncalls, history>>

\* filealloc(), fdalloc(), O_TRUNC; the file takes over the reference.
OpenFile(p) ==
  LET ip == t[p].ip
      c == t[p].call
      trunc == c.trunc /\ inode[ip].type = "FILE"
  IN /\ At(p, "open_fd")
     /\ ~BadDevice(inode[ip]) /\ FreeFiles # {} /\ FreeFds(p) # {}
     /\ ftable' = [ftable EXCEPT ![Min(FreeFiles)] =
                     [ref |-> 1, type |-> IF inode[ip].type = "DEVICE" THEN "DEVICE" ELSE "INODE",
                      ip |-> ip, off |-> 0, r |-> c.mode # "w", w |-> c.mode # "r"]]
     /\ ofile' = [ofile EXCEPT ![p][Min(FreeFds(p))] = Min(FreeFiles)]
     /\ \E s \in {IF trunc THEN Itrunc(S(ip)) ELSE S(ip)} :
          /\ disk' = s.d
          /\ inode' = [inode EXCEPT ![ip] = s.ip]
          /\ dinode' = IF trunc THEN [dinode EXCEPT ![ip] = s.ip] ELSE dinode
     /\ Released(ip)
     /\ Goto(p, User)
     /\ UNCHANGED <<valid, ref, cwd, ncalls, history>>

-----------------------------------------------------------------------------
(* sys_link(), after namei(old) *)

\* Mutant: link() does not count the new link.
LinkedNot(ip) == ip

Linked(ip) == [ip EXCEPT !.nlink = @ + 1]

\* Mutant: the error path keeps the count.
DroppedNot(ip) == ip

Dropped(ip) == [ip EXCEPT !.nlink = @ - 1]

\* ip->nlink++, then nameiparent(new).
LinkCount(p) ==
  LET ip == t[p].ip
      start == Start(p, t[p].call.absolute2)
  IN /\ At(p, "link")
     /\ Loaded(ip).type # "DIR"
     /\ lock[ip] = 0
     /\ inode' = [inode EXCEPT ![ip] = Linked(Loaded(ip))]
     /\ dinode' = [dinode EXCEPT ![ip] = Linked(Loaded(ip))]
     /\ valid' = [valid EXCEPT ![ip] = TRUE, ![start] = @ /\ ref[start] # 0]
     /\ ref' = [ref EXCEPT ![start] = @ + 1]
     /\ Goto(p, [Namex(t[p], start, t[p].call.path2) EXCEPT !.owe = TRUE])
     /\ UNCHANGED <<disk, lock, files, cwd, ncalls, history>>

LinkIsDir(p) ==
  /\ At(p, "link")
  /\ Loaded(t[p].ip).type = "DIR"
  /\ Ilock(t[p].ip)
  /\ Goto(p, PutIp(t[p], "user"))
  /\ UNCHANGED <<disk, dinode, ref, lock, files, cwd, ncalls, history>>

\* dirlink() writes the entry; iunlockput(dp).
LinkEntry(p) ==
  LET dp == t[p].dp
  IN /\ At(p, "link_dir")
     /\ Dirlookup(S(dp), t[p].name) = 0
     /\ lock[dp] = 0
     /\ \E s \in {Dirlink(S(dp), t[p].name, t[p].ip)} : disk' = s.d /\ Iupdate(dp, s.ip)
     /\ Goto(p, [PutDp(t[p], "link_put") EXCEPT !.owe = FALSE])
     /\ UNCHANGED <<ref, lock, files, cwd, ncalls, history>>

LinkPut(p) ==
  /\ At(p, "link_put")
  /\ Goto(p, PutIp(t[p], "user"))
  /\ UNCHANGED <<fs, ref, lock, files, cwd, ncalls, history>>

\* dirlink() finds the name: iget() and iput() of its inode, dp locked.
LinkExists(p) ==
  LET dp == t[p].dp
      other == Dirlookup(S(dp), t[p].name)
  IN /\ At(p, "link_dir")
     /\ other # 0
     /\ LockGet(dp, other)
     /\ Acquired(dp, p)
     /\ Goto(p, Iput(t[p], other, "link_unlock"))
     /\ UNCHANGED <<disk, dinode, files, cwd, ncalls, history>>

LinkUnlock(p) ==
  /\ At(p, "link_unlock")
  /\ Released(t[p].dp)
  /\ Goto(p, PutDp(t[p], "link_bad"))
  /\ UNCHANGED <<fs, ref, files, cwd, ncalls, history>>

\* bad: the count is taken back.
LinkBad(p) ==
  LET ip == t[p].ip IN
  /\ At(p, "link_bad")
  /\ lock[ip] = 0
  /\ Iupdate(ip, Dropped(Loaded(ip)))
  /\ Goto(p, [PutIp(t[p], "user") EXCEPT !.owe = FALSE])
  /\ UNCHANGED <<disk, ref, lock, files, cwd, ncalls, history>>

-----------------------------------------------------------------------------
(* sys_unlink(), after nameiparent() *)

\* "." or "..", or no such entry.
UnlinkMiss(p) ==
  LET dp == t[p].dp IN
  /\ At(p, "unlink")
  /\ t[p].name \in {".", ".."} \/ Dirlookup(S(dp), t[p].name) = 0
  /\ Ilock(dp)
  /\ Goto(p, PutDp(t[p], "user"))
  /\ UNCHANGED <<disk, dinode, ref, lock, files, cwd, ncalls, history>>

\* dirlookup() of the entry; dp stays locked.
UnlinkLookup(p) ==
  LET dp == t[p].dp
      ip == Dirlookup(S(dp), t[p].name)
  IN /\ At(p, "unlink")
     /\ t[p].name \notin {".", ".."}
     /\ ip # 0
     /\ LockGet(dp, ip)
     /\ Acquired(dp, p)
     /\ Goto(p, [t[p] EXCEPT !.pc = "unlink_ip", !.ip = ip])
     /\ UNCHANGED <<disk, dinode, files, cwd, ncalls, history>>

\* A directory that is not empty: iunlockput(ip), then iunlockput(dp).
UnlinkNotEmpty(p) ==
  LET ip == t[p].ip IN
  /\ At(p, "unlink_ip")
  /\ Loaded(ip).type = "DIR" /\ ~IsDirEmpty(S(ip))
  /\ Ilock(ip)
  /\ Goto(p, PutIp(t[p], "unlink_bad"))
  /\ UNCHANGED <<disk, dinode, ref, lock, files, cwd, ncalls, history>>

UnlinkBad(p) ==
  /\ At(p, "unlink_bad")
  /\ Released(t[p].dp)
  /\ Goto(p, PutDp(t[p], "user"))
  /\ UNCHANGED <<fs, ref, files, cwd, ncalls, history>>

\* The entry is cleared; iunlockput(dp) with ip locked.
UnlinkEntry(p) ==
  LET ip == t[p].ip
      dp == t[p].dp
      isdir == Loaded(ip).type = "DIR"
  IN /\ At(p, "unlink_ip")
     /\ isdir => IsDirEmpty(S(ip))
     /\ lock[ip] = 0
     /\ \E s \in {Unlinked(S(dp), t[p].name)} :
        \E dir \in {[s.ip EXCEPT !.nlink = IF isdir THEN @ - 1 ELSE @]} :
          /\ disk' = s.d
          /\ inode' = [inode EXCEPT ![dp] = dir, ![ip] = Loaded(ip)]
          /\ dinode' = [dinode EXCEPT ![dp] = dir]
     /\ valid' = [valid EXCEPT ![ip] = TRUE]
     /\ lock' = [lock EXCEPT ![dp] = 0, ![ip] = p]
     /\ Goto(p, [PutDp(t[p], "unlink_count") EXCEPT !.owe = TRUE])
     /\ UNCHANGED <<ref, files, cwd, ncalls, history>>

UnlinkCount(p) ==
  LET ip == t[p].ip IN
  /\ At(p, "unlink_count")
  /\ Iupdate(ip, [inode[ip] EXCEPT !.nlink = @ - 1])
  /\ Released(ip)
  /\ Goto(p, [PutIp(t[p], "user") EXCEPT !.owe = FALSE])
  /\ UNCHANGED <<disk, ref, files, cwd, ncalls, history>>

-----------------------------------------------------------------------------
(* sys_chdir(), after namei() *)

\* The old directory is put, the new one kept, in an order only p can see.
ChdirDir(p) ==
  LET ip == t[p].ip IN
  /\ At(p, "chdir")
  /\ Loaded(ip).type = "DIR"
  /\ Ilock(ip)
  /\ cwd' = [cwd EXCEPT ![p] = ip]
  /\ Goto(p, Iput([t[p] EXCEPT !.ip = 0], cwd[p], "user"))
  /\ UNCHANGED <<disk, dinode, ref, lock, files, ncalls, history>>

ChdirNotDir(p) ==
  /\ At(p, "chdir")
  /\ Loaded(t[p].ip).type # "DIR"
  /\ Ilock(t[p].ip)
  /\ Goto(p, PutIp(t[p], "user"))
  /\ UNCHANGED <<disk, dinode, ref, lock, files, cwd, ncalls, history>>

-----------------------------------------------------------------------------
(* Descriptors and the file table *)

\* The file table after fileclose(f).
Fileclose(f) ==
  [ftable EXCEPT ![f].ref = @ - 1, ![f].type = IF ftable[f].ref = 1 THEN "NONE" ELSE @]

\* What fileclose(f) does to the inode, on the way to back.
FilePut(u, f, back) ==
  IF ftable[f].ref = 1 /\ ftable[f].type \in {"INODE", "DEVICE"}
    THEN Iput(u, ftable[f].ip, back)
    ELSE [u EXCEPT !.pc = back]

\* A call on an open descriptor.
Calling(p, fd) ==
  /\ At(p, "user")
  /\ ncalls < MaxCalls
  /\ ofile[p][fd] # 0
  /\ ncalls' = ncalls + 1

SysClose(p, fd) ==
  /\ Calling(p, fd)
  /\ ofile' = [ofile EXCEPT ![p][fd] = 0]
  /\ ftable' = Fileclose(ofile[p][fd])
  /\ Goto(p, FilePut(User, ofile[p][fd], "user"))
  /\ UNCHANGED <<fs, ref, lock, cwd, history>>

SysDup(p, fd) ==
  /\ Calling(p, fd)
  /\ FreeFds(p) # {}
  /\ ofile' = [ofile EXCEPT ![p][Min(FreeFds(p))] = ofile[p][fd]]
  /\ ftable' = [ftable EXCEPT ![ofile[p][fd]].ref = @ + 1]
  /\ UNCHANGED <<fs, ref, lock, cwd, t, history>>

\* sys_pipe() with pipealloc(); it changes nothing when two files or two
\* descriptors are missing, or when kalloc() or copyout() fails.
SysPipe(p) ==
  LET f0 == Min(FreeFiles)
      f1 == Min(FreeFiles \ {f0})
      fd0 == Min(FreeFds(p))
      fd1 == Min(FreeFds(p) \ {fd0})
  IN /\ At(p, "user")
     /\ ncalls < MaxCalls
     /\ ncalls' = ncalls + 1
     /\ Cardinality(FreeFiles) > 1 /\ Cardinality(FreeFds(p)) > 1
     /\ ftable' = [ftable EXCEPT
                     ![f0] = [NoFile EXCEPT !.ref = 1, !.type = "PIPE", !.r = TRUE],
                     ![f1] = [NoFile EXCEPT !.ref = 1, !.type = "PIPE", !.w = TRUE]]
     /\ ofile' = [ofile EXCEPT ![p][fd0] = f0, ![p][fd1] = f1]
     /\ UNCHANGED <<fs, ref, lock, cwd, t, history>>

\* fileread() of n items; copyout() may fail, and then f->off stays.
FileRead(p, fd, n) ==
  LET f == ofile[p][fd]
      ip == ftable[f].ip
      m == Readable(S(ip), ftable[f].off, n)
  IN /\ Calling(p, fd)
     /\ ftable[f].type = "INODE" /\ ftable[f].r
     /\ lock[ip] = 0
     /\ \E s \in {Readi(S(ip), ftable[f].off, m)} :
          disk' = s.d /\ inode' = [inode EXCEPT ![ip] = s.ip]
     /\ valid' = [valid EXCEPT ![ip] = TRUE]
     /\ \E copied \in BOOLEAN :
          ftable' = IF copied THEN [ftable EXCEPT ![f].off = @ + m] ELSE ftable
     /\ UNCHANGED <<dinode, ref, lock, ofile, cwd, t, history>>

FileStat(p, fd) ==
  LET f == ofile[p][fd] IN
  /\ Calling(p, fd)
  /\ ftable[f].type \in {"INODE", "DEVICE"}
  /\ Ilock(ftable[f].ip)
  /\ UNCHANGED <<disk, dinode, ref, lock, files, cwd, t, history>>

\* filewrite() of n items begins.
FileWrite(p, fd, n) ==
  LET f == ofile[p][fd] IN
  /\ Calling(p, fd)
  /\ ftable[f].type = "INODE" /\ ftable[f].w
  /\ Goto(p, [User EXCEPT !.pc = "write", !.call = [op |-> "write", f |-> f], !.left = n])
  /\ UNCHANGED <<fs, ref, lock, files, cwd, history>>

\* One transaction of filewrite(); copyin() may fail at any of its blocks.
WriteChunk(p) ==
  LET f == t[p].call.f
      ip == ftable[f].ip
      off == ftable[f].off
      n == Min({t[p].left, MAXWRITE})
  IN /\ At(p, "write")
     /\ lock[ip] = 0
     /\ \E fail \in {NoFail} \cup ToSet(BlocksOf(off, n)) :
        \E w \in {Writei(S(ip), off, [j \in 1..n |-> <<"data", 1>>], fail)} :
          /\ disk' = w.s.d
          /\ Iupdate(ip, w.s.ip)
          /\ ftable' = [ftable EXCEPT ![f].off = IF w.ret > 0 THEN @ + w.ret ELSE @]
          /\ Goto(p, IF w.ret = n /\ t[p].left > n THEN [t[p] EXCEPT !.left = @ - n] ELSE User)
     /\ UNCHANGED <<ref, lock, ofile, cwd, ncalls, history>>

\* exit() closes the descriptors one by one, then puts the directory.
Exit(p) ==
  /\ At(p, "user")
  /\ Goto(p, [User EXCEPT !.pc = "exit"])
  /\ UNCHANGED <<fs, ref, lock, files, cwd, ncalls, history>>

ExitClose(p) ==
  LET open == Fds \ FreeFds(p)
      fd == Min(open)
  IN /\ At(p, "exit")
     /\ open # {}
     /\ ofile' = [ofile EXCEPT ![p][fd] = 0]
     /\ ftable' = Fileclose(ofile[p][fd])
     /\ Goto(p, FilePut(t[p], ofile[p][fd], "exit"))
     /\ UNCHANGED <<fs, ref, lock, cwd, ncalls, history>>

ExitCwd(p) ==
  /\ At(p, "exit")
  /\ FreeFds(p) = Fds
  /\ cwd' = [cwd EXCEPT ![p] = 0]
  /\ Goto(p, Iput(t[p], cwd[p], "dead"))
  /\ UNCHANGED <<fs, ref, lock, files, ncalls, history>>

AllExited == (\A p \in Procs : At(p, "dead")) /\ UNCHANGED vars

-----------------------------------------------------------------------------

Next ==
  \/ \E p \in Procs :
       \/ \E c \in Calls : Begin(p, c)
       \/ IputDrop(p) \/ IputLock(p) \/ IputTrunc(p) \/ IputUnlock(p) \/ IputUnref(p)
       \/ NamexDone(p) \/ NamexFail(p) \/ NamexParent(p) \/ NamexNext(p)
       \/ CreateFound(p) \/ CreateAlloc(p) \/ CreateOld(p) \/ CreateNew(p) \/ Made(p)
       \/ OpenLock(p) \/ OpenFail(p) \/ OpenFile(p)
       \/ LinkCount(p) \/ LinkIsDir(p) \/ LinkEntry(p) \/ LinkPut(p)
       \/ LinkExists(p) \/ LinkUnlock(p) \/ LinkBad(p)
       \/ UnlinkMiss(p) \/ UnlinkLookup(p) \/ UnlinkNotEmpty(p) \/ UnlinkBad(p)
       \/ UnlinkEntry(p) \/ UnlinkCount(p)
       \/ ChdirDir(p) \/ ChdirNotDir(p)
       \/ SysPipe(p) \/ WriteChunk(p) \/ Exit(p) \/ ExitClose(p) \/ ExitCwd(p)
       \/ \E fd \in Fds :
            \/ SysClose(p, fd) \/ SysDup(p, fd) \/ FileStat(p, fd)
            \/ \E n \in Writes : FileRead(p, fd, n) \/ FileWrite(p, fd, n)
  \/ AllExited

Spec == Init /\ [][Next]_vars

-----------------------------------------------------------------------------
(* Properties *)

\* The inode as its holder sees it: the table's copy while it is valid.
Current(i) == IF ref[i] > 0 /\ valid[i] THEN inode[i] ELSE dinode[i]
Cur(i) == [d |-> disk, ip |-> Current(i)]
Allocated == {i \in Inums : Current(i).type # "NONE"}
Dirs == {i \in Allocated : Current(i).type = "DIR"}

\* The entries of directory i other than "." and "..", as offsets.
Entries(i) == {off \in 2..(Current(i).size - 1) : Item(Cur(i), off)[2] # 0}
Target(i, off) == Item(Cur(i), off)[2]

Count(set) == Cardinality(set)

\* Type correctness of the tables.
TypeOK ==
  /\ disk.used \subseteq Blocks
  /\ \A i \in Inums : /\ Current(i).type \in {"NONE", "FILE", "DIR", "DEVICE"}
                      /\ Current(i).nlink \in Nat /\ ref[i] \in Nat
                      /\ lock[i] \in Procs \cup {0} /\ lost[i] \in Nat
  /\ \A f \in Files : /\ ftable[f].ref \in Nat /\ ftable[f].off \in 0..(MAXFILE * BSIZE)
                      /\ ftable[f].type \in {"NONE", "INODE", "DEVICE", "PIPE"}
  /\ \A p \in Procs : cwd[p] \in Inums \cup {0} /\ ofile[p] \in [Fds -> Files \cup {0}]

\* The link count of every inode is the number of directory entries that name
\* it, plus one for each subdirectory's "..", plus the one that a link() or
\* unlink() in progress owes (sysfile.c), plus the entries that a create() or
\* link() wrote into a directory after its removal and that went with it.
LinksCounted ==
  \A i \in Allocated :
    \/ \E p \in Procs : At(p, "create_new") /\ t[p].ip = i
    \/ Current(i).nlink =
         (IF i = ROOTINO THEN 1 ELSE 0)
         + Count({e \in UNION {{<<d, off>> : off \in Entries(d)} : d \in Dirs} :
                    Target(e[1], e[2]) = i})
         + (IF i \in Dirs THEN Count({off \in Entries(i) : Target(i, off) \in Dirs}) ELSE 0)
         + Count({p \in Procs : t[p].owe /\ t[p].ip = i})
         + lost[i]

\* Every directory entry names an allocated inode with a link: namex() and
\* unlink() never reach the panics "ilock: no type" and "unlink: nlink < 1".
EntriesAllocated ==
  \A d \in Dirs :
    /\ \A off \in Entries(d) : Current(Target(d, off)).nlink > 0
    /\ \A off \in 0..(Current(d).size - 1) : Target(d, off) \in Allocated \cup {0}

\* The bitmap marks exactly the blocks that inodes own, and no block has two
\* owners, at every step of itrunc(), create() and filewrite().
BlocksOwned ==
  /\ disk.used = UNION {Owned(Cur(i)) : i \in Inums}
  /\ \A i, j \in Inums : i # j => Owned(Cur(i)) \cap Owned(Cur(j)) = {}
  /\ \A i \in Inums \ Allocated : Owned(Cur(i)) = {}

\* ref counts the pointers to an inode: current directories, open files, and
\* the ip and dp of the calls under way, error paths included; a file's ref
\* counts its descriptors, and a closed file has no type, so that sys_open()'s
\* fileclose() of a file it could not use puts no inode.
RefsCounted ==
  /\ \A i \in Inums :
       ref[i] = Count({p \in Procs : cwd[p] = i})
                + Count({f \in Files : ftable[f].type \in {"INODE", "DEVICE"} /\ ftable[f].ip = i})
                + Count({p \in Procs : t[p].ip = i}) + Count({p \in Procs : t[p].dp = i})
                + Count({p \in Procs : t[p].put = i})
  /\ \A f \in Files :
       /\ ftable[f].ref = Count({x \in Procs \X Fds : ofile[x[1]][x[2]] = f})
       /\ ftable[f].ref = 0 => ftable[f].type = "NONE"

\* iput(): "ip->ref == 1 means no other process can have ip locked, so this
\* acquiresleep() won't block", which it must not, holding itable.lock.
FreeingNeverWaits ==
  \A p \in Procs : At(p, "iput") /\ IputFrees(t[p].put) => lock[t[p].put] = 0

\* Every block below the size is mapped, so that readi(), which fileread()
\* calls outside a transaction, never makes bmap() allocate.
SizeMapped ==
  \A i \in Allocated : \A off \in 0..(Current(i).size - 1) : Addr(Cur(i), off \div BSIZE) # 0

\* iput(): "If that was the last reference and the inode has no links to it,
\* free the inode (and its content) on disk."  It does, but for an inode that
\* ialloc() reused between the releasesleep() and the ref-- of another iput():
\* the late ref-- may then be the last, and it does not look at nlink again.
UnlinkedFreed ==
  \A i \in Allocated \ reused : ref[i] = 0 => Current(i).nlink > 0

=============================================================================
