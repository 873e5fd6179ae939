------------------------------- MODULE Inode -------------------------------
(***************************************************************************)
(* The contents of an inode, fs.c: the block bitmap, the direct and        *)
(* indirect addresses, readi(), writei(), itrunc(), and directories as     *)
(* files of entries.  Everything here runs under ip->lock, so these are    *)
(* operators on a pair s: s.d is the disk, s.ip the in-memory inode.       *)
(*                                                                         *)
(* An item is the unit of a file: a directory entry <<name, inum>>, or     *)
(* <<"data", v>>.  A block has BSIZE items, or NINDIRECT addresses when it *)
(* is an indirect block; a new block is zero under both views.             *)
(***************************************************************************)
EXTENDS Integers, Sequences, SequencesExt, FiniteSetsExt

CONSTANTS NBLOCKS, BSIZE, NDIRECT, NINDIRECT

Blocks == 1..NBLOCKS
MAXFILE == NDIRECT + NINDIRECT
Zero == <<"", 0>>

NoAddrs == [k \in 0..NDIRECT |-> 0]

\* A dinode as ialloc() leaves it, and a free one.
NewInode(type) ==
  [type |-> type, major |-> 0, nlink |-> 0, size |-> 0, addrs |-> NoAddrs]
FreeInode == NewInode("NONE")

-----------------------------------------------------------------------------
(* Blocks *)

FreeBlock(d) == Min(Blocks \ d.used)

\* balloc() of the free block b, with bzero().
Balloc(d, b) ==
  [used |-> d.used \cup {b},
   item |-> [d.item EXCEPT ![b] = [k \in 0..(BSIZE - 1) |-> Zero]],
   addr |-> [d.addr EXCEPT ![b] = [k \in 0..(NINDIRECT - 1) |-> 0]]]

\* bfree(), of blocks in use.
Bfree(d, blocks) == [d EXCEPT !.used = @ \ blocks]

\* The address that bmap() finds for block bn, 0 if there is none.
Addr(s, bn) ==
  IF bn < NDIRECT THEN s.ip.addrs[bn]
  ELSE IF s.ip.addrs[NDIRECT] = 0 THEN 0
  ELSE s.d.addr[s.ip.addrs[NDIRECT]][bn - NDIRECT]

\* s with the block b at a slot of ip->addrs, or at a slot of the indirect block.
InInode(s, slot, b) == [d |-> Balloc(s.d, b), ip |-> [s.ip EXCEPT !.addrs[slot] = b]]
InIndirect(s, slot, b) ==
  [s EXCEPT !.d = [Balloc(s.d, b) EXCEPT !.addr[s.ip.addrs[NDIRECT]][slot] = b]]

BmapInode(s, slot) ==
  IF s.ip.addrs[slot] # 0 THEN s ELSE InInode(s, slot, FreeBlock(s.d))
BmapIndirect(s, bn) ==
  IF Addr(s, bn) # 0 THEN s ELSE InIndirect(s, bn - NDIRECT, FreeBlock(s.d))

\* bmap(): s with a block for bn.
Bmap(s, bn) == BmapIndirect(BmapInode(s, IF bn < NDIRECT THEN bn ELSE NDIRECT), bn)

\* The blocks that an inode owns, the indirect block included.
Owned(s) ==
  ({s.ip.addrs[k] : k \in 0..NDIRECT} \cup {Addr(s, bn) : bn \in 0..(MAXFILE - 1)}) \ {0}

\* Mutant: the indirect block itself is not freed.
ItruncKeepsIndirect(s) ==
  [d |-> Bfree(s.d, {Addr(s, bn) : bn \in 0..(MAXFILE - 1)}),
   ip |-> [s.ip EXCEPT !.size = 0, !.addrs = NoAddrs]]

\* itrunc(), before its iupdate().
Itrunc(s) ==
  [d |-> Bfree(s.d, Owned(s)),
   ip |-> [s.ip EXCEPT !.size = 0, !.addrs = NoAddrs]]

-----------------------------------------------------------------------------
(* Contents *)

\* The blocks of the items off .. off+n-1, in order.
BlocksOf(off, n) ==
  [j \in 1..(IF n = 0 THEN 0 ELSE (off + n - 1) \div BSIZE - off \div BSIZE + 1) |->
     off \div BSIZE + j - 1]

ItemAt(s, b, k) == IF b = 0 THEN Zero ELSE s.d.item[b][k]
Item(s, off) == ItemAt(s, Addr(s, off \div BSIZE), off % BSIZE)

\* How many items readi() finds at off.
Readable(s, off, n) ==
  IF off > s.ip.size THEN 0 ELSE IF off + n > s.ip.size THEN s.ip.size - off ELSE n

\* s after readi() of n items: its bmap() may add blocks.
Readi(s, off, n) == FoldLeft(Bmap, s, BlocksOf(off, n))

\* The loop of writei() for one block: w.s is the inode so far, w.off the offset
\* reached, and copyin() for block w.fail fails.
Fill(w, bn, end) ==
  [w EXCEPT !.off = end,
            !.s.d.item[Addr(w.s, bn)] =
               [k \in 0..(BSIZE - 1) |->
                  IF bn * BSIZE + k \in w.off..(end - 1)
                    THEN w.items[bn * BSIZE + k - w.start + 1] ELSE @[k]]]
WriteMapped(w, bn) ==
  IF bn = w.fail THEN [w EXCEPT !.stopped = TRUE]
  ELSE Fill(w, bn, Min({(bn + 1) * BSIZE, w.start + Len(w.items)}))
WriteBlock(w, bn) ==
  IF w.stopped THEN w ELSE WriteMapped([w EXCEPT !.s = Bmap(w.s, bn)], bn)

\* Mutant: the size grows also when copyin() failed.
WrittenAll(w) ==
  [s |-> [w.s EXCEPT !.ip.size = Max({@, w.start + Len(w.items)})], ret |-> w.off - w.start]

Written(w) == [s |-> [w.s EXCEPT !.ip.size = Max({@, w.off})], ret |-> w.off - w.start]

\* writei(), before its iupdate(): s and the number of items written, or -1.
Writei(s, off, items, fail) ==
  IF off > s.ip.size \/ off + Len(items) > MAXFILE * BSIZE THEN [s |-> s, ret |-> -1]
  ELSE Written(FoldLeft(WriteBlock,
                 [s |-> s, start |-> off, off |-> off, items |-> items, fail |-> fail,
                  stopped |-> FALSE],
                 BlocksOf(off, Len(items))))

NoFail == -1

-----------------------------------------------------------------------------
(* Directories *)

Offsets(s, name) ==
  {off \in 0..(s.ip.size - 1) : Item(s, off)[2] # 0 /\ Item(s, off)[1] = name}

\* dirlookup(), without its iget(): the inode number, or 0.
Dirlookup(s, name) ==
  IF Offsets(s, name) = {} THEN 0 ELSE Item(s, Min(Offsets(s, name)))[2]

\* dirlink() of a name that is not present: the first empty entry, or a new one.
Dirlink(s, name, inum) ==
  Writei(s, Min({off \in 0..s.ip.size : off = s.ip.size \/ Item(s, off)[2] = 0}),
         <<<<name, inum>>>>, NoFail).s

\* sys_unlink() clearing the entry.
Unlinked(s, name) == Writei(s, Min(Offsets(s, name)), <<Zero>>, NoFail).s

IsDirEmpty(s) == \A off \in 2..(s.ip.size - 1) : Item(s, off)[2] = 0

=============================================================================
