------------------------------- MODULE Blocks -------------------------------
(***************************************************************************)
(* The contents of files as disk blocks: mkfs.c, which lays out the first  *)
(* image, and balloc(), bfree(), bmap(), itrunc(), readi() and writei() of *)
(* fs.c under fileread() and filewrite().  Each call runs under the        *)
(* inode's sleep-lock and each change of the free map under its buffer's,  *)
(* so the calls are functions from disk to disk and a behaviour is a       *)
(* sequence of them.                                                       *)
(*                                                                         *)
(* A disk is a record: the bits of the free map that are set, the data of  *)
(* each block (bytes, or the block numbers of an indirect block), the      *)
(* inodes, and the blocks given to log_write() in the transaction.         *)
(***************************************************************************)
EXTENDS Integers, Sequences, FiniteSets, FiniteSetsExt, SequencesExt

CONSTANTS FSSIZE, BSIZE, NDIRECT, nlog, MAXOPBLOCKS,
          ImageFiles,   \* the lengths of the files mkfs is given
          FileOps,      \* the operations to try, and how many of them in a row
          MaxOps

NINDIRECT == BSIZE
MAXFILE == NDIRECT + NINDIRECT
BPB == BSIZE * 8
ZeroBlock == [k \in 0..BSIZE - 1 |-> 0]
NoBlocks == [size |-> 0, addrs |-> [k \in 0..NDIRECT |-> 0]]

\* The layout of mkfs: boot, super block, log, one block of inodes, the free map.
inodestart == 2 + nlog
bmapstart == inodestart + 1
nmeta == bmapstart + FSSIZE \div BPB + 1
BBLOCK(b) == bmapstart + b \div BPB

log_write(d, b) == [d EXCEPT !.logged = @ \cup {b}]
-----------------------------------------------------------------------------
\* balloc(): the first free block, marked and zeroed; a full disk is a panic.
balloc(d) ==
  LET free == (0..FSSIZE - 1) \ d.bits IN
  IF free = {} THEN [disk |-> [d EXCEPT !.panic = TRUE], addr |-> 0]
  ELSE [disk |-> log_write(log_write([d EXCEPT !.bits = @ \cup {Min(free)}, !.data[Min(free)] = ZeroBlock],
                                     BBLOCK(Min(free))), Min(free)),
        addr |-> Min(free)]

\* bfree(): to free a free block is a panic.
bfree(d, b) ==
  IF b \notin d.bits THEN [d EXCEPT !.panic = TRUE]
  ELSE log_write([d EXCEPT !.bits = @ \ {b}], BBLOCK(b))

\* Entry k of inode i's addrs, allocated if there is none
Direct(d, i, k) ==
  IF d.inode[i].addrs[k] # 0 THEN [disk |-> d, addr |-> d.inode[i].addrs[k]]
  ELSE LET r == balloc(d) IN [r EXCEPT !.disk.inode[i].addrs[k] = r.addr]

\* Entry k of the indirect block r.addr
Indirect(r, k) ==
  IF r.disk.data[r.addr][k] # 0 THEN [r EXCEPT !.addr = r.disk.data[r.addr][k]]
  ELSE LET n == balloc(r.disk)
       IN  [n EXCEPT !.disk = log_write([@ EXCEPT !.data[r.addr][k] = n.addr], r.addr)]

\* bmap(): the address of block bn of inode i; the callers stay below MAXFILE.
bmap(d, i, bn) ==
  IF bn < NDIRECT THEN Direct(d, i, bn) ELSE Indirect(Direct(d, i, NDIRECT), bn - NDIRECT)

iupdate(d) == log_write(d, inodestart)

\* Mutant: the indirect block itself is kept.
IndirectFreedNot(d, b) ==
  FoldLeft(bfree, d, SetToSeq({d.data[b][k] : k \in 0..NINDIRECT - 1} \ {0}))

\* The blocks that indirect block b lists, then b
IndirectFreed(d, b) ==
  bfree(FoldLeft(bfree, d, SetToSeq({d.data[b][k] : k \in 0..NINDIRECT - 1} \ {0})), b)

itrunc(d, i) ==
  LET a == d.inode[i].addrs
      direct == FoldLeft(bfree, d, SetToSeq({a[k] : k \in 0..NDIRECT - 1} \ {0}))
      all == IF a[NDIRECT] = 0 THEN direct ELSE IndirectFreed(direct, a[NDIRECT])
  IN  iupdate([all EXCEPT !.inode[i] = NoBlocks])
-----------------------------------------------------------------------------
\* How many of n bytes at off lie in one block
Piece(off, n) == Min({n, BSIZE - (off % BSIZE)})

\* The loop of readi(), with the disk because bmap() could allocate
RECURSIVE ReadLoop(_, _, _, _)
ReadLoop(d, i, off, n) ==
  IF n = 0 THEN [disk |-> d, bytes |-> <<>>]
  ELSE LET m == Piece(off, n)
           b == bmap(d, i, off \div BSIZE)
           more == ReadLoop(b.disk, i, off + m, n - m)
       IN  [more EXCEPT !.bytes = [k \in 1..m |-> b.disk.data[b.addr][(off % BSIZE) + k - 1]] \o @]

\* readi(), for an offset within the file
readi(d, i, off, n) == ReadLoop(d, i, off, Min({n, d.inode[i].size - off}))

RECURSIVE WriteLoop(_, _, _, _)
WriteLoop(d, i, off, src) ==
  IF src = <<>> THEN d
  ELSE LET m == Piece(off, Len(src))
           b == bmap(d, i, off \div BSIZE)
           at == off % BSIZE
           copied == [b.disk EXCEPT !.data[b.addr] =
                        [k \in 0..BSIZE - 1 |-> IF k \in at..at + m - 1 THEN src[k - at + 1] ELSE @[k]]]
       IN  WriteLoop(log_write(copied, b.addr), i, off + m, SubSeq(src, m + 1, Len(src)))

GrownTo(d, i, end) == IF end > d.inode[i].size THEN iupdate([d EXCEPT !.inode[i].size = end]) ELSE d

TooLong(i, off, n) == off + n > MAXFILE * BSIZE

writei(d, i, off, src) == GrownTo(WriteLoop(d, i, off, src), i, off + Len(src))

\* Mutant: twice as much in one transaction.
ChunkMaxTwice == (MAXOPBLOCKS - 2) * BSIZE

\* The most filewrite() writes in one transaction
ChunkMax == ((MAXOPBLOCKS - 1 - 1 - 2) \div 2) * BSIZE

\* filewrite() through file h of state s: chunk after chunk, each a transaction that
\* moves the offset, until one does not fit the longest file
RECURSIVE filewrite(_, _, _)
filewrite(s, h, src) ==
  LET n1 == Min({Len(src), ChunkMax})
      i == s.ip[h]
      d == writei([s.disk EXCEPT !.logged = {}], i, s.off[h], SubSeq(src, 1, n1))
  IN  IF src = <<>> \/ TooLong(i, s.off[h], n1) THEN s
      ELSE filewrite([s EXCEPT !.disk = d, !.off[h] = @ + n1,
                               !.most = Max({@, Cardinality(d.logged)})],
                     h, SubSeq(src, n1 + 1, Len(src)))

\* fileread(): no transaction
fileread(s, h, n) ==
  LET r == readi([s.disk EXCEPT !.logged = {}], s.ip[h], s.off[h], n)
  IN  [s EXCEPT !.disk = r.disk, !.off[h] = @ + Len(r.bytes)]

\* The last name and the last file are gone, a file with that inode is made and
\* opened: files of inode i are at offset 0
Discard(s, i) ==
  LET d == itrunc([s.disk EXCEPT !.logged = {}], i)
  IN  [s EXCEPT !.disk = d, !.off = [h \in DOMAIN @ |-> IF s.ip[h] = i THEN 0 ELSE @[h]],
                !.most = Max({@, Cardinality(d.logged)})]

Reopen(s, h) == [s EXCEPT !.off[h] = 0]
-----------------------------------------------------------------------------
\* mkfs: iappend() of bytes to inode i, block by block; freeblock is the next
\* block, and the free map is written when all is done.
NextFree(m) == [m EXCEPT !.freeblock = @ + 1]

IappendDirect(m, i, k) ==
  IF m.disk.inode[i].addrs[k] # 0 THEN m
  ELSE NextFree([m EXCEPT !.disk.inode[i].addrs[k] = m.freeblock])

IappendIndirect(m, b, k) ==
  IF m.disk.data[b][k] # 0 THEN m ELSE NextFree([m EXCEPT !.disk.data[b][k] = m.freeblock])

IappendByte(m, i, byte) ==
  LET off == m.disk.inode[i].size
      fbn == off \div BSIZE
      one == IappendDirect(m, i, Min({fbn, NDIRECT}))
      a == one.disk.inode[i].addrs[Min({fbn, NDIRECT})]
      two == IF fbn < NDIRECT THEN one ELSE IappendIndirect(one, a, fbn - NDIRECT)
      x == IF fbn < NDIRECT THEN a ELSE two.disk.data[a][fbn - NDIRECT]
  IN  [two EXCEPT !.disk.data[x][off % BSIZE] = byte, !.disk.inode[i].size = off + 1]

iappend(m, i, bytes) == FoldLeft(LAMBDA x, b : IappendByte(x, i, b), m, bytes)

ROOTINODE == 1
Inos == 1..Len(ImageFiles) + 1

\* What mkfs finds in the file that becomes inode i
FileBytes(i) == [k \in 1..ImageFiles[i - 1] |-> 90 + k]

\* The root directory, one byte to an entry: ".", ".." and the files
RootBytes == <<ROOTINODE, ROOTINODE>> \o [k \in 1..Len(ImageFiles) |-> k + 1]

Empty ==
  [freeblock |-> nmeta,
   disk |-> [bits |-> {}, data |-> [b \in 0..FSSIZE - 1 |-> ZeroBlock],
             inode |-> [i \in Inos |-> NoBlocks], logged |-> {}, panic |-> FALSE]]

Files == FoldLeft(LAMBDA m, i : iappend(m, i, FileBytes(i)), iappend(Empty, ROOTINODE, RootBytes),
                  [k \in 1..Len(ImageFiles) |-> k + 1])

\* balloc() of mkfs: the blocks below used are marked.
Marked(used) == 0..used - 1

\* main() of mkfs at its end: the root's size goes up to a whole block.
Mkfs ==
  [Files.disk EXCEPT !.bits = Marked(Files.freeblock),
                     !.inode[ROOTINODE].size = (@ \div BSIZE + 1) * BSIZE]
-----------------------------------------------------------------------------
(***************************************************************************)
(* Sequences of operations on the image of mkfs, beside the byte sequences *)
(* they should make.  File structures 1 and 2 are open on the first file,  *)
(* 3 on the second; ref is what each inode should contain, and most the    *)
(* number of blocks that the largest transaction logged.                   *)
(***************************************************************************)
Written(h, n) == [k \in 1..n |-> 20 * h + k]

\* The file after bytes are put at off, as far as the longest file goes in chunks
RECURSIVE Put(_, _, _)
Put(file, off, src) ==
  LET n1 == Min({Len(src), ChunkMax})
      new == SubSeq(file, 1, off) \o SubSeq(src, 1, n1) \o SubSeq(file, off + n1 + 1, Len(file))
  IN  IF src = <<>> \/ off + n1 > MAXFILE * BSIZE THEN file
      ELSE Put(new, off + n1, SubSeq(src, n1 + 1, Len(src)))

Start0 ==
  [disk |-> Mkfs, ip |-> <<2, 2, 3>>, off |-> <<0, 0, 0>>, most |-> 0,
   ref |-> [i \in Inos |-> IF i = ROOTINODE
                             THEN RootBytes \o [k \in 1..Mkfs.inode[i].size - Len(RootBytes) |-> 0]
                             ELSE FileBytes(i)]]

Do(s, o) ==
  CASE o.op = "write" ->
         [filewrite(s, o.h, Written(o.h, o.n)) EXCEPT
            !.ref[s.ip[o.h]] = Put(@, s.off[o.h], Written(o.h, o.n))]
    [] o.op = "read" -> fileread(s, o.h, o.n)
    [] o.op = "reopen" -> Reopen(s, o.h)
    [] o.op = "discard" -> [Discard(s, s.ip[o.h]) EXCEPT !.ref[s.ip[o.h]] = <<>>]

RECURSIVE Reached(_)
Reached(k) ==
  IF k = 0 THEN {Start0}
  ELSE UNION {{s} \cup {Do(s, o) : o \in FileOps} : s \in Reached(k - 1)}

AllReached == Reached(MaxOps)

\* Whatever the writes, at whatever offsets, of two open files of one inode and
\* another's, from the image of mkfs on: every file reads as the bytes written to it,
\* and readi() finds all its blocks there, so that a read never allocates.
FilesKept ==
  \A s \in AllReached : \A i \in Inos :
    LET r == readi(s.disk, i, 0, s.disk.inode[i].size)
    IN  r.bytes = s.ref[i] /\ r.disk = s.disk

\* The blocks of inode i, its indirect block included
BlocksOf(d, i) ==
  ({d.inode[i].addrs[k] : k \in 0..NDIRECT}
    \cup (IF d.inode[i].addrs[NDIRECT] = 0 THEN {}
          ELSE {d.data[d.inode[i].addrs[NDIRECT]][k] : k \in 0..NINDIRECT - 1})) \ {0}

\* A block is marked in the free map exactly when it is one of the first nmeta blocks
\* or belongs to a file, and to one only: nothing leaks when files are truncated, and
\* bfree() never meets a free block.
BlocksExact ==
  \A s \in AllReached :
    /\ ~ s.disk.panic
    /\ s.disk.bits = (0..nmeta - 1) \cup UNION {BlocksOf(s.disk, i) : i \in Inos}
    /\ \A i, j \in Inos : i # j => BlocksOf(s.disk, i) \cap BlocksOf(s.disk, j) = {}

\* No transaction of filewrite() or itrunc() logs more than the MAXOPBLOCKS blocks
\* that begin_op() reserved for it.
WritesFitLog == \A s \in AllReached : s.most <= MAXOPBLOCKS
=============================================================================
