--------------------------------- MODULE Fs ---------------------------------
(***************************************************************************)
(* The inode layer, fs.c: blocks, inodes, contents, directories, paths; and *)
(* the image that mkfs.c builds.                                            *)
(*                                                                          *)
(* The operators thread a work record w through the code: the blocks in the *)
(* cache (cur), the blocks logged so far (log), the inode being worked on   *)
(* (d, the fields ilock reads in), the block found or allocated (addr), and *)
(* the message of a panic (err).  An inode's table entry is found by its    *)
(* inode number, so the table is indexed by it; NINODE bounds the entries   *)
(* in use.  begin_op and end_op keep the promise shown in Log: the          *)
(* transaction that ends last commits everything at once.                   *)
(***************************************************************************)
EXTENDS Kernel

Blocks  == 1 .. FSSIZE
Inums   == 1 .. NINODES
ROOTINO == 1
MAXFILE == NDIRECT + NINDIRECT

Unit(v)      == [v |-> v, n |-> ""]
Dirent(i, n) == [v |-> i, n |-> n]
ZeroBlock    == [k \in 0 .. Max({BSIZE, NINDIRECT}) - 1 |-> Unit(0)]   \* units, or addresses
NoAddrs      == [k \in 0 .. NDIRECT |-> 0]
Dinode(t, m) == [type |-> t, major |-> m, nlink |-> 0, size |-> 0, addrs |-> NoAddrs]
FreeDinode   == Dinode("none", 0)
NoInode      == [ref |-> 0, valid |-> FALSE, lock |-> 0, d |-> FreeDinode]

IBLOCK(i) == <<"inode", i \div IPB>>
BBLOCK(b) == <<"bitmap", b \div BPB>>
Data(b)   == <<"data", b>>

Work(p, d) == [cur |-> cur, log |-> logged[p], err |-> panicked, d |-> d, addr |-> 0, off |-> 0, tot |-> 0]

-----------------------------------------------------------------------------
\* Blocks

balloc(w) ==
    LET free == Blocks \ w.cur.used
        b    == Min(free)
    IN  IF free = {} THEN [w EXCEPT !.addr = 0]
        ELSE [w EXCEPT !.addr = b,
                       !.cur = [@ EXCEPT !.used = @ \cup {b}, !.data[b] = ZeroBlock],
                       !.log = @ \cup {BBLOCK(b), Data(b)}]

bfree(w, b) ==
    Once(w, LAMBDA u :
        IF b \notin u.cur.used THEN [u EXCEPT !.err = "freeing free block"]
        ELSE [u EXCEPT !.cur.used = @ \ {b}, !.log = @ \cup {BBLOCK(b)}])

iupdate(w, i) == [w EXCEPT !.cur.dinode[i] = w.d, !.log = @ \cup {IBLOCK(i)}]

\* The block of file block bn as the addresses give it, 0 when there is none.
Lookup(c, d, bn) ==
    IF bn < NDIRECT THEN d.addrs[bn]
    ELSE IF d.addrs[NDIRECT] = 0 THEN 0 ELSE c.data[d.addrs[NDIRECT]][bn - NDIRECT].v

\* The address at index k of the inode, allocated if it is 0.
AddrAt(w, k) ==
    IF w.d.addrs[k] # 0 THEN [w EXCEPT !.addr = w.d.addrs[k]]
    ELSE LET a == balloc(w) IN [a EXCEPT !.d.addrs[k] = a.addr]

\* An address in the indirect block, which x.addr is.
bmap_indirect(x, k) ==
    LET a == balloc(x)
        b == x.cur.data[x.addr][k].v
    IN  IF b # 0 THEN [x EXCEPT !.addr = b]
        ELSE IF a.addr = 0 THEN a
        ELSE [a EXCEPT !.cur.data[x.addr][k] = Unit(a.addr), !.log = @ \cup {Data(x.addr)}]

bmap(w, bn) ==
    IF bn < NDIRECT THEN AddrAt(w, bn)
    ELSE Once(AddrAt(w, NDIRECT), LAMBDA x : IF x.addr = 0 THEN x ELSE bmap_indirect(x, bn - NDIRECT))

\* All blocks of an inode, in the order itrunc frees them.
Addrs(c, d) ==
    LET direct == [k \in 1 .. NDIRECT |-> d.addrs[k - 1]]
        ind    == d.addrs[NDIRECT]
        listed == IF ind = 0 THEN <<>> ELSE [k \in 1 .. NINDIRECT |-> c.data[ind][k - 1].v]
    IN  SelectSeq(direct \o listed \o <<ind>>, LAMBDA a : a # 0)

\* Mutant: the indirect block itself is forgotten.
itrunc_KeepIndirect(w, i) ==
    Once(FoldLeft(bfree, w, SelectSeq(Addrs(w.cur, w.d), LAMBDA a : a # w.d.addrs[NDIRECT])),
         LAMBDA f : iupdate([f EXCEPT !.d = [@ EXCEPT !.addrs = NoAddrs, !.size = 0]], i))

itrunc(w, i) ==
    Once(FoldLeft(bfree, w, Addrs(w.cur, w.d)),
         LAMBDA f : iupdate([f EXCEPT !.d = [@ EXCEPT !.addrs = NoAddrs, !.size = 0]], i))

-----------------------------------------------------------------------------
\* Contents

\* The units readi copies out.
readi(c, d, off, n) ==
    IF off > d.size THEN <<>>
    ELSE [k \in 1 .. Min({n, d.size - off}) |->
             c.data[Lookup(c, d, (off + k - 1) \div BSIZE)][(off + k - 1) % BSIZE]]

\* One more unit at w.off; bad is a source address that cannot be read.
WriteUnit(w, u, bad) ==
    LET put(m) ==
            IF m.addr = 0 \/ bad THEN [m EXCEPT !.addr = -1]
            ELSE [m EXCEPT !.cur.data[m.addr][m.off % BSIZE] = u, !.log = @ \cup {Data(m.addr)},
                           !.off = @ + 1, !.tot = @ + 1]
    IN  Once(w, LAMBDA v : IF v.addr = -1 THEN v                    \* the loop has ended
                           ELSE Once(bmap(v, v.off \div BSIZE), put))

\* tot is what the call returns.
writei(w, i, off, units, bad) ==
    LET s == [w EXCEPT !.off = off, !.tot = 0, !.addr = 0]
        e == FoldLeft(LAMBDA x, u : WriteUnit(x, u, bad), s, units)
    IN  IF off > w.d.size \/ off + Len(units) > MAXFILE * BSIZE THEN [w EXCEPT !.tot = -1]
        ELSE Once(e, LAMBDA x : iupdate([x EXCEPT !.d.size = Max({@, x.off})], i))

-----------------------------------------------------------------------------
\* Directories

Entries(c, d) == readi(c, d, 0, d.size)

\* Index of the entry for name, 0 when there is none; entry k is at offset k - 1.
dirlookup(c, d, name) ==
    SelectInSeq(Entries(c, d), LAMBDA e : e.v # 0 /\ e.n = name)

\* dirlink after its dirlookup has found nothing.
dirlink(w, i, name, inum) ==
    LET k == SelectInSeq(Entries(w.cur, w.d), LAMBDA e : e.v = 0)
    IN  writei(w, i, IF k = 0 THEN w.d.size ELSE k - 1, <<Dirent(inum, name)>>, FALSE)

isdirempty(c, d) == \A k \in 3 .. d.size : Entries(c, d)[k].v = 0

\* skipelem keeps DIRSIZ characters of a name.
Elem(n) == IF n = "123456789012345" THEN "12345678901234" ELSE n

-----------------------------------------------------------------------------
\* Transactions and inodes in memory

begin_op(p) ==
    /\ At(p, "begin_op")
    /\ outstanding' = [outstanding EXCEPT ![p] = @ + 1]
    /\ Done(p)
    /\ UNCHANGED <<cur, disk, logged, itable, ftable, pipes, prvars, chan, reg, user, panicked, cons, crashes>>

end_op(p) ==
    /\ At(p, "end_op")
    /\ outstanding' = [outstanding EXCEPT ![p] = @ - 1]
    /\ disk' = IF \A q \in Procs \ {p} : outstanding[q] = 0 THEN cur ELSE disk
    /\ logged' = [logged EXCEPT ![p] = {}]
    /\ Done(p)
    /\ UNCHANGED <<cur, itable, ftable, pipes, prvars, chan, reg, user, panicked, cons, crashes>>

iget(t, i) ==
    [t EXCEPT ![i] = IF @.ref > 0 THEN [@ EXCEPT !.ref = @ + 1]
                                  ELSE [@ EXCEPT !.ref = 1, !.valid = FALSE]]

idup(t, i) == [t EXCEPT ![i].ref = @ + 1]

NoEmpty(t, i) == t[i].ref = 0 /\ Cardinality({j \in Inums : t[j].ref > 0}) = NINODE

\* acquiresleep, and reading the inode in.
ilock(p) ==
    /\ At(p, "ilock")
    /\ LET i == Arg(p).ip
           t == itable[i]
       IN  \/ /\ t.lock # 0
              /\ sleep(p, <<"inode", i>>)
              /\ UNCHANGED <<itable, todo, panicked>>
           \/ /\ t.lock = 0
              /\ itable' = [itable EXCEPT ![i] =
                     [@ EXCEPT !.lock = p, !.valid = TRUE, !.d = IF t.valid THEN @ ELSE cur.dinode[i]]]
              /\ Panic(t.ref < 1 \/ (~t.valid /\ cur.dinode[i].type = "none"), "ilock")
              /\ Done(p)
              /\ UNCHANGED chan
    /\ UNCHANGED <<cur, disk, outstanding, logged, ftable, pipes, prvars, reg, user, cons, crashes>>

iunlock(p) ==
    /\ At(p, "iunlock")
    /\ LET i == Arg(p).ip
       IN  /\ Panic(itable[i].lock # p \/ itable[i].ref < 1, "iunlock")
           /\ itable' = [itable EXCEPT ![i].lock = 0]
           /\ wakeup(<<"inode", i>>)
    /\ Done(p)
    /\ UNCHANGED <<cur, disk, outstanding, logged, ftable, pipes, prvars, reg, user, cons, crashes>>

\* The last reference to an inode without links frees it.  The lock is free:
\* whoever holds it has a reference.
IFree(i) == <<[op |-> "ifree", ip |-> i], [op |-> "ifreed", ip |-> i], [op |-> "ideref", ip |-> i]>>

\* Mutant: the reference count is not looked at.
iput_Eager(p) ==
    /\ At(p, "iput")
    /\ LET i == Arg(p).ip
           t == itable[i]
       IN  IF t.valid /\ t.d.nlink = 0 /\ t.lock = 0
           THEN itable' = [itable EXCEPT ![i].lock = p] /\ Then(p, IFree(i))
           ELSE itable' = [itable EXCEPT ![i].ref = @ - 1] /\ Done(p)
    /\ UNCHANGED <<cur, disk, outstanding, logged, ftable, pipes, prvars, chan, reg, user, panicked, cons, crashes>>

iput(p) ==
    /\ At(p, "iput")
    /\ LET i == Arg(p).ip
           t == itable[i]
       IN  IF t.ref = 1 /\ t.valid /\ t.d.nlink = 0
           THEN /\ Panic(t.lock # 0, "acquiresleep blocks in iput")
                /\ itable' = [itable EXCEPT ![i].lock = p]
                /\ Then(p, IFree(i))
           ELSE /\ itable' = [itable EXCEPT ![i].ref = @ - 1]
                /\ Done(p)
                /\ UNCHANGED panicked
    /\ UNCHANGED <<cur, disk, outstanding, logged, ftable, pipes, prvars, chan, reg, user, cons, crashes>>

\* itrunc, type = 0, iupdate: from here on ialloc may hand the inode out again.
iput_free(p) ==
    /\ At(p, "ifree")
    /\ LET i == Arg(p).ip
       IN  \E w \in {itrunc(Work(p, itable[i].d), i)} : \E v \in {iupdate([w EXCEPT !.d.type = "none"], i)} :
           /\ cur' = v.cur
           /\ logged' = [logged EXCEPT ![p] = v.log]
           /\ panicked' = v.err
           /\ itable' = [itable EXCEPT ![i].d = v.d]
    /\ Done(p)
    /\ UNCHANGED <<disk, outstanding, ftable, pipes, prvars, chan, reg, user, cons, crashes>>

iput_freed(p) ==
    /\ At(p, "ifreed")
    /\ itable' = [itable EXCEPT ![Arg(p).ip] = [@ EXCEPT !.lock = 0, !.valid = FALSE]]
    /\ wakeup(<<"inode", Arg(p).ip>>)
    /\ Done(p)
    /\ UNCHANGED <<cur, disk, outstanding, logged, ftable, pipes, prvars, reg, user, panicked, cons, crashes>>

iput_deref(p) ==
    /\ At(p, "ideref")
    /\ itable' = [itable EXCEPT ![Arg(p).ip].ref = @ - 1]
    /\ Done(p)
    /\ UNCHANGED <<cur, disk, outstanding, logged, ftable, pipes, prvars, chan, reg, user, panicked, cons, crashes>>

-----------------------------------------------------------------------------
\* Paths.  A path is a sequence of names; an absolute one starts with "/".

Namex(path, parent) == <<[op |-> "namex", path |-> path, parent |-> parent]>>
namei(path)         == Namex(path, FALSE)
nameiparent(path)   == Namex(path, TRUE)
NoName              == [ip |-> 0, name |-> ""]

Walk(i, path, parent)   == <<[op |-> "walk", ip |-> i, path |-> path, parent |-> parent]>>
Locked(i, path, parent) == <<[op |-> "walk_locked", ip |-> i, path |-> path, parent |-> parent]>>

\* Where the walk starts.
namex(p) ==
    /\ At(p, "namex")
    /\ LET a   == Arg(p)
           abs == a.path # <<>> /\ a.path[1] = "/"
           i   == IF abs THEN ROOTINO ELSE proc[p].cwd
       IN  /\ Panic(abs /\ NoEmpty(itable, i), "iget: no inodes")
           /\ itable' = IF abs THEN iget(itable, i) ELSE idup(itable, i)
           /\ Then(p, Walk(i, IF abs THEN Tail(a.path) ELSE a.path, a.parent))
    /\ UNCHANGED <<cur, disk, outstanding, logged, ftable, pipes, prvars, chan, reg, user, cons, crashes>>

\* The test of the loop, and what follows it.
namex_loop(p) ==
    /\ At(p, "walk")
    /\ LET a == Arg(p)
       IN  \/ /\ a.path # <<>>
              /\ Then(p, Ilock(a.ip) \o Locked(a.ip, a.path, a.parent))
              /\ UNCHANGED reg
           \/ /\ a.path = <<>> /\ a.parent
              /\ Then(p, Iput(a.ip))
              /\ reg' = [reg EXCEPT ![p] = NoName]
           \/ /\ a.path = <<>> /\ ~a.parent
              /\ Done(p)
              /\ reg' = [reg EXCEPT ![p] = [ip |-> a.ip, name |-> ""]]
    /\ UNCHANGED <<fsvars, ftable, pipes, prvars, chan, user, panicked, cons, crashes>>

\* The body of the loop, with ip locked.
namex_body(p) ==
    /\ At(p, "walk_locked")
    /\ LET a    == Arg(p)
           d    == itable[a.ip].d
           name == Elem(Head(a.path))
           k    == dirlookup(cur, d, name)
           next == Entries(cur, d)[k].v
       IN  \/ /\ d.type # "DIR"
              /\ Then(p, Iunlockput(a.ip))
              /\ reg' = [reg EXCEPT ![p] = NoName]
              /\ UNCHANGED <<itable, panicked>>
           \/ /\ d.type = "DIR" /\ a.parent /\ Len(a.path) = 1
              /\ Then(p, Iunlock(a.ip))
              /\ reg' = [reg EXCEPT ![p] = [ip |-> a.ip, name |-> name]]
              /\ UNCHANGED <<itable, panicked>>
           \/ /\ d.type = "DIR" /\ ~(a.parent /\ Len(a.path) = 1) /\ k = 0
              /\ Then(p, Iunlockput(a.ip))
              /\ reg' = [reg EXCEPT ![p] = NoName]
              /\ UNCHANGED <<itable, panicked>>
           \/ /\ d.type = "DIR" /\ ~(a.parent /\ Len(a.path) = 1) /\ k # 0
              /\ Panic(NoEmpty(itable, next), "iget: no inodes")
              /\ itable' = iget(itable, next)
              /\ Then(p, Iunlockput(a.ip) \o Walk(next, Tail(a.path), a.parent))
              /\ UNCHANGED reg
    /\ UNCHANGED <<cur, disk, outstanding, logged, ftable, pipes, prvars, chan, user, cons, crashes>>

-----------------------------------------------------------------------------
\* Boot: the first process runs fsinit (after initlog has recovered the log).

Reclaim(i) == <<[op |-> "ireclaim", ip |-> i]>>

\* Mutant: the inode found is not put.
ireclaim_NoPut(p) ==
    /\ At(p, "ireclaim")
    /\ LET i == Arg(p).ip
       IN  IF i > NINODES THEN Done(p) /\ UNCHANGED <<itable, panicked>>
           ELSE IF cur.dinode[i].type # "none" /\ cur.dinode[i].nlink = 0
           THEN /\ Panic(NoEmpty(itable, i), "iget: no inodes")
                /\ itable' = iget(itable, i)
                /\ Then(p, BeginOp \o Ilock(i) \o Iunlock(i) \o EndOp \o Reclaim(i + 1))
           ELSE Then(p, Reclaim(i + 1)) /\ UNCHANGED <<itable, panicked>>
    /\ UNCHANGED <<cur, disk, outstanding, logged, ftable, pipes, prvars, chan, reg, user, cons, crashes>>

ireclaim(p) ==
    /\ At(p, "ireclaim")
    /\ LET i == Arg(p).ip
       IN  IF i > NINODES THEN Done(p) /\ UNCHANGED <<itable, panicked>>
           ELSE IF cur.dinode[i].type # "none" /\ cur.dinode[i].nlink = 0
           THEN /\ Panic(NoEmpty(itable, i), "iget: no inodes")
                /\ itable' = iget(itable, i)
                /\ Then(p, BeginOp \o Ilock(i) \o Iunlockput(i) \o EndOp \o Reclaim(i + 1))
           ELSE Then(p, Reclaim(i + 1)) /\ UNCHANGED <<itable, panicked>>
    /\ UNCHANGED <<cur, disk, outstanding, logged, ftable, pipes, prvars, chan, reg, user, cons, crashes>>

-----------------------------------------------------------------------------
\* mkfs: the root directory, then one file for each program.  Blocks are
\* handed out from the first one on; m is the image and the next free block.

Blank == [dinode |-> [i \in Inums |-> FreeDinode], used |-> {}, data |-> [b \in Blocks |-> ZeroBlock]]

mkfs_ialloc(m, type) ==
    [m EXCEPT !.img.dinode[m.inum] = [Dinode(type, 0) EXCEPT !.nlink = 1], !.inum = @ + 1]

\* One unit, in the last block or in a new one.
iappend(m, i, u) ==
    LET k      == m.img.dinode[i].size \div BSIZE
        direct == k < NDIRECT
        m1     == IF direct \/ m.img.dinode[i].addrs[NDIRECT] # 0 THEN m
                  ELSE [m EXCEPT !.img.dinode[i].addrs[NDIRECT] = m.block, !.block = @ + 1]
        d      == m1.img.dinode[i]
        m2     == IF Lookup(m1.img, d, k) # 0 THEN m1
                  ELSE IF direct THEN [m1 EXCEPT !.img.dinode[i].addrs[k] = m1.block, !.block = @ + 1]
                  ELSE [m1 EXCEPT !.img.data[d.addrs[NDIRECT]][k - NDIRECT] = Unit(m1.block), !.block = @ + 1]
        x      == Lookup(m2.img, m2.img.dinode[i], k)
    IN  [m2 EXCEPT !.img.data[x][d.size % BSIZE] = u, !.img.dinode[i].size = @ + 1]

\* A program's file: one unit, which names the program.
AddFile(m, name) ==
    iappend(iappend(mkfs_ialloc(m, "FILE"), ROOTINO, Dirent(m.inum, name)), m.inum, Dirent(1, name))

\* The size of the root directory is rounded up, past the next whole block.
Mkfs(names) ==
    LET r == mkfs_ialloc([img |-> Blank, inum |-> ROOTINO, block |-> 1], "DIR")
        e == iappend(iappend(r, ROOTINO, Dirent(ROOTINO, ".")), ROOTINO, Dirent(ROOTINO, ".."))
        m == FoldLeft(AddFile, e, names)
    IN  [m.img EXCEPT !.dinode[ROOTINO].size = ((@ \div BSIZE) + 1) * BSIZE,
                      !.used = 1 .. m.block - 1]
=============================================================================
