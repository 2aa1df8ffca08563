------------------------------ MODULE SysFile -------------------------------
(***************************************************************************)
(* The system calls of sysfile.c that take a path.  Each has the operations *)
(* Entry (in Unix) pushes before it: begin_op and the first path lookup,    *)
(* whose result is in reg.  A call that leaves early pushes what the code   *)
(* does on that path, Fail being end_op and the return of -1.               *)
(***************************************************************************)
EXTENDS File

Found(p) == reg[p].ip
Others   == <<disk, outstanding, ftable, pipes, prvars, chan, reg, user, cons, crashes>>

\* The inode locked by p is worked on as w says.
Store(p, i, work) ==
    \E w \in {work} :
        /\ cur' = w.cur
        /\ logged' = [logged EXCEPT ![p] = w.log]
        /\ panicked' = w.err
        /\ itable' = [itable EXCEPT ![i].d = w.d]

\* Calls that take no lock in this step.
Only(p, ops) == Then(p, ops) /\ UNCHANGED <<cur, logged, itable, panicked>>

-----------------------------------------------------------------------------
\* create(path, type, major), for open, mkdir and mknod: a.call says for whom.

Created(a, i) ==
    IF a.call = "open" THEN <<[op |-> "open_file", ip |-> i, mode |-> a.mode]>>
    ELSE Iunlockput(i) \o EndOp \o Ret(0)

create(p) ==
    /\ At(p, "create")
    /\ LET dp == Found(p)
       IN  Then(p, IF dp = 0 THEN Fail
                   ELSE Ilock(dp) \o <<[Arg(p) EXCEPT !.op = "create_in", !.dp = dp, !.name = reg[p].name]>>)
    /\ UNCHANGED <<cur, logged, itable, panicked, Others>>

FreeInums == {i \in Inums : cur.dinode[i].type = "none"}

ialloc(w, i, type) == [w EXCEPT !.cur.dinode[i] = Dinode(type, 0), !.log = @ \cup {IBLOCK(i)}]

\* With dp locked: the name exists, or an inode is allocated for it.
create_in(p) ==
    /\ At(p, "create_in")
    /\ LET a  == Arg(p)
           d  == itable[a.dp].d
           k  == dirlookup(cur, d, a.name)
           i  == IF k # 0 THEN Entries(cur, d)[k].v ELSE Min(FreeInums)
           w  == ialloc(Work(p, d), i, a.type)
       IN  \/ /\ k # 0
              /\ Panic(NoEmpty(itable, i), "iget: no inodes")
              /\ itable' = iget(itable, i)
              /\ Then(p, Iunlockput(a.dp) \o Ilock(i) \o <<[a EXCEPT !.op = "create_found", !.ip = i]>>)
              /\ UNCHANGED <<cur, logged>>
           \/ /\ k = 0 /\ FreeInums = {}
              /\ Only(p, Iunlockput(a.dp) \o Fail)
           \/ /\ k = 0 /\ FreeInums # {}
              /\ Panic(NoEmpty(itable, i), "iget: no inodes")
              /\ itable' = iget(itable, i)
              /\ cur' = w.cur
              /\ logged' = [logged EXCEPT ![p] = w.log]
              /\ Then(p, Ilock(i) \o <<[a EXCEPT !.op = "create_new", !.ip = i]>>)
    /\ UNCHANGED Others

create_found(p) ==
    /\ At(p, "create_found")
    /\ LET a == Arg(p)
       IN  IF a.type = "FILE" /\ itable[a.ip].d.type \in {"FILE", "DEVICE"}
           THEN Then(p, Created(a, a.ip))
           ELSE Then(p, Iunlockput(a.ip) \o Fail)
    /\ UNCHANGED <<cur, logged, itable, panicked, Others>>

\* The . and .. entries of a new directory i in dp; tot = 1 when both are there.
Dots(w, i, dp) ==
    LET e == dirlink(w, i, ".", i)
    IN  IF e.tot = 1 THEN dirlink(e, i, "..", dp) ELSE e

\* dp->nlink++ for the .. of a new directory.
LinkParent(w, a) ==
    IF a.type = "DIR" THEN iupdate([w EXCEPT !.d.nlink = @ + 1], a.dp) ELSE w

\* With dp and the new inode locked: the inode gets its links and its dots, then a name.
create_new(p) ==
    /\ At(p, "create_new")
    /\ LET a == Arg(p)
           n == iupdate([Work(p, itable[a.ip].d) EXCEPT !.d = [@ EXCEPT !.major = a.major, !.nlink = 1]], a.ip)
       IN  \E e \in {IF a.type = "DIR" THEN Dots(n, a.ip, a.dp) ELSE [n EXCEPT !.tot = 1]} :
           \E l \in {dirlink([e EXCEPT !.d = itable[a.dp].d], a.dp, a.name, a.ip)} :
           LET fail == iupdate([(IF e.tot = 1 THEN l ELSE e) EXCEPT !.d = [e.d EXCEPT !.nlink = 0]], a.ip)
               good == LinkParent(l, a)
               w    == IF e.tot = 1 /\ l.tot = 1 THEN good ELSE fail
           IN  /\ cur' = w.cur /\ panicked' = w.err
               /\ logged' = [logged EXCEPT ![p] = w.log]
               /\ \/ /\ e.tot # 1
                     /\ itable' = [itable EXCEPT ![a.ip].d = fail.d]
                     /\ Then(p, Iunlockput(a.ip) \o Iunlockput(a.dp) \o Fail)
                  \/ /\ e.tot = 1 /\ l.tot # 1
                     /\ itable' = [itable EXCEPT ![a.ip].d = fail.d, ![a.dp].d = l.d]
                     /\ Then(p, Iunlockput(a.ip) \o Iunlockput(a.dp) \o Fail)
                  \/ /\ e.tot = 1 /\ l.tot = 1
                     /\ itable' = [itable EXCEPT ![a.ip].d = e.d, ![a.dp].d = good.d]
                     /\ Then(p, Iunlockput(a.dp) \o Created(a, a.ip))
    /\ UNCHANGED Others

-----------------------------------------------------------------------------
\* open without O_CREATE, chdir and exec start with a lookup and lock what they find.
with_inode(p) ==
    /\ At(p, "with_inode")
    /\ Then(p, IF Found(p) = 0 THEN Fail
               ELSE Ilock(Found(p)) \o <<[Arg(p) EXCEPT !.op = Arg(p).next, !.ip = Found(p)]>>)
    /\ UNCHANGED <<cur, logged, itable, panicked, Others>>

\* open of an existing path: a directory can only be read.
open_found(p) ==
    /\ At(p, "open_found")
    /\ LET a == Arg(p)
       IN  IF itable[a.ip].d.type = "DIR" /\ a.mode # {}
           THEN Then(p, Iunlockput(a.ip) \o Fail)
           ELSE Then(p, <<[op |-> "open_file", ip |-> a.ip, mode |-> a.mode]>>)
    /\ UNCHANGED <<cur, logged, itable, panicked, Others>>

NDEV == 10

\* A file and a descriptor for the locked inode; O_TRUNC empties a file.
open_file(p) ==
    /\ At(p, "open_file")
    /\ LET a == Arg(p)
           d == itable[a.ip].d
           f == [NoFile EXCEPT !.ref = 1, !.ip = a.ip, !.major = d.major,
                               !.type = IF d.type = "DEVICE" THEN "DEVICE" ELSE "INODE",
                               !.readable = "WRONLY" \notin a.mode,
                               !.writable = a.mode \cap {"WRONLY", "RDWR"} # {}]
           w == itrunc(Work(p, d), a.ip)
       IN  \/ /\ \/ d.type = "DEVICE" /\ d.major \notin 0 .. NDEV - 1
                 \/ FreeFiles = {} \/ FreeFds(p) = {}
              /\ Only(p, Iunlockput(a.ip) \o Fail)
              /\ UNCHANGED <<ftable, proc>>
           \/ /\ d.type # "DEVICE" \/ d.major \in 0 .. NDEV - 1
              /\ FreeFiles # {} /\ FreeFds(p) # {}
              /\ ftable' = [ftable EXCEPT ![filealloc] = f]
              /\ proc' = [proc EXCEPT ![p].ofile[fdalloc(p)] = filealloc]
              /\ IF "TRUNC" \in a.mode /\ d.type = "FILE" THEN Store(p, a.ip, w)
                 ELSE UNCHANGED <<cur, logged, panicked, itable>>
              /\ Then(p, Iunlock(a.ip) \o EndOp \o Ret(fdalloc(p)))
    /\ UNCHANGED <<disk, outstanding, pipes, nextpid, chan, reg, user, cons, crashes>>

-----------------------------------------------------------------------------
\* link(old, new)

link_old(p) ==
    /\ At(p, "link_old")
    /\ LET a == Arg(p)
           w == iupdate([Work(p, itable[a.ip].d) EXCEPT !.d.nlink = @ + 1], a.ip)
       IN  IF itable[a.ip].d.type = "DIR" THEN Only(p, Iunlockput(a.ip) \o Fail)
           ELSE /\ Store(p, a.ip, w)
                /\ Then(p, Iunlock(a.ip) \o nameiparent(a.new) \o <<[a EXCEPT !.op = "link_new"]>>)
    /\ UNCHANGED Others

LinkBad(i) == Ilock(i) \o <<[op |-> "link_bad", ip |-> i]>>

link_new(p) ==
    /\ At(p, "link_new")
    /\ LET a == Arg(p)
       IN  Then(p, IF Found(p) = 0 THEN LinkBad(a.ip)
                   ELSE Ilock(Found(p)) \o <<[op |-> "link_dir", dp |-> Found(p), name |-> reg[p].name, ip |-> a.ip]>>)
    /\ UNCHANGED <<cur, logged, itable, panicked, Others>>

link_dir(p) ==
    /\ At(p, "link_dir")
    /\ LET a == Arg(p)
           d == itable[a.dp].d
           k == dirlookup(cur, d, a.name)
           i == Entries(cur, d)[k].v
       IN  \/ /\ k # 0
              /\ Panic(NoEmpty(itable, i), "iget: no inodes")
              /\ itable' = iget(itable, i)
              /\ Then(p, Iput(i) \o Iunlockput(a.dp) \o LinkBad(a.ip))
              /\ UNCHANGED <<cur, logged>>
           \/ /\ k = 0
              /\ \E w \in {dirlink(Work(p, d), a.dp, a.name, a.ip)} :
                     /\ Store(p, a.dp, w)
                     /\ Then(p, Iunlockput(a.dp) \o (IF w.tot = 1 THEN Iput(a.ip) \o EndOp \o Ret(0) ELSE LinkBad(a.ip)))
    /\ UNCHANGED Others

link_bad(p) ==
    /\ At(p, "link_bad")
    /\ LET i == Arg(p).ip
       IN  /\ Store(p, i, iupdate([Work(p, itable[i].d) EXCEPT !.d.nlink = @ - 1], i))
           /\ Then(p, Iunlockput(i) \o Fail)
    /\ UNCHANGED Others

-----------------------------------------------------------------------------
\* unlink(path)

unlink(p) ==
    /\ At(p, "unlink")
    /\ Then(p, IF Found(p) = 0 THEN Fail
               ELSE Ilock(Found(p)) \o <<[op |-> "unlink_in", dp |-> Found(p), name |-> reg[p].name]>>)
    /\ UNCHANGED <<cur, logged, itable, panicked, Others>>

unlink_in(p) ==
    /\ At(p, "unlink_in")
    /\ LET a == Arg(p)
           d == itable[a.dp].d
           k == dirlookup(cur, d, a.name)
           i == Entries(cur, d)[k].v
       IN  IF a.name \in {".", ".."} \/ k = 0
           THEN Only(p, Iunlockput(a.dp) \o Fail)
           ELSE /\ Panic(NoEmpty(itable, i), "iget: no inodes")
                /\ itable' = iget(itable, i)
                /\ Then(p, Ilock(i) \o <<[op |-> "unlink_entry", dp |-> a.dp, off |-> k - 1, ip |-> i]>>)
                /\ UNCHANGED <<cur, logged>>
    /\ UNCHANGED Others

Removable(d) == d.type # "DIR" \/ isdirempty(cur, d)

\* With dp and ip locked: the entry is cleared and ip loses a link.  ip->nlink--
\* comes after dp is unlocked and put, in unlink_links.
unlink_entry(p) ==
    /\ At(p, "unlink_entry")
    /\ LET a == Arg(p)
           d == itable[a.ip].d
           e == writei(Work(p, itable[a.dp].d), a.dp, a.off, <<Unit(0)>>, FALSE)
           w == IF d.type = "DIR" THEN iupdate([e EXCEPT !.d.nlink = @ - 1], a.dp) ELSE e
       IN  IF d.nlink >= 1 /\ ~Removable(d)
           THEN Only(p, Iunlockput(a.ip) \o Iunlockput(a.dp) \o Fail)
           ELSE /\ Store(p, a.dp, [w EXCEPT !.err = IF d.nlink < 1 THEN "unlink: nlink < 1" ELSE @])
                /\ Then(p, Iunlockput(a.dp) \o <<[op |-> "unlink_links", ip |-> a.ip]>>)
    /\ UNCHANGED Others

unlink_links(p) ==
    /\ At(p, "unlink_links")
    /\ LET i == Arg(p).ip
       IN  /\ Store(p, i, iupdate([Work(p, itable[i].d) EXCEPT !.d.nlink = @ - 1], i))
           /\ Then(p, Iunlockput(i) \o EndOp \o Ret(0))
    /\ UNCHANGED Others

-----------------------------------------------------------------------------
\* chdir(path)

chdir(p) ==
    /\ At(p, "chdir")
    /\ LET i == Arg(p).ip
       IN  IF itable[i].d.type # "DIR" THEN Then(p, Iunlockput(i) \o Fail)
           ELSE Then(p, Iunlock(i) \o Iput(proc[p].cwd) \o EndOp \o <<[op |-> "chdir_set", ip |-> i]>>)
    /\ UNCHANGED <<cur, logged, itable, panicked, Others>>

chdir_set(p) ==
    /\ At(p, "chdir_set")
    /\ proc' = [proc EXCEPT ![p].cwd = Arg(p).ip]
    /\ Then(p, Ret(0))
    /\ UNCHANGED <<fsvars, ftable, pipes, nextpid, chan, reg, user, panicked, cons, crashes>>
=============================================================================
