-------------------------------- MODULE File --------------------------------
(***************************************************************************)
(* Open files: file.c, the descriptors of sysfile.c, and sys_pipe.          *)
(***************************************************************************)
EXTENDS Fs, Pipe, Console

Files  == 1 .. NFILE
Fds    == 0 .. NOFILE - 1
NoFile == [ref |-> 0, type |-> "NONE", readable |-> FALSE, writable |-> FALSE,
           pipe |-> 0, ip |-> 0, off |-> 0, major |-> 0]

FreeFiles == {f \in Files : ftable[f].ref = 0}
filealloc == Min(FreeFiles)
PipeFile(i, w) == [NoFile EXCEPT !.ref = 1, !.type = "PIPE", !.readable = ~w, !.writable = w, !.pipe = i]

FreeFds(p)   == {fd \in Fds : proc[p].ofile[fd] = 0}
fdalloc(p)   == Min(FreeFds(p))
argfd(p, fd) == IF fd \in Fds THEN proc[p].ofile[fd] ELSE 0

Fileclose(f) == <<[op |-> "fileclose", f |-> f]>>

\* The result of a call that ends here.
Fails(p) == Then(p, Ret(-1)) /\ UNCHANGED <<ftable, proc>>

sys_dup(p) ==
    /\ At(p, "dup")
    /\ LET f == argfd(p, Arg(p).fd)
       IN  IF f = 0 \/ FreeFds(p) = {} THEN Fails(p)
           ELSE /\ proc' = [proc EXCEPT ![p].ofile[fdalloc(p)] = f]
                /\ ftable' = [ftable EXCEPT ![f].ref = @ + 1]
                /\ Then(p, Ret(fdalloc(p)))
    /\ UNCHANGED <<fsvars, pipes, nextpid, chan, reg, user, panicked, cons, crashes>>

sys_close(p) ==
    /\ At(p, "close")
    /\ LET f == argfd(p, Arg(p).fd)
       IN  IF f = 0 THEN Fails(p)
           ELSE /\ proc' = [proc EXCEPT ![p].ofile[Arg(p).fd] = 0]
                /\ Then(p, Fileclose(f) \o Ret(0))
                /\ UNCHANGED ftable
    /\ UNCHANGED <<fsvars, pipes, nextpid, chan, reg, user, panicked, cons, crashes>>

\* Mutant: the inode is put outside a transaction.
LastClose_NoOp(ff) ==
    IF ff.type = "PIPE" THEN <<[op |-> "pipeclose", pipe |-> ff.pipe, writable |-> ff.writable]>>
    ELSE IF ff.type \in {"INODE", "DEVICE"} THEN Iput(ff.ip)
    ELSE <<>>

\* What is left to do when the last reference to file ff is gone.
LastClose(ff) ==
    IF ff.type = "PIPE" THEN <<[op |-> "pipeclose", pipe |-> ff.pipe, writable |-> ff.writable]>>
    ELSE IF ff.type \in {"INODE", "DEVICE"} THEN BeginOp \o Iput(ff.ip) \o EndOp
    ELSE <<>>

\* Mutant: the inode of a file closed for good keeps its reference.
fileclose_KeepInode(p) ==
    /\ At(p, "fileclose")
    /\ LET f  == Arg(p).f
           ff == ftable[f]
       IN  /\ Panic(ff.ref < 1, "fileclose")
           /\ ftable' = [ftable EXCEPT ![f] = IF ff.ref > 1 THEN [@ EXCEPT !.ref = @ - 1] ELSE NoFile]
           /\ Then(p, IF ff.ref > 1 \/ ff.type # "PIPE" THEN <<>> ELSE LastClose(ff))
    /\ UNCHANGED <<fsvars, pipes, prvars, chan, reg, user, cons, crashes>>

fileclose(p) ==
    /\ At(p, "fileclose")
    /\ LET f  == Arg(p).f
           ff == ftable[f]
       IN  /\ Panic(ff.ref < 1, "fileclose")
           /\ ftable' = [ftable EXCEPT ![f] = IF ff.ref > 1 THEN [@ EXCEPT !.ref = @ - 1] ELSE NoFile]
           /\ Then(p, IF ff.ref > 1 THEN <<>> ELSE LastClose(ff))
    /\ UNCHANGED <<fsvars, pipes, prvars, chan, reg, user, cons, crashes>>

\* pipealloc takes two files and a page, sys_pipe two descriptors.
sys_pipe(p) ==
    /\ At(p, "pipe")
    /\ IF FreeFiles = {} THEN Then(p, Ret(-1)) /\ UNCHANGED ftable
       ELSE /\ ftable' = [ftable EXCEPT ![filealloc] = [NoFile EXCEPT !.ref = 1]]
            /\ Then(p, <<[op |-> "pipe2", rf |-> filealloc]>>)
    /\ UNCHANGED <<fsvars, pipes, prvars, chan, reg, user, panicked, cons, crashes>>

sys_pipe_alloc(p) ==
    /\ At(p, "pipe2")
    /\ LET rf   == Arg(p).rf
           free == {i \in Pipes : ~pipes[i].used}
           i    == Min(free)
           fds  == FreeFds(p)
           fd0  == Min(fds)
           fd1  == Min(fds \ {fd0})
       IN  \/ /\ FreeFiles = {} \/ free = {}
              /\ Then(p, Fileclose(rf) \o Ret(-1))
              /\ UNCHANGED <<ftable, pipes, proc>>
           \/ /\ FreeFiles # {} /\ free # {}
              /\ ftable' = [ftable EXCEPT ![rf] = PipeFile(i, FALSE), ![filealloc] = PipeFile(i, TRUE)]
              /\ pipes' = [pipes EXCEPT ![i] = NewPipe]
              /\ IF Cardinality(fds) < 2
                 THEN Then(p, Fileclose(rf) \o Fileclose(filealloc) \o Ret(-1)) /\ UNCHANGED proc
                 ELSE /\ proc' = [proc EXCEPT ![p].ofile = [@ EXCEPT ![fd0] = rf, ![fd1] = filealloc]]
                      /\ Then(p, RetData(0, <<fd0, fd1>>))
    /\ UNCHANGED <<fsvars, nextpid, chan, reg, user, panicked, cons, crashes>>

-----------------------------------------------------------------------------
\* read, write, fstat

\* The file is open for this, and a device has a driver: only the console has.
CONSOLE == 1
Usable(f, right) == ftable[f][right] /\ (ftable[f].type = "DEVICE" => ftable[f].major = CONSOLE)

sys_read(p) ==
    /\ At(p, "read")
    /\ LET f == argfd(p, Arg(p).fd)
           n == Arg(p).n
       IN  IF f = 0 \/ ~Usable(f, "readable") THEN Then(p, Ret(-1))
           ELSE IF ftable[f].type = "PIPE" THEN Then(p, PipeRead(ftable[f].pipe, n, Arg(p).bad))
           ELSE IF ftable[f].type = "DEVICE" THEN Then(p, ConsoleRead(n, <<>>, Arg(p).bad))
           ELSE Then(p, Ilock(ftable[f].ip) \o <<[op |-> "fileread", f |-> f, n |-> n, bad |-> Arg(p).bad]>>)
    /\ UNCHANGED <<fsvars, ftable, pipes, prvars, chan, reg, user, panicked, cons, crashes>>

\* Mutant: every read starts at the beginning of the file.
fileread_FromStart(p) ==
    /\ At(p, "fileread")
    /\ LET a == Arg(p)
           i == ftable[a.f].ip
           r == readi(cur, itable[i].d, 0, a.n)
       IN  /\ ftable' = [ftable EXCEPT ![a.f].off = @ + Len(r)]
           /\ Then(p, Iunlock(i) \o RetData(Len(r), [k \in DOMAIN r |-> r[k].v]))
    /\ UNCHANGED <<fsvars, pipes, prvars, chan, reg, user, panicked, cons, crashes>>

\* A read into a buffer that cannot be written fails, unless there is nothing to copy.
fileread(p) ==
    /\ At(p, "fileread")
    /\ LET a == Arg(p)
           i == ftable[a.f].ip
           r == readi(cur, itable[i].d, ftable[a.f].off, a.n)
       IN  IF a.bad /\ r # <<>>
           THEN Then(p, Iunlock(i) \o Ret(-1)) /\ UNCHANGED ftable
           ELSE /\ ftable' = [ftable EXCEPT ![a.f].off = @ + Len(r)]
                /\ Then(p, Iunlock(i) \o RetData(Len(r), [k \in DOMAIN r |-> r[k].v]))
    /\ UNCHANGED <<fsvars, pipes, prvars, chan, reg, user, panicked, cons, crashes>>

\* Units of one transaction of filewrite.
WriteMax == ((MAXOPBLOCKS - 1 - 1 - 2) \div 2) * BSIZE

Filewrite(f, data, n, bad) == <<[op |-> "filewrite", f |-> f, data |-> data, n |-> n, bad |-> bad]>>

sys_write(p) ==
    /\ At(p, "write")
    /\ LET a == Arg(p)
           f == argfd(p, a.fd)
       IN  IF f = 0 \/ ~Usable(f, "writable") THEN Then(p, Ret(-1))
           ELSE IF ftable[f].type = "PIPE" THEN Then(p, PipeWrite(ftable[f].pipe, a.data, 0, a.bad))
           ELSE IF ftable[f].type = "DEVICE" THEN Then(p, ConsoleWrite(a.data, 0, a.bad))
           ELSE Then(p, Filewrite(f, a.data, Len(a.data), a.bad))
    /\ UNCHANGED <<fsvars, ftable, pipes, prvars, chan, reg, user, panicked, cons, crashes>>

\* The loop of filewrite: a.data is still to be written.
filewrite(p) ==
    /\ At(p, "filewrite")
    /\ LET a  == Arg(p)
           n1 == Min({Len(a.data), WriteMax})
       IN  IF n1 = 0 THEN Then(p, Ret(a.n))
           ELSE Then(p, BeginOp \o Ilock(ftable[a.f].ip) \o
                        <<[op |-> "writei", f |-> a.f, data |-> a.data, n1 |-> n1, n |-> a.n, bad |-> a.bad]>>)
    /\ UNCHANGED <<fsvars, ftable, pipes, prvars, chan, reg, user, panicked, cons, crashes>>

filewrite_chunk(p) ==
    /\ At(p, "writei")
    /\ LET a == Arg(p)
           i == ftable[a.f].ip
       IN  \E w \in {writei(Work(p, itable[i].d), i, ftable[a.f].off, [k \in 1 .. a.n1 |-> Unit(a.data[k])], a.bad)} :
           /\ cur' = w.cur
           /\ logged' = [logged EXCEPT ![p] = w.log]
           /\ panicked' = w.err
           /\ itable' = [itable EXCEPT ![i].d = w.d]
           /\ ftable' = [ftable EXCEPT ![a.f].off = @ + Max({0, w.tot})]
           /\ Then(p, Iunlock(i) \o EndOp \o
                      IF w.tot = a.n1 THEN Filewrite(a.f, SubSeq(a.data, a.n1 + 1, Len(a.data)), a.n, a.bad)
                                      ELSE Ret(-1))
    /\ UNCHANGED <<disk, outstanding, pipes, prvars, chan, reg, user, cons, crashes>>

sys_fstat(p) ==
    /\ At(p, "fstat")
    /\ LET f == argfd(p, Arg(p).fd)
       IN  IF f = 0 \/ ftable[f].type = "PIPE" THEN Then(p, Ret(-1))
           ELSE Then(p, Ilock(ftable[f].ip) \o <<[op |-> "filestat", ip |-> ftable[f].ip]>>)
    /\ UNCHANGED <<fsvars, ftable, pipes, prvars, chan, reg, user, panicked, cons, crashes>>

\* Size and number of links, as stati reports them.
filestat(p) ==
    /\ At(p, "filestat")
    /\ LET i == Arg(p).ip
       IN  Then(p, Iunlock(i) \o RetData(0, <<itable[i].d.size, itable[i].d.nlink>>))
    /\ UNCHANGED <<fsvars, ftable, pipes, prvars, chan, reg, user, panicked, cons, crashes>>
=============================================================================
