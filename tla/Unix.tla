-------------------------------- MODULE Unix ---------------------------------
(***************************************************************************)
(* The kernel from the system call interface down to the file system:      *)
(* programs run in user space (UserTests, Shell), trap into the kernel,    *)
(* and their kernel threads interleave.  The machine may lose power at any *)
(* moment; it then boots from what has been committed.                     *)
(***************************************************************************)
EXTENDS SysProc, Shell

CONSTANT Tests         \* the tests, one of which a behaviour runs

-----------------------------------------------------------------------------
\* Boot: userinit, and forkret of the first process, which calls fsinit and execs /init.

Image(t) == Mkfs(IF t \in DOMAIN Sessions THEN Sessions[t].files ELSE <<"init", "echo", "cat">>)

WithInode(next, c) ==
    <<[op |-> "with_inode", next |-> next, ip |-> 0, mode |-> c.mode, new |-> c.new, argv |-> c.argv]>>

Forkret == Reclaim(1) \o BeginOp \o namei(<<"/", "init">>) \o WithInode("exec", Insn("exec", {}))

NoUser == [prog |-> "", pc |-> 1, kids |-> <<>>, test |-> "", ok |-> TRUE, buf |-> <<>>, cmd |-> <<>>, argv |-> <<>>]
Typed(t) == IF t \in DOMAIN Sessions THEN Sessions[t].typed ELSE IF t \in DOMAIN Keys THEN Keys[t] ELSE <<>>

\* What is in memory after userinit, and what each process starts from.
BootItable == [i \in Inums |-> IF i = ROOTINO THEN [NoInode EXCEPT !.ref = 1] ELSE NoInode]
BootProc   == [p \in Procs |-> IF p = 1 THEN [NoProc EXCEPT !.state = "LIVE", !.pid = 1, !.cwd = ROOTINO] ELSE NoProc]

Init ==
    /\ outstanding = [p \in Procs |-> 0] /\ logged = [p \in Procs |-> {}]
    /\ itable = BootItable
    /\ ftable = [f \in Files |-> NoFile]
    /\ pipes = [i \in Pipes |-> NoPipe]
    /\ proc = BootProc
    /\ chan = [p \in Procs |-> NoChan]
    /\ nextpid = 2
    /\ todo = [p \in Procs |-> IF p = 1 THEN Forkret ELSE <<>>]
    /\ reg = [p \in Procs |-> NoName]
    /\ \E t \in Tests :
           /\ user = [p \in Procs |-> [NoUser EXCEPT !.test = t]]
           /\ disk = Image(t) /\ cur = disk
           /\ cons = [NoCons EXCEPT !.typed = Typed(t)]
    /\ panicked = "" /\ crashes = 0

\* Power fails and the machine boots again; the log has been recovered.
Crash ==
    /\ crashes < MaxCrash /\ panicked = ""
    /\ crashes' = crashes + 1
    /\ cur' = disk /\ disk' = disk
    /\ outstanding' = [p \in Procs |-> 0] /\ logged' = [p \in Procs |-> {}]
    /\ itable' = BootItable
    /\ ftable' = [f \in Files |-> NoFile]
    /\ pipes' = [i \in Pipes |-> NoPipe]
    /\ cons' = NoCons
    /\ proc' = BootProc
    /\ chan' = [p \in Procs |-> NoChan]
    /\ nextpid' = 2
    /\ todo' = [p \in Procs |-> IF p = 1 THEN Forkret ELSE <<>>]
    /\ reg' = [p \in Procs |-> NoName]
    /\ user' = [p \in Procs |-> [NoUser EXCEPT !.test = "exit0"]]
    /\ UNCHANGED panicked

-----------------------------------------------------------------------------
\* System calls

\* The program a process runs.
Code(u) ==
    CASE u.cmd # <<>> -> runcmd(u.cmd[1])
      [] u.cmd = <<>> /\ u.prog = "sh" -> sh_main(u.buf)
      [] u.cmd = <<>> /\ u.prog = "echo" -> echo_main(u.argv)
      [] u.cmd = <<>> /\ u.prog = "cat" -> cat_main(u.argv)
      [] u.cmd = <<>> /\ u.prog = "mkdir" -> mkdir_main(u.argv)
      [] u.cmd = <<>> /\ u.prog = "rm" -> rm_main(u.argv)
      [] u.cmd = <<>> /\ u.prog = "ln" -> ln_main(u.argv)
      [] u.cmd = <<>> /\ u.prog = "init" /\ u.test \in DOMAIN Sessions -> init_sh
      [] OTHER -> Programs[u.prog]
\* The next instruction; a program that ends exits.
Fetch(u) == Once(Code(u), LAMBDA code : IF u.pc > Len(code) THEN Exit(0) ELSE code[u.pc])

InUser(p) == Runs(p) /\ todo[p] = <<>> /\ (user[p].prog # "" \/ user[p].cmd # <<>>)
Halted(p) == p = 1 /\ user[p].test \notin DOMAIN Sessions /\ user[p].pc > Len(init)

\* What the kernel runs for call c of process p.
Entry(p, c) ==
    LET make(type) ==
            BeginOp \o nameiparent(c.path) \o
            <<[op |-> "create", call |-> c.call, mode |-> c.mode, type |-> type, major |-> c.major,
               dp |-> 0, name |-> "", ip |-> 0]>>
        lookup(next) == BeginOp \o namei(c.path) \o WithInode(next, c)
    IN  CASE c.call = "open" -> IF "CREATE" \in c.mode THEN make("FILE") ELSE lookup("open_found")
          [] c.call = "mkdir" -> make("DIR")
          [] c.call = "mknod" -> make("DEVICE")
          [] c.call = "chdir" -> lookup("chdir")
          [] c.call = "link" -> lookup("link_old")
          [] c.call = "exec" -> lookup("exec")
          [] c.call = "unlink" -> BeginOp \o nameiparent(c.path) \o <<[op |-> "unlink"]>>
          [] c.call = "exit" -> ExitOp(c.n)
          [] c.call = "kill" -> <<[op |-> "kill", pid |-> IF c.n = 0 THEN proc[p].pid ELSE user[p].kids[c.n]]>>
          [] c.call = "fork" -> <<[op |-> "fork", prog |-> IF c.prog = "test" THEN user[p].test ELSE c.prog, cmd |-> c.cmd]>>
          [] c.call \in {"read", "write", "close", "dup", "fstat", "pipe", "wait", "pause", "getpid"} ->
                 <<[op |-> c.call, fd |-> c.fd, n |-> c.n, data |-> IF c.put THEN user[p].buf ELSE c.data, bad |-> c.bad]>>

\* A choice the program makes by itself.
choose(p) ==
    /\ InUser(p) /\ ~Halted(p)
    /\ \E c \in {Fetch(user[p])} : c.call = "rand" /\ \E pc \in c.jump : user' = [user EXCEPT ![p].pc = pc]
    /\ UNCHANGED <<fsvars, ftable, pipes, prvars, chan, todo, reg, panicked, cons, crashes>>

\* A system call, or the timer interrupt of a program that loops.
usertrap(p) ==
    /\ InUser(p) /\ ~Halted(p)
    /\ \E c \in {Fetch(user[p])} :
           /\ c.call = "spin" => proc[p].killed
           /\ c.call # "rand"
           /\ todo' = [todo EXCEPT ![p] = IF proc[p].killed THEN ExitOp(-1) ELSE Entry(p, c)]
    /\ UNCHANGED <<fsvars, ftable, pipes, prvars, chan, reg, user, panicked, cons, crashes>>

\* Where a program goes on, and what it keeps of the data it has read.
Goto(u, c, v, data) ==
    IF c.get = "line" THEN (IF v = 1 /\ data # <<NL>> THEN u.pc ELSE AfterGets(u.buf \o data))
    ELSE IF c.get = "orphans" THEN (IF v = u.kids[1] THEN Len(init_main) + 1 ELSE u.pc)
    ELSE IF v > 0 /\ c.pos # 0 THEN c.pos
    ELSE IF v < 0 /\ c.neg # 0 THEN c.neg
    ELSE u.pc + 1
Keep(u, c, pc, data) ==
    IF c.get = "line" THEN (IF pc = 3 THEN <<>> ELSE u.buf \o data)
    ELSE IF c.get = "buf" THEN data
    ELSE IF c.get = "seq" THEN u.buf \o data
    ELSE IF u.prog = "sh" THEN (IF pc = 3 \/ c.pos = 4 THEN <<>> ELSE u.buf)
    ELSE <<>>

\* The test is content: with a read of a sequence, when it goes on as it should and ends
\* where it should.
Accepts(u, c, v, data) ==
    /\ v \in c.want
    /\ IF c.get = "seq" THEN \A s \in c.expect : IsPrefix(u.buf \o data, s) /\ (v = 0 => u.buf = s)
       ELSE c.expect = {} \/ data \in c.expect

\* The program sees the result and goes on.
Resume(u, c, v, data) ==
    LET pc   == Goto(u, c, v, data)
        next == c.next # <<>> /\ v >= 0
    IN  [u EXCEPT !.ok = @ /\ Accepts(u, c, v, data),
                  !.pc = IF next THEN 1 ELSE pc,
                  !.cmd = IF next THEN c.next ELSE @,
                  !.buf = Keep(u, c, pc, data),
                  !.kids = IF c.get = "shell" THEN <<v>> ELSE IF c.call = "fork" /\ c.cmd = <<>> THEN Append(@, v) ELSE @]

\* Return from the call; a process killed meanwhile exits instead.  The first process
\* cannot return from forkret when its exec has failed.
usertrap_ret(p) ==
    /\ At(p, "ret")
    /\ Panic(p = 1 /\ user[p].prog = "", "exec")
    /\ \/ /\ proc[p].killed
          /\ Then(p, ExitOp(-1))
          /\ UNCHANGED user
       \/ /\ ~proc[p].killed
          /\ Done(p)
          /\ user' = IF p = 1 /\ user[p].prog = "" THEN user ELSE [user EXCEPT ![p] = Resume(@, Fetch(@), Arg(p).v, Arg(p).data)]
    /\ reg' = [reg EXCEPT ![p] = NoName]
    /\ UNCHANGED <<fsvars, ftable, pipes, prvars, chan, cons, crashes>>

-----------------------------------------------------------------------------
FsStep(p) ==
    \/ begin_op(p) \/ end_op(p) \/ ilock(p) \/ iunlock(p) \/ iput(p) \/ iput_free(p) \/ iput_freed(p) \/ iput_deref(p)
    \/ namex(p) \/ namex_loop(p) \/ namex_body(p) \/ ireclaim(p)

FileStep(p) ==
    \/ sys_dup(p) \/ sys_close(p) \/ fileclose(p) \/ sys_pipe(p) \/ sys_pipe_alloc(p) \/ sys_read(p) \/ fileread(p)
    \/ sys_write(p) \/ filewrite(p) \/ filewrite_chunk(p) \/ sys_fstat(p) \/ filestat(p)
    \/ pipeclose(p) \/ pipewrite(p) \/ piperead(p) \/ consoleread(p) \/ consolewrite(p) \/ uartwrite(p)

PathStep(p) ==
    \/ create(p) \/ create_in(p) \/ create_found(p) \/ create_new(p) \/ with_inode(p) \/ open_found(p) \/ open_file(p)
    \/ link_old(p) \/ link_new(p) \/ link_dir(p) \/ link_bad(p)
    \/ unlink(p) \/ unlink_in(p) \/ unlink_entry(p) \/ unlink_links(p) \/ chdir(p) \/ chdir_set(p)

ProcStep(p) ==
    \/ choose(p) \/ usertrap(p) \/ usertrap_ret(p) \/ kfork(p) \/ kexit(p) \/ kexit_zombie(p) \/ kwait(p) \/ kkill(p)
    \/ sys_getpid(p) \/ sys_pause(p) \/ kexec(p) \/ kexec_commit(p)

Step(p) == FsStep(p) \/ FileStep(p) \/ PathStep(p) \/ ProcStep(p)

\* All work is done: init alone is left and has nothing to wait for.
Finished == InUser(1) /\ Halted(1) /\ \A p \in Procs \ {1} : proc[p].state = "UNUSED"

\* All input is read, and whoever is left waits for more or for a child that lives.
Resting ==
    /\ cons.typed = <<>> /\ cons.r = cons.w /\ ~cons.tx_busy
    /\ \E p \in Procs : chan[p] = Input
    /\ \A p \in Procs : /\ proc[p].state = "LIVE" => chan[p] \in {Input, <<"wait", p>>}
                        /\ proc[p].state = "ZOMBIE" => chan[proc[p].parent] = Input

Idle == (Finished \/ Resting) /\ UNCHANGED vars

\* In a session one types when the shell asks; consoletest types ahead.
Typing == (user[1].test \in DOMAIN Sessions => \E p \in Procs : chan[p] = Input) /\ consoleintr

\* Steps that read and change nothing but what their own thread has (its stack, its
\* descriptors, an inode it has locked or holds as its directory), or that let go of a
\* lock, or a turn of pipewrite, which has the lock.  They commute with the steps of all others, so it is enough to let them run
\* first, in the order of the processes.  So do the traps, in a test that kills nobody.
LocalOps == {"namex", "walk", "with_inode", "create", "link_new", "unlink", "read", "write", "filewrite", "fstat",
             "filestat", "fileread", "open_found", "create_found", "chdir", "exec", "exit", "close", "iunlock", "ifreed",
             "consolewrite"}
Kills    == {t \in Tests \cap DOMAIN Programs : \E k \in DOMAIN Programs[t] : Programs[t][k].call = "kill"}
Local(p) == IF todo[p] = <<>> THEN ~Halted(p) /\ user[p].test \notin Kills
            ELSE \/ Head(todo[p]).op \in LocalOps
                 \/ Head(todo[p]).op = "ret" /\ user[p].test \notin Kills
                 \/ Head(todo[p]).op = "pipewrite" /\ pipes[Arg(p).pipe].lock = p /\ user[p].test \notin Kills
Turn(run, local) == IF local = {} THEN run ELSE {Min(local)}
Thread == \E run \in {{p \in Procs : Runs(p)}} : \E p \in Turn(run, {q \in run : Local(q)}) : Step(p)

Next == Thread \/ clockintr \/ Typing \/ uartintr \/ Crash \/ Idle

Spec == Init /\ [][Next]_vars

-----------------------------------------------------------------------------
\* Values have their types: references and counters are natural numbers, locks and
\* descriptors name processes and files (struct proc, file, inode and pipe).
TypeOK ==
    /\ outstanding \in [Procs -> {0, 1}] /\ nextpid \in Nat /\ crashes \in 0 .. MaxCrash
    /\ \A i \in Inums : itable[i].ref \in Nat /\ itable[i].lock \in {0} \cup Procs
    /\ \A f \in Files : ftable[f].ref \in Nat /\ ftable[f].off \in 0 .. MAXFILE * BSIZE
    /\ \A p \in Procs : /\ proc[p].state \in {"UNUSED", "LIVE", "ZOMBIE"}
                        /\ proc[p].ofile \in [Fds -> {0} \cup Files]
                        /\ proc[p].cwd \in {0} \cup Inums
    /\ \A i \in Pipes : {pipes[i].nread, pipes[i].nwrite} \subseteq 0 .. UINT - 1
    /\ cur.used \subseteq Blocks

\* The kernel reaches none of its panics: the reference counts, the locks and the tables
\* hold out whatever the processes do (panic() in fs.c, file.c, sysfile.c and proc.c).
NoPanic == panicked = ""

\* Every test of usertests passes, in every interleaving of its processes: each call
\* returns what the test insists on and each read brings the data written.
TestsPass == \A p \in Procs : user[p].ok

\* When the shell has run all that was typed, the screen shows what the commands print,
\* in an order they allow: lines are edited, parsed and run as typed, a pipe and a file
\* carry the data on, and init starts the shell again (sh.c, init.c, consoleread).
SessionShown ==
    \A t \in DOMAIN Sessions : user[1].test = t /\ Resting => cons.out \in Sessions[t].out

\* On disk, at every moment, each block belongs to one inode at most, and the bitmap
\* marks the blocks that do, so that no block is lost or given out twice after a crash
\* (balloc, bfree, bmap, itrunc, iput, each in one transaction).
BlocksConsistent ==
    \A blocks \in {[i \in Inums |-> Addrs(disk, disk.dinode[i])]} :
        /\ disk.used = UNION {Range(blocks[i]) : i \in Inums}
        /\ Cardinality(disk.used) = MapThenSumSet(LAMBDA i : Len(blocks[i]), Inums)

\* On disk, at every moment, an inode's nlink is the number of directory entries that
\* name it, every entry names an allocated inode, and no directory has two entries of a
\* name (create, sys_link, sys_unlink; struct dinode: "Number of links to inode in file
\* system").  The .. of a removed directory is no link, and . never is.
LinksConsistent ==
    LET live == {i \in Inums : disk.dinode[i].type # "none"}
        dirs == {i \in live : disk.dinode[i].type = "DIR"}
    IN  \A ents \in {[d \in dirs |-> Entries(disk, disk.dinode[d])]} :
        \A used \in {UNION {{[dir |-> d, slot |-> k, n |-> ents[d][k].n, v |-> ents[d][k].v] :
                              k \in {j \in DOMAIN ents[d] : ents[d][j].v # 0}} : d \in dirs}} :
            /\ \A e \in used : e.v \in live
            /\ Cardinality({<<e.dir, e.n>> : e \in used}) = Cardinality(used)
            /\ \A links \in {{e \in used : e.n # "." /\ (e.n = ".." => disk.dinode[e.dir].nlink > 0)}} :
                   \A i \in live : disk.dinode[i].nlink = Cardinality({e \in links : e.v = i})

\* A block below the size of an inode is there: readi, which calls bmap outside of any
\* transaction, never allocates one (writei, itrunc, and the rounding of mkfs).
NoHoles ==
    \A c \in {cur, disk} : \A i \in Inums : \A k \in 0 .. (c.dinode[i].size - 1) \div BSIZE :
        Lookup(c, c.dinode[i], k) # 0

\* The file system on disk is sound after every step of every call, and so after a crash at
\* any moment: blocks, links and sizes agree.
FsConsistent == BlocksConsistent /\ LinksConsistent /\ NoHoles

\* Blocks are logged only inside a transaction and never more than it has reserved, and
\* a call that returns has ended what it has begun (begin_op and end_op in all callers;
\* filewrite: "write a few blocks at a time").
LogDiscipline ==
    \A p \in Procs : /\ logged[p] # {} => outstanding[p] = 1
                     /\ Cardinality(logged[p]) <= MAXOPBLOCKS
                     /\ todo[p] = <<>> => outstanding[p] = 0

\* A file's count is the number of descriptors that name it, in all processes, plus the
\* closes under way (filealloc, filedup, fileclose).
FilesExact ==
    LET closing(f, p) == {k \in DOMAIN todo[p] : \/ todo[p][k].op = "fileclose" /\ todo[p][k].f = f
                                                 \/ todo[p][k].op = "pipe2" /\ todo[p][k].rf = f}
    IN  \A f \in Files :
            ftable[f].ref = MapThenSumSet(LAMBDA p : Users(f, p) + Cardinality(closing(f, p)), Procs)

\* When no thread is in the kernel, an inode's count is the number of open files and of
\* current directories that name it, and its lock is free (iget, idup, iput).
InodesExact ==
    (\A p \in Procs : todo[p] = <<>>) =>
        \A i \in Inums :
            /\ itable[i].ref = Cardinality({f \in Files : ftable[f].ref > 0 /\ ftable[f].ip = i})
                             + Cardinality({p \in Procs : proc[p].cwd = i})
            /\ itable[i].lock = 0

\* The counts by which files and inodes are freed are exact, whatever opens, closes, forks,
\* exits and removals overlap.
CountsExact == TypeOK /\ FilesExact /\ InodesExact

\* When no thread is in the kernel, an inode without name and without user is gone from disk
\* ("iput() frees if the reference and link counts have fallen to zero", fs.c).
NamelessFreed ==
    (\A p \in Procs : todo[p] = <<>>) =>
        \A i \in Inums : itable[i].ref = 0 /\ cur.dinode[i].nlink = 0 => cur.dinode[i].type = "none"

\* Pipes and the console hand on what they were given, in order, once, within their buffers.
StreamsFifo == PipeFifo /\ ConsoleFifo

\* After a crash and the boot that follows, no inode without a name is left (ireclaim).
Reclaimed ==
    crashes > 0 /\ user[1].prog # "" =>
        \A i \in Inums : disk.dinode[i].type # "none" => disk.dinode[i].nlink > 0

\* While not all is done, some thread can run or waits for the clock: no wakeup is lost
\* between processes, pipes and inodes, nobody waits for a lock in a circle, and init
\* reaps the orphans, so that every test comes to its end (sleep and wakeup in all layers).
NobodyStranded ==
    \/ Finished \/ Resting
    \/ cons.tx_busy \/ cons.typed # <<>>
    \/ \E p \in Procs : Pausing(p) \/ (Runs(p) /\ ~(InUser(p) /\ Halted(p)))
=============================================================================
