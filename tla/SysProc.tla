------------------------------- MODULE SysProc -------------------------------
(***************************************************************************)
(* The system calls of proc.c, sysproc.c and exec.c as the other calls see  *)
(* them: what they do to open files, directories and the process table.    *)
(* fork, the last step of exit, and wait are one step here, each holding    *)
(* wait_lock; their locks are the subject of Process.                       *)
(***************************************************************************)
EXTENDS SysFile

NoProc == [state |-> "UNUSED", pid |-> 0, parent |-> 0, killed |-> FALSE, xstate |-> 0,
           ofile |-> [fd \in Fds |-> 0], cwd |-> 0]

\* A process runs another program, from its start.
NewImage(u, prog, argv) == [u EXCEPT !.prog = prog, !.argv = argv, !.pc = 1, !.kids = <<>>, !.buf = <<>>, !.cmd = <<>>]

ExitOp(status) == <<[op |-> "exit", status |-> status]>>
Children(p) == {q \in Procs : proc[q].parent = p /\ proc[q].state # "UNUSED"}
Users(f, p) == Cardinality({fd \in Fds : proc[p].ofile[fd] = f})

kfork(p) ==
    /\ At(p, "fork")
    /\ LET free == {q \in Procs : proc[q].state = "UNUSED"}
           np   == Min(free)
       IN  \/ /\ free = {}
              /\ Then(p, Ret(-1))
              /\ UNCHANGED <<ftable, itable, prvars, user>>
           \/ /\ free # {}
              /\ ftable' = [f \in Files |-> [ftable[f] EXCEPT !.ref = @ + Users(f, p)]]
              /\ itable' = idup(itable, proc[p].cwd)
              /\ proc' = [proc EXCEPT ![np] = [NoProc EXCEPT !.state = "LIVE", !.pid = nextpid, !.parent = p,
                                                            !.ofile = proc[p].ofile, !.cwd = proc[p].cwd]]
              /\ nextpid' = nextpid + 1
              /\ user' = [user EXCEPT ![np] = [@ EXCEPT !.prog = Arg(p).prog, !.cmd = Arg(p).cmd]]
              /\ Then(p, Ret(nextpid))
    /\ UNCHANGED <<cur, disk, outstanding, logged, pipes, chan, reg, panicked, cons, crashes>>

\* kexit closes the files one after the other, then leaves the directory.
kexit(p) ==
    /\ At(p, "exit")
    /\ LET open == Fds \ FreeFds(p)
           fd   == Min(open)
       IN  /\ Panic(p = 1, "init exiting")
           /\ IF open # {}
              THEN /\ Then(p, Fileclose(proc[p].ofile[fd]) \o <<Arg(p)>>)
                   /\ proc' = [proc EXCEPT ![p].ofile[fd] = 0]
              ELSE /\ Then(p, BeginOp \o Iput(proc[p].cwd) \o EndOp \o <<[Arg(p) EXCEPT !.op = "zombie"]>>)
                   /\ UNCHANGED proc
    /\ UNCHANGED <<fsvars, ftable, pipes, nextpid, chan, reg, user, cons, crashes>>

\* Holding wait_lock: the children go to init, the parent is woken.
kexit_zombie(p) ==
    /\ At(p, "zombie")
    /\ proc' = [q \in Procs |->
           IF q = p THEN [proc[q] EXCEPT !.state = "ZOMBIE", !.xstate = Arg(p).status, !.cwd = 0]
           ELSE IF q \in Children(p) THEN [proc[q] EXCEPT !.parent = 1] ELSE proc[q]]
    /\ chan' = Woken(IF Children(p) = {} THEN chan ELSE Woken(chan, <<"wait", 1>>), <<"wait", proc[p].parent>>)
    /\ Done(p)
    /\ UNCHANGED <<fsvars, ftable, pipes, nextpid, reg, user, panicked, cons, crashes>>

kwait(p) ==
    /\ At(p, "wait")
    /\ LET dead == {q \in Children(p) : proc[q].state = "ZOMBIE"}
           q    == Min(dead)
       IN  \/ /\ dead # {}
              /\ proc' = [proc EXCEPT ![q] = NoProc]
              /\ user' = [user EXCEPT ![q] = NewImage(@, "", <<>>)]
              /\ Then(p, RetData(proc[q].pid, <<proc[q].xstate>>))
              /\ UNCHANGED chan
           \/ /\ dead = {} /\ (Children(p) = {} \/ proc[p].killed)
              /\ Then(p, Ret(-1))
              /\ UNCHANGED <<proc, user, chan>>
           \/ /\ dead = {} /\ Children(p) # {} /\ ~proc[p].killed
              /\ sleep(p, <<"wait", p>>)
              /\ UNCHANGED <<proc, user, todo>>
    /\ UNCHANGED <<fsvars, ftable, pipes, nextpid, reg, panicked, cons, crashes>>

\* A victim asleep is woken, unless the kill comes between its test of killed and its
\* sleep: it then sleeps on.  Both may happen to any sleeper here.
kkill(p) ==
    /\ At(p, "kill")
    /\ LET hit == {q \in Procs : proc[q].pid = Arg(p).pid}
       IN  /\ proc' = [q \in Procs |-> IF q \in hit THEN [proc[q] EXCEPT !.killed = TRUE] ELSE proc[q]]
           /\ \E late \in SUBSET hit : chan' = [q \in Procs |-> IF q \in hit \ late THEN NoChan ELSE chan[q]]
           /\ Then(p, Ret(IF hit = {} THEN -1 ELSE 0))
    /\ UNCHANGED <<fsvars, ftable, pipes, nextpid, reg, user, panicked, cons, crashes>>

sys_getpid(p) ==
    /\ At(p, "getpid")
    /\ Then(p, Ret(proc[p].pid))
    /\ UNCHANGED <<fsvars, ftable, pipes, prvars, chan, reg, user, panicked, cons, crashes>>

\* Arg(p).n is n - (ticks - ticks0): how many ticks are still to come.
sys_pause(p) ==
    /\ At(p, "pause")
    /\ \/ Arg(p).n = 0 /\ Then(p, Ret(0)) /\ UNCHANGED chan
       \/ Arg(p).n > 0 /\ proc[p].killed /\ Then(p, Ret(-1)) /\ UNCHANGED chan
       \/ Arg(p).n > 0 /\ ~proc[p].killed /\ sleep(p, <<"ticks", 0>>) /\ UNCHANGED todo
    /\ UNCHANGED <<fsvars, ftable, pipes, prvars, reg, user, panicked, cons, crashes>>

Pausing(p) == proc[p].state = "LIVE" /\ todo[p] # <<>> /\ Head(todo[p]).op = "pause" /\ Head(todo[p]).n > 0

\* ticks++ and its wakeup.  A tick nobody waits for changes nothing here.
clockintr ==
    /\ panicked = ""
    /\ \E p \in Procs : Pausing(p)
    /\ todo' = [p \in Procs |-> IF Pausing(p) THEN <<[Head(todo[p]) EXCEPT !.n = @ - 1]>> \o Tail(todo[p]) ELSE todo[p]]
    /\ wakeup(<<"ticks", 0>>)
    /\ UNCHANGED <<fsvars, ftable, pipes, prvars, reg, user, panicked, cons, crashes>>

\* The inode is locked: a file that starts with the ELF magic replaces the program (in
\* the model, with a unit that names one; the entries of a directory are no ELF header).
kexec(p) ==
    /\ At(p, "exec")
    /\ LET i   == Arg(p).ip
           elf == readi(cur, itable[i].d, 0, 1)
           ok  == elf # <<>> /\ elf[1].n # "" /\ itable[i].d.type = "FILE"
       IN  Then(p, Iunlockput(i) \o EndOp \o (IF ok THEN <<[op |-> "commit", prog |-> elf[1].n, argv |-> Arg(p).argv]>> ELSE Ret(-1)))
    /\ UNCHANGED <<fsvars, ftable, pipes, prvars, chan, reg, user, panicked, cons, crashes>>

\* Commit to the user image.  A killed process does not return to it.
kexec_commit(p) ==
    /\ At(p, "commit")
    /\ user' = [user EXCEPT ![p] = NewImage(@, Arg(p).prog, Arg(p).argv)]
    /\ Then(p, IF proc[p].killed THEN ExitOp(-1) ELSE <<>>)
    /\ UNCHANGED <<fsvars, ftable, pipes, prvars, chan, reg, panicked, cons, crashes>>
=============================================================================
