------------------------------ MODULE UserTests ------------------------------
(***************************************************************************)
(* The programs that run in user space: the tests of user/usertests.c as    *)
(* the system calls they make, in the order they make them, with the        *)
(* results they insist on.  The loop counts of the tests are scaled down    *)
(* with the disk and the tables; a test of the original that returns calls  *)
(* exit(0), as run() does for it.                                           *)
(*                                                                          *)
(* A program is a sequence of instructions.  want is the set of results     *)
(* the test accepts, expect the set of data a read or the exit status a     *)
(* wait may bring ({} when the test does not look).  After a result above   *)
(* 0 the program goes on at pos, below 0 at neg, where these are not 0.     *)
(* rand is no call: the program goes on at one of the places in jump.       *)
(* get and put say what becomes of the data of a read and where that of a   *)
(* write comes from; argv goes with exec, cmd is what a child of the shell  *)
(* runs, and next what the shell runs after this call.                      *)
(***************************************************************************)
EXTENDS File

Whatever == -1 .. 99
Good     == 0 .. 99
Bad      == {-1}

Insn(call, want) ==
    [call |-> call, want |-> want, expect |-> {}, path |-> <<>>, new |-> <<>>, fd |-> 0, n |-> 0,
     mode |-> {}, data |-> <<>>, bad |-> FALSE, prog |-> "", major |-> 0, pos |-> 0, neg |-> 0, jump |-> {},
     get |-> "", put |-> FALSE, argv |-> <<>>, cmd |-> <<>>, next |-> <<>>]

Open(path, mode, want) == [Insn("open", want) EXCEPT !.path = path, !.mode = mode]
Mkdir(path, want)      == [Insn("mkdir", want) EXCEPT !.path = path]
Mknod(path, m, want)   == [Insn("mknod", want) EXCEPT !.path = path, !.major = m]
Chdir(path, want)      == [Insn("chdir", want) EXCEPT !.path = path]
Unlink(path, want)     == [Insn("unlink", want) EXCEPT !.path = path]
Link(old, new, want)   == [Insn("link", want) EXCEPT !.path = old, !.new = new]
Exec(path, want)       == [Insn("exec", want) EXCEPT !.path = path]
Read(fd, n, want)      == [Insn("read", want) EXCEPT !.fd = fd, !.n = n]
Write(fd, data)        == [Insn("write", {Len(data)}) EXCEPT !.fd = fd, !.data = data]
Close(fd)              == [Insn("close", {0}) EXCEPT !.fd = fd]
Dup(fd, want)          == [Insn("dup", want) EXCEPT !.fd = fd]
Fstat(fd, size, nlink) == [Insn("fstat", {0}) EXCEPT !.fd = fd, !.expect = {<<size, nlink>>}]
MkPipe(fd0, fd1)       == [Insn("pipe", {0}) EXCEPT !.expect = {<<fd0, fd1>>}]
Fork(prog)             == [Insn("fork", Good) EXCEPT !.prog = prog]
Wait(want)             == Insn("wait", want)
WaitStatus(s)          == [Wait(Good) EXCEPT !.expect = {<<s>>}]
Kill(k)                == [Insn("kill", {0}) EXCEPT !.n = k]      \* k: the k-th child; 0: itself
Pause(n)               == [Insn("pause", Whatever) EXCEPT !.n = n]
Getpid                 == Insn("getpid", Good)
Spin                   == Insn("spin", Whatever)                       \* for(;;) ;
Rand(jump)             == [Insn("rand", Whatever) EXCEPT !.jump = jump]
Exit(n)                == [Insn("exit", Whatever) EXCEPT !.n = n]

\* Reads and closes in a row; n units of value v.
Of(v, n)               == [k \in 1 .. n |-> v]
ReadIs(fd, data)       == [Read(fd, Len(data), {Len(data)}) EXCEPT !.expect = {data}]
Twice(s)               == s \o s
RW                     == {"CREATE", "RDWR"}

-----------------------------------------------------------------------------
\* Truncation, and the last reference to a directory

tf == <<"truncfile">>

truncate1 ==
    <<Unlink(tf, Whatever), Open(tf, {"CREATE", "WRONLY", "TRUNC"}, {0}), Write(0, <<1, 2, 3, 4>>), Close(0),
      Open(tf, {}, {0}), Read(0, 8, {4}),
      Open(tf, {"WRONLY", "TRUNC"}, {1}), Open(tf, {}, {2}), Read(2, 8, {0}), Read(0, 8, {0}),
      Write(1, <<1, 2, 3, 4, 5, 6>>), Read(2, 8, {6}), Read(0, 8, {2}),
      Unlink(tf, Whatever), Close(1), Close(0), Close(2)>>

truncate2 ==
    <<Unlink(tf, Whatever), Open(tf, {"CREATE", "TRUNC", "WRONLY"}, {0}), Write(0, <<1, 2, 3, 4>>),
      Open(tf, {"TRUNC", "WRONLY"}, {1}), [Write(0, <<9>>) EXCEPT !.want = Bad],
      Unlink(tf, Whatever), Close(0), Close(1)>>

truncate3 ==
    <<Open(tf, {"CREATE", "TRUNC", "WRONLY"}, {0}), Close(0), Fork("truncate3_child")>>
    \o <<Open(tf, {"CREATE", "WRONLY", "TRUNC"}, {0}), Write(0, <<9, 9, 9>>), Close(0), WaitStatus(0), Unlink(tf, Whatever)>>
truncate3_child ==
    <<Open(tf, {"WRONLY"}, {0}), Write(0, Of(1, 4)), Close(0),
      Open(tf, {}, {0}), Read(0, 8, Whatever), Close(0)>>

iputdir == <<Mkdir(<<"iputdir">>, {0}), Chdir(<<"iputdir">>, {0}), Unlink(<<"..", "iputdir">>, {0})>>

iputtest == iputdir \o <<Chdir(<<"/">>, {0})>>

exitiputtest == <<Fork("exitiputtest_child"), WaitStatus(0)>>
exitiputtest_child == iputdir \o <<Exit(0)>>

openiputtest ==
    <<Mkdir(<<"oidir">>, {0}), Fork("openiputtest_child"), Pause(1), Unlink(<<"oidir">>, {0}), WaitStatus(0)>>
openiputtest_child == <<Open(<<"oidir">>, {"RDWR"}, Bad), Exit(0)>>

-----------------------------------------------------------------------------
\* Simple file system tests

opentest == <<Open(<<"echo">>, {}, {0}), Close(0), Open(<<"doesnotexist">>, {}, Bad)>>

writetest ==
    <<Open(<<"small">>, RW, {0})>> \o Twice(<<Write(0, <<1>>), Write(0, <<2>>)>>)
    \o <<Close(0), Open(<<"small">>, {}, {0}), ReadIs(0, <<1, 2, 1, 2>>), Close(0), Unlink(<<"small">>, {0})>>

writebig ==
    <<Open(<<"big">>, RW, {0})>> \o [k \in 1 .. MAXFILE |-> Write(0, Of(k, BSIZE))]
    \o <<Close(0), Open(<<"big">>, {}, {0})>> \o [k \in 1 .. MAXFILE |-> ReadIs(0, Of(k, BSIZE))]
    \o <<Read(0, BSIZE, {0}), Close(0), Unlink(<<"big">>, {0})>>

createtest ==
    <<Open(<<"a0">>, RW, {0}), Close(0), Open(<<"a1">>, RW, {0}), Close(0),
      Unlink(<<"a0">>, Whatever), Unlink(<<"a1">>, Whatever)>>

dirtest == <<Mkdir(<<"dir0">>, {0}), Chdir(<<"dir0">>, {0}), Chdir(<<"..">>, {0}), Unlink(<<"dir0">>, {0})>>

\* user/init.c: the console becomes descriptors 0, 1 and 2.
console == <<"console">>
init_main ==
    <<Open(console, {"RDWR"}, Bad), Mknod(console, 1, {0}), Open(console, {"RDWR"}, {0}), Dup(0, {1}), Dup(0, {2})>>

\* Descriptors 0 to 2 are open, as they are for a program that the shell starts.
exectest ==
    init_main \o
    <<Unlink(<<"echo-ok">>, Whatever), Fork("exectest_child"), WaitStatus(0),
      Open(<<"echo-ok">>, {}, {3}), ReadIs(3, <<7>>), Unlink(<<"echo-ok">>, Whatever)>>
exectest_child ==
    <<Close(1), Open(<<"echo-ok">>, {"CREATE", "WRONLY"}, {1}), [Exec(<<"echo">>, {}) EXCEPT !.argv = <<0, 7>>]>>

-----------------------------------------------------------------------------
\* Pipes and processes

\* The reader compares every byte with its place in the sequence, and the total at the end;
\* it asks for twice as much at every turn, up to the size of its buffer.
Seq1 == [k \in 1 .. 11 |-> k]
ReadSeq(fd, n, seq) == [Read(fd, n, 0 .. n) EXCEPT !.get = "seq", !.expect = {seq}]
pipe1 ==
    <<MkPipe(0, 1), Fork("pipe1_child"), Close(1), ReadSeq(0, 1, Seq1), ReadSeq(0, 2, Seq1),
      [ReadSeq(0, 4, Seq1) EXCEPT !.pos = 6], Close(0), WaitStatus(0)>>
pipe1_child ==
    <<Close(0), Write(1, SubSeq(Seq1, 1, 4)), Write(1, SubSeq(Seq1, 5, 7)), Write(1, SubSeq(Seq1, 8, 11)), Exit(0)>>

killstatus == <<Fork("killstatus_child"), Pause(1), Kill(1), WaitStatus(-1), Exit(0)>>
killstatus_child == <<[Getpid EXCEPT !.pos = 1]>>

preempt ==
    <<Fork("spin"), MkPipe(0, 1), Fork("preempt_child"), Close(1), ReadIs(0, <<1>>), Close(0),
      Kill(1), Kill(2), Wait(Good), Wait(Good)>>
preempt_child == <<Close(0), Write(1, <<1>>), Close(1), Spin>>

\* exitwait compares the exit status with a loop counter, here 1 and 2.
exitwait == <<Fork("exit1"), WaitStatus(1), Fork("exit2"), WaitStatus(2)>>

reparent == Twice(<<Fork("reparent_child"), Wait(Good)>>)
reparent_child == <<Fork("exit0"), Exit(0)>>

twochildren == Twice(<<Fork("exit0"), Fork("exit0"), Wait(Good), Wait(Good)>>)

reparent2 == <<Fork("reparent2_child"), Wait(Good)>>
reparent2_child == <<Fork("reparent2_again"), [Fork("exit0") EXCEPT !.want = Whatever], Exit(0)>>
reparent2_again == <<[Fork("exit0") EXCEPT !.want = Whatever], Exit(0)>>

\* Forks until the table is full, then waits until there is no child left.
forktest ==
    <<[Fork("exit0") EXCEPT !.want = Whatever, !.pos = 1], [Wait(Whatever) EXCEPT !.pos = 2], Wait(Bad)>>

-----------------------------------------------------------------------------
\* More file system tests

\* Each of the two processes writes its own value, twice.
sharedfd ==
    <<Unlink(<<"sharedfd">>, Whatever), Open(<<"sharedfd">>, RW, {0}), Fork("sharedfd_child"),
      Write(0, <<5>>), Write(0, <<5>>), WaitStatus(0), Close(0), Open(<<"sharedfd">>, {}, {0}),
      [Read(0, 4, {4}) EXCEPT !.expect = {s \in [1 .. 4 -> {5, 6}] : Cardinality({k \in 1 .. 4 : s[k] = 5}) = 2}],
      Close(0), Unlink(<<"sharedfd">>, Whatever)>>
sharedfd_child == <<Write(0, <<6>>), Write(0, <<6>>), Exit(0)>>

FourFile(name, v) == <<Open(<<name>>, {}, {0}), ReadIs(0, Of(v, 3)), Read(0, 3, {0}), Close(0), Unlink(<<name>>, Whatever)>>
fourfiles ==
    <<Unlink(<<"f0">>, Whatever), Fork("fourfiles_0"), Unlink(<<"f1">>, Whatever), Fork("fourfiles_1"),
      WaitStatus(0), WaitStatus(0)>> \o FourFile("f0", 10) \o FourFile("f1", 11)
fourfiles_child(name, v) == <<Open(<<name>>, RW, {0}), Write(0, Of(v, 3)), Exit(0)>>

createdelete ==
    <<Fork("createdelete_p"), Fork("createdelete_q"), WaitStatus(0), WaitStatus(0),
      Open(<<"p0">>, {}, {0}), Close(0), Open(<<"q0">>, {}, {0}), Close(0),
      Open(<<"p1">>, {}, Bad), Open(<<"q1">>, {}, Bad),
      Unlink(<<"p0">>, {0}), Unlink(<<"q0">>, {0}), Unlink(<<"p1">>, Whatever), Unlink(<<"q1">>, Whatever)>>
createdelete_child(n0, n1) ==
    <<Open(<<n0>>, RW, {0}), Close(0), Open(<<n1>>, RW, {0}), Close(0), Unlink(<<n1>>, {0}), Exit(0)>>

ur == <<"unlinkread">>
unlinkread ==
    <<Open(ur, RW, {0}), Write(0, <<1, 2, 3, 4, 5>>), Close(0), Open(ur, {"RDWR"}, {0}), Unlink(ur, {0}),
      Open(ur, RW, {1}), Write(1, <<7, 7, 7>>), Close(1),
      [Read(0, 9, {5}) EXCEPT !.expect = {<<1, 2, 3, 4, 5>>}], Write(0, Of(1, 5)), Close(0), Unlink(ur, Whatever)>>

linktest ==
    <<Unlink(<<"lf1">>, Whatever), Unlink(<<"lf2">>, Whatever), Open(<<"lf1">>, RW, {0}), Write(0, Of(1, 5)), Close(0),
      Link(<<"lf1">>, <<"lf2">>, {0}), Unlink(<<"lf1">>, Whatever), Open(<<"lf1">>, {}, Bad),
      Open(<<"lf2">>, {}, {0}), Read(0, 9, {5}), Close(0), Link(<<"lf2">>, <<"lf2">>, Bad),
      Unlink(<<"lf2">>, Whatever), Link(<<"lf2">>, <<"lf1">>, Bad), Link(<<".">>, <<"lf1">>, Bad)>>

\* One turn of each loop: both processes make C1, one with link and one with open,
\* then one opens it and the other one unlinks it.
Reopen(name) == <<[Open(<<name>>, {}, Whatever) EXCEPT !.neg = 0], [Close(0) EXCEPT !.want = Whatever]>>
concreate ==
    <<Unlink(<<"C0">>, Whatever), Open(<<"C0">>, RW, {0}), Close(0), Unlink(<<"C1">>, Whatever), Fork("concreate_create"),
      Link(<<"C0">>, <<"C1">>, Whatever), WaitStatus(0),
      Open(<<".">>, {}, {0}), [Read(0, 1, {0, 1}) EXCEPT !.pos = 9], Close(0), Fork("concreate_remove")>>
    \o Reopen("C1") \o <<Wait(Good), Unlink(<<"C0">>, {0})>>
concreate_create == <<Open(<<"C1">>, RW, {0}), Close(0), Exit(0)>>
concreate_remove == <<Unlink(<<"C1">>, {0}), Unlink(<<"C1">>, Bad), Exit(0)>>

\* The two sequences of pseudo-random choices are cut down to one turn of the parent and
\* three of the child, with all choices; b is where the turn stands in its program.
x == <<"x">>
RandomTurn(b) ==
    <<Rand({b + 1, b + 4, b + 6}), Open(x, RW, Whatever), [Close(0) EXCEPT !.want = Whatever], Rand({b + 7}),
      Link(<<"cat">>, x, Whatever), Rand({b + 7}), Unlink(x, Whatever)>>
linkunlink == <<Unlink(x, Whatever), Fork("linkunlink_child")>> \o RandomTurn(3) \o <<Wait(Good)>>
linkunlink_child == RandomTurn(1) \o RandomTurn(8) \o RandomTurn(15) \o <<Exit(0)>>

subdir ==
    <<Unlink(<<"ff">>, Whatever), Mkdir(<<"dd">>, {0}), Open(<<"dd", "ff">>, RW, {0}), Write(0, <<1, 2>>), Close(0),
      Unlink(<<"dd">>, Bad), Mkdir(<<"/", "dd", "dd">>, {0}), Open(<<"dd", "dd", "ff">>, RW, {0}), Write(0, <<3, 4>>), Close(0),
      Open(<<"dd", "dd", "..", "ff">>, {}, {0}), [Read(0, 9, {2}) EXCEPT !.expect = {<<1, 2>>}], Close(0),
      Link(<<"dd", "dd", "ff">>, <<"dd", "dd", "ffff">>, {0}), Unlink(<<"dd", "dd", "ff">>, {0}),
      Open(<<"dd", "dd", "ff">>, {}, Bad),
      Chdir(<<"dd">>, {0}), Chdir(<<"dd", "..", "..", "dd">>, {0}), Chdir(<<"dd", "..", "..", "..", "dd">>, {0}),
      Chdir(<<".", "..">>, {0}),
      Open(<<"dd", "dd", "ffff">>, {}, {0}), Read(0, 9, {2}), Close(0), Open(<<"dd", "dd", "ff">>, {}, Bad),
      Open(<<"dd", "ff", "ff">>, RW, Bad), Open(<<"dd", "xx", "ff">>, RW, Bad), Open(<<"dd">>, {"CREATE"}, Bad),
      Open(<<"dd">>, {"RDWR"}, Bad), Open(<<"dd">>, {"WRONLY"}, Bad),
      Link(<<"dd", "ff", "ff">>, <<"dd", "dd", "xx">>, Bad), Link(<<"dd", "xx", "ff">>, <<"dd", "dd", "xx">>, Bad),
      Link(<<"dd", "ff">>, <<"dd", "dd", "ffff">>, Bad),
      Mkdir(<<"dd", "ff", "ff">>, Bad), Mkdir(<<"dd", "xx", "ff">>, Bad), Mkdir(<<"dd", "dd", "ffff">>, Bad),
      Unlink(<<"dd", "xx", "ff">>, Bad), Unlink(<<"dd", "ff", "ff">>, Bad), Chdir(<<"dd", "ff">>, Bad), Chdir(<<"dd", "xx">>, Bad),
      Unlink(<<"dd", "dd", "ffff">>, {0}), Unlink(<<"dd", "ff">>, {0}), Unlink(<<"dd">>, Bad),
      Unlink(<<"dd", "dd">>, {0}), Unlink(<<"dd">>, {0})>>

\* A write that takes more than one transaction.
bigwrite ==
    <<Unlink(<<"bigwrite">>, Whatever), Open(<<"bigwrite">>, RW, {0}), Write(0, Of(1, 5)), Write(0, Of(2, 5)),
      Close(0), Unlink(<<"bigwrite">>, Whatever)>>

bigfile ==
    <<Unlink(<<"bigfile.dat">>, Whatever), Open(<<"bigfile.dat">>, RW, {0})>> \o [k \in 1 .. 3 |-> Write(0, Of(k, 2))]
    \o <<Close(0), Open(<<"bigfile.dat">>, {}, {0})>> \o [k \in 1 .. 6 |-> ReadIs(0, <<(k + 1) \div 2>>)]
    \o <<Read(0, 1, {0}), Close(0), Unlink(<<"bigfile.dat">>, Whatever)>>

n14 == "12345678901234"
n15 == "123456789012345"
fourteen ==
    <<Mkdir(<<n14>>, {0}), Mkdir(<<n14, n15>>, {0}), Open(<<n15, n15, n15>>, {"CREATE"}, {0}), Close(0),
      Open(<<n14, n14, n14>>, {}, {0}), Close(0), Mkdir(<<n14, n14>>, Bad), Mkdir(<<n15, n14>>, Bad),
      Unlink(<<n15, n14>>, Whatever), Unlink(<<n14, n14>>, Whatever), Unlink(<<n14, n14, n14>>, Whatever),
      Unlink(<<n15, n15, n15>>, Whatever), Unlink(<<n14, n15>>, Whatever), Unlink(<<n14>>, Whatever)>>

rmdot ==
    <<Mkdir(<<"dots">>, {0}), Chdir(<<"dots">>, {0}), Unlink(<<".">>, Bad), Unlink(<<"..">>, Bad), Chdir(<<"/">>, {0}),
      Unlink(<<"dots", ".">>, Bad), Unlink(<<"dots", "..">>, Bad), Unlink(<<"dots">>, {0})>>

dirfile ==
    <<Open(<<"dirfile">>, {"CREATE"}, {0}), Close(0), Chdir(<<"dirfile">>, Bad), Open(<<"dirfile", "xx">>, {}, Bad),
      Open(<<"dirfile", "xx">>, {"CREATE"}, Bad), Mkdir(<<"dirfile", "xx">>, Bad), Unlink(<<"dirfile", "xx">>, Bad),
      Link(<<"echo">>, <<"dirfile", "xx">>, Bad), Unlink(<<"dirfile">>, {0}), Open(<<".">>, {"RDWR"}, Bad),
      Open(<<".">>, {}, {0}), [Write(0, <<1>>) EXCEPT !.want = Bad], Close(0)>>

\* Directories one inside the other; an empty path names nothing to create.
irefd ==
    <<Mkdir(<<"irefd">>, {0}), Chdir(<<"irefd">>, {0}), Mkdir(<<>>, Bad), Link(<<"echo">>, <<>>, Bad),
      Open(<<>>, {"CREATE"}, Bad), Open(<<"xx">>, {"CREATE"}, {0}), Close(0), Unlink(<<"xx">>, Whatever)>>
iref == Twice(irefd) \o Twice(<<Chdir(<<"..">>, {0}), Unlink(<<"irefd">>, {0})>>) \o <<Chdir(<<"/">>, {0})>>

\* A directory large enough to use its indirect block, as is the root here.
xs == <<"x0", "x1", "x2", "x3">>
bigdir ==
    <<Unlink(<<"bd">>, Whatever), Open(<<"bd">>, {"CREATE"}, {0}), Close(0)>>
    \o [k \in 1 .. Len(xs) |-> Link(<<"bd">>, <<xs[k]>>, {0})] \o <<Unlink(<<"bd">>, {0})>>
    \o [k \in 1 .. Len(xs) |-> Unlink(<<xs[k]>>, {0})]

manywrites == <<Fork("manywrites_a"), Fork("manywrites_b"), WaitStatus(0), WaitStatus(0), Exit(0)>>
manywrites_child(name) ==
    <<Unlink(<<name>>, Whatever), Open(<<name>>, RW, {0}), Write(0, <<1>>), Close(0), Unlink(<<name>>, Whatever), Exit(0)>>

\* The buffer of the first write cannot be read.
badwrite ==
    <<Unlink(<<"junk">>, Whatever)>>
    \o Twice(<<Open(<<"junk">>, {"CREATE", "WRONLY"}, {0}), [Write(0, <<1>>) EXCEPT !.bad = TRUE, !.want = Bad],
               Close(0), Unlink(<<"junk">>, Whatever)>>)
    \o <<Open(<<"junk">>, {"CREATE", "WRONLY"}, {0}), Write(0, <<1>>), Close(0), Unlink(<<"junk">>, Whatever), Exit(0)>>

\* Fill the disk; then a directory can no longer be made, which must only fail.
big(k) == <<Open(<<k>>, {"CREATE", "RDWR", "TRUNC"}, {0})>>
          \o [j \in 1 .. MAXFILE |-> [Write(0, Of(1, BSIZE)) EXCEPT !.want = Whatever]] \o <<Close(0)>>
MayOpen(name) == <<Open(<<name>>, {"CREATE", "RDWR", "TRUNC"}, Whatever), [Close(0) EXCEPT !.want = Whatever]>>
diskfull ==
    big("big0") \o big("big1") \o MayOpen("zz0") \o MayOpen("zz1")
    \o <<Mkdir(<<"diskfulldir">>, Bad), Unlink(<<"diskfulldir">>, Bad), Unlink(<<"zz0">>, Whatever),
         Unlink(<<"zz1">>, Whatever), Unlink(<<"big0">>, {0}), Unlink(<<"big1">>, {0})>>

\* The same until no file takes any more; a file that takes nothing is the last one.
fsfull ==
    big("f0") \o big("f1")
    \o <<Open(<<"f2">>, RW, {0}), [Write(0, Of(1, BSIZE)) EXCEPT !.want = Bad], Close(0)>>
    \o [k \in 1 .. 3 |-> Unlink(<<(<<"f2", "f1", "f0">>)[k]>>, {0})]

zz == <<"zz0", "zz1", "zz2", "zz3", "zz4">>
outofinodes ==
    [k \in 1 .. 2 * Len(zz) |-> IF k % 2 = 1 THEN Open(<<zz[(k + 1) \div 2]>>, RW, IF k < 2 * Len(zz) - 1 THEN {0} ELSE Bad)
                                             ELSE [Close(0) EXCEPT !.want = Whatever]]
    \o [k \in 1 .. Len(zz) |-> Unlink(<<zz[k]>>, Whatever)]

-----------------------------------------------------------------------------
\* user/zombie.c, dorphan.c and grind.c

zombie == <<Fork("exit0"), Pause(2), Exit(0)>>

\* The directory without a name stays until the machine is restarted.
dorphan == <<Mkdir(<<"dd">>, {0}), Chdir(<<"dd">>, {0}), Unlink(<<"..", "dd">>, {0}), Pause(1), Spin>>

\* The choices of go() on files, one after the other.
MayClose(c) == <<[c EXCEPT !.want = Whatever], [Close(0) EXCEPT !.want = Whatever]>>
May(c) == <<[c EXCEPT !.want = Whatever]>>
g == "grindir"
grind ==
    <<Mkdir(<<g>>, {0}), Chdir(<<g>>, {0}), Chdir(<<"/">>, {0})>>
    \o MayClose(Open(<<g, "..", "a">>, RW, {})) \o MayClose(Open(<<g, "..", g, "..", "b">>, RW, {}))
    \o <<Unlink(<<g, "..", "a">>, {0}), Chdir(<<g>>, {0}), Unlink(<<"..", "b">>, {0}), Chdir(<<"/">>, {0})>>
    \o <<Open(<<"/", g, "..", "a">>, RW, {0}), Close(0), Open(<<"/", ".", g, ".", "..", "b">>, RW, {0}), Write(0, <<1>>), Read(0, 1, {0}),
         Close(0)>>
    \o May(Mkdir(<<g, "..", "a">>, {})) \o MayClose(Open(<<"a", "..", "a", ".", "a">>, RW, {})) \o May(Unlink(<<"a", "a">>, {}))
    \o <<Unlink(<<"b">>, {0}), Link(<<"..", g, ".", "..", "a">>, <<"..", "b">>, {0}), Unlink(<<"..", g, "..", "a">>, {0}),
         Link(<<"..", ".", "b">>, <<"/", g, "..", "a">>, {0}), Unlink(<<"a">>, {0}), Unlink(<<"b">>, {0})>>
    \o <<Mkdir(<<"/", "..", "b">>, {0})>> \o MayClose(Open(<<g, "..", "b", "b">>, RW, {}))
    \o <<Unlink(<<"b", "b">>, {0}), Unlink(<<"b">>, {0}),
         Open(<<"c">>, RW, {0}), Write(0, <<1>>), Fstat(0, 1, 1), Close(0), Unlink(<<"c">>, {0})>>

\* Another one: a file made in a directory that has been removed.
grind_dir == <<Fork("grind_gone"), Wait(Good)>>
grind_gone ==
    May(Unlink(<<"a">>, {})) \o May(Mkdir(<<"a">>, {})) \o May(Chdir(<<"a">>, {})) \o May(Unlink(<<"..", "a">>, {}))
    \o May(Open(x, RW, {})) \o May(Unlink(x, {})) \o <<Exit(0)>>

\* The choices of go() on processes.
grind_fork == <<Fork("grind_self"), WaitStatus(-1), Fork("exit0"), Wait(Good), Fork("grind_forks"), Wait(Good)>>
grind_forks == May(Fork("grind_forked")) \o May(Fork("exit0")) \o <<Exit(0)>>
grind_forked == May(Fork("exit0")) \o <<Exit(0)>>
grind_self == <<Kill(0), Exit(0)>>
grind_kill == <<Fork("grind_create"), Chdir(<<"..">>, {0}), Kill(1), Wait(Good)>>
grind_create == <<Open(<<"a">>, RW, Good), Close(0), Exit(0)>>

-----------------------------------------------------------------------------
\* Errors the tests above do not meet: no descriptor, no file or no page left; a pipe
\* whose reader is gone; a kill that finds its victim asleep.
NoPipes   == [MkPipe(0, 0) EXCEPT !.want = Bad, !.expect = {}]
BadFd(c)  == [c EXCEPT !.fd = 9, !.want = Bad, !.expect = {}]
limits ==
    <<MkPipe(0, 1), Dup(0, {2}), Dup(0, {3}), NoPipes, Dup(0, {4}), Open(<<"echo">>, {}, Bad), Dup(0, Bad), Close(2), Close(3),
      Close(4), MkPipe(2, 3), [Write(3, <<1, 2>>) EXCEPT !.bad = TRUE, !.want = {0, 1}],
      Write(3, <<1>>), [Read(2, 2, {-1, 1}) EXCEPT !.bad = TRUE], NoPipes, Open(<<"echo">>, {}, {4}), NoPipes, Fork("limits_child"), WaitStatus(0), Close(4),
      BadFd(Close(0)), BadFd(Read(0, 1, Bad)), BadFd(Write(0, <<1>>)), BadFd(Fstat(0, 0, 0)), BadFd(Dup(0, Bad)), Close(3), Close(0),
      [Write(1, <<1>>) EXCEPT !.want = Bad], Read(1, 1, Bad), [Write(2, <<1>>) EXCEPT !.want = Bad],
      [Fstat(2, 0, 0) EXCEPT !.want = Bad, !.expect = {}], Open(<<"echo">>, {}, {0}), Fstat(0, 1, 1),
      [Read(0, 1, Bad) EXCEPT !.bad = TRUE], Read(0, 1, {1}), [Read(0, 1, {0}) EXCEPT !.bad = TRUE],
      Exec(<<"nothing">>, Bad), Exec(<<".">>, Bad), Close(0), Mknod(<<"odd">>, 77, {0}), Open(<<"odd">>, {}, Bad),
      Unlink(<<"odd">>, {0}), Mknod(<<"odd">>, 2, {0}), Open(<<"odd">>, {"RDWR"}, {0}), Read(0, 1, Bad),
      [Write(0, <<1>>) EXCEPT !.want = Bad], Unlink(<<"odd">>, {0})>>
limits_child == <<Close(4), Open(<<"echo">>, {}, Bad), Exit(0)>>

\* A kill may come when its victim has looked at killed and is about to sleep: then the
\* victim sleeps on.  The parent therefore closes its end of the pipe.
killed ==
    <<Fork("killed_pause"), Kill(1), WaitStatus(-1), MkPipe(0, 1), Fork("killed_read"), Kill(2), Close(1), WaitStatus(-1),
      Close(0), MkPipe(0, 1), Fork("killed_write"), Kill(3), Close(0), WaitStatus(-1), Fork("killed_wait"), Kill(4),
      WaitStatus(-1), [Kill(1) EXCEPT !.want = Bad]>>
killed_pause == <<Pause(2), Spin>>
killed_read  == <<Close(1), Read(0, 1, {}), Spin>>
killed_write == <<Close(0), Write(1, <<1, 2, 3>>), Spin>>
killed_wait  == <<Fork("pause"), Wait(Whatever), Spin>>

\* Two processes read from the console while more is typed than it can hold; a kill that
\* finds its victim reading there.
Keys ==
    [consoletest |-> <<71, BS, 72, CR, EOT, 73, NAK, 74, 75, 76, 77, NL>>, killcons |-> <<NL>>]
consoletest ==
    init_main \o <<Fork("consoletest_child"), Write(1, <<1, 2, 3>>), Read(0, 3, Good), Wait(Good)>>
consoletest_child == <<[Write(1, <<4>>) EXCEPT !.bad = TRUE, !.want = {0}], Read(0, 2, Good), Read(0, 0, {0}),
      [Read(0, 1, {0}) EXCEPT !.bad = TRUE], Exit(0)>>
killcons == init_main \o <<Fork("killcons_child"), Kill(1), WaitStatus(-1)>>
killcons_child == <<[Read(0, 1, Good) EXCEPT !.pos = 1]>>

-----------------------------------------------------------------------------
\* run(): the test in a process of its own.  Process 1 stands for init, the shell and
\* usertests, and waits until nothing is left.
init == <<Fork("test"), [Wait(Whatever) EXCEPT !.pos = 2]>>

Programs ==
    [init |-> init, truncate1 |-> truncate1, truncate2 |-> truncate2, truncate3 |-> truncate3,
     truncate3_child |-> truncate3_child, iputtest |-> iputtest, exitiputtest |-> exitiputtest,
     exitiputtest_child |-> exitiputtest_child, openiputtest |-> openiputtest, openiputtest_child |-> openiputtest_child,
     opentest |-> opentest, writetest |-> writetest, writebig |-> writebig, createtest |-> createtest, dirtest |-> dirtest,
     exectest |-> exectest, exectest_child |-> exectest_child, pipe1 |-> pipe1, pipe1_child |-> pipe1_child,
     killstatus |-> killstatus, killstatus_child |-> killstatus_child, preempt |-> preempt, preempt_child |-> preempt_child,
     spin |-> <<Spin>>, pause |-> <<Pause(1)>>, exit0 |-> <<Exit(0)>>, exit1 |-> <<Exit(1)>>, exit2 |-> <<Exit(2)>>, exitwait |-> exitwait,
     reparent |-> reparent, reparent_child |-> reparent_child, twochildren |-> twochildren, reparent2 |-> reparent2,
     reparent2_child |-> reparent2_child, reparent2_again |-> reparent2_again, forktest |-> forktest, sharedfd |-> sharedfd,
     sharedfd_child |-> sharedfd_child, fourfiles |-> fourfiles, fourfiles_0 |-> fourfiles_child("f0", 10),
     fourfiles_1 |-> fourfiles_child("f1", 11), createdelete |-> createdelete,
     createdelete_p |-> createdelete_child("p0", "p1"), createdelete_q |-> createdelete_child("q0", "q1"),
     unlinkread |-> unlinkread, linktest |-> linktest, concreate |-> concreate, concreate_create |-> concreate_create,
     concreate_remove |-> concreate_remove, linkunlink |-> linkunlink, linkunlink_child |-> linkunlink_child,
     subdir |-> subdir, bigwrite |-> bigwrite, bigfile |-> bigfile, fourteen |-> fourteen, rmdot |-> rmdot,
     dirfile |-> dirfile, iref |-> iref, bigdir |-> bigdir, manywrites |-> manywrites,
     manywrites_a |-> manywrites_child("ba"), manywrites_b |-> manywrites_child("bb"), badwrite |-> badwrite,
     diskfull |-> diskfull, outofinodes |-> outofinodes, limits |-> limits, limits_child |-> limits_child, killed |-> killed,
     killed_pause |-> killed_pause, killed_read |-> killed_read, killed_write |-> killed_write, killed_wait |-> killed_wait,
     fsfull |-> fsfull, zombie |-> zombie, dorphan |-> dorphan,
     grind |-> grind, grind_dir |-> grind_dir, grind_gone |-> grind_gone, grind_fork |-> grind_fork, grind_forks |-> grind_forks,
     grind_forked |-> grind_forked, grind_self |-> grind_self, grind_kill |-> grind_kill, grind_create |-> grind_create,
     consoletest |-> consoletest, consoletest_child |-> consoletest_child, killcons |-> killcons,
     killcons_child |-> killcons_child, sh_child |-> <<Exec(<<"sh">>, {})>>]
=============================================================================
