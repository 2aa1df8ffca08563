-------------------------------- MODULE Shell --------------------------------
(***************************************************************************)
(* init.c, sh.c and the programs the shell starts, as the system calls they *)
(* make.  A line is a sequence of characters, in which a word counts as one *)
(* character; panic() of the shell is an error message and exit(1).         *)
(***************************************************************************)
EXTENDS UserTests

CONSTANT MAXARGS

SP     == 32
DOLLAR == 36        \* the prompt
AMP    == 38
LPAR   == 40
RPAR   == 41
SEMI   == 59
LT     == 60
GT     == 62
ERR    == 63        \* an error message
HELLO  == 64        \* "init: starting sh"
BAR    == 124
Words  == <<"echo", "cat", "f", "d", "nosuch", "cd", "mkdir", "rm", "ln">>
Word(name) == 200 + CHOOSE k \in DOMAIN Words : Words[k] = name
Name(c)    == Words[c - 200]
Symbols    == {LT, BAR, GT, AMP, SEMI, LPAR, RPAR}

-----------------------------------------------------------------------------
\* Commands

Cmd(type)              == [type |-> type, argv |-> <<>>, file |-> 0, tok |-> 0, sub |-> <<>>]
execcmd                == Cmd("EXEC")
redircmd(c, file, tok) == [Cmd("REDIR") EXCEPT !.sub = <<c>>, !.file = file, !.tok = tok]
backcmd(c)             == [Cmd("BACK") EXCEPT !.sub = <<c>>]

\* The two children of a PIPE, which connect themselves to the pipe first.
LeftOf(c)  == [Cmd("LEFT") EXCEPT !.sub = <<c>>]
RightOf(c) == [Cmd("RIGHT") EXCEPT !.sub = <<c>>]

panic == <<Write(2, <<ERR>>), Exit(1)>>

Fork1(c, neg) == [Fork("") EXCEPT !.want = Whatever, !.cmd = <<c>>, !.neg = neg]
Then1(i, c)   == [i EXCEPT !.next = <<c>>]

\* The file a redirection opens in place of descriptor 0 or 1; PLUS stands for >>.
PLUS == 43
RedirFd(tok)   == IF tok = LT THEN 0 ELSE 1
RedirMode(tok) == IF tok = LT THEN {} ELSE IF tok = PLUS THEN {"WRONLY", "CREATE"} ELSE {"WRONLY", "CREATE", "TRUNC"}

RightEnd(c) == <<Close(0), Dup(3, {0}), Close(3), Then1(Close(4), c)>>

\* The calls of runcmd up to the command it goes on with.
runcmd(c) ==
    CASE c.type = "EXEC" ->
             IF c.argv = <<>> THEN <<Exit(1)>>
             ELSE <<[Exec(<<Name(c.argv[1])>>, Bad) EXCEPT !.argv = c.argv], Write(2, <<ERR>>), Exit(0)>>
      [] c.type = "REDIR" ->
             <<Close(RedirFd(c.tok)),
               Then1(Open(<<Name(c.file)>>, RedirMode(c.tok), {RedirFd(c.tok), -1}), c.sub[1])>> \o panic
      [] c.type = "LIST" -> <<Fork1(c.sub[1], 3), Then1(Wait(Good), c.sub[2])>> \o panic
      [] c.type = "PIPE" ->
             <<MkPipe(3, 4), Fork1(LeftOf(c.sub[1]), 9), Fork1(RightOf(c.sub[2]), 9), Close(3), Close(4),
               Wait(Good), Wait(Good), Exit(0)>> \o panic
      [] c.type = "LEFT" -> <<Close(1), Dup(4, {1}), Close(3), Then1(Close(4), c.sub[1])>>
      [] c.type = "RIGHT" -> RightEnd(c.sub[1])
      [] c.type = "BACK" -> <<Fork1(c.sub[1], 3), Exit(0)>> \o panic
      [] c.type = "PANIC" -> panic

-----------------------------------------------------------------------------
\* The parser.  A result is a command and what is left of the line; after a panic the
\* rest of the line does not matter.

Parsed(c, s) == [cmd |-> c, s |-> s]
Panics       == Parsed(Cmd("PANIC"), <<>>)

Skip(s) ==
    LET k == {i \in DOMAIN s : s[i] \notin {SP, NL}}
    IN  IF k = {} THEN <<>> ELSE SubSeq(s, Min(k), Len(s))

peek(s, toks) == Skip(s) # <<>> /\ Head(Skip(s)) \in toks

\* 0 at the end of the line, a symbol, or a word.
gettoken(s) ==
    LET t == Skip(s)
        n == IF Len(t) > 1 /\ t[1] = GT /\ t[2] = GT THEN 2 ELSE 1
    IN  IF t = <<>> THEN [tok |-> 0, s |-> <<>>]
        ELSE [tok |-> IF n = 2 THEN PLUS ELSE t[1], s |-> Skip(SubSeq(t, n + 1, Len(t)))]
IsWord(tok) == tok > 200

RECURSIVE parseredirs(_), parseargs(_, _), parseline(_), parsepipe(_), parseexec(_), parseback(_)

Redirected(r, tok, q) ==
    IF IsWord(q.tok) THEN parseredirs(Parsed(redircmd(r.cmd, q.tok, tok), q.s)) ELSE Panics
parseredirs(r) ==
    IF peek(r.s, {LT, GT}) THEN Redirected(r, gettoken(r.s).tok, gettoken(gettoken(r.s).s)) ELSE r

\* argv belongs to the EXEC inside the redirections.
RECURSIVE AddArg(_, _)
AddArg(c, w) == IF c.type = "EXEC" THEN [c EXCEPT !.argv = Append(@, w)] ELSE [c EXCEPT !.sub[1] = AddArg(@, w)]

\* The loop of parseexec, with its next token t.
OneArg(r, argc, t) ==
    IF t.tok = 0 THEN r
    ELSE IF ~IsWord(t.tok) \/ argc + 1 >= MAXARGS THEN Panics
    ELSE parseargs(parseredirs(Parsed(AddArg(r.cmd, t.tok), t.s)), argc + 1)
parseargs(r, argc) ==
    IF r = Panics \/ peek(r.s, {BAR, RPAR, AMP, SEMI}) THEN r ELSE OneArg(r, argc, gettoken(r.s))

Paired(type, l, r) == IF r = Panics THEN Panics ELSE Parsed([Cmd(type) EXCEPT !.sub = <<l.cmd, r.cmd>>], r.s)

PipeTail(l)  == IF peek(l.s, {BAR}) THEN Paired("PIPE", l, parsepipe(gettoken(l.s).s)) ELSE l
parsepipe(s) == PipeTail(parseexec(s))

parseback(r) == IF peek(r.s, {AMP}) THEN parseback(Parsed(backcmd(r.cmd), gettoken(r.s).s)) ELSE r
ListTail(l)  == IF peek(l.s, {SEMI}) THEN Paired("LIST", l, parseline(gettoken(l.s).s)) ELSE l
parseline(s) == ListTail(parseback(parsepipe(s)))

BlockEnd(b)   == IF peek(b.s, {RPAR}) THEN parseredirs(Parsed(b.cmd, gettoken(b.s).s)) ELSE Panics
parseblock(s) == BlockEnd(parseline(gettoken(s).s))

parseexec(s) ==
    IF peek(s, {LPAR}) THEN parseblock(s) ELSE parseargs(parseredirs(Parsed(execcmd, s)), 0)

AllRead(r)  == IF Skip(r.s) = <<>> THEN r.cmd ELSE Cmd("PANIC")
parsecmd(s) == AllRead(parseline(s))

-----------------------------------------------------------------------------
\* The shell.  buf is the line read so far.

Prompt == Write(2, <<DOLLAR>>)
Gets   == [Read(0, 1, {0, 1}) EXCEPT !.get = "line"]

\* Where main goes with a line that gets() has read.
IsBlank(s)   == Skip(s) = <<>>
IsCd(s)      == Len(Skip(s)) > 2 /\ Skip(s)[1] = Word("cd") /\ Skip(s)[2] = SP
AfterGets(s) == IF s = <<>> THEN 5 ELSE IF IsBlank(s) THEN 3 ELSE IF IsCd(s) THEN 6 ELSE 9

sh_main(buf) ==
    <<Open(console, {"RDWR"}, {3}), Close(3),
      Prompt, Gets, Exit(0),
      [Chdir(IF IsCd(buf) THEN <<Name(Skip(buf)[3])>> ELSE <<>>, {0, -1}) EXCEPT !.neg = 8], [Prompt EXCEPT !.pos = 4],
      [Write(2, <<ERR>>) EXCEPT !.pos = 3],
      Fork1(IF buf = <<>> THEN Cmd("PANIC") ELSE parsecmd(buf), 11), [Wait(Good) EXCEPT !.pos = 3]>> \o panic

\* init: the console becomes descriptors 0 to 2; a shell that exits is started again.
init_sh ==
    init_main \o
    <<Write(1, <<HELLO>>), [Fork("sh_child") EXCEPT !.get = "shell"], [Wait(Good) EXCEPT !.get = "orphans"]>>

-----------------------------------------------------------------------------
\* Programs with arguments; argv[1] is the name of the program.

echo_main(argv) ==
    [k \in 1 .. 2 * (Len(argv) - 1) |->
        Write(1, IF k % 2 = 1 THEN <<argv[(k + 3) \div 2]>> ELSE IF k < 2 * (Len(argv) - 1) THEN <<SP>> ELSE <<NL>>)]
    \o <<Exit(0)>>

\* Copies the file named, or its input.  The loop starts at instruction at.
CatLoop(fd, at) ==
    <<[Read(fd, 9, Good) EXCEPT !.get = "buf", !.pos = at + 2], Exit(0),
      [Insn("write", Good) EXCEPT !.fd = 1, !.put = TRUE, !.pos = at]>>
cat_main(argv) ==
    IF Len(argv) = 1 THEN CatLoop(0, 1)
    ELSE <<[Open(<<Name(argv[2])>>, {}, {3, -1}) EXCEPT !.pos = 4]>> \o panic \o CatLoop(3, 4)

Complain(c) == <<[c EXCEPT !.want = {0, -1}, !.neg = 3], Exit(0), Write(2, <<ERR>>), Exit(0)>>
mkdir_main(argv) == Complain(Mkdir(<<Name(argv[2])>>, {}))
rm_main(argv)    == Complain(Unlink(<<Name(argv[2])>>, {}))
ln_main(argv)    == Complain(Link(<<Name(argv[2])>>, <<Name(argv[3])>>, {}))

-----------------------------------------------------------------------------
\* Sessions: what is typed, the programs on disk, and what may appear on the screen.
W(name) == Word(name)
Start   == <<HELLO, DOLLAR>>
Session(files, typed, out) == [files |-> <<"init", "sh">> \o files, typed |-> typed, out |-> {Start \o o : o \in out}]

Sessions ==
    [sh_pipe |-> Session(<<"echo", "cat", "rm">>,
         <<W("echo"), SP, W("d"), BAR, W("cat"), NL>>, {<<W("d"), NL, DOLLAR>>}),
     sh_redir |-> Session(<<"echo", "cat", "rm">>,
         <<LPAR, W("echo"), SP, W("d"), SEMI, W("echo"), RPAR, GT, W("f"), SEMI, W("cat"), LT, W("f"), NL>>,
         {<<W("d"), NL, DOLLAR>>}),
     sh_back |-> Session(<<"echo">>,
         <<W("echo"), SP, W("d"), AMP, NL>>, {<<W("d"), NL, DOLLAR>>, <<W("d"), DOLLAR, NL>>, <<DOLLAR, W("d"), NL>>}),
     sh_edit |-> Session(<<"echo">>,
         <<W("f"), BS, BS, W("f"), NAK, DUMP, SP, CR, W("nosuch"), NL, EOT, W("cd"), SP, W("d"), NL>>,
         {<<DOLLAR, ERR, DOLLAR, HELLO, DOLLAR, ERR, DOLLAR>>}),
     sh_bad |-> Session(<<"echo">>,
         <<BAR, GT, NL, LPAR, W("echo"), NL, W("echo"), SP, W("d"), SP, W("d"), SP, W("d"), NL>>,
         {<<ERR, DOLLAR, ERR, DOLLAR, ERR, DOLLAR>>}),
     sh_cd |-> Session(<<"mkdir">>,
         <<W("mkdir"), SP, W("d"), NL, W("cd"), SP, W("d"), NL, W("mkdir"), NL>>, {<<DOLLAR, DOLLAR, ERR, DOLLAR>>}),
     sh_link |-> Session(<<"ln", "rm", "cat">>,
         <<W("ln"), SP, W("cat"), SP, W("f"), SEMI, W("rm"), SP, W("f"), SEMI, W("cat"), SP, W("f"), NL>>, {<<ERR, DOLLAR>>})]
=============================================================================
