------------------------------- MODULE Console -------------------------------
(***************************************************************************)
(* The console, console.c, on the UART, uart.c.  r, w and e run modulo      *)
(* UINT, as the unsigned counters of the code do.  Each step is one         *)
(* critical section of cons.lock or of tx_lock, up to the point where the   *)
(* thread sleeps or lets go of the lock.  A character is its code; a word   *)
(* counts as one character.  The echo of the input is left out: it goes to  *)
(* the UART without touching any state kept here.                           *)
(***************************************************************************)
EXTENDS Kernel

EOT  == 4      \* C('D')
BS   == 8      \* C('H')
NL   == 10
CR   == 13
DUMP == 16     \* C('P')
NAK  == 21     \* C('U')

NoCons == [buf |-> [k \in 0 .. INPUT_BUF_SIZE - 1 |-> 0], r |-> 0, w |-> 0, e |-> 0,
           tx_busy |-> FALSE,
           typed |-> <<>>,     \* what will be typed
           out |-> <<>>,       \* what write() has sent to the UART
           lines |-> <<>>,     \* ghost: the input handed over to read() and not read yet
           edited |-> <<>>]    \* ghost: the line being typed

Input   == <<"cons_r", 0>>
TxReady == <<"tx_chan", 0>>
Minus(x, y) == (x - y) % UINT

-----------------------------------------------------------------------------
\* read()

ConsoleRead(n, got, bad) == <<[op |-> "consoleread", n |-> n, got |-> got, bad |-> bad]>>

\* ^D after some input is kept, so that the next call returns 0.
Eof(g) ==
    IF g.got # <<>> THEN [g EXCEPT !.end = TRUE]
    ELSE [g EXCEPT !.end = TRUE, !.q.r = (@ + 1) % UINT, !.q.lines = Tail(@)]

\* One turn of the loop of consoleread.  A character that cannot be copied out is lost.
GetChar(g, k) ==
    LET c == g.q.buf[g.q.r % INPUT_BUF_SIZE]
    IN  IF g.end \/ g.q.r = g.q.w THEN g
        ELSE IF c = EOT THEN Eof(g)
        ELSE [end |-> c = NL \/ g.bad, got |-> IF g.bad THEN g.got ELSE Append(g.got, c), bad |-> g.bad,
              q   |-> [g.q EXCEPT !.r = (@ + 1) % UINT, !.lines = Tail(@)]]

consoleread(p) ==
    /\ At(p, "consoleread")
    /\ LET a == Arg(p)
       IN  \E g \in {FoldLeft(GetChar, [q |-> cons, got |-> a.got, bad |-> a.bad, end |-> FALSE], [k \in 1 .. a.n - Len(a.got) |-> k])} :
           LET done == g.end \/ Len(g.got) = a.n
           IN  /\ cons' = g.q
               /\ \/ done /\ Then(p, RetData(Len(g.got), g.got)) /\ UNCHANGED chan
                  \/ ~done /\ proc[p].killed /\ Then(p, Ret(-1)) /\ UNCHANGED chan
                  \/ ~done /\ ~proc[p].killed /\ Then(p, ConsoleRead(a.n, g.got, a.bad)) /\ sleep(p, Input)
    /\ UNCHANGED <<fsvars, ftable, pipes, prvars, reg, user, panicked, crashes>>

-----------------------------------------------------------------------------
\* The interrupt of a character

\* One character back, unless the line is empty.
Erase(q) ==
    IF q.e = q.w THEN q
    ELSE [q EXCEPT !.e = Minus(@, 1), !.edited = SubSeq(@, 1, Len(@) - 1)]

\* The whole line: one erase for each place of the buffer is enough.
KillLine(q) ==
    LET turn(x, k) == IF x.buf[Minus(x.e, 1) % INPUT_BUF_SIZE] = NL THEN x ELSE Erase(x)
    IN  FoldLeft(turn, q, [k \in 1 .. INPUT_BUF_SIZE |-> k])

Room(q) == Minus(q.e, q.r) < INPUT_BUF_SIZE

Store1(q, c) ==
    [q EXCEPT !.buf[q.e % INPUT_BUF_SIZE] = c, !.e = (@ + 1) % UINT, !.edited = Append(@, c)]

\* Mutant: a line that fills the buffer waits for a newline there is no place for.
Complete_LineOnly(q, c) == c \in {NL, EOT}

Complete(q, c) == c \in {NL, EOT} \/ Minus(q.e, q.r) = INPUT_BUF_SIZE

\* Hand the line over to read().
Commit(q) == [q EXCEPT !.w = q.e, !.lines = @ \o q.edited, !.edited = <<>>]

consoleintr ==
    /\ panicked = "" /\ cons.typed # <<>>
    /\ LET c == IF Head(cons.typed) = CR THEN NL ELSE Head(cons.typed)
           q == [cons EXCEPT !.typed = Tail(@)]
           s == Store1(q, c)
       IN  \/ /\ c = DUMP \/ (c \notin {NAK, BS} /\ ~Room(q))
              /\ cons' = q
              /\ UNCHANGED chan
           \/ c = NAK /\ cons' = KillLine(q) /\ UNCHANGED chan
           \/ c = BS /\ cons' = Erase(q) /\ UNCHANGED chan
           \/ /\ c \notin {DUMP, NAK, BS} /\ Room(q)
              /\ cons' = IF Complete(s, c) THEN Commit(s) ELSE s
              /\ IF Complete(s, c) THEN wakeup(Input) ELSE UNCHANGED chan
    /\ UNCHANGED <<fsvars, ftable, pipes, prvars, todo, reg, user, panicked, crashes>>

-----------------------------------------------------------------------------
\* write()

ConsoleWrite(data, n, bad) == <<[op |-> "consolewrite", data |-> data, n |-> n, bad |-> bad]>>

\* A batch after the other; a.n counts what was sent.
consolewrite(p) ==
    /\ At(p, "consolewrite")
    /\ LET a  == Arg(p)
           nn == Min({Len(a.data), TXBUF})
       IN  Then(p, IF nn = 0 \/ a.bad THEN Ret(a.n)
                   ELSE <<[op |-> "uartwrite", data |-> SubSeq(a.data, 1, nn)]>>
                        \o ConsoleWrite(SubSeq(a.data, nn + 1, Len(a.data)), a.n + nn, a.bad))
    /\ UNCHANGED <<fsvars, ftable, pipes, prvars, chan, reg, user, panicked, cons, crashes>>

\* One character, then sleep until the UART has sent it.
uartwrite(p) ==
    /\ At(p, "uartwrite")
    /\ LET a == Arg(p)
       IN  \/ /\ cons.tx_busy
              /\ sleep(p, TxReady)
              /\ UNCHANGED <<cons, todo>>
           \/ /\ ~cons.tx_busy
              /\ cons' = [cons EXCEPT !.tx_busy = TRUE, !.out = Append(@, Head(a.data))]
              /\ IF Len(a.data) = 1 THEN Done(p) /\ UNCHANGED chan
                 ELSE Then(p, <<[a EXCEPT !.data = Tail(@)]>>) /\ sleep(p, TxReady)
    /\ UNCHANGED <<fsvars, ftable, pipes, prvars, reg, user, panicked, crashes>>

\* The UART has sent its character.  The interrupts of input are in consoleintr.
uartintr ==
    /\ panicked = "" /\ cons.tx_busy
    /\ cons' = [cons EXCEPT !.tx_busy = FALSE]
    /\ wakeup(TxReady)
    /\ UNCHANGED <<fsvars, ftable, pipes, prvars, todo, reg, user, panicked, crashes>>

-----------------------------------------------------------------------------
\* The circular buffer holds the input that read() may take, followed by the line being
\* typed, as erased and killed so far, and never more than it has place for (consoleintr,
\* consoleread; also across the wrap-around of r, w and e).
ConsoleFifo ==
    LET q == cons
        held(from, to) == [k \in 1 .. Minus(to, from) |-> q.buf[(from + k - 1) % INPUT_BUF_SIZE]]
    IN  /\ held(q.r, q.w) = q.lines /\ held(q.w, q.e) = q.edited
        /\ Len(q.lines) + Len(q.edited) <= INPUT_BUF_SIZE
=============================================================================
