-------------------------------- MODULE Pipe --------------------------------
(***************************************************************************)
(* Pipes, pipe.c.  nread and nwrite run modulo UINT, as the unsigned        *)
(* counters of the code wrap around at 2^32.  pipeclose and piperead are    *)
(* one critical section of pi->lock each, up to the point where they sleep  *)
(* or return; pipewrite, which looks at killed before every byte, is one    *)
(* step for each byte, with the lock held in between.                       *)
(***************************************************************************)
EXTENDS Kernel

Pipes  == 1 .. NPIPE
NoPipe == [used |-> FALSE, lock |-> 0, readopen |-> FALSE, writeopen |-> FALSE, nread |-> 0, nwrite |-> 0,
           data |-> [k \in 0 .. PIPESIZE - 1 |-> 0],
           sent |-> <<>>,      \* ghost: all that was ever written to this pipe
           taken |-> 0]        \* ghost: how much of it was read

NewPipe == [NoPipe EXCEPT !.used = TRUE, !.readopen = TRUE, !.writeopen = TRUE]

Nread(i)  == <<"nread", i>>
Nwrite(i) == <<"nwrite", i>>

\* p has pi->lock or can take it.
MayHold(p, i) == pipes[i].lock \in {0, p}
release(i) == pipes' = [pipes EXCEPT ![i].lock = 0]

pipeclose(p) ==
    /\ At(p, "pipeclose") /\ MayHold(p, Arg(p).pipe)
    /\ LET a == Arg(p)
           q == IF a.writable THEN [pipes[a.pipe] EXCEPT !.writeopen = FALSE]
                              ELSE [pipes[a.pipe] EXCEPT !.readopen = FALSE]
       IN  /\ wakeup(IF a.writable THEN Nread(a.pipe) ELSE Nwrite(a.pipe))
           /\ pipes' = [pipes EXCEPT ![a.pipe] = IF q.readopen \/ q.writeopen THEN q ELSE NoPipe]
    /\ Done(p)
    /\ UNCHANGED <<fsvars, ftable, prvars, reg, user, panicked, cons, crashes>>

\* Mutant: the counters are compared without the wrap-around.
Full_NoWrap(q) == q.nwrite = q.nread + PIPESIZE

Full(q) == q.nwrite = (q.nread + PIPESIZE) % UINT

Put(q, ch) == [q EXCEPT !.data[q.nwrite % PIPESIZE] = ch, !.nwrite = (@ + 1) % UINT, !.sent = Append(@, ch)]

\* data is what is still to be written, n what was written before; a bad buffer cannot be
\* read from some unit on.
PipeWrite(i, data, n, bad) == <<[op |-> "pipewrite", pipe |-> i, data |-> data, n |-> n, bad |-> bad]>>

\* Mutant: a full pipe puts the writer to sleep without waking the reader.
pipewrite_NoWakeup(p) ==
    /\ At(p, "pipewrite") /\ MayHold(p, Arg(p).pipe)
    /\ LET a    == Arg(p)
           q    == pipes[a.pipe]
           more == a.data # <<>> /\ q.readopen /\ ~proc[p].killed
       IN  \/ /\ a.data # <<>> /\ ~more
              /\ release(a.pipe) /\ Then(p, Ret(-1)) /\ UNCHANGED chan
           \/ /\ more /\ Full(q)
              /\ release(a.pipe) /\ sleep(p, Nwrite(a.pipe)) /\ UNCHANGED todo
           \/ /\ more /\ ~Full(q) /\ (a.bad => Len(a.data) > 1)
              /\ pipes' = [pipes EXCEPT ![a.pipe] = [Put(q, Head(a.data)) EXCEPT !.lock = p]]
              /\ Then(p, PipeWrite(a.pipe, Tail(a.data), a.n + 1, a.bad)) /\ UNCHANGED chan
           \/ /\ a.data = <<>> \/ (more /\ ~Full(q) /\ a.bad)
              /\ release(a.pipe) /\ wakeup(Nread(a.pipe)) /\ Then(p, Ret(a.n))
    /\ UNCHANGED <<fsvars, ftable, prvars, reg, user, panicked, cons, crashes>>

\* One turn of the loop: it gives up, sleeps, copies a unit with the lock held, or ends.
pipewrite(p) ==
    /\ At(p, "pipewrite") /\ MayHold(p, Arg(p).pipe)
    /\ LET a    == Arg(p)
           q    == pipes[a.pipe]
           more == a.data # <<>> /\ q.readopen /\ ~proc[p].killed
       IN  \/ /\ a.data # <<>> /\ ~more
              /\ release(a.pipe) /\ Then(p, Ret(-1)) /\ UNCHANGED chan
           \/ /\ more /\ Full(q)
              /\ release(a.pipe) /\ chan' = [Woken(chan, Nread(a.pipe)) EXCEPT ![p] = Nwrite(a.pipe)] /\ UNCHANGED todo
           \/ /\ more /\ ~Full(q) /\ (a.bad => Len(a.data) > 1)
              /\ pipes' = [pipes EXCEPT ![a.pipe] = [Put(q, Head(a.data)) EXCEPT !.lock = p]]
              /\ Then(p, PipeWrite(a.pipe, Tail(a.data), a.n + 1, a.bad)) /\ UNCHANGED chan
           \/ /\ a.data = <<>> \/ (more /\ ~Full(q) /\ a.bad)
              /\ release(a.pipe) /\ wakeup(Nread(a.pipe)) /\ Then(p, Ret(a.n))
    /\ UNCHANGED <<fsvars, ftable, prvars, reg, user, panicked, cons, crashes>>

\* One turn of the copy loop of piperead; g.got is what was copied out.
Get(g, k) ==
    [got |-> Append(g.got, g.q.data[g.q.nread % PIPESIZE]),
     q   |-> [g.q EXCEPT !.nread = (@ + 1) % UINT, !.taken = @ + 1]]

Waits(q) == q.nread = q.nwrite /\ q.writeopen

PipeRead(i, n, bad) == <<[op |-> "piperead", pipe |-> i, n |-> n, bad |-> bad]>>

\* It copies all there is, up to n, or less into a buffer that is bad from some unit on.
piperead(p) ==
    /\ At(p, "piperead") /\ MayHold(p, Arg(p).pipe)
    /\ LET a == Arg(p)
           q == pipes[a.pipe]
           n == Min({a.n, (q.nwrite - q.nread) % UINT})
       IN  \/ /\ Waits(q) /\ proc[p].killed
              /\ Then(p, Ret(-1))
              /\ UNCHANGED <<pipes, chan>>
           \/ /\ Waits(q) /\ ~proc[p].killed
              /\ sleep(p, Nread(a.pipe))
              /\ UNCHANGED <<pipes, todo>>
           \/ /\ ~Waits(q)
              /\ \E m \in IF a.bad /\ n > 0 THEN 0 .. n - 1 ELSE {n} :
                 \E g \in {FoldLeft(Get, [q |-> q, got |-> <<>>], [k \in 1 .. m |-> k])} :
                    /\ pipes' = [pipes EXCEPT ![a.pipe] = g.q]
                    /\ Then(p, RetData(IF m = 0 /\ n > 0 THEN -1 ELSE m, g.got))
              /\ wakeup(Nwrite(a.pipe))
    /\ UNCHANGED <<fsvars, ftable, prvars, reg, user, panicked, cons, crashes>>

\* What a pipe holds is what was written to it and not read yet, in order, and
\* no more than PIPESIZE units (pipewrite, piperead; also across the wrap-around
\* of nread and nwrite).
PipeFifo ==
    \A i \in Pipes :
        LET q == pipes[i]
            n == (q.nwrite - q.nread) % UINT
        IN  /\ n <= PIPESIZE
            /\ [k \in 1 .. n |-> q.data[(q.nread + k - 1) % PIPESIZE]] = SubSeq(q.sent, q.taken + 1, Len(q.sent))
=============================================================================
