------------------------------- MODULE Progress -------------------------------
(***************************************************************************)
(* scripts/progress/progress.c around one make of the Makefile (all,       *)
(* %-pkg, %-dev).  The parent (process_handler) reads the make's stdout    *)
(* and stderr from two pipes into a log, and a UDP socket; the child waits *)
(* a moment and becomes make, which reads the socket's port from log/port  *)
(* and tells of every package it begins and ends.  Another make in the     *)
(* same WORKDIR may take over log/port, or send its stop to whoever has    *)
(* written it; make clean removes it.                                      *)
(* Pipes are counted in chunks.  select is a snapshot of its descriptors.  *)
(***************************************************************************)
EXTENDS Integers, Sequences, FiniteSets

CONSTANTS
    Packages,   \* the packages of the make
    PipeSize,   \* capacity of a pipe
    BufSize,    \* BUF_SIZE, the most that one read returns
    SockSize,   \* datagrams that the socket's buffer holds
    MaxWrites   \* bound on the chunks that the packages write

\* Both are 65536 bytes.
ASSUME ProgressAssumption ==
    /\ IsFiniteSet(Packages)
    /\ PipeSize \in Nat \ {0} /\ BufSize \in Nat /\ BufSize >= PipeSize
    /\ SockSize \in Nat \ {0} /\ MaxWrites \in Nat

VARIABLES
    mode,       \* all, or pkg for the targets that build one package
    monitor,    \* what the parent executes next
    ready,      \* the descriptors that select has found readable
    running,    \* the loop goes on
    ended,      \* why it does not
    ok,         \* ret of process_handler is 0
    port,       \* content of log/port: none, empty, old, own or other
    queue,      \* datagrams in the socket
    dropped,    \* a datagram found no place
    total, finished, live,  \* total_pkg, finished_pkg, and the list at pkghead
    child,      \* what the child executes next, or how it ended
    mport,      \* PGPORT as make has read it
    job,        \* of each package: wait, run, built or failed
    pipe,       \* unread chunks of stdout and stderr
    writes,     \* chunks written so far
    straggler,  \* a process started by a package keeps the pipes open
    meddled     \* how often the outside has interfered

bar     == <<total, finished, live>>
loop    == <<ready, running, ended, ok>>
make    == <<child, mport, job, writes, straggler>>
socket  == <<queue, dropped>>
vars    == <<mode, monitor, loop, port, socket, bar, make, pipe, meddled>>

Pipes  == {"out", "err"}
Stages == {"socket", "port", "logdir", "select", "out", "err", "sock", "close", "wait",
           "success", "failure"}
Ends   == {"no", "stop", "stray", "eof", "port", "error"}
\* How a make ends: with status 0, with another one, or by a signal.
Dead   == {"done", "failed", "killed"}
Steps  == {"sleep", "init", "build", "stop", "error"} \cup Dead

Msg(k, p)  == [kind |-> k, pkg |-> p]
Signals    == {"total", "stop", "stray"}
Messages   == [kind : {"begin", "end"}, pkg : Packages] \cup {[kind |-> s] : s \in Signals}

TypeOK ==
    /\ mode \in {"all", "pkg"} /\ monitor \in Stages
    /\ ready \subseteq Pipes \cup {"sock"} /\ running \in BOOLEAN /\ ended \in Ends
    /\ ok \in BOOLEAN /\ port \in {"none", "empty", "old", "own", "other"}
    /\ queue \in Seq(Messages) /\ Len(queue) <= SockSize /\ dropped \in BOOLEAN
    /\ total \in {0, Cardinality(Packages)} /\ finished \in 0 .. total
    /\ live \in Seq(Packages)
    /\ child \in Steps /\ mport \in {"none", "old", "own", "other"}
    /\ job \in [Packages -> {"wait", "run", "built", "failed"}]
    /\ pipe \in [Pipes -> 0 .. PipeSize] /\ writes \in 0 .. MaxWrites
    /\ straggler \in BOOLEAN /\ meddled \in 0 .. 1

Init ==
    /\ mode \in {"all", "pkg"}
    /\ monitor = "socket" /\ ready = {} /\ running = TRUE /\ ended = "no" /\ ok = TRUE
    /\ port \in {"none", "old"}
    /\ queue = << >> /\ dropped = FALSE
    /\ total = 0 /\ finished = 0 /\ live = << >>
    /\ child = "sleep" /\ mport = "none"
    /\ job = [p \in Packages |-> "wait"]
    /\ pipe = [d \in Pipes |-> 0] /\ writes = 0
    /\ straggler = FALSE /\ meddled = 0

-----------------------------------------------------------------------------
(* The parent: process_handler before the loop *)

Outside == UNCHANGED <<mode, make, meddled>>
Goto(from, to) == monitor = from /\ monitor' = to

\* ipv4_udp_server, and open with O_TRUNC
OpenPort ==
    /\ Goto("socket", "port")
    /\ port' = "empty"
    /\ UNCHANGED <<loop, socket, bar, pipe>> /\ Outside

WritePort ==
    /\ Goto("port", "logdir")
    /\ port' = "own"
    /\ UNCHANGED <<loop, socket, bar, pipe>> /\ Outside

OpenLog ==
    /\ Goto("logdir", "select")
    /\ UNCHANGED <<loop, port, socket, bar, pipe>> /\ Outside

\* The socket, log/port or the log cannot be opened, now or when the next log
\* begins; a directory that cannot be made leaves ret as it is.
OpenFails ==
    /\ monitor \in {"socket", "logdir", "select"} /\ meddled = 0
    /\ monitor' = "close" /\ ended' = "error"
    /\ IF monitor = "logdir" THEN ok' \in BOOLEAN ELSE ok' = FALSE
    /\ meddled' = 1
    /\ UNCHANGED <<mode, make, ready, running, port, socket, bar, pipe>>

-----------------------------------------------------------------------------
(* The parent: the loop *)

Open        == monitor \in {"port", "logdir", "select", "out", "err", "sock"}
Hanging     == child \notin Dead \/ straggler
Readable(d) == IF d = "sock" THEN queue # << >> ELSE pipe[d] > 0 \/ ~Hanging

Select ==
    /\ Goto("select", "out")
    /\ ready' = {d \in Pipes \cup {"sock"} : Readable(d)}
    /\ ready' # {}
    /\ UNCHANGED <<running, ended, ok, port, socket, bar, pipe>> /\ Outside

\* A second without news, in which log/port still names this monitor, changes
\* nothing.
Idle ==
    /\ Goto("select", "close")
    /\ \A d \in Pipes \cup {"sock"} : ~Readable(d)
    /\ port # "own"
    /\ ok' = (port # "none")
    /\ ended' = IF port = "none" THEN "error" ELSE "port"
    /\ UNCHANGED <<ready, running, port, socket, bar, pipe>> /\ Outside

\* Error variant: a read returns half a pipe at most.
TakenHalf(n) == IF n <= 1 THEN 0 ELSE n - 1

\* What one read leaves of n chunks.
Taken(n) == IF n <= BufSize THEN 0 ELSE n - BufSize

Read(d, next) ==
    /\ monitor = d /\ monitor' = next
    /\ IF d \in ready /\ pipe[d] = 0
       THEN running' = FALSE /\ ended' = (IF running THEN "eof" ELSE ended)
       ELSE UNCHANGED <<running, ended>>
    /\ pipe' = [pipe EXCEPT ![d] = IF d \in ready THEN Taken(@) ELSE @]
    /\ UNCHANGED <<ready, ok, port, socket, bar>> /\ Outside

\* The first of the list that has the name of p goes.
Without(s, p) ==
    LET at == {i \in DOMAIN s : s[i] = p}
        i  == CHOOSE j \in at : \A k \in at : j <= k
    IN  IF at = {} THEN s ELSE SubSeq(s, 1, i - 1) \o SubSeq(s, i + 1, Len(s))

\* Error variant: the first of the list goes.
AfterEndFirst(b, p) == [b EXCEPT !.finished = IF @ < b.total THEN @ + 1 ELSE @,
                                 !.live = IF @ = << >> THEN @ ELSE Tail(@)]

\* end= counts only once total= has come.
AfterEnd(b, p) == IF b.total = 0 THEN b
                  ELSE [b EXCEPT !.finished = IF @ < b.total THEN @ + 1 ELSE @,
                                 !.live = Without(@, p)]

After(b, m) == CASE m.kind = "total" -> [b EXCEPT !.total = Cardinality(Packages)]
                 [] m.kind = "begin" -> [b EXCEPT !.live = Append(@, m.pkg)]
                 [] m.kind = "end"   -> AfterEnd(b, m.pkg)
                 [] OTHER            -> b
Bar == [total |-> total, finished |-> finished, live |-> live]

\* One datagram; then the loop goes on or not.
Receive ==
    /\ monitor = "sock"
    /\ IF "sock" \in ready
       THEN LET m == Head(queue) b == After(Bar, m) stop == m.kind \in {"stop", "stray"} IN
            /\ queue' = Tail(queue)
            /\ total' = b.total /\ finished' = b.finished /\ live' = b.live
            /\ running' = (running /\ ~stop)
            /\ ended' = IF running /\ stop THEN m.kind ELSE ended
       ELSE UNCHANGED <<queue, bar, running, ended>>
    /\ monitor' = IF running' THEN "select" ELSE "close"
    /\ UNCHANGED <<ready, ok, port, dropped, pipe>> /\ Outside

-----------------------------------------------------------------------------
(* The parent: after the loop *)

\* Error variant: the parent waits for make with the pipes open.
PipesStay == TRUE

PipesOpen == monitor # "wait"

\* close of the socket, and of the pipes with all that is unread
Close ==
    /\ Goto("close", "wait")
    /\ live' = << >> /\ queue' = << >>
    /\ UNCHANGED <<loop, port, dropped, total, finished, pipe>> /\ Outside

\* Error variant: the status of make does not matter.
ExitByRet == IF ok THEN "success" ELSE "failure"

\* WEXITSTATUS of a make that a signal has ended is 0.
ExitStatus == IF ok /\ child # "failed" THEN "success" ELSE "failure"

Exit ==
    /\ child \in Dead
    /\ Goto("wait", ExitStatus)
    /\ UNCHANGED <<loop, port, socket, bar, pipe>> /\ Outside

-----------------------------------------------------------------------------
(* The child: make, its recipes, and progress with a port *)

Apart == UNCHANGED <<mode, monitor, loop, port, bar>>

\* sendto a port that nobody has bound succeeds.
Send(m) ==
    LET here == mport = "own" /\ Open
        full == Len(queue) = SockSize
    IN  /\ queue'   = IF here /\ ~full THEN Append(queue, m) ELSE queue
        /\ dropped' = (dropped \/ (here /\ full))

\* Error variant: make does not wait for progress_init.
ParseNoInit ==
    /\ child = "sleep" /\ child' = "build"
    /\ mport' = IF port = "empty" THEN "none" ELSE port
    /\ UNCHANGED <<job, writes, straggler, socket, pipe, meddled>> /\ Apart

\* The 10 ms are over, and make reads the makefiles with $(shell cat log/port).
Parse ==
    /\ child = "sleep" /\ child' = "init"
    /\ mport' = IF port = "empty" THEN "none" ELSE port
    /\ UNCHANGED <<job, writes, straggler, socket, pipe, meddled>> /\ Apart

\* progress_init; progress without a port prints its usage and fails.
ProgressInit ==
    /\ child = "init"
    /\ IF mport = "none" THEN child' = "error" /\ UNCHANGED socket
                         ELSE child' = "build" /\ Send([kind |-> "total"])
    /\ UNCHANGED <<mport, job, writes, straggler, pipe, meddled>> /\ Apart

Failed == \E p \in Packages : job[p] = "failed"
Busy   == {p \in Packages : job[p] = "run"}
AllBuilt == \A p \in Packages : job[p] = "built"

Begin(p) ==
    /\ child = "build" /\ job[p] = "wait" /\ ~Failed
    /\ job' = [job EXCEPT ![p] = "run"]
    /\ Send(Msg("begin", p))
    /\ UNCHANGED <<child, mport, writes, straggler, pipe, meddled>> /\ Apart

\* A write blocks while the pipe is full.
Write(p, d) ==
    /\ child = "build" /\ job[p] = "run" /\ PipesOpen
    /\ writes < MaxWrites /\ pipe[d] < PipeSize
    /\ pipe' = [pipe EXCEPT ![d] = @ + 1] /\ writes' = writes + 1
    /\ UNCHANGED <<child, mport, job, straggler, socket, meddled>> /\ Apart

\* SIGPIPE or EPIPE for the command that writes
WriteFails(p) ==
    /\ child = "build" /\ job[p] = "run" /\ ~PipesOpen
    /\ writes < MaxWrites /\ writes' = writes + 1
    /\ job' = [job EXCEPT ![p] = "failed"]
    /\ UNCHANGED <<child, mport, straggler, socket, pipe, meddled>> /\ Apart

\* A command may leave a process behind that keeps stdout and stderr.
End(p) ==
    /\ child = "build" /\ job[p] = "run"
    /\ job' = [job EXCEPT ![p] = "built"]
    /\ straggler' \in {straggler, TRUE}
    /\ Send(Msg("end", p))
    /\ UNCHANGED <<child, mport, writes, pipe, meddled>> /\ Apart

CompileFails(p) ==
    /\ child = "build" /\ job[p] = "run"
    /\ job' = [job EXCEPT ![p] = "failed"]
    /\ UNCHANGED <<child, mport, writes, straggler, socket, pipe, meddled>> /\ Apart

\* make waits for the other jobs.
MakeEnds ==
    /\ child = "build" /\ Busy = {}
    /\ \/ Failed /\ child' = "error"
       \/ AllBuilt /\ child' = (IF mode = "all" THEN "stop" ELSE "done")
    /\ UNCHANGED <<mport, job, writes, straggler, socket, pipe, meddled>> /\ Apart

\* all_targets: progress stop
SendStop ==
    /\ child = "stop" /\ child' = "done"
    /\ Send([kind |-> "stop"])
    /\ UNCHANGED <<mport, job, writes, straggler, pipe, meddled>> /\ Apart

\* make writes its error message to stderr; into a closed pipe it cannot.
ErrorMessage ==
    /\ child = "error"
    /\ IF PipesOpen
       THEN /\ pipe["err"] < PipeSize /\ pipe' = [pipe EXCEPT !["err"] = @ + 1]
            /\ child' = "failed"
       ELSE child' \in {"failed", "killed"} /\ pipe' = pipe
    /\ UNCHANGED <<mport, job, writes, straggler, socket, meddled>> /\ Apart

-----------------------------------------------------------------------------
(* The outside, once *)

Meddle == meddled = 0 /\ meddled' = 1

\* A signal ends make.
Kill ==
    /\ child \notin Dead /\ child' = "killed"
    /\ Meddle
    /\ UNCHANGED <<mport, job, writes, straggler, socket, pipe>> /\ Apart

\* Another make in this WORKDIR starts its monitor; or make clean.
TakePort ==
    /\ port' \in {"other", "none"}
    /\ Meddle
    /\ UNCHANGED <<mode, monitor, loop, socket, bar, make, pipe>>

\* Another %-pkg or %-dev sends its stop after its make, to the port in log/port.
StrayStop ==
    /\ port = "own" /\ Open /\ Len(queue) < SockSize
    /\ queue' = Append(queue, [kind |-> "stray"])
    /\ Meddle
    /\ UNCHANGED <<mode, monitor, loop, port, dropped, bar, make, pipe>>

-----------------------------------------------------------------------------
Parent == OpenPort \/ WritePort \/ OpenLog \/ Select \/ Idle \/ Read("out", "err")
          \/ Read("err", "sock") \/ Receive \/ Close \/ Exit
Work(p) == Begin(p) \/ (\E d \in Pipes : Write(p, d)) \/ WriteFails(p) \/ End(p) \/ CompileFails(p)
Child  == Parse \/ ProgressInit \/ (\E p \in Packages : Work(p)) \/ MakeEnds \/ SendStop
          \/ ErrorMessage

Next == Parent \/ Child \/ OpenFails \/ Kill \/ TakePort \/ StrayStop

Spec == Init /\ [][Next]_vars

\* Both processes run on; a package is done some time.
FairSpec == Spec /\ WF_vars(Parent) /\ WF_vars(Child)

-----------------------------------------------------------------------------
(* Properties *)

\* process_handler: when make's own stop, or the end of its output, has ended the
\* loop, all that make and its packages wrote is in the log, error messages too.
LogComplete ==
    monitor \in {"close", "wait", "success", "failure"} /\ ended \in {"stop", "eof"} =>
        \A d \in Pipes : pipe[d] = 0

\* What the monitor will show when it has taken the datagrams that are waiting
Coming == LET s[i \in 0 .. Len(queue)] == IF i = 0 THEN Bar ELSE After(s[i - 1], queue[i])
          IN  s[Len(queue)]

\* begin= and end=: the packages of the list, brought up to date with the datagrams
\* that wait, are those that make is working on or has failed with, once each.
LiveIsRunning ==
    Open /\ mport = "own" /\ ~dropped =>
        /\ \A p \in Packages :
             Cardinality({i \in DOMAIN Coming.live : Coming.live[i] = p})
                 = IF job[p] \in {"run", "failed"} THEN 1 ELSE 0

\* all_targets: the stop of a make finds the bar at 100% and no package in the list.
StopAtFull ==
    monitor = "close" /\ ended = "stop" /\ ~dropped => finished = total /\ total > 0 /\ live = << >>

\* main: when progress succeeds and the Makefile goes on, make has built all its
\* packages; or a signal has ended it, whose exit status reads as 0.
SuccessIsReal ==
    monitor = "success" => AllBuilt \/ child = "killed"

\* main and process_handler: progress ends.  Only a process that keeps the pipes
\* can hold it, and only when no stop of this make comes.
NoStopComes == mode = "pkg" \/ dropped \/ mport # "own" \/ child \in {"failed", "killed"}
MonitorEnds == <>(monitor \in {"success", "failure"} \/ (straggler /\ NoStopComes))
=============================================================================
