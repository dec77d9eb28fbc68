---------------------------- MODULE ProgressProofs ----------------------------
(***************************************************************************)
(* What TLAPS proves about Progress, for every set of packages, every size *)
(* of a pipe that one read can empty, and every size of the socket: first  *)
(* the loop, the end of make and the status; then the datagrams, the list  *)
(* and the bar.                                                            *)
(***************************************************************************)
EXTENDS Progress, InductionLemmas, SequenceTheorems, TLAPS

Turn == {"out", "err", "sock"}

Typed ==
    /\ monitor \in Stages
    /\ ready \subseteq Pipes \cup {"sock"}
    /\ running \in BOOLEAN
    /\ pipe \in [Pipes -> 0 .. PipeSize]
    /\ queue \in Seq(Messages)
    /\ child \in Steps
    /\ job \in [Packages -> {"wait", "run", "built", "failed"}]

\* Once make has ended nothing is written: nobody but make and its recipes does.
Still == child \in Dead

\* The pipes that this turn of the loop has yet to look at.
ToRead == CASE monitor = "out" -> Pipes
            [] monitor = "err" -> {"err"}
            [] OTHER           -> {}

\* This turn is, or is about to become, the last one.
LastTurn ==
    \/ ended = "eof"
    \/ \E d \in ToRead \cap ready : pipe[d] = 0
    \/ "sock" \in ready /\ Head(queue).kind = "stop"

\* In the last turn whatever is unread is about to be read.
TurnInv ==
    monitor \in Turn /\ LastTurn =>
        Still /\ \A d \in Pipes : pipe[d] = 0 \/ d \in ToRead \cap ready

\* The loop goes on as long as nothing has ended it.
EndInv ==
    /\ monitor \in {"socket", "port", "logdir", "select", "out"} => running /\ ended = "no"
    /\ monitor \in {"err", "sock"} => (running /\ ended = "no") \/ (~running /\ ended = "eof")
    /\ monitor \notin {"socket", "port", "logdir", "select"} \cup Turn /\ ended \in {"stop", "eof"} =>
         Still /\ \A d \in Pipes : pipe[d] = 0

\* stop is the last thing that make does.
StopInv ==
    /\ \A i \in 1 .. Len(queue) : queue[i].kind = "stop" => child = "done"
    /\ monitor \in Turn /\ "sock" \in ready => queue # << >>

LogInv == Typed /\ EndInv /\ StopInv /\ TurnInv


-----------------------------------------------------------------------------
(* The log *)

\* Nothing is written, read or sent before the program runs.
LEMMA InitLog == Init => LogInv
<1> SUFFICES ASSUME Init PROVE LogInv
    OBVIOUS
<1>1. Typed
    BY ProgressAssumption DEF Init, Typed, Stages, Steps, Pipes
<1>2. EndInv /\ StopInv /\ TurnInv
    BY DEF Init, EndInv, StopInv, TurnInv, Turn
<1>3. QED
    BY <1>1, <1>2 DEF LogInv

\* Make and the outside leave the loop alone: they may write while make lives, and
\* append to the queue, stop only as the last thing.
LEMMA ApartKeeps ==
    ASSUME LogInv, Typed', UNCHANGED <<monitor, loop>>,
           Still => Still' /\ pipe' = pipe,
           child = "done" => child' = "done",
           \A d \in Pipes : pipe[d] # 0 => pipe'[d] # 0,
           \/ queue' = queue
           \/ \E m \in Messages : queue' = Append(queue, m) /\ (m.kind = "stop" => child' = "done")
    PROVE  LogInv'
<1>1. EndInv'
    BY DEF LogInv, EndInv, loop
<1>2. \A i \in 1 .. Len(queue') : queue'[i].kind = "stop" => child' = "done"
    <2>1. CASE queue' = queue
        BY <2>1 DEF LogInv, StopInv
    <2>2. CASE \E m \in Messages : queue' = Append(queue, m) /\ (m.kind = "stop" => child' = "done")
        BY <2>2 DEF LogInv, StopInv, Typed
    <2>3. QED
        BY <2>1, <2>2
<1>3. ASSUME monitor \in Turn, "sock" \in ready
      PROVE  queue' # << >> /\ Head(queue') = Head(queue)
    <2>1. queue # << >> /\ queue \in Seq(Messages)
        BY <1>3 DEF LogInv, StopInv, Typed
    <2>2. CASE queue' = queue
        BY <2>1, <2>2
    <2>3. ASSUME NEW m \in Messages, queue' = Append(queue, m)
          PROVE  queue' # << >> /\ Head(queue') = Head(queue)
        BY <2>1, <2>3, HeadTailAppend, AppendProperties
    <2>4. QED
        BY <2>2, <2>3
<1>4. StopInv'
    BY <1>2, <1>3 DEF StopInv, loop
<1>5. TurnInv'
    <2> SUFFICES ASSUME monitor \in Turn, LastTurn'
                 PROVE  Still' /\ \A d \in Pipes : pipe'[d] = 0 \/ d \in (ToRead \cap ready)'
        BY DEF TurnInv
    <2>1. ToRead' = ToRead /\ ToRead \subseteq Pipes
        BY DEF ToRead, Pipes
    <2>2. LastTurn
        BY <1>3, <2>1 DEF LastTurn, loop
    <2>3. QED
        BY <2>1, <2>2 DEF LogInv, TurnInv, loop
<1>6. QED
    BY <1>1, <1>4, <1>5 DEF LogInv

\* A datagram joins the queue as its last one, or is lost.
LEMMA SendKeeps ==
    ASSUME NEW m \in Messages, queue \in Seq(Messages), Send(m)
    PROVE  queue' \in Seq(Messages) /\ (queue' = queue \/ queue' = Append(queue, m))
BY DEF Send

\* Make and its recipes.
LEMMA ChildKeeps == LogInv /\ Child => LogInv'
<1> SUFFICES ASSUME LogInv, Child PROVE LogInv'
    OBVIOUS
<1> USE DEF Apart, Still, Dead, Steps, Typed
<1>1. Typed
    BY DEF LogInv
<1>2. ASSUME Parse \/ MakeEnds PROVE LogInv'
    <2>1. Typed' /\ UNCHANGED <<monitor, loop, queue, pipe>> /\ ~Still /\ child # "done"
        BY <1>1, <1>2 DEF Parse, MakeEnds, socket, loop
    <2>2. QED
        BY <2>1, ApartKeeps
<1>3. ASSUME ProgressInit PROVE LogInv'
    <2>1. [kind |-> "total"] \in Messages
        BY DEF Messages, Signals
    <2>2. /\ queue' \in Seq(Messages)
          /\ queue' = queue \/ queue' = Append(queue, [kind |-> "total"])
        BY <1>1, <1>3, <2>1, SendKeeps DEF ProgressInit, socket
    <2>3. Typed' /\ UNCHANGED <<monitor, loop, pipe>> /\ ~Still /\ child # "done"
        BY <1>1, <1>3, <2>2 DEF ProgressInit, loop
    <2>4. QED
        BY <2>1, <2>2, <2>3, ApartKeeps
<1>4. ASSUME NEW p \in Packages, NEW k \in {"begin", "end"}, Send(Msg(k, p)),
             Begin(p) \/ End(p)
      PROVE  LogInv'
    <2>1. Msg(k, p) \in Messages /\ Msg(k, p).kind # "stop"
        BY DEF Messages, Msg
    <2>2. queue' \in Seq(Messages) /\ (queue' = queue \/ queue' = Append(queue, Msg(k, p)))
        BY <1>1, <1>4, <2>1, SendKeeps
    <2>3. Typed' /\ UNCHANGED <<monitor, loop, pipe>> /\ ~Still /\ child # "done"
        BY <1>1, <1>4, <2>2 DEF Begin, End, loop
    <2>4. QED
        BY <2>1, <2>2, <2>3, ApartKeeps
<1>5. ASSUME NEW p \in Packages, NEW d \in Pipes, Write(p, d) PROVE LogInv'
    <2>1. pipe[d] + 1 \in 0 .. PipeSize /\ pipe[d] + 1 # 0
        BY <1>1, <1>5, ProgressAssumption DEF Write
    <2>2. Typed' /\ UNCHANGED <<monitor, loop, queue>> /\ ~Still /\ child # "done"
        BY <1>1, <1>5, <2>1 DEF Write, loop, socket
    <2>3. \A e \in Pipes : pipe[e] # 0 => pipe'[e] # 0
        BY <1>1, <1>5, <2>1 DEF Write
    <2>4. QED
        BY <2>2, <2>3, ApartKeeps
<1>6. ASSUME NEW p \in Packages, WriteFails(p) \/ CompileFails(p) PROVE LogInv'
    <2>1. Typed' /\ UNCHANGED <<monitor, loop, queue, pipe>> /\ ~Still /\ child # "done"
        BY <1>1, <1>6 DEF WriteFails, CompileFails, socket, loop
    <2>2. QED
        BY <2>1, ApartKeeps
<1>7. ASSUME SendStop PROVE LogInv'
    <2>1. [kind |-> "stop"] \in Messages
        BY DEF Messages, Signals
    <2>2. /\ queue' \in Seq(Messages)
          /\ queue' = queue \/ queue' = Append(queue, [kind |-> "stop"])
        BY <1>1, <1>7, <2>1, SendKeeps DEF SendStop
    <2>3. Typed' /\ UNCHANGED <<monitor, loop, pipe>> /\ ~Still /\ child' = "done"
        BY <1>1, <1>7, <2>2 DEF SendStop, loop
    <2>4. QED
        BY <2>1, <2>2, <2>3, ApartKeeps
<1>8. ASSUME ErrorMessage PROVE LogInv'
    <2>1. Typed' /\ \A e \in Pipes : pipe[e] # 0 => pipe'[e] # 0
        <3>1. CASE PipesOpen
            <4>1. pipe["err"] + 1 \in 0 .. PipeSize /\ pipe["err"] + 1 # 0 /\ "err" \in Pipes
                BY <1>1, <1>8, <3>1, ProgressAssumption DEF ErrorMessage, Pipes
            <4>2. QED
                BY <1>1, <1>8, <3>1, <4>1 DEF ErrorMessage, loop, socket
        <3>2. CASE ~PipesOpen
            BY <1>1, <1>8, <3>2 DEF ErrorMessage, loop, socket
        <3>3. QED
            BY <3>1, <3>2
    <2>2. UNCHANGED <<monitor, loop, queue>> /\ ~Still /\ child # "done"
        BY <1>8 DEF ErrorMessage, loop, socket
    <2>3. QED
        BY <2>1, <2>2, ApartKeeps
<1>9. QED
    BY <1>2, <1>3, <1>4, <1>5, <1>6, <1>7, <1>8 DEF Child, Work, Begin, End

\* A kill, another make, its stop, and a log that cannot be opened.
LEMMA OutsideKeeps == LogInv /\ (OpenFails \/ Kill \/ TakePort \/ StrayStop) => LogInv'
<1> SUFFICES ASSUME LogInv, OpenFails \/ Kill \/ TakePort \/ StrayStop PROVE LogInv'
    OBVIOUS
<1>1. Typed
    BY DEF LogInv
<1>2. CASE OpenFails
    <2>1. Typed'
        BY <1>1, <1>2 DEF OpenFails, Typed, make, socket, Stages
    <2>2. EndInv' /\ StopInv' /\ TurnInv'
        BY <1>2 DEF OpenFails, LogInv, EndInv, StopInv, TurnInv, Turn, make, socket
    <2>3. QED
        BY <2>1, <2>2 DEF LogInv
<1>3. CASE Kill
    <2>1. Typed' /\ UNCHANGED <<monitor, loop, queue, pipe>> /\ ~Still /\ child # "done"
        BY <1>1, <1>3 DEF Kill, Apart, Typed, Steps, Still, Dead, socket, loop
    <2>2. QED
        BY <2>1, ApartKeeps
<1>4. CASE TakePort
    <2>1. Typed' /\ UNCHANGED <<monitor, loop, queue, pipe, child>>
        BY <1>1, <1>4 DEF TakePort, Typed, make, socket, loop
    <2>2. QED
        BY <2>1, ApartKeeps DEF Still
<1>5. CASE StrayStop
    <2>1. [kind |-> "stray"] \in Messages
        BY DEF Messages, Signals
    <2>2. /\ Typed' /\ UNCHANGED <<monitor, loop, pipe, child>>
          /\ queue' = Append(queue, [kind |-> "stray"])
        BY <1>1, <1>5, <2>1 DEF StrayStop, Typed, make, loop
    <2>3. QED
        BY <2>1, <2>2, ApartKeeps DEF Still
<1>6. QED
    BY <1>2, <1>3, <1>4, <1>5

\* One read empties a pipe.
LEMMA ReadEmpties == ASSUME NEW n \in 0 .. PipeSize PROVE Taken(n) = 0
BY ProgressAssumption DEF Taken

\* select: when a pipe is at its end, or stop has come, make has ended, and every
\* pipe with something in it is found readable.
LEMMA SelectKeeps == LogInv /\ Select => LogInv'
<1> SUFFICES ASSUME LogInv, Select PROVE LogInv'
    OBVIOUS
<1> USE DEF Select, Goto, Outside, socket, make
<1>1. Typed'
    BY DEF LogInv, Typed, Stages, Pipes
<1>2. EndInv'
    BY DEF LogInv, EndInv, Turn
<1>3. StopInv'
    BY DEF LogInv, StopInv, Readable, Pipes
<1>4. ASSUME LastTurn' PROVE Still /\ \A d \in Pipes : pipe[d] = 0 \/ d \in ready'
    <2>1. CASE ended = "eof"
        BY <2>1 DEF LogInv, EndInv
    <2>2. ASSUME NEW d \in ready', d \in Pipes, pipe[d] = 0
          PROVE  Still /\ \A e \in Pipes : e \in ready'
        <3>1. ~Hanging
            BY <2>2 DEF Readable, Pipes
        <3>2. QED
            BY <3>1 DEF Readable, Hanging, Still, Pipes
    <2>3. ASSUME "sock" \in ready', Head(queue).kind = "stop"
          PROVE  Still /\ \A d \in Pipes : pipe[d] = 0 \/ d \in ready'
        <3>1. queue # << >>
            BY <2>3 DEF Readable
        <3>2. Still
            BY <2>3, <3>1 DEF LogInv, Typed, StopInv, Still, Dead
        <3>3. \A d \in Pipes : pipe[d] = 0 \/ d \in ready'
            BY DEF LogInv, Typed, Readable, Pipes
        <3>4. QED
            BY <3>2, <3>3
    <2>4. ToRead' = Pipes
        BY DEF ToRead
    <2>5. QED
        BY <1>4, <2>1, <2>2, <2>3, <2>4 DEF LastTurn
<1>5. TurnInv'
    BY <1>4 DEF TurnInv, ToRead, Still
<1>6. QED
    BY <1>1, <1>2, <1>3, <1>5 DEF LogInv

\* A read: a pipe found readable is empty afterwards, and this is the last turn if it
\* was empty before.
LEMMA ReadKeeps == LogInv /\ (Read("out", "err") \/ Read("err", "sock")) => LogInv'
<1> SUFFICES ASSUME LogInv, NEW d \in Pipes, NEW next \in {"err", "sock"}, Read(d, next),
                    d = "out" <=> next = "err"
             PROVE  LogInv'
    BY DEF Pipes
<1> USE DEF Outside, socket, make
<1>1. /\ monitor = d /\ monitor' = next
      /\ UNCHANGED <<ready, queue, child, job>>
      /\ \A e \in Pipes : pipe'[e] = IF e = d /\ d \in ready THEN 0 ELSE pipe[e]
      /\ pipe' \in [Pipes -> 0 .. PipeSize]
    BY ReadEmpties, ProgressAssumption DEF Read, LogInv, Typed
<1>2. Typed' /\ StopInv'
    BY <1>1 DEF LogInv, Typed, StopInv, Turn, Stages, Pipes, Read
<1>3. EndInv'
    BY <1>1 DEF LogInv, EndInv, Turn, Pipes, Read
<1>4. ToRead = ToRead' \cup {d} /\ d \notin ToRead' /\ monitor \in Turn
    BY <1>1 DEF ToRead, Pipes, Turn
<1>5. ASSUME LastTurn' PROVE LastTurn
    <2>1. CASE ended' = "eof"
        BY <1>1, <1>4, <2>1 DEF Read, LastTurn
    <2>2. CASE ended' # "eof"
        BY <1>1, <1>4, <1>5, <2>2 DEF LastTurn, Pipes, ToRead
    <2>3. QED
        BY <2>1, <2>2
<1>6. TurnInv'
    <2> SUFFICES ASSUME LastTurn'
                 PROVE  Still' /\ \A e \in Pipes : pipe'[e] = 0 \/ e \in (ToRead \cap ready)'
        BY DEF TurnInv
    <2>1. Still /\ \A e \in Pipes : pipe[e] = 0 \/ e \in ToRead \cap ready
        BY <1>4, <1>5 DEF LogInv, TurnInv
    <2>2. QED
        BY <1>1, <1>4, <2>1 DEF Still
<1>7. QED
    BY <1>2, <1>3, <1>6 DEF LogInv

\* A datagram: a stop that ends the loop was the head of the queue when select saw it.
LEMMA ReceiveKeeps == LogInv /\ Receive => LogInv'
<1> SUFFICES ASSUME LogInv, Receive PROVE LogInv'
    OBVIOUS
<1> USE DEF Outside, make
<1>1. /\ monitor = "sock" /\ monitor' \in {"select", "close"}
      /\ UNCHANGED <<ready, pipe, child, job>> /\ running' \in BOOLEAN
    BY DEF Receive, LogInv, Typed
<1>2. queue' \in Seq(Messages) /\ \A i \in 1 .. Len(queue') : queue'[i].kind = "stop" => child = "done"
    <2>1. CASE "sock" \in ready
        <3>1. queue' = Tail(queue) /\ queue # << >> /\ queue \in Seq(Messages)
            BY <1>1, <2>1 DEF Receive, LogInv, StopInv, Turn, Typed
        <3>2. /\ queue' \in Seq(Messages) /\ Len(queue') = Len(queue) - 1
              /\ \A i \in 1 .. Len(queue') : queue'[i] = queue[i + 1]
            BY <3>1, HeadTailProperties
        <3>3. \A i \in 1 .. Len(queue') : i + 1 \in 1 .. Len(queue)
            BY <3>1, <3>2
        <3>4. QED
            BY <3>2, <3>3 DEF LogInv, StopInv
    <2>2. CASE "sock" \notin ready
        BY <2>2 DEF Receive, LogInv, Typed, StopInv
    <2>3. QED
        BY <2>1, <2>2
<1>3. Typed' /\ StopInv' /\ TurnInv'
    BY <1>1, <1>2 DEF LogInv, Typed, StopInv, TurnInv, Turn, Stages
<1>4. EndInv'
    <2>1. (running /\ ended = "no") \/ (~running /\ ended = "eof")
        BY <1>1 DEF LogInv, EndInv
    <2>2. CASE running'
        BY <1>1, <2>1, <2>2 DEF Receive, EndInv, Turn
    <2>3. CASE ~running'
        <3>1. monitor' = "close"
            BY <2>3 DEF Receive
        <3>2. ASSUME ended' \in {"stop", "eof"} PROVE LastTurn
            BY <2>1, <2>3, <3>2 DEF Receive, LastTurn
        <3>3. ASSUME ended' \in {"stop", "eof"} PROVE Still /\ \A d \in Pipes : pipe[d] = 0
            BY <1>1, <3>2, <3>3 DEF LogInv, TurnInv, Turn, ToRead
        <3>4. QED
            BY <1>1, <3>1, <3>3 DEF EndInv, Turn, Still
    <2>4. QED
        BY <2>2, <2>3
<1>5. QED
    BY <1>3, <1>4 DEF LogInv

\* The rest of the parent reads nothing.
LEMMA ParentKeeps == LogInv /\ Parent => LogInv'
<1> SUFFICES ASSUME LogInv, Parent PROVE LogInv'
    OBVIOUS
<1> USE DEF Outside, make, socket, Goto, loop
<1>1. CASE OpenPort \/ WritePort \/ OpenLog
    <2>1. Typed' /\ UNCHANGED <<queue, pipe, child, ready, running, ended>>
        BY <1>1 DEF OpenPort, WritePort, OpenLog, LogInv, Typed, Stages
    <2>2. EndInv' /\ StopInv' /\ TurnInv'
        BY <1>1, <2>1 DEF OpenPort, WritePort, OpenLog, LogInv, EndInv, StopInv, TurnInv, Turn
    <2>3. QED
        BY <2>1, <2>2 DEF LogInv
<1>2. CASE Idle
    <2>1. Typed' /\ UNCHANGED <<queue, pipe, child, ready>> /\ ended' \in {"error", "port"}
        BY <1>2 DEF Idle, LogInv, Typed, Stages
    <2>2. EndInv' /\ StopInv' /\ TurnInv'
        BY <1>2, <2>1 DEF Idle, LogInv, EndInv, StopInv, TurnInv, Turn
    <2>3. QED
        BY <2>1, <2>2 DEF LogInv
<1>3. CASE Close
    <2>1. Typed' /\ UNCHANGED <<pipe, child, ready, running, ended>> /\ queue' = << >>
        BY <1>3 DEF Close, LogInv, Typed, Stages
    <2>2. EndInv' /\ StopInv' /\ TurnInv'
        BY <1>3, <2>1 DEF Close, LogInv, EndInv, StopInv, TurnInv, Turn, Still
    <2>3. QED
        BY <2>1, <2>2 DEF LogInv
<1>4. CASE Exit
    <2>1. /\ Typed' /\ UNCHANGED <<queue, pipe, child, ready, running, ended>>
          /\ monitor' \in {"success", "failure"}
        BY <1>4 DEF Exit, ExitStatus, LogInv, Typed, Stages
    <2>2. EndInv' /\ StopInv' /\ TurnInv'
        BY <1>4, <2>1 DEF Exit, LogInv, EndInv, StopInv, TurnInv, Turn, Still
    <2>3. QED
        BY <2>1, <2>2 DEF LogInv
<1>5. QED
    BY <1>1, <1>2, <1>3, <1>4, SelectKeeps, ReadKeeps, ReceiveKeeps DEF Parent

\* The invariant.
LEMMA LogInvariant == Spec => []LogInv
<1>1. LogInv /\ [Next]_vars => LogInv'
    <2>1. LogInv /\ UNCHANGED vars => LogInv'
        BY DEF vars, loop, socket, make, LogInv, Typed, EndInv, StopInv, TurnInv, LastTurn, ToRead,
               Still
    <2>2. QED
        BY <2>1, ParentKeeps, ChildKeeps, OutsideKeeps DEF Next
<1>2. QED
    BY <1>1, InitLog, PTL DEF Spec

\* LogComplete, the log of a build that ends by itself has all its output: for every
\* number of packages and every pipe that fits into the buffer of a read.
THEOREM LogIsComplete == Spec => []LogComplete
<1>1. LogInv => LogComplete
    BY DEF LogInv, EndInv, LogComplete, Turn
<1>2. QED
    BY <1>1, LogInvariant, PTL

-----------------------------------------------------------------------------
(* The exit status *)

\* Make gets to its stop, and to status 0, with all packages built.
StatusInv ==
    /\ child \in {"stop", "done"} => AllBuilt
    /\ monitor = "success" => child \in Dead \ {"failed"}

LEMMA StatusInvariant == Spec => []StatusInv
<1>1. Init => StatusInv
    BY DEF Init, StatusInv
<1>2. LogInv /\ StatusInv /\ [Next]_vars => StatusInv'
    <2> SUFFICES ASSUME LogInv, StatusInv, [Next]_vars PROVE StatusInv'
        OBVIOUS
    <2> USE DEF StatusInv, AllBuilt
    <2>1. CASE Parent
        <3>1. UNCHANGED <<child, job>> /\ (monitor' = "success" => child \in Dead \ {"failed"})
            BY <2>1 DEF Parent, OpenPort, WritePort, OpenLog, Select, Idle, Read, Receive, Close, Exit,
                        ExitStatus, Goto, Outside, make, Dead
        <3>2. QED
            BY <3>1
    <2>2. CASE Child
        BY <2>2 DEF Child, Work, Parse, ProgressInit, Begin, Write, WriteFails, End, CompileFails,
                    MakeEnds, SendStop, ErrorMessage, Apart, Dead
    <2>3. CASE OpenFails \/ Kill \/ TakePort \/ StrayStop
        BY <2>3 DEF OpenFails, Kill, TakePort, StrayStop, Apart, make, Dead
    <2>4. CASE UNCHANGED vars
        BY <2>4 DEF vars, make
    <2>5. QED
        BY <2>1, <2>2, <2>3, <2>4 DEF Next
<1>3. QED
    BY <1>1, <1>2, LogInvariant, PTL DEF Spec

\* SuccessIsReal, progress succeeds for a make that has built its packages, or that a
\* signal has ended, whatever happens to its monitor.
THEOREM SuccessMeansBuilt == Spec => []SuccessIsReal
<1>1. StatusInv => SuccessIsReal
    BY DEF StatusInv, SuccessIsReal, Dead
<1>2. QED
    BY <1>1, StatusInvariant, PTL

-----------------------------------------------------------------------------
(***************************************************************************)
(* The datagrams and the bar: the types of the variables, that make's stop *)
(* finds the bar full, and that the list shows what make works on.         *)
(***************************************************************************)

Waits(k, p) == \E i \in 1 .. Len(queue) : queue[i].kind = k /\ queue[i].pkg = p

\* What make sends, it sends once and in this order.
Precedes(a, b) ==
    \/ a.kind = "total" /\ b.kind \in {"begin", "end", "stop"}
    \/ a.kind \in {"begin", "end"} /\ b.kind = "stop"
    \/ a.kind = "begin" /\ b.kind = "end" /\ a.pkg = b.pkg
Same(a, b) == a.kind = b.kind /\ a.kind # "stray" /\ (a.kind \in {"begin", "end"} => a.pkg = b.pkg)

QueueInv ==
    /\ queue \in Seq(Messages)
    /\ \A i, j \in 1 .. Len(queue) :
          (Same(queue[i], queue[j]) => i = j) /\ (Precedes(queue[i], queue[j]) => i < j)

\* What a datagram says has happened.
Said(m) ==
    /\ m.kind # "stray" => mport = "own"
    /\ m.kind = "total" => child \notin {"sleep", "init"}
    /\ m.kind = "begin" => job[m.pkg] # "wait"
    /\ m.kind = "end" => job[m.pkg] = "built"
    /\ m.kind = "stop" => child = "done"
AllSaid == \A i \in 1 .. Len(queue) : Said(queue[i])
SaidInv ==
    /\ AllSaid
    /\ child \in {"sleep", "init"} => \A p \in Packages : job[p] = "wait"
    /\ child = "sleep" => mport = "none"

LiveInv ==
    /\ live \in Seq(Packages)
    /\ \A i, j \in 1 .. Len(live) : live[i] = live[j] => i = j
    /\ \A i \in 1 .. Len(live) : job[live[i]] # "wait" /\ ~Waits("begin", live[i])
    /\ mport # "own" => total = 0 /\ finished = 0 /\ live = << >>

\* The bar and the datagrams that wait make up what make has done.
Counted == {p \in Packages : job[p] = "built" /\ ~Waits("end", p)}
Started == child \notin {"sleep", "init", "killed"} \/ \E p \in Packages : job[p] # "wait"
Told    == total = Cardinality(Packages) \/ \E i \in 1 .. Len(queue) : queue[i].kind = "total"
BarInv ==
    Open /\ mport = "own" /\ ~dropped =>
        /\ \A p \in Packages : Waits("begin", p) /\ job[p] = "built" => Waits("end", p)
        /\ \A i \in 1 .. Len(live) : job[live[i]] = "built" => Waits("end", live[i])
        /\ Started => Told
        /\ finished = Cardinality(Counted)

PortInv ==
    /\ port = "own" => monitor \notin {"socket", "port"}
    /\ mport = "own" => monitor \notin {"socket", "port"}

\* Where there is anything to build, make's stop finds it on the bar.
StopFull == Packages # {} => StopAtFull

FullInv == QueueInv /\ SaidInv /\ LiveInv /\ BarInv /\ PortInv /\ StopFull

-----------------------------------------------------------------------------
(* Datagrams that join and leave *)

LEMMA MessageFacts ==
    /\ \A m \in Messages : /\ m.kind \in {"begin", "end"} \cup Signals
                           /\ m.kind \in {"begin", "end"} => m.pkg \in Packages
    /\ \A k \in {"begin", "end"}, p \in Packages :
          Msg(k, p) \in Messages /\ Msg(k, p).kind = k /\ Msg(k, p).pkg = p
    /\ \A k \in Signals : [kind |-> k] \in Messages /\ [kind |-> k].kind = k
BY DEF Messages, Signals, Msg

\* A datagram joins that make may send now.
LEMMA Joins ==
    ASSUME QueueInv, NEW m \in Messages, queue' = Append(queue, m),
           \A i \in 1 .. Len(queue) : ~Same(queue[i], m) /\ ~Precedes(m, queue[i])
    PROVE  /\ QueueInv'
           /\ Len(queue') = Len(queue) + 1 /\ queue'[Len(queue) + 1] = m
           /\ \A i \in 1 .. Len(queue) : queue'[i] = queue[i]
           /\ \A k, p : Waits(k, p)' <=> Waits(k, p) \/ (m.kind = k /\ m.pkg = p)
<1>1. /\ queue' \in Seq(Messages)
      /\ Len(queue') = Len(queue) + 1 /\ queue'[Len(queue) + 1] = m
      /\ \A i \in 1 .. Len(queue) : queue'[i] = queue[i]
    BY AppendProperties DEF QueueInv
<1>2. Len(queue) \in Nat
    BY DEF QueueInv
<1>3. \A i \in 1 .. Len(queue') : i \in 1 .. Len(queue) \/ i = Len(queue) + 1
    BY <1>1, <1>2
<1>4. ~Precedes(m, m)
    BY DEF Precedes
<1>5. ASSUME NEW i \in 1 .. Len(queue'), NEW j \in 1 .. Len(queue')
      PROVE  /\ Same(queue'[i], queue'[j]) => i = j
             /\ Precedes(queue'[i], queue'[j]) => i < j
    <2>1. CASE i \in 1 .. Len(queue) /\ j \in 1 .. Len(queue)
        BY <1>1, <2>1 DEF QueueInv
    <2>2. CASE i = Len(queue) + 1 /\ j = Len(queue) + 1
        BY <1>1, <1>4, <2>2
    <2>3. CASE i \in 1 .. Len(queue) /\ j = Len(queue) + 1
        BY <1>1, <1>2, <2>3
    <2>4. CASE i = Len(queue) + 1 /\ j \in 1 .. Len(queue)
        <3>1. Same(m, queue[j]) => Same(queue[j], m)
            BY DEF Same
        <3>2. QED
            BY <1>1, <2>4, <3>1
    <2>5. QED
        BY <1>3, <2>1, <2>2, <2>3, <2>4
<1>6. ASSUME NEW k, NEW p PROVE Waits(k, p)' <=> Waits(k, p) \/ (m.kind = k /\ m.pkg = p)
    BY <1>1, <1>2, <1>3 DEF Waits
<1>7. QED
    BY <1>1, <1>5, <1>6 DEF QueueInv

\* The first datagram leaves.
LEMMA Leaves ==
    ASSUME QueueInv, queue # << >>, queue' = Tail(queue)
    PROVE  /\ QueueInv'
           /\ 1 \in 1 .. Len(queue) /\ Head(queue) = queue[1] /\ queue[1] \in Messages
           /\ \A i \in 1 .. Len(queue') : i + 1 \in 1 .. Len(queue) /\ queue'[i] = queue[i + 1]
           /\ \A i \in 1 .. Len(queue') :
                 ~Same(queue[1], queue'[i]) /\ ~Precedes(queue'[i], queue[1])
           /\ \A i \in 1 .. Len(queue) : i = 1 \/ \E j \in 1 .. Len(queue') : queue'[j] = queue[i]
           /\ \A k, p : Waits(k, p) <=> Waits(k, p)' \/ (queue[1].kind = k /\ queue[1].pkg = p)
<1>1. /\ queue' \in Seq(Messages) /\ Len(queue') = Len(queue) - 1 /\ Len(queue) \in Nat \ {0}
      /\ \A i \in 1 .. Len(queue') : queue'[i] = queue[i + 1]
      /\ Head(queue) = queue[1] /\ queue[1] \in Messages
    BY HeadTailProperties DEF QueueInv
<1>2. \A i \in 1 .. Len(queue') : i + 1 \in 1 .. Len(queue)
    BY <1>1
<1>3. ASSUME NEW i \in 1 .. Len(queue), i # 1
      PROVE  i - 1 \in 1 .. Len(queue') /\ queue'[i - 1] = queue[i]
    BY <1>1, <1>3
<1>4. QueueInv'
    <2>1. ASSUME NEW i \in 1 .. Len(queue'), NEW j \in 1 .. Len(queue')
          PROVE  /\ Same(queue'[i], queue'[j]) => i = j
                 /\ Precedes(queue'[i], queue'[j]) => i < j
        <3>1. /\ Same(queue[i + 1], queue[j + 1]) => i + 1 = j + 1
              /\ Precedes(queue[i + 1], queue[j + 1]) => i + 1 < j + 1
            BY <1>2 DEF QueueInv
        <3>2. QED
            BY <1>1, <3>1
    <2>2. QED
        BY <1>1, <2>1 DEF QueueInv
<1>5. ASSUME NEW i \in 1 .. Len(queue')
      PROVE  ~Same(queue[1], queue'[i]) /\ ~Precedes(queue'[i], queue[1])
    <2>1. /\ Same(queue[1], queue[i + 1]) => 1 = i + 1
          /\ Precedes(queue[i + 1], queue[1]) => i + 1 < 1
        BY <1>1, <1>2 DEF QueueInv
    <2>2. QED
        BY <1>1, <2>1
<1>6. ASSUME NEW k, NEW p
      PROVE  Waits(k, p) <=> Waits(k, p)' \/ (queue[1].kind = k /\ queue[1].pkg = p)
    BY <1>1, <1>2, <1>3 DEF Waits
<1>7. QED
    BY <1>1, <1>2, <1>3, <1>4, <1>5, <1>6

Lists(s, p) == \E i \in 1 .. Len(s) : s[i] = p

\* The package of an end= leaves the list, where it is once at most.
LEMMA WithoutOne ==
    ASSUME NEW s \in Seq(Packages), NEW p \in Packages, NEW t, t = Without(s, p),
           \A i, j \in 1 .. Len(s) : s[i] = s[j] => i = j
    PROVE  /\ t \in Seq(Packages)
           /\ \A i, j \in 1 .. Len(t) : t[i] = t[j] => i = j
           /\ \A i \in 1 .. Len(t) : t[i] # p /\ \E j \in 1 .. Len(s) : t[i] = s[j]
           /\ \A q : Lists(s, q) /\ q # p => Lists(t, q)
<1> DEFINE at == {i \in DOMAIN s : s[i] = p}
<1>1. DOMAIN s = 1 .. Len(s) /\ Len(s) \in Nat
    OBVIOUS
<1>2. CASE at = {}
    <2>1. t = s
        BY <1>2 DEF Without
    <2>2. \A i \in 1 .. Len(s) : s[i] # p
        BY <1>1, <1>2
    <2>3. QED
        BY <2>1, <2>2 DEF Lists
<1>3. CASE at # {}
    <2>1. PICK n \in 1 .. Len(s) : s[n] = p
        BY <1>1, <1>3
    <2>2. at = {n}
        BY <1>1, <2>1
    <2>3. (CHOOSE j \in at : \A k \in at : j <= k) = n
        BY <2>2
    <2> DEFINE a == SubSeq(s, 1, n - 1)
               b == SubSeq(s, n + 1, Len(s))
    <2>4. t = a \o b
        BY <1>3, <2>3 DEF Without
    <2>5. /\ a \in Seq(Packages) /\ Len(a) = n - 1
          /\ \A i \in 1 .. n - 1 : a[i] = s[i]
        BY <2>1, SubSeqProperties
    <2>6. /\ b \in Seq(Packages) /\ Len(b) = Len(s) - n
          /\ \A i \in 1 .. Len(s) - n : b[i] = s[n + i]
        BY <2>1, SubSeqProperties
    <2> HIDE DEF a, b
    <2>7. /\ t \in Seq(Packages) /\ Len(t) = Len(s) - 1
          /\ \A i \in 1 .. Len(t) : t[i] = IF i < n THEN s[i] ELSE s[i + 1]
        <3>1. Len(a) + Len(b) = Len(s) - 1
            BY <2>1, <2>5, <2>6
        <3>2. /\ a \o b \in Seq(Packages) /\ Len(a \o b) = Len(s) - 1
              /\ \A i \in 1 .. Len(s) - 1 : (a \o b)[i] = IF i <= Len(a) THEN a[i] ELSE b[i - Len(a)]
            <4>1. a \in Seq(Packages) /\ b \in Seq(Packages)
                BY <2>5, <2>6
            <4>2. /\ a \o b \in Seq(Packages) /\ Len(a \o b) = Len(a) + Len(b)
                  /\ \A i \in 1 .. Len(a) + Len(b) :
                        (a \o b)[i] = IF i <= Len(a) THEN a[i] ELSE b[i - Len(a)]
                BY <4>1, ConcatProperties
            <4>3. QED
                BY <3>1, <4>2
        <3>3. ASSUME NEW i \in 1 .. Len(s) - 1
              PROVE  (a \o b)[i] = IF i < n THEN s[i] ELSE s[i + 1]
            <4>1. CASE i < n
                BY <2>1, <2>5, <3>2, <4>1
            <4>2. CASE ~(i < n)
                <5>1. i - (n - 1) \in 1 .. Len(s) - n /\ n + (i - (n - 1)) = i + 1
                    BY <1>1, <2>1, <4>2
                <5>2. QED
                    BY <2>1, <2>5, <2>6, <3>2, <4>2, <5>1
            <4>3. QED
                BY <4>1, <4>2
        <3>4. QED
            BY <2>4, <3>2, <3>3
    <2>8. ASSUME NEW i \in 1 .. Len(t)
          PROVE  \E j \in 1 .. Len(s) : j # n /\ t[i] = s[j] /\ j = IF i < n THEN i ELSE i + 1
        BY <1>1, <2>1, <2>7
    <2>9. QED
        <3>1. \A i, j \in 1 .. Len(t) : t[i] = t[j] => i = j
            BY <1>1, <2>1, <2>7, <2>8
        <3>2. \A i \in 1 .. Len(t) : t[i] # p /\ \E j \in 1 .. Len(s) : t[i] = s[j]
            BY <2>1, <2>8
        <3>3. ASSUME NEW j \in 1 .. Len(s), s[j] # p PROVE \E i \in 1 .. Len(t) : t[i] = s[j]
            <4>1. CASE j < n
                <5>1. j \in 1 .. Len(t) /\ t[j] = s[j]
                    BY <1>1, <2>1, <2>7, <4>1
                <5>2. QED
                    BY <5>1
            <4>2. CASE ~(j < n)
                <5>1. j # n
                    BY <2>1, <3>3
                <5>2. j - 1 \in 1 .. Len(t) /\ ~(j - 1 < n) /\ (j - 1) + 1 = j
                    BY <1>1, <2>1, <2>7, <4>2, <5>1
                <5>3. t[j - 1] = s[j]
                    BY <2>7, <5>2
                <5>4. QED
                    BY <5>2, <5>3
            <4>3. QED
                BY <4>1, <4>2
        <3>4. \A q : Lists(s, q) /\ q # p => Lists(t, q)
            BY <3>3 DEF Lists
        <3>5. QED
            BY <2>7, <3>1, <3>2, <3>4
<1>4. QED
    BY <1>2, <1>3

-----------------------------------------------------------------------------
(* The steps *)

LEMMA InitFull == Init => TypeOK /\ FullInv
<1> SUFFICES ASSUME Init PROVE TypeOK /\ FullInv
    OBVIOUS
<1>1. TypeOK
    <2>1. queue \in Seq(Messages) /\ Len(queue) <= SockSize /\ live \in Seq(Packages)
        BY ProgressAssumption DEF Init
    <2>2. /\ job \in [Packages -> {"wait", "run", "built", "failed"}]
          /\ pipe \in [Pipes -> 0 .. PipeSize] /\ writes \in 0 .. MaxWrites
        BY ProgressAssumption DEF Init
    <2>3. total \in {0, Cardinality(Packages)} /\ finished \in 0 .. total /\ meddled \in 0 .. 1
        BY DEF Init
    <2>4. QED
        BY <2>1, <2>2, <2>3 DEF Init, TypeOK, Stages, Steps, Ends
<1>2. QueueInv /\ SaidInv /\ LiveInv /\ BarInv /\ PortInv /\ StopFull
    BY DEF Init, QueueInv, SaidInv, AllSaid, LiveInv, BarInv, PortInv, StopFull, StopAtFull, Open
<1>3. QED
    BY <1>1, <1>2 DEF FullInv

\* What neither sends nor receives, begins nor ends a package.
LEMMA QuietKeeps ==
    ASSUME TypeOK, FullInv, UNCHANGED <<queue, dropped, total, finished, live, mport>>,
           \A p \in Packages : /\ job'[p] = "wait" <=> job[p] = "wait"
                               /\ job'[p] = "built" <=> job[p] = "built",
           child' # child => /\ child \notin {"sleep", "init", "done"} \/ child' = "killed"
                             /\ child # "done" /\ child' \notin {"sleep", "init"},
           child' # child /\ child = "killed" => FALSE,
           Open' => Open \/ monitor = "socket",
           PortInv',
           monitor' = "close" /\ ended' = "stop" => monitor = "close" /\ ended = "stop"
    PROVE  FullInv'
<1> USE DEF FullInv
<1>1. QueueInv'
    BY DEF QueueInv
<1>2. \A k, p : Waits(k, p)' <=> Waits(k, p)
    BY DEF Waits
<1>3. SaidInv'
    <2>1. \A i \in 1 .. Len(queue) : queue[i] \in Messages
        BY DEF QueueInv
    <2>2. AllSaid'
        BY <2>1, MessageFacts DEF SaidInv, AllSaid, Said
    <2>3. QED
        BY <2>2 DEF SaidInv
<1>4. LiveInv'
    <2>1. \A i \in 1 .. Len(live) : live[i] \in Packages
        BY DEF LiveInv
    <2>2. QED
        BY <1>2, <2>1 DEF LiveInv
<1>5. BarInv'
    <2> SUFFICES ASSUME Open', mport = "own", ~dropped
                 PROVE  /\ \A p \in Packages : Waits("begin", p)' /\ job'[p] = "built" => Waits("end", p)'
                        /\ \A i \in 1 .. Len(live) : job'[live[i]] = "built" => Waits("end", live[i])'
                        /\ Started' => Told'
                        /\ finished = Cardinality(Counted')
        BY DEF BarInv
    <2>1. Open
        BY DEF PortInv
    <2>2. Counted' = Counted
        BY <1>2 DEF Counted
    <2>3. \A i \in 1 .. Len(live) : live[i] \in Packages
        BY DEF LiveInv
    <2>4. Started' => Started
        BY DEF Started
    <2>5. Told' <=> Told
        BY DEF Told
    <2>6. QED
        BY <1>2, <2>1, <2>2, <2>3, <2>4, <2>5 DEF BarInv
<1>6. StopFull'
    BY DEF StopFull, StopAtFull
<1>7. QED
    BY <1>1, <1>3, <1>4, <1>5, <1>6

\* A datagram that make sends: it arrives, or there is no place, or nobody to take it.
LEMMA Sends ==
    ASSUME TypeOK, FullInv, NEW m \in Messages, Send(m), UNCHANGED <<mport, monitor>>,
           mport = "own" => \A i \in 1 .. Len(queue) :
                              ~Same(queue[i], m) /\ ~Precedes(m, queue[i]),
           \A n \in Messages : Said(n) => Said(n)',
           mport = "own" => Said(m)'
    PROVE  /\ Len(queue') <= SockSize /\ dropped' \in BOOLEAN /\ QueueInv'
           /\ AllSaid'
           /\ \A k, p : Waits(k, p)' => Waits(k, p) \/ (mport = "own" /\ m.kind = k /\ m.pkg = p)
           /\ Open' /\ mport' = "own" /\ ~dropped' =>
                /\ Open /\ mport = "own" /\ ~dropped
                /\ Told => Told' \/ total' # total
                /\ \E i \in 1 .. Len(queue') : queue'[i] = m
                /\ \A k, p : Waits(k, p)' <=> Waits(k, p) \/ (m.kind = k /\ m.pkg = p)
<1>1. queue \in Seq(Messages) /\ Len(queue) \in Nat /\ Len(queue) <= SockSize /\ SockSize \in Nat
    BY ProgressAssumption DEF TypeOK
<1>2. \A i \in 1 .. Len(queue) : queue[i] \in Messages /\ Said(queue[i])
    BY <1>1 DEF FullInv, SaidInv, AllSaid
<1> DEFINE lost == (mport = "own" /\ Open) /\ Len(queue) = SockSize
<1>0. dropped' \in BOOLEAN /\ (dropped' <=> dropped \/ lost)
    <2>1. dropped' = (dropped \/ lost)
        BY DEF Send
    <2>2. QED
        BY <2>1
<1>3. CASE mport = "own" /\ Open /\ Len(queue) # SockSize
    <2>1. queue' = Append(queue, m) /\ (dropped' <=> dropped)
        BY <1>0, <1>3 DEF Send
    <2>2. /\ QueueInv' /\ Len(queue') = Len(queue) + 1 /\ queue'[Len(queue) + 1] = m
          /\ \A i \in 1 .. Len(queue) : queue'[i] = queue[i]
          /\ \A k, p : Waits(k, p)' <=> Waits(k, p) \/ (m.kind = k /\ m.pkg = p)
        BY <1>3, <2>1, Joins DEF FullInv
    <2>3. \A i \in 1 .. Len(queue') : i \in 1 .. Len(queue) \/ i = Len(queue) + 1
        BY <1>1, <2>2
    <2>4. AllSaid'
        <3>1. \A i \in 1 .. Len(queue') : queue'[i] = m \/ \E j \in 1 .. Len(queue) : queue'[i] = queue[j]
            BY <2>2, <2>3
        <3>2. QED
            BY <1>2, <1>3, <3>1 DEF AllSaid, Said
    <2>5. Len(queue') <= SockSize /\ dropped' \in BOOLEAN
        BY <1>0, <1>1, <1>3, <2>1, <2>2
    <2>6. \A i \in 1 .. Len(queue) : i \in 1 .. Len(queue')
        BY <1>1, <2>2
    <2>7. Told => Told' \/ total' # total
        BY <2>2, <2>6 DEF Told
    <2>8. \E i \in 1 .. Len(queue') : queue'[i] = m
        BY <1>1, <2>2
    <2>9. QED
        BY <1>3, <2>1, <2>2, <2>4, <2>5, <2>7, <2>8
<1>4. CASE ~(mport = "own" /\ Open /\ Len(queue) # SockSize)
    <2>1. queue' = queue /\ dropped' \in BOOLEAN /\ (Open /\ mport = "own" => dropped')
        BY <1>0, <1>4 DEF Send
    <2>2. QueueInv' /\ \A k, p : Waits(k, p)' <=> Waits(k, p)
        BY <2>1 DEF FullInv, QueueInv, Waits
    <2>3. AllSaid'
        BY <1>2, <2>1 DEF AllSaid, Said
    <2>4. Open' <=> Open
        BY DEF Open
    <2>5. QED
        BY <1>1, <2>1, <2>2, <2>3, <2>4
<1>5. QED
    BY <1>3, <1>4

\* begin=: the package was waiting, so that neither message about it is on its way.
LEMMA BeginKeeps == ASSUME TypeOK, FullInv, NEW p \in Packages, Begin(p) PROVE TypeOK' /\ FullInv'
<1> DEFINE m == Msg("begin", p)
<1>1. m \in Messages /\ m.kind = "begin" /\ m.pkg = p
    BY MessageFacts
<1> HIDE DEF m
<1>2. /\ child = "build" /\ job[p] = "wait" /\ job' = [job EXCEPT ![p] = "run"] /\ Send(m)
      /\ UNCHANGED <<child, mport, writes, straggler, pipe, meddled, mode, monitor, ready, running,
                     ended, ok, port, total, finished, live>>
    BY DEF Begin, Apart, loop, bar, m
<1>3. /\ job' \in [Packages -> {"wait", "run", "built", "failed"}]
      /\ \A q \in Packages : job'[q] = IF q = p THEN "run" ELSE job[q]
    BY <1>2 DEF TypeOK
<1>4. ASSUME NEW i \in 1 .. Len(queue) PROVE ~Same(queue[i], m) /\ ~Precedes(m, queue[i])
    <2>1. queue[i] \in Messages /\ Said(queue[i])
        BY DEF TypeOK, FullInv, SaidInv, AllSaid
    <2>2. QED
        BY <1>1, <1>2, <2>1 DEF Said, Same, Precedes
<1>5. \A n \in Messages : Said(n) => Said(n)'
    BY <1>2, <1>3, MessageFacts DEF Said
<1>6. mport = "own" => Said(m)'
    BY <1>1, <1>2, <1>3 DEF Said
<1>7. /\ Len(queue') <= SockSize /\ dropped' \in BOOLEAN /\ QueueInv' /\ AllSaid'
      /\ \A k, q : Waits(k, q)' => Waits(k, q) \/ (mport = "own" /\ m.kind = k /\ m.pkg = q)
      /\ Open' /\ mport' = "own" /\ ~dropped' =>
           /\ Open /\ mport = "own" /\ ~dropped
           /\ Told => Told'
           /\ \A k, q : Waits(k, q)' <=> Waits(k, q) \/ (m.kind = k /\ m.pkg = q)
    BY <1>1, <1>2, <1>4, <1>5, <1>6, Sends
<1>8. TypeOK'
    BY <1>2, <1>3, <1>7 DEF TypeOK, QueueInv
<1>9. SaidInv'
    BY <1>2, <1>3, <1>7 DEF FullInv, SaidInv
<1>10. LiveInv'
    <2>1. \A i \in 1 .. Len(live) : live[i] \in Packages /\ live[i] # p
        BY <1>2 DEF FullInv, LiveInv
    <2>2. QED
        BY <1>1, <1>2, <1>3, <1>7, <2>1 DEF FullInv, LiveInv
<1>11. BarInv'
    <2> SUFFICES ASSUME Open', mport' = "own", ~dropped' PROVE
                 /\ \A q \in Packages : Waits("begin", q)' /\ job'[q] = "built" => Waits("end", q)'
                 /\ \A i \in 1 .. Len(live) : job'[live[i]] = "built" => Waits("end", live[i])'
                 /\ Told'
                 /\ finished = Cardinality(Counted')
        BY <1>2 DEF BarInv
    <2>1. /\ \A q \in Packages : Waits("begin", q) /\ job[q] = "built" => Waits("end", q)
          /\ \A i \in 1 .. Len(live) : job[live[i]] = "built" => Waits("end", live[i])
          /\ Told /\ finished = Cardinality(Counted)
        BY <1>2, <1>7 DEF FullInv, BarInv, Started
    <2>2. Counted' = Counted
        BY <1>1, <1>2, <1>3, <1>7 DEF Counted
    <2>3. \A i \in 1 .. Len(live) : live[i] \in Packages
        BY DEF FullInv, LiveInv
    <2>4. QED
        BY <1>1, <1>2, <1>3, <1>7, <2>1, <2>2, <2>3
<1>12. PortInv' /\ StopFull'
    <2>1. monitor = "close" => ~Open
        BY DEF Open
    <2>2. dropped \in BOOLEAN /\ (dropped' <=> dropped \/ (mport = "own" /\ Open /\ Len(queue) = SockSize))
        BY <1>2 DEF Send, TypeOK
    <2>3. QED
        BY <1>2, <2>1, <2>2 DEF FullInv, PortInv, StopFull, StopAtFull
<1>13. QED
    BY <1>7, <1>8, <1>9, <1>10, <1>11, <1>12 DEF FullInv

\* end=: the package goes from those at work to those whose end is on its way.
LEMMA EndKeeps == ASSUME TypeOK, FullInv, NEW p \in Packages, End(p) PROVE TypeOK' /\ FullInv'
<1> DEFINE m == Msg("end", p)
<1>1. m \in Messages /\ m.kind = "end" /\ m.pkg = p
    BY MessageFacts
<1> HIDE DEF m
<1>2. /\ child = "build" /\ job[p] = "run" /\ job' = [job EXCEPT ![p] = "built"] /\ Send(m)
      /\ straggler' \in BOOLEAN
      /\ UNCHANGED <<child, mport, writes, pipe, meddled, mode, monitor, ready, running,
                     ended, ok, port, total, finished, live>>
    BY DEF End, Apart, loop, bar, m, TypeOK
<1>3. /\ job' \in [Packages -> {"wait", "run", "built", "failed"}]
      /\ \A q \in Packages : job'[q] = IF q = p THEN "built" ELSE job[q]
    BY <1>2 DEF TypeOK
<1>4. ASSUME NEW i \in 1 .. Len(queue) PROVE ~Same(queue[i], m) /\ ~Precedes(m, queue[i])
    <2>1. queue[i] \in Messages /\ Said(queue[i])
        BY DEF TypeOK, FullInv, SaidInv, AllSaid
    <2>2. QED
        BY <1>1, <1>2, <2>1 DEF Said, Same, Precedes
<1>5. \A n \in Messages : Said(n) => Said(n)'
    BY <1>2, <1>3, MessageFacts DEF Said
<1>6. mport = "own" => Said(m)'
    BY <1>1, <1>2, <1>3 DEF Said
<1>7. /\ Len(queue') <= SockSize /\ dropped' \in BOOLEAN /\ QueueInv' /\ AllSaid'
      /\ \A k, q : Waits(k, q)' => Waits(k, q) \/ (mport = "own" /\ m.kind = k /\ m.pkg = q)
      /\ Open' /\ mport' = "own" /\ ~dropped' =>
           /\ Open /\ mport = "own" /\ ~dropped
           /\ Told => Told'
           /\ \A k, q : Waits(k, q)' <=> Waits(k, q) \/ (m.kind = k /\ m.pkg = q)
    BY <1>1, <1>2, <1>4, <1>5, <1>6, Sends
<1>8. TypeOK'
    BY <1>2, <1>3, <1>7 DEF TypeOK, QueueInv
<1>9. SaidInv'
    BY <1>2, <1>3, <1>7 DEF FullInv, SaidInv
<1>10. LiveInv'
    <2>1. \A i \in 1 .. Len(live) : live[i] \in Packages
        BY DEF FullInv, LiveInv
    <2>2. QED
        BY <1>1, <1>2, <1>3, <1>7, <2>1 DEF FullInv, LiveInv
<1>11. BarInv'
    <2> SUFFICES ASSUME Open', mport' = "own", ~dropped' PROVE
                 /\ \A q \in Packages : Waits("begin", q)' /\ job'[q] = "built" => Waits("end", q)'
                 /\ \A i \in 1 .. Len(live) : job'[live[i]] = "built" => Waits("end", live[i])'
                 /\ Told'
                 /\ finished = Cardinality(Counted')
        BY <1>2 DEF BarInv
    <2>1. /\ \A q \in Packages : Waits("begin", q) /\ job[q] = "built" => Waits("end", q)
          /\ \A i \in 1 .. Len(live) : job[live[i]] = "built" => Waits("end", live[i])
          /\ Told /\ finished = Cardinality(Counted)
        BY <1>2, <1>7 DEF FullInv, BarInv, Started
    <2>2. Counted' = Counted
        BY <1>1, <1>2, <1>3, <1>7 DEF Counted
    <2>3. \A i \in 1 .. Len(live) : live[i] \in Packages
        BY DEF FullInv, LiveInv
    <2>4. QED
        BY <1>1, <1>2, <1>3, <1>7, <2>1, <2>2, <2>3
<1>12. PortInv' /\ StopFull'
    <2>1. dropped \in BOOLEAN /\ (dropped' <=> dropped \/ (mport = "own" /\ Open /\ Len(queue) = SockSize))
        BY <1>2 DEF Send, TypeOK
    <2>2. QED
        BY <1>2, <2>1 DEF FullInv, PortInv, StopFull, StopAtFull
<1>13. QED
    BY <1>7, <1>8, <1>9, <1>10, <1>11, <1>12 DEF FullInv

\* total= and stop: make begins, and has built everything.
LEMMA SignalKeeps ==
    ASSUME TypeOK, FullInv, NEW k \in {"total", "stop"}, Send([kind |-> k]),
           UNCHANGED <<mode, monitor, loop, port, bar, mport, job, writes, straggler, pipe, meddled>>,
           k = "total" => child = "init" /\ child' = "build",
           k = "stop" => child = "stop" /\ child' = "done"
    PROVE  TypeOK' /\ FullInv'
<1> DEFINE m == [kind |-> k]
<1>1. m \in Messages /\ m.kind = k
    BY MessageFacts DEF Signals
<1> HIDE DEF m
<1>2. /\ child \in {"init", "stop"} /\ child' \in {"build", "done"} /\ Send(m)
      /\ UNCHANGED <<mport, writes, pipe, straggler, meddled, mode, monitor, ready, running,
                     ended, ok, port, total, finished, live, job>>
    BY DEF loop, bar, m
<1>3. ASSUME NEW i \in 1 .. Len(queue) PROVE ~Same(queue[i], m) /\ ~Precedes(m, queue[i])
    <2>1. queue[i] \in Messages /\ Said(queue[i])
        BY DEF TypeOK, FullInv, SaidInv, AllSaid
    <2>2. child = "init" => \A p \in Packages : job[p] = "wait"
        BY DEF FullInv, SaidInv
    <2>3. QED
        BY <1>1, <1>2, <2>1, <2>2, MessageFacts DEF Said, Same, Precedes
<1>4. \A n \in Messages : Said(n) => Said(n)'
    BY <1>2, MessageFacts DEF Said
<1>5. mport = "own" => Said(m)'
    BY <1>1, <1>2 DEF Said
<1>6. /\ Len(queue') <= SockSize /\ dropped' \in BOOLEAN /\ QueueInv' /\ AllSaid'
      /\ \A l, q : Waits(l, q)' => Waits(l, q) \/ (mport = "own" /\ m.kind = l /\ m.pkg = q)
      /\ Open' /\ mport' = "own" /\ ~dropped' =>
           /\ Open /\ mport = "own" /\ ~dropped
           /\ Told => Told'
           /\ \E i \in 1 .. Len(queue') : queue'[i] = m
           /\ \A l, q : Waits(l, q)' <=> Waits(l, q) \/ (m.kind = l /\ m.pkg = q)
    BY <1>1, <1>2, <1>3, <1>4, <1>5, Sends
<1>7. TypeOK'
    BY <1>2, <1>6 DEF TypeOK, QueueInv, Steps, Dead
<1>8. SaidInv' /\ LiveInv'
    BY <1>1, <1>2, <1>6 DEF FullInv, SaidInv, LiveInv
<1>9. BarInv'
    <2> SUFFICES ASSUME Open', mport' = "own", ~dropped' PROVE
                 /\ \A q \in Packages : Waits("begin", q)' /\ job[q] = "built" => Waits("end", q)'
                 /\ \A i \in 1 .. Len(live) : job[live[i]] = "built" => Waits("end", live[i])'
                 /\ Told'
                 /\ finished = Cardinality(Counted')
        BY <1>2 DEF BarInv
    <2>1. /\ \A q \in Packages : Waits("begin", q) /\ job[q] = "built" => Waits("end", q)
          /\ \A i \in 1 .. Len(live) : job[live[i]] = "built" => Waits("end", live[i])
          /\ Started => Told
          /\ finished = Cardinality(Counted)
        BY <1>2, <1>6 DEF FullInv, BarInv
    <2>2. Counted' = Counted
        BY <1>1, <1>2, <1>6 DEF Counted
    <2>3. Told'
        BY <1>1, <1>2, <1>6, <2>1 DEF Started, Told
    <2>4. QED
        BY <1>1, <1>2, <1>6, <2>1, <2>2, <2>3
<1>10. PortInv' /\ StopFull'
    <2>1. dropped \in BOOLEAN /\ (dropped' <=> dropped \/ (mport = "own" /\ Open /\ Len(queue) = SockSize))
        BY <1>2 DEF Send, TypeOK
    <2>2. QED
        BY <1>2, <2>1 DEF FullInv, PortInv, StopFull, StopAtFull
<1>11. QED
    BY <1>6, <1>7, <1>8, <1>9, <1>10 DEF FullInv

\* Another make's stop joins the queue.
LEMMA StrayKeeps == ASSUME TypeOK, FullInv, StrayStop PROVE TypeOK' /\ FullInv'
<1> DEFINE m == [kind |-> "stray"]
<1>1. m \in Messages /\ m.kind = "stray"
    BY MessageFacts DEF Signals
<1> HIDE DEF m
<1>2. /\ queue' = Append(queue, m) /\ Len(queue) < SockSize /\ meddled' = 1
      /\ UNCHANGED <<mport, writes, pipe, straggler, mode, monitor, ready, running, ended, ok, port,
                     dropped, total, finished, live, job, child>>
    BY DEF StrayStop, Meddle, loop, bar, make, m
<1>3. ASSUME NEW i \in 1 .. Len(queue) PROVE ~Same(queue[i], m) /\ ~Precedes(m, queue[i])
    BY <1>1 DEF Same, Precedes
<1>4. /\ QueueInv'
      /\ Len(queue') = Len(queue) + 1 /\ queue'[Len(queue) + 1] = m
      /\ \A i \in 1 .. Len(queue) : queue'[i] = queue[i]
      /\ \A k, p : Waits(k, p)' <=> Waits(k, p) \/ (m.kind = k /\ m.pkg = p)
    BY <1>1, <1>2, <1>3, Joins DEF FullInv
<1>5. Len(queue) \in Nat /\ SockSize \in Nat
    BY ProgressAssumption DEF TypeOK
<1>6. \A i \in 1 .. Len(queue') : i \in 1 .. Len(queue) \/ i = Len(queue) + 1
    BY <1>4, <1>5
<1>7. TypeOK'
    <2>1. Len(queue') <= SockSize /\ queue' \in Seq(Messages)
        BY <1>2, <1>4, <1>5 DEF QueueInv
    <2>2. QED
        BY <1>2, <2>1 DEF TypeOK
<1>8. AllSaid'
    BY <1>1, <1>2, <1>4, <1>6 DEF FullInv, SaidInv, AllSaid, Said
<1>9. SaidInv' /\ LiveInv' /\ PortInv' /\ StopFull'
    BY <1>1, <1>2, <1>4, <1>8 DEF FullInv, SaidInv, LiveInv, PortInv, StopFull, StopAtFull
<1>10. BarInv'
    <2>1. Counted' = Counted /\ (Open' <=> Open) /\ (Started' <=> Started)
        BY <1>1, <1>2, <1>4 DEF Counted, Open, Started
    <2>2. \A i \in 1 .. Len(queue) : i \in 1 .. Len(queue')
        BY <1>4, <1>5
    <2>3. Told => Told'
        BY <1>2, <1>4, <2>2 DEF Told
    <2>4. QED
        BY <1>1, <1>2, <1>4, <2>1, <2>3 DEF FullInv, BarInv
<1>11. QED
    BY <1>4, <1>7, <1>9, <1>10 DEF FullInv

\* Make reads log/port, before anything has been sent to this monitor.
LEMMA ParseKeeps == ASSUME TypeOK, FullInv, Parse PROVE TypeOK' /\ FullInv'
<1>1. /\ child = "sleep" /\ child' = "init" /\ mport = "none"
      /\ mport' \in {"none", "old", "own", "other"} /\ (mport' = "own" => port = "own")
      /\ UNCHANGED <<writes, pipe, straggler, meddled, mode, monitor, ready, running, ended, ok, port,
                     queue, dropped, total, finished, live, job>>
    BY DEF Parse, Apart, loop, bar, socket, TypeOK, FullInv, SaidInv
<1>2. \A i \in 1 .. Len(queue) : queue[i].kind = "stray"
    BY <1>1 DEF FullInv, SaidInv, AllSaid, Said
<1>3. total = 0 /\ finished = 0 /\ live = << >> /\ \A p \in Packages : job[p] = "wait"
    BY <1>1 DEF FullInv, LiveInv, SaidInv
<1>4. TypeOK'
    BY <1>1 DEF TypeOK, Steps
<1>5. QueueInv' /\ SaidInv' /\ PortInv' /\ StopFull'
    BY <1>1, <1>2, <1>3 DEF FullInv, QueueInv, SaidInv, AllSaid, Said, PortInv, StopFull, StopAtFull
<1>6. \A k \in {"begin", "end"}, p \in Packages : ~Waits(k, p)'
    BY <1>1, <1>2 DEF Waits
<1>7. LiveInv'
    BY <1>1, <1>3 DEF LiveInv
<1>8. BarInv'
    <2>1. Counted' = {}
        BY <1>1, <1>3 DEF Counted
    <2>2. Cardinality(Counted') = 0
        BY <2>1, FS_EmptySet
    <2>3. ~Started'
        BY <1>1, <1>3 DEF Started
    <2>4. QED
        BY <1>1, <1>3, <1>6, <2>2, <2>3 DEF BarInv
<1>9. QED
    BY <1>4, <1>5, <1>7, <1>8 DEF FullInv

\* Recipes that write or fail, and make as it ends.
LEMMA MakeKeeps ==
    ASSUME TypeOK, FullInv,
           \/ \E p \in Packages : (\E d \in Pipes : Write(p, d)) \/ WriteFails(p) \/ CompileFails(p)
           \/ MakeEnds \/ ErrorMessage \/ Kill
    PROVE  TypeOK' /\ FullInv'
<1>1. /\ UNCHANGED <<mode, monitor, ready, running, ended, ok, port, queue, dropped, total, finished,
                     live, mport, straggler>>
      /\ job' \in [Packages -> {"wait", "run", "built", "failed"}]
      /\ \A p \in Packages : /\ job'[p] = "wait" <=> job[p] = "wait"
                             /\ job'[p] = "built" <=> job[p] = "built"
      /\ child' \in Steps /\ meddled' \in 0 .. 1
    BY DEF Write, WriteFails, CompileFails, MakeEnds, ErrorMessage, Kill, Meddle, Apart, loop, bar,
           socket, TypeOK, Steps, Dead
<1>2. /\ child' # child => /\ child \notin {"sleep", "init", "done"} \/ child' = "killed"
                           /\ child # "done" /\ child' \notin {"sleep", "init"}
      /\ child' # child /\ child = "killed" => FALSE
    BY DEF Write, WriteFails, CompileFails, MakeEnds, ErrorMessage, Kill, Dead
<1>3. pipe' \in [Pipes -> 0 .. PipeSize] /\ writes' \in 0 .. MaxWrites
    <2>1. ASSUME NEW p \in Packages, NEW d \in Pipes, Write(p, d)
          PROVE  pipe' \in [Pipes -> 0 .. PipeSize] /\ writes' \in 0 .. MaxWrites
        <3>1. pipe[d] + 1 \in 0 .. PipeSize /\ writes + 1 \in 0 .. MaxWrites
            BY <2>1, ProgressAssumption DEF Write, TypeOK
        <3>2. QED
            BY <2>1, <3>1 DEF Write, TypeOK
    <2>2. CASE ErrorMessage
        <3>1. CASE PipesOpen
            <4>1. pipe["err"] + 1 \in 0 .. PipeSize /\ "err" \in Pipes
                BY <2>2, <3>1, ProgressAssumption DEF ErrorMessage, TypeOK, Pipes
            <4>2. QED
                BY <2>2, <3>1, <4>1 DEF ErrorMessage, TypeOK
        <3>2. CASE ~PipesOpen
            BY <2>2, <3>2 DEF ErrorMessage, TypeOK
        <3>3. QED
            BY <3>1, <3>2
    <2>3. ASSUME NEW p \in Packages, WriteFails(p) \/ CompileFails(p)
          PROVE  pipe' \in [Pipes -> 0 .. PipeSize] /\ writes' \in 0 .. MaxWrites
        BY <2>3, ProgressAssumption DEF WriteFails, CompileFails, TypeOK
    <2>4. CASE MakeEnds \/ Kill
        BY <2>4 DEF MakeEnds, Kill, TypeOK
    <2>5. QED
        BY <2>1, <2>2, <2>3, <2>4
<1>4. TypeOK'
    BY <1>1, <1>3 DEF TypeOK
<1>5. PortInv' /\ (Open' <=> Open)
    BY <1>1 DEF FullInv, PortInv, Open
<1>6. FullInv'
    BY <1>1, <1>2, <1>5, QuietKeeps
<1>7. QED
    BY <1>4, <1>6

\* The parent where it takes no datagram, and what happens to its port and its log.
LEMMA MonitorKeeps ==
    ASSUME TypeOK, FullInv, LogInv,
           \/ OpenPort \/ WritePort \/ OpenLog \/ Select \/ Idle
           \/ Read("out", "err") \/ Read("err", "sock") \/ Exit \/ OpenFails \/ TakePort
    PROVE  TypeOK' /\ FullInv'
<1> USE DEF OpenPort, WritePort, OpenLog, Select, Idle, Read, Exit, ExitStatus, OpenFails, TakePort,
            Meddle, Goto, Outside, loop, bar, make, socket
<1>1. UNCHANGED <<mode, child, mport, job, writes, straggler, queue, dropped, total, finished, live>>
    OBVIOUS
<1>2. /\ monitor' \in Stages /\ ready' \subseteq Pipes \cup {"sock"} /\ running' \in BOOLEAN
      /\ ended' \in Ends /\ ok' \in BOOLEAN /\ port' \in {"none", "empty", "old", "own", "other"}
      /\ meddled' \in 0 .. 1
    <2>1. monitor' \in Stages
        BY DEF TypeOK, Stages
    <2>2. ready' \subseteq Pipes \cup {"sock"}
        BY DEF TypeOK
    <2>3. running' \in BOOLEAN /\ ended' \in Ends
        BY DEF TypeOK, Ends
    <2>4. ok' \in BOOLEAN
        BY DEF TypeOK
    <2>5. port' \in {"none", "empty", "old", "own", "other"} /\ meddled' \in 0 .. 1
        BY DEF TypeOK
    <2>6. QED
        BY <2>1, <2>2, <2>3, <2>4, <2>5
<1>3. pipe' \in [Pipes -> 0 .. PipeSize]
    <2>1. ASSUME NEW d \in Pipes, NEW next, Read(d, next) PROVE pipe' \in [Pipes -> 0 .. PipeSize]
        <3>1. Taken(pipe[d]) \in 0 .. PipeSize
            BY ReadEmpties, ProgressAssumption DEF TypeOK
        <3>2. QED
            BY <2>1, <3>1 DEF TypeOK
    <2>2. pipe' = pipe \/ Read("out", "err") \/ Read("err", "sock")
        OBVIOUS
    <2>3. QED
        BY <2>1, <2>2 DEF TypeOK, Pipes
<1>4. TypeOK'
    BY <1>1, <1>2, <1>3 DEF TypeOK
<1>5. PortInv'
    BY <1>1 DEF FullInv, PortInv
<1>6. /\ Open' => Open \/ monitor = "socket"
      /\ monitor' = "close" /\ ended' = "stop" => monitor = "close" /\ ended = "stop"
    BY DEF Open
<1>7. FullInv'
    BY <1>1, <1>5, <1>6, QuietKeeps
<1>8. QED
    BY <1>4, <1>7

\* close: with the socket goes all that waits in it.
LEMMA CloseKeeps == ASSUME TypeOK, FullInv, Close PROVE TypeOK' /\ FullInv'
<1>1. /\ monitor' = "wait" /\ live' = << >> /\ queue' = << >>
      /\ UNCHANGED <<mode, child, mport, job, writes, straggler, meddled, ready, running, ended, ok, port,
                     dropped, total, finished, pipe>>
    BY DEF Close, Goto, Outside, loop, make
<1>2. TypeOK'
    BY <1>1, ProgressAssumption DEF TypeOK, Stages
<1>3. FullInv'
    BY <1>1 DEF FullInv, QueueInv, SaidInv, AllSaid, LiveInv, BarInv, PortInv, StopFull, StopAtFull, Open
<1>4. QED
    BY <1>2, <1>3

-----------------------------------------------------------------------------
(* A datagram is taken *)

\* What every datagram that is taken leaves alone.
Taking(m) ==
    /\ queue # << >> /\ m = queue[1] /\ m \in Messages /\ queue' = Tail(queue)
    /\ UNCHANGED <<mport, child, job, dropped>>

LEMMA TakenSaid ==
    ASSUME FullInv, NEW m, Taking(m)
    PROVE  Said(m) /\ QueueInv' /\ SaidInv'
<1>1. /\ QueueInv' /\ 1 \in 1 .. Len(queue)
      /\ \A i \in 1 .. Len(queue') : i + 1 \in 1 .. Len(queue) /\ queue'[i] = queue[i + 1]
    BY Leaves DEF Taking, FullInv
<1>2. Said(m)
    BY <1>1 DEF Taking, FullInv, SaidInv, AllSaid
<1>3. SaidInv'
    BY <1>1 DEF Taking, FullInv, SaidInv, AllSaid, Said
<1>4. QED
    BY <1>1, <1>2, <1>3

\* total= comes before all the others.
LEMMA TakeTotal ==
    ASSUME TypeOK, FullInv, NEW m, Taking(m), m.kind = "total",
           Open, total' = Cardinality(Packages), finished' = finished, live' = live
    PROVE  LiveInv' /\ BarInv'
<1>1. \A k \in {"begin", "end"} : \A p : Waits(k, p)' <=> Waits(k, p)
    BY Leaves DEF Taking, FullInv
<1>2. mport = "own"
    BY TakenSaid DEF Said
<1>3. LiveInv'
    BY <1>1, <1>2 DEF Taking, FullInv, LiveInv
<1>4. Told' /\ Counted' = Counted
    BY <1>1 DEF Told, Counted, Taking
<1>5. BarInv'
    BY <1>1, <1>4 DEF FullInv, BarInv, Taking
<1>6. QED
    BY <1>3, <1>5

\* begin=: the package is not in the list yet.
LEMMA TakeBegin ==
    ASSUME TypeOK, FullInv, NEW m, Taking(m), m.kind = "begin", Open,
           UNCHANGED <<total, finished>>, live' = Append(live, m.pkg)
    PROVE  LiveInv' /\ BarInv'
<1> DEFINE p == m.pkg
<1>1. p \in Packages /\ mport = "own" /\ job[p] # "wait"
    BY TakenSaid, MessageFacts DEF Taking, Said
<1>2. /\ \A q : Waits("end", q)' <=> Waits("end", q)
      /\ \A q : Waits("begin", q) <=> Waits("begin", q)' \/ q = p
      /\ Waits("begin", p)
    <2>1. \A k, q : Waits(k, q) <=> Waits(k, q)' \/ (m.kind = k /\ p = q)
        BY Leaves DEF Taking, FullInv
    <2>2. QED
        BY <2>1
<1>3. ~Waits("begin", p)'
    BY Leaves DEF Taking, FullInv, Waits, Same
<1>4. /\ live' \in Seq(Packages) /\ Len(live') = Len(live) + 1 /\ live'[Len(live) + 1] = p
      /\ \A i \in 1 .. Len(live) : live'[i] = live[i] /\ live[i] \in Packages
      /\ Len(live) \in Nat
    BY <1>1, AppendProperties DEF FullInv, LiveInv
<1>5. \A i \in 1 .. Len(live') : i \in 1 .. Len(live) \/ i = Len(live) + 1
    BY <1>4
<1>6. \A i \in 1 .. Len(live) : live[i] # p
    BY <1>2 DEF FullInv, LiveInv
<1>7. LiveInv'
    <2>1. \A i, j \in 1 .. Len(live') : live'[i] = live'[j] => i = j
        BY <1>4, <1>5, <1>6 DEF FullInv, LiveInv
    <2>2. (\A i \in 1 .. Len(live) : job[live[i]] # "wait" /\ ~Waits("begin", live[i]))'
        BY <1>1, <1>2, <1>3, <1>4, <1>5 DEF FullInv, LiveInv, Taking
    <2>3. QED
        BY <1>1, <1>2, <1>3, <1>4, <1>5, <2>1, <2>2 DEF FullInv, LiveInv, Taking
<1>8. BarInv'
    <2> SUFFICES ASSUME ~dropped
                 PROVE  /\ \A q \in Packages : Waits("begin", q)' /\ job[q] = "built" => Waits("end", q)'
                        /\ (\A i \in 1 .. Len(live) : job[live[i]] = "built" => Waits("end", live[i]))'
                        /\ Told'
                        /\ finished = Cardinality(Counted')
        BY DEF BarInv, Taking
    <2>1. /\ \A q \in Packages : Waits("begin", q) /\ job[q] = "built" => Waits("end", q)
          /\ \A i \in 1 .. Len(live) : job[live[i]] = "built" => Waits("end", live[i])
          /\ Told /\ finished = Cardinality(Counted)
        BY <1>1 DEF FullInv, BarInv, Started
    <2>2. Counted' = Counted
        BY <1>2 DEF Counted, Taking
    <2>3. Told'
        <3>1. /\ \A i \in 1 .. Len(queue) : i = 1 \/ \E j \in 1 .. Len(queue') : queue'[j] = queue[i]
              /\ queue[1].kind = "begin"
            BY Leaves DEF Taking, FullInv
        <3>2. QED
            BY <2>1, <3>1 DEF Told
    <2>4. (\A i \in 1 .. Len(live) : job[live[i]] = "built" => Waits("end", live[i]))'
        BY <1>1, <1>2, <1>4, <1>5, <2>1 DEF Taking
    <2>5. QED
        BY <1>2, <2>1, <2>2, <2>3, <2>4
<1>9. QED
    BY <1>7, <1>8

\* What the first datagram of the queue tells, no other does, and what precedes it is
\* not on its way any more.
LEMMA HeadIsFirst ==
    ASSUME FullInv, NEW m, Taking(m)
    PROVE  /\ \A k, q : Waits(k, q) <=> Waits(k, q)' \/ (m.kind = k /\ m.pkg = q)
           /\ m.kind \in {"begin", "end"} => ~Waits(m.kind, m.pkg)'
           /\ m.kind = "end" => ~Waits("begin", m.pkg)
           /\ m.kind = "stop" => \A k \in {"begin", "end"} : \A q : ~Waits(k, q)
           /\ m.kind \in {"end", "stop"} => \A i \in 1 .. Len(queue) : queue[i].kind # "total"
           /\ m.kind # "total" => (Told /\ total' = total => Told')
<1>1. /\ \A i \in 1 .. Len(queue') :
            ~Same(m, queue'[i]) /\ ~Precedes(queue'[i], m)
      /\ \A i \in 1 .. Len(queue) : queue[i] = m \/ \E j \in 1 .. Len(queue') : queue'[j] = queue[i]
    BY Leaves DEF Taking, FullInv
<1>2. \A k, q : Waits(k, q) <=> Waits(k, q)' \/ (m.kind = k /\ m.pkg = q)
    BY Leaves DEF Taking, FullInv
<1>3. m.kind \in {"begin", "end"} => ~Waits(m.kind, m.pkg)'
    BY <1>1 DEF Same, Waits
<1>4. \A i \in 1 .. Len(queue) : ~Precedes(queue[i], m)
    BY <1>1 DEF Precedes
<1>5. m.kind = "end" => ~Waits("begin", m.pkg)
    BY <1>4 DEF Precedes, Waits
<1>6. m.kind = "stop" => \A k \in {"begin", "end"} : \A q : ~Waits(k, q)
    BY <1>4 DEF Precedes, Waits
<1>7. m.kind \in {"end", "stop"} => \A i \in 1 .. Len(queue) : queue[i].kind # "total"
    BY <1>4 DEF Precedes
<1>8. m.kind # "total" => (Told /\ total' = total => Told')
    BY <1>1 DEF Told
<1>9. QED
    BY <1>2, <1>3, <1>5, <1>6, <1>7, <1>8

\* end=: the package leaves the list and is counted.
LEMMA TakeEnd ==
    ASSUME TypeOK, FullInv, NEW m, Taking(m), m.kind = "end", Open, total' = total,
           IF total = 0 THEN UNCHANGED <<finished, live>>
           ELSE /\ finished' = (IF finished < total THEN finished + 1 ELSE finished)
                /\ live' = Without(live, m.pkg)
    PROVE  LiveInv' /\ BarInv'
<1> DEFINE p == m.pkg
<1>1. p \in Packages /\ mport = "own" /\ job[p] = "built"
    BY TakenSaid, MessageFacts DEF Taking, Said
<1>2. /\ \A q : Waits("begin", q)' <=> Waits("begin", q)
      /\ \A q : Waits("end", q) <=> Waits("end", q)' \/ q = p
      /\ ~Waits("end", p)'
    BY HeadIsFirst
<1>3. /\ live \in Seq(Packages)
      /\ \A i, j \in 1 .. Len(live) : live[i] = live[j] => i = j
    BY DEF FullInv, LiveInv
<1>4. /\ live' \in Seq(Packages)
      /\ \A i, j \in 1 .. Len(live') : live'[i] = live'[j] => i = j
      /\ \A i \in 1 .. Len(live') : \E j \in 1 .. Len(live) : live'[i] = live[j]
      /\ total # 0 => \A i \in 1 .. Len(live') : live'[i] # p
    <2>1. CASE total = 0
        BY <1>3, <2>1
    <2>2. CASE total # 0
        <3>1. live' = Without(live, p)
            BY <2>2
        <3>2. PICK t : t = live'
            OBVIOUS
        <3>3. /\ t \in Seq(Packages)
              /\ \A i, j \in 1 .. Len(t) : t[i] = t[j] => i = j
              /\ \A i \in 1 .. Len(t) : t[i] # p /\ \E j \in 1 .. Len(live) : t[i] = live[j]
            <4>1. p \in Packages /\ t = Without(live, p)
                BY <1>1, <3>1, <3>2
            <4> HIDE DEF p
            <4>2. QED
                BY <1>3, <4>1, WithoutOne
        <3>4. QED
            BY <3>2, <3>3
    <2>3. QED
        BY <2>1, <2>2
<1>5. LiveInv'
    <2>1. (\A i \in 1 .. Len(live) : job[live[i]] # "wait" /\ ~Waits("begin", live[i]))'
        BY <1>2, <1>4 DEF FullInv, LiveInv, Taking
    <2>2. QED
        BY <1>1, <1>4, <2>1 DEF LiveInv, Taking
<1>6. BarInv'
    <2> SUFFICES ASSUME ~dropped
                 PROVE  /\ \A q \in Packages : Waits("begin", q)' /\ job[q] = "built" => Waits("end", q)'
                        /\ (\A i \in 1 .. Len(live) : job[live[i]] = "built" => Waits("end", live[i]))'
                        /\ Told'
                        /\ finished' = Cardinality(Counted')
        BY DEF BarInv, Taking
    <2>1. /\ \A q \in Packages : Waits("begin", q) /\ job[q] = "built" => Waits("end", q)
          /\ \A i \in 1 .. Len(live) : job[live[i]] = "built" => Waits("end", live[i])
          /\ Told /\ finished = Cardinality(Counted)
        BY <1>1 DEF FullInv, BarInv, Started
    <2>2. total = Cardinality(Packages)
        BY <2>1, HeadIsFirst DEF Told
    <2>3. Counted' = Counted \cup {p} /\ p \notin Counted
        BY <1>1, <1>2 DEF Counted, Taking
    <2>4. IsFiniteSet(Counted) /\ Counted \cup {p} \in SUBSET Packages /\ Counted \in SUBSET Packages
        <3>1. Counted \in SUBSET Packages
            BY DEF Counted
        <3>2. QED
            BY <1>1, <3>1, FS_Subset, ProgressAssumption
    <2>5. Cardinality(Counted') = Cardinality(Counted) + 1
        BY <2>3, <2>4, FS_AddElement
    <2>6. Cardinality(Counted') <= Cardinality(Packages)
        BY <2>3, <2>4, FS_Subset, ProgressAssumption
    <2>7. Cardinality(Counted) \in Nat /\ Cardinality(Packages) \in Nat
        BY <2>4, FS_CardinalityType, ProgressAssumption
    <2>8. total # 0 /\ finished < total
        BY <2>1, <2>2, <2>5, <2>6, <2>7
    <2>9. finished' = Cardinality(Counted')
        BY <2>1, <2>5, <2>8
    <2>10. Told'
        BY <2>1, HeadIsFirst
    <2>11. \A q \in Packages : Waits("begin", q)' /\ job[q] = "built" => Waits("end", q)'
        BY <1>2, <2>1, HeadIsFirst
    <2>12. (\A i \in 1 .. Len(live) : job[live[i]] = "built" => Waits("end", live[i]))'
        BY <1>2, <1>4, <2>1, <2>8 DEF Taking
    <2>13. QED
        BY <2>9, <2>10, <2>11, <2>12
<1>7. QED
    BY <1>5, <1>6

\* stop, of whatever make, leaves the bar alone.
LEMMA TakeStop ==
    ASSUME TypeOK, FullInv, NEW m, Taking(m), m.kind \in {"stop", "stray"}, Open,
           UNCHANGED <<total, finished, live>>
    PROVE  LiveInv' /\ BarInv'
<1>1. \A k \in {"begin", "end"} : \A p : Waits(k, p)' <=> Waits(k, p)
    BY HeadIsFirst
<1>2. Told => Told'
    BY HeadIsFirst
<1>3. Counted' = Counted /\ (Started' <=> Started)
    BY <1>1 DEF Counted, Started, Taking
<1>4. QED
    BY <1>1, <1>2, <1>3 DEF FullInv, LiveInv, BarInv, Taking

\* When make's stop is the next datagram, all that it has built is on the bar.
LEMMA StopFindsFull ==
    ASSUME TypeOK, FullInv, StatusInv, NEW m, Taking(m), m.kind = "stop", Open, ~dropped,
           Packages # {}
    PROVE  finished = total /\ total > 0 /\ live = << >>
<1>1. child = "done" /\ mport = "own" /\ AllBuilt
    BY TakenSaid DEF Said, StatusInv
<1>2. \A q : ~Waits("end", q)
    BY HeadIsFirst
<1>3. /\ \A i \in 1 .. Len(live) : job[live[i]] = "built" => Waits("end", live[i])
      /\ Told /\ finished = Cardinality(Counted)
    BY <1>1 DEF FullInv, BarInv, Started
<1>4. total = Cardinality(Packages) /\ Counted = Packages
    BY <1>1, <1>2, <1>3, HeadIsFirst DEF Told, Counted, AllBuilt
<1>5. live \in Seq(Packages) /\ ~ \E i \in 1 .. Len(live) : TRUE
    BY <1>1, <1>2, <1>3 DEF FullInv, LiveInv, AllBuilt
<1>6. live = << >>
    BY <1>5
<1>7. Cardinality(Packages) \in Nat /\ Cardinality(Packages) # 0
    BY ProgressAssumption, FS_CardinalityType, FS_EmptySet
<1>8. QED
    BY <1>3, <1>4, <1>6, <1>7

LEMMA ReceiveFull ==
    ASSUME TypeOK, FullInv, LogInv, StatusInv, Receive
    PROVE  TypeOK' /\ FullInv'
<1>1. /\ monitor = "sock" /\ Open /\ monitor' \in {"select", "close"} /\ ended \in {"no", "eof"}
      /\ UNCHANGED <<mode, child, mport, job, writes, straggler, meddled, ready, ok, port, dropped, pipe>>
    BY DEF Receive, Outside, make, Open, LogInv, EndInv
<1>2. CASE "sock" \notin ready
    <2>1. UNCHANGED <<queue, total, finished, live, running, ended>>
        BY <1>2 DEF Receive, bar
    <2>2. TypeOK'
        BY <1>1, <2>1 DEF TypeOK, Stages
    <2>3. PortInv'
        BY <1>1 DEF FullInv, PortInv
    <2>4. FullInv'
        BY <1>1, <2>1, <2>3, QuietKeeps
    <2>5. QED
        BY <2>2, <2>4
<1>3. CASE "sock" \in ready
    <2>1. queue # << >> /\ queue \in Seq(Messages)
        BY <1>1, <1>3 DEF LogInv, StopInv, Turn, TypeOK
    <2>2. PICK m \in Messages : m = queue[1] /\ m = Head(queue)
        BY <2>1, HeadTailProperties
    <2>3. /\ queue' = Tail(queue)
          /\ total' = After(Bar, m).total /\ finished' = After(Bar, m).finished
          /\ live' = After(Bar, m).live
          /\ ended' = IF running /\ m.kind \in {"stop", "stray"} THEN m.kind ELSE ended
          /\ running' = (running /\ ~(m.kind \in {"stop", "stray"}))
        BY <1>3, <2>2 DEF Receive
    <2>4. Taking(m)
        BY <1>1, <2>1, <2>2, <2>3 DEF Taking
    <2>5. Said(m) /\ QueueInv' /\ SaidInv'
        BY <2>4, TakenSaid DEF FullInv
    <2>6. m.kind \in {"begin", "end", "total", "stop", "stray"}
        BY MessageFacts DEF Signals
    <2>7. Cardinality(Packages) \in Nat /\ total \in Nat /\ finished \in 0 .. total
        BY ProgressAssumption, FS_CardinalityType DEF TypeOK
    <2>8. LiveInv' /\ BarInv' /\ total' \in {0, Cardinality(Packages)} /\ finished' \in 0 .. total'
        <3>1. CASE m.kind = "total"
            <4>1. total' = Cardinality(Packages) /\ finished' = finished /\ live' = live
                BY <2>3, <3>1 DEF After, Bar
            <4>2. finished' \in 0 .. total'
                BY <2>7, <4>1 DEF TypeOK
            <4>3. QED
                BY <1>1, <2>4, <3>1, <4>1, <4>2, TakeTotal
        <3>2. CASE m.kind = "begin"
            <4>1. UNCHANGED <<total, finished>> /\ live' = Append(live, m.pkg)
                BY <2>3, <3>2 DEF After, Bar
            <4>2. QED
                BY <1>1, <2>4, <3>2, <4>1, TakeBegin DEF TypeOK
        <3>3. CASE m.kind = "end"
            <4>1. /\ total' = total
                  /\ IF total = 0 THEN UNCHANGED <<finished, live>>
                     ELSE /\ finished' = (IF finished < total THEN finished + 1 ELSE finished)
                          /\ live' = Without(live, m.pkg)
                BY <2>3, <3>3 DEF After, AfterEnd, Bar
            <4>2. finished' \in 0 .. total'
                BY <2>7, <4>1
            <4>3. LiveInv' /\ BarInv'
                BY <1>1, <2>4, <3>3, <4>1, TakeEnd
            <4>4. QED
                BY <4>1, <4>2, <4>3 DEF TypeOK
        <3>4. CASE m.kind \in {"stop", "stray"}
            <4>1. UNCHANGED <<total, finished, live>>
                BY <2>3, <3>4 DEF After, Bar
            <4>2. QED
                BY <1>1, <2>4, <3>4, <4>1, TakeStop DEF TypeOK
        <3>5. QED
            BY <2>6, <3>1, <3>2, <3>3, <3>4
    <2>9. TypeOK'
        <3>1. queue' \in Seq(Messages) /\ Len(queue') <= SockSize
            BY <2>1, <2>3, HeadTailProperties, ProgressAssumption DEF TypeOK
        <3>2. running' \in BOOLEAN /\ ended' \in Ends
            BY <2>3, <2>6 DEF TypeOK, Ends
        <3>3. live' \in Seq(Packages)
            BY <2>8 DEF LiveInv
        <3>4. QED
            BY <1>1, <2>8, <3>1, <3>2, <3>3 DEF TypeOK, Stages
    <2>10. PortInv'
        BY <1>1 DEF FullInv, PortInv
    <2>11. StopFull'
        <3> SUFFICES ASSUME ended' = "stop", ~dropped, Packages # {}
                     PROVE  finished' = total' /\ total' > 0 /\ live' = << >>
            BY <1>1 DEF StopFull, StopAtFull
        <3>1. m.kind = "stop"
            BY <1>1, <2>3
        <3>2. UNCHANGED <<total, finished, live>>
            BY <2>3, <3>1 DEF After, Bar
        <3>3. QED
            BY <1>1, <2>4, <3>1, <3>2, StopFindsFull
    <2>12. QED
        BY <2>5, <2>8, <2>9, <2>10, <2>11 DEF FullInv
<1>4. QED
    BY <1>2, <1>3

LEMMA FullInvariant == Spec => [](TypeOK /\ FullInv)
<1>1. TypeOK /\ FullInv /\ LogInv /\ StatusInv /\ [Next]_vars => (TypeOK /\ FullInv)'
    <2> SUFFICES ASSUME TypeOK, FullInv, LogInv, StatusInv, [Next]_vars PROVE TypeOK' /\ FullInv'
        OBVIOUS
    <2>1. CASE Parent
        BY <2>1, MonitorKeeps, ReceiveFull, CloseKeeps DEF Parent
    <2>2. CASE ProgressInit
        <3>1. CASE mport = "none"
            <4>1. /\ child = "init" /\ child' = "error"
                  /\ UNCHANGED <<mode, monitor, ready, running, ended, ok, port, queue, dropped, total,
                                 finished, live, mport, job, writes, straggler, pipe, meddled>>
                BY <2>2, <3>1 DEF ProgressInit, Apart, loop, bar, socket
            <4>2. TypeOK'
                BY <4>1 DEF TypeOK, Steps
            <4>3. FullInv'
                BY <3>1, <4>1 DEF FullInv, QueueInv, SaidInv, AllSaid, Said, LiveInv, Waits, BarInv, PortInv,
                                  StopFull, StopAtFull
            <4>4. QED
                BY <4>2, <4>3
        <3>2. CASE mport # "none"
            BY <2>2, <3>2, SignalKeeps DEF ProgressInit, Apart
        <3>3. QED
            BY <3>1, <3>2
    <2>3. CASE SendStop
        BY <2>3, SignalKeeps DEF SendStop, Apart
    <2>4. CASE Child /\ ~ProgressInit /\ ~SendStop
        BY <2>4, ParseKeeps, BeginKeeps, EndKeeps, MakeKeeps DEF Child, Work
    <2>5. CASE OpenFails \/ Kill \/ TakePort \/ StrayStop
        BY <2>5, MonitorKeeps, MakeKeeps, StrayKeeps
    <2>6. CASE UNCHANGED vars
        <3>1. UNCHANGED <<mode, monitor, ready, running, ended, ok, port, queue, dropped, total,
                          finished, live, child, mport, job, writes, straggler, pipe, meddled>>
            BY <2>6 DEF vars, loop, bar, socket, make
        <3>2. TypeOK'
            BY <3>1 DEF TypeOK
        <3>3. Open' => Open
            BY <3>1 DEF Open
        <3>4. FullInv'
            BY <3>1, <3>3, QuietKeeps DEF FullInv, PortInv
        <3>5. QED
            BY <3>2, <3>4
    <2>7. QED
        BY <2>1, <2>2, <2>3, <2>4, <2>5, <2>6 DEF Next
<1>2. QED
    BY <1>1, InitFull, LogInvariant, StatusInvariant, PTL DEF Spec

\* process_handler and the make it watches: every variable keeps its kind, the bar never
\* passes its end and the queue never its size.
THEOREM BarTypeCorrect == Spec => []TypeOK
BY FullInvariant, PTL

\* StopAtFull, the bar is full and the list empty when make's stop ends the loop:
\* for any packages in any order of make's jobs, unless a datagram found no place.
THEOREM StopFindsAll == ASSUME Packages # {} PROVE Spec => []StopAtFull
<1>1. FullInv => StopAtFull
    BY DEF FullInv, StopFull
<1>2. QED
    BY <1>1, FullInvariant, PTL

-----------------------------------------------------------------------------
(* The list of the monitor *)

\* A package that make works on, or that failed, is in the list or on its way to it.
ShownInv ==
    Open /\ mport = "own" /\ ~dropped =>
        \A p \in Packages : job[p] \in {"run", "failed"} => Waits("begin", p) \/ Lists(live, p)

\* Coming takes the datagrams in their order.
Takes(g, n) == g = [i \in 0 .. n |-> IF i = 0 THEN Bar ELSE After(g[i - 1], queue[i])]

\* It has a value for every number of them.
LEMMA ComingSteps ==
    ASSUME queue \in Seq(Messages)
    PROVE  \E g : Takes(g, Len(queue)) /\ Coming = g[Len(queue)]
<1> DEFINE T == {n \in Nat : n <= Len(queue) => \E g : Takes(g, n)}
<1>1. Len(queue) \in Nat
    OBVIOUS
<1>2. 0 \in T
    <2>1. Takes([i \in 0 .. 0 |-> Bar], 0)
        BY DEF Takes
    <2>2. QED
        BY <2>1
<1>3. ASSUME NEW n \in T PROVE n + 1 \in T
    <2>1. SUFFICES ASSUME n + 1 <= Len(queue) PROVE \E g : Takes(g, n + 1)
        BY <1>1
    <2>2. PICK g : Takes(g, n)
        BY <1>1, <2>1
    <2> DEFINE h == [i \in 0 .. n + 1 |-> IF i = n + 1 THEN After(g[n], queue[n + 1]) ELSE g[i]]
    <2>3. \A i \in 0 .. n + 1 : h[i] = IF i = 0 THEN Bar ELSE After(h[i - 1], queue[i])
        <3>1. n \in Nat
            OBVIOUS
        <3>2. \A i \in 0 .. n : h[i] = g[i] /\ (i # 0 => h[i - 1] = g[i - 1])
            BY <3>1
        <3>3. \A i \in 0 .. n : g[i] = IF i = 0 THEN Bar ELSE After(g[i - 1], queue[i])
            BY <2>2, <3>1 DEF Takes
        <3>4. h[n + 1] = After(g[n], queue[n + 1]) /\ n + 1 # 0 /\ (n + 1) - 1 = n /\ n \in 0 .. n
            BY <3>1
        <3>5. \A i \in 0 .. n + 1 : i \in 0 .. n \/ i = n + 1
            BY <3>1
        <3> HIDE DEF h
        <3>6. h[n + 1] = After(h[n], queue[n + 1])
            BY <3>2, <3>4
        <3>7. QED
            BY <3>2, <3>3, <3>4, <3>5, <3>6
    <2>4. Takes(h, n + 1)
        BY <2>3 DEF Takes
    <2>5. QED
        BY <2>4
<1>4. T = Nat
    <2> HIDE DEF T
    <2>1. T \subseteq Nat
        BY DEF T
    <2>2. QED
        BY <1>2, <1>3, <2>1, NatSet
<1>5. \E g : Takes(g, Len(queue))
    BY <1>1, <1>4
<1>6. QED
    BY <1>5 DEF Coming, Takes

\* A datagram that joins the queue waits there, with those that waited already.
LEMMA Grows ==
    ASSUME queue \in Seq(Messages), NEW m \in Messages, queue' = Append(queue, m)
    PROVE  /\ Waits(m.kind, m.pkg)'
           /\ \A k, p : Waits(k, p) => Waits(k, p)'
<1>1. /\ Len(queue') = Len(queue) + 1 /\ queue'[Len(queue) + 1] = m /\ Len(queue) \in Nat
      /\ \A i \in 1 .. Len(queue) : i \in 1 .. Len(queue') /\ queue'[i] = queue[i]
    BY AppendProperties
<1>2. QED
    BY <1>1 DEF Waits

\* Unless there is no place for it, what make sends to an open socket arrives.
LEMMA Arrives ==
    ASSUME TypeOK, NEW m \in Messages, Send(m), UNCHANGED <<mport, monitor>>,
           Open', mport' = "own", ~dropped'
    PROVE  /\ Open /\ mport = "own" /\ ~dropped
           /\ Waits(m.kind, m.pkg)'
           /\ \A k, p : Waits(k, p) => Waits(k, p)'
<1>1. Open /\ mport = "own"
    BY DEF Open
<1>2. dropped \in BOOLEAN /\ (dropped' <=> dropped \/ Len(queue) = SockSize)
    <2>1. dropped' = (dropped \/ ((mport = "own" /\ Open) /\ Len(queue) = SockSize))
        BY DEF Send
    <2>2. QED
        BY <1>1, <2>1 DEF TypeOK
<1>3. queue' = Append(queue, m)
    BY <1>1, <1>2 DEF Send
<1>4. QED
    BY <1>1, <1>2, <1>3, Grows DEF TypeOK

\* What neither sends nor receives leaves them all shown.
LEMMA QuietShows ==
    ASSUME ShownInv, UNCHANGED <<queue, dropped, live, mport>>, Open' /\ mport = "own" => Open,
           \A p \in Packages : job'[p] \in {"run", "failed"} => job[p] \in {"run", "failed"}
    PROVE  ShownInv'
BY DEF ShownInv, Lists, Waits

\* begin= goes out as the package begins; with its end= it needs no place in the list.
LEMMA SendShows ==
    ASSUME TypeOK, FullInv, ShownInv,
           \/ \E p \in Packages : Begin(p) \/ End(p)
           \/ ProgressInit \/ SendStop \/ StrayStop
    PROVE  ShownInv'
<1> SUFFICES ASSUME Open', mport' = "own", ~dropped', NEW p \in Packages,
                    job'[p] \in {"run", "failed"}
             PROVE  Waits("begin", p)' \/ Lists(live', p)
    BY DEF ShownInv
<1>1. ASSUME Open, mport = "own", ~dropped, live' = live, job[p] \in {"run", "failed"},
             \A k, q : Waits(k, q) => Waits(k, q)'
      PROVE  Waits("begin", p)' \/ Lists(live', p)
    BY <1>1 DEF ShownInv
<1>2. ASSUME NEW q \in Packages, Begin(q) PROVE Waits("begin", p)' \/ Lists(live', p)
    <2> DEFINE m == Msg("begin", q)
    <2>1. m \in Messages /\ m.kind = "begin" /\ m.pkg = q
        BY MessageFacts
    <2>2. Send(m) /\ UNCHANGED <<mport, monitor, live>> /\ job' = [job EXCEPT ![q] = "run"]
        BY <1>2 DEF Begin, Apart, bar
    <2> HIDE DEF m
    <2>3. /\ Open /\ mport = "own" /\ ~dropped /\ Waits("begin", q)'
          /\ \A k, r : Waits(k, r) => Waits(k, r)'
        BY <2>1, <2>2, Arrives
    <2>4. p = q \/ job[p] \in {"run", "failed"}
        BY <2>2 DEF TypeOK
    <2>5. QED
        BY <1>1, <2>2, <2>3, <2>4
<1>3. ASSUME NEW q \in Packages, End(q) PROVE Waits("begin", p)' \/ Lists(live', p)
    <2> DEFINE m == Msg("end", q)
    <2>1. m \in Messages
        BY MessageFacts
    <2>2. Send(m) /\ UNCHANGED <<mport, monitor, live>> /\ job' = [job EXCEPT ![q] = "built"]
        BY <1>3 DEF End, Apart, bar
    <2> HIDE DEF m
    <2>3. Open /\ mport = "own" /\ ~dropped /\ \A k, r : Waits(k, r) => Waits(k, r)'
        BY <2>1, <2>2, Arrives
    <2>4. job[p] \in {"run", "failed"}
        BY <2>2 DEF TypeOK
    <2>5. QED
        BY <1>1, <2>2, <2>3, <2>4
<1>4. ASSUME NEW k \in {"total", "stop"}, Send([kind |-> k]), UNCHANGED <<mport, monitor, live, job>>
      PROVE  Waits("begin", p)' \/ Lists(live', p)
    <2> DEFINE m == [kind |-> k]
    <2>1. m \in Messages /\ Send(m)
        BY <1>4, MessageFacts DEF Signals
    <2> HIDE DEF m
    <2>2. Open /\ mport = "own" /\ ~dropped /\ \A l, r : Waits(l, r) => Waits(l, r)'
        BY <1>4, <2>1, Arrives
    <2>3. QED
        BY <1>1, <1>4, <2>2
<1>5. CASE ProgressInit
    <2>1. UNCHANGED <<mport, monitor, live, job>>
        BY <1>5 DEF ProgressInit, Apart, bar
    <2>2. CASE mport = "none"
        BY <2>1, <2>2
    <2>3. CASE mport # "none"
        BY <1>4, <1>5, <2>1, <2>3 DEF ProgressInit
    <2>4. QED
        BY <2>2, <2>3
<1>6. CASE SendStop
    BY <1>4, <1>6 DEF SendStop, Apart, bar
<1>7. CASE StrayStop
    <2> DEFINE m == [kind |-> "stray"]
    <2>1. /\ m \in Messages /\ queue' = Append(queue, m) /\ Open
          /\ UNCHANGED <<mport, live, job, dropped>>
        BY <1>7, MessageFacts DEF StrayStop, Signals, bar, make
    <2> HIDE DEF m
    <2>2. \A k, r : Waits(k, r) => Waits(k, r)'
        BY <2>1, Grows DEF TypeOK
    <2>3. QED
        BY <1>1, <2>1, <2>2
<1>8. QED
    BY <1>2, <1>3, <1>5, <1>6, <1>7

\* The list has no package twice.
Once(s) == \A i, j \in 1 .. Len(s) : s[i] = s[j] => i = j

\* The others of the list stay.
LEMMA WithoutListed ==
    ASSUME NEW s \in Seq(Packages), NEW p \in Packages, Once(s)
    PROVE  /\ Without(s, p) \in Seq(Packages) /\ Once(Without(s, p))
           /\ \A q : Lists(Without(s, p), q) <=> Lists(s, q) /\ q # p
<1>1. PICK t : t = Without(s, p)
    OBVIOUS
<1>2. \A i, j \in 1 .. Len(s) : s[i] = s[j] => i = j
    BY DEF Once
<1>3. t \in Seq(Packages) /\ Once(t)
    BY <1>1, <1>2, WithoutOne DEF Once
<1>4. \A i \in 1 .. Len(t) : t[i] # p /\ \E j \in 1 .. Len(s) : t[i] = s[j]
    BY <1>1, <1>2, WithoutOne
<1>5. \A q : Lists(t, q) => Lists(s, q) /\ q # p
    BY <1>4 DEF Lists
<1>6. \A q : Lists(s, q) /\ q # p => Lists(t, q)
    BY <1>1, <1>2, WithoutOne
<1>7. QED
    BY <1>1, <1>3, <1>5, <1>6

\* A begin= that is taken goes into the list; what an end= takes out of it is built.
LEMMA ReceiveShows ==
    ASSUME TypeOK, FullInv, LogInv, ShownInv, Receive
    PROVE  ShownInv'
<1>1. /\ Open /\ monitor = "sock"
      /\ UNCHANGED <<mport, dropped, job, child>>
    BY DEF Receive, Outside, make, Open
<1>2. CASE "sock" \notin ready
    BY <1>1, <1>2, QuietShows DEF Receive, bar
<1>3. CASE "sock" \in ready
    <2>1. queue # << >> /\ queue \in Seq(Messages)
        BY <1>1, <1>3 DEF LogInv, StopInv, Turn, TypeOK
    <2>2. PICK m \in Messages : m = queue[1] /\ m = Head(queue)
        BY <2>1, HeadTailProperties
    <2>3. queue' = Tail(queue) /\ live' = After(Bar, m).live
        BY <1>3, <2>2 DEF Receive
    <2>4. Taking(m)
        BY <1>1, <2>1, <2>2, <2>3 DEF Taking
    <2> SUFFICES ASSUME mport = "own", ~dropped, NEW p \in Packages, job[p] \in {"run", "failed"}
                 PROVE  Waits("begin", p)' \/ Lists(live', p)
        BY <1>1 DEF ShownInv
    <2>5. Waits("begin", p) \/ Lists(live, p)
        BY <1>1 DEF ShownInv
    <2>6. Waits("begin", p) => Waits("begin", p)' \/ (m.kind = "begin" /\ m.pkg = p)
        BY <2>4, HeadIsFirst
    <2>7. live \in Seq(Packages) /\ Once(live)
        BY DEF FullInv, LiveInv, Once
    <2>8. CASE m.kind = "begin"
        <3>1. m.pkg \in Packages /\ live' = Append(live, m.pkg)
            BY <2>3, <2>8, MessageFacts DEF After, Bar
        <3>2. /\ Len(live') = Len(live) + 1 /\ live'[Len(live) + 1] = m.pkg /\ Len(live) \in Nat
              /\ \A i \in 1 .. Len(live) : i \in 1 .. Len(live') /\ live'[i] = live[i]
            BY <2>7, <3>1, AppendProperties
        <3>3. Lists(live', m.pkg) /\ (Lists(live, p) => Lists(live', p))
            BY <3>2 DEF Lists
        <3>4. QED
            BY <2>5, <2>6, <3>3
    <2>9. CASE m.kind = "end"
        <3>1. job[m.pkg] = "built" /\ m.pkg \in Packages
            BY <2>4, <2>9, TakenSaid, MessageFacts DEF Said
        <3>2. live' = live \/ live' = Without(live, m.pkg)
            BY <2>3, <2>9 DEF After, AfterEnd, Bar
        <3>3. CASE live' = live
            BY <2>5, <2>6, <2>9, <3>3
        <3>4. CASE live' = Without(live, m.pkg)
            <4> DEFINE q == m.pkg
            <4>1. q \in Packages /\ q # p /\ live' = Without(live, q)
                BY <3>1, <3>4
            <4> HIDE DEF q
            <4>2. Lists(live, p) => Lists(live', p)
                BY <2>7, <4>1, WithoutListed
            <4>3. QED
                BY <2>5, <2>6, <2>9, <4>2
        <3>5. QED
            BY <3>2, <3>3, <3>4
    <2>10. CASE m.kind \notin {"begin", "end"}
        <3>1. live' = live
            BY <2>3, <2>10, MessageFacts DEF After, Bar, Signals
        <3>2. QED
            BY <2>5, <2>6, <2>10, <3>1
    <2>11. QED
        BY <2>8, <2>9, <2>10
<1>4. QED
    BY <1>2, <1>3

\* The invariant of the list.
LEMMA ShownInvariant == Spec => []ShownInv
<1>1. Init => ShownInv
    BY DEF Init, ShownInv
<1>2. TypeOK /\ FullInv /\ LogInv /\ ShownInv /\ PortInv' /\ [Next]_vars => ShownInv'
    <2> SUFFICES ASSUME TypeOK, FullInv, LogInv, ShownInv, PortInv', [Next]_vars PROVE ShownInv'
        OBVIOUS
    <2>1. CASE \/ OpenPort \/ WritePort \/ OpenLog \/ Select \/ Idle \/ Read("out", "err")
               \/ Read("err", "sock") \/ Exit \/ OpenFails \/ TakePort
        <3>1. UNCHANGED <<queue, dropped, live, mport, job>>
            BY <2>1 DEF OpenPort, WritePort, OpenLog, Select, Idle, Read, Exit, OpenFails, TakePort,
                        Outside, loop, bar, make, socket
        <3>2. Open' => Open \/ monitor = "socket"
            BY <2>1 DEF OpenPort, WritePort, OpenLog, Select, Idle, Read, Exit, ExitStatus, OpenFails,
                        TakePort, Goto, Open
        <3>3. QED
            BY <3>1, <3>2, QuietShows DEF FullInv, PortInv
    <2>2. CASE Receive
        BY <2>2, ReceiveShows
    <2>3. CASE Close
        BY <2>3 DEF Close, Goto, ShownInv, Open
    <2>4. CASE ProgressInit \/ SendStop \/ StrayStop \/ \E p \in Packages : Begin(p) \/ End(p)
        BY <2>4, SendShows
    <2>5. CASE Parse
        <3>1. UNCHANGED job /\ child = "sleep"
            BY <2>5 DEF Parse
        <3>2. \A p \in Packages : job[p] = "wait"
            BY <3>1 DEF FullInv, SaidInv
        <3>3. QED
            BY <3>1, <3>2 DEF ShownInv
    <2>6. CASE \/ \E p \in Packages : (\E d \in Pipes : Write(p, d)) \/ WriteFails(p) \/ CompileFails(p)
               \/ MakeEnds \/ ErrorMessage \/ Kill
        <3>1. /\ UNCHANGED <<queue, dropped, live, mport, monitor>>
              /\ \A p \in Packages : job'[p] \in {"run", "failed"} => job[p] \in {"run", "failed"}
            BY <2>6 DEF Write, WriteFails, CompileFails, MakeEnds, ErrorMessage, Kill, Apart, bar, socket,
                        TypeOK
        <3>2. QED
            BY <3>1, QuietShows DEF Open
    <2>7. CASE UNCHANGED vars
        <3>1. UNCHANGED <<queue, dropped, live, mport, monitor, job>>
            BY <2>7 DEF vars, bar, socket, make
        <3>2. QED
            BY <3>1, QuietShows DEF Open
    <2>8. QED
        BY <2>1, <2>2, <2>3, <2>4, <2>5, <2>6, <2>7 DEF Next, Parent, Child, Work
<1>3. FullInv => PortInv
    BY DEF FullInv
<1>4. QED
    BY <1>1, <1>2, <1>3, FullInvariant, LogInvariant, PTL DEF Spec

\* The first n datagrams tell k of p.
Before(k, p, n) == \E i \in 1 .. n : queue[i].kind = k /\ queue[i].pkg = p

\* What the bar is after the first n datagrams: the list has what was in it or has begun,
\* except what has ended; and no end= comes in front of the total=.
Follows(b, n) ==
    /\ b \in [total : Nat, finished : Nat, live : Seq(Packages)]
    /\ Once(b.live)
    /\ \A p \in Packages : Lists(b.live, p) <=> /\ Lists(live, p) \/ Before("begin", p, n)
                                                /\ ~Before("end", p, n)
    /\ total # 0 \/ (\E i \in 1 .. n : queue[i].kind = "total") => b.total # 0

\* One more datagram.
LEMMA FollowsOne ==
    ASSUME TypeOK, FullInv, Open, mport = "own", ~dropped, Packages # {},
           NEW n \in Nat, n + 1 <= Len(queue), NEW b, Follows(b, n)
    PROVE  Follows(After(b, queue[n + 1]), n + 1)
<1> DEFINE m == queue[n + 1]
           c == After(b, m)
<1>1. /\ Len(queue) \in Nat /\ n + 1 \in 1 .. Len(queue) /\ m \in Messages /\ Said(m)
      /\ \A i \in 1 .. n : i \in 1 .. Len(queue) /\ i # n + 1 /\ i < n + 1
      /\ \A i \in 1 .. n + 1 : i \in 1 .. n \/ i = n + 1
    BY DEF TypeOK, FullInv, SaidInv, AllSaid
<1>2. /\ \A i \in 1 .. n : ~Same(queue[i], m) /\ ~Precedes(m, queue[i])
      /\ \A i \in 1 .. Len(queue) : Precedes(queue[i], m) => i \in 1 .. n
    <2>1. \A i \in 1 .. Len(queue) : /\ Same(queue[i], m) => i = n + 1
                                     /\ Precedes(queue[i], m) => i < n + 1
                                     /\ Precedes(m, queue[i]) => n + 1 < i
        BY <1>1 DEF FullInv, QueueInv
    <2>2. QED
        BY <1>1, <2>1
<1>3. m.kind \in {"begin", "end", "total", "stop", "stray"}
    BY <1>1, MessageFacts DEF Signals
<1>4. m.kind \in {"begin", "end"} => m.pkg \in Packages
    BY <1>1, MessageFacts
<1>5. \A k, p : Before(k, p, n + 1) <=> Before(k, p, n) \/ (m.kind = k /\ m.pkg = p)
    BY <1>1 DEF Before
<1>6. (\E i \in 1 .. n + 1 : queue[i].kind = "total")
         <=> (\E i \in 1 .. n : queue[i].kind = "total") \/ m.kind = "total"
    BY <1>1
<1>7. Cardinality(Packages) \in Nat /\ Cardinality(Packages) # 0
    BY ProgressAssumption, FS_CardinalityType, FS_EmptySet
<1>8. /\ b \in [total : Nat, finished : Nat, live : Seq(Packages)]
      /\ b.total \in Nat /\ b.finished \in Nat /\ b.live \in Seq(Packages)
      /\ Once(b.live)
      /\ total # 0 \/ (\E i \in 1 .. n : queue[i].kind = "total") => b.total # 0
    BY DEF Follows
<1>9. \A p \in Packages : Lists(b.live, p) <=> /\ Lists(live, p) \/ Before("begin", p, n)
                                               /\ ~Before("end", p, n)
    BY DEF Follows
<1> HIDE DEF m
<1>10. CASE m.kind = "total"
    <2>1. c = [b EXCEPT !.total = Cardinality(Packages)]
        BY <1>10 DEF After
    <2>2. /\ c \in [total : Nat, finished : Nat, live : Seq(Packages)]
          /\ c.live = b.live /\ c.total # 0
        BY <1>7, <1>8, <2>1
    <2>3. \A p \in Packages : /\ Before("begin", p, n + 1) <=> Before("begin", p, n)
                              /\ Before("end", p, n + 1) <=> Before("end", p, n)
        BY <1>5, <1>10
    <2> HIDE DEF c
    <2>4. Follows(c, n + 1)
        BY <1>8, <1>9, <2>2, <2>3 DEF Follows
    <2>5. QED
        BY <2>4 DEF c, m
<1>11. CASE m.kind \in {"stop", "stray"}
    <2>1. c = b
        BY <1>11 DEF After
    <2>2. \A p \in Packages : /\ Before("begin", p, n + 1) <=> Before("begin", p, n)
                              /\ Before("end", p, n + 1) <=> Before("end", p, n)
        BY <1>5, <1>11
    <2> HIDE DEF c
    <2>3. Follows(c, n + 1)
        BY <1>6, <1>8, <1>9, <1>11, <2>1, <2>2 DEF Follows
    <2>4. QED
        BY <2>3 DEF c, m
<1>12. CASE m.kind = "begin"
    <2> DEFINE p == m.pkg
    <2>1. p \in Packages
        BY <1>4, <1>12
    <2>2. c = [b EXCEPT !.live = Append(@, p)]
        BY <1>12 DEF After
    <2>3. /\ c \in [total : Nat, finished : Nat, live : Seq(Packages)]
          /\ c.live = Append(b.live, p) /\ c.total = b.total
        <3>1. Append(b.live, p) \in Seq(Packages)
            BY <1>8, <2>1
        <3>2. PICK s \in Seq(Packages) : s = Append(b.live, p)
            BY <3>1
        <3>3. c = [b EXCEPT !.live = s]
            BY <2>2, <3>2
        <3> HIDE DEF c, p
        <3>4. QED
            BY <1>8, <3>2, <3>3
    <2>4. ~Lists(live, p) /\ ~Before("begin", p, n) /\ ~Before("end", p, n)
        <3>1. Waits("begin", p)
            BY <1>1, <1>12 DEF Waits, m
        <3>2. ~Lists(live, p)
            BY <3>1 DEF FullInv, LiveInv, Lists
        <3>3. ~Before("begin", p, n) /\ ~Before("end", p, n)
            BY <1>2, <1>12 DEF Before, Same, Precedes
        <3>4. QED
            BY <3>2, <3>3
    <2>5. ~Lists(b.live, p)
        BY <1>9, <2>1, <2>4
    <2>6. /\ \A q \in Packages : Before("begin", q, n + 1) <=> Before("begin", q, n) \/ q = p
          /\ \A q \in Packages : Before("end", q, n + 1) <=> Before("end", q, n)
        BY <1>5, <1>12
    <2> HIDE DEF c, p
    <2>7. /\ Len(c.live) = Len(b.live) + 1 /\ c.live[Len(b.live) + 1] = p /\ Len(b.live) \in Nat
          /\ \A i \in 1 .. Len(b.live) : i \in 1 .. Len(c.live) /\ c.live[i] = b.live[i]
          /\ \A i \in 1 .. Len(c.live) : i \in 1 .. Len(b.live) \/ i = Len(b.live) + 1
        <3>1. PICK s \in Seq(Packages) : s = b.live
            BY <1>8
        <3>2. /\ Len(Append(s, p)) = Len(s) + 1 /\ Append(s, p)[Len(s) + 1] = p /\ Len(s) \in Nat
              /\ \A i \in 1 .. Len(s) : Append(s, p)[i] = s[i]
            BY <2>1, AppendProperties
        <3>3. QED
            BY <2>3, <3>1, <3>2
    <2>8. Once(c.live)
        BY <1>8, <2>5, <2>7 DEF Lists, Once
    <2>9. ASSUME NEW q \in Packages PROVE Lists(c.live, q) <=> Lists(b.live, q) \/ q = p
        <3>1. Lists(b.live, q) \/ q = p => Lists(c.live, q)
            BY <2>7 DEF Lists
        <3>2. Lists(c.live, q) => Lists(b.live, q) \/ q = p
            BY <2>7 DEF Lists
        <3>3. QED
            BY <3>1, <3>2
    <2>10. \A q \in Packages : Lists(c.live, q) <=> /\ Lists(live, q) \/ Before("begin", q, n + 1)
                                                    /\ ~Before("end", q, n + 1)
        BY <1>9, <2>4, <2>6, <2>9
    <2>11. total # 0 \/ (\E i \in 1 .. n + 1 : queue[i].kind = "total") => c.total # 0
        BY <1>6, <1>8, <1>12, <2>3
    <2>12. Follows(c, n + 1)
        BY <2>3, <2>8, <2>10, <2>11 DEF Follows
    <2>13. QED
        BY <2>12 DEF c, m
<1>13. CASE m.kind = "end"
    <2> DEFINE p == m.pkg
    <2>1. p \in Packages /\ job[p] = "built"
        BY <1>1, <1>4, <1>13 DEF Said
    <2>2. b.total # 0
        <3>1. Told
            BY <2>1 DEF FullInv, BarInv, Started
        <3>2. ASSUME NEW i \in 1 .. Len(queue), queue[i].kind = "total" PROVE i \in 1 .. n
            BY <1>2, <1>13, <3>2 DEF Precedes
        <3>3. QED
            BY <1>7, <1>8, <3>1, <3>2 DEF Told
    <2>3. c = [b EXCEPT !.finished = IF @ < b.total THEN @ + 1 ELSE @, !.live = Without(@, p)]
        BY <1>13, <2>2 DEF After, AfterEnd
    <2> HIDE DEF p
    <2>4. PICK t : t = Without(b.live, p)
        OBVIOUS
    <2>5. t \in Seq(Packages) /\ Once(t) /\ \A q : Lists(t, q) <=> Lists(b.live, q) /\ q # p
        BY <1>8, <2>1, <2>4, WithoutListed
    <2>6. /\ c \in [total : Nat, finished : Nat, live : Seq(Packages)]
          /\ c.live = t /\ c.total = b.total
        <3>1. PICK f \in Nat : f = IF b.finished < b.total THEN b.finished + 1 ELSE b.finished
            BY <1>8
        <3>2. c = [b EXCEPT !.finished = f, !.live = t]
            BY <2>3, <2>4, <3>1
        <3>3. t \in Seq(Packages)
            BY <2>5
        <3> HIDE DEF c
        <3>4. QED
            BY <1>8, <3>1, <3>2, <3>3
    <2>7. /\ \A q \in Packages : Before("end", q, n + 1) <=> Before("end", q, n) \/ q = p
          /\ \A q \in Packages : Before("begin", q, n + 1) <=> Before("begin", q, n)
        BY <1>5, <1>13 DEF p
    <2> HIDE DEF c
    <2>8. \A q \in Packages : Lists(c.live, q) <=> Lists(b.live, q) /\ q # p
        BY <2>5, <2>6
    <2>9. \A q \in Packages : Lists(c.live, q) <=> /\ Lists(live, q) \/ Before("begin", q, n + 1)
                                                   /\ ~Before("end", q, n + 1)
        BY <1>9, <2>7, <2>8
    <2>10. total # 0 \/ (\E i \in 1 .. n + 1 : queue[i].kind = "total") => c.total # 0
        BY <2>2, <2>6
    <2>11. Follows(c, n + 1)
        BY <2>5, <2>6, <2>9, <2>10 DEF Follows
    <2>12. QED
        BY <2>11 DEF c, m
<1>14. QED
    BY <1>3, <1>10, <1>11, <1>12, <1>13

\* The list, brought up to date.
LEMMA ComingLists ==
    ASSUME TypeOK, FullInv, Open, mport = "own", ~dropped, Packages # {}
    PROVE  Follows(Coming, Len(queue))
<1>1. queue \in Seq(Messages) /\ Len(queue) \in Nat
    BY DEF TypeOK
<1>2. PICK g : Takes(g, Len(queue)) /\ Coming = g[Len(queue)]
    BY <1>1, ComingSteps
<1>3. g[0] = Bar /\ \A i \in 1 .. Len(queue) : g[i] = After(g[i - 1], queue[i])
    BY <1>1, <1>2 DEF Takes
<1> DEFINE T == {n \in Nat : n <= Len(queue) => Follows(g[n], n)}
<1>4. 0 \in T
    <2>1. /\ total \in Nat /\ finished \in Nat /\ live \in Seq(Packages)
          /\ Once(live)
        BY ProgressAssumption, FS_CardinalityType DEF TypeOK, FullInv, LiveInv, Once
    <2>2. Follows(Bar, 0)
        BY <2>1 DEF Follows, Bar, Before
    <2>3. QED
        BY <1>3, <2>2
<1>5. ASSUME NEW n \in T PROVE n + 1 \in T
    <2>1. n \in Nat
        OBVIOUS
    <2> SUFFICES ASSUME n + 1 <= Len(queue) PROVE Follows(g[n + 1], n + 1)
        BY <2>1
    <2>2. Follows(g[n], n)
        BY <1>1, <2>1
    <2>3. n + 1 \in 1 .. Len(queue) /\ (n + 1) - 1 = n
        BY <1>1, <2>1
    <2>4. g[n + 1] = After(g[n], queue[n + 1])
        BY <1>3, <2>3
    <2>5. Follows(After(g[n], queue[n + 1]), n + 1)
        BY <2>1, <2>2, FollowsOne
    <2>6. QED
        BY <2>4, <2>5
<1>6. T = Nat
    <2> HIDE DEF T
    <2>1. T \subseteq Nat
        BY DEF T
    <2>2. QED
        BY <1>4, <1>5, <2>1, NatSet
<1>7. QED
    BY <1>1, <1>2, <1>6

\* LiveIsRunning, the list that progress shows, once it has taken what waits: the
\* packages that make works on or has failed with, once each, for any packages.
THEOREM ListIsRunning == Spec => []LiveIsRunning
<1>1. ASSUME TypeOK, FullInv, ShownInv, Packages # {}, Open, mport = "own", ~dropped, NEW p \in Packages
      PROVE  Cardinality({i \in DOMAIN Coming.live : Coming.live[i] = p})
                 = IF job[p] \in {"run", "failed"} THEN 1 ELSE 0
    <2>1. Follows(Coming, Len(queue))
        BY <1>1, ComingLists
    <2>2. PICK s \in Seq(Packages) : s = Coming.live
        BY <2>1 DEF Follows
    <2>3. /\ Once(s)
          /\ Lists(s, p) <=> (Lists(live, p) \/ Waits("begin", p)) /\ ~Waits("end", p)
        BY <2>1, <2>2 DEF Follows, Before, Waits
    <2>4. /\ Waits("begin", p) => job[p] # "wait"
          /\ Waits("end", p) => job[p] = "built"
        BY <1>1, MessageFacts DEF TypeOK, FullInv, SaidInv, AllSaid, Said, Waits
    <2>5. Lists(live, p) => job[p] # "wait"
        BY <1>1 DEF FullInv, LiveInv, Lists
    <2>6. /\ Waits("begin", p) /\ job[p] = "built" => Waits("end", p)
          /\ Lists(live, p) /\ job[p] = "built" => Waits("end", p)
        BY <1>1 DEF FullInv, BarInv, Lists
    <2>7. job[p] \in {"run", "failed"} => Waits("begin", p) \/ Lists(live, p)
        BY <1>1 DEF ShownInv
    <2>8. job[p] \in {"wait", "run", "built", "failed"}
        BY <1>1 DEF TypeOK
    <2>9. Lists(s, p) <=> job[p] \in {"run", "failed"}
        BY <2>3, <2>4, <2>5, <2>6, <2>7, <2>8
    <2> DEFINE at == {i \in DOMAIN s : s[i] = p}
    <2>10. CASE Lists(s, p)
        <3>1. PICK i \in 1 .. Len(s) : s[i] = p
            BY <2>10 DEF Lists
        <3>2. at = {i}
            BY <2>3, <3>1 DEF Once
        <3>3. Cardinality(at) = 1
            BY <3>2, FS_Singleton
        <3>4. QED
            BY <2>2, <2>9, <2>10, <3>3
    <2>11. CASE ~Lists(s, p)
        <3>1. at = {}
            BY <2>11 DEF Lists
        <3>2. Cardinality(at) = 0
            BY <3>1, FS_EmptySet
        <3>3. QED
            BY <2>2, <2>9, <2>11, <3>2
    <2>12. QED
        BY <2>10, <2>11
<1>2. TypeOK /\ FullInv /\ ShownInv /\ Packages # {} => LiveIsRunning
    BY <1>1 DEF LiveIsRunning
<1>3. CASE Packages = {}
    <2>1. LiveIsRunning
        BY <1>3 DEF LiveIsRunning
    <2>2. QED
        BY <2>1, PTL
<1>4. CASE Packages # {}
    BY <1>2, <1>4, FullInvariant, ShownInvariant, PTL
<1>5. QED
    BY <1>3, <1>4
==============================================================================
