---------------------------- MODULE ServerProofs ----------------------------
(***************************************************************************)
(* Safety of Server for any number of workers and requests: what is freed  *)
(* is not used, what is logged before the end is printed, and no request   *)
(* that was read is lost.                                                  *)
(*                                                                         *)
(* Inv is inductive.  Its parts are stated together, and each is kept by   *)
(* each thread in a lemma of its own: what the shutdown frees depends on   *)
(* what has stopped before, and that on the types.                         *)
(***************************************************************************)
EXTENDS Server, TLAPS

USE DEF Families, Modules, Queueing, Allocating

\* The places of graceful_shutdown behind the join of the receiving thread, behind the
\* release of the pool and behind the join of the poller.
Joined == {"drain", "free", "cancelPoller", "joinPoller", "kill", "returned"}
Drained == {"free", "cancelPoller", "joinPoller", "kill", "returned"}
Stopped == {"kill", "returned"}

\* Who works on a message or on a request has one.
HaveJobs ==
    /\ main \in {"print", "free"} => message \in Messages
    /\ handler.pc \in {"log", "push"} => handler.job \in Requests
    /\ \A w \in Workers : worker[w].pc # "idle" => worker[w].job \in Requests

Types == TypeOK /\ HaveJobs

\* Each thread is gone before anything it uses is released.
ThreadsGone ==
    /\ shutdown \in Joined => handler.pc = "dead"
    /\ shutdown \in Drained => /\ queue = <<>> \/ Workers = {}
                               /\ \A w \in Workers : worker[w].pc = "idle"
    /\ shutdown \in Stopped => poller = "dead"

\* So nothing that was released is used.
ReleasedInOrder ==
    /\ freed \cap {"pool", "id", "cache"} # {} => shutdown \in Drained
    /\ "rules" \in freed => shutdown \in Stopped
    /\ "log" \in freed => main = "returned"
    /\ status # "undefined"

\* The message that stops the logger is logged by a shutdown that then returns, when no
\* thread is left that could log another, unless main itself has yet to log the start.
StopIsLast ==
    /\ main = "start" => shutdown = "none"
    /\ main \in {"greet", "greeting"} => shutdown # "returned" \/ caught = "greet"
    /\ \A i \in 1 .. Len(logQueue) :
           logQueue[i].level = "STOP" =>
               shutdown = "returned" /\ (i = Len(logQueue) \/ caught = "greet")
    /\ main \in {"print", "free"} /\ message.level = "STOP" =>
           shutdown = "returned" /\ (logQueue = <<>> \/ caught = "greet")
    /\ main = "returned" => shutdown = "returned" /\ (logQueue = <<>> \/ caught = "greet")
    /\ status = "ended" => main = "returned"

\* While the shutdown runs main stays where SIGINT found it, and with the mutex of the
\* log queue the shutdown does not return.
StuckInTheQueue ==
    /\ shutdown \notin {"none", "returned"} => main = caught
    /\ caught \in Queueing => shutdown \notin {"none", "returned"}

Inv == Types /\ ThreadsGone /\ ReleasedInOrder /\ StopIsLast /\ StuckInTheQueue

-----------------------------------------------------------------------------
\* Three descriptors are in use at most, so one of four is free.
LEMMA LowestFreeType ==
    ASSUME fd \in [{"v4", "v6", "rules"} -> Int \cup {NULL}]
    PROVE  LowestFree \in Int
<1> DEFINE P(d) == d \notin InUse /\ \A e \in FirstFd .. d - 1 : e \in InUse
<1>1. FirstFd \in Int
  BY ServerAssumption
<1>2. InUse = {fd["v4"], fd["v6"], fd["rules"]}
  BY DEF InUse
<1>3. \E d \in FirstFd .. FirstFd + 3 : P(d)
  <2>1. CASE FirstFd \notin InUse
    BY <1>1, <2>1
  <2>2. CASE FirstFd \in InUse /\ FirstFd + 1 \notin InUse
    <3>1. P(FirstFd + 1)
      BY <1>1, <2>2
    <3> QED
      BY <1>1, <3>1
  <2>3. CASE FirstFd \in InUse /\ FirstFd + 1 \in InUse /\ FirstFd + 2 \notin InUse
    <3>1. P(FirstFd + 2)
      BY <1>1, <2>3
    <3> QED
      BY <1>1, <3>1
  <2>4. CASE FirstFd \in InUse /\ FirstFd + 1 \in InUse /\ FirstFd + 2 \in InUse
    <3>1. FirstFd + 3 \notin InUse
      BY <1>1, <1>2, <2>4
    <3>2. P(FirstFd + 3)
      BY <1>1, <2>4, <3>1
    <3> QED
      BY <1>1, <3>2
  <2> QED
    BY <2>1, <2>2, <2>3, <2>4
<1>4. LowestFree \in FirstFd .. FirstFd + 3
  BY <1>3 DEF LowestFree
<1> QED
  BY <1>1, <1>4

LEMMA MainKeeps ==
    ASSUME Inv, Main
    PROVE  Inv'
<1> USE DEF Inv, MainRuns, Running, notMain, mainVars, shutdownVars, handlerVars,
        poolVars, logVars
<1>1. CASE Start
  BY <1>1 DEF Start, Types, TypeOK, HaveJobs, ThreadsGone, ReleasedInOrder,
     StopIsLast, StuckInTheQueue, Joined, Drained, Stopped
<1>2. CASE LockQueue
  BY <1>2 DEF LockQueue, Types, TypeOK, HaveJobs, ThreadsGone, ReleasedInOrder,
     StopIsLast, StuckInTheQueue, Joined, Drained, Stopped
<1>3. CASE WaitForMessage
  BY <1>3 DEF WaitForMessage, Types, TypeOK, HaveJobs, ThreadsGone, ReleasedInOrder,
     StopIsLast, StuckInTheQueue, Joined, Drained, Stopped
<1>4. CASE TakeMessage
  <2> USE <1>4 DEF TakeMessage
  <2>1. Types'
    BY DEF Types, TypeOK, HaveJobs, StopIsLast
  <2>2. ThreadsGone'
    BY DEF Types, TypeOK, ThreadsGone, Joined, Drained, Stopped
  <2>3. ReleasedInOrder'
    BY DEF Types, TypeOK, ThreadsGone, ReleasedInOrder, StopIsLast, Joined, Drained,
       Stopped
  <2>4. StopIsLast'
    BY DEF Types, TypeOK, HaveJobs, ThreadsGone, StopIsLast, Joined, Drained, Stopped,
       Messages
  <2>5. StuckInTheQueue'
    BY DEF Types, TypeOK, StuckInTheQueue, LogMutexFree
  <2> QED
    BY <2>1, <2>2, <2>3, <2>4, <2>5
<1>5. CASE PrintMessage
  <2> USE <1>5 DEF PrintMessage
  <2>1. Types'
    BY DEF Types, TypeOK, HaveJobs, StopIsLast
  <2>2. ThreadsGone'
    BY DEF Types, TypeOK, ThreadsGone, Joined, Drained, Stopped
  <2>3. ReleasedInOrder'
    BY DEF Types, TypeOK, ThreadsGone, ReleasedInOrder, StopIsLast, Joined, Drained,
       Stopped
  <2>4. StopIsLast'
    BY DEF Types, TypeOK, HaveJobs, ThreadsGone, StopIsLast, Joined, Drained, Stopped,
       Messages
  <2>5. StuckInTheQueue'
    BY DEF Types, TypeOK, StuckInTheQueue, LogMutexFree
  <2> QED
    BY <2>1, <2>2, <2>3, <2>4, <2>5
<1>6. CASE FreeMessage
  <2> USE <1>6 DEF FreeMessage
  <2>1. Types'
    <3>1. message \in Messages /\ freed' \subseteq Modules
      BY DEF Types, TypeOK, HaveJobs
    <3>2. main' \in {"pop", "returned"} /\ message' = NULL
      OBVIOUS
    <3> QED
      BY <3>1, <3>2 DEF Types, TypeOK, HaveJobs
  <2>2. ThreadsGone'
    BY DEF Types, TypeOK, ThreadsGone, Joined, Drained, Stopped
  <2>3. ReleasedInOrder'
    BY DEF Types, TypeOK, ThreadsGone, ReleasedInOrder, StopIsLast, Joined, Drained,
       Stopped
  <2>4. StopIsLast'
    BY DEF Types, TypeOK, HaveJobs, ThreadsGone, StopIsLast, Joined, Drained, Stopped,
       Messages
  <2>5. StuckInTheQueue'
    BY DEF Types, TypeOK, StuckInTheQueue, LogMutexFree
  <2> QED
    BY <2>1, <2>2, <2>3, <2>4, <2>5
<1>7. CASE Greet
  <2> USE <1>7 DEF Greet, Msg
  <2>1. Types'
    BY DEF Types, TypeOK, HaveJobs, StopIsLast, Messages
  <2>2. ThreadsGone'
    BY DEF Types, TypeOK, ThreadsGone, Joined, Drained, Stopped
  <2>3. ReleasedInOrder'
    BY DEF Types, TypeOK, ThreadsGone, ReleasedInOrder, StopIsLast, Joined, Drained,
       Stopped
  <2>4. StopIsLast'
    BY DEF Types, TypeOK, HaveJobs, ThreadsGone, StopIsLast, Joined, Drained, Stopped,
       Messages
  <2>5. StuckInTheQueue'
    BY DEF Types, TypeOK, StuckInTheQueue, LogMutexFree
  <2> QED
    BY <2>1, <2>2, <2>3, <2>4, <2>5
<1>8. CASE End
  BY <1>8 DEF End, Types, TypeOK, HaveJobs, ThreadsGone, ReleasedInOrder, StopIsLast,
     StuckInTheQueue, Joined, Drained, Stopped
<1> QED
  BY <1>1, <1>2, <1>3, <1>4, <1>5, <1>6, <1>7, <1>8 DEF Main

LEMMA ShutdownKeeps ==
    ASSUME Inv, Interrupt \/ Shutdown
    PROVE  Inv'
<1> USE DEF Inv, ShutdownStep, Running, mainVars, handlerVars, poolVars, logVars
<1>1. CASE Interrupt
  BY <1>1 DEF Interrupt, Types, TypeOK, HaveJobs, ThreadsGone, ReleasedInOrder,
     StopIsLast, StuckInTheQueue, Joined, Drained, Stopped
<1>2. CASE CancelHandler
  BY <1>2 DEF CancelHandler, Types, TypeOK, HaveJobs, ThreadsGone, ReleasedInOrder,
     StopIsLast, StuckInTheQueue, Joined, Drained, Stopped
<1>3. CASE JoinHandler
  BY <1>3 DEF JoinHandler, Types, TypeOK, HaveJobs, ThreadsGone, ReleasedInOrder,
     StopIsLast, StuckInTheQueue, Joined, Drained, Stopped
<1>4. CASE DrainPool
  BY <1>4 DEF DrainPool, Types, TypeOK, HaveJobs, ThreadsGone, ReleasedInOrder,
     StopIsLast, StuckInTheQueue, Joined, Drained, Stopped
<1>5. CASE FreeIdAndCache
  BY <1>5 DEF FreeIdAndCache, Types, TypeOK, HaveJobs, ThreadsGone, ReleasedInOrder,
     StopIsLast, StuckInTheQueue, Joined, Drained, Stopped
<1>6. CASE CancelPoller
  BY <1>6 DEF CancelPoller, Types, TypeOK, HaveJobs, ThreadsGone, ReleasedInOrder,
     StopIsLast, StuckInTheQueue, Joined, Drained, Stopped
<1>7. CASE FreeRules
  BY <1>7 DEF FreeRules, Types, TypeOK, HaveJobs, ThreadsGone, ReleasedInOrder,
     StopIsLast, StuckInTheQueue, Joined, Drained, Stopped
<1>8. CASE KillLogger
  <2> USE <1>8 DEF KillLogger, Log, Msg, LogMutexFree
  <2>1. Types'
    BY DEF Types, TypeOK, HaveJobs, StopIsLast, Messages
  <2>2. ThreadsGone'
    BY DEF Types, TypeOK, ThreadsGone, Joined, Drained, Stopped
  <2>3. ReleasedInOrder'
    BY DEF Types, TypeOK, ThreadsGone, ReleasedInOrder, StopIsLast, Joined, Drained,
       Stopped
  <2>4. StopIsLast'
    BY DEF Types, TypeOK, HaveJobs, ThreadsGone, StopIsLast, StuckInTheQueue, Joined,
       Drained, Stopped, Messages
  <2>5. StuckInTheQueue'
    BY DEF Types, TypeOK, StuckInTheQueue, LogMutexFree
  <2> QED
    BY <2>1, <2>2, <2>3, <2>4, <2>5
<1>9. CASE AllocateAgain
  BY <1>9 DEF AllocateAgain, shutdownVars, Types, TypeOK, HaveJobs, ThreadsGone,
     ReleasedInOrder, StopIsLast, StuckInTheQueue, Joined, Drained, Stopped
<1> QED
  BY <1>1, <1>2, <1>3, <1>4, <1>5, <1>6, <1>7, <1>8, <1>9 DEF Shutdown

LEMMA HandlerKeeps ==
    ASSUME Inv, Handler
    PROVE  Inv'
<1> USE DEF Inv, Running, notHandler, mainVars, shutdownVars, handlerVars
<1>1. CASE OpenSocket4
  <2> USE <1>1 DEF OpenSocket4, Opened, At
  <2>1. Types'
    BY LowestFreeType DEF Types, TypeOK, HaveJobs, StopIsLast
  <2>2. ThreadsGone'
    BY DEF Types, TypeOK, ThreadsGone, Joined, Drained, Stopped
  <2>3. ReleasedInOrder'
    BY DEF Types, TypeOK, ThreadsGone, ReleasedInOrder, StopIsLast, Joined, Drained,
       Stopped
  <2>4. StopIsLast'
    BY DEF Types, TypeOK, HaveJobs, ThreadsGone, StopIsLast, Joined, Drained, Stopped,
       Messages
  <2>5. StuckInTheQueue'
    BY DEF Types, TypeOK, StuckInTheQueue, LogMutexFree
  <2> QED
    BY <2>1, <2>2, <2>3, <2>4, <2>5
<1>2. CASE OpenSocket6
  <2> USE <1>2 DEF OpenSocket6, Opened, At
  <2>1. Types'
    BY LowestFreeType DEF Types, TypeOK, HaveJobs, StopIsLast
  <2>2. ThreadsGone'
    BY DEF Types, TypeOK, ThreadsGone, Joined, Drained, Stopped
  <2>3. ReleasedInOrder'
    BY DEF Types, TypeOK, ThreadsGone, ReleasedInOrder, StopIsLast, Joined, Drained,
       Stopped
  <2>4. StopIsLast'
    BY DEF Types, TypeOK, HaveJobs, ThreadsGone, StopIsLast, Joined, Drained, Stopped,
       Messages
  <2>5. StuckInTheQueue'
    BY DEF Types, TypeOK, StuckInTheQueue, LogMutexFree
  <2> QED
    BY <2>1, <2>2, <2>3, <2>4, <2>5
<1>3. CASE Bind
  BY <1>3 DEF Bind, At, Types, TypeOK, HaveJobs, ThreadsGone, ReleasedInOrder,
     StopIsLast, StuckInTheQueue, Joined, Drained, Stopped
<1>4. CASE LogFatal
  <2> USE <1>4 DEF LogFatal, Log, Msg, Uses, At
  <2>1. Types'
    BY DEF Types, TypeOK, HaveJobs, StopIsLast, Messages
  <2>2. ThreadsGone'
    BY DEF Types, TypeOK, ThreadsGone, Joined, Drained, Stopped
  <2>3. ReleasedInOrder'
    BY DEF Types, TypeOK, ThreadsGone, ReleasedInOrder, StopIsLast, Joined, Drained,
       Stopped
  <2>4. StopIsLast'
    BY DEF Types, TypeOK, HaveJobs, ThreadsGone, StopIsLast, Joined, Drained, Stopped,
       Messages
  <2>5. StuckInTheQueue'
    BY DEF Types, TypeOK, StuckInTheQueue, LogMutexFree
  <2> QED
    BY <2>1, <2>2, <2>3, <2>4, <2>5
<1>5. CASE Exit
  BY <1>5 DEF Exit, Types, TypeOK, HaveJobs, ThreadsGone, ReleasedInOrder, StopIsLast,
     StuckInTheQueue, Joined, Drained, Stopped
<1>6. CASE Select
  BY <1>6 DEF Select, Watched, At, Types, TypeOK, HaveJobs, ThreadsGone,
     ReleasedInOrder, StopIsLast, StuckInTheQueue, Joined, Drained, Stopped
<1>7. CASE \E f \in Families, r \in Requests : Receive(f, r)
  BY <1>7 DEF Receive, Types, TypeOK, HaveJobs, ThreadsGone, ReleasedInOrder,
     StopIsLast, StuckInTheQueue, Joined, Drained, Stopped
<1>8. CASE LogReceived
  <2> USE <1>8 DEF LogReceived, Log, Msg, Uses
  <2>1. Types'
    BY DEF Types, TypeOK, HaveJobs, Messages
  <2>2. ThreadsGone'
    BY DEF Types, TypeOK, ThreadsGone, Joined, Drained, Stopped
  <2>3. ReleasedInOrder'
    BY DEF Types, TypeOK, ThreadsGone, ReleasedInOrder, StopIsLast, Joined, Drained,
       Stopped
  <2>4. StopIsLast'
    BY DEF Types, TypeOK, HaveJobs, ThreadsGone, StopIsLast, Joined, Drained, Stopped,
       Messages
  <2>5. StuckInTheQueue'
    BY DEF Types, TypeOK, StuckInTheQueue, LogMutexFree
  <2> QED
    BY <2>1, <2>2, <2>3, <2>4, <2>5
<1>9. CASE Push
  <2> USE <1>9 DEF Push, Uses, At
  <2>1. Types'
    BY DEF Types, TypeOK, HaveJobs, StopIsLast
  <2>2. ThreadsGone'
    BY DEF Types, TypeOK, ThreadsGone, Joined, Drained, Stopped
  <2>3. ReleasedInOrder'
    BY DEF Types, TypeOK, ThreadsGone, ReleasedInOrder, StopIsLast, Joined, Drained,
       Stopped
  <2>4. StopIsLast'
    BY DEF Types, TypeOK, HaveJobs, ThreadsGone, StopIsLast, Joined, Drained, Stopped,
       Messages
  <2>5. StuckInTheQueue'
    BY DEF Types, TypeOK, StuckInTheQueue, LogMutexFree
  <2> QED
    BY <2>1, <2>2, <2>3, <2>4, <2>5
<1>10. CASE HandlerDies
  BY <1>10 DEF HandlerDies, At, Types, TypeOK, HaveJobs, ThreadsGone, ReleasedInOrder,
     StopIsLast, StuckInTheQueue, Joined, Drained, Stopped
<1> QED
  BY <1>1, <1>2, <1>3, <1>4, <1>5, <1>6, <1>7, <1>8, <1>9, <1>10 DEF Handler

LEMMA WorkerKeeps ==
    ASSUME Inv, NEW w \in Workers, Take(w) \/ LogTaken(w) \/ Resolve(w)
    PROVE  Inv'
<1> USE DEF Inv, Running, notWorker, mainVars, shutdownVars, handlerVars
<1>1. CASE Take(w)
  <2> USE <1>1 DEF Take, Uses
  <2>1. Types'
    BY DEF Types, TypeOK, HaveJobs, StopIsLast
  <2>2. ThreadsGone'
    BY DEF Types, TypeOK, ThreadsGone, Joined, Drained, Stopped
  <2>3. ReleasedInOrder'
    BY DEF Types, TypeOK, ThreadsGone, ReleasedInOrder, StopIsLast, Joined, Drained,
       Stopped
  <2>4. StopIsLast'
    BY DEF Types, TypeOK, HaveJobs, ThreadsGone, StopIsLast, Joined, Drained, Stopped,
       Messages
  <2>5. StuckInTheQueue'
    BY DEF Types, TypeOK, StuckInTheQueue, LogMutexFree
  <2> QED
    BY <2>1, <2>2, <2>3, <2>4, <2>5
<1>2. CASE LogTaken(w)
  <2> USE <1>2 DEF LogTaken, Log, Msg, Uses
  <2>1. Types'
    BY DEF Types, TypeOK, HaveJobs, Messages
  <2>2. ThreadsGone'
    BY DEF Types, TypeOK, ThreadsGone, Joined, Drained, Stopped
  <2>3. ReleasedInOrder'
    BY DEF Types, TypeOK, ThreadsGone, ReleasedInOrder, StopIsLast, Joined, Drained,
       Stopped
  <2>4. StopIsLast'
    BY DEF Types, TypeOK, HaveJobs, ThreadsGone, StopIsLast, Joined, Drained, Stopped,
       Messages
  <2>5. StuckInTheQueue'
    BY DEF Types, TypeOK, StuckInTheQueue, LogMutexFree
  <2> QED
    BY <2>1, <2>2, <2>3, <2>4, <2>5
<1>3. CASE Resolve(w)
  <2> USE <1>3 DEF Resolve, Uses, At
  <2>1. Types'
    BY DEF Types, TypeOK, HaveJobs, StopIsLast
  <2>2. ThreadsGone'
    BY DEF Types, TypeOK, ThreadsGone, Joined, Drained, Stopped
  <2>3. ReleasedInOrder'
    BY DEF Types, TypeOK, ThreadsGone, ReleasedInOrder, StopIsLast, Joined, Drained,
       Stopped
  <2>4. StopIsLast'
    BY DEF Types, TypeOK, HaveJobs, ThreadsGone, StopIsLast, Joined, Drained, Stopped,
       Messages
  <2>5. StuckInTheQueue'
    BY DEF Types, TypeOK, StuckInTheQueue, LogMutexFree
  <2> QED
    BY <2>1, <2>2, <2>3, <2>4, <2>5
<1> QED
  BY <1>1, <1>2, <1>3

LEMMA PollerKeeps ==
    ASSUME Inv, Poller
    PROVE  Inv'
<1> USE DEF Inv, Running, notPoller, mainVars, shutdownVars, handlerVars, poolVars
<1>1. CASE OpenRules
  <2> USE <1>1 DEF OpenRules, Opened
  <2>1. Types'
    BY LowestFreeType DEF Types, TypeOK, HaveJobs, StopIsLast
  <2>2. ThreadsGone'
    BY DEF Types, TypeOK, ThreadsGone, Joined, Drained, Stopped
  <2>3. ReleasedInOrder'
    BY DEF Types, TypeOK, ThreadsGone, ReleasedInOrder, StopIsLast, Joined, Drained,
       Stopped
  <2>4. StopIsLast'
    BY DEF Types, TypeOK, HaveJobs, ThreadsGone, StopIsLast, Joined, Drained, Stopped,
       Messages
  <2>5. StuckInTheQueue'
    BY DEF Types, TypeOK, StuckInTheQueue, LogMutexFree
  <2> QED
    BY <2>1, <2>2, <2>3, <2>4, <2>5
<1>2. CASE ReadRules
  BY <1>2 DEF ReadRules, Uses, Types, TypeOK, HaveJobs, ThreadsGone, ReleasedInOrder,
     StopIsLast, StuckInTheQueue, Joined, Drained, Stopped
<1>3. CASE ReadBadLine
  <2> USE <1>3 DEF ReadBadLine, Log, Msg, Uses
  <2>1. Types'
    BY DEF Types, TypeOK, HaveJobs, StopIsLast, Messages
  <2>2. ThreadsGone'
    BY DEF Types, TypeOK, ThreadsGone, Joined, Drained, Stopped
  <2>3. ReleasedInOrder'
    BY DEF Types, TypeOK, ThreadsGone, ReleasedInOrder, StopIsLast, Joined, Drained,
       Stopped
  <2>4. StopIsLast'
    BY DEF Types, TypeOK, HaveJobs, ThreadsGone, StopIsLast, Joined, Drained, Stopped,
       Messages
  <2>5. StuckInTheQueue'
    BY DEF Types, TypeOK, StuckInTheQueue, LogMutexFree
  <2> QED
    BY <2>1, <2>2, <2>3, <2>4, <2>5
<1>4. CASE PollerDies
  BY <1>4 DEF PollerDies, Types, TypeOK, HaveJobs, ThreadsGone, ReleasedInOrder,
     StopIsLast, StuckInTheQueue, Joined, Drained, Stopped
<1> QED
  BY <1>1, <1>2, <1>3, <1>4 DEF Poller

LEMMA ClientKeeps ==
    ASSUME Inv, NEW r \in Requests, SendDatagram(r)
    PROVE  Inv'
<1> USE DEF Inv, SendDatagram, Running, mainVars, shutdownVars, handlerVars, poolVars, logVars
<1>1. Types'
  <2>1. socket' \in [Families -> SUBSET Requests]
    BY DEF Types, TypeOK
  <2> QED
    BY <2>1 DEF Types, TypeOK, HaveJobs
<1>2. ThreadsGone'
  BY DEF Types, TypeOK, ThreadsGone, Joined, Drained, Stopped
<1>3. ReleasedInOrder'
  BY DEF Types, TypeOK, ThreadsGone, ReleasedInOrder, StopIsLast, Joined, Drained, Stopped
<1>4. StopIsLast'
  BY DEF Types, TypeOK, HaveJobs, ThreadsGone, StopIsLast, Joined, Drained, Stopped, Messages
<1>5. StuckInTheQueue'
  BY DEF Types, TypeOK, StuckInTheQueue, LogMutexFree
<1> QED
  BY <1>1, <1>2, <1>3, <1>4, <1>5

-----------------------------------------------------------------------------
LEMMA InitHolds == Init => Inv
<1> SUFFICES ASSUME Init
             PROVE  Inv
  OBVIOUS
<1> USE DEF Init, At
<1>1. Types
  BY DEF Types, TypeOK, HaveJobs
<1>2. ThreadsGone /\ ReleasedInOrder /\ StopIsLast
  BY DEF ThreadsGone, ReleasedInOrder, StopIsLast, Joined, Drained, Stopped
<1>3. NULL \notin Queueing
  BY ServerAssumption
<1>4. StuckInTheQueue
  BY <1>3 DEF StuckInTheQueue
<1> QED
  BY <1>1, <1>2, <1>4 DEF Inv

LEMMA NextKeeps == Inv /\ [Next]_vars => Inv'
<1> SUFFICES ASSUME Inv, [Next]_vars
             PROVE  Inv'
  OBVIOUS
<1>1. CASE Main \/ Interrupt \/ Shutdown \/ Handler \/ Poller
  BY <1>1, MainKeeps, ShutdownKeeps, HandlerKeeps, PollerKeeps
<1>2. CASE \E w \in Workers : Take(w) \/ LogTaken(w) \/ Resolve(w)
  BY <1>2, WorkerKeeps
<1>3. CASE \E r \in Requests : SendDatagram(r)
  BY <1>3, ClientKeeps
<1>4. CASE UNCHANGED vars
  BY <1>4 DEF vars, Inv, Types, TypeOK, HaveJobs, ThreadsGone, ReleasedInOrder, StopIsLast,
              StuckInTheQueue
<1> QED
  BY <1>1, <1>2, <1>3, <1>4 DEF Next

THEOREM InvHolds == Spec => []Inv
BY InitHolds, NextKeeps, PTL DEF Spec

THEOREM TypesHold == Spec => []TypeOK
<1>1. Inv => TypeOK
  BY DEF Inv, Types
<1> QED
  BY <1>1, InvHolds, PTL

THEOREM FreedIsNotUsed == Spec => []NothingUsedAfterFree
<1>1. Inv => NothingUsedAfterFree
  BY DEF Inv, ReleasedInOrder, NothingUsedAfterFree
<1> QED
  BY <1>1, InvHolds, PTL

THEOREM LogIsPrinted == Spec => []LogIsDrained
<1>1. Inv => LogIsDrained
  BY DEF Inv, StopIsLast, LogIsDrained
<1> QED
  BY <1>1, InvHolds, PTL

THEOREM SignalInTheQueue == Spec => []CaughtInTheQueueNeverEnds
<1>1. Inv => CaughtInTheQueueNeverEnds
  BY DEF Inv, StopIsLast, StuckInTheQueue, CaughtInTheQueueNeverEnds
<1> QED
  BY <1>1, InvHolds, PTL

-----------------------------------------------------------------------------
(***************************************************************************)
(* What becomes of a request: once read it is finished before the process  *)
(* ends, and it is logged in the order in which things happened.           *)
(***************************************************************************)
\* A request is always somewhere.
Placed(r) ==
    \/ r \in unsent \cup finished \cup socket["v4"] \cup socket["v6"]
    \/ handler.pc \in {"log", "push"} /\ handler.job = r
    \/ \E i \in 1 .. Len(queue) : queue[i] = r
    \/ \E w \in Workers : worker[w].pc # "idle" /\ worker[w].job = r

NoneLost == \A r \in Requests : Placed(r)

Received(r) == Msg("RECVREQ", r)
Queried(r) == Msg("QRYDNS", r)

\* That r was received is printed, or about to be: before what waits in log_queue.
AtPrinter(r) ==
    \/ Received(r) \in printed
    \/ main = "print" /\ message = Received(r)

Logged(r) == AtPrinter(r) \/ \E i \in 1 .. Len(logQueue) : logQueue[i] = Received(r)

\* From the handler's call of debug on r is logged...
HeldIsLogged(r) ==
    /\ handler.pc = "push" /\ handler.job = r => Logged(r)
    /\ \A i \in 1 .. Len(queue) : queue[i] = r => Logged(r)
    /\ \A w \in Workers : worker[w].pc = "log" /\ worker[w].job = r => Logged(r)

\* ... ahead of what a worker logs of it.
ReceivedFirst(r) ==
    /\ \A i \in 1 .. Len(logQueue) :
           logQueue[i] = Queried(r) =>
               AtPrinter(r) \/ \E j \in 1 .. i - 1 : logQueue[j] = Received(r)
    /\ main = "print" /\ message = Queried(r) => Received(r) \in printed
    /\ Queried(r) \in printed => Received(r) \in printed

Ordered == \A r \in Requests : HeldIsLogged(r) /\ ReceivedFirst(r)

-----------------------------------------------------------------------------
LEMMA StepKeepsPlace ==
    ASSUME Inv, NoneLost, [Next]_vars
    PROVE  NoneLost'
<1> SUFFICES ASSUME NEW r \in Requests, Placed(r)
             PROVE  Placed(r)'
  BY DEF NoneLost
<1> USE DEF Placed, Inv, Types, TypeOK, HaveJobs
<1>1. CASE UNCHANGED <<handler, socket, unsent, queue, worker, finished>>
  BY <1>1
<1>2. CASE Main \/ Poller
  BY <1>1, <1>2
     DEF Main, Start, Greet, LockQueue, WaitForMessage, TakeMessage, PrintMessage,
         FreeMessage, End, notMain, handlerVars, poolVars, Poller, OpenRules, ReadRules, ReadBadLine, PollerDies,
         notPoller
<1>3. CASE Interrupt \/ Shutdown
  BY <1>1, <1>3
     DEF Interrupt, Shutdown, AllocateAgain, CancelHandler, JoinHandler, DrainPool,
         FreeIdAndCache, CancelPoller, FreeRules, KillLogger, ShutdownStep, handlerVars,
         poolVars
<1>4. CASE Handler
  <2> USE DEF notHandler, handlerVars, At
  <2>1. CASE OpenSocket4 \/ OpenSocket6 \/ Bind \/ LogFatal \/ Exit \/ Select \/ HandlerDies
    BY <2>1 DEF OpenSocket4, OpenSocket6, Bind, LogFatal, Exit, Select, HandlerDies
  <2>2. CASE \E f \in Families, q \in Requests : Receive(f, q)
    BY <2>2 DEF Receive
  <2>3. CASE LogReceived
    BY <2>3 DEF LogReceived
  <2>4. CASE Push
    BY <2>4 DEF Push
  <2> QED
    BY <1>4, <2>1, <2>2, <2>3, <2>4 DEF Handler
<1>5. CASE \E w \in Workers : Take(w) \/ LogTaken(w) \/ Resolve(w)
  <2> PICK w \in Workers : Take(w) \/ LogTaken(w) \/ Resolve(w)
    BY <1>5
  <2> USE DEF notWorker, handlerVars, At
  <2>1. CASE Take(w)
    <3>1. /\ Len(queue') = Len(queue) - 1 /\ queue # <<>>
          /\ \A i \in 1 .. Len(queue') : queue'[i] = queue[i + 1]
          /\ worker[w].pc = "idle" /\ worker'[w].pc # "idle" /\ worker'[w].job = queue[1]
          /\ \A v \in Workers \ {w} : worker'[v] = worker[v]
          /\ UNCHANGED <<unsent, finished, socket, handler>>
      BY <2>1 DEF Take
    <3>2. \A i \in 1 .. Len(queue) :
              i = 1 \/ (i - 1 \in 1 .. Len(queue') /\ queue'[i - 1] = queue[i])
      BY <3>1
    <3>3. CASE \E i \in 1 .. Len(queue) : queue[i] = r
      <4>1. PICK i \in 1 .. Len(queue) : queue[i] = r
        BY <3>3
      <4> QED
        BY <3>1, <3>2, <4>1
    <3>4. CASE \E v \in Workers : worker[v].pc # "idle" /\ worker[v].job = r
      BY <3>1, <3>4
    <3> QED
      BY <3>1, <3>3, <3>4
  <2>2. CASE LogTaken(w)
    BY <2>2 DEF LogTaken
  <2>3. CASE Resolve(w)
    BY <2>3 DEF Resolve
  <2> QED
    BY <2>1, <2>2, <2>3
<1>6. CASE \E q \in Requests : SendDatagram(q)
  <2> PICK q \in Requests : SendDatagram(q)
    BY <1>6
  <2>1. Via[q] \in {"v4", "v6"}
    BY ServerAssumption
  <2> QED
    BY <2>1 DEF SendDatagram, handlerVars, poolVars
<1> QED
  BY <1>1, <1>2, <1>3, <1>4, <1>5, <1>6 DEF Next, vars

-----------------------------------------------------------------------------
LEMMA MessagesDiffer ==
    /\ \A r, q \in Requests : /\ Received(r) # Queried(q)
                              /\ Received(r) = Received(q) => r = q
                              /\ Queried(r) = Queried(q) => r = q
    /\ \A r \in Requests, l \in {"INFO", "ERROR", "FATAL", "STOP"} :
           Msg(l, NULL) # Received(r) /\ Msg(l, NULL) # Queried(r)
    /\ \A r \in Requests : Received(r).about = r /\ Queried(r).about = r
    /\ \A r \in Requests : Received(r) \in Messages /\ Queried(r) \in Messages
    /\ \A l \in {"INFO", "ERROR", "FATAL", "STOP"} : Msg(l, NULL) \in Messages
BY ServerAssumption DEF Received, Queried, Msg, Messages

\* A message more keeps the order, if it is not the query of a request that was not
\* logged.
LEMMA AppendKeepsOrder ==
    ASSUME logQueue \in Seq(Messages), NEW m \in Messages,
           logQueue' = Append(logQueue, m),
           main' = "print" <=> main = "print",
           message' = message, printed' = printed,
           NEW r \in Requests, ReceivedFirst(r), m = Queried(r) => Logged(r)
    PROVE  /\ Logged(r) => Logged(r)'
           /\ m = Received(r) => Logged(r)'
           /\ ReceivedFirst(r)'
<1>1. Len(logQueue') = Len(logQueue) + 1 /\ Len(logQueue) \in Nat
  OBVIOUS
<1>2. \A i \in 1 .. Len(logQueue) : logQueue'[i] = logQueue[i]
  OBVIOUS
<1>3. logQueue'[Len(logQueue) + 1] = m
  OBVIOUS
<1>4. AtPrinter(r) => AtPrinter(r)'
  BY DEF AtPrinter
<1>5. Logged(r) => Logged(r)'
  BY <1>1, <1>2, <1>4 DEF Logged
<1>6. m = Received(r) => Logged(r)'
  BY <1>1, <1>3 DEF Logged
<1>7. ASSUME NEW i \in 1 .. Len(logQueue'), logQueue'[i] = Queried(r)
      PROVE  AtPrinter(r)' \/ \E j \in 1 .. i - 1 : logQueue'[j] = Received(r)
  <2>1. CASE i \in 1 .. Len(logQueue)
    <3>1. AtPrinter(r) \/ \E j \in 1 .. i - 1 : logQueue[j] = Received(r)
      BY <1>2, <1>7, <2>1 DEF ReceivedFirst
    <3> QED
      BY <1>1, <1>2, <1>4, <2>1, <3>1
  <2>2. CASE i = Len(logQueue) + 1
    <3>1. AtPrinter(r) \/ \E j \in 1 .. i - 1 : logQueue[j] = Received(r)
      BY <1>1, <1>3, <1>7, <2>2 DEF Logged
    <3> QED
      BY <1>1, <1>2, <1>4, <2>2, <3>1
  <2> QED
    BY <1>1, <1>7, <2>1, <2>2
<1> QED
  BY <1>5, <1>6, <1>7 DEF ReceivedFirst

\* In particular not one that is about no request.
LEMMA NoteKeepsOrder ==
    ASSUME logQueue \in Seq(Messages), NEW l \in {"INFO", "ERROR", "FATAL", "STOP"},
           logQueue' = Append(logQueue, Msg(l, NULL)),
           main' = "print" <=> main = "print",
           message' = message, printed' = printed,
           NEW r \in Requests, ReceivedFirst(r)
    PROVE  (Logged(r) => Logged(r)') /\ ReceivedFirst(r)'
<1>1. Msg(l, NULL) \in Messages /\ Msg(l, NULL) # Queried(r)
  BY MessagesDiffer
<1> QED
  BY <1>1, AppendKeepsOrder

LEMMA StepKeepsOrder ==
    ASSUME Inv, Ordered, [Next]_vars
    PROVE  Ordered'
<1> SUFFICES ASSUME NEW r \in Requests, HeldIsLogged(r), ReceivedFirst(r)
             PROVE  HeldIsLogged(r)' /\ ReceivedFirst(r)'
  BY DEF Ordered
<1> USE DEF Inv, Types, TypeOK, HaveJobs
<1>1. ASSUME UNCHANGED <<main, message, logVars>>
      PROVE  (Logged(r)' <=> Logged(r)) /\ ReceivedFirst(r)'
  BY <1>1 DEF Logged, AtPrinter, ReceivedFirst, logVars
<1>2. ASSUME UNCHANGED <<handler, queue, worker>>, Logged(r) => Logged(r)'
      PROVE  HeldIsLogged(r)'
  BY <1>2 DEF HeldIsLogged
<1>3. CASE Main
  <2>1. UNCHANGED <<handler, queue, worker>>
    BY <1>3
       DEF Main, Start, Greet, LockQueue, WaitForMessage, TakeMessage, PrintMessage,
           FreeMessage, End, notMain, handlerVars, poolVars
  <2>2. CASE Greet
    BY <1>2, <2>1, <2>2, NoteKeepsOrder DEF Greet
  <2>3. CASE Start \/ LockQueue \/ WaitForMessage \/ End
    <3>1. UNCHANGED <<message, logVars>> /\ main # "print" /\ main' # "print"
      BY <2>3 DEF Start, LockQueue, WaitForMessage, End, mainVars, logVars
    <3>2. (Logged(r) => Logged(r)') /\ ReceivedFirst(r)'
      BY <3>1 DEF Logged, AtPrinter, ReceivedFirst, logVars
    <3> QED
      BY <1>2, <2>1, <3>2
  <2>4. CASE TakeMessage
    <3>1. /\ logQueue # <<>> /\ main # "print" /\ main' = "print"
          /\ message' = logQueue[1] /\ printed' = printed
          /\ Len(logQueue') = Len(logQueue) - 1
          /\ \A i \in 1 .. Len(logQueue') : logQueue'[i] = logQueue[i + 1]
      BY <2>4 DEF TakeMessage
    <3>2. \A i \in 1 .. Len(logQueue) :
              i = 1 \/ (i - 1 \in 1 .. Len(logQueue') /\ logQueue'[i - 1] = logQueue[i])
      BY <3>1
    <3>3. Logged(r) => Logged(r)'
      BY <3>1, <3>2 DEF Logged, AtPrinter
    <3>4. ASSUME NEW i \in 1 .. Len(logQueue'), logQueue'[i] = Queried(r)
          PROVE  AtPrinter(r)' \/ \E j \in 1 .. i - 1 : logQueue'[j] = Received(r)
      <4>1. AtPrinter(r) \/ \E j \in 1 .. i : logQueue[j] = Received(r)
        BY <3>1, <3>4 DEF ReceivedFirst
      <4>2. ASSUME NEW j \in 1 .. i, logQueue[j] = Received(r), j # 1
            PROVE  j - 1 \in 1 .. i - 1 /\ logQueue'[j - 1] = Received(r)
        <5>1. j \in 1 .. Len(logQueue) /\ j - 1 \in 1 .. i - 1
          BY <3>1, <4>2
        <5> QED
          BY <3>2, <4>2, <5>1
      <4> QED
        BY <3>1, <4>1, <4>2 DEF AtPrinter
    <3>5. message' = Queried(r) => Received(r) \in printed'
      <4>1. 1 \in 1 .. Len(logQueue) /\ 1 .. 1 - 1 = {}
        BY <3>1
      <4>2. message' = Queried(r) => AtPrinter(r)
        BY <3>1, <4>1 DEF ReceivedFirst
      <4> QED
        BY <3>1, <4>2 DEF AtPrinter
    <3>6. ReceivedFirst(r)'
      BY <3>1, <3>4, <3>5 DEF ReceivedFirst
    <3> QED
      BY <1>2, <2>1, <3>3, <3>6
  <2>5. CASE PrintMessage
    <3>1. /\ main = "print" /\ main' # "print" /\ logQueue' = logQueue
          /\ printed \subseteq printed' /\ printed' \subseteq printed \cup {message}
          /\ message.about # NULL => message \in printed'
      BY <2>5 DEF PrintMessage
    <3>2. AtPrinter(r) => AtPrinter(r)'
      BY <3>1, MessagesDiffer, ServerAssumption DEF AtPrinter
    <3>3. Logged(r) => Logged(r)'
      BY <3>1, <3>2 DEF Logged
    <3>4. ReceivedFirst(r)'
      BY <3>1, <3>2 DEF ReceivedFirst
    <3> QED
      BY <1>2, <2>1, <3>3, <3>4
  <2>6. CASE FreeMessage
    <3>1. UNCHANGED logVars /\ main # "print" /\ main' # "print"
      BY <2>6 DEF FreeMessage, logVars
    <3>2. (Logged(r) => Logged(r)') /\ ReceivedFirst(r)'
      BY <3>1 DEF Logged, AtPrinter, ReceivedFirst, logVars
    <3> QED
      BY <1>2, <2>1, <3>2
  <2> QED
    BY <1>3, <2>2, <2>3, <2>4, <2>5, <2>6 DEF Main
<1>4. CASE Interrupt \/ Shutdown
  <2>1. UNCHANGED <<main, message, printed, handler, queue, worker>>
    BY <1>4
       DEF Interrupt, Shutdown, AllocateAgain, CancelHandler, JoinHandler, DrainPool,
           FreeIdAndCache, CancelPoller, FreeRules, KillLogger, ShutdownStep, mainVars, handlerVars, poolVars,
           logVars
  <2>2. CASE KillLogger
    <3>1. logQueue' = Append(logQueue, Msg("STOP", NULL))
      BY <2>2 DEF KillLogger, Log
    <3> QED
      BY <1>2, <2>1, <3>1, NoteKeepsOrder
  <2>3. CASE (Interrupt \/ Shutdown) /\ ~KillLogger
    <3>1. UNCHANGED logVars
      BY <2>3
         DEF Interrupt, Shutdown, AllocateAgain, CancelHandler, JoinHandler, DrainPool,
             FreeIdAndCache, CancelPoller, FreeRules, ShutdownStep, logVars
    <3> QED
      BY <1>1, <1>2, <2>1, <3>1
  <2> QED
    BY <1>4, <2>2, <2>3
<1>5. CASE Handler
  <2>1. UNCHANGED <<main, message, printed, worker>>
    BY <1>5
       DEF Handler, OpenSocket4, OpenSocket6, Bind, LogFatal, Exit, Select, Receive,
           LogReceived, Push, HandlerDies, notHandler, mainVars
  <2>2. CASE OpenSocket4 \/ OpenSocket6 \/ Bind \/ Exit \/ Select \/ HandlerDies
             \/ \E f \in Families, q \in Requests : Receive(f, q)
    <3>1. UNCHANGED <<logQueue, queue>> /\ (handler' = handler \/ handler'.pc # "push")
      BY <2>2
         DEF OpenSocket4, OpenSocket6, Bind, Exit, Select, HandlerDies, Receive, At,
             handlerVars
    <3> QED
      BY <1>1, <2>1, <3>1 DEF HeldIsLogged, logVars
  <2>3. CASE LogFatal
    <3>1. /\ queue' = queue /\ handler'.pc # "push"
          /\ logQueue' = Append(logQueue, Msg("FATAL", NULL))
      BY <2>3 DEF LogFatal, Log, At
    <3>2. (Logged(r) => Logged(r)') /\ ReceivedFirst(r)'
      BY <2>1, <3>1, NoteKeepsOrder
    <3> QED
      BY <2>1, <3>1, <3>2 DEF HeldIsLogged
  <2>4. CASE LogReceived
    <3>1. /\ queue' = queue /\ handler'.job = handler.job /\ handler.job \in Requests
          /\ logQueue' = Append(logQueue, Received(handler.job))
      BY <2>4 DEF LogReceived, Log, Received
    <3>2. Received(handler.job) \in Messages /\ Received(handler.job) # Queried(r)
      BY <3>1, MessagesDiffer
    <3>3. /\ Logged(r) => Logged(r)'
          /\ Received(handler.job) = Received(r) => Logged(r)'
          /\ ReceivedFirst(r)'
      BY <2>1, <3>1, <3>2, AppendKeepsOrder
    <3> QED
      BY <2>1, <3>1, <3>3 DEF HeldIsLogged
  <2>5. CASE Push
    <3>1. /\ handler.pc = "push" /\ handler'.pc # "push" /\ logQueue' = logQueue
          /\ Len(queue') = Len(queue) + 1 /\ queue'[Len(queue) + 1] = handler.job
          /\ \A i \in 1 .. Len(queue) : queue'[i] = queue[i]
      BY <2>5 DEF Push, At
    <3>2. ASSUME NEW i \in 1 .. Len(queue'), queue'[i] = r
          PROVE  Logged(r)
      <4>1. i \in 1 .. Len(queue) \/ i = Len(queue) + 1
        BY <3>1
      <4> QED
        BY <3>1, <3>2, <4>1 DEF HeldIsLogged
    <3> QED
      BY <1>1, <2>1, <3>1, <3>2 DEF HeldIsLogged, logVars
  <2> QED
    BY <1>5, <2>2, <2>3, <2>4, <2>5 DEF Handler
<1>6. CASE \E w \in Workers : Take(w) \/ LogTaken(w) \/ Resolve(w)
  <2> PICK w \in Workers : Take(w) \/ LogTaken(w) \/ Resolve(w)
    BY <1>6
  <2>1. UNCHANGED <<main, message, printed, handler>>
    BY DEF Take, LogTaken, Resolve, notWorker, mainVars, handlerVars
  <2>2. CASE Take(w)
    <3>1. /\ logQueue' = logQueue /\ queue # <<>>
          /\ Len(queue') = Len(queue) - 1
          /\ \A i \in 1 .. Len(queue') : queue'[i] = queue[i + 1]
          /\ \A v \in Workers : worker'[v] = worker[v] \/ worker'[v].job = queue[1]
      BY <2>2 DEF Take
    <3>2. \A i \in 1 .. Len(queue') : i + 1 \in 1 .. Len(queue)
      BY <3>1
    <3>3. \A i \in 1 .. Len(queue') : queue'[i] = r => Logged(r)
      BY <3>1, <3>2 DEF HeldIsLogged
    <3>4. 1 \in 1 .. Len(queue)
      BY <3>1
    <3> QED
      BY <1>1, <2>1, <3>1, <3>3, <3>4 DEF HeldIsLogged, logVars
  <2>3. CASE LogTaken(w)
    <3>1. /\ worker[w].pc = "log" /\ worker[w].job \in Requests /\ queue' = queue
          /\ \A v \in Workers : worker'[v] = worker[v] \/ worker'[v].pc = "resolve"
          /\ logQueue' = Append(logQueue, Queried(worker[w].job))
      BY <2>3 DEF LogTaken, Log, Queried
    <3>2. /\ Queried(worker[w].job) \in Messages
          /\ Queried(worker[w].job) = Queried(r) => Logged(r)
      BY <3>1, MessagesDiffer DEF HeldIsLogged
    <3>3. (Logged(r) => Logged(r)') /\ ReceivedFirst(r)'
      BY <2>1, <3>1, <3>2, AppendKeepsOrder
    <3> QED
      BY <2>1, <3>1, <3>3 DEF HeldIsLogged
  <2>4. CASE Resolve(w)
    <3>1. /\ logQueue' = logQueue /\ queue' = queue
          /\ \A v \in Workers : worker'[v] = worker[v] \/ worker'[v].pc = "idle"
      BY <2>4 DEF Resolve, At
    <3> QED
      BY <1>1, <2>1, <3>1 DEF HeldIsLogged, logVars
  <2> QED
    BY <2>2, <2>3, <2>4
<1>7. CASE Poller
  <2>1. UNCHANGED <<main, message, printed, handler, queue, worker>>
    BY <1>7
       DEF Poller, OpenRules, ReadRules, ReadBadLine, PollerDies, notPoller, mainVars,
           handlerVars, poolVars
  <2>2. CASE ReadBadLine
    <3>1. logQueue' = Append(logQueue, Msg("ERROR", NULL))
      BY <2>2 DEF ReadBadLine, Log
    <3> QED
      BY <1>2, <2>1, <3>1, NoteKeepsOrder
  <2>3. CASE OpenRules \/ ReadRules \/ PollerDies
    <3>1. UNCHANGED logQueue
      BY <2>3 DEF OpenRules, ReadRules, PollerDies
    <3> QED
      BY <1>1, <1>2, <2>1, <3>1 DEF logVars
  <2> QED
    BY <1>7, <2>2, <2>3 DEF Poller
<1>8. CASE (\E q \in Requests : SendDatagram(q)) \/ UNCHANGED vars
  <2>1. UNCHANGED <<main, message, logVars, handler, queue, worker>>
    BY <1>8 DEF SendDatagram, mainVars, handlerVars, poolVars, logVars, vars
  <2> QED
    BY <1>1, <1>2, <2>1
<1> QED
  BY <1>3, <1>4, <1>5, <1>6, <1>7, <1>8 DEF Next

-----------------------------------------------------------------------------
THEOREM RequestsAreFinished == Spec => []AcceptedAreFinished
<1>1. Init => NoneLost
  BY DEF Init, NoneLost, Placed
<1>2. Inv /\ NoneLost /\ [Next]_vars => NoneLost'
  BY StepKeepsPlace
<1>3. Inv /\ NoneLost => AcceptedAreFinished
  <2> SUFFICES ASSUME Inv, NoneLost, status = "ended", Workers # {}
               PROVE  Requests = unsent \cup socket["v4"] \cup socket["v6"] \cup finished
    BY DEF AcceptedAreFinished
  <2>1. handler.pc = "dead" /\ queue = <<>> /\ \A w \in Workers : worker[w].pc = "idle"
    BY DEF Inv, StopIsLast, ThreadsGone, Joined, Drained
  <2>2. \A r \in Requests : r \in unsent \cup socket["v4"] \cup socket["v6"] \cup finished
    BY <2>1 DEF NoneLost, Placed
  <2>3. /\ unsent \subseteq Requests /\ finished \subseteq Requests
        /\ socket["v4"] \subseteq Requests /\ socket["v6"] \subseteq Requests
    BY DEF Inv, Types, TypeOK
  <2> QED
    BY <2>2, <2>3
<1> QED
  BY <1>1, <1>2, <1>3, InvHolds, PTL DEF Spec

THEOREM LogKeepsOrder == Spec => []LogInOrder
<1>1. Init => Ordered
  BY DEF Init, At, Ordered, HeldIsLogged, ReceivedFirst
<1>2. Inv /\ Ordered /\ [Next]_vars => Ordered'
  BY StepKeepsOrder
<1>3. Ordered => LogInOrder
  BY DEF Ordered, ReceivedFirst, Received, Queried, LogInOrder
<1> QED
  BY <1>1, <1>2, <1>3, InvHolds, PTL DEF Spec
=============================================================================
