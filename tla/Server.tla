------------------------------- MODULE Server -------------------------------
(***************************************************************************)
(* The threads of the process from their start to their end: main, which   *)
(* runs the logger and catches SIGINT (src/main.c, src/logger.c), the      *)
(* receiving thread and the worker pool (src/handler.c), and the poller of *)
(* the rules file as a user of descriptors and of the log.                 *)
(*                                                                         *)
(* SIGINT is handled on the main thread, wherever that is: outside of any  *)
(* library, with the mutex of the log queue, or inside malloc, free or     *)
(* printf.  No other thread keeps that mutex from one step to the next, so *)
(* it is free unless main has it.  One SIGINT is caught in a run.          *)
(*                                                                         *)
(* server_config.debug_level is 2, at which every message is logged.  What *)
(* a worker does for its request is module Relay, what the poller does to  *)
(* its tries is module FileRules; here it matters only that a worker uses  *)
(* the id, the cache and the rules, and the poller the rules.              *)
(***************************************************************************)
EXTENDS Integers, Sequences, FiniteSets

CONSTANTS
    Requests,       \* the datagrams clients send in a run, by identity
    Via,            \* the socket, "v4" or "v6", to which each of them is sent
    Workers,        \* the threads of worker_pool
    FirstFd,        \* the lowest descriptor that is free when the threads start
    MaxErrors,      \* the poller logs no error while the queue is this long
    NULL

VARIABLES
    main,       \* where run_logger is
    message,    \* the message it took from the queue
    shutdown,   \* where graceful_shutdown is, "none" before SIGINT
    caught,     \* where main was when SIGINT came, NULL before
    cancelled,  \* the threads for which pthread_cancel was called
    handler,    \* where run_handler is, with the request it read
    ready,      \* the sockets in rset that it has not dealt with
    poller,     \* where poll_filerules is
    fd,         \* the descriptor of each socket and of the rules file, NULL if closed
    socket,     \* the datagrams that wait in each socket
    unsent,     \* the requests that no client has sent yet
    queue,      \* worker_pool's queue
    worker,     \* where each worker is, with its request
    finished,   \* the requests whose args were freed
    logQueue,   \* log_queue
    printed,    \* the messages about requests that were printed
    freed,      \* what graceful_shutdown has released
    status      \* "up", "ended" (main returned), "exited" (exit(1)), "undefined" (what was
                \* released is used) or "unsafe" (malloc, free or printf is called in itself)

mainVars == <<main, message>>
shutdownVars == <<shutdown, caught, cancelled>>
handlerVars == <<handler, ready>>
poolVars == <<queue, worker, finished>>
logVars == <<logQueue, printed>>

\* What a step of each thread leaves alone.
notMain == <<shutdownVars, handlerVars, poller, fd, socket, unsent, poolVars>>
notHandler == <<mainVars, shutdownVars, poller, unsent, worker, finished, printed, freed>>
notWorker == <<mainVars, shutdownVars, handlerVars, poller, fd, socket, unsent, printed, freed>>
notPoller == <<mainVars, shutdownVars, handlerVars, socket, unsent, poolVars, printed, freed>>

vars == <<main, message, shutdown, caught, cancelled, handler, ready, poller, fd,
          socket, unsent, queue, worker, finished, logQueue, printed, freed, status>>

Families == {"v4", "v6"}
Modules == {"id", "cache", "rules", "pool", "log"}

Msg(level, about) == [level |-> level, about |-> about]

Messages == [level : {"INFO", "ERROR", "FATAL", "STOP", "RECVREQ", "QRYDNS"},
             about : Requests \cup {NULL}]

At(pc) == [pc |-> pc, job |-> NULL]

ASSUME ServerAssumption ==
    /\ NULL \notin Requests
    /\ Via \in [Requests -> Families]
    /\ FirstFd \in Nat
    /\ NULL \notin Int /\ NULL \notin {"greeting", "locked"}
    /\ MaxErrors \in Nat

\* main has called the five init functions; two threads were created, and signal is
\* still to come.
Init ==
    /\ main = "start" /\ message = NULL
    /\ shutdown = "none" /\ caught = NULL /\ cancelled = {}
    /\ handler = At("socket4") /\ ready = {}
    /\ poller = "sleep"
    /\ fd = [f \in {"v4", "v6", "rules"} |-> NULL]
    /\ socket = [f \in Families |-> {}]
    /\ unsent = Requests
    /\ queue = <<>> /\ worker = [w \in Workers |-> At("idle")] /\ finished = {}
    /\ logQueue = <<>> /\ printed = {}
    /\ freed = {}
    /\ status = "up"

-----------------------------------------------------------------------------
Running == status = "up"

\* Where main has the mutex of log_queue, and where it is in malloc, free or printf.
Queueing == {"greeting", "locked"}
Allocating == {"greet", "print", "free"}

\* Mutant of LogMutexFree: the mutex is recursive.
LogMutexRecursive == main \notin Queueing \/ shutdown = "kill"

LogMutexFree == main \notin Queueing

\* commit_log: the message goes to the end of log_queue, under the queue's mutex.
Log(msg) ==
    /\ LogMutexFree
    /\ logQueue' = Append(logQueue, msg)

\* A step that needs the modules ms: one of them gone is undefined behaviour.
Uses(ms) == status' = IF ms \cap freed = {} THEN status ELSE "undefined"

\* socket and fopen take the lowest free descriptor.
InUse == {fd[f] : f \in DOMAIN fd}
LowestFree == CHOOSE d \in FirstFd .. FirstFd + 3 :
                  d \notin InUse /\ \A e \in FirstFd .. d - 1 : e \in InUse

Opened(f) == fd' = [fd EXCEPT ![f] = LowestFree]

-----------------------------------------------------------------------------
\* run_logger, on the main thread, which stops while graceful_shutdown runs on it.
MainRuns == Running /\ shutdown \in {"none", "returned"}

\* The rest of init: the handler of SIGINT is registered and the start is logged, with
\* a message that is allocated first.
Start ==
    /\ MainRuns
    /\ \/ main = "start" /\ main' = "greet"
       \/ main = "greet" /\ main' = "greeting"
    /\ UNCHANGED <<notMain, message, logVars, freed, status>>

Greet ==
    /\ MainRuns /\ main = "greeting"
    /\ logQueue' = Append(logQueue, Msg("INFO", NULL))
    /\ main' = "pop"
    /\ UNCHANGED <<notMain, message, printed, freed, status>>

\* g_async_queue_pop takes the mutex, and waits without it while the queue is empty.
LockQueue ==
    /\ MainRuns
    /\ \/ main = "pop"
       \/ main = "waiting" /\ logQueue # <<>>
    /\ main' = "locked"
    /\ UNCHANGED <<notMain, message, logVars, freed, status>>

WaitForMessage ==
    /\ MainRuns /\ main = "locked"
    /\ logQueue = <<>>
    /\ main' = "waiting"
    /\ UNCHANGED <<notMain, message, logVars, freed, status>>

TakeMessage ==
    /\ MainRuns /\ main = "locked"
    /\ logQueue # <<>>
    /\ message' = Head(logQueue)
    /\ logQueue' = Tail(logQueue)
    /\ main' = "print"
    /\ UNCHANGED <<notMain, printed, freed, status>>

PrintMessage ==
    /\ MainRuns /\ main = "print"
    /\ printed' = IF message.about = NULL THEN printed ELSE printed \cup {message}
    /\ main' = "free"
    /\ UNCHANGED <<notMain, message, logQueue, freed, status>>

\* free; behind the message that stops it run_logger gives the queue back.
FreeMessage ==
    /\ MainRuns /\ main = "free"
    /\ message' = NULL
    /\ \/ /\ message.level # "STOP"
          /\ main' = "pop"
          /\ UNCHANGED freed
       \/ /\ message.level = "STOP"
          /\ main' = "returned"
          /\ freed' = freed \cup {"log"}
    /\ UNCHANGED <<notMain, logVars, status>>

\* main returns, which ends the process.
End ==
    /\ MainRuns /\ main = "returned"
    /\ status' = "ended"
    /\ UNCHANGED <<notMain, mainVars, logVars, freed>>

Main ==
    \/ Start \/ Greet \/ LockQueue \/ WaitForMessage \/ TakeMessage \/ PrintMessage
    \/ FreeMessage \/ End

-----------------------------------------------------------------------------
\* Mutant of Interrupt: the handler of SIGINT is registered before the modules start.
InterruptEarly ==
    /\ Running /\ shutdown = "none"
    /\ shutdown' = "cancel"
    /\ caught' = main
    /\ UNCHANGED <<mainVars, cancelled, handlerVars, poller, fd, socket, unsent, poolVars,
                   logVars, freed, status>>

\* graceful_shutdown.  The signal comes once it is registered.
Interrupt ==
    /\ Running /\ shutdown = "none" /\ main # "start"
    /\ shutdown' = "cancel"
    /\ caught' = main
    /\ UNCHANGED <<mainVars, cancelled, handlerVars, poller, fd, socket, unsent, poolVars,
                   logVars, freed, status>>

\* The step at pc releases ms and goes on to next.
ShutdownStep(pc, next, ms) ==
    /\ Running /\ shutdown = pc
    /\ shutdown' = next
    /\ freed' = freed \cup ms
    /\ UNCHANGED <<mainVars, caught, handlerVars, poller, fd, socket, unsent, queue, worker,
                   finished, printed, status>>

\* free_handler: the thread that receives is cancelled and joined before the pool goes.
CancelHandler ==
    /\ ShutdownStep("cancel", "join", {})
    /\ cancelled' = cancelled \cup {"handler"}
    /\ UNCHANGED logQueue

\* Mutant of JoinHandler: the thread is cancelled but not waited for.
DetachHandler ==
    /\ ShutdownStep("join", "drain", {})
    /\ UNCHANGED <<cancelled, logQueue>>

JoinHandler ==
    /\ handler.pc = "dead"
    /\ ShutdownStep("join", "drain", {})
    /\ UNCHANGED <<cancelled, logQueue>>

\* Mutant of DrainPool: g_thread_pool_free(worker_pool, TRUE, TRUE), which drops the
\* requests in the queue.
DropQueue ==
    /\ \A w \in Workers : worker[w].pc = "idle"
    /\ ShutdownStep("drain", "free", {"pool"})
    /\ UNCHANGED <<cancelled, logQueue>>

\* g_thread_pool_free(worker_pool, FALSE, TRUE) waits until the requests in the queue
\* were taken and the threads are done with theirs; it refuses to wait for a pool
\* without threads.
DrainPool ==
    /\ \/ queue = <<>>
       \/ Workers = {}
    /\ \A w \in Workers : worker[w].pc = "idle"
    /\ ShutdownStep("drain", "free", {"pool"})
    /\ UNCHANGED <<cancelled, logQueue>>

\* free_id and free_cache.
FreeIdAndCache ==
    /\ ShutdownStep("free", "cancelPoller", {"id", "cache"})
    /\ UNCHANGED <<cancelled, logQueue>>

\* free_filerules
CancelPoller ==
    /\ ShutdownStep("cancelPoller", "joinPoller", {})
    /\ cancelled' = cancelled \cup {"poller"}
    /\ UNCHANGED logQueue

\* Mutant of FreeRules: the poller is not waited for.
FreeRulesEarly ==
    /\ ShutdownStep("joinPoller", "kill", {"rules"})
    /\ UNCHANGED <<cancelled, logQueue>>

FreeRules ==
    /\ poller = "dead"
    /\ ShutdownStep("joinPoller", "kill", {"rules"})
    /\ UNCHANGED <<cancelled, logQueue>>

\* free_logger
KillLogger ==
    /\ Log(Msg("STOP", NULL))
    /\ ShutdownStep("kill", "returned", {})
    /\ UNCHANGED cancelled

\* Every free function allocates or frees, itself or in GLib.  On a thread that is in the
\* allocator or in printf already C leaves open what that does: it may go well, as above,
\* wait for a lock of its own thread for ever, or break a list.
AllocateAgain ==
    /\ Running /\ shutdown \notin {"none", "returned"} /\ caught \in Allocating
    /\ status' = "unsafe"
    /\ UNCHANGED <<mainVars, shutdownVars, handlerVars, poller, fd, socket, unsent, poolVars,
                   logVars, freed>>

Shutdown ==
    \/ AllocateAgain
    \/ CancelHandler \/ JoinHandler \/ DrainPool \/ FreeIdAndCache
    \/ CancelPoller \/ FreeRules \/ KillLogger

-----------------------------------------------------------------------------
\* run_handler
OpenSocket4 ==
    /\ Running /\ handler.pc = "socket4"
    /\ Opened("v4")
    /\ handler' = At("socket6")
    /\ UNCHANGED <<notHandler, ready, socket, queue, logQueue, status>>

OpenSocket6 ==
    /\ Running /\ handler.pc = "socket6"
    /\ Opened("v6")
    /\ handler' = At("bind")
    /\ UNCHANGED <<notHandler, ready, socket, queue, logQueue, status>>

\* Both sockets are bound to the port.
Bind ==
    /\ Running /\ handler.pc = "bind"
    /\ handler' = At("select")
    /\ UNCHANGED <<notHandler, ready, fd, socket, queue, logQueue, status>>

\* A call of socket or of bind fails: that is logged, and exit ends the process.
LogFatal ==
    /\ Running /\ handler.pc \in {"socket4", "socket6", "bind"}
    /\ Log(Msg("FATAL", NULL))
    /\ Uses({"log"})
    /\ handler' = At("exit")
    /\ UNCHANGED <<notHandler, ready, fd, socket, queue>>

Exit ==
    /\ Running /\ handler.pc = "exit"
    /\ status' = "exited"
    /\ UNCHANGED <<notHandler, handlerVars, fd, socket, queue, logQueue>>

\* Mutant of MaxFdp: nothing is added in either case.
MaxFdpExact == IF fd["v4"] > fd["v6"] THEN fd["v4"] ELSE fd["v6"]

\* maxfdp = sockfd > sockfd6 ? sockfd : sockfd6 + 1, and select looks at the
\* descriptors below it.
MaxFdp == IF fd["v4"] > fd["v6"] THEN fd["v4"] ELSE fd["v6"] + 1
Watched == {f \in Families : fd[f] < MaxFdp}

\* Before it, both descriptors are set anew.
Select ==
    /\ Running /\ handler.pc = "select" /\ "handler" \notin cancelled
    /\ \E f \in Watched : socket[f] # {}
    /\ ready' = {f \in Watched : socket[f] # {}}
    /\ handler' = At("recv")
    /\ UNCHANGED <<notHandler, fd, socket, queue, logQueue, status>>

\* recvfrom, on the IPv4 socket first; a socket keeps no order.
Receive(f, r) ==
    /\ Running /\ handler.pc = "recv" /\ "handler" \notin cancelled
    /\ f \in ready /\ (f = "v6" => "v4" \notin ready)
    /\ r \in socket[f]
    /\ socket' = [socket EXCEPT ![f] = @ \ {r}]
    /\ ready' = ready \ {f}
    /\ handler' = [pc |-> "log", job |-> r]
    /\ UNCHANGED <<notHandler, fd, queue, logQueue, status>>

\* Mutant of LogReceived: the message is dropped while main has the mutex.
TryLogReceived ==
    /\ Running /\ handler.pc = "log"
    /\ logQueue' = IF LogMutexFree THEN Append(logQueue, Msg("RECVREQ", handler.job)) ELSE logQueue
    /\ Uses({"log"})
    /\ handler' = [handler EXCEPT !.pc = "push"]
    /\ UNCHANGED <<notHandler, ready, fd, socket, queue>>

\* debug, before the request goes to the pool.
LogReceived ==
    /\ Running /\ handler.pc = "log"
    /\ Log(Msg("RECVREQ", handler.job))
    /\ Uses({"log"})
    /\ handler' = [handler EXCEPT !.pc = "push"]
    /\ UNCHANGED <<notHandler, ready, fd, socket, queue>>

\* g_thread_pool_push
Push ==
    /\ Running /\ handler.pc = "push"
    /\ Uses({"pool"})
    /\ queue' = Append(queue, handler.job)
    /\ handler' = At(IF ready = {} THEN "select" ELSE "recv")
    /\ UNCHANGED <<notHandler, ready, fd, socket, logQueue>>

\* select and recvfrom are cancellation points, and the only ones in the loop.
HandlerDies ==
    /\ Running /\ handler.pc \in {"select", "recv"} /\ "handler" \in cancelled
    /\ handler' = At("dead")
    /\ UNCHANGED <<notHandler, ready, fd, socket, queue, logQueue, status>>

Handler ==
    \/ OpenSocket4 \/ OpenSocket6 \/ Bind \/ LogFatal \/ Exit
    \/ Select \/ \E f \in Families, r \in Requests : Receive(f, r)
    \/ LogReceived \/ Push \/ HandlerDies

-----------------------------------------------------------------------------
\* A thread of the pool: handle_dns_request, and then the next one.
Take(w) ==
    /\ Running /\ worker[w].pc = "idle"
    /\ queue # <<>>
    /\ worker' = [worker EXCEPT ![w] = [pc |-> "log", job |-> Head(queue)]]
    /\ queue' = Tail(queue)
    /\ Uses({"pool"})
    /\ UNCHANGED <<notWorker, finished, logQueue>>

\* dns_header_dump, the first of its messages.
LogTaken(w) ==
    /\ Running /\ worker[w].pc = "log"
    /\ Log(Msg("QRYDNS", worker[w].job))
    /\ Uses({"log"})
    /\ worker' = [worker EXCEPT ![w].pc = "resolve"]
    /\ UNCHANGED <<notWorker, queue, finished>>

\* The rules, the cache and the id are used, the reply is sent, the request is freed.
Resolve(w) ==
    /\ Running /\ worker[w].pc = "resolve"
    /\ Uses({"id", "cache", "rules"})
    /\ finished' = finished \cup {worker[w].job}
    /\ worker' = [worker EXCEPT ![w] = At("idle")]
    /\ UNCHANGED <<notWorker, queue, logQueue>>

-----------------------------------------------------------------------------
\* poll_filerules, from sleep past pthread_testcancel to fopen.  Without a file it
\* sleeps again.
OpenRules ==
    /\ Running /\ poller = "sleep" /\ "poller" \notin cancelled
    /\ Opened("rules")
    /\ poller' = "read"
    /\ UNCHANGED <<notPoller, logQueue, status>>

\* fclose, after the file was read to its end; the tries are swapped...
ReadRules ==
    /\ Running /\ poller = "read"
    /\ Uses({"rules"})
    /\ fd' = [fd EXCEPT !["rules"] = NULL]
    /\ poller' = "sleep"
    /\ UNCHANGED <<notPoller, logQueue>>

\* ... or to a line with an invalid address, which is logged.
ReadBadLine ==
    /\ Running /\ poller = "read"
    /\ Len(logQueue) < MaxErrors
    /\ Log(Msg("ERROR", NULL))
    /\ Uses({"log"})
    /\ fd' = [fd EXCEPT !["rules"] = NULL]
    /\ poller' = "sleep"
    /\ UNCHANGED notPoller

\* Mutant of PollerDies: the thread can only be cancelled while it reads.
PollerDiesReading ==
    /\ Running /\ poller = "read" /\ "poller" \in cancelled
    /\ poller' = "dead"
    /\ UNCHANGED <<notPoller, fd, logQueue, status>>

\* sleep and pthread_testcancel are cancellation points, and the reads may be.
PollerDies ==
    /\ Running /\ poller \in {"read", "sleep"} /\ "poller" \in cancelled
    /\ poller' = "dead"
    /\ UNCHANGED <<notPoller, fd, logQueue, status>>

Poller == OpenRules \/ ReadRules \/ ReadBadLine \/ PollerDies

-----------------------------------------------------------------------------
\* A client sends a datagram to a socket that is bound.
SendDatagram(r) ==
    /\ Running /\ handler.pc \notin {"socket4", "socket6", "bind", "exit", "dead"}
    /\ r \in unsent
    /\ unsent' = unsent \ {r}
    /\ socket' = [socket EXCEPT ![Via[r]] = @ \cup {r}]
    /\ UNCHANGED <<mainVars, shutdownVars, handlerVars, poller, fd, poolVars, logVars, freed,
                   status>>

Next ==
    \/ Main \/ Interrupt \/ Shutdown
    \/ Handler
    \/ \E w \in Workers : Take(w) \/ LogTaken(w) \/ Resolve(w)
    \/ Poller
    \/ \E r \in Requests : SendDatagram(r)

\* Each thread is scheduled, and none is passed over at the mutex of the log queue for
\* ever, which main gives back by its next step.  Nobody need send a datagram or SIGINT,
\* and a worker need not come back from the upstream server: by default it waits for ever.
Fairness ==
    /\ WF_vars(Main) /\ WF_vars(Shutdown)
    /\ SF_vars(Handler)
    /\ \A w \in Workers : WF_vars(Take(w)) /\ SF_vars(LogTaken(w))
    /\ WF_vars(Poller)

Spec == Init /\ [][Next]_vars /\ Fairness

-----------------------------------------------------------------------------
(***************************************************************************)
(* Properties                                                              *)
(***************************************************************************)

\* The variables have their types.
TypeOK ==
    /\ main \in {"start", "pop", "waiting", "returned"} \cup Queueing \cup Allocating
    /\ message \in Messages \cup {NULL}
    /\ shutdown \in {"none", "cancel", "join", "drain", "free", "cancelPoller", "joinPoller",
                     "kill", "returned"}
    /\ caught \in {"pop", "waiting", NULL} \cup Queueing \cup Allocating
    /\ cancelled \subseteq {"handler", "poller"}
    /\ handler \in [pc : {"socket4", "socket6", "bind", "exit", "select", "recv", "log", "push",
                          "dead"},
                    job : Requests \cup {NULL}]
    /\ ready \subseteq Families
    /\ poller \in {"sleep", "read", "dead"}
    /\ fd \in [{"v4", "v6", "rules"} -> Int \cup {NULL}]
    /\ socket \in [Families -> SUBSET Requests]
    /\ unsent \subseteq Requests
    /\ queue \in Seq(Requests)
    /\ worker \in [Workers -> [pc : {"idle", "log", "resolve"}, job : Requests \cup {NULL}]]
    /\ finished \subseteq Requests
    /\ logQueue \in Seq(Messages)
    /\ printed \subseteq Messages
    /\ freed \subseteq Modules
    /\ status \in {"up", "ended", "exited", "undefined", "unsafe"}

\* The order of graceful_shutdown, and what it joins and waits for, keep every thread
\* from a module that was released: no worker meets a released cache, no thread a
\* released pool or log queue (main.c line 55: the logger goes last).
NothingUsedAfterFree == status # "undefined"

\* A request that was read from a socket is dealt with before the process ends, though
\* SIGINT come between any two steps: in recvfrom, in the queue, with a worker.
AcceptedAreFinished ==
    status = "ended" /\ Workers # {} =>
        Requests = unsent \cup socket["v4"] \cup socket["v6"] \cup finished

\* The log tells what happened in the order it happened, whoever logs and however long
\* the messages wait: that a request is worked on is never printed before that it came.
LogInOrder ==
    \A r \in Requests :
        Msg("QRYDNS", r) \in printed => Msg("RECVREQ", r) \in printed

\* What was logged before the shutdown, or while it ran, is printed before the process
\* ends by itself: the message that stops the logger is the last one.  But for the
\* message of the start, if SIGINT comes between signal and the info behind it.
LogIsDrained == status = "ended" /\ caught # "greet" => logQueue = <<>>

\* A SIGINT that finds main with the mutex of the log queue stops the process for good:
\* free_logger waits for the mutex that the thread it runs on has, and so does before it
\* any thread with something to log.
CaughtInTheQueueNeverEnds ==
    caught \in Queueing => shutdown # "returned" /\ status # "ended"

\* Caught anywhere else, the process ends, if no worker waits for the upstream server for
\* ever and nothing comes of a second call of malloc, free or printf inside the first.
ShutdownEnds ==
    (\A w \in Workers : []<>(worker[w].pc # "resolve")) =>
        (shutdown # "none" ~> status \in {"ended", "exited", "unsafe"} \/ caught \in Queueing)

\* Whether requests come to the IPv4 or the IPv6 socket, a server that stays up reads
\* them (handler.c line 78: when either socket has a request, it is read).
EveryDatagramIsRead ==
    \A r \in Requests :
        r \in socket[Via[r]] ~> r \notin socket[Via[r]] \/ shutdown # "none" \/ status # "up"

\* It does if the IPv4 socket was opened first and has the lower descriptor; what comes
\* to the IPv6 socket it reads in any case.
OrderedSocketsAreRead ==
    \A r \in Requests :
        r \in socket[Via[r]] /\ (Via[r] = "v6" \/ fd["v4"] < fd["v6"])
            ~> r \notin socket[Via[r]] \/ shutdown # "none" \/ status # "up"
=============================================================================
