----------------------------- MODULE EnginePool -----------------------------
(***************************************************************************)
(* io_pool_v2: EnginePool, the worker threads it owns, and IHandler, which *)
(* posts messages to a worker and counts them for WaitStop; and the older  *)
(* pair IOPool and IOService, which does not count.                        *)
(*                                                                         *)
(* A worker is a LockDequeThread, a BoostLockfreeThread (whose queue is    *)
(* bounded), a MoodyCamelThread (one FIFO queue and the loop that runs its *)
(* tasks: engine "queue"), a BoostAsioThread ("asio") or a SyncThread,     *)
(* which is no thread at all ("sync").  Each worker has one IHandler, or   *)
(* is an IOService.  The actors are the workers, which may post from       *)
(* inside a callback, and client threads.  What the application does is    *)
(* its plan: which engine and service it uses, which actor calls which     *)
(* handler, which kinds of message have no handler, and how it stops the   *)
(* pool.                                                                   *)
(***************************************************************************)
EXTENDS Integers, Sequences, FiniteSets

CONSTANTS Clients,   \* threads outside the pool
          Workers,   \* the pool's threads
          Plans,     \* what applications do, see Plan
          MaxStarts  \* bound: calls of EngineStart

Actors == Clients \cup Workers
NoWorker == "none"

\* The workers' kind and the capacity of their queues (0 for none), the calls
\* an application makes, the kinds of message it installs no handler for, how
\* it stops the pool (by WaitStop or by EngineStop), and, as a bound, how many
\* calls it makes.
Plan == [engine : {"queue", "asio", "sync"},
         queueCap : Nat,
         service : {"IHandler", "IOService"},
         calls : SUBSET [from : Actors, to : Workers, sync : BOOLEAN],
         missing : SUBSET {"async", "sync"},
         stopBy : SUBSET {"wait", "stop"},
         posts : Nat]

ASSUME ConstantsAssumption ==
    /\ Clients \cap Workers = {}
    /\ IsFiniteSet(Actors) /\ NoWorker \notin Actors
    /\ \A p \in Plans : p \in Plan
    /\ MaxStarts \in Nat

VARIABLES
    plan,      \* what the application does
    queue,     \* worker: m_queue
    started,   \* worker: m_is_started
    pc,        \* actor: where it is
    call,      \* actor: the call it is making, worker: see task for the rest
    task,      \* worker: the task it runs
    ready,     \* actors whose promise has been set
    unhandled, \* m_unhandled_cnt
    mpc,       \* where the thread that starts and stops the pool is
    joining,   \* the worker it joins
    toStop,    \* the workers EngineStop has still to stop
    toStart,   \* the workers EngineStart has still to start
    posts,     \* history: calls of PostMsg and PostSyncMsg so far
    starts,    \* history: calls of EngineStart so far
    off        \* history: what the counters are off by, see CountBalanced

vars == <<plan, queue, started, pc, call, task, ready, unhandled, mpc, joining,
          toStop, toStart, posts, starts, off>>

NoTask == [id |-> 0, sync |-> FALSE, from |-> NoWorker]
NoCall == [id |-> 0, sync |-> FALSE]
Kind(sync) == IF sync THEN "sync" ELSE "async"
Handled(sync) == Kind(sync) \notin plan.missing

Init ==
    /\ plan \in Plans
    /\ queue = [w \in Workers |-> <<>>]
    /\ started = [w \in Workers |-> FALSE]
    /\ pc = [a \in Actors |-> IF a \in Workers THEN "dead" ELSE "free"]
    /\ call = [a \in Actors |-> NoCall]
    /\ task = [w \in Workers |-> NoTask]
    /\ ready = {}
    /\ unhandled = 0
    /\ mpc = "new"
    /\ joining = NoWorker
    /\ toStop = {}
    /\ toStart = {}
    /\ posts = 0
    /\ starts = 0
    /\ off = 0

\* An actor that may call a handler: a client between calls, a worker inside
\* a callback.
Resting(a) == IF a \in Workers THEN "callback" ELSE "free"

\* Before the first EngineStart has returned a BoostAsioThread may have no
\* io_service, which its Post would dereference.
ServiceMade == starts > 1 \/ mpc \notin {"new", "starting"}

\* The start of a call.
Calls(a, sync) ==
    /\ pc[a] = Resting(a)
    /\ posts < plan.posts
    /\ plan.engine = "asio" => ServiceMade
    /\ posts' = posts + 1
    /\ call' = [call EXCEPT ![a] = [id |-> posts + 1, sync |-> sync]]

TaskOf(a, sync) == [id |-> posts + 1, sync |-> sync, from |-> a]

----------------------------------------------------------------------------
(* IHandler *)

\* Post: a full queue refuses the task and nobody looks at the answer.
\* IHandler counts it nevertheless.
Enqueue(w, t) ==
    IF plan.queueCap # 0 /\ Len(queue[w]) = plan.queueCap
    THEN UNCHANGED queue /\ off' = IF plan.service = "IHandler" THEN off + 1 ELSE off
    ELSE queue' = [queue EXCEPT ![w] = Append(@, t)] /\ UNCHANGED off

\* IsInThread: a SyncThread answers yes to everybody.
IsInThread(a, w) == a = w \/ plan.engine = "sync"

\* Mutant: the check for a call from the handler's own thread is missing.
Post_NoThreadCheck(a, w, sync) ==
    /\ plan.service = "IHandler"
    /\ Calls(a, sync)
    /\ Enqueue(w, TaskOf(a, sync))
    /\ pc' = [pc EXCEPT ![a] = "posted"]
    /\ UNCHANGED <<plan, started, task, ready, unhandled, mpc, joining,
                   toStop, toStart, starts>>

\* PostMsg, and PostSyncMsg from another thread: the task is queued first,
\* or run at once by a SyncThread.  PostSyncMsg from the handler's own thread
\* runs the callback at once.
Post(a, w, sync) ==
    /\ plan.service = "IHandler"
    /\ Calls(a, sync)
    /\ \/ /\ plan.engine # "sync"
          /\ ~(sync /\ IsInThread(a, w))
          /\ Enqueue(w, TaskOf(a, sync))
          /\ pc' = [pc EXCEPT ![a] = "posted"]
       \/ /\ plan.engine = "sync"
          /\ ~sync
          /\ pc' = [pc EXCEPT ![a] = "inline"]
          /\ UNCHANGED <<queue, off>>
       \/ /\ sync
          /\ IsInThread(a, w)
          /\ pc' = [pc EXCEPT ![a] = "selfHandled"]
          /\ UNCHANGED <<queue, off>>
    /\ UNCHANGED <<plan, started, task, ready, unhandled, mpc, joining,
                   toStop, toStart, starts>>

\* OnMessage in the caller of a SyncThread's Post: the message counts as
\* handled before PostMsg counts it (its callback makes no further calls in
\* this model).
InlineHandled(a) ==
    /\ pc[a] = "inline"
    /\ unhandled' = unhandled - 1
    /\ pc' = [pc EXCEPT ![a] = "posted"]
    /\ UNCHANGED <<plan, queue, started, call, task, ready, mpc, joining,
                   toStop, toStart, posts, starts, off>>

\* Mutant: PostSyncMsg does not wait for the future.
AddPostCnt_NoWait(a) ==
    /\ pc[a] = "posted"
    /\ unhandled' = unhandled + 1
    /\ pc' = [pc EXCEPT ![a] = Resting(a)]
    /\ UNCHANGED <<plan, queue, started, call, task, ready, mpc, joining,
                   toStop, toStart, posts, starts, off>>

\* AddPostCnt, after the task has been queued.  PostMsg returns; PostSyncMsg
\* goes on to wait for the future.
AddPostCnt(a) ==
    /\ pc[a] = "posted"
    /\ unhandled' = unhandled + 1
    /\ pc' = [pc EXCEPT ![a] = IF call[a].sync THEN "wait" ELSE Resting(a)]
    /\ UNCHANGED <<plan, queue, started, call, task, ready, mpc, joining,
                   toStop, toStart, posts, starts, off>>

\* future.get() returns.
SyncReturn(a) ==
    /\ pc[a] = "wait"
    /\ a \in ready
    /\ ready' = ready \ {a}
    /\ pc' = [pc EXCEPT ![a] = Resting(a)]
    /\ UNCHANGED <<plan, queue, started, call, task, unhandled, mpc, joining,
                   toStop, toStart, posts, starts, off>>

\* PostSyncMsg on the handler's own thread: OnSyncMessage counts the message
\* as handled (its callback makes no further calls in this model), the
\* result is taken from the promise, and the message is counted as posted
\* and as handled once more.  Without a handler the promise is never set, and
\* the message is not counted as posted.
SelfHandled(a) ==
    /\ pc[a] = "selfHandled"
    /\ unhandled' = unhandled - 1
    /\ pc' = [pc EXCEPT ![a] = IF Handled(TRUE) THEN "selfPost" ELSE "wait"]
    /\ off' = IF Handled(TRUE) THEN off ELSE off - 1
    /\ UNCHANGED <<plan, queue, started, call, task, ready, mpc, joining,
                   toStop, toStart, posts, starts>>

SelfPost(a) ==
    /\ pc[a] = "selfPost"
    /\ unhandled' = unhandled + 1
    /\ pc' = [pc EXCEPT ![a] = "selfHandle"]
    /\ UNCHANGED <<plan, queue, started, call, task, ready, mpc, joining,
                   toStop, toStart, posts, starts, off>>

SelfHandle(a) ==
    /\ pc[a] = "selfHandle"
    /\ unhandled' = unhandled - 1
    /\ off' = off - 1
    /\ pc' = [pc EXCEPT ![a] = Resting(a)]
    /\ UNCHANGED <<plan, queue, started, call, task, ready, mpc, joining,
                   toStop, toStart, posts, starts>>

(* IOService: no counters and no check for the own thread *)

\* IOService::PostMsg.
ServicePost(a, w) ==
    /\ plan.service = "IOService"
    /\ Calls(a, FALSE)
    /\ IF plan.engine = "sync" THEN UNCHANGED <<queue, off>> ELSE Enqueue(w, TaskOf(a, FALSE))
    /\ UNCHANGED <<plan, started, pc, task, ready, unhandled, mpc, joining,
                   toStop, toStart, starts>>

\* IOService::PostSyncMsg: posts and waits for the future.
ServicePostSync(a, w) ==
    /\ plan.service = "IOService"
    /\ Calls(a, TRUE)
    /\ pc' = [pc EXCEPT ![a] = "wait"]
    /\ \/ /\ plan.engine # "sync"
          /\ Enqueue(w, TaskOf(a, TRUE))
          /\ UNCHANGED ready
       \/ /\ plan.engine = "sync"
          /\ ready' = IF Handled(TRUE) THEN ready \cup {a} ELSE ready
          /\ UNCHANGED <<queue, off>>
    /\ UNCHANGED <<plan, started, task, unhandled, mpc, joining, toStop, toStart, starts>>

----------------------------------------------------------------------------
(* A worker's loop *)

\* while (m_is_started)
LoopTest(w) ==
    /\ pc[w] = "top"
    /\ pc' = [pc EXCEPT ![w] = IF started[w] THEN "pop" ELSE "dead"]
    /\ UNCHANGED <<plan, queue, started, call, task, ready, unhandled, mpc,
                   joining, toStop, toStart, posts, starts, off>>

\* pop_front: a task to run, or nothing and back to the test.
Pop(w) ==
    /\ pc[w] = "pop"
    /\ \/ /\ queue[w] = <<>>
          /\ pc' = [pc EXCEPT ![w] = "top"]
          /\ UNCHANGED <<queue, task>>
       \/ /\ queue[w] # <<>>
          /\ queue' = [queue EXCEPT ![w] = Tail(@)]
          /\ task' = [task EXCEPT ![w] = Head(queue[w])]
          /\ pc' = [pc EXCEPT ![w] = "callback"]
    /\ UNCHANGED <<plan, started, call, ready, unhandled, mpc, joining,
                   toStop, toStart, posts, starts, off>>

\* The callback returns; a synchronous one has set the promise, unless the
\* message has no handler.
CallbackReturns(w) ==
    /\ plan.service = "IHandler"
    /\ pc[w] = "callback"
    /\ pc' = [pc EXCEPT ![w] = "handled"]
    /\ ready' = IF task[w].sync /\ Handled(TRUE)
                THEN ready \cup {task[w].from} ELSE ready
    /\ UNCHANGED <<plan, queue, started, call, task, unhandled, mpc, joining,
                   toStop, toStart, posts, starts, off>>

\* The same for the OnMessage and OnSyncMessage of IOService.
ServiceReturns(w) ==
    /\ plan.service = "IOService"
    /\ pc[w] = "callback"
    /\ pc' = [pc EXCEPT ![w] = "top"]
    /\ ready' = IF task[w].sync /\ Handled(TRUE)
                THEN ready \cup {task[w].from} ELSE ready
    /\ task' = [task EXCEPT ![w] = NoTask]
    /\ UNCHANGED <<plan, queue, started, call, unhandled, mpc, joining,
                   toStop, toStart, posts, starts, off>>

\* Mutant: a message without a handler is not counted as handled.
AddHandleCnt_OnlyIfHandled(w) ==
    /\ pc[w] = "handled"
    /\ unhandled' = IF Handled(task[w].sync) THEN unhandled - 1 ELSE unhandled
    /\ task' = [task EXCEPT ![w] = NoTask]
    /\ pc' = [pc EXCEPT ![w] = "top"]
    /\ UNCHANGED <<plan, queue, started, call, ready, mpc, joining, toStop,
                   toStart, posts, starts, off>>

\* AddHandleCnt at the end of OnMessage and OnSyncMessage, handler or not.
AddHandleCnt(w) ==
    /\ pc[w] = "handled"
    /\ unhandled' = unhandled - 1
    /\ task' = [task EXCEPT ![w] = NoTask]
    /\ pc' = [pc EXCEPT ![w] = "top"]
    /\ UNCHANGED <<plan, queue, started, call, ready, mpc, joining, toStop,
                   toStart, posts, starts, off>>

----------------------------------------------------------------------------
(* EnginePool and IOPool *)

\* What is queued for a worker when it starts: the queue of a queue thread
\* survives a stop, a BoostAsioThread makes a new io_service, and what was
\* posted to the old one is gone.
StartQueue(w) == IF plan.engine = "asio" THEN <<>> ELSE queue[w]

\* Tasks that were counted and are gone with their queue.
Places(q) == UNION {{<<w, i>> : i \in DOMAIN q[w]} : w \in Workers}

Dropped(w) ==
    IF plan.service = "IOService" THEN 0
    ELSE Cardinality(Places(queue))
           - Cardinality(Places([queue EXCEPT ![w] = StartQueue(w)]))

\* A SyncThread only notes that it was started.
StartThread == IF plan.engine = "sync" THEN "dead" ELSE "top"

StartAll ==
    /\ mpc \in {"new", "stopped"}
    /\ starts < MaxStarts
    /\ starts' = starts + 1
    /\ mpc' = "starting"
    /\ toStart' = Workers
    /\ UNCHANGED <<plan, queue, started, pc, call, task, ready, unhandled,
                   joining, toStop, posts, off>>

\* EngineStart, and IOPool::Start, go through the workers ...
EngineStart == plan.service = "IHandler" /\ StartAll
ServiceStart == plan.service = "IOService" /\ StartAll

\* ... one by one, while those already started run: ThreadStart sets
\* m_is_started and starts the loop.  The pool counts as started after the
\* last one.
ThreadStart(w) ==
    /\ mpc = "starting"
    /\ w \in toStart
    /\ started' = [started EXCEPT ![w] = TRUE]
    /\ queue' = [queue EXCEPT ![w] = StartQueue(w)]
    /\ off' = off + Dropped(w)
    /\ pc' = [pc EXCEPT ![w] = StartThread]
    /\ toStart' = toStart \ {w}
    /\ mpc' = IF toStart = {w} THEN "started" ELSE "starting"
    /\ UNCHANGED <<plan, call, task, ready, unhandled, joining, toStop,
                   posts, starts>>

\* The application decides to stop the pool: WaitStop ...
StopCall ==
    /\ plan.service = "IHandler"
    /\ mpc = "started"
    /\ "wait" \in plan.stopBy
    /\ mpc' = "waiting"
    /\ UNCHANGED <<plan, queue, started, pc, call, task, ready, unhandled,
                   joining, toStop, toStart, posts, starts, off>>

StopAll ==
    /\ mpc = "started"
    /\ "stop" \in plan.stopBy
    /\ mpc' = "stopping"
    /\ toStop' = Workers
    /\ UNCHANGED <<plan, queue, started, pc, call, task, ready, unhandled,
                   joining, toStart, posts, starts, off>>

\* ... or EngineStop, or IOPool::Stop.
EngineStop == plan.service = "IHandler" /\ StopAll
ServiceStop == plan.service = "IOService" /\ StopAll

\* Mutant: WaitStop tests the counter with <= 1.
AllTaskDone_OneLeft ==
    /\ mpc = "waiting"
    /\ unhandled <= 1
    /\ mpc' = "stopping"
    /\ toStop' = Workers
    /\ UNCHANGED <<plan, queue, started, pc, call, task, ready, unhandled,
                   joining, toStart, posts, starts, off>>

\* WaitStop leaves its loop and calls EngineStop.
AllTaskDone ==
    /\ mpc = "waiting"
    /\ unhandled = 0
    /\ mpc' = "stopping"
    /\ toStop' = Workers
    /\ UNCHANGED <<plan, queue, started, pc, call, task, ready, unhandled,
                   joining, toStart, posts, starts, off>>

\* ThreadStop clears m_is_started ...
ThreadStop(w) ==
    /\ mpc = "stopping"
    /\ joining = NoWorker
    /\ w \in toStop
    /\ started' = [started EXCEPT ![w] = FALSE]
    /\ joining' = w
    /\ UNCHANGED <<plan, queue, pc, call, task, ready, unhandled, mpc, toStop,
                   toStart, posts, starts, off>>

\* Mutant: ThreadStop does not join.
Joined_NotAwaited ==
    /\ mpc = "stopping"
    /\ joining # NoWorker
    /\ toStop' = toStop \ {joining}
    /\ joining' = NoWorker
    /\ mpc' = IF toStop = {joining} THEN "stopped" ELSE "stopping"
    /\ UNCHANGED <<plan, queue, started, pc, call, task, ready, unhandled,
                   toStart, posts, starts, off>>

\* ... and joins the thread; after the last one EngineStop returns.
Joined ==
    /\ mpc = "stopping"
    /\ joining # NoWorker
    /\ pc[joining] = "dead"
    /\ toStop' = toStop \ {joining}
    /\ joining' = NoWorker
    /\ mpc' = IF toStop = {joining} THEN "stopped" ELSE "stopping"
    /\ UNCHANGED <<plan, queue, started, pc, call, task, ready, unhandled,
                   toStart, posts, starts, off>>

----------------------------------------------------------------------------
ActorStep(a) ==
    \/ AddPostCnt(a)
    \/ SyncReturn(a)
    \/ InlineHandled(a)
    \/ SelfHandled(a)
    \/ SelfPost(a)
    \/ SelfHandle(a)

WorkerStep(w) ==
    \/ LoopTest(w)
    \/ Pop(w)
    \/ CallbackReturns(w)
    \/ ServiceReturns(w)
    \/ AddHandleCnt(w)

PoolStep ==
    \/ \E w \in Workers : ThreadStart(w)
    \/ AllTaskDone
    \/ \E w \in Workers : ThreadStop(w)
    \/ Joined

Start == EngineStart \/ ServiceStart

Next ==
    \/ \E c \in plan.calls :
          \/ Post(c.from, c.to, c.sync)
          \/ IF c.sync THEN ServicePostSync(c.from, c.to) ELSE ServicePost(c.from, c.to)
    \/ \E a \in Actors : ActorStep(a)
    \/ \E w \in Workers : WorkerStep(w)
    \/ Start
    \/ StopCall
    \/ EngineStop
    \/ ServiceStop
    \/ PoolStep

Spec == Init /\ [][Next]_vars

\* The pool is started, every thread is scheduled, and an actor that is in a
\* call goes on with it.
FairSpec ==
    /\ Spec
    /\ WF_vars(Start)
    /\ \A a \in Actors : WF_vars(ActorStep(a))
    /\ \A w \in Workers : WF_vars(WorkerStep(w))
    /\ WF_vars(PoolStep)

----------------------------------------------------------------------------
(* Properties *)

\* The values of the variables.  A worker in a callback runs a task that was
\* posted, and after EngineStop or IOPool::Stop has returned no worker runs
\* anything until the next start.
TypeOK ==
    /\ plan \in Plans
    /\ queue \in [Workers -> Seq([id : Nat, sync : BOOLEAN, from : Actors])]
    /\ started \in [Workers -> BOOLEAN]
    /\ pc \in [Actors -> {"dead", "free", "top", "pop", "callback", "handled",
                          "posted", "wait", "inline", "selfHandled", "selfPost", "selfHandle"}]
    /\ call \in [Actors -> [id : Nat, sync : BOOLEAN]]
    /\ task \in [Workers -> [id : Nat, sync : BOOLEAN, from : Actors] \cup {NoTask}]
    /\ \A w \in Workers : pc[w] = "callback" => task[w] # NoTask
    /\ ready \subseteq Actors
    /\ unhandled \in Int /\ off \in Int
    /\ posts \in Nat /\ starts \in Nat
    /\ mpc \in {"new", "starting", "started", "waiting", "stopping", "stopped"}
    /\ joining \in Workers \cup {NoWorker}
    /\ toStop \subseteq Workers /\ toStart \subseteq Workers
    /\ mpc = "stopped" => \A w \in Workers : pc[w] = "dead"

Idle(w) == queue[w] = <<>> /\ task[w] = NoTask
Posting(a) == pc[a] \in {"posted", "selfPost"}

\* WaitStop gives up waiting only when every queue is empty and no callback
\* is running, unless some thread is between the queueing of a task, or its
\* direct execution, and AddPostCnt at that moment, or the count is off.
WaitStopDrains ==
    [][(/\ mpc = "waiting" /\ mpc' = "stopping"
        /\ off = 0 /\ \A a \in Actors : ~Posting(a))
            => \A w \in Workers : Idle(w)]_vars

\* The reference to the caller's promise that a synchronous task carries is
\* used only while its caller is still inside PostSyncMsg.
PromiseAlive ==
    \A w \in Workers :
        LET alive(t) == /\ call[t.from].id = t.id
                        /\ pc[t.from] \in {"posted", "wait"}
        IN
        /\ \A k \in DOMAIN queue[w] : queue[w][k].sync => alive(queue[w][k])
        /\ task[w].sync /\ pc[w] # "handled" => alive(task[w])

\* A PostSyncMsg returns when the calls between workers have no cycle and
\* the pool keeps running, and so does a call from the handler's own thread
\* (i_handler.h: executed directly to avoid a deadlock).
SyncReturns ==
    \A a \in Actors : pc[a] = "wait" /\ plan.stopBy = {} ~> pc[a] # "wait"

\* WaitStop returns when the application only posts, once the clients stop
\* posting and whether or not the messages had handlers (i_handler.h: a
\* message without one counts as handled too), and unless the count is off.
WaitStopReturns ==
    (mpc = "waiting" /\ \A c \in plan.calls : ~c.sync) ~> (mpc = "stopped" \/ off # 0)

\* All tasks posted have been handled and no call is under way.
Quiet ==
    /\ \A w \in Workers : Idle(w)
    /\ \A a \in Actors : pc[a] \in {"dead", "free", "top", "pop"}

\* Every task is counted once and uncounted once, whichever way it takes
\* (docs/io_pool_v2.md: it balances the tasks for WaitStop): when nothing is
\* left m_unhandled_cnt is 0, but for exactly the tasks that a full queue
\* refused or the restart of a BoostAsioThread dropped (counted, and never
\* handled) and the calls of PostSyncMsg from the handler's own thread
\* (uncounted twice, or never counted).
CountBalanced == Quiet => unhandled = off

============================================================================
