-------------------------- MODULE EnginePoolProofs --------------------------
(***************************************************************************)
(* Proofs about EnginePool for every number of clients and workers, every  *)
(* application (Plan) and any number of calls and starts.                  *)
(***************************************************************************)
EXTENDS EnginePool, FiniteSetTheorems, TLAPS

----------------------------------------------------------------------------
(* The inductive invariant *)

\* A worker has a task from the callback until it is counted as handled.  A
\* pool at rest, a worker still to be started and one that has been joined
\* run nothing.  Only
\* IHandler counts.
LifeInv ==
    /\ \A w \in Workers : task[w] = NoTask <=> pc[w] \in {"dead", "top", "pop"}
    /\ \A w \in Workers : pc[w] # "free"
    /\ mpc \in {"new", "stopped"} => \A w \in Workers : pc[w] = "dead"
    /\ mpc = "starting" => \A w \in toStart : pc[w] = "dead"
    /\ mpc = "stopping" => \A w \in Workers \ toStop : pc[w] = "dead"
    /\ joining # NoWorker => mpc = "stopping" /\ joining \in toStop
    /\ mpc = "waiting" => plan.service = "IHandler"
    /\ plan.service = "IOService" =>
           \A a \in Actors : pc[a] \notin {"posted", "inline", "selfHandled", "selfPost",
                                           "selfHandle", "handled"}

\* No two tasks that are queued or running are of the same call.
IdInv ==
    /\ \A w \in Workers : \A k \in DOMAIN queue[w] : queue[w][k].id \in 1 .. posts
    /\ \A w \in Workers : task[w] # NoTask => task[w].id \in 1 .. posts
    /\ \A v, w \in Workers : \A j \in DOMAIN queue[v], k \in DOMAIN queue[w] :
           queue[v][j].id = queue[w][k].id => v = w /\ j = k
    /\ \A v, w \in Workers : \A k \in DOMAIN queue[v] : queue[v][k].id # task[w].id
    /\ \A v, w \in Workers : task[v] # NoTask /\ task[v].id = task[w].id => v = w

\* The caller of t is in the PostSyncMsg that t is of, and has no answer yet.
Waited(t) ==
    /\ call[t.from].id = t.id /\ call[t.from].sync
    /\ pc[t.from] \in {"posted", "wait"}
    /\ t.from \notin ready

\* The synchronous tasks that are still to be answered.
Task == [id : Nat, sync : BOOLEAN, from : Actors]
Queued(t) == \E w \in Workers : \E k \in DOMAIN queue[w] : queue[w][k] = t
Running(t) == \E w \in Workers : task[w] = t /\ pc[w] # "handled"
Unanswered == {t \in Task : t.sync /\ (Queued(t) \/ Running(t))}

SyncInv ==
    /\ \A t \in Unanswered : Waited(t)
    /\ \A a \in ready : pc[a] \in {"posted", "wait"} /\ call[a].sync

\* The tasks that are queued or running are counted, but for those whose
\* callers have not yet come to AddPostCnt.
Busy == {w \in Workers : task[w] # NoTask}
Owing == {a \in Actors : Posting(a)}

CountInv ==
    /\ IsFiniteSet(Places(queue))
    /\ IF plan.service = "IOService"
       THEN unhandled = 0 /\ off = 0
       ELSE unhandled = off + Cardinality(Places(queue)) + Cardinality(Busy)
                            - Cardinality(Owing)

IInv == TypeOK /\ LifeInv /\ IdInv /\ SyncInv /\ CountInv

----------------------------------------------------------------------------
(* Queues *)

\* What Append does to the places of a queue.
LEMMA AppendAt ==
    ASSUME NEW S, NEW q \in Seq(S), NEW e \in S
    PROVE  /\ Append(q, e) \in Seq(S)
           /\ DOMAIN Append(q, e) = DOMAIN q \cup {Len(q) + 1}
           /\ Len(q) + 1 \notin DOMAIN q
           /\ \A k \in DOMAIN q : Append(q, e)[k] = q[k]
           /\ Append(q, e)[Len(q) + 1] = e
OBVIOUS

\* What Tail does to the places of a queue.
LEMMA TailAt ==
    ASSUME NEW S, NEW q \in Seq(S), q # <<>>
    PROVE  /\ Tail(q) \in Seq(S) /\ Head(q) \in S
           /\ DOMAIN Tail(q) = DOMAIN q \ {Len(q)} /\ Len(q) \in DOMAIN q
           /\ \A k \in DOMAIN Tail(q) : k + 1 \in DOMAIN q /\ k + 1 # 1 /\ Tail(q)[k] = q[k + 1]
           /\ 1 \in DOMAIN q /\ Head(q) = q[1]
           /\ \A j, k \in DOMAIN Tail(q) : j + 1 = k + 1 => j = k
OBVIOUS

\* A call of the plan is from an actor to a worker.
LEMMA PlanCalls ==
    ASSUME TypeOK, NEW c \in plan.calls
    PROVE  c.from \in Actors /\ c.to \in Workers /\ c.sync \in BOOLEAN
<1>1. plan \in Plan
  BY ConstantsAssumption DEF TypeOK
<1>. QED
  BY <1>1 DEF Plan

----------------------------------------------------------------------------
(* Types and lives *)

\* A pool that is not started is typed and at rest.
LEMMA InitTypeLife == Init => TypeOK /\ LifeInv
<1> SUFFICES ASSUME Init
             PROVE  TypeOK /\ LifeInv
  OBVIOUS
<1>1. plan \in Plan
  BY ConstantsAssumption DEF Init
<1>2. TypeOK
  BY DEF Init, TypeOK, Actors, NoTask, NoCall
<1>3. LifeInv
  BY ConstantsAssumption DEF Init, LifeInv, Actors
<1>. QED
  BY <1>2, <1>3

\* Enqueue keeps queues typed.
LEMMA EnqueueType ==
    ASSUME TypeOK, NEW w \in Workers, NEW t \in Task, Enqueue(w, t)
    PROVE  queue' \in [Workers -> Seq(Task)] /\ off' \in Int
<1>1. queue \in [Workers -> Seq(Task)] /\ off \in Int
  BY DEF TypeOK, Task
<1>2. queue' = queue \/ queue' = [queue EXCEPT ![w] = Append(queue[w], t)]
  BY DEF Enqueue
<1>3. Append(queue[w], t) \in Seq(Task)
  BY <1>1, AppendAt
<1>4. off' \in Int
  BY <1>1 DEF Enqueue
<1>. QED
  BY <1>1, <1>2, <1>3, <1>4

\* The beginnings of the calls.
LEMMA CallTypeLife ==
    ASSUME TypeOK, LifeInv, NEW a \in Actors, NEW w \in Workers, NEW sync \in BOOLEAN,
           \/ Post(a, w, sync)
           \/ sync /\ ServicePostSync(a, w)
           \/ ~sync /\ ServicePost(a, w)
    PROVE  TypeOK' /\ LifeInv'
<1>1. TaskOf(a, sync) \in Task /\ posts + 1 \in Nat
  BY DEF TypeOK, TaskOf, Task
<1>2. Workers \subseteq Actors
  BY DEF Actors
<1>3. Calls(a, sync) /\ UNCHANGED <<plan, started, task, unhandled, mpc, joining, toStop, toStart, starts>>
  BY DEF Post, ServicePostSync, ServicePost
<1>4. /\ posts' \in Nat /\ call' \in [Actors -> [id : Nat, sync : BOOLEAN]]
      /\ pc[a] = Resting(a)
  BY <1>1, <1>3 DEF Calls, TypeOK
<1>5. queue' \in [Workers -> Seq(Task)] /\ off' \in Int
  <2>1. CASE UNCHANGED <<queue, off>>
    BY <2>1 DEF TypeOK, Task
  <2>2. CASE Enqueue(w, TaskOf(a, sync))
    BY <1>1, <2>2, EnqueueType
  <2>. QED
    BY <2>1, <2>2 DEF Post, ServicePostSync, ServicePost
<1>6. ready' \subseteq Actors
  <2>1. ready \subseteq Actors
    BY DEF TypeOK
  <2>. QED
    BY <2>1 DEF Post, ServicePostSync, ServicePost
<1>7. PICK p \in {"posted", "inline", "selfHandled", "wait", Resting(a)} :
          /\ pc' = [pc EXCEPT ![a] = p]
          /\ plan.service = "IOService" => p \in {"wait", Resting(a)}
  <2>1. pc = [pc EXCEPT ![a] = Resting(a)]
    BY <1>4 DEF TypeOK
  <2>. QED
    BY <2>1 DEF Post, ServicePostSync, ServicePost
<1>8. a \in Workers => pc[a] = "callback"
  BY <1>4 DEF Resting
<1>9. LifeInv'
  BY <1>2, <1>3, <1>7, <1>8 DEF LifeInv, TypeOK, Resting
<1>. QED
  BY <1>2, <1>3, <1>4, <1>5, <1>6, <1>7, <1>9 DEF TypeOK, LifeInv, Task, Resting

\* The rest of a call.
LEMMA ActorTypeLife ==
    ASSUME TypeOK, LifeInv, NEW a \in Actors, ActorStep(a)
    PROVE  TypeOK' /\ LifeInv'
<1>0. ready \subseteq Actors /\ unhandled \in Int /\ off \in Int
  BY DEF TypeOK
<1>1. /\ UNCHANGED <<plan, queue, started, call, task, mpc, joining, toStop, toStart, posts, starts>>
      /\ ready' \subseteq Actors /\ unhandled' \in Int /\ off' \in Int
  <2>1. CASE AddPostCnt(a)
    BY <1>0, <2>1 DEF AddPostCnt
  <2>2. CASE SyncReturn(a)
    BY <1>0, <2>2 DEF SyncReturn
  <2>3. CASE InlineHandled(a)
    BY <1>0, <2>3 DEF InlineHandled
  <2>4. CASE SelfHandled(a)
    BY <1>0, <2>4 DEF SelfHandled
  <2>5. CASE SelfPost(a)
    BY <1>0, <2>5 DEF SelfPost
  <2>6. CASE SelfHandle(a)
    BY <1>0, <2>6 DEF SelfHandle
  <2>. QED
    BY <2>1, <2>2, <2>3, <2>4, <2>5, <2>6 DEF ActorStep
<1>2. PICK p \in {"posted", "selfPost", "selfHandle", "wait", Resting(a)} :
          /\ pc' = [pc EXCEPT ![a] = p]
          /\ pc[a] \in {"posted", "wait", "inline", "selfHandled", "selfPost", "selfHandle"}
          /\ plan.service = "IOService" => p = Resting(a)
  BY DEF ActorStep, AddPostCnt, SyncReturn, InlineHandled, SelfHandled, SelfPost,
         SelfHandle, LifeInv, TypeOK
<1>3. Workers \subseteq Actors
  BY DEF Actors
<1>4. LifeInv'
  BY <1>1, <1>2, <1>3 DEF LifeInv, TypeOK, Resting
<1>. QED
  BY <1>1, <1>2, <1>3, <1>4 DEF TypeOK, LifeInv, Resting

\* The loop.
LEMMA WorkerTypeLife ==
    ASSUME TypeOK, LifeInv, NEW w \in Workers, WorkerStep(w)
    PROVE  TypeOK' /\ LifeInv'
<1>1. /\ UNCHANGED <<plan, started, call, mpc, joining, toStop, toStart, posts, starts, off>>
      /\ unhandled' \in Int /\ w \in Actors /\ Workers \subseteq Actors
  <2>1. unhandled \in Int /\ w \in Actors /\ Workers \subseteq Actors
    BY DEF TypeOK, Actors
  <2>2. CASE LoopTest(w)
    BY <2>1, <2>2 DEF LoopTest
  <2>3. CASE Pop(w)
    BY <2>1, <2>3 DEF Pop
  <2>4. CASE CallbackReturns(w)
    BY <2>1, <2>4 DEF CallbackReturns
  <2>5. CASE ServiceReturns(w)
    BY <2>1, <2>5 DEF ServiceReturns
  <2>6. CASE AddHandleCnt(w)
    BY <2>1, <2>6 DEF AddHandleCnt
  <2>. QED
    BY <2>2, <2>3, <2>4, <2>5, <2>6 DEF WorkerStep
<1>2. CASE LoopTest(w)
  <2>1. PICK p \in {"pop", "dead"} : pc' = [pc EXCEPT ![w] = p] /\ pc[w] = "top"
    BY <1>2 DEF LoopTest
  <2>2. UNCHANGED <<queue, task, ready, unhandled>>
    BY <1>2 DEF LoopTest
  <2>3. TypeOK'
    BY <1>1, <2>1, <2>2 DEF TypeOK
  <2>4. LifeInv'
    BY <1>1, <2>1, <2>2 DEF TypeOK, LifeInv
  <2>. QED
    BY <2>3, <2>4
<1>3. CASE Pop(w)
  <2>1. CASE queue[w] = <<>>
    <3>1. pc' = [pc EXCEPT ![w] = "top"] /\ pc[w] = "pop" /\ UNCHANGED <<queue, task, ready, unhandled>>
      BY <1>3, <2>1 DEF Pop
    <3>2. TypeOK'
      BY <1>1, <3>1 DEF TypeOK, LifeInv
    <3>3. LifeInv'
      BY <1>1, <3>1 DEF TypeOK, LifeInv
    <3>. QED
      BY <3>2, <3>3
  <2>2. CASE queue[w] # <<>>
    <3>1. /\ queue' = [queue EXCEPT ![w] = Tail(queue[w])]
          /\ task' = [task EXCEPT ![w] = Head(queue[w])]
          /\ pc' = [pc EXCEPT ![w] = "callback"] /\ pc[w] = "pop"
          /\ UNCHANGED <<unhandled, ready>>
      BY <1>3, <2>2 DEF Pop
    <3>2. Tail(queue[w]) \in Seq(Task) /\ Head(queue[w]) \in Task
      BY <2>2, TailAt DEF TypeOK, Task
    <3>3. Head(queue[w]) # NoTask
      BY <3>2, ConstantsAssumption DEF Task, NoTask
    <3>. QED
      BY <1>1, <3>1, <3>2, <3>3 DEF TypeOK, LifeInv, Task
  <2>. QED
    BY <2>1, <2>2
<1>4. CASE CallbackReturns(w)
  <2>1. task[w].sync => task[w].from \in Actors
    BY <1>4 DEF CallbackReturns, TypeOK, NoTask
  <2>. QED
    BY <1>1, <1>4, <2>1 DEF CallbackReturns, TypeOK, LifeInv
<1>5. CASE ServiceReturns(w)
  <2>1. task[w].sync => task[w].from \in Actors
    BY <1>5 DEF ServiceReturns, TypeOK, NoTask
  <2>. QED
    BY <1>1, <1>5, <2>1 DEF ServiceReturns, TypeOK, LifeInv
<1>6. CASE AddHandleCnt(w)
  BY <1>1, <1>6 DEF AddHandleCnt, TypeOK, LifeInv
<1>. QED
  BY <1>2, <1>3, <1>4, <1>5, <1>6 DEF WorkerStep

\* Starting and stopping.
LEMMA PoolTypeLife ==
    ASSUME TypeOK, LifeInv, IsFiniteSet(Places(queue)),
           Start \/ StopCall \/ EngineStop \/ ServiceStop \/ PoolStep
    PROVE  TypeOK' /\ LifeInv'
<1>1. Workers \subseteq Actors
  BY DEF Actors
<1>2. CASE Start
  <2>1. /\ mpc \in {"new", "stopped"} /\ mpc' = "starting" /\ starts' = starts + 1
        /\ toStart' = Workers
        /\ UNCHANGED <<plan, queue, started, pc, call, task, ready, unhandled, joining, toStop,
                       posts, off>>
    BY <1>2 DEF Start, EngineStart, ServiceStart, StartAll
  <2>2. TypeOK'
    <3>1. toStart' \in SUBSET Workers /\ starts' \in Nat
      BY <2>1 DEF TypeOK
    <3>2. \A w \in Workers : pc'[w] = "callback" => task'[w] # NoTask
      BY <2>1 DEF TypeOK
    <3>3. mpc' = "stopped" => \A w \in Workers : pc'[w] = "dead"
      BY <2>1
    <3>. QED
      BY <2>1, <3>1, <3>2, <3>3 DEF TypeOK
  <2>3. LifeInv'
    BY <2>1 DEF LifeInv
  <2>. QED
    BY <2>2, <2>3
<1>8. ASSUME NEW w \in Workers, ThreadStart(w)
      PROVE  TypeOK' /\ LifeInv'
  <2>1. Dropped(w) \in Int
    <3>1. queue' = [queue EXCEPT ![w] = StartQueue(w)]
      BY <1>8 DEF ThreadStart
    <3>2. Places(queue') \in SUBSET Places(queue)
      BY <3>1 DEF Places, StartQueue, TypeOK
    <3>3. Cardinality(Places(queue)) \in Nat /\ Cardinality(Places(queue')) \in Nat
      BY <3>2, FS_Subset, FS_CardinalityType
    <3>. QED
      BY <3>1, <3>3 DEF Dropped
  <2>2. queue' \in [Workers -> Seq(Task)]
    <3>1. queue \in [Workers -> Seq(Task)] /\ queue' = [queue EXCEPT ![w] = StartQueue(w)]
      BY <1>8 DEF TypeOK, Task, ThreadStart
    <3>2. <<>> \in Seq(Task)
      OBVIOUS
    <3>3. StartQueue(w) \in Seq(Task)
      BY <3>1, <3>2 DEF StartQueue
    <3>. QED
      BY <3>1, <3>3
  <2>3. /\ pc[w] = "dead" /\ mpc = "starting" /\ w \in toStart
        /\ pc' = [pc EXCEPT ![w] = StartThread] /\ StartThread \in {"dead", "top"}
        /\ started' = [started EXCEPT ![w] = TRUE] /\ off' = off + Dropped(w)
        /\ toStart' = toStart \ {w}
        /\ mpc' = IF toStart = {w} THEN "started" ELSE "starting"
        /\ UNCHANGED <<plan, call, task, ready, unhandled, joining, toStop, posts, starts>>
    BY <1>8 DEF ThreadStart, StartThread, LifeInv
  <2>4. TypeOK'
    <3>1. off' \in Int /\ started' \in [Workers -> BOOLEAN]
      BY <2>1, <2>3 DEF TypeOK
    <3>. QED
      BY <1>1, <2>2, <2>3, <3>1 DEF TypeOK, Task
  <2>5. LifeInv'
    BY <1>1, <2>3 DEF TypeOK, LifeInv
  <2>. QED
    BY <2>4, <2>5
<1>3. CASE StopCall
  BY <1>3 DEF StopCall, TypeOK, LifeInv
<1>4. CASE EngineStop \/ ServiceStop
  BY <1>4 DEF EngineStop, ServiceStop, StopAll, TypeOK, LifeInv
<1>5. CASE AllTaskDone
  BY <1>5 DEF AllTaskDone, TypeOK, LifeInv
<1>6. ASSUME NEW w \in Workers, ThreadStop(w)
      PROVE  TypeOK' /\ LifeInv'
  BY <1>6 DEF ThreadStop, TypeOK, LifeInv
<1>7. CASE Joined
  BY <1>7 DEF Joined, TypeOK, LifeInv
<1>. QED
  BY <1>2, <1>3, <1>4, <1>5, <1>6, <1>7, <1>8 DEF PoolStep

----------------------------------------------------------------------------
(* Identities *)

\* Nothing is queued or run in a new pool.
LEMMA InitId == Init => IdInv
BY DEF Init, IdInv, NoTask

\* A call takes a new identity.
LEMMA CallId ==
    ASSUME TypeOK, IdInv, NEW a \in Actors, NEW w \in Workers, NEW sync \in BOOLEAN,
           \/ Post(a, w, sync)
           \/ sync /\ ServicePostSync(a, w)
           \/ ~sync /\ ServicePost(a, w)
    PROVE  IdInv'
<1>1. posts' = posts + 1 /\ posts \in Nat /\ UNCHANGED task
  BY DEF Post, ServicePostSync, ServicePost, Calls, TypeOK
<1>2. UNCHANGED queue \/ Enqueue(w, TaskOf(a, sync))
  BY DEF Post, ServicePostSync, ServicePost
<1>3. CASE UNCHANGED queue
  BY <1>1, <1>3 DEF IdInv
<1>4. CASE queue' = [queue EXCEPT ![w] = Append(queue[w], TaskOf(a, sync))]
  <2>1. queue \in [Workers -> Seq(Task)] /\ TaskOf(a, sync) \in Task
    <3>1. queue \in [Workers -> Seq(Task)]
      BY DEF TypeOK, Task
    <3>2. posts + 1 \in Nat
      BY <1>1
    <3>3. TaskOf(a, sync) \in Task
      BY <3>2 DEF Task, TaskOf
    <3>. QED
      BY <3>1, <3>3
  <2>2. TaskOf(a, sync).id = posts + 1
    BY DEF TaskOf
  <2>3. /\ \A v \in Workers \ {w} : queue'[v] = queue[v]
        /\ queue'[w] = Append(queue[w], TaskOf(a, sync))
    BY <1>4, <2>1
  <2>4. /\ DOMAIN queue'[w] = DOMAIN queue[w] \cup {Len(queue[w]) + 1}
        /\ \A k \in DOMAIN queue[w] : queue'[w][k] = queue[w][k]
        /\ queue'[w][Len(queue[w]) + 1].id = posts + 1
    BY <2>1, <2>2, <2>3, AppendAt
  <2>5. \A v \in Workers : \A k \in DOMAIN queue'[v] :
            \/ k \in DOMAIN queue[v] /\ queue'[v][k] = queue[v][k]
            \/ v = w /\ k = Len(queue[w]) + 1 /\ queue'[v][k].id = posts + 1
    BY <2>3, <2>4
  <2>6. \A v \in Workers : task[v].id # posts + 1
    BY <1>1 DEF IdInv, NoTask
  <2>. QED
    BY <1>1, <2>5, <2>6 DEF IdInv
<1>. QED
  BY <1>2, <1>3, <1>4 DEF Enqueue

\* Pop moves a task; the end of its run clears it.
LEMMA WorkerId ==
    ASSUME TypeOK, LifeInv, IdInv, NEW w \in Workers, WorkerStep(w)
    PROVE  IdInv'
<1>1. posts' = posts /\ posts \in Nat
  BY DEF WorkerStep, LoopTest, Pop, CallbackReturns, ServiceReturns, AddHandleCnt, TypeOK
<1>2. CASE UNCHANGED <<queue, task>>
  BY <1>1, <1>2 DEF IdInv
<1>3. CASE UNCHANGED queue /\ task' = [task EXCEPT ![w] = NoTask]
  <2>1. \A v \in Workers : task'[v] = IF v = w THEN NoTask ELSE task[v]
    BY <1>3 DEF TypeOK
  <2>2. \A u \in Workers : \A k \in DOMAIN queue[u] : queue[u][k].id # NoTask.id
    BY <1>1 DEF IdInv, NoTask
  <2>3. \A u \in Workers : task[u] # NoTask => task[u].id # NoTask.id
    BY <1>1 DEF IdInv, NoTask
  <2>. QED
    BY <1>1, <1>3, <2>1, <2>2, <2>3 DEF IdInv
<1>4. CASE /\ queue[w] # <<>> /\ pc[w] = "pop"
           /\ queue' = [queue EXCEPT ![w] = Tail(queue[w])]
           /\ task' = [task EXCEPT ![w] = Head(queue[w])]
  <2>1. queue \in [Workers -> Seq(Task)]
    BY DEF TypeOK, Task
  <2>2. \A v \in Workers : task'[v] = IF v = w THEN queue[w][1] ELSE task[v]
    BY <1>4, <2>1, TailAt DEF TypeOK
  <2>3. task[w] = NoTask /\ 1 \in DOMAIN queue[w]
    BY <1>4, <2>1, TailAt DEF LifeInv
  <2>4. /\ \A v \in Workers \ {w} : queue'[v] = queue[v]
        /\ queue'[w] = Tail(queue[w])
    BY <1>4, <2>1
  <2>. DEFINE Old(v, k) == IF v = w THEN k + 1 ELSE k
  <2>5. \A k \in DOMAIN queue'[w] :
            k \in Int /\ k + 1 \in DOMAIN queue[w] /\ k + 1 # 1 /\ queue'[w][k] = queue[w][k + 1]
    BY <1>4, <2>1, <2>4, TailAt
  <2>6. \A v \in Workers : \A k \in DOMAIN queue'[v] :
            /\ Old(v, k) \in DOMAIN queue[v] /\ queue'[v][k] = queue[v][Old(v, k)]
            /\ ~(v = w /\ Old(v, k) = 1)
    BY <2>4, <2>5
  <2>7. \A v \in Workers : \A j, k \in DOMAIN queue'[v] : Old(v, j) = Old(v, k) => j = k
    BY <2>5
  <2>8. \A v \in Workers : \A k \in DOMAIN queue'[v] : queue'[v][k].id \in 1 .. posts
    BY <2>6 DEF IdInv
  <2>9. \A v \in Workers : task'[v] # NoTask => task'[v].id \in 1 .. posts
    BY <2>2, <2>3 DEF IdInv
  <2>10. ASSUME NEW u \in Workers, NEW v \in Workers,
                NEW j \in DOMAIN queue'[u], NEW k \in DOMAIN queue'[v],
                queue'[u][j].id = queue'[v][k].id
         PROVE  u = v /\ j = k
    <3>1. u = v /\ Old(u, j) = Old(v, k)
      <4>. HIDE DEF Old
      <4>. QED
        BY <2>6, <2>10 DEF IdInv
    <3>. QED
      BY <2>7, <3>1
  <2>11. ASSUME NEW u \in Workers, NEW v \in Workers, NEW k \in DOMAIN queue'[u]
         PROVE  queue'[u][k].id # task'[v].id
    <3>1. Old(u, k) \in DOMAIN queue[u] /\ queue'[u][k] = queue[u][Old(u, k)]
      BY <2>6
    <3>2. CASE v = w
      <4>1. task'[v] = queue[w][1] /\ ~(u = w /\ Old(u, k) = 1)
        BY <2>2, <2>6, <3>2
      <4>. HIDE DEF Old
      <4>. QED
        BY <2>3, <3>1, <4>1 DEF IdInv
    <3>3. CASE v # w
      <4>1. task'[v] = task[v]
        BY <2>2, <3>3
      <4>. HIDE DEF Old
      <4>. QED
        BY <3>1, <4>1 DEF IdInv
    <3>. QED
      BY <3>2, <3>3
  <2>12. \A u, v \in Workers : task'[u] # NoTask /\ task'[u].id = task'[v].id => u = v
    <3>1. \A v \in Workers : queue[w][1].id # task[v].id
      BY <2>3 DEF IdInv
    <3>. QED
      BY <2>2, <3>1 DEF IdInv
  <2>. QED
    BY <1>1, <2>8, <2>9, <2>10, <2>11, <2>12 DEF IdInv
<1>. QED
  BY <1>2, <1>3, <1>4 DEF WorkerStep, LoopTest, Pop, CallbackReturns, ServiceReturns,
     AddHandleCnt

\* A start only drops tasks; the other steps move none.
LEMMA PoolId ==
    ASSUME TypeOK, IdInv,
           \/ \E a \in Actors : ActorStep(a)
           \/ Start \/ StopCall \/ EngineStop \/ ServiceStop \/ PoolStep
           \/ UNCHANGED vars
    PROVE  IdInv'
<1>1. CASE UNCHANGED <<queue, task, posts>>
  BY <1>1 DEF IdInv
<1>2. ASSUME NEW w \in Workers, ThreadStart(w)
      PROVE  IdInv'
  <2>1. queue' = [queue EXCEPT ![w] = StartQueue(w)] /\ UNCHANGED <<task, posts>>
    BY <1>2 DEF ThreadStart
  <2>2. \A v \in Workers : \A k \in DOMAIN queue'[v] :
            k \in DOMAIN queue[v] /\ queue'[v][k] = queue[v][k]
    BY <2>1 DEF StartQueue, TypeOK
  <2>. QED
    BY <2>1, <2>2 DEF IdInv
<1>3. CASE \E a \in Actors : ActorStep(a)
  BY <1>1, <1>3 DEF ActorStep, AddPostCnt, SyncReturn, InlineHandled, SelfHandled, SelfPost,
     SelfHandle
<1>4. CASE Start \/ StopCall \/ EngineStop \/ ServiceStop \/ PoolStep
  BY <1>1, <1>2, <1>4 DEF Start, EngineStart, ServiceStart, StartAll, StopCall, EngineStop,
     ServiceStop, StopAll, PoolStep, AllTaskDone, ThreadStop, Joined
<1>. QED
  BY <1>1, <1>3, <1>4 DEF vars

----------------------------------------------------------------------------
(* Promises *)

\* Nobody waits for a new pool.
LEMMA InitSync == Init => SyncInv
BY DEF Init, SyncInv, Unanswered, Queued, Running, NoTask

\* The caller of a new task is not waited for by any other.
LEMMA CallSync ==
    ASSUME TypeOK, LifeInv, SyncInv,
           NEW a \in Actors, NEW w \in Workers, NEW sync \in BOOLEAN,
           \/ Post(a, w, sync)
           \/ sync /\ ServicePostSync(a, w)
           \/ ~sync /\ ServicePost(a, w)
    PROVE  SyncInv'
<1>0. PICK T : T = TaskOf(a, sync)
  OBVIOUS
<1>1. /\ pc[a] \in {"callback", "free"} /\ UNCHANGED task
      /\ call' = [call EXCEPT ![a] = [id |-> posts + 1, sync |-> sync]]
  BY DEF Post, ServicePostSync, ServicePost, Calls, Resting
<1>2. a \notin ready /\ \A t \in Unanswered : Waited(t) /\ t.from # a /\ t.from \in Actors
  BY <1>1 DEF SyncInv, Waited, Unanswered, Task
<1>3. PICK p \in {"posted", "inline", "selfHandled", "wait", Resting(a)} :
          pc' = [pc EXCEPT ![a] = p]
  <2>1. pc = [pc EXCEPT ![a] = Resting(a)]
    BY DEF TypeOK, Post, ServicePostSync, ServicePost, Calls
  <2>. QED
    BY <2>1 DEF Post, ServicePostSync, ServicePost
<1>4. /\ ready' \subseteq ready \cup {a}
      /\ a \in ready' => sync /\ p = "wait"
  BY <1>2, <1>3 DEF Post, ServicePostSync, ServicePost, TypeOK
<1>5. \A t \in Unanswered : Waited(t)'
  BY <1>1, <1>2, <1>3, <1>4 DEF Waited, TypeOK
<1>6. \A b \in ready' : pc'[b] \in {"posted", "wait"} /\ call'[b].sync
  BY <1>1, <1>2, <1>3, <1>4 DEF SyncInv, TypeOK
<1>7. \A t : Running(t)' => Running(t)
  BY <1>1, <1>3 DEF Running, TypeOK, Actors
<1>8. CASE UNCHANGED queue
  <2>1. Unanswered' \subseteq Unanswered
    BY <1>7, <1>8 DEF Unanswered, Queued
  <2>. QED
    BY <1>5, <1>6, <2>1 DEF SyncInv
<1>9. CASE /\ queue' = [queue EXCEPT ![w] = Append(queue[w], T)]
           /\ UNCHANGED ready
           /\ sync => p \in {"posted", "wait"}
  <2>1. T \in Task /\ T.id = posts + 1 /\ T.sync = sync /\ T.from = a
    <3>1. posts + 1 \in Nat
      BY DEF TypeOK
    <3>. QED
      BY <1>0, <3>1 DEF TaskOf, Task
  <2>2. \A t : Queued(t)' => Queued(t) \/ t = T
    <3>1. queue \in [Workers -> Seq(Task)]
      BY DEF TypeOK, Task
    <3>2. /\ queue'[w] = Append(queue[w], T)
          /\ \A v \in Workers \ {w} : queue'[v] = queue[v]
      BY <1>9, <3>1
    <3>3. /\ DOMAIN queue'[w] = DOMAIN queue[w] \cup {Len(queue[w]) + 1}
          /\ \A k \in DOMAIN queue[w] : queue'[w][k] = queue[w][k]
          /\ queue'[w][Len(queue[w]) + 1] = T
      BY <2>1, <3>1, <3>2, AppendAt
    <3>. QED
      BY <3>2, <3>3 DEF Queued
  <2>3. Unanswered' \subseteq Unanswered \cup {T}
    BY <1>7, <2>2 DEF Unanswered
  <2>4. sync => Waited(T)'
    <3>1. call'[a].id = posts + 1 /\ call'[a].sync = sync /\ pc'[a] = p /\ a \notin ready'
      <4>1. call \in [Actors -> [id : Nat, sync : BOOLEAN]] /\ a \in DOMAIN pc
        BY DEF TypeOK
      <4>. QED
        BY <1>1, <1>2, <1>3, <1>9, <4>1
    <3>2. sync => p \in {"posted", "wait"}
      BY <1>9
    <3>. QED
      BY <2>1, <3>1, <3>2 DEF Waited
  <2>5. \A t \in Unanswered' : t.sync
    BY DEF Unanswered
  <2>. QED
    BY <1>5, <1>6, <2>1, <2>3, <2>4, <2>5 DEF SyncInv
<1>. QED
  <2>1. UNCHANGED queue \/ queue' = [queue EXCEPT ![w] = Append(queue[w], T)]
    BY <1>0 DEF Post, ServicePostSync, ServicePost, Enqueue
  <2>2. CASE queue' # queue
    BY <1>3, <1>9, <2>1, <2>2 DEF Post, ServicePostSync, ServicePost, TypeOK
  <2>. QED
    BY <1>8, <2>2

\* An actor leaves PostSyncMsg with its answer only.
LEMMA ActorSync ==
    ASSUME TypeOK, LifeInv, SyncInv, NEW a \in Actors, ActorStep(a)
    PROVE  SyncInv'
<1>0. pc = [b \in Actors |-> pc[b]] /\ Workers \subseteq Actors
  BY DEF TypeOK, Actors
<1>1. UNCHANGED <<queue, task, call>> /\ \E p : pc' = [pc EXCEPT ![a] = p]
  BY DEF ActorStep, AddPostCnt, SyncReturn, InlineHandled, SelfHandled, SelfPost, SelfHandle
<1>2. PICK p : pc' = [pc EXCEPT ![a] = p]
  BY <1>1
<1>3. pc[a] \in {"posted", "wait", "inline", "selfHandled", "selfPost", "selfHandle"}
  BY DEF ActorStep, AddPostCnt, SyncReturn, InlineHandled, SelfHandled, SelfPost, SelfHandle
<1>4. Unanswered' \subseteq Unanswered
  BY <1>0, <1>1, <1>2, <1>3 DEF Unanswered, Queued, Running
<1>5. CASE AddPostCnt(a)
  <2>1. UNCHANGED ready /\ pc[a] = "posted" /\ (call[a].sync => pc'[a] = "wait")
    BY <1>0, <1>5 DEF AddPostCnt
  <2>. QED
    BY <1>0, <1>1, <1>2, <1>4, <2>1 DEF SyncInv, Waited, Unanswered, Task
<1>6. CASE SyncReturn(a)
  <2>1. a \in ready /\ ready' = ready \ {a}
    BY <1>6 DEF SyncReturn
  <2>2. \A t \in Unanswered : t.from # a
    BY <2>1 DEF SyncInv, Waited
  <2>. QED
    BY <1>0, <1>1, <1>2, <1>4, <2>1, <2>2 DEF SyncInv, Waited, Unanswered, Task, TypeOK
<1>7. CASE InlineHandled(a) \/ SelfHandled(a) \/ SelfPost(a) \/ SelfHandle(a)
  <2>1. UNCHANGED ready /\ pc[a] \notin {"posted", "wait"}
    BY <1>7 DEF InlineHandled, SelfHandled, SelfPost, SelfHandle
  <2>2. a \notin ready /\ \A t \in Unanswered : t.from # a
    BY <2>1 DEF SyncInv, Waited
  <2>. QED
    BY <1>0, <1>1, <1>2, <1>4, <2>1, <2>2 DEF SyncInv, Waited, Unanswered, Task, TypeOK
<1>. QED
  BY <1>5, <1>6, <1>7 DEF ActorStep

\* A worker answers the call that its task is of and no other.
LEMMA WorkerSync ==
    ASSUME TypeOK, LifeInv, IdInv, SyncInv, NEW w \in Workers, WorkerStep(w)
    PROVE  SyncInv'
<1>0. pc = [b \in Actors |-> pc[b]] /\ Workers \subseteq Actors /\ w \in Actors
  BY DEF TypeOK, Actors
<1>1. /\ UNCHANGED call /\ pc[w] \in {"top", "pop", "callback", "handled"}
      /\ \E p : pc' = [pc EXCEPT ![w] = p]
  BY DEF WorkerStep, LoopTest, Pop, CallbackReturns, ServiceReturns, AddHandleCnt
<1>2. PICK p : pc' = [pc EXCEPT ![w] = p]
  BY <1>1
<1>3. w \notin ready /\ \A t \in Unanswered : Waited(t) /\ t.from # w /\ t.from \in Actors
  BY <1>1 DEF SyncInv, Waited, Unanswered, Task
<1>4. CASE UNCHANGED ready /\ Unanswered' \subseteq Unanswered
  <2>1. \A t \in Unanswered : Waited(t)'
    BY <1>0, <1>1, <1>2, <1>3, <1>4 DEF Waited
  <2>2. \A b \in ready' : pc'[b] \in {"posted", "wait"} /\ call'[b].sync
    BY <1>0, <1>1, <1>2, <1>3, <1>4 DEF SyncInv, TypeOK
  <2>. QED
    BY <1>4, <2>1, <2>2 DEF SyncInv
<1>5. CASE LoopTest(w) \/ AddHandleCnt(w)
  <2>1. UNCHANGED <<queue, ready>>
    BY <1>5 DEF LoopTest, AddHandleCnt
  <2>2. \A v \in Workers : \/ task'[v] = task[v] /\ (v = w => pc[v] = "top")
                           \/ v = w /\ task'[v] = NoTask
    <3>1. task = [v \in Workers |-> task[v]]
      BY DEF TypeOK
    <3>2. CASE LoopTest(w)
      BY <3>2 DEF LoopTest
    <3>3. CASE AddHandleCnt(w)
      BY <3>1, <3>3 DEF AddHandleCnt
    <3>. QED
      BY <1>5, <3>2, <3>3
  <2>3. \A t \in Task : t.sync /\ Running(t)' => Running(t)
    <3>1. \A v \in Workers : task'[v] # NoTask => task'[v] = task[v] /\ (v = w => pc[v] = "top")
      BY <2>2
    <3>2. \A v \in Workers \ {w} : pc'[v] = pc[v]
      BY <1>0, <1>2
    <3>. QED
      BY <3>1, <3>2 DEF Running, NoTask
  <2>. QED
    BY <1>4, <2>1, <2>3 DEF Unanswered, Queued
<1>6. CASE Pop(w)
  <2>1. UNCHANGED ready
    BY <1>6 DEF Pop
  <2>2. CASE UNCHANGED <<queue, task>> /\ pc[w] = "pop"
    <3>1. \A t : Running(t)' => Running(t)
      BY <1>0, <1>2, <2>2 DEF Running
    <3>. QED
      BY <1>4, <2>1, <2>2, <3>1 DEF Unanswered, Queued
  <2>3. CASE /\ queue[w] # <<>>
             /\ queue' = [queue EXCEPT ![w] = Tail(queue[w])]
             /\ task' = [task EXCEPT ![w] = Head(queue[w])]
    <3>1. queue \in [Workers -> Seq(Task)]
      BY DEF TypeOK, Task
    <3>2. /\ \A k \in DOMAIN queue'[w] : k + 1 \in DOMAIN queue[w] /\ queue'[w][k] = queue[w][k + 1]
          /\ 1 \in DOMAIN queue[w] /\ task'[w] = queue[w][1]
          /\ \A v \in Workers \ {w} : queue'[v] = queue[v] /\ task'[v] = task[v]
      BY <2>3, <3>1, TailAt DEF TypeOK
    <3>3. \A t : Queued(t)' => Queued(t)
      BY <3>2 DEF Queued
    <3>4. \A t : Running(t)' => Running(t) \/ Queued(t)
      BY <1>0, <1>2, <3>2 DEF Queued, Running
    <3>. QED
      BY <1>4, <2>1, <3>3, <3>4 DEF Unanswered
  <2>. QED
    BY <1>6, <2>2, <2>3 DEF Pop
<1>7. CASE CallbackReturns(w) \/ ServiceReturns(w)
  <2>1. /\ pc[w] = "callback" /\ UNCHANGED queue
        /\ ready' = IF task[w].sync /\ Handled(TRUE) THEN ready \cup {task[w].from} ELSE ready
        /\ \/ UNCHANGED task /\ p = "handled"
           \/ task' = [task EXCEPT ![w] = NoTask]
    BY <1>0, <1>2, <1>7 DEF CallbackReturns, ServiceReturns
  <2>2. \A t \in Task : t.sync /\ Running(t)' => Running(t) /\ \E v \in Workers \ {w} : task[v] = t
    BY <1>0, <1>2, <2>1 DEF Running, NoTask, TypeOK
  <2>3. Unanswered' \subseteq Unanswered
    BY <2>1, <2>2 DEF Unanswered, Queued
  <2>4. CASE UNCHANGED ready
    BY <1>4, <2>3, <2>4
  <2>5. CASE task[w].sync /\ ready' = ready \cup {task[w].from}
    <3>1. task[w] # NoTask /\ task[w] \in Task
      BY <2>5 DEF TypeOK, Task, NoTask
    <3>2. task[w] \in Unanswered
      BY <2>1, <2>5, <3>1 DEF Unanswered, Running
    <3>3. \A t \in Unanswered' : t.id # task[w].id
      BY <2>1, <2>2, <3>1 DEF Unanswered, Queued, IdInv
    <3>4. \A t \in Unanswered' : Waited(t)'
      BY <1>0, <1>1, <1>2, <1>3, <2>3, <2>5, <3>2, <3>3 DEF Waited
    <3>5. \A b \in ready' : pc'[b] \in {"posted", "wait"} /\ call'[b].sync
      <4>1. \A b \in ready' : b # w /\ b \in Actors /\ pc[b] \in {"posted", "wait"} /\ call[b].sync
        BY <1>3, <2>5, <3>2 DEF Waited, SyncInv, TypeOK
      <4>. QED
        BY <1>0, <1>1, <1>2, <4>1
    <3>. QED
      BY <3>4, <3>5 DEF SyncInv
  <2>. QED
    BY <2>1, <2>4, <2>5
<1>. QED
  BY <1>5, <1>6, <1>7 DEF WorkerStep

\* Starts and stops leave the callers alone.
LEMMA PoolSync ==
    ASSUME TypeOK, LifeInv, SyncInv,
           \/ Start \/ StopCall \/ EngineStop \/ ServiceStop \/ PoolStep
           \/ UNCHANGED vars
    PROVE  SyncInv'
<1>1. CASE UNCHANGED <<queue, task, pc, call, ready>>
  BY <1>1 DEF SyncInv, Unanswered, Queued, Running, Waited
<1>2. ASSUME NEW w \in Workers, ThreadStart(w)
      PROVE  SyncInv'
  <2>1. /\ queue' = [queue EXCEPT ![w] = StartQueue(w)] /\ UNCHANGED <<task, call, ready>>
        /\ pc' = [pc EXCEPT ![w] = StartThread]
        /\ pc[w] = "dead" /\ task[w] = NoTask
    BY <1>2 DEF ThreadStart, LifeInv
  <2>2. \A t : Queued(t)' => Queued(t)
    BY <2>1 DEF Queued, StartQueue, TypeOK
  <2>3. \A a \in Actors : a # w => pc'[a] = pc[a]
    BY <2>1 DEF TypeOK
  <2>4. Unanswered' \subseteq Unanswered
    <3>1. \A t \in Task : Running(t)' => Running(t)
      BY <2>1, <2>3, ConstantsAssumption DEF Running, Task, NoTask, Actors
    <3>. QED
      BY <2>2, <3>1 DEF Unanswered
  <2>5. \A t \in Unanswered' : Waited(t)'
    <3>1. \A t \in Unanswered : t.from \in Actors /\ Waited(t)
      BY DEF Unanswered, Task, SyncInv
    <3>. QED
      BY <2>1, <2>3, <2>4, <3>1 DEF Waited
  <2>6. \A b \in ready' : pc'[b] \in {"posted", "wait"} /\ call'[b].sync
    BY <2>1, <2>3 DEF SyncInv, TypeOK
  <2>. QED
    BY <2>5, <2>6 DEF SyncInv
<1>3. CASE Start
  BY <1>1, <1>3 DEF Start, EngineStart, ServiceStart, StartAll
<1>. QED
  BY <1>1, <1>2, <1>3 DEF StopCall, EngineStop, ServiceStop, StopAll, PoolStep, AllTaskDone,
     ThreadStop, Joined, vars

----------------------------------------------------------------------------
(* Counts *)

\* A set that grows by one element.
LEMMA OneMore ==
    ASSUME NEW S, NEW T, NEW x, IsFiniteSet(S), x \notin S, T = S \cup {x}
    PROVE  IsFiniteSet(T) /\ Cardinality(S) \in Nat /\ Cardinality(T) = Cardinality(S) + 1
BY FS_AddElement, FS_CardinalityType

\* A set that shrinks by one element.
LEMMA OneLess ==
    ASSUME NEW S, NEW T, NEW x, IsFiniteSet(S), x \in S, T = S \ {x}
    PROVE  IsFiniteSet(T) /\ Cardinality(S) \in Nat /\ Cardinality(T) = Cardinality(S) - 1
BY FS_RemoveElement, FS_CardinalityType

\* A place is a worker and an index of its queue.
LEMMA PlaceOf ==
    ASSUME NEW q, NEW x
    PROVE  x \in Places(q) <=> \E v \in Workers : \E i \in DOMAIN q[v] : x = <<v, i>>
BY DEF Places

\* Append at one queue adds one place.
LEMMA PlacesAppend ==
    ASSUME NEW q \in [Workers -> Seq(Task)], NEW w \in Workers, NEW t \in Task
    PROVE  LET r == [q EXCEPT ![w] = Append(q[w], t)]
               x == <<w, Len(q[w]) + 1>>
           IN  x \notin Places(q) /\ Places(r) = Places(q) \cup {x}
<1>. DEFINE r == [q EXCEPT ![w] = Append(q[w], t)]
            x == <<w, Len(q[w]) + 1>>
<1>1. /\ DOMAIN r[w] = DOMAIN q[w] \cup {Len(q[w]) + 1}
      /\ Len(q[w]) + 1 \notin DOMAIN q[w]
      /\ \A v \in Workers \ {w} : r[v] = q[v]
  BY AppendAt
<1>. HIDE DEF r
<1>2. x \notin Places(q)
  BY <1>1, PlaceOf
<1>3. \A y : y \in Places(r) <=> y \in Places(q) \/ y = x
  BY <1>1, PlaceOf
<1>4. Places(r) = Places(q) \cup {x}
  BY <1>3
<1>. QED
  BY <1>2, <1>4 DEF r

\* Tail at one queue removes one place.
LEMMA PlacesTail ==
    ASSUME NEW q \in [Workers -> Seq(Task)], NEW w \in Workers, q[w] # <<>>
    PROVE  LET r == [q EXCEPT ![w] = Tail(q[w])]
               x == <<w, Len(q[w])>>
           IN  x \in Places(q) /\ Places(r) = Places(q) \ {x}
<1>. DEFINE r == [q EXCEPT ![w] = Tail(q[w])]
            x == <<w, Len(q[w])>>
<1>1. /\ DOMAIN r[w] = DOMAIN q[w] \ {Len(q[w])}
      /\ Len(q[w]) \in DOMAIN q[w]
      /\ \A v \in Workers \ {w} : r[v] = q[v]
  BY TailAt
<1>. HIDE DEF r
<1>2. x \in Places(q)
  BY <1>1, PlaceOf
<1>3. \A y : y \in Places(r) <=> y \in Places(q) /\ y # x
  BY <1>1, PlaceOf
<1>4. Places(r) = Places(q) \ {x}
  BY <1>3
<1>. QED
  BY <1>2, <1>4 DEF r

\* Busy workers and owing actors are finitely many.
LEMMA FewActors ==
    /\ IsFiniteSet(Busy) /\ Cardinality(Busy) \in Nat
    /\ IsFiniteSet(Owing) /\ Cardinality(Owing) \in Nat
<1>1. Busy \in SUBSET Actors /\ Owing \in SUBSET Actors
  BY DEF Busy, Owing, Actors
<1>. QED
  BY <1>1, ConstantsAssumption, FS_Subset, FS_CardinalityType

\* A new pool has nothing to count.
LEMMA InitCount == Init => CountInv
<1> SUFFICES ASSUME Init
             PROVE  CountInv
  OBVIOUS
<1>1. Places(queue) = {}
  <2>1. \A x : x \notin Places(queue)
    BY PlaceOf DEF Init
  <2>. QED
    BY <2>1
<1>2. Busy = {} /\ Owing = {}
  BY DEF Init, Busy, Owing, Posting, Actors
<1>3. unhandled = 0 /\ off = 0
  BY DEF Init
<1>4. IsFiniteSet({}) /\ Cardinality({}) = 0
  BY FS_EmptySet
<1>. QED
  BY <1>1, <1>2, <1>3, <1>4 DEF CountInv

\* The invariant in the next state, from its parts.
LEMMA CountNext ==
    ASSUME TypeOK, UNCHANGED plan, IsFiniteSet(Places(queue')),
           plan.service = "IOService" => unhandled' = 0 /\ off' = 0,
           plan.service = "IHandler" =>
               unhandled' = off' + Cardinality(Places(queue')) + Cardinality(Busy')
                                 - Cardinality(Owing')
    PROVE  CountInv'
<1>1. plan.service \in {"IHandler", "IOService"}
  BY ConstantsAssumption DEF TypeOK, Plan
<1>2. Places(queue)' = Places(queue')
  BY DEF Places
<1>. QED
  BY <1>1, <1>2 DEF CountInv

\* The invariant in this state.
LEMMA CountNow ==
    ASSUME TypeOK, CountInv
    PROVE  /\ IsFiniteSet(Places(queue)) /\ Cardinality(Places(queue)) \in Nat
           /\ unhandled \in Int /\ off \in Int
           /\ plan.service = "IOService" => unhandled = 0 /\ off = 0
           /\ plan.service = "IHandler" =>
                  unhandled = off + Cardinality(Places(queue)) + Cardinality(Busy)
                                  - Cardinality(Owing)
BY FS_CardinalityType DEF CountInv, TypeOK

\* A call is counted once: by its place, by its caller who owes it, or in off.
LEMMA CallCount ==
    ASSUME TypeOK, LifeInv, CountInv,
           NEW a \in Actors, NEW w \in Workers, NEW sync \in BOOLEAN,
           \/ Post(a, w, sync)
           \/ sync /\ ServicePostSync(a, w)
           \/ ~sync /\ ServicePost(a, w)
    PROVE  CountInv'
<1>0. queue \in [Workers -> Seq(Task)] /\ pc = [b \in Actors |-> pc[b]]
  BY DEF TypeOK, Task
<1>1. TaskOf(a, sync) \in Task
  <2>1. posts + 1 \in Nat
    BY DEF TypeOK
  <2>. QED
    BY <2>1 DEF TaskOf, Task
<1>2. /\ pc[a] \in {"callback", "free"} /\ a \notin Owing
      /\ UNCHANGED <<plan, task, unhandled>> /\ Busy' = Busy
  BY DEF Post, ServicePostSync, ServicePost, Calls, Resting, Owing, Posting, Busy
<1>3. CASE /\ UNCHANGED queue /\ UNCHANGED off
           /\ plan.service = "IHandler" => Owing' = Owing
  BY <1>2, <1>3, CountNow, CountNext
<1>4. ASSUME queue' = [queue EXCEPT ![w] = Append(queue[w], TaskOf(a, sync))]
      PROVE  IsFiniteSet(Places(queue')) /\ Cardinality(Places(queue')) = Cardinality(Places(queue)) + 1
  <2>. DEFINE x == <<w, Len(queue[w]) + 1>>
  <2>1. x \notin Places(queue) /\ Places(queue') = Places(queue) \cup {x}
    BY <1>0, <1>1, <1>4, PlacesAppend
  <2>. QED
    BY <2>1, CountNow, OneMore
<1>5. CASE Enqueue(w, TaskOf(a, sync)) /\ plan.service = "IOService"
  <2>1. UNCHANGED off
    BY <1>5 DEF Enqueue
  <2>2. IsFiniteSet(Places(queue'))
    BY <1>4, <1>5, CountNow DEF Enqueue
  <2>. QED
    BY <1>2, <1>5, <2>1, <2>2, CountNow, CountNext
<1>6. CASE /\ Enqueue(w, TaskOf(a, sync)) /\ plan.service = "IHandler"
           /\ pc' = [pc EXCEPT ![a] = "posted"]
  <2>1. Owing' = Owing \cup {a}
    BY <1>0, <1>6 DEF Owing, Posting
  <2>2. Cardinality(Owing') = Cardinality(Owing) + 1
    BY <1>2, <2>1, FewActors, OneMore
  <2>3. CASE UNCHANGED queue /\ off' = off + 1
    BY <1>2, <1>6, <2>2, <2>3, FewActors, CountNow, CountNext
  <2>4. CASE queue' = [queue EXCEPT ![w] = Append(queue[w], TaskOf(a, sync))] /\ UNCHANGED off
    BY <1>2, <1>4, <1>6, <2>2, <2>4, FewActors, CountNow, CountNext
  <2>. QED
    BY <1>6, <2>3, <2>4 DEF Enqueue
<1>7. CASE /\ UNCHANGED <<queue, off>>
           /\ pc' = [pc EXCEPT ![a] = "inline"] \/ pc' = [pc EXCEPT ![a] = "selfHandled"]
  <2>1. Owing' = Owing
    BY <1>0, <1>2, <1>7 DEF Owing, Posting
  <2>. QED
    BY <1>3, <1>7, <2>1
<1>8. CASE Post(a, w, sync)
  BY <1>6, <1>7, <1>8 DEF Post
<1>9. CASE sync /\ ServicePostSync(a, w)
  <2>1. sync = TRUE
    BY <1>9
  <2>. QED
    BY <1>3, <1>5, <1>9, <2>1 DEF ServicePostSync
<1>10. CASE ~sync /\ ServicePost(a, w)
  <2>1. sync = FALSE
    BY <1>10
  <2>. QED
    BY <1>3, <1>5, <1>10, <2>1 DEF ServicePost
<1>. QED
  BY <1>8, <1>9, <1>10

\* The rest of a call pays what the caller owes.
LEMMA ActorCount ==
    ASSUME TypeOK, LifeInv, CountInv, NEW a \in Actors, ActorStep(a)
    PROVE  CountInv'
<1>0. pc = [b \in Actors |-> pc[b]]
  BY DEF TypeOK
<1>1. UNCHANGED <<plan, queue, task>> /\ Busy' = Busy
  BY DEF ActorStep, AddPostCnt, SyncReturn, InlineHandled, SelfHandled, SelfPost, SelfHandle, Busy
<1>2. CASE Owing' = Owing /\ UNCHANGED <<unhandled, off>>
  BY <1>1, <1>2, CountNow, CountNext
<1>3. CASE SyncReturn(a)
  <2>1. Owing' = Owing /\ UNCHANGED <<unhandled, off>>
    BY <1>0, <1>3 DEF SyncReturn, Owing, Posting, Resting
  <2>. QED
    BY <1>2, <2>1
<1>4. ASSUME ~SyncReturn(a)
      PROVE  plan.service # "IOService"
  BY <1>4 DEF LifeInv, ActorStep, AddPostCnt, InlineHandled, SelfHandled, SelfPost, SelfHandle
<1>5. CASE plan.service # "IOService" /\ (AddPostCnt(a) \/ SelfPost(a))
  <2>1. unhandled' = unhandled + 1 /\ UNCHANGED off
    BY <1>5 DEF AddPostCnt, SelfPost
  <2>2. a \in Owing /\ Owing' = Owing \ {a}
    BY <1>0, <1>5 DEF AddPostCnt, SelfPost, Owing, Posting, Resting
  <2>3. Cardinality(Owing') = Cardinality(Owing) - 1
    BY <2>2, FewActors, OneLess
  <2>. QED
    BY <1>1, <1>5, <2>1, <2>3, FewActors, CountNow, CountNext
<1>6. CASE /\ plan.service # "IOService"
           /\ InlineHandled(a) \/ (SelfHandled(a) /\ Handled(TRUE))
  <2>1. unhandled' = unhandled - 1 /\ UNCHANGED off
    BY <1>6 DEF InlineHandled, SelfHandled
  <2>2. a \notin Owing /\ Owing' = Owing \cup {a}
    BY <1>0, <1>6 DEF InlineHandled, SelfHandled, Owing, Posting
  <2>3. Cardinality(Owing') = Cardinality(Owing) + 1
    BY <2>2, FewActors, OneMore
  <2>. QED
    BY <1>1, <1>6, <2>1, <2>3, FewActors, CountNow, CountNext
<1>7. CASE /\ plan.service # "IOService"
           /\ (SelfHandled(a) /\ ~Handled(TRUE)) \/ SelfHandle(a)
  <2>1. unhandled' = unhandled - 1 /\ off' = off - 1
    BY <1>7 DEF SelfHandle, SelfHandled
  <2>2. Owing' = Owing
    BY <1>0, <1>7 DEF SelfHandle, SelfHandled, Owing, Posting, Resting
  <2>. QED
    BY <1>1, <1>7, <2>1, <2>2, FewActors, CountNow, CountNext
<1>. QED
  BY <1>3, <1>4, <1>5, <1>6, <1>7 DEF ActorStep

\* A worker's step moves a task from its place to its run, and uncounts it
\* at the end.
LEMMA WorkerCount ==
    ASSUME TypeOK, LifeInv, CountInv, NEW w \in Workers, WorkerStep(w)
    PROVE  CountInv'
<1>0. /\ queue \in [Workers -> Seq(Task)] /\ pc = [b \in Actors |-> pc[b]] /\ w \in Actors
      /\ task = [v \in Workers |-> task[v]]
  BY DEF TypeOK, Task, Actors
<1>1. UNCHANGED <<plan, off>> /\ Owing' = Owing
  <2>1. /\ UNCHANGED <<plan, off>> /\ ~Posting(w)
        /\ \E p \in {"top", "pop", "dead", "callback", "handled"} : pc' = [pc EXCEPT ![w] = p]
    BY DEF WorkerStep, LoopTest, Pop, CallbackReturns, ServiceReturns, AddHandleCnt, Posting
  <2>. QED
    BY <1>0, <2>1 DEF Owing, Posting
<1>2. CASE UNCHANGED <<queue, task, unhandled>>
  <2>1. Busy' = Busy
    BY <1>2 DEF Busy
  <2>. QED
    BY <1>1, <1>2, <2>1, CountNow, CountNext
<1>3. CASE ServiceReturns(w)
  BY <1>1, <1>3, CountNow, CountNext DEF ServiceReturns
<1>4. CASE AddHandleCnt(w)
  <2>1. w \in Busy /\ Busy' = Busy \ {w}
    BY <1>0, <1>4 DEF AddHandleCnt, LifeInv, Busy
  <2>2. Cardinality(Busy') = Cardinality(Busy) - 1
    BY <2>1, FewActors, OneLess
  <2>3. unhandled' = unhandled - 1 /\ UNCHANGED queue /\ plan.service # "IOService"
    BY <1>0, <1>4 DEF AddHandleCnt, LifeInv
  <2>. QED
    BY <1>1, <2>2, <2>3, FewActors, CountNow, CountNext
<1>5. CASE /\ queue[w] # <<>> /\ pc[w] = "pop" /\ UNCHANGED unhandled
           /\ queue' = [queue EXCEPT ![w] = Tail(queue[w])]
           /\ task' = [task EXCEPT ![w] = Head(queue[w])]
  <2>1. Head(queue[w]) # NoTask
    BY <1>0, <1>5, TailAt, ConstantsAssumption DEF Task, NoTask
  <2>2. w \notin Busy /\ Busy' = Busy \cup {w}
    BY <1>0, <1>5, <2>1 DEF LifeInv, Busy
  <2>3. Cardinality(Busy') = Cardinality(Busy) + 1
    BY <2>2, FewActors, OneMore
  <2>. DEFINE x == <<w, Len(queue[w])>>
  <2>4. x \in Places(queue) /\ Places(queue') = Places(queue) \ {x}
    BY <1>0, <1>5, PlacesTail
  <2>5. IsFiniteSet(Places(queue')) /\ Cardinality(Places(queue')) = Cardinality(Places(queue)) - 1
    BY <2>4, CountNow, OneLess
  <2>. QED
    BY <1>1, <1>5, <2>3, <2>5, FewActors, CountNow, CountNext
<1>. QED
  BY <1>2, <1>3, <1>4, <1>5 DEF WorkerStep, LoopTest, Pop, CallbackReturns

\* A start puts what it drops into off; the other steps count nothing.
LEMMA PoolCount ==
    ASSUME TypeOK, LifeInv, CountInv,
           \/ Start \/ StopCall \/ EngineStop \/ ServiceStop \/ PoolStep
           \/ UNCHANGED vars
    PROVE  CountInv'
<1>1. CASE UNCHANGED <<plan, queue, task, pc, unhandled, off>>
  <2>1. Busy' = Busy /\ Owing' = Owing
    BY <1>1 DEF Busy, Owing, Posting
  <2>. QED
    BY <1>1, <2>1, CountNow, CountNext
<1>2. ASSUME NEW w \in Workers, ThreadStart(w)
      PROVE  CountInv'
  <2>1. /\ queue' = [queue EXCEPT ![w] = StartQueue(w)] /\ off' = off + Dropped(w)
        /\ UNCHANGED <<plan, task, unhandled>>
        /\ pc' = [pc EXCEPT ![w] = StartThread]
        /\ pc[w] = "dead"
    BY <1>2 DEF ThreadStart, LifeInv
  <2>2. Busy' = Busy /\ Owing' = Owing
    BY <2>1 DEF Busy, Owing, Posting, StartThread, TypeOK
  <2>3. Places(queue') \in SUBSET Places(queue)
    BY <2>1 DEF Places, StartQueue, TypeOK
  <2>4. IsFiniteSet(Places(queue')) /\ Cardinality(Places(queue')) \in Nat
    BY <2>3, CountNow, FS_Subset, FS_CardinalityType
  <2>5. /\ plan.service = "IOService" => Dropped(w) = 0
        /\ plan.service = "IHandler" =>
               Dropped(w) = Cardinality(Places(queue)) - Cardinality(Places(queue'))
    BY <2>1 DEF Dropped
  <2>. QED
    BY <2>1, <2>2, <2>4, <2>5, FewActors, CountNow, CountNext
<1>3. CASE Start
  BY <1>1, <1>3 DEF Start, EngineStart, ServiceStart, StartAll
<1>. QED
  BY <1>1, <1>2, <1>3 DEF StopCall, EngineStop, ServiceStop, StopAll, PoolStep, AllTaskDone,
     ThreadStop, Joined, vars

----------------------------------------------------------------------------
(* The theorems *)

\* The invariant holds at first ...
LEMMA InitIInv == Init => IInv
BY InitTypeLife, InitId, InitSync, InitCount DEF IInv

\* ... and every step keeps it.
LEMMA NextIInv == IInv /\ [Next]_vars => IInv'
<1> SUFFICES ASSUME IInv, [Next]_vars
             PROVE  IInv'
  OBVIOUS
<1>. USE DEF IInv
<1>1. ASSUME NEW c \in plan.calls,
             \/ Post(c.from, c.to, c.sync)
             \/ IF c.sync THEN ServicePostSync(c.from, c.to) ELSE ServicePost(c.from, c.to)
      PROVE  IInv'
  <2>1. c.from \in Actors /\ c.to \in Workers /\ c.sync \in BOOLEAN
    BY PlanCalls
  <2>2. \/ Post(c.from, c.to, c.sync)
        \/ c.sync /\ ServicePostSync(c.from, c.to)
        \/ ~c.sync /\ ServicePost(c.from, c.to)
    BY <1>1
  <2>. QED
    BY <2>1, <2>2, CallTypeLife, CallId, CallSync, CallCount
<1>2. ASSUME NEW a \in Actors, ActorStep(a)
      PROVE  IInv'
  BY <1>2, ActorTypeLife, PoolId, ActorSync, ActorCount
<1>3. ASSUME NEW w \in Workers, WorkerStep(w)
      PROVE  IInv'
  BY <1>3, WorkerTypeLife, WorkerId, WorkerSync, WorkerCount
<1>4. CASE Start \/ StopCall \/ EngineStop \/ ServiceStop \/ PoolStep
  <2>1. TypeOK' /\ LifeInv'
    BY <1>4, CountNow, PoolTypeLife
  <2>2. IdInv'
    BY <1>4, PoolId
  <2>. QED
    BY <1>4, <2>1, <2>2, PoolSync, PoolCount
<1>5. CASE UNCHANGED vars
  <2>1. TypeOK'
    BY <1>5 DEF vars, TypeOK
  <2>2. LifeInv'
    BY <1>5 DEF vars, LifeInv
  <2>. QED
    BY <1>5, <2>1, <2>2, PoolId, PoolSync, PoolCount
<1>. QED
  BY <1>1, <1>2, <1>3, <1>4, <1>5 DEF Next

\* Every pool keeps the invariant.
LEMMA Invariance == Spec => []IInv
BY InitIInv, NextIInv, PTL DEF Spec

\* The values of the variables stay in their types, a worker in a callback
\* has a task, and no worker runs after EngineStop or IOPool::Stop returned
\* (engine_pool.h, io_pool.h).
THEOREM TypeCorrect == Spec => []TypeOK
<1>1. IInv => TypeOK
  BY DEF IInv
<1>. QED
  BY <1>1, Invariance, PTL

\* The reference to the caller's promise that a synchronous task carries is
\* used only while its caller is inside PostSyncMsg: no two tasks are of the
\* same call, and future.get() cannot return before the callback has set the
\* promise (i_handler.h, io_service.h).
THEOREM PromisesAlive == Spec => []PromiseAlive
<1>1. ASSUME IInv
      PROVE  PromiseAlive
  <2>1. ASSUME NEW w \in Workers, NEW k \in DOMAIN queue[w], queue[w][k].sync
        PROVE  Waited(queue[w][k])
    <3>1. queue[w][k] \in Task
      <4>1. queue[w] \in Seq(Task)
        BY <1>1 DEF IInv, TypeOK, Task
      <4>. QED
        BY <4>1
    <3>. QED
      BY <1>1, <2>1, <3>1 DEF IInv, SyncInv, Unanswered, Queued
  <2>2. ASSUME NEW w \in Workers, task[w].sync, pc[w] # "handled"
        PROVE  Waited(task[w])
    <3>1. task[w] \in Task
      BY <1>1, <2>2 DEF IInv, TypeOK, Task, NoTask
    <3>. QED
      BY <1>1, <2>2, <3>1 DEF IInv, SyncInv, Unanswered, Running
  <2>. QED
    BY <2>1, <2>2 DEF PromiseAlive, Waited
<1>. QED
  BY <1>1, Invariance, PTL

\* When the workers are idle and nobody is posting, the count is what it is
\* off by.
LEMMA IdleCount ==
    ASSUME IInv, \A w \in Workers : Idle(w), \A a \in Actors : ~Posting(a)
    PROVE  unhandled = off
<1>1. Places(queue) = {}
  <2>1. \A x : x \notin Places(queue)
    BY PlaceOf DEF Idle
  <2>. QED
    BY <2>1
<1>2. Busy = {} /\ Owing = {}
  BY DEF Busy, Owing, Idle
<1>3. Cardinality({}) = 0
  BY FS_EmptySet
<1>. QED
  BY <1>1, <1>2, <1>3 DEF IInv, CountInv, TypeOK

\* Tasks are counted once and uncounted once on every path: in a quiet pool
\* m_unhandled_cnt is exactly what refused, dropped and self-posted messages
\* make it off by (i_handler.h).
THEOREM CountsBalance == Spec => []CountBalanced
<1>1. ASSUME IInv
      PROVE  CountBalanced
  <2>1. Quiet => \A a \in Actors : ~Posting(a)
    BY DEF Quiet, Posting
  <2>. QED
    BY <1>1, <2>1, IdleCount DEF CountBalanced, Quiet
<1>. QED
  BY <1>1, Invariance, PTL

\* WaitStop leaves its loop only when every queue is empty and no callback is
\* running, unless a thread is between the queueing of a task and AddPostCnt,
\* or the count is off (engine_pool.h, i_handler.h).
THEOREM WaitStopAlwaysDrains == Spec => WaitStopDrains
<1>1. ASSUME IInv, [Next]_vars
      PROVE  [(/\ mpc = "waiting" /\ mpc' = "stopping"
               /\ off = 0 /\ \A a \in Actors : ~Posting(a))
                   => \A w \in Workers : Idle(w)]_vars
  <2> SUFFICES ASSUME mpc = "waiting", mpc' = "stopping", off = 0,
                      \A a \in Actors : ~Posting(a), NEW w \in Workers
               PROVE  Idle(w)
    OBVIOUS
  <2>1. unhandled = 0
    <3>2. ASSUME NEW a \in Actors, ActorStep(a)
          PROVE  mpc' = mpc
      BY <3>2 DEF ActorStep, AddPostCnt, SyncReturn, InlineHandled, SelfHandled, SelfPost, SelfHandle
    <3>3. ASSUME NEW v \in Workers, WorkerStep(v)
          PROVE  mpc' = mpc
      BY <3>3 DEF WorkerStep, LoopTest, Pop, CallbackReturns, ServiceReturns, AddHandleCnt
    <3>4. ASSUME NEW c \in plan.calls,
                 \/ Post(c.from, c.to, c.sync)
                 \/ IF c.sync THEN ServicePostSync(c.from, c.to) ELSE ServicePost(c.from, c.to)
          PROVE  mpc' = mpc
      BY <3>4 DEF Post, ServicePostSync, ServicePost
    <3>5. ~(Start \/ StopCall \/ EngineStop \/ ServiceStop \/ Joined)
      BY DEF Start, EngineStart, ServiceStart, StartAll, StopCall, EngineStop, ServiceStop,
             StopAll, Joined
    <3>6. \A v \in Workers : ~ThreadStop(v) /\ ~ThreadStart(v)
      BY DEF ThreadStop, ThreadStart
    <3>7. AllTaskDone
      BY <1>1, <3>2, <3>3, <3>4, <3>5, <3>6 DEF Next, PoolStep, vars
    <3>. QED
      BY <3>7 DEF AllTaskDone
  <2>2. plan.service = "IHandler"
    BY <1>1 DEF IInv, LifeInv
  <2>3. Owing = {} /\ Cardinality({}) = 0
    BY FS_EmptySet DEF Owing
  <2>4. /\ IsFiniteSet(Places(queue)) /\ Cardinality(Places(queue)) \in Nat
        /\ Cardinality(Places(queue)) + Cardinality(Busy) = 0
    BY <1>1, <2>1, <2>2, <2>3, CountNow, FewActors DEF IInv
  <2>5. Cardinality(Places(queue)) = 0 /\ Cardinality(Busy) = 0
    BY <2>4, FewActors
  <2>6. Places(queue) = {} /\ Busy = {}
    BY <2>4, <2>5, FewActors, FS_EmptySet
  <2>7. queue[w] = <<>>
    <3>1. queue[w] \in Seq(Task)
      BY <1>1 DEF IInv, TypeOK, Task
    <3>2. ASSUME queue[w] # <<>>
          PROVE  FALSE
      <4>1. Len(queue[w]) \in DOMAIN queue[w]
        BY <3>1, <3>2, TailAt
      <4>. QED
        BY <2>6, <4>1, PlaceOf
    <3>. QED
      BY <3>2
  <2>. QED
    BY <2>6, <2>7 DEF Idle, Busy
<1>. QED
  BY <1>1, Invariance, PTL DEF Spec, WaitStopDrains

============================================================================
