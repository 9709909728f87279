---------------------------- MODULE MCEnginePool ----------------------------
(* EnginePool for TLC. *)
EXTENDS EnginePool

CONSTANT FirstWorker

\* Clients post to every worker.
ClientCalls(sync) == [from : Clients, to : Workers, sync : {sync}]

\* Clients post to and call every worker, and the first worker does so from
\* its callbacks to the others: a tree of calls without a cycle.
Down(sync) == [from : {FirstWorker}, to : Workers \ {FirstWorker}, sync : {sync}]
TreeCalls == ClientCalls(FALSE) \cup ClientCalls(TRUE) \cup Down(FALSE) \cup Down(TRUE)

\* The same with every worker calling itself synchronously.
SelfCalls == TreeCalls \cup {[from |-> w, to |-> w, sync |-> TRUE] : w \in Workers}

\* Applications on queue threads that never stop the pool, that stop it in
\* one way or the other, that only post and leave messages without a handler,
\* and that fill the queues up.
Plan0 == [engine |-> "queue", queueCap |-> 0, service |-> "IHandler", calls |-> TreeCalls,
          missing |-> {}, stopBy |-> {}, posts |-> 2]
RunOn == [Plan0 EXCEPT !.calls = SelfCalls, !.missing = {"async"}, !.posts = 3]
RunAndStop == [Plan0 EXCEPT !.stopBy = {"wait", "stop"}]
PostAndWait ==
    [Plan0 EXCEPT !.calls = ClientCalls(FALSE), !.missing = {"async"}, !.stopBy = {"wait"}]
\* A callback that calls its own handler while WaitStop waits.
SelfAndWait ==
    [Plan0 EXCEPT !.calls = ClientCalls(FALSE) \cup
                                {[from |-> FirstWorker, to |-> FirstWorker, sync |-> TRUE]},
                  !.stopBy = {"wait"}]
PostToFull ==
    [Plan0 EXCEPT !.queueCap = 1, !.stopBy = {"wait"}, !.posts = 3,
                  !.calls = [from : Clients, to : {FirstWorker}, sync : {FALSE}]]

\* The same on BoostAsioThreads and on SyncThreads, with IHandler and with
\* IOService (whose callers must not call their own thread).
Asio == [Plan0 EXCEPT !.engine = "asio", !.stopBy = {"wait", "stop"}]
Inline == [Plan0 EXCEPT !.engine = "sync", !.calls = ClientCalls(FALSE), !.missing = {"async"},
                        !.stopBy = {"wait"}]
Service == [Plan0 EXCEPT !.engine = "asio", !.service = "IOService", !.missing = {"async"}]
ServiceAndStop == [Service EXCEPT !.stopBy = {"stop"}]
InlineService == [Inline EXCEPT !.service = "IOService", !.stopBy = {},
                                !.calls = ClientCalls(FALSE) \cup ClientCalls(TRUE)]

AllPlans == {RunOn, RunAndStop, PostAndWait, SelfAndWait, PostToFull, Asio, Inline, Service, ServiceAndStop,
             InlineService}
=============================================================================
