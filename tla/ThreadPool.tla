----------------------------- MODULE ThreadPool -----------------------------
(***************************************************************************)
(* util/ThreadPool.h: a queue of tasks, a condition variable and a fixed   *)
(* set of workers.  What a task does is the business of the module that    *)
(* extends this one.                                                       *)
(*                                                                         *)
(* A worker that finds nothing to do goes to sleep atomically with its     *)
(* test, because it holds queue_mutex; enqueue pushes under the mutex and  *)
(* notifies after it has released it.                                      *)
(***************************************************************************)
EXTENDS Naturals, Sequences

CONSTANT Workers

VARIABLES
  tasks,   \* the task queue
  stop,
  wstate,  \* "awake" (about to test), "asleep", "busy" or "exited"
  wtask    \* the task that a busy worker runs

pool == <<tasks, stop, wstate, wtask>>

NoTask == [kind |-> "none"]

PoolInit ==
  /\ tasks  = <<>>
  /\ stop   = FALSE
  /\ wstate = [w \in Workers |-> "awake"]
  /\ wtask  = [w \in Workers |-> NoTask]

enqueue(t) ==
  /\ ~stop
  /\ tasks' = Append(tasks, t)
  /\ UNCHANGED <<stop, wstate, wtask>>

notify_one ==
  /\ IF \E w \in Workers : wstate[w] = "asleep"
     THEN \E w \in Workers : /\ wstate[w] = "asleep"
                             /\ wstate' = [wstate EXCEPT ![w] = "awake"]
     ELSE UNCHANGED wstate
  /\ UNCHANGED <<tasks, stop, wtask>>

(* condition.wait with the predicate stop || !tasks.empty().               *)
Take(w) ==
  /\ wstate[w] = "awake"
  /\ tasks # <<>>
  /\ tasks'  = Tail(tasks)
  /\ wstate' = [wstate EXCEPT ![w] = "busy"]
  /\ wtask'  = [wtask EXCEPT ![w] = Head(tasks)]
  /\ UNCHANGED stop

SleepAnyway(w) ==   \* mutant: condition.wait without a predicate
  /\ wstate[w] = "awake"
  /\ ~stop
  /\ wstate' = [wstate EXCEPT ![w] = "asleep"]
  /\ UNCHANGED <<tasks, stop, wtask>>

Sleep(w) ==
  /\ wstate[w] = "awake"
  /\ tasks = <<>> /\ ~stop
  /\ wstate' = [wstate EXCEPT ![w] = "asleep"]
  /\ UNCHANGED <<tasks, stop, wtask>>

ExitAtOnce(w) ==   \* mutant: a stopped pool drops its queue
  /\ wstate[w] = "awake"
  /\ stop
  /\ wstate' = [wstate EXCEPT ![w] = "exited"]
  /\ UNCHANGED <<tasks, stop, wtask>>

Exit(w) ==
  /\ wstate[w] = "awake"
  /\ tasks = <<>> /\ stop
  /\ wstate' = [wstate EXCEPT ![w] = "exited"]
  /\ UNCHANGED <<tasks, stop, wtask>>

SpuriousWakeup(w) ==
  /\ wstate[w] = "asleep"
  /\ wstate' = [wstate EXCEPT ![w] = "awake"]
  /\ UNCHANGED <<tasks, stop, wtask>>

(* The end of the task that worker w runs.                                 *)
Finish(w) ==
  /\ wstate[w] = "busy"
  /\ wstate' = [wstate EXCEPT ![w] = "awake"]
  /\ wtask'  = [wtask EXCEPT ![w] = NoTask]
  /\ UNCHANGED <<tasks, stop>>

(* The destructor: stop, notify_all, join.                                 *)
Stop ==
  /\ stop' = TRUE
  /\ UNCHANGED <<tasks, wstate, wtask>>

notify_all ==
  /\ wstate' = [w \in Workers |->
                  IF wstate[w] = "asleep" THEN "awake" ELSE wstate[w]]
  /\ UNCHANGED <<tasks, stop, wtask>>

Joined == \A w \in Workers : wstate[w] = "exited"

Outstanding == {tasks[i] : i \in DOMAIN tasks}
                 \cup {wtask[w] : w \in {v \in Workers : wstate[v] = "busy"}}
=============================================================================
