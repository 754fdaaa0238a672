--------------------------- MODULE UeTaskScheduler ---------------------------
(***************************************************************************)
(* The CU-CP per-UE task scheduler (ue_task_scheduler.cpp) and the FIFO   *)
(* control loop it owns for every UE slot.                                 *)
(*                                                                         *)
(* ue_task_scheduler creates one control loop per UE index at             *)
(* construction, each with room for a fixed number of pending procedures, *)
(* and forwards handle_ue_async_task and clear_pending_tasks to the loop  *)
(* of the given UE.  The loop itself (fifo_async_task_scheduler) is not   *)
(* part of the sources under src/: its behaviour is taken from the        *)
(* specification (section 4.2): a task handed to an idle loop starts at   *)
(* once, otherwise it waits in FIFO order; a full queue rejects the task; *)
(* clear_pending_tasks cancels every task that has not started; when the  *)
(* running task completes, the next queued task is promoted in the same   *)
(* step.                                                                   *)
(*                                                                         *)
(* A task is a model value.  Its life is recorded in status:              *)
(*   "new"       not yet handed to the scheduler                          *)
(*   "pending"   in the loop's queue                                      *)
(*   "active"    owned by the loop and running or suspended at an await   *)
(*   "done"      completed (success, failure or its own cancellation)     *)
(*   "cancelled" discarded from the queue by clear_pending_tasks          *)
(*   "dropped"   rejected by a full queue                                 *)
(* An active task resumes at most MaxSuspend times before it completes;   *)
(* which event resumes it (a timer, a response) is left abstract.         *)
(***************************************************************************)
EXTENDS Naturals, Sequences

CONSTANTS
    UEs,          \* the UE indexes, one control loop each (MAX_NOF_CU_UES)
    Tasks,        \* the procedures handed to the scheduler
    QueueCap,     \* number_of_pending_ue_procedures (16 in the code)
    MaxSuspend    \* bound on the suspension points of one task

ASSUME QueueCapAssumption == QueueCap \in Nat \ {0}
ASSUME MaxSuspendAssumption == MaxSuspend \in Nat

VARIABLES
    queue,     \* queue[u]: the pending tasks of UE u's control loop, head first
    status,    \* status[t]: where task t is in its life (see above)
    owner,     \* owner[t]: the UE index t was handed to (meaningless while "new")
    resumes,   \* resumes[t]: how many times t has suspended so far
    accepted,  \* history: the tasks UE u's loop accepted, in order
    started    \* history: the tasks UE u's loop started, in order

vars == <<queue, status, owner, resumes, accepted, started>>

Status == {"new", "pending", "active", "done", "cancelled", "dropped"}

TypeOK ==
    /\ queue \in [UEs -> Seq(Tasks)]
    /\ \A u \in UEs : Len(queue[u]) <= QueueCap
    /\ status \in [Tasks -> Status]
    /\ owner \in [Tasks -> UEs]
    /\ resumes \in [Tasks -> 0..MaxSuspend]
    /\ accepted \in [UEs -> Seq(Tasks)]
    /\ started \in [UEs -> Seq(Tasks)]

(* Mutant: the loop counts as idle when its queue is empty, whether or  *)
(* not a task is running.                                                 *)
LoopIdleQueueEmpty(u) == queue[u] = <<>>

(* The loop of UE u runs no task: the only condition under which a newly  *)
(* scheduled task may start at once.                                       *)
LoopIdle(u) == \A t \in Tasks : ~(owner[t] = u /\ status[t] = "active")

(***************************************************************************)
(* Construction: one control loop per UE index, each with an empty queue. *)
(***************************************************************************)
Init ==
    /\ queue = [u \in UEs |-> <<>>]
    /\ status = [t \in Tasks |-> "new"]
    /\ owner \in [Tasks -> UEs]
    /\ resumes = [t \in Tasks |-> 0]
    /\ accepted = [u \in UEs |-> <<>>]
    /\ started = [u \in UEs |-> <<>>]

(***************************************************************************)
(* handle_ue_async_task(ue_index, task): the loop of ue_index schedules   *)
(* the task.  An idle loop starts it at once; a busy loop with room       *)
(* queues it; a full queue rejects it, and handle_ue_async_task, which    *)
(* returns void, discards that rejection.                                 *)
(***************************************************************************)
StartNow(u, t) ==
    /\ status' = [status EXCEPT ![t] = "active"]
    /\ accepted' = [accepted EXCEPT ![u] = Append(@, t)]
    /\ started' = [started EXCEPT ![u] = Append(@, t)]
    /\ UNCHANGED queue

(* Mutant: the capacity check of the pending-task queue is missing. *)
EnqueueNoCap(u, t) ==
    /\ queue' = [queue EXCEPT ![u] = Append(@, t)]
    /\ status' = [status EXCEPT ![t] = "pending"]
    /\ accepted' = [accepted EXCEPT ![u] = Append(@, t)]
    /\ UNCHANGED started

Enqueue(u, t) ==
    /\ Len(queue[u]) < QueueCap
    /\ queue' = [queue EXCEPT ![u] = Append(@, t)]
    /\ status' = [status EXCEPT ![t] = "pending"]
    /\ accepted' = [accepted EXCEPT ![u] = Append(@, t)]
    /\ UNCHANGED started

Reject(t) ==
    /\ status' = [status EXCEPT ![t] = "dropped"]
    /\ UNCHANGED <<queue, accepted, started>>

HandleUeAsyncTask(t) ==
    LET u == owner[t] IN
    /\ status[t] = "new"
    /\ \/ LoopIdle(u) /\ StartNow(u, t)
       \/ ~LoopIdle(u) /\ Enqueue(u, t)
       \/ ~LoopIdle(u) /\ Len(queue[u]) = QueueCap /\ Reject(t)
    /\ UNCHANGED <<owner, resumes>>

(***************************************************************************)
(* clear_pending_tasks(ue_index): the loop drains its queue and cancels   *)
(* every task in it (spec section 4.2); the running task, if any, is not  *)
(* in the queue and goes on.                                               *)
(***************************************************************************)
(* The tasks waiting in UE u's queue. *)
Queued(u) == {queue[u][i] : i \in 1..Len(queue[u])}

(* Mutant: the queue is emptied but its tasks are never cancelled. *)
ClearPendingTasksForget(u) ==
    /\ queue' = [queue EXCEPT ![u] = <<>>]
    /\ UNCHANGED <<status, owner, resumes, accepted, started>>

ClearPendingTasks(u) ==
    /\ status' = [t \in Tasks |-> IF t \in Queued(u) THEN "cancelled" ELSE status[t]]
    /\ queue' = [queue EXCEPT ![u] = <<>>]
    /\ UNCHANGED <<owner, resumes, accepted, started>>

(***************************************************************************)
(* The awaited event of UE u's running task arrives: the task suspends    *)
(* again at its next await.                                               *)
(***************************************************************************)
Suspend(u) ==
    \E t \in Tasks :
        /\ owner[t] = u
        /\ status[t] = "active"
        /\ resumes[t] < MaxSuspend
        /\ resumes' = [resumes EXCEPT ![t] = @ + 1]
        /\ UNCHANGED <<queue, status, owner, accepted, started>>

(***************************************************************************)
(* The loop's completion hook: task t of UE u has completed, and in the   *)
(* same step the head of the queue, if any, is promoted to running.       *)
(***************************************************************************)
(* The tasks the loop of u promotes when its running task completes: the  *)
(* head of its queue, if there is one.                                     *)
Promoted(u) == IF queue[u] = <<>> THEN {} ELSE {Head(queue[u])}

(* Mutant: completion does not promote the next queued task. *)
OnTaskCompleteNoPromote(u, t) ==
    /\ status' = [status EXCEPT ![t] = "done"]
    /\ UNCHANGED <<queue, started>>

(* Mutant: completion promotes the newest queued task instead of the      *)
(* oldest.                                                                 *)
OnTaskCompleteLifo(u, t) ==
    LET q == queue[u] IN
    /\ status' = [s \in Tasks |->
                    IF s = t THEN "done"
                    ELSE IF q # <<>> /\ s = q[Len(q)] THEN "active" ELSE status[s]]
    /\ queue' = [queue EXCEPT ![u] = IF q = <<>> THEN q ELSE SubSeq(q, 1, Len(q) - 1)]
    /\ started' = [started EXCEPT ![u] = IF q = <<>> THEN @ ELSE Append(@, q[Len(q)])]

(* Mutant: completion starts the head of the queue but leaves it queued. *)
OnTaskCompleteNoPop(u, t) ==
    /\ status' = [s \in Tasks |->
                    IF s = t THEN "done"
                    ELSE IF s \in Promoted(u) THEN "active" ELSE status[s]]
    /\ queue' = queue
    /\ started' = [started EXCEPT ![u] =
                     IF queue[u] = <<>> THEN @ ELSE Append(@, Head(queue[u]))]

OnTaskComplete(u, t) ==
    /\ status' = [s \in Tasks |->
                    IF s = t THEN "done"
                    ELSE IF s \in Promoted(u) THEN "active" ELSE status[s]]
    /\ queue' = [queue EXCEPT ![u] = IF @ = <<>> THEN @ ELSE Tail(@)]
    /\ started' = [started EXCEPT ![u] =
                     IF queue[u] = <<>> THEN @ ELSE Append(@, Head(queue[u]))]

Complete(u) ==
    \E t \in Tasks :
        /\ owner[t] = u
        /\ status[t] = "active"
        /\ OnTaskComplete(u, t)
        /\ UNCHANGED <<owner, resumes, accepted>>

Next ==
    \/ \E t \in Tasks : HandleUeAsyncTask(t)
    \/ \E u \in UEs : ClearPendingTasks(u) \/ Suspend(u) \/ Complete(u)

(***************************************************************************)
(* A running task eventually completes: every await of a procedure is     *)
(* bounded by a timer (section 5 of the specification), so the loop's     *)
(* completion hook is eventually reached.  Nothing obliges the callers to  *)
(* hand in tasks or to clear queues, so those actions carry no fairness.  *)
(***************************************************************************)
Fairness == \A u \in UEs : WF_vars(Complete(u))

Spec == Init /\ [][Next]_vars /\ Fairness

-----------------------------------------------------------------------------
(***************************************************************************)
(* Properties.                                                             *)
(***************************************************************************)

(* I1 of the specification: the control loop of a UE runs at most one    *)
(* task at a time, even though handle_ue_async_task may be called while a *)
(* task of that UE is suspended and a completion promotes the next one.   *)
MutualExclusion ==
    \A t1, t2 \in Tasks :
        (/\ status[t1] = "active" /\ status[t2] = "active"
         /\ owner[t1] = owner[t2]) => t1 = t2

(* The loop never idles while work is pending: whenever no task of UE u   *)
(* runs, its queue is empty.  Promotion happens in the completion step    *)
(* itself, so there is no gap in which a queued task is stranded.         *)
WorkConserving == \A u \in UEs : LoopIdle(u) => queue[u] = <<>>

(* I2 of the specification: the tasks UE u's loop has started, followed   *)
(* by those still queued, are exactly the tasks it accepted, in the order *)
(* handle_ue_async_task accepted them, less those clear_pending_tasks     *)
(* cancelled.  So no cancelled task ever runs and no task overtakes       *)
(* another of the same UE.                                                 *)
NotCancelled(t) == status[t] # "cancelled"

FifoOrder ==
    \A u \in UEs : started[u] \o queue[u] = SelectSeq(accepted[u], NotCancelled)

(* The work of UE u's loop: the tasks it started, then those it queued. *)
Work(u) == started[u] \o queue[u]

(* FifoOrder told by positions, without SelectSeq: the work of u's loop   *)
(* lists tasks in the order handle_ue_async_task accepted them, none of   *)
(* them cancelled, and every accepted task that clear_pending_tasks did   *)
(* not cancel is in it.  A task is accepted once, so this is the same     *)
(* sequence FifoOrder names.                                               *)
FifoPositions ==
    \A u \in UEs :
        /\ \A i, j \in 1..Len(Work(u)) : i < j =>
               \E a, b \in 1..Len(accepted[u]) :
                   a < b /\ accepted[u][a] = Work(u)[i] /\ accepted[u][b] = Work(u)[j]
        /\ \A i \in 1..Len(Work(u)) :
               /\ NotCancelled(Work(u)[i])
               /\ \E a \in 1..Len(accepted[u]) : accepted[u][a] = Work(u)[i]
        /\ \A a \in 1..Len(accepted[u]) :
               NotCancelled(accepted[u][a]) => \E i \in 1..Len(Work(u)) : Work(u)[i] = accepted[u][a]

(* The life of a task, as the specification states it (sections 4.1 and *)
(* 4.2): a task handed in is queued, started or rejected; a queued task   *)
(* is started or cancelled; a started task only completes; completed,     *)
(* cancelled and rejected tasks stay so.  LifeCycle[s] is the set of      *)
(* statuses a task in status s may have after one step.                   *)
LifeCycle ==
    [new |-> {"new", "pending", "active", "dropped"},
     pending |-> {"pending", "active", "cancelled"},
     active |-> {"active", "done"},
     done |-> {"done"}, cancelled |-> {"cancelled"}, dropped |-> {"dropped"}]

(* What no step may do to a task: in particular clear_pending_tasks may   *)
(* cancel only tasks that have not started (the running task "is          *)
(* unaffected and completes normally"), and no completion may restart or  *)
(* revive a task.  Breaking it takes a queue that still holds a task the  *)
(* loop has started, which only a wrong promotion leaves behind.          *)
TaskLifeCycle == \A t \in Tasks : status'[t] \in LifeCycle[status[t]]

TaskLifeCycleProp == [][TaskLifeCycle]_vars

(* Every task waiting in a loop's queue eventually either runs to         *)
(* completion or is cancelled by clear_pending_tasks.                      *)
QueuedTaskEventuallyHandled ==
    \A t \in Tasks : status[t] = "pending" ~> status[t] \in {"done", "cancelled"}

(* What section 2 of the specification promises of every procedure handed *)
(* to the scheduler: the scheduler runs it when the UE's loop is free, or *)
(* it is cancelled by a teardown.  handle_ue_async_task returns void, so  *)
(* a task the full queue rejects is lost without its caller knowing.      *)
HandedTaskEventuallyHandled ==
    \A t \in Tasks : status[t] # "new" ~> status[t] \in {"done", "cancelled"}

=============================================================================
