------------------------ MODULE UeTaskSchedulerProofs ------------------------
(***************************************************************************)
(* Proofs about the per-UE control loops of UeTaskScheduler, for every    *)
(* set of UEs and tasks and every queue capacity.                         *)
(*                                                                         *)
(* MutualExclusion and WorkConserving are not inductive by themselves:    *)
(* the completion hook promotes the head of the queue, and the step keeps *)
(* mutual exclusion only if that head is a pending task of the same UE,   *)
(* not the one that completes nor one running elsewhere.  QueuedArePending *)
(* records that, and IInv is the conjunction the proof carries.           *)
(***************************************************************************)
EXTENDS UeTaskScheduler, SequenceTheorems, TLAPS

(* Every entry of UE u's queue is a pending task handed to u. *)
QueuedArePending ==
    \A u \in UEs : \A i \in 1..Len(queue[u]) :
        status[queue[u][i]] = "pending" /\ owner[queue[u][i]] = u

(* No task is queued twice: it is queued only when it is new. *)
QueueDistinct ==
    \A u \in UEs : \A i, j \in 1..Len(queue[u]) : queue[u][i] = queue[u][j] => i = j

IInv == /\ TypeOK
        /\ QueuedArePending
        /\ QueueDistinct
        /\ MutualExclusion
        /\ WorkConserving

-----------------------------------------------------------------------------
(* Type correctness: every step keeps every variable in its type. *)
LEMMA TypeCorrect0 == TypeOK /\ [Next]_vars => TypeOK'
  <2> SUFFICES ASSUME TypeOK, [Next]_vars PROVE TypeOK'
    OBVIOUS
  <2>1. ASSUME NEW t \in Tasks, HandleUeAsyncTask(t) PROVE TypeOK'
    <3> DEFINE u == owner[t]
    <3>1. u \in UEs /\ UNCHANGED <<owner, resumes>>
      BY <2>1 DEF HandleUeAsyncTask, TypeOK
    <3>2. CASE StartNow(u, t)
      BY <3>1, <3>2 DEF StartNow, TypeOK, Status
    <3>3. CASE Enqueue(u, t)
      <4>1. queue' \in [UEs -> Seq(Tasks)]
        BY <3>1, <3>3 DEF Enqueue, TypeOK
      <4>2. \A v \in UEs : Len(queue'[v]) <= QueueCap
        <5> SUFFICES ASSUME NEW v \in UEs PROVE Len(queue'[v]) <= QueueCap
          OBVIOUS
        <5>1. CASE v = u
          BY <3>1, <3>3, <5>1, QueueCapAssumption DEF Enqueue, TypeOK
        <5>2. CASE v # u
          BY <3>1, <3>3, <5>2 DEF Enqueue, TypeOK
        <5>3. QED
          BY <5>1, <5>2
      <4>3. status' \in [Tasks -> Status] /\ accepted' \in [UEs -> Seq(Tasks)]
        BY <3>1, <3>3 DEF Enqueue, TypeOK, Status
      <4>4. QED
        BY <3>1, <3>3, <4>1, <4>2, <4>3 DEF Enqueue, TypeOK
    <3>4. CASE Reject(t)
      BY <3>1, <3>4 DEF Reject, TypeOK, Status
    <3>5. QED
      BY <2>1, <3>2, <3>3, <3>4 DEF HandleUeAsyncTask
  <2>2. ASSUME NEW u \in UEs, ClearPendingTasks(u) PROVE TypeOK'
    BY <2>2, QueueCapAssumption DEF ClearPendingTasks, TypeOK, Status
  <2>3. ASSUME NEW u \in UEs, Suspend(u) PROVE TypeOK'
    BY <2>3, MaxSuspendAssumption DEF Suspend, TypeOK
  <2>4. ASSUME NEW u \in UEs, Complete(u) PROVE TypeOK'
    <3>1. PICK t \in Tasks : owner[t] = u /\ status[t] = "active" /\ OnTaskComplete(u, t)
                             /\ UNCHANGED <<owner, resumes, accepted>>
      BY <2>4 DEF Complete
    <3>2. Promoted(u) \subseteq Tasks
      BY DEF Promoted, TypeOK
    <3>3. status' \in [Tasks -> Status]
      BY <3>1, <3>2 DEF OnTaskComplete, TypeOK, Status
    <3>4. queue' \in [UEs -> Seq(Tasks)] /\ started' \in [UEs -> Seq(Tasks)]
      BY <3>1 DEF OnTaskComplete, TypeOK
    <3>5. \A v \in UEs : Len(queue'[v]) <= QueueCap
      BY <3>1, QueueCapAssumption DEF OnTaskComplete, TypeOK
    <3>6. QED
      BY <3>1, <3>3, <3>4, <3>5 DEF TypeOK
  <2>5. CASE UNCHANGED vars
    BY <2>5 DEF vars, TypeOK
  <2>6. QED
    BY <2>1, <2>2, <2>3, <2>4, <2>5 DEF Next

(* Every state of the scheduler keeps every variable in its type. *)
THEOREM TypeCorrect == Spec => []TypeOK
<1>1. Init => TypeOK
  BY MaxSuspendAssumption, QueueCapAssumption DEF Init, TypeOK, Status
<1>2. QED
  BY <1>1, TypeCorrect0, PTL DEF Spec

-----------------------------------------------------------------------------
(* An entry of a queue is a task. *)
LEMMA QueueEntryIsTask ==
    ASSUME TypeOK, NEW v \in UEs, NEW i \in 1..Len(queue[v])
    PROVE  queue[v][i] \in Tasks
  BY DEF TypeOK

(* clear_pending_tasks(u) cancels the tasks of u's queue, which are the   *)
(* pending tasks of u, and changes no other status.                        *)
LEMMA ClearEffect ==
    ASSUME TypeOK, QueuedArePending, NEW u \in UEs, ClearPendingTasks(u)
    PROVE  /\ \A x \in Tasks : \/ status'[x] = status[x]
                               \/ status[x] = "pending" /\ owner[x] = u /\ status'[x] = "cancelled"
           /\ \A i \in 1..Len(queue[u]) : status'[queue[u][i]] = "cancelled"
           /\ queue' = [queue EXCEPT ![u] = <<>>]
           /\ UNCHANGED <<owner, resumes, accepted, started>>
<1>1. \A x \in Queued(u) : status[x] = "pending" /\ owner[x] = u
  BY DEF Queued, QueuedArePending
<1>2. status' = [x \in Tasks |-> IF x \in Queued(u) THEN "cancelled" ELSE status[x]]
  BY DEF ClearPendingTasks
<1>3. \A i \in 1..Len(queue[u]) : queue[u][i] \in Queued(u) /\ queue[u][i] \in Tasks
  BY QueueEntryIsTask DEF Queued
<1>4. QED
  BY <1>1, <1>2, <1>3 DEF ClearPendingTasks

(* A step that leaves every queue as it was or empties it, keeps owners   *)
(* and keeps every pending task pending keeps the queue invariants.      *)
LEMMA QueueFrame ==
    ASSUME TypeOK, TypeOK', QueuedArePending, QueueDistinct,
           owner' = owner,
           \A v \in UEs : queue'[v] = queue[v] \/ queue'[v] = <<>>,
           \A v \in UEs : queue'[v] = queue[v] =>
               \A i \in 1..Len(queue[v]) : status'[queue[v][i]] = "pending"
    PROVE  QueuedArePending' /\ QueueDistinct'
<1>1. QueuedArePending'
  <2> SUFFICES ASSUME NEW v \in UEs, NEW i \in 1..Len(queue'[v])
               PROVE  status'[queue'[v][i]] = "pending" /\ owner'[queue'[v][i]] = v
    BY DEF QueuedArePending
  <2>1. queue'[v] = queue[v]
    OBVIOUS
  <2>2. QED
    BY <2>1 DEF QueuedArePending
<1>2. QueueDistinct'
  <2> SUFFICES ASSUME NEW v \in UEs, NEW i \in 1..Len(queue'[v]), NEW j \in 1..Len(queue'[v]),
                      queue'[v][i] = queue'[v][j]
               PROVE  i = j
    BY DEF QueueDistinct
  <2>1. queue'[v] = queue[v]
    OBVIOUS
  <2>2. QED
    BY <2>1 DEF QueueDistinct
<1>3. QED
  BY <1>1, <1>2

-----------------------------------------------------------------------------
(* IInv holds initially and is kept by every step. *)
LEMMA InitIInv == Init => IInv
  BY MaxSuspendAssumption, QueueCapAssumption
  DEF Init, IInv, TypeOK, Status, QueuedArePending, QueueDistinct,
      MutualExclusion, WorkConserving

LEMMA StepIInv == IInv /\ [Next]_vars => IInv'
<1> SUFFICES ASSUME IInv, [Next]_vars PROVE IInv'
  OBVIOUS
<1>0. TypeOK /\ TypeOK' /\ QueuedArePending /\ QueueDistinct
      /\ MutualExclusion /\ WorkConserving
  BY TypeCorrect0 DEF IInv
<1>1. ASSUME NEW t \in Tasks, HandleUeAsyncTask(t) PROVE IInv'
  <2> DEFINE u == owner[t]
  <2>1. u \in UEs /\ status[t] = "new" /\ UNCHANGED <<owner, resumes>>
    BY <1>1, <1>0 DEF HandleUeAsyncTask, TypeOK
  <2>2. \A v \in UEs : \A i \in 1..Len(queue[v]) : queue[v][i] # t
    BY <2>1, <1>0 DEF QueuedArePending
  <2>3. CASE LoopIdle(u) /\ StartNow(u, t)
    <3>1. QueuedArePending' /\ QueueDistinct'
      <4>1. \A v \in UEs : \A i \in 1..Len(queue[v]) : status'[queue[v][i]] = "pending"
        <5> SUFFICES ASSUME NEW v \in UEs, NEW i \in 1..Len(queue[v])
                     PROVE  status'[queue[v][i]] = "pending"
          OBVIOUS
        <5>1. queue[v][i] \in Tasks /\ status[queue[v][i]] = "pending"
          BY <1>0, QueueEntryIsTask DEF QueuedArePending
        <5>2. queue[v][i] # t
          BY <2>2
        <5>3. QED
          BY <1>0, <2>3, <5>1, <5>2 DEF StartNow, TypeOK
      <4>2. queue' = queue
        BY <2>3 DEF StartNow
      <4>3. QED
        BY <1>0, <2>1, <4>1, <4>2, QueueFrame
    <3>2. MutualExclusion'
      BY <1>0, <2>1, <2>3 DEF StartNow, LoopIdle, MutualExclusion, TypeOK
    <3>3. WorkConserving'
      BY <1>0, <2>1, <2>3 DEF StartNow, LoopIdle, WorkConserving, TypeOK
    <3>4. QED
      BY <1>0, <3>1, <3>2, <3>3 DEF IInv
  <2>4. CASE ~LoopIdle(u) /\ Enqueue(u, t)
    <3>1. queue' = [queue EXCEPT ![u] = Append(queue[u], t)]
          /\ status' = [status EXCEPT ![t] = "pending"]
      BY <2>4 DEF Enqueue
    <3>2. QueuedArePending'
      <4> SUFFICES ASSUME NEW v \in UEs, NEW i \in 1..Len(queue'[v])
                   PROVE  status'[queue'[v][i]] = "pending" /\ owner'[queue'[v][i]] = v
        BY DEF QueuedArePending
      <4>1. CASE v = u /\ i = Len(queue'[v])
        BY <1>0, <2>1, <3>1, <4>1 DEF TypeOK
      <4>2. CASE ~(v = u /\ i = Len(queue'[v]))
        <5>1. i \in 1..Len(queue[v]) /\ queue'[v][i] = queue[v][i]
          <6>1. CASE v = u
            <7>1. queue'[v] = Append(queue[u], t) /\ i # Len(queue'[v])
              BY <1>0, <3>1, <4>2, <6>1 DEF TypeOK
            <7>2. QED
              BY <1>0, <2>1, <6>1, <7>1 DEF TypeOK
          <6>2. CASE v # u
            BY <1>0, <3>1, <6>2 DEF TypeOK
          <6>3. QED
            BY <6>1, <6>2
        <5>2. queue[v][i] \in Tasks /\ queue[v][i] # t
          BY <1>0, <2>2, <5>1, QueueEntryIsTask
        <5>3. status[queue[v][i]] = "pending" /\ owner[queue[v][i]] = v
          BY <1>0, <5>1 DEF QueuedArePending
        <5>4. QED
          BY <1>0, <2>1, <3>1, <5>1, <5>2, <5>3 DEF TypeOK
      <4>3. QED
        BY <4>1, <4>2
    <3>3. QueueDistinct'
      <4> SUFFICES ASSUME NEW v \in UEs, NEW i \in 1..Len(queue'[v]), NEW j \in 1..Len(queue'[v]),
                          queue'[v][i] = queue'[v][j]
                   PROVE  i = j
        BY DEF QueueDistinct
      <4>1. CASE v = u
        <5> DEFINE q == queue[u]
        <5>1. q \in Seq(Tasks) /\ queue'[v] = Append(q, t)
          BY <1>0, <2>1, <3>1, <4>1 DEF TypeOK
        <5>2. Len(queue'[v]) = Len(q) + 1
          BY <5>1
        <5>3. \A k \in 1..Len(q) : queue'[v][k] = q[k] /\ q[k] # t
          BY <2>1, <2>2, <5>1
        <5>4. queue'[v][Len(q) + 1] = t
          BY <5>1
        <5>5. CASE i \in 1..Len(q) /\ j \in 1..Len(q)
          BY <1>0, <2>1, <5>3, <5>5 DEF QueueDistinct
        <5>6. CASE i = Len(q) + 1 \/ j = Len(q) + 1
          BY <5>2, <5>3, <5>4, <5>6
        <5>7. QED
          BY <5>2, <5>5, <5>6
      <4>2. CASE v # u
        BY <1>0, <3>1, <4>2 DEF QueueDistinct, TypeOK
      <4>3. QED
        BY <4>1, <4>2
    <3>4. MutualExclusion'
      BY <1>0, <2>1, <3>1 DEF MutualExclusion, TypeOK
    <3>5. WorkConserving'
      BY <1>0, <2>1, <2>4, <3>1 DEF LoopIdle, WorkConserving, TypeOK
    <3>6. QED
      BY <1>0, <3>2, <3>3, <3>4, <3>5 DEF IInv
  <2>5. CASE Reject(t)
    <3>1. \A v \in UEs : \A i \in 1..Len(queue[v]) : status'[queue[v][i]] = "pending"
      BY <1>0, <2>2, <2>5, QueueEntryIsTask DEF Reject, QueuedArePending, TypeOK
    <3>2. QueuedArePending' /\ QueueDistinct'
      BY <1>0, <2>1, <2>5, <3>1, QueueFrame DEF Reject
    <3>3. MutualExclusion' /\ WorkConserving'
      BY <1>0, <2>1, <2>5 DEF Reject, MutualExclusion, WorkConserving, LoopIdle, TypeOK
    <3>4. QED
      BY <1>0, <3>2, <3>3 DEF IInv
  <2>6. QED
    BY <1>1, <2>3, <2>4, <2>5 DEF HandleUeAsyncTask
<1>2. ASSUME NEW u \in UEs, ClearPendingTasks(u) PROVE IInv'
  <2>0. /\ \A x \in Tasks : \/ status'[x] = status[x]
                            \/ status[x] = "pending" /\ owner[x] = u /\ status'[x] = "cancelled"
        /\ queue' = [queue EXCEPT ![u] = <<>>]
        /\ UNCHANGED <<owner, resumes, accepted, started>>
    BY <1>0, <1>2, ClearEffect
  <2>1. \A v \in UEs : queue'[v] = queue[v] \/ queue'[v] = <<>>
    BY <1>0, <2>0 DEF TypeOK
  <2>2. \A v \in UEs : queue'[v] = queue[v] =>
            \A i \in 1..Len(queue[v]) : status'[queue[v][i]] = "pending"
    <3> SUFFICES ASSUME NEW v \in UEs, queue'[v] = queue[v], NEW i \in 1..Len(queue[v])
                 PROVE  status'[queue[v][i]] = "pending"
      OBVIOUS
    <3>1. v # u
      BY <1>0, <2>0 DEF TypeOK
    <3>2. queue[v][i] \in Tasks /\ status[queue[v][i]] = "pending" /\ owner[queue[v][i]] = v
      BY <1>0, QueueEntryIsTask DEF QueuedArePending
    <3>3. QED
      BY <2>0, <3>1, <3>2
  <2>3. QueuedArePending' /\ QueueDistinct'
    BY <1>0, <2>0, <2>1, <2>2, QueueFrame
  <2>4. MutualExclusion'
    BY <1>0, <2>0 DEF MutualExclusion
  <2>5. WorkConserving'
    <3>1. \A v \in UEs : LoopIdle(v)' => LoopIdle(v)
      BY <2>0 DEF LoopIdle
    <3>2. QED
      BY <1>0, <2>1, <3>1 DEF WorkConserving
  <2>6. QED
    BY <1>0, <2>3, <2>4, <2>5 DEF IInv
<1>3. ASSUME NEW u \in UEs, Suspend(u) PROVE IInv'
  BY <1>0, <1>3
  DEF Suspend, IInv, QueuedArePending, QueueDistinct, MutualExclusion, WorkConserving, LoopIdle
<1>4. ASSUME NEW u \in UEs, Complete(u) PROVE IInv'
  <2>1. PICK t \in Tasks : owner[t] = u /\ status[t] = "active" /\ OnTaskComplete(u, t)
                           /\ UNCHANGED <<owner, resumes, accepted>>
    BY <1>4 DEF Complete
  <2>2. CASE queue[u] = <<>>
    <3>1. status' = [status EXCEPT ![t] = "done"] /\ queue' = queue
      BY <1>0, <2>1, <2>2 DEF OnTaskComplete, Promoted, TypeOK
    <3>2. \A v \in UEs : \A i \in 1..Len(queue[v]) : status'[queue[v][i]] = "pending"
      <4> SUFFICES ASSUME NEW v \in UEs, NEW i \in 1..Len(queue[v])
                   PROVE  status'[queue[v][i]] = "pending"
        OBVIOUS
      <4>1. queue[v][i] \in Tasks /\ status[queue[v][i]] = "pending"
        BY <1>0, QueueEntryIsTask DEF QueuedArePending
      <4>2. queue[v][i] # t
        BY <2>1, <4>1
      <4>3. QED
        BY <3>1, <4>1, <4>2
    <3>3. QueuedArePending' /\ QueueDistinct'
      BY <1>0, <2>1, <3>1, <3>2, QueueFrame
    <3>4. MutualExclusion'
      BY <1>0, <2>1, <3>1 DEF MutualExclusion, TypeOK
    <3>5. WorkConserving'
      BY <1>0, <2>1, <2>2, <3>1 DEF WorkConserving, LoopIdle, TypeOK
    <3>6. QED
      BY <1>0, <3>3, <3>4, <3>5 DEF IInv
  <2>3. CASE queue[u] # <<>>
    <3> DEFINE h == Head(queue[u])
    <3>1. h \in Tasks /\ status[h] = "pending" /\ owner[h] = u /\ h # t
      <4>1. Len(queue[u]) \in Nat \ {0} /\ h = queue[u][1]
        BY <1>0, <2>3 DEF TypeOK
      <4>2. QED
        BY <1>0, <2>1, <4>1, QueueEntryIsTask DEF QueuedArePending
    <3>2. /\ status' = [s \in Tasks |-> IF s = t THEN "done"
                                        ELSE IF s = h THEN "active" ELSE status[s]]
         /\ queue' = [queue EXCEPT ![u] = Tail(queue[u])]
      BY <1>0, <2>1, <2>3 DEF OnTaskComplete, Promoted, TypeOK
    <3>3. QueuedArePending'
      <4> SUFFICES ASSUME NEW v \in UEs, NEW i \in 1..Len(queue'[v])
                   PROVE  status'[queue'[v][i]] = "pending" /\ owner'[queue'[v][i]] = v
        BY DEF QueuedArePending
      <4>1. CASE v = u
        <5>1. i + 1 \in 1..Len(queue[u]) /\ queue'[v][i] = queue[u][i + 1]
          BY <1>0, <2>3, <3>2, <4>1 DEF TypeOK
        <5>2. queue[u][i + 1] \in Tasks /\ queue[u][i + 1] # h
          <6>1. Len(queue[u]) \in Nat \ {0} /\ h = queue[u][1]
            BY <1>0, <2>3 DEF TypeOK
          <6>2. QED
            BY <1>0, <5>1, <6>1, QueueEntryIsTask DEF QueueDistinct
        <5>3. status[queue[u][i + 1]] = "pending" /\ owner[queue[u][i + 1]] = u
          BY <1>0, <5>1 DEF QueuedArePending
        <5>4. queue[u][i + 1] # t
          BY <2>1, <5>3
        <5>5. QED
          BY <2>1, <3>2, <4>1, <5>1, <5>2, <5>3, <5>4
      <4>2. CASE v # u
        <5>1. i \in 1..Len(queue[v]) /\ queue'[v][i] = queue[v][i]
          BY <1>0, <3>2, <4>2 DEF TypeOK
        <5>2. queue[v][i] \in Tasks /\ status[queue[v][i]] = "pending" /\ owner[queue[v][i]] = v
          BY <1>0, <5>1, QueueEntryIsTask DEF QueuedArePending
        <5>3. queue[v][i] # t /\ queue[v][i] # h
          BY <2>1, <3>1, <4>2, <5>2
        <5>4. QED
          BY <2>1, <3>2, <5>1, <5>2, <5>3
      <4>3. QED
        BY <4>1, <4>2
    <3>4. QueueDistinct'
      <4> SUFFICES ASSUME NEW v \in UEs, NEW i \in 1..Len(queue'[v]), NEW j \in 1..Len(queue'[v]),
                          queue'[v][i] = queue'[v][j]
                   PROVE  i = j
        BY DEF QueueDistinct
      <4>1. CASE v = u
        <5>1. /\ i + 1 \in 1..Len(queue[u]) /\ queue'[v][i] = queue[u][i + 1]
              /\ j + 1 \in 1..Len(queue[u]) /\ queue'[v][j] = queue[u][j + 1]
          BY <1>0, <2>3, <3>2, <4>1 DEF TypeOK
        <5>2. queue[u][i + 1] = queue[u][j + 1]
          BY <5>1
        <5>3. i + 1 = j + 1
          BY <1>0, <5>1, <5>2 DEF QueueDistinct
        <5>4. QED
          BY <5>3
      <4>2. CASE v # u
        BY <1>0, <3>2, <4>2 DEF QueueDistinct, TypeOK
      <4>3. QED
        BY <4>1, <4>2
    <3>5. MutualExclusion'
      <4> SUFFICES ASSUME NEW t1 \in Tasks, NEW t2 \in Tasks,
                          status'[t1] = "active", status'[t2] = "active", owner'[t1] = owner'[t2]
                   PROVE  t1 = t2
        BY DEF MutualExclusion
      <4>1. \A s \in Tasks : status'[s] = "active" => s = h \/ (s # t /\ status[s] = "active")
        BY <3>2
      <4>2. \A s \in Tasks : status[s] = "active" /\ owner[s] = u => s = t
        BY <1>0, <2>1 DEF MutualExclusion
      <4>3. owner[t1] = owner[t2]
        BY <2>1
      <4>4. QED
        BY <1>0, <3>1, <4>1, <4>2, <4>3 DEF MutualExclusion
    <3>6. WorkConserving'
      BY <1>0, <2>1, <3>1, <3>2 DEF WorkConserving, LoopIdle, TypeOK
    <3>7. QED
      BY <1>0, <3>3, <3>4, <3>5, <3>6 DEF IInv
  <2>4. QED
    BY <2>2, <2>3
<1>5. CASE UNCHANGED vars
  BY <1>0, <1>5
  DEF vars, IInv, QueuedArePending, QueueDistinct, MutualExclusion, WorkConserving, LoopIdle
<1>6. QED
  BY <1>1, <1>2, <1>3, <1>4, <1>5 DEF Next

(* The inductive invariant holds in every reachable state. *)
LEMMA SpecIInv == Spec => []IInv
BY InitIInv, StepIInv, PTL DEF Spec

(* A UE never runs two procedures at once, for every number of UEs and    *)
(* tasks and every queue capacity, although handle_ue_async_task may be   *)
(* called while a task of the UE is suspended and a completion promotes   *)
(* the next queued task in the same step.                                 *)
THEOREM SchedulerSafety == Spec => []MutualExclusion
<1>1. IInv => MutualExclusion
  BY DEF IInv
<1>2. QED
  BY SpecIInv, <1>1, PTL

(* A UE whose control loop is idle never has a procedure waiting in its   *)
(* queue: a task is queued only behind a running one, and the completion  *)
(* hook promotes the head of the queue in the step that ends the running  *)
(* task, for every number of UEs and tasks and every queue capacity.      *)
THEOREM WorkConservingSafety == Spec => []WorkConserving
<1>1. IInv => WorkConserving
  BY DEF IInv
<1>2. QED
  BY SpecIInv, <1>1, PTL


-----------------------------------------------------------------------------
(***************************************************************************)
(* The action property: the life of a task.                                *)
(***************************************************************************)

(* Every status may stay as it is. *)
LEMMA LifeCycleStays == \A x \in Status : x \in LifeCycle[x]
  BY DEF LifeCycle, Status

(* No step moves a task against its life cycle.  clear_pending_tasks      *)
(* cancels only queued tasks, which are pending by QueuedArePending, and  *)
(* a completion starts only the head of the queue, which is pending too.  *)
LEMMA StepLifeCycle == IInv /\ [Next]_vars => TaskLifeCycle
<1> SUFFICES ASSUME IInv, [Next]_vars, NEW s \in Tasks
             PROVE  status'[s] \in LifeCycle[status[s]]
  BY DEF TaskLifeCycle
<1>0. TypeOK /\ QueuedArePending
  BY DEF IInv
<1>s. status[s] \in Status
  BY <1>0 DEF TypeOK
<1>1. ASSUME NEW t \in Tasks, HandleUeAsyncTask(t)
      PROVE  status'[s] \in LifeCycle[status[s]]
  <2>1. status[t] = "new"
    BY <1>1 DEF HandleUeAsyncTask
  <2>2. CASE s = t
    <3>1. status'[t] \in {"active", "pending", "dropped"}
      BY <1>0, <1>1 DEF HandleUeAsyncTask, StartNow, Enqueue, Reject, TypeOK
    <3>2. QED
      BY <2>1, <2>2, <3>1 DEF LifeCycle
  <2>3. CASE s # t
    <3>1. status'[s] = status[s]
      BY <1>0, <1>1, <2>3 DEF HandleUeAsyncTask, StartNow, Enqueue, Reject, TypeOK
    <3>2. QED
      BY <1>s, <3>1, LifeCycleStays
  <2>4. QED
    BY <2>2, <2>3
<1>2. ASSUME NEW u \in UEs, ClearPendingTasks(u)
      PROVE  status'[s] \in LifeCycle[status[s]]
  <2>1. status'[s] = status[s] \/ (status[s] = "pending" /\ status'[s] = "cancelled")
    BY <1>0, <1>2, ClearEffect
  <2>2. QED
    BY <1>s, <2>1, LifeCycleStays DEF LifeCycle
<1>3. ASSUME NEW u \in UEs, Suspend(u)
      PROVE  status'[s] \in LifeCycle[status[s]]
  <2>1. status'[s] = status[s]
    BY <1>3 DEF Suspend
  <2>2. QED
    BY <1>s, <2>1, LifeCycleStays
<1>4. ASSUME NEW u \in UEs, Complete(u)
      PROVE  status'[s] \in LifeCycle[status[s]]
  <2>1. PICK t \in Tasks : owner[t] = u /\ status[t] = "active" /\ OnTaskComplete(u, t)
    BY <1>4 DEF Complete
  <2>2. status' = [x \in Tasks |-> IF x = t THEN "done"
                                   ELSE IF x \in Promoted(u) THEN "active" ELSE status[x]]
    BY <2>1 DEF OnTaskComplete
  <2>3. \A x \in Promoted(u) : status[x] = "pending"
    <3>1. CASE queue[u] = <<>>
      BY <3>1 DEF Promoted
    <3>2. CASE queue[u] # <<>>
      <4>1. 1 \in 1..Len(queue[u]) /\ Head(queue[u]) = queue[u][1]
        BY <1>0, <3>2 DEF TypeOK
      <4>2. QED
        BY <1>0, <3>2, <4>1 DEF Promoted, QueuedArePending
    <3>3. QED
      BY <3>1, <3>2
  <2>4. CASE s = t
    BY <2>1, <2>2, <2>4 DEF LifeCycle
  <2>5. CASE s # t /\ s \in Promoted(u)
    BY <2>2, <2>3, <2>5 DEF LifeCycle
  <2>6. CASE s # t /\ s \notin Promoted(u)
    <3>1. status'[s] = status[s]
      BY <2>2, <2>6
    <3>2. QED
      BY <1>s, <3>1, LifeCycleStays
  <2>7. QED
    BY <2>4, <2>5, <2>6
<1>5. CASE UNCHANGED vars
  <2>1. status'[s] = status[s]
    BY <1>5 DEF vars
  <2>2. QED
    BY <1>s, <2>1, LifeCycleStays
<1>6. QED
  BY <1>1, <1>2, <1>3, <1>4, <1>5 DEF Next

(* Whatever the interleaving of handle_ue_async_task, clear_pending_tasks, *)
(* suspensions and completions across UEs, every task moves only along    *)
(* its life cycle: clear_pending_tasks never cancels a started task and    *)
(* no completion restarts a finished, cancelled or rejected one, for every *)
(* number of UEs and tasks and every queue capacity.                       *)
THEOREM TaskLifeCycleSafety == Spec => TaskLifeCycleProp
<1>1. []IInv /\ [][Next]_vars => [][TaskLifeCycle]_vars
  BY StepLifeCycle, PTL
<1>2. QED
  BY SpecIInv, <1>1, PTL DEF Spec, TaskLifeCycleProp


-----------------------------------------------------------------------------
(***************************************************************************)
(* The FIFO discipline: FifoPositions.                                     *)
(*                                                                         *)
(* FifoPositions is stated for one UE at a time over three sequences and  *)
(* a status map, so that the effect of a step on one UE's loop becomes a  *)
(* fact about sequences: handle_ue_async_task appends the same task to    *)
(* the work and to the accepted tasks, clear_pending_tasks cuts the work  *)
(* down to the started prefix, and a completion moves the head of the     *)
(* queue to the end of the started tasks, which leaves the work as it is. *)
(***************************************************************************)
FifoOf(W, A, st) ==
    /\ \A i, j \in 1..Len(W) : i < j =>
           \E a, b \in 1..Len(A) : a < b /\ A[a] = W[i] /\ A[b] = W[j]
    /\ \A i \in 1..Len(W) :
           st[W[i]] # "cancelled" /\ \E a \in 1..Len(A) : A[a] = W[i]
    /\ \A a \in 1..Len(A) :
           st[A[a]] # "cancelled" => \E i \in 1..Len(W) : W[i] = A[a]

LEMMA FifoUnfold ==
    FifoPositions <=> \A u \in UEs : FifoOf(Work(u), accepted[u], status)
  BY DEF FifoPositions, FifoOf, NotCancelled

LEMMA FifoUnfoldPrime ==
    FifoPositions' <=> \A u \in UEs : FifoOf(started'[u] \o queue'[u], accepted'[u], status')
  BY DEF FifoPositions, FifoOf, NotCancelled, Work

(* A status change that cancels no task of the work and revives no       *)
(* cancelled task keeps the discipline.                                   *)
LEMMA FifoKeep ==
    ASSUME NEW W \in Seq(Tasks), NEW A \in Seq(Tasks), NEW st, NEW st2,
           FifoOf(W, A, st),
           \A x \in Tasks : st2[x] # "cancelled" => st[x] # "cancelled",
           \A i \in 1..Len(W) : st2[W[i]] # "cancelled"
    PROVE  FifoOf(W, A, st2)
<1>1. \A i, j \in 1..Len(W) : i < j =>
          \E a, b \in 1..Len(A) : a < b /\ A[a] = W[i] /\ A[b] = W[j]
  BY DEF FifoOf
<1>2. \A i \in 1..Len(W) : \E a \in 1..Len(A) : A[a] = W[i]
  BY DEF FifoOf
<1>3. ASSUME NEW a \in 1..Len(A), st2[A[a]] # "cancelled"
      PROVE  \E i \in 1..Len(W) : W[i] = A[a]
  <2>1. A[a] \in Tasks
    OBVIOUS
  <2>2. st[A[a]] # "cancelled"
    BY <1>3, <2>1
  <2>3. \A b \in 1..Len(A) : st[A[b]] # "cancelled" => \E i \in 1..Len(W) : W[i] = A[b]
    BY DEF FifoOf
  <2>4. QED
    BY <2>2, <2>3
<1>4. QED
  BY <1>1, <1>2, <1>3 DEF FifoOf

(* The same, when the step cancels nothing and revives nothing. *)
LEMMA FifoKeepSame ==
    ASSUME NEW W \in Seq(Tasks), NEW A \in Seq(Tasks), NEW st, NEW st2,
           FifoOf(W, A, st),
           \A x \in Tasks : st2[x] = "cancelled" <=> st[x] = "cancelled"
    PROVE  FifoOf(W, A, st2)
<1>1. ASSUME NEW i \in 1..Len(W) PROVE st2[W[i]] # "cancelled"
  <2>1. W[i] \in Tasks
    OBVIOUS
  <2>2. st[W[i]] # "cancelled"
    BY DEF FifoOf
  <2>3. QED
    BY <2>1, <2>2
<1>2. QED
  BY <1>1, FifoKeep

(* Accepting a task that is in neither sequence, at the end of both. *)
LEMMA FifoAppend ==
    ASSUME NEW W \in Seq(Tasks), NEW A \in Seq(Tasks), NEW st, NEW x \in Tasks,
           FifoOf(W, A, st), st[x] # "cancelled",
           \A i \in 1..Len(W) : W[i] # x,
           \A a \in 1..Len(A) : A[a] # x
    PROVE  FifoOf(Append(W, x), Append(A, x), st)
<1> DEFINE W2 == Append(W, x)
           A2 == Append(A, x)
<1>1. /\ Len(W2) = Len(W) + 1 /\ W2[Len(W) + 1] = x
      /\ \A i \in 1..Len(W) : W2[i] = W[i]
  BY AppendProperties
<1>2. /\ Len(A2) = Len(A) + 1 /\ A2[Len(A) + 1] = x
      /\ \A a \in 1..Len(A) : A2[a] = A[a]
  BY AppendProperties
<1>3. ASSUME NEW i \in 1..Len(W2), NEW j \in 1..Len(W2), i < j
      PROVE  \E a, b \in 1..Len(A2) : a < b /\ A2[a] = W2[i] /\ A2[b] = W2[j]
  <2>1. i \in 1..Len(W)
    BY <1>1, <1>3
  <2>2. CASE j \in 1..Len(W)
    <3>1. PICK a, b \in 1..Len(A) : a < b /\ A[a] = W[i] /\ A[b] = W[j]
      BY <1>3, <2>1, <2>2 DEF FifoOf
    <3>2. QED
      BY <1>1, <1>2, <2>1, <2>2, <3>1
  <2>3. CASE j = Len(W) + 1
    <3>1. PICK a \in 1..Len(A) : A[a] = W[i]
      BY <2>1 DEF FifoOf
    <3>2. QED
      BY <1>1, <1>2, <2>1, <2>3, <3>1
  <2>4. j \in 1..Len(W) \/ j = Len(W) + 1
    BY <1>1
  <2>5. QED
    BY <2>2, <2>3, <2>4, Zenon
<1>4. ASSUME NEW i \in 1..Len(W2)
      PROVE  st[W2[i]] # "cancelled" /\ \E a \in 1..Len(A2) : A2[a] = W2[i]
  <2>1. CASE i \in 1..Len(W)
    <3>1. PICK a \in 1..Len(A) : A[a] = W[i]
      BY <2>1 DEF FifoOf
    <3>2. QED
      BY <1>1, <1>2, <2>1, <3>1 DEF FifoOf
  <2>2. CASE i = Len(W) + 1
    BY <1>1, <1>2, <2>2
  <2>3. QED
    BY <1>1, <2>1, <2>2
<1>5. ASSUME NEW a \in 1..Len(A2), st[A2[a]] # "cancelled"
      PROVE  \E i \in 1..Len(W2) : W2[i] = A2[a]
  <2>1. CASE a \in 1..Len(A)
    <3>1. PICK i \in 1..Len(W) : W[i] = A[a]
      BY <1>2, <1>5, <2>1 DEF FifoOf
    <3>2. QED
      BY <1>1, <1>2, <2>1, <3>1
  <2>2. CASE a = Len(A) + 1
    BY <1>1, <1>2, <2>2
  <2>3. QED
    BY <1>2, <2>1, <2>2
<1>6. QED
  BY <1>3, <1>4, <1>5 DEF FifoOf

(* Cancelling the queued part of the work, and nothing else of it. *)
LEMMA FifoPrefix ==
    ASSUME NEW S \in Seq(Tasks), NEW Q \in Seq(Tasks), NEW A \in Seq(Tasks),
           NEW st, NEW st2,
           FifoOf(S \o Q, A, st),
           \A x \in Tasks : st2[x] # "cancelled" => st[x] # "cancelled",
           \A i \in 1..Len(S) : st2[S[i]] # "cancelled",
           \A i \in 1..Len(Q) : st2[Q[i]] = "cancelled"
    PROVE  FifoOf(S, A, st2)
<1> DEFINE W == S \o Q
<1>1. /\ Len(S) \in Nat /\ Len(Q) \in Nat /\ Len(W) = Len(S) + Len(Q)
      /\ \A i \in 1..Len(S) : W[i] = S[i]
      /\ \A i \in Len(S) + 1..Len(W) : W[i] = Q[i - Len(S)]
  BY ConcatProperties
<1>2. ASSUME NEW i \in 1..Len(S), NEW j \in 1..Len(S), i < j
      PROVE  \E a, b \in 1..Len(A) : a < b /\ A[a] = S[i] /\ A[b] = S[j]
  <2>1. i \in 1..Len(W) /\ j \in 1..Len(W) /\ W[i] = S[i] /\ W[j] = S[j]
    BY <1>1
  <2>2. \A k, l \in 1..Len(W) : k < l =>
            \E a, b \in 1..Len(A) : a < b /\ A[a] = W[k] /\ A[b] = W[l]
    BY DEF FifoOf
  <2>3. QED
    BY <1>2, <2>1, <2>2
<1>3. ASSUME NEW i \in 1..Len(S)
      PROVE  \E a \in 1..Len(A) : A[a] = S[i]
  <2>1. i \in 1..Len(W) /\ W[i] = S[i]
    BY <1>1
  <2>2. \A k \in 1..Len(W) : \E a \in 1..Len(A) : A[a] = W[k]
    BY DEF FifoOf
  <2>3. QED
    BY <2>1, <2>2
<1>4. ASSUME NEW a \in 1..Len(A), st2[A[a]] # "cancelled"
      PROVE  \E i \in 1..Len(S) : S[i] = A[a]
  <2>a. A[a] \in Tasks
    BY <1>4
  <2>b. st[A[a]] # "cancelled"
    BY <1>4, <2>a
  <2>c. \A b \in 1..Len(A) : st[A[b]] # "cancelled" => \E i \in 1..Len(W) : W[i] = A[b]
    BY DEF FifoOf
  <2>1. PICK i \in 1..Len(W) : W[i] = A[a]
    BY <2>b, <2>c
  <2>2. i \in 1..Len(S)
    <3>1. SUFFICES ASSUME i \in Len(S) + 1..Len(W) PROVE FALSE
      BY <1>1
    <3>2. i - Len(S) \in 1..Len(Q) /\ W[i] = Q[i - Len(S)]
      BY <1>1, <3>1
    <3>3. QED
      BY <1>4, <2>1, <3>2
  <2>3. QED
    BY <1>1, <2>1, <2>2
<1>5. QED
  BY <1>2, <1>3, <1>4 DEF FifoOf

(* handle_ue_async_task queueing behind started work. *)
LEMMA ConcatAppend ==
    ASSUME NEW S, NEW s \in Seq(S), NEW q \in Seq(S), NEW e \in S
    PROVE  s \o Append(q, e) = Append(s \o q, e)
<1>1. <<e>> \in Seq(S) /\ s \o q \in Seq(S)
  BY ConcatProperties
<1>2. s \o Append(q, e) = s \o (q \o <<e>>)
  BY AppendIsConcat
<1>3. Append(s \o q, e) = (s \o q) \o <<e>>
  BY <1>1, AppendIsConcat
<1>4. QED
  BY <1>1, <1>2, <1>3, ConcatAssociative

(* The completion hook moving the head of the queue to the started tasks. *)
LEMMA AppendHeadTail ==
    ASSUME NEW S, NEW s \in Seq(S), NEW q \in Seq(S), q # <<>>
    PROVE  Append(s, Head(q)) \o Tail(q) = s \o q
<1> DEFINE l == Append(s, Head(q)) \o Tail(q)
           r == s \o q
<1>1. /\ Head(q) \in S /\ Tail(q) \in Seq(S) /\ Len(Tail(q)) = Len(q) - 1
      /\ \A i \in 1..Len(Tail(q)) : Tail(q)[i] = q[i + 1]
      /\ Len(q) \in Nat \ {0} /\ Head(q) = q[1]
  BY HeadTailProperties
<1>2. /\ Append(s, Head(q)) \in Seq(S) /\ Len(Append(s, Head(q))) = Len(s) + 1
      /\ \A i \in 1..Len(s) : Append(s, Head(q))[i] = s[i]
      /\ Append(s, Head(q))[Len(s) + 1] = Head(q)
  BY <1>1, AppendProperties
<1>3. /\ l \in Seq(S) /\ Len(l) = Len(s) + Len(q)
      /\ \A i \in 1..Len(s) + Len(q) :
             l[i] = IF i <= Len(s) + 1 THEN Append(s, Head(q))[i] ELSE Tail(q)[i - Len(s) - 1]
  BY <1>1, <1>2, ConcatProperties
<1>4. /\ r \in Seq(S) /\ Len(r) = Len(s) + Len(q)
      /\ \A i \in 1..Len(s) + Len(q) : r[i] = IF i <= Len(s) THEN s[i] ELSE q[i - Len(s)]
  BY ConcatProperties
<1>5. \A i \in 1..Len(l) : l[i] = r[i]
  BY <1>1, <1>2, <1>3, <1>4
<1>6. QED
  BY <1>3, <1>4, <1>5, SeqEqual


-----------------------------------------------------------------------------
(* FifoPositions is not inductive either: a task handed in must be in no  *)
(* UE's work and no accepted list, which holds because it is still new,   *)
(* and clear_pending_tasks must leave the started tasks alone, which     *)
(* holds because they are active or done.                                 *)
StartedRan ==
    \A u \in UEs : \A i \in 1..Len(started[u]) :
        status[started[u][i]] \in {"active", "done"}

AcceptedNotNew ==
    \A u \in UEs : \A a \in 1..Len(accepted[u]) : status[accepted[u][a]] # "new"

FifoInv == IInv /\ StartedRan /\ AcceptedNotNew /\ FifoPositions

(* An entry of a sequence of tasks is a task. *)
LEMMA SeqEntry ==
    ASSUME NEW s \in Seq(Tasks), NEW k \in 1..Len(s)
    PROVE  s[k] \in Tasks
  OBVIOUS

LEMMA WorkType ==
    ASSUME TypeOK, NEW u \in UEs
    PROVE  /\ Work(u) \in Seq(Tasks)
           /\ Len(Work(u)) = Len(started[u]) + Len(queue[u])
           /\ \A i \in 1..Len(started[u]) : Work(u)[i] = started[u][i]
           /\ \A i \in Len(started[u]) + 1..Len(Work(u)) :
                  Work(u)[i] = queue[u][i - Len(started[u])]
  BY ConcatProperties DEF TypeOK, Work

(* An entry of UE u's work has run, or waits in u's queue. *)
LEMMA WorkRan ==
    ASSUME TypeOK, QueuedArePending, StartedRan,
           NEW u \in UEs, NEW i \in 1..Len(Work(u))
    PROVE  /\ Work(u)[i] \in Tasks
           /\ \/ status[Work(u)[i]] \in {"active", "done"}
              \/ status[Work(u)[i]] = "pending" /\ owner[Work(u)[i]] = u
<1>0. Len(started[u]) \in Nat /\ Len(queue[u]) \in Nat
  BY DEF TypeOK
<1>1. CASE i <= Len(started[u])
  <2>1. i \in 1..Len(started[u])
    BY <1>0, <1>1
  <2>2. Work(u)[i] = started[u][i]
    BY <2>1, WorkType
  <2>3. started[u][i] \in Tasks /\ status[started[u][i]] \in {"active", "done"}
    BY <2>1 DEF StartedRan, TypeOK
  <2>4. QED
    BY <2>2, <2>3
<1>2. CASE i > Len(started[u])
  <2> DEFINE k == i - Len(started[u])
  <2>1. i \in Len(started[u]) + 1..Len(Work(u))
    BY <1>0, <1>2
  <2>2. Len(Work(u)) = Len(started[u]) + Len(queue[u])
    BY WorkType
  <2>0. i \in 1..Len(started[u]) + Len(queue[u])
    BY <2>2, Zenon
  <2>3. k \in 1..Len(queue[u])
    BY <1>2, <2>0 DEF TypeOK
  <2>4. Work(u)[i] = queue[u][k]
    BY <2>1, WorkType
  <2>5. queue[u][k] \in Tasks
    BY <2>3, QueueEntryIsTask
  <2>6. status[queue[u][k]] = "pending" /\ owner[queue[u][k]] = u
    BY <2>3 DEF QueuedArePending
  <2>7. QED
    BY <2>4, <2>5, <2>6
<1>3. QED
  BY <1>0, <1>1, <1>2

(* A task not yet handed to the scheduler is in no work and no history. *)
LEMMA TaskNowhere ==
    ASSUME TypeOK, QueuedArePending, StartedRan, AcceptedNotNew,
           NEW t \in Tasks, status[t] = "new", NEW v \in UEs
    PROVE  /\ \A i \in 1..Len(Work(v)) : Work(v)[i] # t
           /\ \A a \in 1..Len(accepted[v]) : accepted[v][a] # t
  BY WorkRan DEF AcceptedNotNew

(* The histories only grow at their end, by a task that has left "new". *)
StartedGrow ==
    \A v \in UEs : \/ started'[v] = started[v]
                   \/ \E x \in Tasks : started'[v] = Append(started[v], x)
                                       /\ status'[x] = "active"

AcceptedGrow ==
    \A v \in UEs : \/ accepted'[v] = accepted[v]
                   \/ \E x \in Tasks : accepted'[v] = Append(accepted[v], x)
                                       /\ status'[x] # "new"

LEMMA HistoryStep ==
    ASSUME TypeOK, StartedRan, AcceptedNotNew,
           \A x \in Tasks : status[x] \in {"active", "done"} => status'[x] \in {"active", "done"},
           \A x \in Tasks : status[x] # "new" => status'[x] # "new",
           StartedGrow, AcceptedGrow
    PROVE  StartedRan' /\ AcceptedNotNew'
<1>0. started \in [UEs -> Seq(Tasks)] /\ accepted \in [UEs -> Seq(Tasks)]
  BY DEF TypeOK
<1>1. StartedRan'
  <2> SUFFICES ASSUME NEW v \in UEs, NEW i \in 1..Len(started'[v])
               PROVE  status'[started'[v][i]] \in {"active", "done"}
    BY DEF StartedRan
  <2>1. ASSUME NEW k \in 1..Len(started[v])
        PROVE  status'[started[v][k]] \in {"active", "done"}
    <3>1. started[v][k] \in Tasks
      BY <1>0, SeqEntry
    <3>2. status[started[v][k]] \in {"active", "done"}
      BY DEF StartedRan
    <3>3. QED
      BY <3>1, <3>2
  <2>2. CASE started'[v] = started[v]
    BY <2>1, <2>2
  <2>3. CASE started'[v] # started[v]
    <3>1. PICK x \in Tasks : started'[v] = Append(started[v], x) /\ status'[x] = "active"
      BY <2>3 DEF StartedGrow
    <3>2. /\ Len(started'[v]) = Len(started[v]) + 1
          /\ started'[v][Len(started[v]) + 1] = x
          /\ \A k \in 1..Len(started[v]) : started'[v][k] = started[v][k]
      BY <1>0, <3>1, AppendProperties
    <3>3. Len(started[v]) \in Nat
      BY <1>0
    <3>4. QED
      BY <2>1, <3>1, <3>2, <3>3
  <2>4. QED
    BY <2>2, <2>3
<1>2. AcceptedNotNew'
  <2> SUFFICES ASSUME NEW v \in UEs, NEW a \in 1..Len(accepted'[v])
               PROVE  status'[accepted'[v][a]] # "new"
    BY DEF AcceptedNotNew
  <2>1. ASSUME NEW k \in 1..Len(accepted[v])
        PROVE  status'[accepted[v][k]] # "new"
    <3>1. accepted[v][k] \in Tasks
      BY <1>0, SeqEntry
    <3>2. status[accepted[v][k]] # "new"
      BY DEF AcceptedNotNew
    <3>3. QED
      BY <3>1, <3>2
  <2>2. CASE accepted'[v] = accepted[v]
    BY <2>1, <2>2
  <2>3. CASE accepted'[v] # accepted[v]
    <3>1. PICK x \in Tasks : accepted'[v] = Append(accepted[v], x) /\ status'[x] # "new"
      BY <2>3 DEF AcceptedGrow
    <3>2. /\ Len(accepted'[v]) = Len(accepted[v]) + 1
          /\ accepted'[v][Len(accepted[v]) + 1] = x
          /\ \A k \in 1..Len(accepted[v]) : accepted'[v][k] = accepted[v][k]
      BY <1>0, <3>1, AppendProperties
    <3>3. Len(accepted[v]) \in Nat
      BY <1>0
    <3>4. QED
      BY <2>1, <3>1, <3>2, <3>3
  <2>4. QED
    BY <2>2, <2>3
<1>3. QED
  BY <1>1, <1>2

(* A step that leaves UE v's work and history as they were and cancels  *)
(* or revives nothing keeps the discipline of v's loop.                   *)
LEMMA FifoFrameUE ==
    ASSUME TypeOK, NEW v \in UEs, FifoOf(Work(v), accepted[v], status),
           started'[v] \o queue'[v] = Work(v), accepted'[v] = accepted[v],
           \A x \in Tasks : status'[x] = "cancelled" <=> status[x] = "cancelled"
    PROVE  FifoOf(started'[v] \o queue'[v], accepted'[v], status')
  BY WorkType, FifoKeepSame DEF TypeOK


-----------------------------------------------------------------------------
(* FifoInv holds initially and is kept by every step. *)
LEMMA InitFifo == Init => FifoInv
<1> SUFFICES ASSUME Init PROVE FifoInv
  OBVIOUS
<1>1. \A u \in UEs : Work(u) = <<>>
  <2>1. \A u \in UEs : started[u] = <<>> /\ queue[u] = <<>>
    BY DEF Init
  <2>2. <<>> \o <<>> = <<>>
    BY EmptySeq, ConcatEmptySeq
  <2>3. QED
    BY <2>1, <2>2 DEF Work
<1>2. QED
  BY <1>1, InitIInv DEF Init, FifoInv, StartedRan, AcceptedNotNew, FifoPositions

LEMMA StepFifo == FifoInv /\ [Next]_vars => FifoInv'
<1> SUFFICES ASSUME FifoInv, [Next]_vars
             PROVE  /\ StartedRan' /\ AcceptedNotNew'
                    /\ \A v \in UEs : FifoOf(started'[v] \o queue'[v], accepted'[v], status')
  BY StepIInv, FifoUnfoldPrime DEF FifoInv
<1>0. /\ TypeOK /\ TypeOK' /\ QueuedArePending /\ StartedRan /\ AcceptedNotNew
      /\ WorkConserving /\ \A v \in UEs : FifoOf(Work(v), accepted[v], status)
  BY StepIInv, FifoUnfold DEF FifoInv, IInv
<1>t. /\ queue \in [UEs -> Seq(Tasks)] /\ started \in [UEs -> Seq(Tasks)]
      /\ accepted \in [UEs -> Seq(Tasks)]
  BY <1>0 DEF TypeOK
<1>1. ASSUME NEW t \in Tasks, HandleUeAsyncTask(t)
      PROVE  /\ StartedRan' /\ AcceptedNotNew'
             /\ \A v \in UEs : FifoOf(started'[v] \o queue'[v], accepted'[v], status')
  <2> DEFINE u == owner[t]
  <2>1. u \in UEs /\ status[t] = "new"
    BY <1>0, <1>1 DEF HandleUeAsyncTask, TypeOK
  <2>2. /\ \A i \in 1..Len(Work(u)) : Work(u)[i] # t
        /\ \A a \in 1..Len(accepted[u]) : accepted[u][a] # t
    BY <1>0, <2>1, TaskNowhere
  <2>3. PICK c \in {"active", "pending", "dropped"} : status' = [status EXCEPT ![t] = c]
    BY <1>1 DEF HandleUeAsyncTask, StartNow, Enqueue, Reject
  <2>4. /\ \A x \in Tasks : status[x] \in {"active", "done"} => status'[x] \in {"active", "done"}
        /\ \A x \in Tasks : status[x] # "new" => status'[x] # "new"
        /\ \A x \in Tasks : status'[x] = "cancelled" <=> status[x] = "cancelled"
        /\ status'[t] = c
    BY <1>0, <2>1, <2>3 DEF TypeOK
  (* The loops of the other UEs, and every loop when the task is rejected. *)
  <2>5. ASSUME NEW v \in UEs, started'[v] = started[v], queue'[v] = queue[v],
               accepted'[v] = accepted[v]
        PROVE  FifoOf(started'[v] \o queue'[v], accepted'[v], status')
    BY <1>0, <2>4, <2>5, FifoFrameUE DEF Work
  (* The loop of u when it accepts the task. *)
  <2>6. ASSUME started'[u] \o queue'[u] = Append(Work(u), t),
               accepted'[u] = Append(accepted[u], t)
        PROVE  FifoOf(started'[u] \o queue'[u], accepted'[u], status')
    <3>1. Work(u) \in Seq(Tasks) /\ accepted[u] \in Seq(Tasks)
      BY <1>0, <2>1, WorkType DEF TypeOK
    <3>2. FifoOf(Append(Work(u), t), Append(accepted[u], t), status)
      BY <1>0, <2>1, <2>2, <3>1, FifoAppend
    <3>3. Append(Work(u), t) \in Seq(Tasks) /\ Append(accepted[u], t) \in Seq(Tasks)
      BY <3>1, AppendProperties
    <3>4. QED
      BY <2>4, <2>6, <3>2, <3>3, FifoKeepSame
  <2>7. CASE LoopIdle(u) /\ StartNow(u, t)
    <3>1. queue[u] = <<>> /\ status'[t] = "active"
      BY <1>0, <2>1, <2>3, <2>7 DEF WorkConserving, StartNow, TypeOK
    <3>2. /\ started'[u] = Append(started[u], t) /\ queue'[u] = <<>>
          /\ accepted'[u] = Append(accepted[u], t)
          /\ \A v \in UEs \ {u} : started'[v] = started[v] /\ queue'[v] = queue[v]
                                 /\ accepted'[v] = accepted[v]
      BY <1>0, <2>1, <2>7, <3>1 DEF StartNow, TypeOK
    <3>3. StartedRan' /\ AcceptedNotNew'
      <4>1. StartedGrow /\ AcceptedGrow
        BY <3>1, <3>2 DEF StartedGrow, AcceptedGrow
      <4>2. QED
        BY <1>0, <2>4, <4>1, HistoryStep
    <3>4. started'[u] \o queue'[u] = Append(Work(u), t)
      <4>1. started[u] \in Seq(Tasks) /\ Append(started[u], t) \in Seq(Tasks)
        BY <1>0, <2>1, AppendProperties DEF TypeOK
      <4>2. Work(u) = started[u]
        BY <3>1, <4>1, ConcatEmptySeq DEF Work
      <4>3. QED
        BY <3>2, <4>1, <4>2, ConcatEmptySeq
    <3>5. QED
      BY <2>5, <2>6, <3>2, <3>3, <3>4
  <2>8. CASE ~LoopIdle(u) /\ Enqueue(u, t)
    <3>1. status'[t] = "pending"
      BY <1>0, <2>8 DEF Enqueue, TypeOK
    <3>2. /\ started'[u] = started[u] /\ queue'[u] = Append(queue[u], t)
          /\ accepted'[u] = Append(accepted[u], t)
          /\ \A v \in UEs \ {u} : started'[v] = started[v] /\ queue'[v] = queue[v]
                                 /\ accepted'[v] = accepted[v]
      BY <1>0, <2>1, <2>8 DEF Enqueue, TypeOK
    <3>3. StartedRan' /\ AcceptedNotNew'
      <4>1. StartedGrow /\ AcceptedGrow
        BY <3>1, <3>2 DEF StartedGrow, AcceptedGrow
      <4>2. QED
        BY <1>0, <2>4, <4>1, HistoryStep
    <3>4. started'[u] \o queue'[u] = Append(Work(u), t)
      <4>1. started[u] \in Seq(Tasks) /\ queue[u] \in Seq(Tasks)
        BY <1>t, <2>1
      <4>2. started[u] \o Append(queue[u], t) = Append(started[u] \o queue[u], t)
        <5>1. \A sq, qq \in Seq(Tasks), e \in Tasks : sq \o Append(qq, e) = Append(sq \o qq, e)
          BY ConcatAppend
        <5>2. QED
          BY <4>1, <5>1
      <4>3. QED
        BY <3>2, <4>2 DEF Work
    <3>5. QED
      BY <2>5, <2>6, <3>2, <3>3, <3>4
  <2>9. CASE Reject(t)
    <3>1. UNCHANGED <<queue, accepted, started>>
      BY <2>9 DEF Reject
    <3>2. StartedRan' /\ AcceptedNotNew'
      <4>1. StartedGrow /\ AcceptedGrow
        BY <3>1 DEF StartedGrow, AcceptedGrow
      <4>2. QED
        BY <1>0, <2>4, <4>1, HistoryStep
    <3>3. QED
      BY <2>5, <3>1, <3>2
  <2>10. QED
    BY <1>1, <2>7, <2>8, <2>9 DEF HandleUeAsyncTask

<1>2. ASSUME NEW u \in UEs, ClearPendingTasks(u)
      PROVE  /\ StartedRan' /\ AcceptedNotNew'
             /\ \A v \in UEs : FifoOf(started'[v] \o queue'[v], accepted'[v], status')
  <2>0. /\ \A x \in Tasks : \/ status'[x] = status[x]
                            \/ status[x] = "pending" /\ owner[x] = u /\ status'[x] = "cancelled"
        /\ \A i \in 1..Len(queue[u]) : status'[queue[u][i]] = "cancelled"
        /\ queue' = [queue EXCEPT ![u] = <<>>]
        /\ UNCHANGED <<owner, accepted, started>>
    BY <1>0, <1>2, ClearEffect
  <2>1. /\ \A x \in Tasks : \/ status'[x] = status[x]
                            \/ status[x] = "pending" /\ owner[x] = u /\ status'[x] = "cancelled"
        /\ \A i \in 1..Len(queue[u]) : status'[queue[u][i]] = "cancelled"
        /\ queue'[u] = <<>> /\ \A v \in UEs \ {u} : queue'[v] = queue[v]
        /\ UNCHANGED <<owner, accepted, started>>
    BY <1>0, <2>0 DEF TypeOK
  <2>2. \A x \in Tasks : status'[x] # "cancelled" => status[x] # "cancelled"
    BY <2>1
  <2>3. StartedRan' /\ AcceptedNotNew'
    <3>1. /\ \A x \in Tasks : status[x] \in {"active", "done"} => status'[x] \in {"active", "done"}
          /\ \A x \in Tasks : status[x] # "new" => status'[x] # "new"
      BY <2>1
    <3>2. StartedGrow /\ AcceptedGrow
      BY <2>1 DEF StartedGrow, AcceptedGrow
    <3>3. QED
      BY <1>0, <3>1, <3>2, HistoryStep
  <2>4. ASSUME NEW v \in UEs
        PROVE  FifoOf(started'[v] \o queue'[v], accepted'[v], status')
    <3>1. CASE v = u
      <4>1. \A i \in 1..Len(started[u]) : status'[started[u][i]] # "cancelled"
        <5> SUFFICES ASSUME NEW i \in 1..Len(started[u])
                     PROVE  status'[started[u][i]] # "cancelled"
          OBVIOUS
        <5>1. started[u][i] \in Tasks
          BY <1>t, SeqEntry
        <5>2. status[started[u][i]] \in {"active", "done"}
          BY <1>0 DEF StartedRan
        <5>3. QED
          BY <2>1, <5>1, <5>2
      <4>2. \A i \in 1..Len(queue[u]) : status'[queue[u][i]] = "cancelled"
        BY <2>1
      <4>3. FifoOf(started[u], accepted[u], status')
        BY <1>0, <2>2, <4>1, <4>2, FifoPrefix DEF Work, TypeOK
      <4>4. started'[u] \o queue'[u] = started[u]
        BY <1>0, <2>1, ConcatEmptySeq DEF TypeOK
      <4>5. QED
        BY <2>1, <3>1, <4>3, <4>4
    <3>2. CASE v # u
      <4>1. started'[v] \o queue'[v] = Work(v) /\ accepted'[v] = accepted[v]
        BY <2>1, <3>2 DEF Work
      <4>2. \A i \in 1..Len(Work(v)) : status'[Work(v)[i]] # "cancelled"
        <5> SUFFICES ASSUME NEW i \in 1..Len(Work(v))
                     PROVE  status'[Work(v)[i]] # "cancelled"
          OBVIOUS
        <5>1. Work(v)[i] \in Tasks /\ status[Work(v)[i]] # "cancelled"
          <6>1. Work(v)[i] \in Tasks
            BY <1>0, WorkRan
          <6>2. FifoOf(Work(v), accepted[v], status)
            BY <1>0
          <6>3. status[Work(v)[i]] # "cancelled"
            BY <6>2 DEF FifoOf
          <6>4. QED
            BY <6>1, <6>3
        <5>2. ~(status[Work(v)[i]] = "pending" /\ owner[Work(v)[i]] = u)
          BY <1>0, <3>2, WorkRan
        <5>3. QED
          BY <2>1, <5>1, <5>2
      <4>3. Work(v) \in Seq(Tasks) /\ accepted[v] \in Seq(Tasks)
        BY <1>0, <1>t, WorkType
      <4>4. FifoOf(Work(v), accepted[v], status')
        BY <1>0, <2>2, <4>2, <4>3, FifoKeep
      <4>5. QED
        BY <4>1, <4>4
    <3>3. QED
      BY <3>1, <3>2
  <2>5. QED
    BY <2>3, <2>4
<1>3. ASSUME NEW u \in UEs, Suspend(u)
      PROVE  /\ StartedRan' /\ AcceptedNotNew'
             /\ \A v \in UEs : FifoOf(started'[v] \o queue'[v], accepted'[v], status')
  <2>1. UNCHANGED <<queue, status, accepted, started>>
    BY <1>3 DEF Suspend
  <2>2. QED
    BY <1>0, <2>1 DEF StartedRan, AcceptedNotNew, Work
<1>4. ASSUME NEW u \in UEs, Complete(u)
      PROVE  /\ StartedRan' /\ AcceptedNotNew'
             /\ \A v \in UEs : FifoOf(started'[v] \o queue'[v], accepted'[v], status')
  <2>1. PICK t \in Tasks : owner[t] = u /\ status[t] = "active" /\ OnTaskComplete(u, t)
                           /\ UNCHANGED <<owner, resumes, accepted>>
    BY <1>4 DEF Complete
  <2>2. CASE queue[u] = <<>>
    <3>1. status' = [status EXCEPT ![t] = "done"] /\ UNCHANGED <<queue, started>>
      BY <1>0, <2>1, <2>2 DEF OnTaskComplete, Promoted, TypeOK
    <3>2. \A x \in Tasks : status'[x] = "cancelled" <=> status[x] = "cancelled"
      BY <2>1, <3>1
    <3>3. StartedRan' /\ AcceptedNotNew'
      <4>1. /\ \A x \in Tasks : status[x] \in {"active", "done"} => status'[x] \in {"active", "done"}
            /\ \A x \in Tasks : status[x] # "new" => status'[x] # "new"
        BY <1>0, <2>1, <3>1 DEF TypeOK
      <4>2. StartedGrow /\ AcceptedGrow
        BY <2>1, <3>1 DEF StartedGrow, AcceptedGrow
      <4>3. QED
        BY <1>0, <4>1, <4>2, HistoryStep
    <3>4. QED
      BY <1>0, <2>1, <3>1, <3>2, <3>3, FifoFrameUE DEF Work
  <2>3. CASE queue[u] # <<>>
    <3> DEFINE h == Head(queue[u])
    <3>1. h \in Tasks /\ status[h] = "pending" /\ h # t
      <4>1. Len(queue[u]) \in Nat \ {0} /\ h = queue[u][1]
        BY <1>0, <2>3 DEF TypeOK
      <4>2. QED
        BY <1>0, <2>1, <4>1, QueueEntryIsTask DEF QueuedArePending
    <3>2. /\ status' = [s \in Tasks |-> IF s = t THEN "done"
                                        ELSE IF s = h THEN "active" ELSE status[s]]
          /\ queue'[u] = Tail(queue[u]) /\ started'[u] = Append(started[u], h)
          /\ \A v \in UEs \ {u} : queue'[v] = queue[v] /\ started'[v] = started[v]
      BY <1>0, <2>1, <2>3 DEF OnTaskComplete, Promoted, TypeOK
    <3>3. \A x \in Tasks : status'[x] = "cancelled" <=> status[x] = "cancelled"
      BY <2>1, <3>1, <3>2
    <3>4. StartedRan' /\ AcceptedNotNew'
      <4>1. /\ \A x \in Tasks : status[x] \in {"active", "done"} => status'[x] \in {"active", "done"}
            /\ \A x \in Tasks : status[x] # "new" => status'[x] # "new"
        BY <2>1, <3>1, <3>2
      <4>2. status'[h] = "active"
        BY <3>1, <3>2
      <4>3. StartedGrow /\ AcceptedGrow
        BY <2>1, <3>1, <3>2, <4>2 DEF StartedGrow, AcceptedGrow
      <4>4. QED
        BY <1>0, <4>1, <4>3, HistoryStep
    <3>5. ASSUME NEW v \in UEs
          PROVE  FifoOf(started'[v] \o queue'[v], accepted'[v], status')
      <4>1. started'[v] \o queue'[v] = Work(v)
        <5>1. CASE v = u
          <6>1. started[u] \in Seq(Tasks) /\ queue[u] \in Seq(Tasks)
            BY <1>t
          <6>2. Append(started[u], h) \o Tail(queue[u]) = started[u] \o queue[u]
            BY <2>3, <6>1, AppendHeadTail
          <6>3. QED
            BY <3>2, <5>1, <6>2 DEF Work
        <5>2. CASE v # u
          BY <3>2, <5>2 DEF Work
        <5>3. QED
          BY <5>1, <5>2
      <4>2. QED
        BY <1>0, <2>1, <3>3, <4>1, FifoFrameUE
    <3>6. QED
      BY <3>4, <3>5
  <2>4. QED
    BY <2>2, <2>3
<1>5. CASE UNCHANGED vars
  BY <1>0, <1>5 DEF vars, StartedRan, AcceptedNotNew, Work
<1>6. QED
  BY <1>1, <1>2, <1>3, <1>4, <1>5 DEF Next

(* The inductive invariant of the FIFO discipline holds in every state. *)
LEMMA SpecFifo == Spec => []FifoInv
BY InitFifo, StepFifo, PTL DEF Spec

(* Whatever the interleaving of handle_ue_async_task, clear_pending_tasks *)
(* and completions across UEs, the tasks each UE's control loop started,  *)
(* followed by those it still queues, are the tasks handle_ue_async_task  *)
(* accepted for that UE, in the order it accepted them, without those     *)
(* clear_pending_tasks cancelled: for every number of UEs and tasks and   *)
(* every queue capacity.                                                   *)
THEOREM FifoPositionsSafety == Spec => []FifoPositions
<1>1. FifoInv => FifoPositions
  BY DEF FifoInv
<1>2. QED
  BY SpecFifo, <1>1, PTL

=============================================================================
