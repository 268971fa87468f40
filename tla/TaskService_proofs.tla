------------------------ MODULE TaskService_proofs ------------------------
(***************************************************************************)
(* Proofs about TaskService, for any instances, tasks, jobs and expiry: the *)
(* type of its state, that initTask implements InitLease, what it leaves of  *)
(* the queue, and what the log of the tasks tells.                          *)
(***************************************************************************)
EXTENDS TaskService, TaskLog, TLAPS

(* Nobody is inside at the start. *)
LEMMA TaskInitInv == TaskInit => LockInv
<1> SUFFICES ASSUME TaskInit PROVE LockInv
  OBVIOUS
<1>1. TaskTypeOK
  <2>1. ttl \in 0..Ttl /\ boots \in 0..MaxBoots
    BY TtlAssumption, BootsAssumption DEF TaskInit
  <2>2. phase \in [Instances -> Phases]
    BY DEF TaskInit, Phases
  <2>3. job \in [Jobs -> JobStates] /\ runner \in [Jobs -> Instances \cup {Nobody}]
    BY DEF TaskInit, JobStates
  <2>4. /\ todo \in [Instances -> SUBSET (Jobs \cup Tasks)]
        /\ late \in [Instances -> SUBSET Jobs]
    BY DEF TaskInit
  <2>5. QED
    BY <2>1, <2>2, <2>3, <2>4 DEF TaskInit, TaskTypeOK
<1>2. Inside = {} /\ lapsed = FALSE
  BY DEF TaskInit, Inside, InitSteps
<1>3. QED
  BY <1>1, <1>2 DEF LockInv, LockHeld

(* Moving an instance to a phase keeps the types. *)
LEMMA MoveType ==
  ASSUME TaskTypeOK, NEW i \in Instances, NEW s \in Phases, Move(i, s)
  PROVE  phase' \in [Instances -> Phases] /\ lapsed' \in BOOLEAN
<1>1. phase' \in [Instances -> Phases]
  BY DEF TaskTypeOK, Move
<1>2. lapsed' \in BOOLEAN
  BY DEF TaskTypeOK, Move
<1>3. QED
  BY <1>1, <1>2

(* ... and taking it down, those of the queue too. *)
LEMMA DownType ==
  ASSUME TaskTypeOK, NEW i \in Instances, Down(i)
  PROVE  /\ phase' \in [Instances -> Phases] /\ lapsed' \in BOOLEAN
         /\ todo' \in [Instances -> SUBSET (Jobs \cup Tasks)]
         /\ late' \in [Instances -> SUBSET Jobs]
         /\ job' \in [Jobs -> JobStates]
         /\ runner' \in [Jobs -> Instances \cup {Nobody}]
<1>1. phase' \in [Instances -> Phases] /\ lapsed' \in BOOLEAN
  BY MoveType DEF Down, Phases
<1>2. job' \in [Jobs -> JobStates] /\ runner' \in [Jobs -> Instances \cup {Nobody}]
  BY DEF TaskTypeOK, Down, JobStates
<1>3. todo' \in [Instances -> SUBSET (Jobs \cup Tasks)] /\ late' \in [Instances -> SUBSET Jobs]
  BY DEF TaskTypeOK, Down
<1>4. QED
  BY <1>1, <1>2, <1>3

(* The steps of initTask keep the types. *)
LEMMA InitTaskType ==
  ASSUME TaskTypeOK, NEW i \in Instances, InitTaskStep(i)
  PROVE  TaskTypeOK'
<1> USE DEF queueVars
<1>1. CASE TakeLock(i)
  <2>1. PICK s \in Phases : Move(i, s)
    BY <1>1 DEF TakeLock, Phases, InitSteps
  <2>2. ttl' \in 0..Ttl
    BY <1>1, TtlAssumption DEF TakeLock
  <2>3. QED
    BY <1>1, <2>1, <2>2, MoveType DEF TakeLock, TaskTypeOK
<1>2. CASE ReadJobs(i)
  <2>1. Move(i, "remove") /\ "remove" \in Phases
    BY <1>2 DEF ReadJobs, Phases, InitSteps
  <2>2. /\ todo' \in [Instances -> SUBSET (Jobs \cup Tasks)]
        /\ late' \in [Instances -> SUBSET Jobs]
    BY <1>2 DEF ReadJobs, TaskTypeOK
  <2>3. QED
    BY <1>2, <2>1, <2>2, MoveType DEF ReadJobs, TaskTypeOK
<1>3. CASE RemoveJob(i)
  <2>1. PICK j \in todo[i] :
          \/ /\ job[j] # "active"
             /\ job' = [job EXCEPT ![j] = "gone"]
             /\ runner' = [runner EXCEPT ![j] = Nobody]
             /\ todo' = [todo EXCEPT ![i] = @ \ {j}]
             /\ UNCHANGED <<phase, lapsed, late>>
          \/ job[j] = "active" /\ Down(i)
    BY <1>3 DEF RemoveJob
  <2>2. UNCHANGED <<ttl, task, boots>>
    BY <1>3 DEF RemoveJob
  <2>3. CASE Down(i)
    BY <2>2, <2>3, DownType DEF TaskTypeOK
  <2>4. CASE ~Down(i)
    <3>1. /\ job' \in [Jobs -> JobStates]
          /\ runner' \in [Jobs -> Instances \cup {Nobody}]
          /\ todo' \in [Instances -> SUBSET (Jobs \cup Tasks)]
      BY <2>1, <2>4 DEF TaskTypeOK, JobStates
    <3>2. QED
      BY <2>1, <2>2, <2>4, <3>1 DEF TaskTypeOK
  <2>5. QED
    BY <2>3, <2>4
<1>4. CASE JobsRemoved(i)
  <2>1. Move(i, "tasks") /\ "tasks" \in Phases
    BY <1>4 DEF JobsRemoved, Phases, InitSteps
  <2>2. QED
    BY <1>4, <2>1, MoveType DEF JobsRemoved, TaskTypeOK
<1>5. CASE ReadTasks(i)
  <2>1. Move(i, "start") /\ "start" \in Phases
    BY <1>5 DEF ReadTasks, Phases, InitSteps
  <2>2. /\ todo' \in [Instances -> SUBSET (Jobs \cup Tasks)]
        /\ late' \in [Instances -> SUBSET Jobs]
    BY <1>5 DEF ReadTasks, TaskTypeOK
  <2>3. QED
    BY <1>5, <2>1, <2>2, MoveType DEF ReadTasks, TaskTypeOK
<1>6. CASE StartTask(i)
  <2>1. PICK t \in todo[i] :
          /\ task' = Stopped(t)
          /\ todo' = [todo EXCEPT ![i] = @ \ {t}]
    BY <1>6 DEF StartTask
  <2>2. /\ task' \in [Tasks -> {"gone", "0", "1"}]
        /\ todo' \in [Instances -> SUBSET (Jobs \cup Tasks)]
    BY <2>1 DEF TaskTypeOK, Stopped
  <2>3. QED
    BY <1>6, <2>2 DEF StartTask, TaskTypeOK, lockVars
<1>7. CASE TasksStarted(i)
  <2>1. Move(i, "release") /\ "release" \in Phases
    BY <1>7 DEF TasksStarted, Phases, InitSteps
  <2>2. QED
    BY <1>7, <2>1, MoveType DEF TasksStarted, TaskTypeOK
<1>8. CASE ReleaseLock(i)
  <2>1. Move(i, "up") /\ "up" \in Phases
    BY <1>8 DEF ReleaseLock, Phases
  <2>2. late' \in [Instances -> SUBSET Jobs] /\ ttl' \in 0..Ttl
    BY <1>8, TtlAssumption DEF ReleaseLock, TaskTypeOK
  <2>3. QED
    BY <1>8, <2>1, <2>2, MoveType DEF ReleaseLock, TaskTypeOK
<1>9. QED
  BY <1>1, <1>2, <1>3, <1>4, <1>5, <1>6, <1>7, <1>8 DEF InitTaskStep

(* The queue keeps the types. *)
LEMMA QueueType ==
  ASSUME TaskTypeOK, NEW i \in Instances, NEW j \in Jobs,
         TakeJob(i, j) \/ CompleteStatus(i, j) \/ EndJob(j)
  PROVE  TaskTypeOK'
<1>1. CASE TakeJob(i, j)
  <2>1. runner' \in [Jobs -> Instances \cup {Nobody}]
    BY <1>1 DEF TakeJob, TaskTypeOK
  <2>2. job' \in [Jobs -> JobStates] /\ late' \in [Instances -> SUBSET Jobs]
    <3>1. CASE j \in Recurs /\ late' # late
      <4>1. PICK k \in Jobs :
              /\ job' = [job EXCEPT ![j] = "active", ![k] = "waiting"]
              /\ late' = [n \in Instances |-> IF phase[n] \in InitSteps
                                             THEN late[n] \cup {k} ELSE late[n]]
        BY <1>1, <3>1, JobsAssumption DEF TakeJob
      <4>2. QED
        BY <4>1 DEF TaskTypeOK, JobStates
    <3>2. CASE late' = late
      BY <1>1, <3>2 DEF TakeJob, TaskTypeOK, JobStates
    <3>3. QED
      BY <1>1, <3>1, <3>2 DEF TakeJob
  <2>3. QED
    BY <1>1, <2>1, <2>2 DEF TakeJob, TaskTypeOK, lockVars
<1>2. CASE CompleteStatus(i, j)
  <2>0. TaskOf[j] \in Tasks
    BY TaskOfAssumption
  <2>1. CASE Down(i)
    <3>1. task' \in [Tasks -> {"gone", "0", "1"}]
      BY <1>2, <2>0 DEF CompleteStatus, TaskTypeOK, Stopped
    <3>2. UNCHANGED <<ttl, boots>>
      BY <1>2 DEF CompleteStatus
    <3>3. QED
      BY <2>1, <3>1, <3>2, DownType DEF TaskTypeOK
  <2>2. CASE ~Down(i)
    <3>2. /\ task' \in [Tasks -> {"gone", "0", "1"}]
          /\ runner' \in [Jobs -> Instances \cup {Nobody}]
          /\ late' \in [Instances -> SUBSET Jobs]
      BY <1>2, <2>0, <2>2 DEF CompleteStatus, TaskTypeOK, Stopped
    <3>3. QED
      BY <1>2, <2>2, <3>2 DEF CompleteStatus, TaskTypeOK
  <2>3. QED
    BY <2>1, <2>2
<1>3. CASE EndJob(j)
  <2>1. /\ job' \in [Jobs -> JobStates]
        /\ runner' \in [Jobs -> Instances \cup {Nobody}]
    BY <1>3 DEF EndJob, TaskTypeOK, JobStates
  <2>2. QED
    BY <1>3, <2>1 DEF EndJob, TaskTypeOK, lockVars
<1>4. QED
  BY <1>1, <1>2, <1>3

(* A status that is set keeps the types. *)
LEMMA SetTaskType ==
  ASSUME TaskTypeOK, NEW t \in Tasks, NEW s \in {"gone", "0", "1"}, SetTask(t, s)
  PROVE  TaskTypeOK'
<1>1. late' \in [Instances -> SUBSET Jobs]
  BY DEF SetTask, TaskTypeOK
<1>2. QED
  BY <1>1 DEF SetTask, TaskTypeOK, lockVars, queueVars

(* Every step keeps the types. *)
LEMMA TaskStepType == TaskTypeOK /\ [TaskNext]_taskVars => TaskTypeOK'
<1> SUFFICES ASSUME TaskTypeOK, [TaskNext]_taskVars PROVE TaskTypeOK'
  OBVIOUS
<1>1. CASE Tick
  <2>1. ttl' \in 0..Ttl /\ lapsed' \in BOOLEAN
    BY <1>1, TtlAssumption DEF Tick, TaskTypeOK
  <2>2. QED
    BY <1>1, <2>1 DEF Tick, TaskTypeOK, queueVars
<1>2. ASSUME NEW i \in Instances, Boot(i) PROVE TaskTypeOK'
  <2>1. Move(i, "lock") /\ "lock" \in Phases /\ boots' \in 0..MaxBoots
    BY <1>2, BootsAssumption DEF Boot, Phases, TaskTypeOK
  <2>2. QED
    BY <1>2, <2>1, MoveType DEF Boot, TaskTypeOK, queueVars
<1>3. ASSUME NEW i \in Instances, Crash(i) PROVE TaskTypeOK'
  BY <1>3, DownType DEF Crash, TaskTypeOK
<1>4. ASSUME NEW t \in Tasks, NEW s \in {"0", "1"}, JobCreate(t, s) \/ JobUpdate(t, s)
      PROVE  TaskTypeOK'
  BY <1>4, SetTaskType DEF JobCreate, JobUpdate
<1>5. ASSUME NEW t \in Tasks, JobDelete(t) \/ TaskStop(t) PROVE TaskTypeOK'
  BY <1>5, SetTaskType DEF JobDelete, TaskStop
<1>6. CASE \E j \in Jobs : EndJob(j)
  <2>1. PICK j \in Jobs : EndJob(j)
    BY <1>6
  <2>2. CASE Instances # {}
    BY <2>1, <2>2, QueueType
  <2>3. CASE Instances = {}
    BY <2>1, <2>3 DEF EndJob, TaskTypeOK, lockVars, JobStates
  <2>4. QED
    BY <2>2, <2>3
<1>7. CASE UNCHANGED taskVars
  BY <1>7 DEF taskVars, TaskTypeOK
<1>8. QED
  BY <1>1, <1>2, <1>3, <1>4, <1>5, <1>6, <1>7, InitTaskType, QueueType DEF TaskNext

----------------------------------------------------------------------------
(* The refinement.  A step does one of three things to the lock: nothing     *)
(* (somebody may renew it), let an instance out, or let one in.             *)

Aside == /\ Inside' = Inside
         /\ lapsed' = lapsed
         /\ ttl' = ttl \/ ttl' = Ttl

(* A step aside of the lock is a stutter of the lease. *)
LEMMA AsideStep ==
  ASSUME LockInv, Aside
  PROVE  LockHeld' /\ UNCHANGED Lease!leaseVars
<1>1. Ttl > 0 /\ ttl \in 0..Ttl
  BY TtlAssumption DEF LockInv, TaskTypeOK
<1>2. LockHeld'
  BY <1>1 DEF Aside, LockInv, LockHeld
<1>3. QED
  BY <1>2 DEF Aside, Lease!leaseVars

(* Moving between two phases of which both or none belong to initTask. *)
LEMMA MoveAside ==
  ASSUME LockInv, NEW i \in Instances, NEW s, Move(i, s),
         phase[i] \in InitSteps <=> s \in InitSteps,
         ttl' = ttl \/ ttl' = Ttl
  PROVE  Aside
<1>1. Inside' = Inside
  BY DEF LockInv, TaskTypeOK, Move, Inside
<1>2. lapsed' = (lapsed /\ Inside' # {})
  BY DEF Move, Inside
<1>3. lapsed' = lapsed
  BY <1>1, <1>2 DEF LockInv, LockHeld, TaskTypeOK
<1>4. QED
  BY <1>1, <1>3 DEF Aside

(* Leaving, by finishing, failing or dying, with the lock deleted or not. *)
LEMMA MoveOut ==
  ASSUME LockInv, NEW i \in Instances, NEW s, Move(i, s), s \notin InitSteps,
         ttl' = ttl \/ phase[i] \in InitSteps
  PROVE  LockHeld' /\ [Lease!LeaseNext]_(Lease!leaseVars)
<1>1. Inside' = Inside \ {i}
  BY DEF LockInv, TaskTypeOK, Move, Inside
<1>2. lapsed' = (lapsed /\ Inside' # {})
  BY DEF Move, Inside
<1>3. CASE i \in Inside
  <2>1. Lease!Leave(i)
    BY <1>1, <1>2, <1>3 DEF Lease!Leave
  <2>2. ~(~lapsed' /\ Inside' # {})
    BY <1>1, <1>2, <1>3 DEF LockInv, LockHeld
  <2>3. lapsed' => Inside' # {}
    BY <1>2
  <2>4. LockHeld'
    BY <2>2, <2>3 DEF LockHeld
  <2>5. QED
    BY <2>1, <2>4 DEF Lease!LeaseNext
<1>4. CASE i \notin Inside
  <2>1. phase[i] \notin InitSteps
    BY <1>4 DEF Inside
  <2>2. Aside
    BY <2>1, MoveAside
  <2>3. QED
    BY <2>2, AsideStep
<1>5. QED
  BY <1>3, <1>4

(* Taking the lock: the instance passes by, or nobody else is inside. *)
LEMMA TakeLockStep ==
  ASSUME LockInv, NEW i \in Instances, TakeLock(i)
  PROVE  LockHeld' /\ [Lease!LeaseNext]_(Lease!leaseVars)
<1>1. phase[i] \notin InitSteps /\ ttl' = Ttl /\ ttl \in 0..Ttl /\ Ttl \in Nat /\ Ttl > 0
  BY TtlAssumption DEF TakeLock, InitSteps, LockInv, TaskTypeOK
<1>2. CASE ttl > 0
  <2>1. Move(i, "up") /\ "up" \notin InitSteps
    BY <1>2 DEF TakeLock, InitSteps
  <2>2. QED
    BY <1>1, <2>1, MoveAside, AsideStep
<1>3. CASE ttl = 0
  <2>1. Move(i, "jobs") /\ "jobs" \in InitSteps
    BY <1>3 DEF TakeLock, InitSteps
  <2>2. Inside' = Inside \cup {i}
    BY <2>1 DEF LockInv, TaskTypeOK, Move, Inside
  <2>3. lapsed' = lapsed
    BY <2>1, <2>2 DEF LockInv, LockHeld, TaskTypeOK, Move, Inside
  <2>4. Inside = {} \/ lapsed
    BY <1>3 DEF LockInv, LockHeld
  <2>5. Lease!Enter(i)
    BY <2>2, <2>3, <2>4 DEF Lease!Enter
  <2>6. LockHeld'
    BY <1>1, <2>2, <2>3, <2>4 DEF LockHeld
  <2>7. QED
    BY <2>5, <2>6 DEF Lease!LeaseNext
<1>4. QED
  BY <1>1, <1>2, <1>3

(* Time passes: the lock may lapse under its holder. *)
LEMMA TickStep ==
  ASSUME LockInv, Tick
  PROVE  LockHeld' /\ [Lease!LeaseNext]_(Lease!leaseVars)
<1>1. Inside' = Inside /\ ttl \in 0..Ttl /\ ttl' = ttl - 1 /\ ttl > 0 /\ Ttl \in Nat
  BY TtlAssumption DEF Tick, Inside, LockInv, TaskTypeOK
<1>2. CASE ttl' = 0 /\ Inside # {}
  <2>1. lapsed' = TRUE
    BY <1>2 DEF Tick
  <2>2. Lease!Lapse
    BY <1>1, <1>2, <2>1 DEF Lease!Lapse
  <2>3. QED
    BY <1>1, <1>2, <2>1, <2>2 DEF LockHeld, Lease!LeaseNext
<1>3. CASE ~(ttl' = 0 /\ Inside # {})
  <2>1. lapsed' = lapsed
    BY <1>3 DEF Tick, LockInv, TaskTypeOK
  <2>2. LockHeld'
    BY <1>1, <1>3, <2>1 DEF LockInv, LockHeld
  <2>3. QED
    BY <1>1, <2>1, <2>2 DEF Lease!leaseVars
<1>4. QED
  BY <1>2, <1>3

(* Every step keeps the lock, and is a step of the lease or a stutter. *)
LEMMA LockStep ==
  ASSUME LockInv, [TaskNext]_taskVars
  PROVE  LockHeld' /\ [Lease!LeaseNext]_(Lease!leaseVars)
<1> USE DEF queueVars
<1>0. ASSUME UNCHANGED <<ttl, phase, lapsed>>
      PROVE  LockHeld' /\ [Lease!LeaseNext]_(Lease!leaseVars)
  <2>1. Aside
    BY <1>0 DEF Aside, Inside
  <2>2. QED
    BY <2>1, AsideStep
<1>1. ASSUME NEW i \in Instances, InitTaskStep(i)
      PROVE  LockHeld' /\ [Lease!LeaseNext]_(Lease!leaseVars)
  <2>1. CASE ReadJobs(i) \/ JobsRemoved(i) \/ ReadTasks(i) \/ TasksStarted(i)
    <3>1. PICK s \in InitSteps : Move(i, s) /\ phase[i] \in InitSteps /\ ttl' = ttl
      BY <2>1 DEF ReadJobs, JobsRemoved, ReadTasks, TasksStarted, InitSteps
    <3>2. QED
      BY <3>1, MoveAside, AsideStep
  <2>2. CASE RemoveJob(i)
    <3>1. CASE Down(i)
      BY <2>2, <3>1, MoveOut DEF RemoveJob, Down, InitSteps
    <3>2. CASE ~Down(i)
      BY <1>0, <2>2, <3>2 DEF RemoveJob
    <3>3. QED
      BY <3>1, <3>2
  <2>3. CASE StartTask(i)
    BY <1>0, <2>3 DEF StartTask, lockVars
  <2>4. CASE ReleaseLock(i)
    BY <2>4, MoveOut DEF ReleaseLock, InitSteps
  <2>5. QED
    BY <1>1, <2>1, <2>2, <2>3, <2>4, TakeLockStep DEF InitTaskStep
<1>2. ASSUME NEW i \in Instances, Boot(i)
      PROVE  LockHeld' /\ [Lease!LeaseNext]_(Lease!leaseVars)
  <2>1. Move(i, "lock") /\ phase[i] \notin InitSteps /\ "lock" \notin InitSteps /\ ttl' = ttl
    BY <1>2 DEF Boot, InitSteps
  <2>2. QED
    BY <2>1, MoveAside, AsideStep
<1>3. ASSUME NEW i \in Instances, Crash(i)
      PROVE  LockHeld' /\ [Lease!LeaseNext]_(Lease!leaseVars)
  BY <1>3, MoveOut DEF Crash, Down, InitSteps
<1>4. ASSUME NEW i \in Instances, NEW j \in Jobs, CompleteStatus(i, j)
      PROVE  LockHeld' /\ [Lease!LeaseNext]_(Lease!leaseVars)
  <2>1. CASE Down(i)
    BY <1>4, <2>1, MoveOut DEF CompleteStatus, Down, InitSteps
  <2>2. CASE ~Down(i)
    BY <1>0, <1>4, <2>2 DEF CompleteStatus
  <2>3. QED
    BY <2>1, <2>2
<1>5. ASSUME NEW i \in Instances, NEW j \in Jobs, TakeJob(i, j)
      PROVE  LockHeld' /\ [Lease!LeaseNext]_(Lease!leaseVars)
  BY <1>0, <1>5 DEF TakeJob, lockVars
<1>6. ASSUME NEW j \in Jobs, EndJob(j)
      PROVE  LockHeld' /\ [Lease!LeaseNext]_(Lease!leaseVars)
  BY <1>0, <1>6 DEF EndJob, lockVars
<1>7. ASSUME NEW t \in Tasks, NEW s \in {"gone", "0", "1"}, SetTask(t, s)
      PROVE  LockHeld' /\ [Lease!LeaseNext]_(Lease!leaseVars)
  BY <1>0, <1>7 DEF SetTask, lockVars
<1>8. CASE UNCHANGED taskVars
  BY <1>0, <1>8 DEF taskVars
<1>9. CASE \E t \in Tasks, s \in {"0", "1"} : JobCreate(t, s) \/ JobUpdate(t, s)
  BY <1>7, <1>9 DEF JobCreate, JobUpdate
<1>10. CASE \E t \in Tasks : JobDelete(t) \/ TaskStop(t)
  BY <1>7, <1>10 DEF JobDelete, TaskStop
<1>11. QED
  BY <1>1, <1>2, <1>3, <1>4, <1>5, <1>6, <1>8, <1>9, <1>10, TickStep DEF TaskNext

----------------------------------------------------------------------------
(* At most one instance is in initTask, and the lock is there, as long as    *)
(* the lock has not lapsed.                                                *)
THEOREM LockInvariant == TaskSpec => []LockInv
<1>1. LockInv /\ [TaskNext]_taskVars => LockInv'
  BY TaskStepType, LockStep DEF LockInv
<1>2. QED
  BY <1>1, TaskInitInv, PTL DEF TaskSpec

(* initTask implements the promise of the lock: two instances initialise at  *)
(* the same time only after the lock expired under one of them.             *)
THEOREM LockRefines == TaskSpec => LeaseKept
<1>1. TaskInit => Lease!LeaseInit
  BY DEF TaskInit, Lease!LeaseInit, Inside, InitSteps
<1>2. LockInv /\ [TaskNext]_taskVars => [Lease!LeaseNext]_(Lease!leaseVars)
  BY LockStep
<1>3. QED
  BY <1>1, <1>2, LockInvariant, PTL DEF TaskSpec, LeaseKept, Lease!LeaseSpec

----------------------------------------------------------------------------
(* What initTask has left to do: while it removes jobs, those that are in    *)
(* the queue are the ones it has read and not yet removed, or came since.   *)
Pending(i) ==
  /\ phase[i] = "remove" => \A j \in Jobs : job[j] # "gone" => j \in todo[i] \cup late[i]
  /\ phase[i] \in {"tasks", "start", "release"} =>
       \A j \in Jobs : job[j] # "gone" => j \in late[i]

PendingInv == TaskTypeOK /\ \A i \in Instances : Pending(i)

(* An instance whose phase and list stay, where no job comes that is not     *)
(* added to what is late.                                                  *)
LEMMA PendingRest ==
  ASSUME NEW i \in Instances, Pending(i), phase'[i] = phase[i],
         todo'[i] = todo[i],
         phase[i] \in InitSteps => \A j \in Jobs :
           job'[j] # "gone" /\ j \notin late'[i] => job[j] # "gone" /\ j \notin late[i]
  PROVE  Pending(i)'
BY DEF Pending, InitSteps

(* An instance that has nothing to do. *)
LEMMA PendingNone ==
  ASSUME NEW i \in Instances, phase'[i] \in {"down", "lock", "jobs", "up"}
  PROVE  Pending(i)'
BY DEF Pending

(* An instance that goes down has nothing to do any more. *)
LEMMA PendingDown ==
  ASSUME PendingInv, NEW i \in Instances, Down(i)
  PROVE  \A k \in Instances : Pending(k)'
<1>1. /\ phase'[i] = "down"
      /\ \A k \in Instances \ {i} :
           phase'[k] = phase[k] /\ todo'[k] = todo[k] /\ late'[k] = late[k]
      /\ \A j \in Jobs : job'[j] # "gone" => job[j] # "gone"
  BY DEF Down, Move, PendingInv, TaskTypeOK
<1>2. ASSUME NEW k \in Instances \ {i} PROVE Pending(k)'
  BY <1>1, PendingRest DEF PendingInv
<1>3. QED
  BY <1>1, <1>2, PendingNone

(* A step of initTask that moves instance i and no other. *)
LEMMA PendingOthers ==
  ASSUME PendingInv, NEW i \in Instances,
         \A k \in Instances \ {i} :
           phase'[k] = phase[k] /\ todo'[k] = todo[k] /\ late'[k] = late[k],
         \A j \in Jobs : job'[j] # "gone" => job[j] # "gone"
  PROVE  \A k \in Instances \ {i} : Pending(k)'
BY PendingRest DEF PendingInv

(* A step of an instance that starts. *)
LEMMA PendingInitTask ==
  ASSUME PendingInv, NEW i \in Instances, InitTaskStep(i)
  PROVE  \A k \in Instances : Pending(k)'
<1> USE DEF queueVars
<1>0. TaskTypeOK
  BY DEF PendingInv
<1>1. CASE TakeLock(i)
  <2>1. phase'[i] \in {"up", "jobs"}
    BY <1>0, <1>1 DEF TakeLock, Move, TaskTypeOK
  <2>2. \A k \in Instances \ {i} : Pending(k)'
    BY <1>0, <1>1, PendingOthers DEF TakeLock, Move, TaskTypeOK
  <2>3. QED
    BY <2>1, <2>2, PendingNone
<1>2. CASE ReadJobs(i)
  <2>1. /\ phase'[i] = "remove" /\ job' = job
        /\ todo'[i] = {j \in Jobs : job[j] # "gone"}
    BY <1>0, <1>2 DEF ReadJobs, Move, TaskTypeOK
  <2>2. Pending(i)'
    BY <2>1 DEF Pending
  <2>3. \A k \in Instances \ {i} : Pending(k)'
    BY <1>0, <1>2, PendingOthers DEF ReadJobs, Move, TaskTypeOK
  <2>4. QED
    BY <2>2, <2>3
<1>3. CASE RemoveJob(i)
  <2>1. CASE Down(i)
    BY <1>3, <2>1, PendingDown DEF RemoveJob
  <2>2. CASE ~Down(i)
    <3>1. PICK j \in todo[i] :
            /\ job' = [job EXCEPT ![j] = "gone"]
            /\ todo' = [todo EXCEPT ![i] = @ \ {j}]
            /\ UNCHANGED <<phase, late, task>>
      BY <1>3, <2>2 DEF RemoveJob
    <3>2. \A x \in Jobs : job'[x] # "gone" => job[x] # "gone" /\ x # j
      BY <1>0, <3>1 DEF TaskTypeOK
    <3>3. todo'[i] = todo[i] \ {j}
      BY <1>0, <3>1 DEF TaskTypeOK
    <3>4. Pending(i)'
      BY <1>3, <3>1, <3>2, <3>3 DEF Pending, PendingInv, RemoveJob
    <3>5. \A k \in Instances \ {i} : Pending(k)'
      BY <1>0, <3>1, <3>2, PendingOthers DEF TaskTypeOK
    <3>6. QED
      BY <3>4, <3>5
  <2>3. QED
    BY <2>1, <2>2
<1>4. CASE JobsRemoved(i)
  <2>1. /\ phase[i] = "remove" /\ phase'[i] = "tasks" /\ todo[i] = {}
        /\ UNCHANGED <<job, task, late, todo>>
    BY <1>0, <1>4 DEF JobsRemoved, Move, TaskTypeOK
  <2>2. Pending(i)'
    BY <2>1 DEF Pending, PendingInv
  <2>3. \A k \in Instances \ {i} : Pending(k)'
    BY <1>0, <1>4, PendingOthers DEF JobsRemoved, Move, TaskTypeOK
  <2>4. QED
    BY <2>2, <2>3
<1>5. CASE ReadTasks(i)
  <2>1. phase[i] = "tasks" /\ phase'[i] = "start" /\ UNCHANGED <<job, late>>
    BY <1>0, <1>5 DEF ReadTasks, Move, TaskTypeOK
  <2>2. Pending(i)'
    BY <2>1 DEF Pending, PendingInv
  <2>3. \A k \in Instances \ {i} : Pending(k)'
    BY <1>0, <1>5, PendingOthers DEF ReadTasks, Move, TaskTypeOK
  <2>4. QED
    BY <2>2, <2>3
<1>6. CASE StartTask(i)
  <2>1. phase[i] = "start" /\ UNCHANGED <<phase, job, late>>
        /\ \A k \in Instances \ {i} : todo'[k] = todo[k]
    BY <1>0, <1>6 DEF StartTask, lockVars, TaskTypeOK
  <2>2. Pending(i)'
    BY <2>1 DEF Pending, PendingInv
  <2>3. \A k \in Instances \ {i} : Pending(k)'
    BY <2>1, PendingOthers
  <2>4. QED
    BY <2>2, <2>3
<1>7. CASE TasksStarted(i)
  <2>1. /\ phase[i] = "start" /\ phase'[i] = "release" /\ todo[i] = {}
        /\ UNCHANGED <<job, task, late, todo>>
    BY <1>0, <1>7 DEF TasksStarted, Move, TaskTypeOK
  <2>2. Pending(i)'
    BY <2>1 DEF Pending, PendingInv
  <2>3. \A k \in Instances \ {i} : Pending(k)'
    BY <1>0, <1>7, PendingOthers DEF TasksStarted, Move, TaskTypeOK
  <2>4. QED
    BY <2>2, <2>3
<1>8. CASE ReleaseLock(i)
  <2>1. phase'[i] = "up"
    BY <1>0, <1>8 DEF ReleaseLock, Move, TaskTypeOK
  <2>2. \A k \in Instances \ {i} : Pending(k)'
    BY <1>0, <1>8, PendingOthers DEF ReleaseLock, Move, TaskTypeOK
  <2>3. QED
    BY <2>1, <2>2, PendingNone
<1>9. QED
  BY <1>1, <1>2, <1>3, <1>4, <1>5, <1>6, <1>7, <1>8 DEF InitTaskStep

(* Jobs that come while an instance initialises are late for it. *)
LEMMA PendingQueue ==
  ASSUME PendingInv, NEW i \in Instances, NEW j \in Jobs,
         TakeJob(i, j) \/ CompleteStatus(i, j)
  PROVE  \A k \in Instances : Pending(k)'
<1>0. TaskTypeOK
  BY DEF PendingInv
<1>1. CASE TakeJob(i, j)
  <2>1. UNCHANGED <<phase, todo>>
    BY <1>1 DEF TakeJob, lockVars
  <2>2. \A k \in Instances : phase[k] \in InitSteps =>
          \A x \in Jobs : job'[x] # "gone" /\ x \notin late'[k] => job[x] # "gone" /\ x \notin late[k]
    <3>0. job[j] = "waiting"
      BY <1>1 DEF TakeJob
    <3>1. CASE /\ job' = [job EXCEPT ![j] = "active"]
               /\ late' = late
      <4>1. \A x \in Jobs : job'[x] # "gone" => job[x] # "gone"
        BY <1>0, <3>0, <3>1 DEF TaskTypeOK
      <4>2. QED
        BY <3>1, <4>1
    <3>2. CASE \E x \in Recurs :
                 /\ job' = [job EXCEPT ![j] = "active", ![x] = "waiting"]
                 /\ late' = [n \in Instances |-> IF phase[n] \in InitSteps
                                                THEN late[n] \cup {x} ELSE late[n]]
      <4>1. PICK x \in Recurs :
              /\ job' = [job EXCEPT ![j] = "active", ![x] = "waiting"]
              /\ late' = [n \in Instances |-> IF phase[n] \in InitSteps
                                             THEN late[n] \cup {x} ELSE late[n]]
        BY <3>2
      <4>2. \A y \in Jobs : job'[y] # "gone" => job[y] # "gone" \/ y = x
        BY <1>0, <3>0, <4>1, JobsAssumption DEF TaskTypeOK
      <4>3. \A k \in Instances : phase[k] \in InitSteps => late'[k] = late[k] \cup {x}
        BY <4>1
      <4>4. QED
        BY <4>2, <4>3
    <3>3. QED
      BY <1>1, <3>1, <3>2 DEF TakeJob
  <2>3. QED
    BY <2>1, <2>2, PendingRest DEF PendingInv
<1>2. CASE CompleteStatus(i, j)
  <2>1. CASE Down(i)
    BY <2>1, PendingDown
  <2>2. CASE ~Down(i)
    BY <1>2, <2>2, PendingRest DEF CompleteStatus, PendingInv
  <2>3. QED
    BY <2>1, <2>2
<1>3. QED
  BY <1>1, <1>2

(* The status of a task is none of their business. *)
LEMMA PendingSetTask ==
  ASSUME PendingInv, NEW t \in Tasks, NEW s \in {"gone", "0", "1"}, SetTask(t, s)
  PROVE  \A k \in Instances : Pending(k)'
BY PendingRest DEF SetTask, PendingInv, lockVars, queueVars

(* Every step keeps what the instances that start rely on. *)
LEMMA PendingStep ==
  ASSUME PendingInv, [TaskNext]_taskVars
  PROVE  PendingInv'
<1> USE DEF queueVars
<1>0. TaskTypeOK /\ TaskTypeOK'
  BY TaskStepType DEF PendingInv
<1> DEFINE Goal == \A k \in Instances : Pending(k)'
<1>1. ASSUME UNCHANGED <<phase, todo, late>>,
             \A j \in Jobs : job'[j] # "gone" => job[j] # "gone"
      PROVE  Goal
  BY <1>1, PendingRest DEF PendingInv
<1>2. ASSUME Tick \/ UNCHANGED taskVars PROVE Goal
  BY <1>1, <1>2 DEF Tick, taskVars
<1>3. ASSUME NEW i \in Instances, Boot(i) PROVE Goal
  <2>1. phase'[i] = "lock"
    BY <1>0, <1>3 DEF Boot, Move, TaskTypeOK
  <2>2. \A k \in Instances \ {i} : Pending(k)'
    BY <1>0, <1>3, PendingOthers DEF Boot, Move, TaskTypeOK
  <2>3. QED
    BY <2>1, <2>2, PendingNone
<1>4. ASSUME NEW i \in Instances, Crash(i) PROVE Goal
  BY <1>4, PendingDown DEF Crash
<1>5. ASSUME NEW j \in Jobs, EndJob(j) PROVE Goal
  BY <1>0, <1>1, <1>5 DEF EndJob, lockVars, TaskTypeOK
<1>6. ASSUME NEW t \in Tasks, NEW s \in {"0", "1"}, JobCreate(t, s) \/ JobUpdate(t, s) PROVE Goal
  BY <1>6, PendingSetTask DEF JobCreate, JobUpdate
<1>7. ASSUME NEW t \in Tasks, JobDelete(t) \/ TaskStop(t) PROVE Goal
  BY <1>7, PendingSetTask DEF JobDelete, TaskStop
<1>8. Goal
  BY <1>2, <1>3, <1>4, <1>5, <1>6, <1>7, PendingInitTask, PendingQueue DEF TaskNext
<1>9. QED
  BY <1>0, <1>8 DEF PendingInv

(* What initTask has left to do is what it has read, or came since. *)
THEOREM PendingInvariant == TaskSpec => []PendingInv
<1>1. TaskInit => PendingInv
  <2>1. TaskInit => \A i \in Instances : Pending(i)
    BY DEF TaskInit, Pending
  <2>2. QED
    BY <2>1, TaskInitInv DEF PendingInv, LockInv
<1>2. PendingInv /\ [TaskNext]_taskVars => PendingInv'
  BY PendingStep
<1>3. QED
  BY <1>1, <1>2, PTL DEF TaskSpec

(* An instance that has come to start the tasks finds an empty queue, but    *)
(* for the next runs queued while it was emptied.                           *)
THEOREM QueueIsEmptied == TaskSpec => []QueueEmptied
<1>1. PendingInv => QueueEmptied
  BY DEF PendingInv, Pending, QueueEmptied
<1>2. QED
  BY <1>1, PendingInvariant, PTL

----------------------------------------------------------------------------
(* The log of the tasks.  A consumer that is about to record a success has   *)
(* one to record; one that is about to record a failure has had one, or the  *)
(* row of its success was refused, or one was in the way.                   *)
LogTypeOK ==
  /\ run \in [QueueJobs -> RunStates]
  /\ taskLog \in [LogTasks -> {"none", "0", "1"}]
  /\ outcome \in [QueueJobs -> {"none", "0", "1"}]

Unlogged(j) == JobTask[j] \in Rows \cup cleared \/ j \in refused

LogInv ==
  /\ LogTypeOK
  /\ RunsLeaveTrace
  /\ \A j \in QueueJobs :
       /\ run[j] = "log" => outcome[j] = "1"
       /\ run[j] = "logError" => outcome[j] = "0" \/ Unlogged(j)

(* What a step of job j does to the log. *)
LEMMA LogRest ==
  ASSUME LogInv, LogTypeOK', NEW j \in QueueJobs,
         \A k \in QueueJobs \ {j} :
           run'[k] = run[k] /\ outcome'[k] = outcome[k] /\ (k \in refused => k \in refused'),
         Rows \cup cleared \subseteq Rows' \cup cleared',
         run'[j] = "completed" => JobTask[j] \in Rows' \cup cleared',
         run'[j] = "failed" => JobTask[j] \in Rows' \cup cleared' \/ j \in refused',
         run'[j] = "log" => outcome'[j] = "1",
         run'[j] = "logError" => \/ outcome'[j] = "0" \/ JobTask[j] \in Rows' \cup cleared'
                                 \/ j \in refused'
  PROVE  LogInv'
<1>1. RunsLeaveTrace'
  BY DEF LogInv, RunsLeaveTrace
<1>2. ASSUME NEW k \in QueueJobs
      PROVE  /\ run'[k] = "log" => outcome'[k] = "1"
             /\ run'[k] = "logError" => outcome'[k] = "0" \/ Unlogged(k)'
  <2>1. CASE k = j
    BY <2>1 DEF Unlogged
  <2>2. CASE k # j
    BY <2>2 DEF LogInv, Unlogged
  <2>3. QED
    BY <2>1, <2>2
<1>3. QED
  BY <1>1, <1>2 DEF LogInv

(* Every step keeps what the rows of the log say. *)
LEMMA LogStep ==
  ASSUME LogInv, [TaskLogNext]_taskLogVars
  PROVE  LogInv'
<1>0. LogTypeOK
  BY DEF LogInv
<1>1. ASSUME NEW j \in QueueJobs, Handle(j) \/ Stall(j) \/ NextRun(j) PROVE LogInv'
  <2>1. run'[j] \in {"call", "waiting"} /\ LogTypeOK'
        /\ \A k \in QueueJobs \ {j} : run'[k] = run[k]
    BY <1>0, <1>1 DEF LogTypeOK, RunStates, Handle, Stall, NextRun
  <2>2. UNCHANGED <<taskLog, outcome, cleared, refused>>
    BY <1>1 DEF Handle, Stall, NextRun
  <2>3. QED
    BY <2>1, <2>2, LogRest DEF Rows
<1>2. ASSUME NEW j \in QueueJobs, CallService(j) PROVE LogInv'
  <2>1. /\ \/ run'[j] = "log" /\ outcome'[j] = "1"
           \/ run'[j] = "logError" /\ outcome'[j] = "0"
        /\ \A k \in QueueJobs \ {j} : run'[k] = run[k] /\ outcome'[k] = outcome[k]
        /\ run' \in [QueueJobs -> RunStates] /\ outcome' \in [QueueJobs -> {"none", "0", "1"}]
        /\ refused' = refused \ {j}
    BY <1>0, <1>2 DEF LogTypeOK, RunStates, CallService
  <2>2. taskLog' \in [LogTasks -> {"none", "0", "1"}] /\ Rows \cup cleared \subseteq Rows' \cup cleared'
    BY <1>0, <1>2 DEF LogTypeOK, CallService, Rows
  <2>3. QED
    BY <2>1, <2>2, LogRest DEF LogTypeOK
<1>3. ASSUME NEW j \in QueueJobs, RecordTaskLog(j) PROVE LogInv'
  <2>0. JobTask[j] \in LogTasks
    BY JobTaskAssumption
  <2>1. /\ run[j] \in {"log", "logError"}
        /\ \A k \in QueueJobs \ {j} : run'[k] = run[k]
        /\ run' \in [QueueJobs -> RunStates]
        /\ UNCHANGED <<outcome, cleared>> /\ refused \ {j} \subseteq refused'
    BY <1>0, <1>3 DEF LogTypeOK, RunStates, RecordTaskLog
  <2>2. taskLog' \in [LogTasks -> {"none", "0", "1"}] /\ Rows \subseteq Rows'
    BY <1>0, <1>3, <2>0 DEF LogTypeOK, RecordTaskLog, Rows
  <2>3. CASE run'[j] = "completed"
    <3>1. JobTask[j] \in Rows'
      BY <1>0, <1>3, <2>0, <2>3 DEF LogTypeOK, RecordTaskLog, Rows
    <3>2. QED
      BY <1>0, <2>1, <2>2, <2>3, <3>1, LogRest DEF LogTypeOK
  <2>4. CASE run'[j] # "completed"
    <3>1. /\ run'[j] = IF run[j] = "log" THEN "logError" ELSE "failed"
          /\ \/ JobTask[j] \in Rows
             \/ j \in refused'
      BY <1>0, <1>3, <2>4 DEF LogTypeOK, RecordTaskLog
    <3>2. QED
      BY <1>0, <2>1, <2>2, <3>1, LogRest DEF LogTypeOK
  <2>5. QED
    BY <2>3, <2>4
<1>4. CASE UNCHANGED taskLogVars
  BY <1>4 DEF taskLogVars, LogInv, LogTypeOK, RunsLeaveTrace, Rows, Unlogged
<1>5. QED
  BY <1>1, <1>2, <1>3, <1>4 DEF TaskLogNext

(* What a consumer is about to record agrees with what its service did. *)
THEOREM LogInvariant == TaskLogSpec => []LogInv
<1>1. TaskLogInit => LogInv
  BY DEF TaskLogInit, LogInv, LogTypeOK, RunStates, RunsLeaveTrace
<1>2. LogInv /\ [TaskLogNext]_taskLogVars => LogInv'
  BY LogStep
<1>3. QED
  BY <1>1, <1>2, PTL DEF TaskLogSpec

(* A job that ended has a row for its task, or the row was cleared, or the    *)
(* job failed and the row of the failure was refused.                       *)
THEOREM RunsAreLogged == TaskLogSpec => []RunsLeaveTrace
<1>1. LogInv => RunsLeaveTrace
  BY DEF LogInv
<1>2. QED
  BY <1>1, LogInvariant, PTL

(* A row says what a run of its task did; one that says "failed" may come     *)
(* from a success whose own row was refused, or found an older one in its    *)
(* way which was cleared since.                                            *)
THEOREM RowsTellTruth == TaskLogSpec => RowsAreEarned
<1> DEFINE Earned(t) ==
      taskLog'[t] # taskLog[t] /\ taskLog'[t] # "none" =>
        \E j \in QueueJobs :
          /\ JobTask[j] = t /\ run[j] # "completed" /\ run'[j] = "completed"
          /\ \/ outcome[j] = taskLog'[t]
             \/ taskLog'[t] = "0" /\ (t \in cleared \/ j \in refused)
<1>1. ASSUME LogInv, [TaskLogNext]_taskLogVars, NEW t \in LogTasks PROVE Earned(t)
  <2>0. LogTypeOK
    BY <1>1 DEF LogInv
  <2>1. ASSUME NEW j \in QueueJobs, Handle(j) \/ Stall(j) \/ NextRun(j) PROVE Earned(t)
    BY <2>1 DEF Handle, Stall, NextRun
  <2>2. ASSUME NEW j \in QueueJobs, CallService(j) PROVE Earned(t)
    BY <2>2 DEF CallService
  <2>3. ASSUME NEW j \in QueueJobs, RecordTaskLog(j) PROVE Earned(t)
    <3>1. CASE taskLog'[t] = taskLog[t]
      BY <3>1
    <3>2. CASE taskLog'[t] # taskLog[t]
      <4>0. JobTask[j] = t /\ t \notin Rows
        BY <2>0, <2>3, <3>2 DEF RecordTaskLog, LogTypeOK
      <4>1. /\ run[j] \in {"log", "logError"} /\ run'[j] = "completed"
            /\ taskLog'[t] = IF run[j] = "log" THEN "1" ELSE "0"
        BY <2>0, <2>3, <3>2, <4>0 DEF RecordTaskLog, LogTypeOK
      <4>2. \/ outcome[j] = taskLog'[t]
            \/ taskLog'[t] = "0" /\ (t \in cleared \/ j \in refused)
        BY <1>1, <4>0, <4>1 DEF LogInv, Unlogged
      <4>3. QED
        BY <4>0, <4>1, <4>2
    <3>3. QED
      BY <3>1, <3>2
  <2>4. CASE UNCHANGED taskLogVars
    BY <2>4 DEF taskLogVars
  <2>5. QED
    BY <1>1, <2>1, <2>2, <2>3, <2>4 DEF TaskLogNext
<1>2. LogInv /\ [TaskLogNext]_taskLogVars => [\A t \in LogTasks : Earned(t)]_taskLogVars
  BY <1>1
<1>3. QED
  BY <1>2, LogInvariant, PTL DEF TaskLogSpec, RowsAreEarned

=============================================================================
