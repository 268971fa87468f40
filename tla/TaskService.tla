---------------------------- MODULE TaskService ----------------------------
(***************************************************************************)
(* Scheduled tasks: SysTaskService, the two controllers that write sys_job, *)
(* and what they see of the Bull queue.  What a job of the queue does while  *)
(* it is run is in TaskLog.                                                *)
(*                                                                         *)
(* Every instance of the program runs initTask when it starts: take the     *)
(* lock sys:task:init, remove every job of the queue, start every task     *)
(* whose status is '1', delete the lock.  The lock is a key with an expiry  *)
(* of thirty minutes.  The line of start that adds a job to the queue is    *)
(* commented out: the jobs there are the ones an earlier version of the     *)
(* program left in Redis, and so are the repeatable jobs.                   *)
(*                                                                         *)
(* A handler of an administrator takes one step: its statements are reads   *)
(* followed by updateMany or deleteMany, of which each is a handler by      *)
(* itself (delete is stop, then deleteMany).                               *)
(***************************************************************************)
EXTENDS Integers, FiniteSets

CONSTANTS
  Instances,    \* the processes that run the program
  Tasks,        \* sys_job.job_id
  Jobs,         \* jobs of the queue
  TaskOf,       \* job.data.id
  Recurs,       \* jobs of a repeatable job that has runs to come
  Ended,        \* tasks with a repeatable job whose last run is over
  Nobody,       \* no instance
  Ttl,          \* ticks until the lock expires
  MaxBoots      \* bound: how often instances are started

ASSUME TtlAssumption   == Ttl \in Nat \ {0}
ASSUME BootsAssumption == MaxBoots \in Nat
ASSUME NobodyAssumption == Nobody \notin Instances
ASSUME TaskOfAssumption == TaskOf \in [Jobs -> Tasks]
ASSUME JobsAssumption == Recurs \subseteq Jobs /\ Ended \subseteq Tasks

VARIABLES
  ttl,        \* what is left of the lock's expiry, 0 when there is no key
  phase,      \* of each instance: down, a step of initTask, or up
  todo,       \* jobs initTask has read and not removed, then tasks to start
  task,       \* sys_job.status, or "gone"
  job,        \* state of each job of the queue
  runner,     \* the instance that runs it, or is about to hear it is completed
  lapsed,     \* history: the lock went while an instance was initialising
  late,       \* history: jobs queued since each instance read the queue
  boots       \* instances started so far

lockVars  == <<ttl, phase, lapsed>>
queueVars == <<job, runner>>
taskVars  == <<ttl, phase, todo, task, job, runner, lapsed, late, boots>>

InitSteps == {"jobs", "remove", "tasks", "start", "release"}
Phases    == {"down", "lock", "up"} \cup InitSteps
JobStates == {"gone", "waiting", "active", "ended"}

TaskInit ==
  /\ ttl     = 0
  /\ phase   = [i \in Instances |-> "down"]
  /\ todo    = [i \in Instances |-> {}]
  /\ task    \in [Tasks -> {"gone", "0", "1"}]
  /\ job     \in [Jobs -> {"gone", "waiting"}]
  /\ runner  = [j \in Jobs |-> Nobody]
  /\ lapsed  = FALSE
  /\ late    = [i \in Instances |-> {}]
  /\ boots   = 0

Inside == {i \in Instances : phase[i] \in InitSteps}

(* The instance goes on with s; the lock is lapsed only while someone       *)
(* initialises.                                                            *)
Move(i, s) ==
  /\ phase' = [phase EXCEPT ![i] = s]
  /\ lapsed' = (lapsed /\ \E k \in Instances : phase'[k] \in InitSteps)

(* The process ends: its variables are gone, and Bull hands the jobs it was  *)
(* running out again.                                                      *)
Down(i) ==
  /\ Move(i, "down")
  /\ todo' = [todo EXCEPT ![i] = {}]
  /\ late' = [late EXCEPT ![i] = {}]
  /\ job' = [j \in Jobs |-> IF job[j] = "active" /\ runner[j] = i THEN "waiting" ELSE job[j]]
  /\ runner' = [j \in Jobs |-> IF runner[j] = i THEN Nobody ELSE runner[j]]

----------------------------------------------------------------------------
(* initTask. *)

Boot(i) ==
  /\ boots < MaxBoots
  /\ phase[i] = "down"
  /\ boots' = boots + 1
  /\ Move(i, "lock")
  /\ UNCHANGED <<ttl, todo, task, queueVars, late>>

(* Variant: the result of SETNX is not looked at. *)
TakeLockAnyway(i) ==
  /\ phase[i] = "lock"
  /\ Move(i, "jobs")
  /\ ttl' = Ttl
  /\ UNCHANGED <<todo, task, queueVars, late, boots>>

(* MULTI: SETNX and EXPIRE.  The EXPIRE also renews a lock found taken. *)
TakeLock(i) ==
  /\ phase[i] = "lock"
  /\ Move(i, IF ttl > 0 THEN "up" ELSE "jobs")
  /\ ttl' = Ttl
  /\ UNCHANGED <<todo, task, queueVars, late, boots>>

ReadJobs(i) ==
  /\ phase[i] = "jobs"
  /\ Move(i, "remove")
  /\ todo' = [todo EXCEPT ![i] = {j \in Jobs : job[j] # "gone"}]
  /\ late' = [late EXCEPT ![i] = {}]
  /\ UNCHANGED <<ttl, task, queueVars, boots>>

(* Variants: a job that is being run is skipped; it is waited for. *)
RemoveIdleJob(i) ==
  /\ phase[i] = "remove"
  /\ todo[i] # {}
  /\ \E j \in todo[i] :
       /\ todo' = [todo EXCEPT ![i] = @ \ {j}]
       /\ job' = IF job[j] = "active" THEN job ELSE [job EXCEPT ![j] = "gone"]
  /\ UNCHANGED <<lockVars, task, runner, late, boots>>

RemoveJobWaiting(i) ==
  /\ phase[i] = "remove"
  /\ \E j \in todo[i] :
       /\ job[j] # "active"
       /\ job' = [job EXCEPT ![j] = "gone"]
       /\ runner' = [runner EXCEPT ![j] = Nobody]
       /\ todo' = [todo EXCEPT ![i] = @ \ {j}]
  /\ UNCHANGED <<lockVars, task, late, boots>>

(* job.remove() in a loop.  Bull refuses to remove a job that is being run: *)
(* onModuleInit rejects, the program ends, and the lock stays.              *)
RemoveJob(i) ==
  /\ phase[i] = "remove"
  /\ \E j \in todo[i] :
       \/ /\ job[j] # "active"
          /\ job' = [job EXCEPT ![j] = "gone"]
          /\ runner' = [runner EXCEPT ![j] = Nobody]
          /\ todo' = [todo EXCEPT ![i] = @ \ {j}]
          /\ UNCHANGED <<phase, lapsed, late>>
       \/ job[j] = "active" /\ Down(i)
  /\ UNCHANGED <<ttl, task, boots>>

JobsRemoved(i) ==
  /\ phase[i] = "remove"
  /\ todo[i] = {}
  /\ Move(i, "tasks")
  /\ UNCHANGED <<ttl, todo, task, queueVars, late, boots>>

ReadTasks(i) ==
  /\ phase[i] = "tasks"
  /\ Move(i, "start")
  /\ todo' = [todo EXCEPT ![i] = {t \in Tasks : task[t] = "1"}]
  /\ UNCHANGED <<ttl, task, queueVars, late, boots>>

(* stop: whether there is a repeatable job or not, and none of the queue's   *)
(* jobs equals a BigInt id, the status is set to '0' where the row exists.  *)
Stopped(t) == IF task[t] = "gone" THEN task ELSE [task EXCEPT ![t] = "0"]

(* start: stop, and the rest is commented out. *)
StartTask(i) ==
  /\ phase[i] = "start"
  /\ \E t \in todo[i] :
       /\ task' = Stopped(t)
       /\ todo' = [todo EXCEPT ![i] = @ \ {t}]
  /\ UNCHANGED <<lockVars, queueVars, late, boots>>

TasksStarted(i) ==
  /\ phase[i] = "start"
  /\ todo[i] = {}
  /\ Move(i, "release")
  /\ UNCHANGED <<ttl, todo, task, queueVars, late, boots>>

(* DEL, whoever's lock it is by now. *)
ReleaseLock(i) ==
  /\ phase[i] = "release"
  /\ ttl' = 0
  /\ Move(i, "up")
  /\ late' = [late EXCEPT ![i] = {}]
  /\ UNCHANGED <<todo, task, queueVars, boots>>

(* The process dies, in initTask or later. *)
Crash(i) ==
  /\ phase[i] # "down"
  /\ Down(i)
  /\ UNCHANGED <<ttl, task, boots>>

(* Variant: the expiry is not set. *)
TickNever ==
  /\ ttl > Ttl
  /\ UNCHANGED taskVars

(* Time passes; at zero Redis drops the key. *)
Tick ==
  /\ ttl > 0
  /\ ttl' = ttl - 1
  /\ lapsed' = (lapsed \/ (ttl' = 0 /\ Inside # {}))
  /\ UNCHANGED <<phase, todo, task, queueVars, late, boots>>

----------------------------------------------------------------------------
(* The consumer of the queue, in every instance that is not down. *)

(* Bull queues the next run of a repeatable job when it hands out this one. *)
TakeJob(i, j) ==
  LET next == {k \in Recurs \ {j} : TaskOf[k] = TaskOf[j] /\ job[k] = "gone"} IN
  /\ phase[i] # "down"
  /\ job[j] = "waiting"
  /\ \/ /\ j \in Recurs
        /\ \E k \in next :
             /\ job' = [job EXCEPT ![j] = "active", ![k] = "waiting"]
             /\ late' = [n \in Instances |-> IF phase[n] \in InitSteps
                                            THEN late[n] \cup {k} ELSE late[n]]
     \/ /\ j \notin Recurs \/ next = {}
        /\ job' = [job EXCEPT ![j] = "active"]
        /\ UNCHANGED late
  /\ runner' = [runner EXCEPT ![j] = i]
  /\ UNCHANGED <<lockVars, todo, task, boots>>

(* The consumer is done; a job that failed raises no event. *)
EndJob(j) ==
  /\ job[j] = "active"
  /\ job' = [job EXCEPT ![j] = "ended"]
  /\ runner' \in {runner, [runner EXCEPT ![j] = Nobody]}
  /\ UNCHANGED <<lockVars, todo, task, late, boots>>

(* onCompleted, once, where the job was run: a task whose repeatable job     *)
(* has had its last run is stopped; if its row is gone, the rejection       *)
(* nobody handles ends the process.                                        *)
CompleteStatus(i, j) ==
  LET t == TaskOf[j] IN
  /\ job[j] = "ended"
  /\ runner[j] = i
  /\ \/ /\ t \in Ended /\ task[t] = "gone"
        /\ Down(i)
        /\ UNCHANGED task
     \/ /\ t \notin Ended \/ task[t] # "gone"
        /\ task' = IF t \in Ended THEN Stopped(t) ELSE task
        /\ runner' = [runner EXCEPT ![j] = Nobody]
        /\ UNCHANGED <<phase, lapsed, todo, job, late>>
  /\ UNCHANGED <<ttl, boots>>

----------------------------------------------------------------------------
(* Administrators: POST, PUT and DELETE job; POST task/start, stop and      *)
(* delete, of which the first two do the same.  POST task/add and update    *)
(* hand Prisma columns sys_job does not have and change nothing; task/once  *)
(* does nothing.                                                           *)

(* The row of t gets status s. *)
SetTask(t, s) ==
  /\ task' = [task EXCEPT ![t] = s]
  /\ UNCHANGED <<lockVars, todo, queueVars, late, boots>>

Served == \E i \in Instances : phase[i] = "up"

JobCreate(t, s) == Served /\ task[t] = "gone" /\ SetTask(t, s)
JobUpdate(t, s) == Served /\ task[t] # "gone" /\ SetTask(t, s)
JobDelete(t)    == Served /\ task[t] # "gone" /\ SetTask(t, "gone")
TaskStop(t)     == Served /\ task[t] = "1" /\ SetTask(t, "0")

----------------------------------------------------------------------------
InitTaskStep(i) ==
  \/ TakeLock(i) \/ ReadJobs(i) \/ RemoveJob(i) \/ JobsRemoved(i)
  \/ ReadTasks(i) \/ StartTask(i) \/ TasksStarted(i) \/ ReleaseLock(i)

TaskNext ==
  \/ Tick
  \/ \E i \in Instances : Boot(i) \/ Crash(i) \/ InitTaskStep(i)
  \/ \E i \in Instances, j \in Jobs : TakeJob(i, j) \/ CompleteStatus(i, j)
  \/ \E j \in Jobs : EndJob(j)
  \/ \E t \in Tasks, s \in {"0", "1"} : JobCreate(t, s) \/ JobUpdate(t, s)
  \/ \E t \in Tasks : JobDelete(t) \/ TaskStop(t)

TaskSpec == TaskInit /\ [][TaskNext]_taskVars

(* Time passes, and Node resumes initTask when a command is answered. *)
TaskFairness ==
  /\ WF_taskVars(Tick)
  /\ \A i \in Instances : WF_taskVars(InitTaskStep(i))

----------------------------------------------------------------------------
(* Types of the keys, the tables and the queue. *)
TaskTypeOK ==
  /\ ttl \in 0..Ttl
  /\ phase \in [Instances -> Phases]
  /\ todo \in [Instances -> SUBSET (Jobs \cup Tasks)]
  /\ task \in [Tasks -> {"gone", "0", "1"}]
  /\ job \in [Jobs -> JobStates]
  /\ runner \in [Jobs -> Instances \cup {Nobody}]
  /\ lapsed \in BOOLEAN
  /\ late \in [Instances -> SUBSET Jobs]
  /\ boots \in 0..MaxBoots

(* While the lock has not lapsed, an instance that initialises is the only  *)
(* one, and the lock is there: what makes the implementation of InitLease   *)
(* inductive.                                                              *)
LockHeld ==
  /\ ~lapsed /\ Inside # {} => ttl > 0 /\ \E i \in Instances : Inside = {i}
  /\ lapsed => Inside # {}

LockInv == TaskTypeOK /\ LockHeld

(* initTask keeps the promise of the lock: whatever crashes, restarts, late *)
(* deletions and renewals do, two instances initialise at the same time     *)
(* only after the lock has expired under one of them.                       *)
Lease == INSTANCE InitLease WITH inside <- Inside
LeaseKept == Lease!LeaseSpec

(* An instance that has come to start the tasks has emptied the queue, even  *)
(* if other instances were running its jobs, except for the next run of a   *)
(* repeatable job one of them queued meanwhile (task.service.ts:68).        *)
QueueEmptied ==
  \A i \in Instances, j \in Jobs :
    phase[i] \in {"tasks", "start", "release"} /\ job[j] # "gone" => j \in late[i]

(* initTask starts every task that is to run (task.service.ts:64, 71-72; the *)
(* comment of start, 169): when it has gone past a task it found on, a job   *)
(* of the task is in the queue or the task is still on.                     *)
InitStartsTasks ==
  [][\A i \in Instances, t \in Tasks :
       /\ phase[i] = "start" /\ t \in todo[i] /\ task[t] = "1"
       /\ phase'[i] = "start" /\ t \notin todo'[i]
       => task'[t] = "1" \/ \E j \in Jobs : TaskOf[j] = t /\ job'[j] # "gone"]_taskVars

(* A lock left behind goes: by its expiry, since instances are not started   *)
(* for ever.                                                               *)
LockFreed == ttl > 0 ~> ttl = 0

(* An instance that starts gets through initTask or ends. *)
InitEnds ==
  \A i \in Instances : phase[i] \in {"lock"} \cup InitSteps ~> phase[i] \in {"up", "down"}

=============================================================================
