------------------------------ MODULE TaskLog ------------------------------
(***************************************************************************)
(* SysTaskConsumer: an instance of the program takes a job of the Bull      *)
(* queue, calls the service the job names and records the outcome in       *)
(* sys_job_log, whose primary key recordTaskLog sets to the id of the task. *)
(* Bull hands a job out again when the process that ran it dies.           *)
(***************************************************************************)
EXTENDS FiniteSets

CONSTANTS
  LogTasks,     \* ids of tasks
  QueueJobs,    \* jobs of the queue
  JobTask,      \* job.data.id
  ClearJobs     \* jobs that call SysLogClearJob.clearTaskLog

ASSUME JobTaskAssumption == JobTask \in [QueueJobs -> LogTasks]

VARIABLES
  run,        \* where the consumer is with each job
  taskLog,    \* sys_job_log.status of each task's row, or "none"
  outcome,    \* history: what the service did in the last run of each job
  cleared,    \* history: tasks whose row has been deleted
  refused     \* history: jobs whose last create in this run rejected though
              \* no row was in the way

taskLogVars == <<run, taskLog, outcome, cleared, refused>>

RunStates == {"waiting", "call", "log", "logError", "completed", "failed"}

TaskLogInit ==
  /\ run     = [j \in QueueJobs |-> "waiting"]
  /\ taskLog = [t \in LogTasks |-> "none"]
  /\ outcome = [j \in QueueJobs |-> "none"]
  /\ cleared = {}
  /\ refused = {}

Rows == {t \in LogTasks : taskLog[t] # "none"}

Handle(j) ==
  /\ run[j] = "waiting"
  /\ run' = [run EXCEPT ![j] = "call"]
  /\ UNCHANGED <<taskLog, outcome, cleared, refused>>

(* callService finds a service with the Mission mark and calls it; what is  *)
(* not found, has no mark or throws ends in the catch.                     *)
CallService(j) ==
  /\ run[j] = "call"
  /\ \/ /\ run' = [run EXCEPT ![j] = "log"]
        /\ outcome' = [outcome EXCEPT ![j] = "1"]
     \/ /\ run' = [run EXCEPT ![j] = "logError"]
        /\ outcome' = [outcome EXCEPT ![j] = "0"]
  /\ IF j \in ClearJobs /\ outcome'[j] = "1"
     THEN taskLog' = [t \in LogTasks |-> "none"] /\ cleared' = cleared \cup Rows
     ELSE UNCHANGED <<taskLog, cleared>>
  /\ refused' = refused \ {j}

(* Variants: the consumer does not wait for the rejection of create; a       *)
(* failure is recorded as a success.                                       *)
RecordUnawaited(j) ==
  LET t == JobTask[j] IN
  /\ run[j] \in {"log", "logError"}
  /\ run' = [run EXCEPT ![j] = "completed"]
  /\ taskLog' \in {taskLog, [taskLog EXCEPT ![t] = IF t \in Rows THEN @ ELSE outcome[j]]}
  /\ UNCHANGED <<outcome, cleared, refused>>

RecordAlwaysSuccess(j) ==
  /\ run[j] \in {"log", "logError"}
  /\ run' = [run EXCEPT ![j] = "completed"]
  /\ taskLog' = IF JobTask[j] \in Rows THEN taskLog
                ELSE [taskLog EXCEPT ![JobTask[j]] = "1"]
  /\ UNCHANGED <<outcome, cleared, refused>>

(* recordTaskLog.  create rejects for a duplicate key, and may for another    *)
(* reason: the database fails, the text of the exception is longer than its *)
(* column.  After a success the rejection goes into the catch, which        *)
(* records again; there out of the consumer, and the job has failed.        *)
RecordTaskLog(j) ==
  LET t == JobTask[j]
      s == IF run[j] = "log" THEN "1" ELSE "0"
  IN
  /\ run[j] \in {"log", "logError"}
  /\ \/ /\ t \notin Rows
        /\ taskLog' = [taskLog EXCEPT ![t] = s]
        /\ run' = [run EXCEPT ![j] = "completed"]
        /\ UNCHANGED refused
     \/ /\ run' = [run EXCEPT ![j] = IF run[j] = "log" THEN "logError" ELSE "failed"]
        /\ refused' = IF t \in Rows THEN refused \ {j} ELSE refused \cup {j}
        /\ UNCHANGED taskLog
  /\ UNCHANGED <<outcome, cleared>>

(* The process that ran the job dies; Bull hands it out again. *)
Stall(j) ==
  /\ run[j] \in {"call", "log", "logError"}
  /\ run' = [run EXCEPT ![j] = "waiting"]
  /\ UNCHANGED <<taskLog, outcome, cleared, refused>>

(* The next run of the task: what a repeatable job queues. *)
NextRun(j) ==
  /\ run[j] \in {"completed", "failed"}
  /\ run' = [run EXCEPT ![j] = "waiting"]
  /\ UNCHANGED <<taskLog, outcome, cleared, refused>>

TaskLogNext ==
  \E j \in QueueJobs : Handle(j) \/ CallService(j) \/ RecordTaskLog(j) \/ Stall(j) \/ NextRun(j)

TaskLogSpec == TaskLogInit /\ [][TaskLogNext]_taskLogVars

----------------------------------------------------------------------------
(* A job completes only with a row of its task in the log, its own or that   *)
(* of an earlier run, unless the log was cleared; a job that fails has found *)
(* one there, or the database refused the row of the failure itself          *)
(* (task.processor.ts:23-33).                                              *)
RunsLeaveTrace ==
  \A j \in QueueJobs :
    LET t == JobTask[j] IN
    /\ run[j] = "completed" => t \in Rows \cup cleared
    /\ run[j] = "failed" => t \in Rows \cup cleared \/ j \in refused

(* A row that says a task was done is one that a run of the task has earned. *)
(* A row that says it failed comes from a run that threw, or from one whose *)
(* success could not be recorded: create rejected, or met an older row that *)
(* was cleared before the catch tried again.                               *)
RowsAreEarned ==
  [][\A t \in LogTasks :
       taskLog'[t] # taskLog[t] /\ taskLog'[t] # "none" =>
         \E j \in QueueJobs :
           /\ JobTask[j] = t /\ run[j] # "completed" /\ run'[j] = "completed"
           /\ \/ outcome[j] = taskLog'[t]
              \/ taskLog'[t] = "0" /\ (t \in cleared \/ j \in refused)]_taskLogVars

=============================================================================
