------------------------------- MODULE MCParts -------------------------------
(***************************************************************************)
(* The parts of the program that share no state with one another, in one    *)
(* instance for TLC: in every behaviour one of them is at work and the      *)
(* others rest.                                                            *)
(***************************************************************************)
EXTENDS Captcha, TaskService, TaskLog, ExcelExport, WsNotice, MenuTree, TableApi, TLC

CONSTANTS Parts, t1, t2, j1, j2, run1, run2, clear

VARIABLE part   \* the part that is at work

sumVars == <<part, captchaVars, taskVars, taskLogVars, excelVars, wsVars, treeVars, apiVars>>

(* A part at rest is in one of its initial states. *)
Init ==
  /\ part \in Parts
  /\ CaptchaInit /\ TaskLogInit /\ ExcelInit
  /\ TaskInit /\ (part # "task" => task = [t \in Tasks |-> "gone"] /\ job = [j \in Jobs |-> "gone"])
  /\ WsInit /\ (part # "ws" => userRole = {})
  /\ TreeInit /\ (part # "tree" => menu = <<>> /\ granted = {})
  /\ ApiInit /\ (part # "api" => api = 1 /\ perms = NoKey)

Next ==
  /\ UNCHANGED part
  /\ \/ part = "captcha" /\ CaptchaNext
     \/ part # "captcha" /\ UNCHANGED captchaVars
  /\ \/ part = "task" /\ TaskNext
     \/ part # "task" /\ UNCHANGED taskVars
  /\ \/ part = "log" /\ TaskLogNext
     \/ part # "log" /\ UNCHANGED taskLogVars
  /\ \/ part = "excel" /\ ExcelNext
     \/ part # "excel" /\ UNCHANGED excelVars
  /\ \/ part = "ws" /\ WsNext
     \/ part # "ws" /\ UNCHANGED wsVars
  /\ \/ part = "tree" /\ TreeNext
     \/ part # "tree" /\ UNCHANGED treeVars
  /\ \/ part = "api" /\ ApiNext
     \/ part # "api" /\ UNCHANGED apiVars

Spec == Init /\ [][Next]_sumVars

FairSpec == Spec /\ TaskFairness /\ WsFairness /\ TreeFairness

----------------------------------------------------------------------------
(* What each part keeps to, types and inductive invariants: what a login that *)
(* holds a captcha, an instance that holds the lock, an export that has     *)
(* written its file and a client that waits for a notice may rely on,       *)
(* whatever the others do.                                                 *)
PartsInv == CaptchaInv /\ LockInv /\ ExcelInv /\ StaleInv /\ WsTypeOK /\ ApiTypeOK

(* The jobs in the queue are runs of the one task's repeatable job. *)
OneTask == (j1 :> t1) @@ (j2 :> t1)
OneJob  == j1 :> t1

(* Two runs of one task, and a run of the task that clears the log. *)
LogTaskOf == (run1 :> t1) @@ (run2 :> t1) @@ (clear :> t2)

(* The slots of a table's requests are interchangeable. *)
CallsAlike == Permutations(Calls)
=============================================================================
