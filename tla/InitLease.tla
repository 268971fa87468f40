----------------------------- MODULE InitLease -----------------------------
(***************************************************************************)
(* What the lock around SysTaskService.initTask promises: one instance of   *)
(* the program initialises the tasks at a time, as long as no instance      *)
(* takes longer over it than the lock lives.                               *)
(***************************************************************************)
EXTENDS FiniteSets

CONSTANT Instances   \* the processes that run the program

VARIABLES
  inside,   \* instances that are initialising the tasks
  lapsed    \* has the lock gone while one of them was?

leaseVars == <<inside, lapsed>>

LeaseInit == inside = {} /\ lapsed = FALSE

Enter(i) ==
  /\ inside = {} \/ lapsed
  /\ inside' = inside \cup {i}
  /\ UNCHANGED lapsed

(* Initialised, failed or killed. *)
Leave(i) ==
  /\ i \in inside
  /\ inside' = inside \ {i}
  /\ lapsed' = (lapsed /\ inside' # {})

Lapse ==
  /\ inside # {}
  /\ lapsed' = TRUE
  /\ UNCHANGED inside

LeaseNext == Lapse \/ \E i \in Instances : Enter(i) \/ Leave(i)

LeaseSpec == LeaseInit /\ [][LeaseNext]_leaseVars

=============================================================================
