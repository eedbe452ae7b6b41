---------------------------- MODULE MCWaitQueue ----------------------------
(* An instance of WaitQueue for TLC. *)
EXTENDS WaitQueue

Kind(h, e, m) == [how |-> h, exclusive |-> e, mode |-> m]

MCKinds ==
  {Kind("event", TRUE, TASK_INTERRUPTIBLE), Kind("event", FALSE, TASK_UNINTERRUPTIBLE),
   Kind("woken", FALSE, TASK_UNINTERRUPTIBLE),
   Kind("bit", TRUE, TASK_KILLABLE), Kind("bit", TRUE, TASK_UNINTERRUPTIBLE),
   Kind("bit", FALSE, TASK_UNINTERRUPTIBLE)}

============================================================================
