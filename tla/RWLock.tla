------------------------------- MODULE RWLock -------------------------------
(***************************************************************************)
(* What a reader/writer semaphore promises its callers: any number of      *)
(* readers or one writer, a writer may become a reader without letting     *)
(* another writer in between, and only the holder gives the lock back.     *)
(* RWSem.tla implements it.                                                *)
(***************************************************************************)
CONSTANTS Tasks

VARIABLES readers, writers

rwvars == <<readers, writers>>

Init == readers = {} /\ writers = {}

AcquireRead(t) ==
  /\ writers = {} /\ t \notin readers
  /\ readers' = readers \cup {t}
  /\ UNCHANGED writers

AcquireWrite(t) ==
  /\ writers = {} /\ readers = {}
  /\ writers' = {t}
  /\ UNCHANGED readers

ReleaseRead(t) ==
  /\ t \in readers
  /\ readers' = readers \ {t}
  /\ UNCHANGED writers

ReleaseWrite(t) ==
  /\ t \in writers
  /\ writers' = {}
  /\ UNCHANGED readers

Downgrade(t) ==
  /\ t \in writers
  /\ writers' = {}
  /\ readers' = {t}

Next ==
  \E t \in Tasks :
    \/ AcquireRead(t) \/ AcquireWrite(t)
    \/ ReleaseRead(t) \/ ReleaseWrite(t) \/ Downgrade(t)

Spec == Init /\ [][Next]_rwvars

============================================================================
