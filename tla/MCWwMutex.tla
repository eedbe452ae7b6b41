----------------------------- MODULE MCWwMutex -----------------------------
(* Instances of WwMutex for TLC. *)
EXTENDS WwMutex

CONSTANTS t1, t2, t3, t4, a, b

(* Three tasks, of which one has no context: two share the lock a, and all *)
(* three the lock b                                                        *)
SmallTasks == {t1, t2, t3}
SmallPlans == (t1 :> {<<a, b>>}) @@ (t2 :> {<<b, a>>}) @@ (t3 :> {<<b>>})

(* Two contexts that want both locks, in opposite orders, and two that only *)
(* want the lock a and are interchangeable                                  *)
QueueTasks == {t1, t2, t3, t4}
QueuePlans == (t1 :> {<<a, b>>}) @@ (t2 :> {<<b, a>>}) @@ (t3 :> {<<a>>}) @@ (t4 :> {<<a>>})
QueueSymmetry == Permutations({t3, t4})

============================================================================
