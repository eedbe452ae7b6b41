----------------------------- MODULE MCCharDev -----------------------------
(* Instances of CharDev for TLC.  mychar and dram are the drivers of the   *)
(* repository, other is some driver that uses the major of one of them.    *)
EXTENDS CharDev, TLC

CONSTANTS mychar, dram, other, n200, m200, n85, o1, o2, o3

MCMajorOf ==
  mychar :> 200 @@ dram :> 85 @@ other :> IF mychar \in Drivers THEN 200 ELSE 85

MCNodeMajor == n200 :> 200 @@ m200 :> 200 @@ n85 :> 85

OpenerSymmetry == Permutations(Openers)

============================================================================
