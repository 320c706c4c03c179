------------------------------ MODULE MCKernel ------------------------------
(***************************************************************************)
(* Kernel with two or three application threads, one of each kind of event *)
(* and one mutex.  Each configuration lets the threads make some of the    *)
(* calls, so that together they fire every action.                         *)
(***************************************************************************)
EXTENDS Kernel

CONSTANTS t1, t2, t3, auto, manual, dpcEvent, mutex

\* Two threads of one priority and one above them.
PrioritiesOf2 == (t1 :> 1 @@ t2 :> 1)
PrioritiesOf2Ranked == (t1 :> 1 @@ t2 :> 2)
PrioritiesOf3 == (t1 :> 1 @@ t2 :> 1 @@ t3 :> 2)
=============================================================================
