--------------------------- MODULE OperationDesk ---------------------------
(***************************************************************************)
(* What the operation timers promise: an employee works on one operation   *)
(* at a time, no two employees work on the same one, and an operation that *)
(* was finished stays finished and is not worked on again until it is      *)
(* withdrawn.                                                              *)
(***************************************************************************)
CONSTANTS Employees, Operations

VARIABLES running,       \* the operations an employee's open timers are for
          done           \* the operations that are finished

deskVars == <<running, done>>

Init ==
  /\ running = [e \in Employees |-> {}]
  /\ done = {}

\* Starting an operation leaves whatever the employee was working on.
Start(e, o) ==
  /\ o \notin done
  /\ \A other \in Employees \ {e} : o \notin running[other]
  /\ running' = [running EXCEPT ![e] = {o}]
  /\ UNCHANGED done

Leave(e) ==
  /\ running' = [running EXCEPT ![e] = {}]
  /\ UNCHANGED done

Finish(e) ==
  /\ running[e] # {}
  /\ done' = done \cup running[e]
  /\ running' = [running EXCEPT ![e] = {}]

\* Operations are deleted, alone or with their projection.
Withdraw(os) ==
  /\ running' = [e \in Employees |-> running[e] \ os]
  /\ done' = done \ os

Next ==
  \/ \E e \in Employees, o \in Operations : Start(e, o)
  \/ \E e \in Employees : Leave(e) \/ Finish(e)
  \/ \E os \in SUBSET Operations : Withdraw(os)

Spec == Init /\ [][Next]_deskVars
=============================================================================
