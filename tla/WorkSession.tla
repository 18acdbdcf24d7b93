---------------------------- MODULE WorkSession ----------------------------
(***************************************************************************)
(* What a timer promises, whatever it is a timer of: at any moment a       *)
(* person works on at most one item, the work is running or paused, and it *)
(* moves from one item to another only by way of being idle.  Task timers  *)
(* (TaskTimer) are shown to implement this specification.                  *)
(***************************************************************************)
CONSTANTS People, Items, NoItem

VARIABLE at      \* at[p]: what p is doing

Idle == [item |-> NoItem, mode |-> "idle"]

Doing == [item : Items, mode : {"active", "paused"}]

SessionTypeOK == at \in [People -> Doing \cup {Idle}]

SessionInit == at = [p \in People |-> Idle]

Begin(p, i) ==
  /\ at[p] = Idle
  /\ at' = [at EXCEPT ![p] = [item |-> i, mode |-> "active"]]

Pause(p) ==
  /\ at[p].mode = "active"
  /\ at' = [at EXCEPT ![p].mode = "paused"]

Resume(p) ==
  /\ at[p].mode = "paused"
  /\ at' = [at EXCEPT ![p].mode = "active"]

\* Work ends for one person (a session is closed, an account is removed) or
\* for everybody who was working on an item that is removed.
End(P) ==
  /\ \A p \in P : at[p] # Idle
  /\ at' = [p \in People |-> IF p \in P THEN Idle ELSE at[p]]

SessionNext ==
  \/ \E p \in People : Pause(p) \/ Resume(p) \/ \E i \in Items : Begin(p, i)
  \/ \E P \in SUBSET People : End(P)

SessionSpec == SessionInit /\ [][SessionNext]_at
=============================================================================
