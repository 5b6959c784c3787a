------------------------------ MODULE Registry ------------------------------
(***************************************************************************)
(* What the state store promises its callers: a registry of bench records  *)
(* that many processes change at once, in which every accepted call takes  *)
(* effect on the current contents, in one step, between its invocation and *)
(* its answer.  A call answered "ok" took effect exactly once, a call      *)
(* answered "notfound" found no such bench at some moment in between, and  *)
(* a call answered "error" changed nothing.  A process that dies in a call *)
(* leaves it done or not done, never half done.                            *)
(***************************************************************************)
EXTENDS BenchRecords

CONSTANTS
  Procs,      \* processes (CLI commands, the dashboard, the hourly backup job)
  Idle        \* what call[p] holds when p is in no call

VARIABLES
  reg,        \* the records
  call,       \* call[p]: the operation p asked for, or Idle
  effect,     \* effect[p]: "pending" until the operation of p took effect
  answer      \* answer[p]: what the last call of p returned

vars == <<reg, call, effect, answer>>

Init ==
  /\ reg = <<>>
  /\ call = [p \in Procs |-> Idle]
  /\ effect = [p \in Procs |-> "pending"]
  /\ answer = [p \in Procs |-> "none"]

Invoke(p, op) ==
  /\ call[p] = Idle
  /\ call' = [call EXCEPT ![p] = op]
  /\ answer' = [answer EXCEPT ![p] = "none"]
  /\ UNCHANGED <<reg, effect>>

Commit(p) ==
  /\ call[p] # Idle
  /\ effect[p] = "pending"
  /\ Accepts(call[p], reg)
  /\ reg' = Apply(call[p], reg)
  /\ effect' = [effect EXCEPT ![p] = "ok"]
  /\ UNCHANGED <<call, answer>>

Refuse(p) ==
  /\ call[p] # Idle
  /\ effect[p] = "pending"
  /\ ~Accepts(call[p], reg)
  /\ effect' = [effect EXCEPT ![p] = "notfound"]
  /\ UNCHANGED <<reg, call, answer>>

Leave(p, a) ==
  /\ call[p] # Idle
  /\ call' = [call EXCEPT ![p] = Idle]
  /\ effect' = [effect EXCEPT ![p] = "pending"]
  /\ answer' = [answer EXCEPT ![p] = a]
  /\ UNCHANGED reg

Answer(p) == Leave(p, IF effect[p] = "pending" THEN "error" ELSE effect[p])

Die(p) == Leave(p, "none")

Next == \E p \in Procs : \/ \E op \in Ops : Invoke(p, op)
                         \/ Commit(p)
                         \/ Refuse(p)
                         \/ Answer(p)
                         \/ Die(p)

Spec == Init /\ [][Next]_vars
=============================================================================
