----------------------------- MODULE Coroutines -----------------------------
(***************************************************************************)
(* What multitask.h promises: tasks take turns, one at a time, and a task  *)
(* finds its registers as it left them.  There are no pointers here: the   *)
(* tasks are in a sequence, the running one first, that is read as a ring. *)
(***************************************************************************)
EXTENDS SequencesExt

CONSTANTS
  Tasks,   \* tasks that can be created
  First,   \* the task that runs kernel_main
  States,  \* what a task keeps in the registers
  Fresh    \* the state a new task starts in

VARIABLES order, state

vars == <<order, state>>

Init ==
  /\ order = <<First>>
  /\ state \in [{First} -> States]

Create(t) ==
  /\ t \notin Range(order)
  /\ order' = InsertAt(order, 2, t)
  /\ state' = [u \in Range(order) \union {t} |-> IF u = t THEN Fresh ELSE state[u]]

Resume(i) ==
  /\ order' = SubSeq(order, i, Len(order)) \o SubSeq(order, 1, i - 1)
  /\ UNCHANGED state

Finish(i) ==
  /\ order[i] # First
  /\ order' = RemoveAt(order, i)
  /\ state' = [u \in Range(order) \ {order[i]} |-> state[u]]

Work(s) ==
  /\ state' = [state EXCEPT ![Head(order)] = s]
  /\ UNCHANGED order

Next ==
  \/ \E t \in Tasks : Create(t)
  \/ \E i \in 1..Len(order) : Resume(i)
  \/ \E i \in 2..Len(order) : Finish(i)
  \/ \E s \in States : Work(s)

Spec == Init /\ [][Next]_vars
=============================================================================
