---------------------------- MODULE MultitaskTest ----------------------------
(***************************************************************************)
(* The shell's test_multitask command (src/apps/sh/commands.h): the one    *)
(* program that uses the tasks.  kernel_main's task creates three more,    *)
(* all four print and hand over to the next in the ring, MT_TEST_ITERS + 1 *)
(* times each, and kernel_main's ends the others.                          *)
(*                                                                         *)
(* A task's entry point has nothing to return to: mt_newtask puts its      *)
(* address in the last word of the stack.  What keeps the three functions  *)
(* from returning is that they are ended while suspended in the last of    *)
(* their switches, after as many turns as kernel_main's task takes.        *)
(*                                                                         *)
(* Shell runs it, whenever the command is typed.                           *)
(***************************************************************************)
EXTENDS Multitask

CONSTANT MaxIters     \* bound: the largest MT_TEST_ITERS considered

VARIABLES
  MT_TEST_ITERS,
  pc,      \* where kernel_main's task is; "lost" once a task has returned
  n,       \* the tasks created so far, then the tasks ended
  task,    \* the locals task0, task1 and task2
  i        \* the loop counter of each task

TestInit ==
  /\ Init
  /\ MT_TEST_ITERS \in 0..MaxIters
  /\ pc = "create"
  /\ n = 0
  /\ task = [k \in 0..2 |-> First]
  /\ i = [c \in AllCtxs |-> 0]

CreateReversed(c, s, f) ==
  /\ pc = "create"
  /\ NewTask(c, s, f)
  /\ task' = [task EXCEPT ![n] = c]
  /\ i' = [i EXCEPT ![c] = 0]
  /\ n' = IF n = 2 THEN 0 ELSE n + 1
  /\ pc' = IF n = 2 THEN "loop" ELSE "create"
  /\ UNCHANGED MT_TEST_ITERS

(* task2, task1 and task0 are created in this order, each placed next to   *)
(* kernel_main's task.                                                     *)
Create(c, s, f) ==
  /\ pc = "create"
  /\ NewTask(c, s, f)
  /\ task' = [task EXCEPT ![2 - n] = c]
  /\ i' = [i EXCEPT ![c] = 0]
  /\ n' = IF n = 2 THEN 0 ELSE n + 1
  /\ pc' = IF n = 2 THEN "loop" ELSE "create"
  /\ UNCHANGED MT_TEST_ITERS

MainLoopsLonger(c) == i[c] <= IF c = First THEN MT_TEST_ITERS + 1 ELSE MT_TEST_ITERS
(* The loop condition, the same in all four functions. *)
LoopsOn(c) == i[c] <= MT_TEST_ITERS

(* One iteration: print, sleep, hand over to self->next. *)
TakeTurn ==
  /\ pc = "loop"
  /\ LoopsOn(mt_current_task)
  /\ i' = [i EXCEPT ![mt_current_task] = @ + 1]
  /\ Switch(ctx[mt_current_task].next)
  /\ UNCHANGED <<MT_TEST_ITERS, pc, n, task>>

(* The loop ends: kernel_main's task goes on, another would return. *)
LeaveLoop ==
  /\ pc = "loop"
  /\ ~LoopsOn(mt_current_task)
  /\ pc' = IF mt_current_task = First THEN "end" ELSE "lost"
  /\ UNCHANGED <<vars, MT_TEST_ITERS, n, task, i>>

EndForgetsTask2 ==
  /\ pc = "end"
  /\ EndTask(task[n])
  /\ n' = n + 1
  /\ pc' = IF n = 1 THEN "done" ELSE "end"
  /\ UNCHANGED <<MT_TEST_ITERS, task, i>>

(* mt_endtask(task0), (task1) and (task2). *)
End ==
  /\ pc = "end"
  /\ EndTask(task[n])
  /\ n' = n + 1
  /\ pc' = IF n = 2 THEN "done" ELSE "end"
  /\ UNCHANGED <<MT_TEST_ITERS, task, i>>

TestNext ==
  \/ \E c \in Ctxs, s \in Stacks, f \in FxAreas : Create(c, s, f)
  \/ TakeTurn
  \/ LeaveLoop
  \/ End

-----------------------------------------------------------------------------
(* No task returns from its entry point, and nobody is switched to once    *)
(* its context is freed.                                                   *)
NoTaskReturns == pc # "lost" /\ mt_current_task \in Live

(* The four print in the order of the comment in cmd_test_multitask -      *)
(* kernel_main, task0, task1, task2 - and nobody is a whole turn ahead.    *)
InTurns ==
  pc \in {"loop", "end"} =>
    LET turns(k) == IF k < 0 THEN i[First] ELSE i[task[k]] IN
    /\ \A k \in 0..2 : turns(k) <= turns(k - 1)
    /\ i[First] <= turns(2) + 1

(* The command ends with every task's turns taken, and leaves nothing of   *)
(* them: kernel_main is alone in the ring, and the heap has all its blocks *)
(* back.                                                                   *)
AllTidy ==
  /\ pc = "done"
  /\ \A c \in AllCtxs : c \in Range(task) \union {First} => i[c] = MT_TEST_ITERS + 1
  /\ held = {}
  /\ ctx[First].next = First /\ ctx[First].prev = First
=============================================================================
