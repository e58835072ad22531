------------------------------ MODULE Multitask ------------------------------
(***************************************************************************)
(* The cooperative tasks of src/kernel/multitask.asm: a ring of contexts,  *)
(* doubly linked through the heap, and a switch that leaves the registers  *)
(* of the running task on its stack and in its fxsave area and takes those *)
(* of the next from there.                                                 *)
(*                                                                         *)
(* The running task is any legal caller: it computes, creates tasks,       *)
(* switches to any task and ends any other one but kernel_main's, whose    *)
(* memory is not the heap's.  Nothing preempts it: interrupts return to    *)
(* the task they came from, so each routine is one step.  The heap is its  *)
(* specification (Allocator): a block nobody holds, with old bytes in it.  *)
(*                                                                         *)
(* A definition that stands just before another, with its parameters, and  *)
(* that nothing uses, is what a bug would make of it: PROJECT.json names   *)
(* the property that would notice.                                         *)
(***************************************************************************)
EXTENDS Integers, FiniteSets, Functions

CONSTANTS
  Ctxs, Stacks, FxAreas,         \* where the heap puts each kind of block
  First, FirstStack, FirstFx,    \* first_ctx, stack_bottom and first_fxdata
  Regs,                          \* values of the callee-saved registers
  Fpu                            \* values of the x87 and SSE registers

(* Value 0 is what mt_newtask writes: zeroed registers, the default        *)
(* control words.  The heap's blocks are disjoint from each other and from *)
(* the kernel's .bss.                                                      *)
ASSUME MultitaskAssumption ==
  /\ First \notin Ctxs /\ FirstStack \notin Stacks /\ FirstFx \notin FxAreas
  /\ (Ctxs \union {First}) \intersect (Stacks \union {FirstStack}) = {}
  /\ (Ctxs \union {First}) \intersect (FxAreas \union {FirstFx}) = {}
  /\ (Stacks \union {FirstStack}) \intersect (FxAreas \union {FirstFx}) = {}
  /\ 0 \in Regs /\ 0 \in Fpu

VARIABLES
  held,             \* the heap's blocks that are allocated
  ctx,              \* memory: address of a Ctx -> its fields
  stk,              \* memory: stack -> the registers of the frame at its top
  fx,               \* memory: fxsave area -> the registers saved there
  mt_current_task,
  cpu               \* the registers of the processor

mem  == <<ctx, stk, fx>>
vars == <<held, ctx, stk, fx, mt_current_task, cpu>>

AllCtxs == Ctxs \union {First}
Ctx     == [next : AllCtxs, prev : AllCtxs,
            stack : Stacks \union {FirstStack}, fxdata : FxAreas \union {FirstFx}]
Live    == {First} \union (held \intersect Ctxs)   \* contexts not ended

-----------------------------------------------------------------------------
(* mt_init: the first task is its own neighbour.  What is in the heap's    *)
(* blocks is never read before it is written; any bytes will do.           *)
Init ==
  LET first == [next |-> First, prev |-> First, stack |-> FirstStack, fxdata |-> FirstFx] IN
  /\ held = {}
  /\ ctx  = [c \in AllCtxs |-> first]
  /\ stk  = [s \in Stacks \union {FirstStack} |-> 0]
  /\ fx   = [f \in FxAreas \union {FirstFx} |-> 0]
  /\ mt_current_task = First
  /\ cpu \in [regs : Regs, fpu : Fpu]

(* The running task uses its registers. *)
Compute(v) ==
  /\ cpu' = v
  /\ UNCHANGED <<held, mem, mt_current_task>>

LinkOneWay(new, s, f) ==
  LET cur == mt_current_task IN
  [ctx EXCEPT ![new] = [next |-> ctx[cur].next, prev |-> cur, stack |-> s, fxdata |-> f],
              ![cur].next = new]

(* The new context goes between the running one and the one after it. *)
Link(new, s, f) ==
  LET cur == mt_current_task
      nxt == ctx[cur].next
  IN  [c \in AllCtxs |->
         [next   |-> IF c = new THEN nxt ELSE IF c = cur THEN new ELSE ctx[c].next,
          prev   |-> IF c = nxt THEN new ELSE IF c = new THEN cur ELSE ctx[c].prev,
          stack  |-> IF c = new THEN s ELSE ctx[c].stack,
          fxdata |-> IF c = new THEN f ELSE ctx[c].fxdata]]

(* mt_newtask: three blocks of the heap, the links, the first frame of the *)
(* stack and the initial fxsave area.                                      *)
NewTask(new, s, f) ==
  /\ {new, s, f} \intersect held = {}
  /\ held' = held \union {new, s, f}
  /\ ctx'  = Link(new, s, f)
  /\ stk'  = [stk EXCEPT ![s] = 0]
  /\ fx'   = [fx EXCEPT ![f] = 0]
  /\ UNCHANGED <<mt_current_task, cpu>>

SwitchKeepsFpu(to) ==
  LET cur == mt_current_task IN
  /\ stk' = [stk EXCEPT ![ctx[cur].stack] = cpu.regs]
  /\ fx'  = [fx EXCEPT ![ctx[cur].fxdata] = cpu.fpu]
  /\ mt_current_task' = to
  /\ cpu' = [regs |-> stk'[ctx[to].stack], fpu |-> cpu.fpu]
  /\ UNCHANGED <<held, ctx>>

(* mt_switch: save to the running task, then restore from `to' - which may *)
(* be the running task itself.                                             *)
Switch(to) ==
  LET cur == mt_current_task IN
  /\ stk' = [stk EXCEPT ![ctx[cur].stack] = cpu.regs]
  /\ fx'  = [fx EXCEPT ![ctx[cur].fxdata] = cpu.fpu]
  /\ mt_current_task' = to
  /\ cpu' = [regs |-> stk'[ctx[to].stack], fpu |-> fx'[ctx[to].fxdata]]
  /\ UNCHANGED <<held, ctx>>

UnlinkNextOnly(t) == [ctx EXCEPT ![ctx[t].prev].next = ctx[t].next]

(* The two stores of mt_endtask.                                           *)
Unlink(t) ==
  [c \in AllCtxs |->
     [next   |-> IF c = ctx[t].prev THEN ctx[t].next ELSE ctx[c].next,
      prev   |-> IF c = ctx[t].next THEN ctx[t].prev ELSE ctx[c].prev,
      stack  |-> ctx[c].stack,
      fxdata |-> ctx[c].fxdata]]

FreedWithoutFx(t) == {ctx[t].stack, t}
(* The three frees of mt_endtask.                                          *)
Freed(t)          == {ctx[t].stack, ctx[t].fxdata, t}

EndTask(t) ==
  /\ ctx'  = Unlink(t)
  /\ held' = held \ Freed(t)
  /\ UNCHANGED <<stk, fx, mt_current_task, cpu>>

Next ==
  \/ \E r \in Regs, v \in Fpu : Compute([regs |-> r, fpu |-> v])
  \/ \E c \in Ctxs, s \in Stacks, f \in FxAreas : NewTask(c, s, f)
  \/ \E t \in Live : Switch(t)
  \/ \E t \in Live \ {First, mt_current_task} : EndTask(t)

Spec == Init /\ [][Next]_vars

-----------------------------------------------------------------------------
TypeOK ==
  /\ held \subseteq Ctxs \union Stacks \union FxAreas
  /\ ctx \in [AllCtxs -> Ctx]
  /\ stk \in [Stacks \union {FirstStack} -> Regs]
  /\ fx \in [FxAreas \union {FirstFx} -> Fpu]
  /\ mt_current_task \in Live
  /\ cpu \in [regs : Regs, fpu : Fpu]

(* No link of a task that still exists leads to one that was ended, and    *)
(* next and prev are each other's inverse, so that both mt_endtask's       *)
(* stores and mt_newtask's hit the neighbours they mean.                   *)
LinksInverse ==
  \A t \in Live :
    /\ ctx[t].next \in Live /\ ctx[ctx[t].next].prev = t
    /\ ctx[t].prev \in Live /\ ctx[ctx[t].prev].next = t

(* The blocks the heap holds are those of the existing tasks and no other: *)
(* nothing leaks over mt_newtask and mt_endtask, and no two tasks share a  *)
(* stack or an fxsave area.                                                *)
BlocksOwned ==
  /\ held = UNION {Freed(t) : t \in Live \ {First}}
  /\ ctx[First].stack = FirstStack /\ ctx[First].fxdata = FirstFx
  /\ \A t, u \in Live :
       t # u => ctx[t].stack # ctx[u].stack /\ ctx[t].fxdata # ctx[u].fxdata

(* The task n steps along `next' from the running one. *)
Nth == LET nth[n \in 0..Cardinality(Live)] ==
             IF n = 0 THEN mt_current_task ELSE ctx[nth[n - 1]].next
       IN  nth

(* The tasks are coroutines: whatever a suspended task has in its stack    *)
(* and fxsave area is the state it was left in, and the ring of `next' has *)
(* all of them, in the order of the sequence.                              *)
TaskState(t) ==
  IF t = mt_current_task THEN cpu
  ELSE [regs |-> stk[ctx[t].stack], fpu |-> fx[ctx[t].fxdata]]
Promise == INSTANCE Coroutines WITH
  Tasks  <- Ctxs,
  States <- [regs : Regs, fpu : Fpu],
  Fresh  <- [regs |-> 0, fpu |-> 0],
  order  <- [i \in 1..Cardinality(Live) |-> Nth[i - 1]],
  state  <- [t \in Live |-> TaskState(t)]
AreCoroutines == Promise!Spec

(* Only the running task, by computing, changes what a task will find in   *)
(* its registers: not a switch, not the creation or the end of another.    *)
RegistersKept ==
  [][\A t \in Live \intersect Live' :
       TaskState(t)' # TaskState(t) =>
         t = mt_current_task /\ mt_current_task' = t /\ held' = held]_vars
=============================================================================
