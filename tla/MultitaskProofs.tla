-------------------------- MODULE MultitaskProofs --------------------------
(***************************************************************************)
(* Proofs about the tasks, for any number of contexts, stacks and fxsave   *)
(* areas.  The invariant is inductive once the three parts are together:   *)
(* the links stay inverse because a new block is not a living task's, and  *)
(* that follows from the blocks' ownership.  That the ring of `next' has   *)
(* all living tasks needs one more (RingInv).                              *)
(***************************************************************************)
EXTENDS MultitaskTest, FiniteSetTheorems, SequenceTheorems, WellFoundedInduction, TLAPS

Inv == TypeOK /\ LinksInverse /\ BlocksOwned

(* What a living task owns, as facts about one task. *)
LEMMA Owned ==
  ASSUME Inv, NEW t \in Live
  PROVE  /\ t \in AllCtxs /\ ctx[t] \in Ctx
         /\ t # First => /\ t \in Ctxs /\ t \in held
                         /\ ctx[t].stack \in held /\ ctx[t].stack \in Stacks
                         /\ ctx[t].fxdata \in held /\ ctx[t].fxdata \in FxAreas
         /\ t = First => ctx[t].stack = FirstStack /\ ctx[t].fxdata = FirstFx
         /\ ctx[t].next \in Live /\ ctx[ctx[t].next].prev = t
         /\ ctx[t].prev \in Live /\ ctx[ctx[t].prev].next = t
PROOF
  <1>1. t \in AllCtxs /\ ctx[t] \in Ctx
    BY DEF Inv, TypeOK, Live, AllCtxs
  <1>2. ASSUME t # First
        PROVE  /\ t \in Ctxs /\ t \in held
               /\ ctx[t].stack \in held /\ ctx[t].stack \in Stacks
               /\ ctx[t].fxdata \in held /\ ctx[t].fxdata \in FxAreas
    <2>1. t \in Ctxs /\ t \in held
      BY <1>2 DEF Live
    <2>2. Freed(t) \subseteq held
      BY <1>2 DEF Inv, BlocksOwned
    <2>3. ctx[t].stack \in held /\ ctx[t].fxdata \in held
      BY <2>2 DEF Freed
    <2>4. ctx[t].stack \in Stacks \union {FirstStack} /\ ctx[t].fxdata \in FxAreas \union {FirstFx}
      BY <1>1 DEF Ctx
    <2>5. held \subseteq Ctxs \union Stacks \union FxAreas
      BY DEF Inv, TypeOK
    <2>6. FirstStack \notin held /\ FirstFx \notin held
      BY <2>5, MultitaskAssumption
    <2> QED
      BY <2>1, <2>3, <2>4, <2>6
  <1> QED
    BY <1>1, <1>2 DEF Inv, LinksInverse, BlocksOwned

(* mt_init establishes the invariant.                                      *)
LEMMA InitInv == Init => Inv
PROOF
  <1> SUFFICES ASSUME Init PROVE Inv
    OBVIOUS
  <1> DEFINE first == [next |-> First, prev |-> First, stack |-> FirstStack, fxdata |-> FirstFx]
  <1>1. /\ held = {} /\ ctx = [c \in AllCtxs |-> first] /\ mt_current_task = First
        /\ stk = [s \in Stacks \union {FirstStack} |-> 0]
        /\ fx = [f \in FxAreas \union {FirstFx} |-> 0]
        /\ cpu \in [regs : Regs, fpu : Fpu]
    BY DEF Init
  <1>2. first \in Ctx /\ First \in AllCtxs
    BY DEF Ctx, AllCtxs
  <1>3. Live = {First}
    BY <1>1 DEF Live
  <1>4. ctx[First] = first
    BY <1>1, <1>2
  <1>5. TypeOK
    <2> HIDE DEF first
    <2> QED
      BY <1>1, <1>2, <1>3, MultitaskAssumption DEF TypeOK
  <1>6. LinksInverse
    BY <1>3, <1>4 DEF LinksInverse
  <1>7. BlocksOwned
    BY <1>1, <1>3, <1>4 DEF BlocksOwned
  <1> QED
    BY <1>5, <1>6, <1>7 DEF Inv

(* mt_newtask preserves it: the new context is spliced between two living  *)
(* neighbours, and its blocks are nobody else's.                           *)
LEMMA NewTaskInv ==
  ASSUME Inv, NEW c \in Ctxs, NEW s \in Stacks, NEW f \in FxAreas, NewTask(c, s, f)
  PROVE  Inv'
PROOF
  <1> DEFINE cur == mt_current_task
             nxt == ctx[cur].next
  <1>1. /\ c \notin held /\ s \notin held /\ f \notin held
        /\ held' = held \union {c, s, f}
        /\ ctx' = Link(c, s, f)
        /\ stk' = [stk EXCEPT ![s] = 0] /\ fx' = [fx EXCEPT ![f] = 0]
        /\ mt_current_task' = mt_current_task /\ cpu' = cpu
    BY DEF NewTask
  <1>2. c # First /\ c # s /\ c # f /\ s \notin Ctxs /\ f \notin Ctxs
        /\ First \notin Ctxs
    BY MultitaskAssumption
  <1>3. c \notin Live /\ Live' = Live \union {c}
    BY <1>1, <1>2 DEF Live
  <1>4. cur \in Live /\ nxt \in Live /\ cur # c /\ nxt # c /\ cur \in AllCtxs /\ nxt \in AllCtxs
    BY <1>3, Owned DEF Inv, TypeOK
  <1>5. /\ ctx'[c].next = nxt /\ ctx'[c].prev = cur
        /\ ctx'[c].stack = s /\ ctx'[c].fxdata = f
    BY <1>1, <1>4 DEF Link, AllCtxs
  <1>6. ASSUME NEW t \in AllCtxs, t # c
        PROVE  /\ ctx'[t].next = IF t = cur THEN c ELSE ctx[t].next
               /\ ctx'[t].prev = IF t = nxt THEN c ELSE ctx[t].prev
               /\ ctx'[t].stack = ctx[t].stack
               /\ ctx'[t].fxdata = ctx[t].fxdata
    BY <1>1, <1>6 DEF Link
  <1>7. TypeOK'
    <2>1. ctx' \in [AllCtxs -> Ctx]
      <3>1. ASSUME NEW t \in AllCtxs PROVE ctx'[t] \in Ctx
        <4>1. /\ ctx[t].next \in AllCtxs /\ ctx[t].prev \in AllCtxs
              /\ ctx[t].stack \in Stacks \union {FirstStack}
              /\ ctx[t].fxdata \in FxAreas \union {FirstFx}
          BY DEF Inv, TypeOK, Ctx
        <4>2. /\ ctx'[t].next \in AllCtxs /\ ctx'[t].prev \in AllCtxs
              /\ ctx'[t].stack \in Stacks \union {FirstStack}
              /\ ctx'[t].fxdata \in FxAreas \union {FirstFx}
          BY <1>4, <1>5, <1>6, <4>1 DEF AllCtxs
        <4>3. ctx'[t] = [next |-> ctx'[t].next, prev |-> ctx'[t].prev,
                         stack |-> ctx'[t].stack, fxdata |-> ctx'[t].fxdata]
          BY <1>1 DEF Link
        <4> QED
          BY <4>2, <4>3 DEF Ctx
      <3>2. ctx' = [t \in AllCtxs |-> ctx'[t]]
        BY <1>1 DEF Link
      <3> QED
        BY <3>1, <3>2
    <2>2. held' \subseteq Ctxs \union Stacks \union FxAreas
      BY <1>1 DEF Inv, TypeOK
    <2>3. mt_current_task' \in Live'
      BY <1>1, <1>3, <1>4
    <2>4. stk' \in [Stacks \union {FirstStack} -> Regs] /\ fx' \in [FxAreas \union {FirstFx} -> Fpu]
      BY <1>1, MultitaskAssumption DEF Inv, TypeOK
    <2>5. cpu' \in [regs : Regs, fpu : Fpu]
      BY <1>1 DEF Inv, TypeOK
    <2> QED
      BY <2>1, <2>2, <2>3, <2>4, <2>5 DEF TypeOK
  <1>8. LinksInverse'
    <2> SUFFICES ASSUME NEW t \in Live'
                 PROVE  /\ ctx'[t].next \in Live' /\ ctx'[ctx'[t].next].prev = t
                        /\ ctx'[t].prev \in Live' /\ ctx'[ctx'[t].prev].next = t
      BY DEF LinksInverse
    <2>1. CASE t = c
      BY <1>3, <1>4, <1>5, <1>6, <2>1
    <2>2. CASE t \in Live
      <3>1. /\ t # c /\ t \in AllCtxs
            /\ ctx[t].next \in Live /\ ctx[ctx[t].next].prev = t
            /\ ctx[t].prev \in Live /\ ctx[ctx[t].prev].next = t
            /\ ctx[t].next \in AllCtxs /\ ctx[t].prev \in AllCtxs
            /\ ctx[t].next # c /\ ctx[t].prev # c
        BY <1>3, <2>2, Owned
      <3>2. ctx[nxt].prev = cur
        BY <1>4, Owned
      <3>3. ctx'[t].next \in Live' /\ ctx'[ctx'[t].next].prev = t
        BY <1>3, <1>4, <1>5, <1>6, <2>2, <3>1, <3>2
      <3>4. ctx'[t].prev \in Live' /\ ctx'[ctx'[t].prev].next = t
        BY <1>3, <1>4, <1>5, <1>6, <2>2, <3>1, <3>2
      <3> QED
        BY <3>3, <3>4
    <2> QED
      BY <1>3, <2>1, <2>2
  <1>9. BlocksOwned'
    <2>1. ASSUME NEW t \in Live
          PROVE  /\ t # c /\ t \in AllCtxs
                 /\ ctx'[t].stack = ctx[t].stack /\ ctx'[t].fxdata = ctx[t].fxdata
                 /\ ctx[t].stack # s /\ ctx[t].fxdata # f
      BY <1>1, <1>3, <1>6, Owned, MultitaskAssumption
    <2>2. Freed(c)' = {c, s, f}
      BY <1>5 DEF Freed
    <2>3. ASSUME NEW t \in Live PROVE Freed(t)' = Freed(t)
      BY <2>1 DEF Freed
    <2>4. held = UNION {Freed(t) : t \in Live \ {First}}
      BY DEF Inv, BlocksOwned
    <2>5. held' = UNION {Freed(t)' : t \in Live' \ {First}}
      <3>1. Live' \ {First} = (Live \ {First}) \union {c}
        BY <1>2, <1>3
      <3>2. ASSUME NEW x PROVE x \in held' <=> \E t \in Live' \ {First} : x \in Freed(t)'
        BY <1>1, <2>2, <2>3, <2>4, <3>1
      <3> QED
        BY <3>2
    <2>6. First \in Live
      BY DEF Live
    <2>7. ctx'[First].stack = FirstStack /\ ctx'[First].fxdata = FirstFx
      BY <2>1, <2>6 DEF Inv, BlocksOwned
    <2>8. \A t, u \in Live' :
            t # u => ctx'[t].stack # ctx'[u].stack /\ ctx'[t].fxdata # ctx'[u].fxdata
      BY <1>3, <1>5, <2>1 DEF Inv, BlocksOwned
    <2> QED
      BY <2>5, <2>7, <2>8 DEF BlocksOwned
  <1> QED
    BY <1>7, <1>8, <1>9 DEF Inv

(* mt_switch preserves it: it writes no link.                              *)
LEMMA SwitchInv ==
  ASSUME Inv, NEW to \in Live, Switch(to)
  PROVE  Inv'
PROOF
  <1> DEFINE cur == mt_current_task
  <1>1. /\ stk' = [stk EXCEPT ![ctx[cur].stack] = cpu.regs]
        /\ fx' = [fx EXCEPT ![ctx[cur].fxdata] = cpu.fpu]
        /\ mt_current_task' = to /\ held' = held /\ ctx' = ctx
        /\ cpu' = [regs |-> stk'[ctx[to].stack], fpu |-> fx'[ctx[to].fxdata]]
    BY DEF Switch
  <1>2. stk' \in [Stacks \union {FirstStack} -> Regs] /\ fx' \in [FxAreas \union {FirstFx} -> Fpu]
    BY <1>1 DEF Inv, TypeOK
  <1>3. ctx[to].stack \in Stacks \union {FirstStack} /\ ctx[to].fxdata \in FxAreas \union {FirstFx}
    BY Owned
  <1>4. cpu' \in [regs : Regs, fpu : Fpu]
    BY <1>1, <1>2, <1>3
  <1>5. TypeOK'
    BY <1>1, <1>2, <1>4 DEF Inv, TypeOK, Live
  <1>6. LinksInverse' /\ BlocksOwned'
    BY <1>1 DEF Inv, LinksInverse, BlocksOwned, Live, Freed
  <1> QED
    BY <1>5, <1>6 DEF Inv

(* mt_endtask preserves it: the neighbours of the ended task find each     *)
(* other, and no living task owned the three blocks.                       *)
LEMMA EndTaskInv ==
  ASSUME Inv, NEW t \in Live \ {First, mt_current_task}, EndTask(t)
  PROVE  Inv'
PROOF
  <1> DEFINE p == ctx[t].prev
             q == ctx[t].next
  <1>1. /\ ctx' = Unlink(t) /\ held' = held \ Freed(t)
        /\ stk' = stk /\ fx' = fx /\ cpu' = cpu /\ mt_current_task' = mt_current_task
    BY DEF EndTask
  <1>2. /\ t \in Live /\ t # First /\ t # mt_current_task
        /\ t \in Ctxs /\ ctx[t].stack \in Stacks /\ ctx[t].fxdata \in FxAreas
        /\ p \in Live /\ q \in Live /\ p \in AllCtxs /\ q \in AllCtxs
        /\ ctx[p].next = t /\ ctx[q].prev = t
    BY Owned
  <1>3. Live' = Live \ {t}
    <2>1. Freed(t) \intersect Ctxs = {t}
      BY <1>2, MultitaskAssumption DEF Freed
    <2> QED
      BY <1>1, <1>2, <2>1 DEF Live
  <1>4. ASSUME NEW u \in AllCtxs
        PROVE  /\ ctx'[u].next = IF u = p THEN q ELSE ctx[u].next
               /\ ctx'[u].prev = IF u = q THEN p ELSE ctx[u].prev
               /\ ctx'[u].stack = ctx[u].stack /\ ctx'[u].fxdata = ctx[u].fxdata
    BY <1>1 DEF Unlink
  <1>5. TypeOK'
    <2>1. ctx' \in [AllCtxs -> Ctx]
      <3>1. ASSUME NEW u \in AllCtxs PROVE ctx'[u] \in Ctx
        <4>1. /\ ctx[u].next \in AllCtxs /\ ctx[u].prev \in AllCtxs
              /\ ctx[u].stack \in Stacks \union {FirstStack}
              /\ ctx[u].fxdata \in FxAreas \union {FirstFx}
          BY DEF Inv, TypeOK, Ctx
        <4>2. ctx'[u] = [next |-> ctx'[u].next, prev |-> ctx'[u].prev,
                         stack |-> ctx'[u].stack, fxdata |-> ctx'[u].fxdata]
          BY <1>1 DEF Unlink
        <4>3. /\ ctx'[u].next \in AllCtxs /\ ctx'[u].prev \in AllCtxs
              /\ ctx'[u].stack \in Stacks \union {FirstStack}
              /\ ctx'[u].fxdata \in FxAreas \union {FirstFx}
          BY <1>2, <1>4, <4>1
        <4> QED
          BY <4>2, <4>3 DEF Ctx
      <3>2. ctx' = [u \in AllCtxs |-> ctx'[u]]
        BY <1>1 DEF Unlink
      <3> QED
        BY <3>1, <3>2
    <2>2. mt_current_task' \in Live'
      BY <1>1, <1>2, <1>3 DEF Inv, TypeOK
    <2> QED
      BY <1>1, <2>1, <2>2 DEF Inv, TypeOK
  <1>6. LinksInverse'
    <2> SUFFICES ASSUME NEW u \in Live'
                 PROVE  /\ ctx'[u].next \in Live' /\ ctx'[ctx'[u].next].prev = u
                        /\ ctx'[u].prev \in Live' /\ ctx'[ctx'[u].prev].next = u
      BY DEF LinksInverse
    <2>1. /\ u \in Live /\ u # t /\ u \in AllCtxs
          /\ ctx[u].next \in Live /\ ctx[ctx[u].next].prev = u
          /\ ctx[u].prev \in Live /\ ctx[ctx[u].prev].next = u
          /\ ctx[u].next \in AllCtxs /\ ctx[u].prev \in AllCtxs
      BY <1>3, Owned
    <2>2. ctx'[u].next \in Live' /\ ctx'[ctx'[u].next].prev = u
      BY <1>2, <1>3, <1>4, <2>1
    <2>3. ctx'[u].prev \in Live' /\ ctx'[ctx'[u].prev].next = u
      BY <1>2, <1>3, <1>4, <2>1
    <2> QED
      BY <2>2, <2>3
  <1>7. BlocksOwned'
    <2>1. ASSUME NEW u \in Live
          PROVE  Freed(u)' = Freed(u) /\ u \in AllCtxs
                 /\ ctx'[u].stack = ctx[u].stack /\ ctx'[u].fxdata = ctx[u].fxdata
      BY <1>4, Owned DEF Freed
    <2>2. held = UNION {Freed(u) : u \in Live \ {First}}
      BY DEF Inv, BlocksOwned
    <2>3. ASSUME NEW u \in Live \ {First, t}
          PROVE  Freed(u) \intersect Freed(t) = {}
      <3>1. u \in Ctxs /\ ctx[u].stack \in Stacks /\ ctx[u].fxdata \in FxAreas
        BY Owned
      <3>2. ctx[u].stack # ctx[t].stack /\ ctx[u].fxdata # ctx[t].fxdata /\ u # t
        BY <1>2 DEF Inv, BlocksOwned
      <3> QED
        BY <1>2, <3>1, <3>2, MultitaskAssumption DEF Freed
    <2>4. held' = UNION {Freed(u)' : u \in Live' \ {First}}
      <3>1. ASSUME NEW x PROVE x \in held' <=> \E u \in Live' \ {First} : x \in Freed(u)'
        BY <1>1, <1>2, <1>3, <2>1, <2>2, <2>3
      <3> QED
        BY <3>1
    <2>5. First \in Live
      BY DEF Live
    <2> QED
      BY <1>3, <2>1, <2>4, <2>5 DEF Inv, BlocksOwned
  <1> QED
    BY <1>5, <1>6, <1>7 DEF Inv

(* Every step preserves the invariant.                                     *)
LEMMA NextInv == Inv /\ [Next]_vars => Inv'
PROOF
  <1> SUFFICES ASSUME Inv, [Next]_vars
               PROVE  Inv'
    OBVIOUS
  <1>1. CASE \E r \in Regs, v \in Fpu : Compute([regs |-> r, fpu |-> v])
    BY <1>1 DEF Compute, mem, Inv, TypeOK, LinksInverse, BlocksOwned, Live, Freed
  <1>2. CASE \E c \in Ctxs, s \in Stacks, f \in FxAreas : NewTask(c, s, f)
    BY <1>2, NewTaskInv
  <1>3. CASE \E t \in Live : Switch(t)
    BY <1>3, SwitchInv
  <1>4. CASE \E t \in Live \ {First, mt_current_task} : EndTask(t)
    BY <1>4, EndTaskInv
  <1>5. CASE UNCHANGED vars
    BY <1>5 DEF vars, Inv, TypeOK, LinksInverse, BlocksOwned, Live, Freed
  <1> QED
    BY <1>1, <1>2, <1>3, <1>4, <1>5 DEF Next

(* The inductive invariant holds of every reachable state.                 *)
THEOREM Invariance == Spec => []Inv
  BY InitInv, NextInv, PTL DEF Spec

(* The types hold; the running task is always one that was not ended.      *)
THEOREM TypeCorrect == Spec => []TypeOK
  <1>1. Inv => TypeOK
    BY DEF Inv
  <1> QED
    BY <1>1, Invariance, PTL

(* next and prev stay each other's inverse among the living tasks,         *)
(* whatever is created and ended in whatever order.                        *)
THEOREM LinksHold == Spec => []LinksInverse
  <1>1. Inv => LinksInverse
    BY DEF Inv
  <1> QED
    BY <1>1, Invariance, PTL

(* The heap's allocated blocks are exactly those of the living tasks: no   *)
(* leak, no block shared.                                                  *)
THEOREM Ownership == Spec => []BlocksOwned
  <1>1. Inv => BlocksOwned
    BY DEF Inv
  <1> QED
    BY <1>1, Invariance, PTL

(* A new task writes to its own stack and area only.                       *)
LEMMA NewTaskKeepsStates ==
  ASSUME Inv, NEW c \in Ctxs, NEW s \in Stacks, NEW f \in FxAreas, NewTask(c, s, f), NEW t \in Live
  PROVE  TaskState(t)' = TaskState(t)
PROOF
  <1>1. /\ c \notin held /\ s \notin held /\ f \notin held /\ ctx' = Link(c, s, f)
        /\ stk' = [stk EXCEPT ![s] = 0] /\ fx' = [fx EXCEPT ![f] = 0]
        /\ mt_current_task' = mt_current_task /\ cpu' = cpu
    BY DEF NewTask
  <1>2. t # c /\ t \in AllCtxs
    BY <1>1, MultitaskAssumption DEF Live, AllCtxs
  <1>3. ctx'[t].stack = ctx[t].stack /\ ctx'[t].fxdata = ctx[t].fxdata
    BY <1>1, <1>2 DEF Link
  <1>4. ctx[t].stack # s /\ ctx[t].fxdata # f
    BY <1>1, Owned, MultitaskAssumption
  <1>5. stk'[ctx[t].stack] = stk[ctx[t].stack] /\ fx'[ctx[t].fxdata] = fx[ctx[t].fxdata]
    <2>1. ctx[t].stack \in Stacks \union {FirstStack} /\ ctx[t].fxdata \in FxAreas \union {FirstFx}
      BY Owned
    <2> QED
      BY <1>1, <1>4, <2>1 DEF Inv, TypeOK
  <1> QED
    BY <1>1, <1>3, <1>5 DEF TaskState

(* What a switch saves and restores is what the two tasks had.             *)
LEMMA SwitchKeepsStates ==
  ASSUME Inv, NEW to \in Live, Switch(to), NEW t \in Live
  PROVE  TaskState(t)' = TaskState(t)
PROOF
  <1> DEFINE cur == mt_current_task
  <1>1. /\ stk' = [stk EXCEPT ![ctx[cur].stack] = cpu.regs]
        /\ fx' = [fx EXCEPT ![ctx[cur].fxdata] = cpu.fpu]
        /\ mt_current_task' = to /\ ctx' = ctx
        /\ cpu' = [regs |-> stk'[ctx[to].stack], fpu |-> fx'[ctx[to].fxdata]]
    BY DEF Switch
  <1>2. cpu = [regs |-> cpu.regs, fpu |-> cpu.fpu] /\ cur \in Live
    BY DEF Inv, TypeOK
  <1>3. ASSUME NEW u \in Live
        PROVE  /\ ctx[u].stack \in Stacks \union {FirstStack}
               /\ ctx[u].fxdata \in FxAreas \union {FirstFx}
               /\ u # cur => ctx[u].stack # ctx[cur].stack /\ ctx[u].fxdata # ctx[cur].fxdata
    BY <1>2, Owned DEF Inv, BlocksOwned
  <1>4. ASSUME NEW u \in Live
        PROVE  /\ stk'[ctx[u].stack] = IF u = cur THEN cpu.regs ELSE stk[ctx[u].stack]
               /\ fx'[ctx[u].fxdata] = IF u = cur THEN cpu.fpu ELSE fx[ctx[u].fxdata]
    BY <1>1, <1>2, <1>3 DEF Inv, TypeOK
  <1>5. CASE t = cur
    BY <1>1, <1>2, <1>4, <1>5 DEF TaskState
  <1>6. CASE t # cur
    BY <1>1, <1>4, <1>6 DEF TaskState
  <1> QED
    BY <1>5, <1>6

(* The end of a task touches the links of others, and nothing else.        *)
LEMMA EndKeepsStates ==
  ASSUME Inv, NEW u \in Live \ {First, mt_current_task}, EndTask(u), NEW t \in Live
  PROVE  TaskState(t)' = TaskState(t)
PROOF
  <1>1. /\ ctx' = Unlink(u) /\ stk' = stk /\ fx' = fx /\ cpu' = cpu
        /\ mt_current_task' = mt_current_task
    BY DEF EndTask
  <1>2. t \in AllCtxs
    BY Owned
  <1>3. ctx'[t].stack = ctx[t].stack /\ ctx'[t].fxdata = ctx[t].fxdata
    BY <1>1, <1>2 DEF Unlink
  <1> QED
    BY <1>1, <1>3 DEF TaskState

(* A step that changes what some task will find in its registers is that   *)
(* task's own computation.                                                 *)
LEMMA StepKeepsRegisters ==
  ASSUME Inv, [Next]_vars, NEW t \in Live \intersect Live', TaskState(t)' # TaskState(t)
  PROVE  t = mt_current_task /\ mt_current_task' = t /\ held' = held
PROOF
  <1>1. CASE \E r \in Regs, v \in Fpu : Compute([regs |-> r, fpu |-> v])
    BY <1>1 DEF Compute, mem, TaskState
  <1>2. CASE \E c \in Ctxs, s \in Stacks, f \in FxAreas : NewTask(c, s, f)
    BY <1>2, NewTaskKeepsStates
  <1>3. CASE \E to \in Live : Switch(to)
    BY <1>3, SwitchKeepsStates
  <1>4. CASE \E u \in Live \ {First, mt_current_task} : EndTask(u)
    BY <1>4, EndKeepsStates
  <1>5. CASE UNCHANGED vars
    BY <1>5 DEF vars, TaskState
  <1> QED
    BY <1>1, <1>2, <1>3, <1>4, <1>5 DEF Next

(* A task finds its registers, on its stack and in its fxsave area, as it  *)
(* left them, whatever the other tasks did in between.                     *)
THEOREM RegistersStay == Spec => RegistersKept
  <1>1. Inv /\ [Next]_vars =>
          [\A t \in Live \intersect Live' :
             TaskState(t)' # TaskState(t) =>
               t = mt_current_task /\ mt_current_task' = t /\ held' = held]_vars
    BY StepKeepsRegisters
  <1> QED
    BY <1>1, Invariance, PTL DEF Spec, RegistersKept

-----------------------------------------------------------------------------
(* The ring.  A sequence r is the ring of the tasks L, from the task c on, *)
(* if the contexts cx link each to the next and the last to the first.     *)
IsRing(r, L, c, cx) ==
  /\ r \in Seq(L) /\ Len(r) > 0 /\ r[1] = c
  /\ \A k \in 1..Len(r) - 1 : cx[r[k]].next = r[k + 1]
  /\ cx[r[Len(r)]].next = r[1]
  /\ \A j, k \in 1..Len(r) : r[j] = r[k] => j = k
  /\ \A t \in L : \E k \in 1..Len(r) : r[k] = t

(* There is a least number in a set of them. *)
LEMMA Least ==
  ASSUME NEW T \in SUBSET Nat, T # {}
  PROVE  \E m \in T : \A k \in T : m <= k
<1> DEFINE R == OpToRel(<, Nat)
<1>1. IsWellFoundedOn(R, Nat)
  BY NatLessThanWellFounded, Zenon
<1>2. R = {ss \in Nat \X Nat : ss[1] < ss[2]}
  BY Zenon DEF OpToRel
<1>3. \A x, y \in Nat : x < y => <<x, y>> \in {ss \in Nat \X Nat : ss[1] < ss[2]}
  OBVIOUS
<1>4. \A x, y \in Nat : x < y => <<x, y>> \in R
  BY <1>2, <1>3, Zenon
<1> HIDE DEF R
<1>5. PICK m \in T : \A k \in T : ~(<<k, m>> \in R)
  BY <1>1, WFMin
<1>6. \A k \in T : ~(k < m)
  BY <1>4, <1>5, Zenon
<1> QED
  BY <1>6

(* It has as many places as there are tasks.                               *)
LEMMA RingCount ==
  ASSUME NEW L, NEW c, NEW cx, NEW r, IsRing(r, L, c, cx)
  PROVE  Cardinality(L) = Len(r) /\ Len(r) \in Nat \ {0}
<1> DEFINE l == Len(r)
<1>1. l \in Nat \ {0} /\ r \in [1..l -> L]
  BY LenProperties DEF IsRing
<1>2. /\ \A j, k \in 1..l : r[j] = r[k] => j = k
      /\ \A t \in L : \E k \in 1..l : r[k] = t
  BY DEF IsRing
<1>3. r \in Bijection(1..l, L)
  BY <1>1, <1>2 DEF Bijection, Injection, Surjection, IsInjective
<1>4. ExistsBijection(1..l, L)
  BY <1>3 DEF ExistsBijection
<1> HIDE DEF l
<1>5. Cardinality(L) = l
  BY <1>1, <1>4, FS_CountingElements
<1> QED BY <1>1, <1>5 DEF l

(* Whoever walks along `next' meets the ring's elements in their order.    *)
LEMMA RingWalk ==
  ASSUME NEW L, NEW c, NEW cx, NEW r, IsRing(r, L, c, cx),
         NEW g, g[0] = c, \A k \in 1..Len(r) : g[k] = cx[g[k - 1]].next
  PROVE  \A k \in 1..Len(r) : g[k - 1] = r[k]
<1>2. PICK l \in Nat \ {0} : l = Len(r)
  BY RingCount
<1>3. g[0] = c /\ \A k \in 1..l : g[k] = cx[g[k - 1]].next
  BY <1>2
<1>4. /\ r[1] = c
      /\ \A k \in 1..l - 1 : cx[r[k]].next = r[k + 1]
  BY <1>2 DEF IsRing
<1> DEFINE B == {k \in 0..l - 1 : g[k] # r[k + 1]}
<1>5. B = {}
  <2> SUFFICES ASSUME B # {} PROVE FALSE
    OBVIOUS
  <2>1. B \in SUBSET Nat
    OBVIOUS
  <2>2. PICK m \in B : \A k \in B : m <= k
    <3> HIDE DEF B
    <3> QED BY <2>1, Least
  <2>3. m \in 0..l - 1 /\ g[m] # r[m + 1]
    OBVIOUS
  <2>4. m # 0
    <3> HIDE DEF B
    <3> SUFFICES ASSUME m = 0 PROVE FALSE
      OBVIOUS
    <3>1. g[0] # r[1]
      BY <2>3
    <3> QED BY <1>3, <1>4, <3>1
  <2>5. m - 1 \in 0..l - 1 /\ ~(m <= m - 1)
    BY <2>3, <2>4
  <2>6. m - 1 \notin B
    BY <2>2, <2>5
  <2>7. g[m - 1] = r[m]
    BY <2>3, <2>5, <2>6
  <2>8. g[m] = cx[r[m]].next
    <3>1. m \in 1..l
      BY <2>3, <2>4
    <3> HIDE DEF B
    <3> QED BY <1>3, <2>7, <3>1, Zenon
  <2> QED
    BY <1>4, <2>3, <2>4, <2>8
<1>6. ASSUME NEW k \in 1..l PROVE g[k - 1] = r[k]
  <2>1. k - 1 \in 0..l - 1 /\ (k - 1) + 1 = k
    OBVIOUS
  <2> QED BY <1>5, <2>1
<1> QED
  BY <1>2, <1>6

(* Such a walk exists, so that Nth is one, ...                             *)
LEMMA WalkExists ==
  ASSUME NEW L, NEW c, NEW cx, NEW r, IsRing(r, L, c, cx)
  PROVE  \E g : g = [k \in 0..Cardinality(L) |-> IF k = 0 THEN c ELSE cx[g[k - 1]].next]
<1> DEFINE w == [k \in 0..Cardinality(L) |-> IF k < Len(r) THEN r[k + 1] ELSE r[1]]
<1>1. Cardinality(L) = Len(r) /\ Len(r) \in Nat \ {0}
  BY RingCount
<1>2. /\ r[1] = c
      /\ \A k \in 1..Len(r) - 1 : cx[r[k]].next = r[k + 1]
      /\ cx[r[Len(r)]].next = r[1]
  BY DEF IsRing
<1>3. ASSUME NEW k \in 0..Cardinality(L)
      PROVE  w[k] = IF k = 0 THEN c ELSE cx[w[k - 1]].next
  BY <1>1, <1>2
<1>4. w = [k \in 0..Cardinality(L) |-> IF k = 0 THEN c ELSE cx[w[k - 1]].next]
  <2> HIDE DEF w
  <2>1. w = [k \in 0..Cardinality(L) |-> w[k]]
    BY DEF w
  <2> QED BY <1>3, <2>1
<1> QED BY <1>4

(* ... and as `next' has no other, it is the ring, ...                     *)
LEMMA WalkIs ==
  ASSUME NEW L, NEW c, NEW cx, NEW r, IsRing(r, L, c, cx),
         NEW h, h = CHOOSE g : g = [k \in 0..Cardinality(L) |-> IF k = 0 THEN c ELSE cx[g[k - 1]].next]
  PROVE  \A k \in 1..Len(r) : h[k - 1] = r[k]
<1>1. \E g : g = [k \in 0..Cardinality(L) |-> IF k = 0 THEN c ELSE cx[g[k - 1]].next]
  BY WalkExists
<1>2. h = [k \in 0..Cardinality(L) |-> IF k = 0 THEN c ELSE cx[h[k - 1]].next]
  BY <1>1, Zenon
<1>3. Cardinality(L) = Len(r) /\ Len(r) \in Nat \ {0}
  BY RingCount
<1>4. \A k \in 0..Len(r) : h[k] = IF k = 0 THEN c ELSE cx[h[k - 1]].next
  BY <1>2, <1>3
<1>5. h[0] = c /\ \A k \in 1..Len(r) : h[k] = cx[h[k - 1]].next
  <2>1. 0 \in 0..Len(r) /\ \A k \in 1..Len(r) : k \in 0..Len(r) /\ k # 0
    BY <1>3
  <2> QED BY <1>4, <2>1
<1> QED BY <1>5, RingWalk

(* ... as is the sequence of Coroutines.                                   *)
Order == [k \in 1..Cardinality(Live) |-> Nth[k - 1]]

OrderIsRing == \A r : IsRing(r, Live, mt_current_task, ctx) => Order = r

LEMMA OrderIs == OrderIsRing
<1> SUFFICES ASSUME NEW r, IsRing(r, Live, mt_current_task, ctx) PROVE Order = r
  BY DEF OrderIsRing
<1>1. Nth = CHOOSE g : g = [k \in 0..Cardinality(Live) |-> IF k = 0 THEN mt_current_task ELSE ctx[g[k - 1]].next]
  BY DEF Nth
<1>2. \A k \in 1..Len(r) : Nth[k - 1] = r[k]
  BY <1>1, WalkIs
<1>3. Cardinality(Live) = Len(r) /\ Len(r) \in Nat \ {0}
  BY RingCount
<1>4. r = [k \in 1..Len(r) |-> r[k]]
  BY DEF IsRing
<1> QED BY <1>2, <1>3, <1>4 DEF Order

(* The three changes of the ring: what they make of the sequence, ...      *)
LEMMA Inserted ==
  ASSUME NEW S, NEW r \in Seq(S), Len(r) > 0, NEW t \in S,
         NEW q, q = SubSeq(r, 1, 2 - 1) \o <<t>> \o SubSeq(r, 2, Len(r))
  PROVE  /\ q \in Seq(S) /\ Len(q) = Len(r) + 1
         /\ \A k \in 1..Len(q) : q[k] = IF k = 1 THEN r[1] ELSE IF k = 2 THEN t ELSE r[k - 1]
<1>1. Len(r) \in Nat /\ \A k \in 1..Len(r) : r[k] \in S
  BY LenProperties, ElementOfSeq
<1>2. PICK a : a = SubSeq(r, 1, 2 - 1)
  OBVIOUS
<1>3. PICK z : z = SubSeq(r, 2, Len(r))
  OBVIOUS
<1>4. a \in Seq(S) /\ Len(a) = 1 /\ a[1] = r[1]
  BY <1>1, <1>2, SubSeqProperties
<1>5. z \in Seq(S) /\ Len(z) = Len(r) - 1 /\ \A k \in 1..Len(r) - 1 : z[k] = r[k + 1]
  BY <1>1, <1>3, SubSeqProperties
<1>6. PICK b : b = a \o <<t>>
  OBVIOUS
<1>7. <<t>> \in Seq(S) /\ Len(<<t>>) = 1 /\ <<t>>[1] = t
  OBVIOUS
<1>8. b \in Seq(S) /\ Len(b) = 2 /\ b[1] = r[1] /\ b[2] = t
  <2>0. PICK u : u = <<t>>
    OBVIOUS
  <2>1. u \in Seq(S) /\ Len(u) = 1 /\ u[1] = t /\ b = a \o u
    BY <1>6, <1>7, <2>0
  <2>2. /\ b \in Seq(S) /\ Len(b) = Len(a) + Len(u)
        /\ \A k \in 1..Len(a) + Len(u) : b[k] = IF k <= Len(a) THEN a[k] ELSE u[k - Len(a)]
    BY <1>4, <2>1, ConcatProperties
  <2>3. Len(a) + Len(u) = 2 /\ b[1] = a[1] /\ b[2] = u[1]
    BY <1>4, <2>1, <2>2
  <2> QED BY <1>4, <2>1, <2>2, <2>3
<1>9. q = b \o z
  BY <1>2, <1>3, <1>6
<1>10. /\ q \in Seq(S) /\ Len(q) = Len(r) + 1
       /\ \A k \in 1..Len(r) + 1 : q[k] = IF k <= 2 THEN b[k] ELSE z[k - 2]
  <2>1. /\ q \in Seq(S) /\ Len(q) = Len(b) + Len(z)
        /\ \A k \in 1..Len(b) + Len(z) : q[k] = IF k <= Len(b) THEN b[k] ELSE z[k - Len(b)]
    BY <1>5, <1>8, <1>9, ConcatProperties
  <2>2. Len(b) = 2 /\ Len(b) + Len(z) = Len(r) + 1
    BY <1>1, <1>5, <1>8
  <2> QED BY <2>1, <2>2
<1>11. ASSUME NEW k \in 1..Len(r) + 1, k # 1, k # 2
       PROVE  q[k] = r[k - 1]
  <2>1. k - 2 \in 1..Len(r) - 1 /\ (k - 2) + 1 = k - 1 /\ ~(k <= 2)
    BY <1>1, <1>11
  <2> QED BY <1>5, <1>10, <2>1
<1>12. q[1] = r[1] /\ q[2] = t
  BY <1>1, <1>8, <1>10
<1> QED
  BY <1>10, <1>11, <1>12

LEMMA Turned ==
  ASSUME NEW S, NEW r \in Seq(S), NEW j \in 1..Len(r),
         NEW q, q = SubSeq(r, j, Len(r)) \o SubSeq(r, 1, j - 1)
  PROVE  /\ q \in Seq(S) /\ Len(q) = Len(r)
         /\ \A k \in 1..Len(q) :
              q[k] = IF k <= Len(r) - j + 1 THEN r[k + j - 1] ELSE r[k + j - 1 - Len(r)]
<1>1. Len(r) \in Nat /\ \A k \in 1..Len(r) : r[k] \in S
  BY LenProperties, ElementOfSeq
<1>2. PICK a : a = SubSeq(r, j, Len(r))
  OBVIOUS
<1>3. PICK z : z = SubSeq(r, 1, j - 1)
  OBVIOUS
<1>4. a \in Seq(S) /\ Len(a) = Len(r) - j + 1 /\ \A k \in 1..Len(r) - j + 1 : a[k] = r[j + k - 1]
  BY <1>1, <1>2, SubSeqProperties
<1>5. z \in Seq(S) /\ Len(z) = j - 1 /\ \A k \in 1..j - 1 : z[k] = r[k]
  <2>1. \A k \in 1..j - 1 : r[k] \in S
    BY <1>1
  <2>2. z \in Seq(S) /\ Len(z) = (IF 1 <= j - 1 THEN j - 1 - 1 + 1 ELSE 0) /\ \A k \in 1..j - 1 - 1 + 1 : z[k] = r[1 + k - 1]
    BY <1>3, <2>1, SubSeqProperties
  <2> QED BY <2>2
<1>6. /\ q \in Seq(S) /\ Len(q) = Len(r)
      /\ \A k \in 1..Len(r) : q[k] = IF k <= Len(r) - j + 1 THEN a[k] ELSE z[k - (Len(r) - j + 1)]
  BY <1>1, <1>2, <1>3, <1>4, <1>5, ConcatProperties
<1>7. ASSUME NEW k \in 1..Len(r), ~(k <= Len(r) - j + 1)
      PROVE  q[k] = r[k + j - 1 - Len(r)]
  <2>1. k - (Len(r) - j + 1) \in 1..j - 1 /\ k - (Len(r) - j + 1) = k + j - 1 - Len(r)
    BY <1>1, <1>7
  <2> QED BY <1>5, <1>6, <1>7, <2>1
<1>8. ASSUME NEW k \in 1..Len(r), k <= Len(r) - j + 1
      PROVE  q[k] = r[k + j - 1]
  <2>1. k \in 1..Len(r) - j + 1 /\ j + k - 1 = k + j - 1
    BY <1>1, <1>8
  <2> QED BY <1>4, <1>6, <1>8, <2>1
<1> QED
  BY <1>6, <1>7, <1>8

LEMMA Removed ==
  ASSUME NEW S, NEW r \in Seq(S), NEW j \in 1..Len(r),
         NEW q, q = SubSeq(r, 1, j - 1) \o SubSeq(r, j + 1, Len(r))
  PROVE  /\ q \in Seq(S) /\ Len(q) = Len(r) - 1
         /\ \A k \in 1..Len(q) : q[k] = IF k < j THEN r[k] ELSE r[k + 1]
<1>1. Len(r) \in Nat /\ \A k \in 1..Len(r) : r[k] \in S
  BY LenProperties, ElementOfSeq
<1>2. PICK a : a = SubSeq(r, 1, j - 1)
  OBVIOUS
<1>3. PICK z : z = SubSeq(r, j + 1, Len(r))
  OBVIOUS
<1>4. a \in Seq(S) /\ Len(a) = j - 1 /\ \A k \in 1..j - 1 : a[k] = r[k]
  <2>1. \A k \in 1..j - 1 : r[k] \in S
    BY <1>1
  <2>2. a \in Seq(S) /\ Len(a) = (IF 1 <= j - 1 THEN j - 1 - 1 + 1 ELSE 0) /\ \A k \in 1..j - 1 - 1 + 1 : a[k] = r[1 + k - 1]
    BY <1>2, <2>1, SubSeqProperties
  <2> QED BY <2>2
<1>5. z \in Seq(S) /\ Len(z) = Len(r) - j /\ \A k \in 1..Len(r) - j : z[k] = r[j + k]
  <2>1. \A k \in j + 1..Len(r) : r[k] \in S
    BY <1>1
  <2>2. z \in Seq(S) /\ Len(z) = (IF j + 1 <= Len(r) THEN Len(r) - (j + 1) + 1 ELSE 0) /\ \A k \in 1..Len(r) - (j + 1) + 1 : z[k] = r[j + 1 + k - 1]
    BY <1>1, <1>3, <2>1, SubSeqProperties
  <2> QED BY <1>1, <2>2
<1>6. /\ q \in Seq(S) /\ Len(q) = Len(r) - 1
      /\ \A k \in 1..Len(r) - 1 : q[k] = IF k <= j - 1 THEN a[k] ELSE z[k - (j - 1)]
  <2>1. q = a \o z
    BY <1>2, <1>3
  <2>0. a \in Seq(S) /\ z \in Seq(S)
    BY <1>4, <1>5
  <2>2. /\ q \in Seq(S) /\ Len(q) = Len(a) + Len(z)
        /\ \A k \in 1..Len(a) + Len(z) : q[k] = IF k <= Len(a) THEN a[k] ELSE z[k - Len(a)]
    BY ZenonT(40), <2>0, <2>1, ConcatProperties
  <2>3. Len(a) + Len(z) = Len(r) - 1 /\ Len(a) = j - 1
    BY <1>1, <1>4, <1>5
  <2> QED BY <2>2, <2>3
<1>7. ASSUME NEW k \in 1..Len(r) - 1, ~(k < j)
      PROVE  q[k] = r[k + 1]
  <2>1. k - (j - 1) \in 1..Len(r) - j /\ j + (k - (j - 1)) = k + 1 /\ ~(k <= j - 1)
    BY <1>1, <1>7
  <2> QED BY <1>5, <1>6, <2>1
<1>8. ASSUME NEW k \in 1..Len(r) - 1, k < j
      PROVE  q[k] = r[k]
  <2>1. k \in 1..j - 1 /\ k <= j - 1
    BY <1>1, <1>8
  <2> QED BY <1>4, <1>6, <2>1
<1> QED
  BY <1>6, <1>7, <1>8

(* ... which is again the ring, with the links the code leaves.            *)
LEMMA RingGrows ==
  ASSUME NEW L, NEW c, NEW cx, NEW r, IsRing(r, L, c, cx), NEW t, t \notin L, NEW y,
         y[t].next = cx[c].next, y[c].next = t,
         \A u \in L \ {c} : y[u].next = cx[u].next,
         NEW q, q = SubSeq(r, 1, 2 - 1) \o <<t>> \o SubSeq(r, 2, Len(r))
  PROVE  IsRing(q, L \union {t}, c, y)
<1>0. PICK l \in Nat \ {0} : l = Len(r)
  BY RingCount
<1>1. l = Len(r) /\ r[1] = c /\ l \in Nat \ {0}
  BY <1>0 DEF IsRing
<1>2. \A k \in 1..l : r[k] \in L
  BY <1>0, ElementOfSeq DEF IsRing
<1>3. \A k \in 1..l - 1 : cx[r[k]].next = r[k + 1]
  BY <1>0 DEF IsRing
<1>4. cx[r[l]].next = r[1]
  BY <1>0 DEF IsRing
<1>5. \A j, k \in 1..l : r[j] = r[k] => j = k
  BY <1>0 DEF IsRing
<1>6. \A u \in L : \E k \in 1..l : r[k] = u
  BY <1>0 DEF IsRing
<1>7. r \in Seq(L \union {t})
  BY SeqMonotonic DEF IsRing
<1>8. /\ q \in Seq(L \union {t}) /\ Len(q) = l + 1
      /\ \A k \in 1..l + 1 : q[k] = IF k = 1 THEN r[1] ELSE IF k = 2 THEN t ELSE r[k - 1]
  BY <1>1, <1>7, Inserted
<1>9. q[1] = c /\ q[2] = t
  BY <1>1, <1>8
<1>10. ASSUME NEW k \in 2..l PROVE q[k + 1] = r[k] /\ r[k] \in L \ {c}
  <2>1. q[k + 1] = r[(k + 1) - 1] /\ (k + 1) - 1 = k
    BY SMTT(30), <1>8
  <2>2. r[k] \in L
    BY <1>2
  <2>3. r[k] # r[1]
    BY <1>5
  <2> QED BY <1>1, <2>1, <2>2, <2>3
<1>11. y[q[1]].next = q[2]
  BY <1>9
<1>12. ASSUME NEW k \in 2..l PROVE y[q[k]].next = q[k + 1]
  <2>1. CASE k = 2
    <3>1. cx[r[1]].next = r[1 + 1]
      BY <1>3, <2>1
    <3> QED BY <1>1, <1>9, <1>10, <2>1, <3>1
  <2>2. CASE k # 2
    <3>1. PICK d \in 2..l - 1 : k = d + 1
      <4>1. k - 1 \in 2..l - 1 /\ k = (k - 1) + 1
        BY <2>2
      <4> QED BY <4>1
    <3>2. q[k] = r[d] /\ r[d] \in L \ {c}
      <4>1. d \in 2..l
        BY <1>1
      <4> QED BY <1>10, <3>1, <4>1
    <3>3. cx[r[d]].next = r[d + 1]
      BY <1>3, <3>1
    <3>4. q[k + 1] = r[d + 1]
      BY <1>10, <3>1
    <3> QED BY <3>2, <3>3, <3>4
  <2> QED BY <2>1, <2>2
<1>13. y[q[l + 1]].next = q[1]
  <2>1. CASE l = 1
    BY <1>1, <1>4, <1>9, <2>1
  <2>2. CASE l # 1
    <3>1. q[l + 1] = r[l] /\ r[l] \in L \ {c}
      <4>1. l \in 2..l
        BY <1>1, <2>2
      <4> QED BY <1>10, <4>1
    <3> QED BY <1>1, <1>4, <1>9, <3>1
  <2> QED BY <2>1, <2>2
<1>14. ASSUME NEW k \in 1..l PROVE y[q[k]].next = q[k + 1]
  <2>1. CASE k = 1
    BY <1>11, <2>1
  <2>2. CASE k # 1
    <3>1. k \in 2..l
      BY <1>1, <2>2
    <3> QED BY <1>12, <3>1
  <2> QED BY <2>1, <2>2
<1>15. ASSUME NEW j \in 1..l + 1, NEW k \in 1..l + 1, q[j] = q[k] PROVE j = k
  <2>1. \A m \in 3..l + 1 : q[m] \in L \ {c} /\ q[m] = r[m - 1]
    <3> TAKE m \in 3..l + 1
    <3>1. PICK d \in 2..l : m = d + 1 /\ d = m - 1
      <4>1. m - 1 \in 2..l /\ m = (m - 1) + 1
        OBVIOUS
      <4> QED BY <4>1
    <3> QED BY <1>10, <3>1
  <2>2. c # t /\ c \in L
    BY <1>1, <1>2
  <2>3. CASE j \in {1, 2} \/ k \in {1, 2}
    <3>1. \A m \in 3..l + 1 : q[m] # q[1] /\ q[m] # q[2]
      BY <1>9, <2>1
    <3>2. \A m \in 1..l + 1 : m = 1 \/ m = 2 \/ m \in 3..l + 1
      OBVIOUS
    <3>3. q[1] # q[2]
      BY <1>9, <2>2
    <3> QED BY <1>15, <2>3, <3>1, <3>2, <3>3
  <2>4. CASE ~(j \in {1, 2} \/ k \in {1, 2})
    <3>1. j \in 3..l + 1 /\ k \in 3..l + 1 /\ j - 1 \in 1..l /\ k - 1 \in 1..l
      BY <2>4
    <3>2. r[j - 1] = r[k - 1]
      BY <1>15, <2>1, <3>1
    <3>3. j - 1 = k - 1
      BY <1>5, <3>1, <3>2
    <3> QED BY <3>3
  <2> QED BY <2>3, <2>4
<1>16. ASSUME NEW u \in L \union {t} PROVE \E k \in 1..l + 1 : q[k] = u
  <2>1. CASE u = t
    <3>1. 2 \in 1..l + 1
      BY <1>1
    <3> QED BY <1>9, <2>1, <3>1
  <2>2. CASE u \in L
    <3>1. PICK d \in 1..l : r[d] = u
      BY <1>6, <2>2
    <3>2. CASE d = 1
      <4>1. 1 \in 1..l + 1 /\ q[1] = u
        BY <1>1, <1>9, <3>1, <3>2
      <4> QED BY <4>1
    <3>3. CASE d # 1
      <4>1. d \in 2..l /\ d + 1 \in 1..l + 1
        BY <3>3
      <4>2. q[d + 1] = u
        BY <1>10, <3>1, <4>1
      <4> QED BY <4>1, <4>2
    <3> QED BY <3>2, <3>3
  <2> QED BY <2>1, <2>2
<1>17. \A k \in 1..Len(q) - 1 : y[q[k]].next = q[k + 1]
  <2>1. Len(q) - 1 = l
    BY <1>8
  <2> QED BY <1>14, <2>1
<1>18. Len(q) > 0 /\ y[q[Len(q)]].next = q[1] /\ q[1] = c /\ q \in Seq(L \union {t})
  BY <1>8, <1>9, <1>13
<1>19. \A j, k \in 1..Len(q) : q[j] = q[k] => j = k
  BY <1>8, <1>15
<1>20. \A u \in L \union {t} : \E k \in 1..Len(q) : q[k] = u
  BY <1>8, <1>16
<1> QED BY <1>17, <1>18, <1>19, <1>20 DEF IsRing

LEMMA FunctionIsSeq == ASSUME NEW S, NEW m \in Nat, NEW f \in [1..m -> S] PROVE f \in Seq(S)
OBVIOUS

LEMMA RingTurns ==
  ASSUME NEW L, NEW c, NEW cx, NEW r, IsRing(r, L, c, cx), NEW j \in 1..Len(r),
         NEW q, q = SubSeq(r, j, Len(r)) \o SubSeq(r, 1, j - 1)
  PROVE  IsRing(q, L, r[j], cx)
<1>0. PICK l \in Nat \ {0} : l = Len(r)
  BY RingCount
<1>1. l = Len(r) /\ r[1] = c /\ l \in Nat \ {0}
  BY <1>0 DEF IsRing
<1>2. \A k \in 1..l : r[k] \in L
  BY <1>0, ElementOfSeq DEF IsRing
<1>3. \A k \in 1..l - 1 : cx[r[k]].next = r[k + 1]
  BY <1>0 DEF IsRing
<1>4. cx[r[l]].next = r[1]
  BY <1>0 DEF IsRing
<1>5. \A d, k \in 1..l : r[d] = r[k] => d = k
  BY <1>0 DEF IsRing
<1>6. \A u \in L : \E k \in 1..l : r[k] = u
  BY <1>0 DEF IsRing
<1>7. j \in 1..l
  BY <1>1
<1>8. PICK at : at = [k \in 1..l |-> IF k <= l - j + 1 THEN k + j - 1 ELSE k + j - 1 - l]
  OBVIOUS
<1>9. /\ q \in Seq(L) /\ Len(q) = l
      /\ \A k \in 1..l : q[k] = IF k <= l - j + 1 THEN r[k + j - 1] ELSE r[k + j - 1 - l]
  <2>1. r \in Seq(L)
    BY DEF IsRing
  <2>2. /\ q \in Seq(L) /\ Len(q) = Len(r)
        /\ \A k \in 1..Len(q) :
             q[k] = IF k <= Len(r) - j + 1 THEN r[k + j - 1] ELSE r[k + j - 1 - Len(r)]
    BY <2>1, Turned
  <2> QED BY <1>1, <2>2
<1>10. ASSUME NEW k \in 1..l PROVE at[k] \in 1..l /\ q[k] = r[at[k]]
  <2>1. CASE k <= l - j + 1
    BY <1>1, <1>7, <1>8, <1>9, <2>1
  <2>2. CASE ~(k <= l - j + 1)
    BY <1>1, <1>7, <1>8, <1>9, <2>2
  <2> QED BY <2>1, <2>2
<1>11. \A k, d \in 1..l : at[k] = at[d] => k = d
  BY <1>1, <1>7, <1>8
<1>12. ASSUME NEW d \in 1..l PROVE \E k \in 1..l : at[k] = d
  <2>1. CASE d >= j
    <3>1. d - j + 1 \in 1..l /\ at[d - j + 1] = d
      BY <1>1, <1>7, <1>8, <2>1
    <3> QED BY <3>1
  <2>2. CASE d < j
    <3>1. d - j + 1 + l \in 1..l /\ ~(d - j + 1 + l <= l - j + 1)
      BY <1>1, <1>7, <2>2
    <3>2. at[d - j + 1 + l] = d
      BY <1>1, <1>7, <1>8, <3>1
    <3> QED BY <3>1, <3>2
  <2> QED BY <1>7, <2>1, <2>2
<1>13. at[1] = j
  BY <1>1, <1>7, <1>8
<1>14. ASSUME NEW k \in 1..l - 1 PROVE cx[q[k]].next = q[k + 1]
  <2>1. k \in 1..l /\ k + 1 \in 1..l
    BY <1>1
  <2>2. q[k] = r[at[k]] /\ q[k + 1] = r[at[k + 1]]
    BY <1>10, <2>1
  <2>3. CASE k < l - j + 1
    <3>1. at[k] = k + j - 1
      BY <1>8, <2>1, <2>3, <1>7
    <3>2. k + 1 <= l - j + 1
      BY <1>7, <2>3
    <3>3. at[k + 1] = k + 1 + j - 1
      BY <1>8, <2>1, <3>2
    <3>4. k + j - 1 \in 1..l - 1 /\ k + 1 + j - 1 = k + j - 1 + 1
      BY <1>7, <2>3
    <3>5. cx[r[k + j - 1]].next = r[k + j - 1 + 1]
      BY <1>3, <3>4
    <3> QED BY <2>2, <3>1, <3>3, <3>4, <3>5
  <2>4. CASE k = l - j + 1
    <3>1. at[k] = k + j - 1
      BY <1>8, <2>1, <2>4, <1>7
    <3>2. ~(k + 1 <= l - j + 1)
      BY <1>7, <2>4
    <3>3. at[k + 1] = k + 1 + j - 1 - l
      BY <1>8, <2>1, <3>2
    <3>4. k + j - 1 = l /\ k + 1 + j - 1 - l = 1
      BY <1>7, <2>4
    <3> QED BY <1>4, <2>2, <3>1, <3>3, <3>4
  <2>5. CASE k > l - j + 1
    <3>1. ~(k <= l - j + 1) /\ ~(k + 1 <= l - j + 1)
      BY <1>7, <2>5
    <3>2. at[k] = k + j - 1 - l /\ at[k + 1] = k + 1 + j - 1 - l
      BY <1>8, <2>1, <3>1
    <3>3. k + j - 1 - l \in 1..l - 1 /\ k + 1 + j - 1 - l = k + j - 1 - l + 1
      BY <1>7, <2>5
    <3>4. cx[r[k + j - 1 - l]].next = r[k + j - 1 - l + 1]
      BY <1>3, <3>3
    <3> QED BY <2>2, <3>2, <3>3, <3>4
  <2>6. k < l - j + 1 \/ k = l - j + 1 \/ k > l - j + 1
    BY <1>7
  <2> QED BY <2>3, <2>4, <2>5, <2>6
<1>15. cx[q[l]].next = q[1]
  <2>1. l \in 1..l
    BY <1>1
  <2>2. at[l] = (IF j = 1 THEN l ELSE j - 1) /\ q[l] = r[at[l]]
    <3>1. at[l] = IF l <= l - j + 1 THEN l + j - 1 ELSE l + j - 1 - l
      BY <1>8, <2>1
    <3>2. (l <= l - j + 1) <=> j = 1
      BY <1>7
    <3>3. l + j - 1 - l = j - 1 /\ (j = 1 => l + j - 1 = l)
      BY <1>7
    <3>4. q[l] = r[at[l]]
      BY <1>10, <2>1
    <3> QED BY <3>1, <3>2, <3>3, <3>4
  <2>3. q[1] = r[j]
    BY <1>1, <1>10, <1>13
  <2>4. CASE j = 1
    BY <1>4, <2>2, <2>3, <2>4
  <2>5. CASE j # 1
    <3>1. j - 1 \in 1..l - 1 /\ (j - 1) + 1 = j
      BY <1>7, <2>5
    <3> QED BY <1>3, <2>2, <2>3, <2>5, <3>1
  <2> QED BY <2>4, <2>5
<1>16. ASSUME NEW k \in 1..l, NEW d \in 1..l, q[k] = q[d] PROVE k = d
  <2>1. r[at[k]] = r[at[d]] /\ at[k] \in 1..l /\ at[d] \in 1..l
    BY <1>10, <1>16
  <2>2. at[k] = at[d]
    BY <1>5, <2>1
  <2> QED BY <1>11, <2>2
<1>17. ASSUME NEW u \in L PROVE \E k \in 1..l : q[k] = u
  <2>1. PICK d \in 1..l : r[d] = u
    BY <1>6
  <2>2. PICK k \in 1..l : at[k] = d
    BY <1>12
  <2> QED BY <1>10, <2>1, <2>2
<1>18. q[1] = r[j] /\ Len(q) > 0
  BY <1>1, <1>9, <1>10, <1>13
<1>19. \A k \in 1..Len(q) - 1 : cx[q[k]].next = q[k + 1]
  BY <1>9, <1>14
<1>20. cx[q[Len(q)]].next = q[1]
  BY <1>9, <1>15
<1>21. \A k, d \in 1..Len(q) : q[k] = q[d] => k = d
  BY <1>9, <1>16
<1>22. \A u \in L : \E k \in 1..Len(q) : q[k] = u
  BY <1>9, <1>17
<1> QED BY <1>9, <1>18, <1>19, <1>20, <1>21, <1>22 DEF IsRing

LEMMA RingShrinks ==
  ASSUME NEW L, NEW c, NEW cx, NEW r, IsRing(r, L, c, cx), NEW j \in 2..Len(r), NEW y,
         y[r[j - 1]].next = cx[r[j]].next,
         \A u \in L \ {r[j - 1]} : y[u].next = cx[u].next,
         NEW q, q = SubSeq(r, 1, j - 1) \o SubSeq(r, j + 1, Len(r))
  PROVE  IsRing(q, L \ {r[j]}, c, y)
<1>0. PICK l \in Nat \ {0} : l = Len(r)
  BY RingCount
<1>1. l = Len(r) /\ r[1] = c /\ l \in Nat \ {0}
  BY <1>0 DEF IsRing
<1>2. \A k \in 1..l : r[k] \in L
  BY <1>0, ElementOfSeq DEF IsRing
<1>3. \A k \in 1..l - 1 : cx[r[k]].next = r[k + 1]
  BY <1>0 DEF IsRing
<1>4. cx[r[l]].next = r[1]
  BY <1>0 DEF IsRing
<1>5. \A d, k \in 1..l : r[d] = r[k] => d = k
  BY <1>0 DEF IsRing
<1>6. \A u \in L : \E k \in 1..l : r[k] = u
  BY <1>0 DEF IsRing
<1>7. j \in 2..l /\ j - 1 \in 1..l - 1 /\ j \in 1..Len(r) /\ (j - 1) + 1 = j
  BY <1>1
<1>8. PICK at : at = [k \in 1..l - 1 |-> IF k < j THEN k ELSE k + 1]
  OBVIOUS
<1>9. /\ q \in Seq(L) /\ Len(q) = l - 1
      /\ \A k \in 1..l - 1 : q[k] = IF k < j THEN r[k] ELSE r[k + 1]
  <2>1. r \in Seq(L)
    BY DEF IsRing
  <2>2. /\ q \in Seq(L) /\ Len(q) = Len(r) - 1
        /\ \A k \in 1..Len(q) : q[k] = IF k < j THEN r[k] ELSE r[k + 1]
    BY <1>7, <2>1, Removed
  <2> QED BY <1>1, <2>2
<1>10. ASSUME NEW k \in 1..l - 1 PROVE at[k] \in 1..l /\ at[k] # j /\ q[k] = r[at[k]]
  <2>1. CASE k < j
    BY <1>1, <1>7, <1>8, <1>9, <2>1
  <2>2. CASE ~(k < j)
    BY <1>1, <1>7, <1>8, <1>9, <2>2
  <2> QED BY <2>1, <2>2
<1>11. \A k, d \in 1..l - 1 : at[k] = at[d] => k = d
  BY <1>1, <1>7, <1>8
<1>12. ASSUME NEW d \in 1..l, d # j PROVE \E k \in 1..l - 1 : at[k] = d
  <2>1. CASE d < j
    <3>1. d \in 1..l - 1 /\ at[d] = d
      BY <1>1, <1>7, <1>8, <2>1
    <3> QED BY <3>1
  <2>2. CASE ~(d < j)
    <3>1. d - 1 \in 1..l - 1 /\ ~(d - 1 < j)
      BY <1>1, <1>7, <1>12, <2>2
    <3>2. at[d - 1] = d
      BY <1>8, <3>1
    <3> QED BY <3>1, <3>2
  <2> QED BY <2>1, <2>2
<1>13. at[1] = 1 /\ 1 \in 1..l - 1
  BY <1>1, <1>7, <1>8
<1>14. ASSUME NEW k \in 1..l - 2 PROVE y[q[k]].next = q[k + 1]
  <2>1. k \in 1..l - 1 /\ k + 1 \in 1..l - 1
    BY <1>1
  <2>2. /\ at[k] = IF k < j THEN k ELSE k + 1
        /\ at[k + 1] = IF k + 1 < j THEN k + 1 ELSE k + 1 + 1
    BY <1>8, <2>1
  <2>3. q[k] = r[at[k]] /\ q[k + 1] = r[at[k + 1]] /\ at[k] \in 1..l
    BY <1>10, <2>1
  <2>4. CASE k = j - 1
    <3>1. at[k] = j - 1 /\ at[k + 1] = j + 1 /\ j \in 1..l - 1
      BY <1>1, <1>7, <2>1, <2>2, <2>4
    <3>2. cx[r[j]].next = r[j + 1]
      BY <1>3, <3>1
    <3> QED BY <2>3, <3>1, <3>2
  <2>5. CASE k # j - 1
    <3>1. at[k + 1] = at[k] + 1 /\ at[k] \in 1..l - 1 /\ at[k] # j - 1
      BY <1>1, <1>7, <2>1, <2>2, <2>3, <2>5
    <3>2. cx[r[at[k]]].next = r[at[k] + 1]
      BY <1>3, <3>1
    <3>3. r[at[k]] # r[j - 1] /\ r[at[k]] \in L
      <4>1. j - 1 \in 1..l
        BY <1>7
      <4> QED BY <1>2, <1>5, <2>3, <3>1, <4>1
    <3> QED BY <2>3, <3>1, <3>2, <3>3
  <2> QED BY <2>4, <2>5
<1>15. y[q[l - 1]].next = q[1]
  <2>1. l - 1 \in 1..l - 1
    BY <1>1, <1>7
  <2>2. q[1] = r[1]
    BY <1>10, <1>13
  <2>3. CASE j = l
    <3>1. at[l - 1] = j - 1 /\ q[l - 1] = r[at[l - 1]]
      BY <1>1, <1>7, <1>8, <1>10, <2>1, <2>3
    <3> QED BY <1>4, <2>2, <2>3, <3>1
  <2>4. CASE j # l
    <3>1. ~(l - 1 < j) /\ (l - 1) + 1 = l
      BY <1>1, <1>7, <2>4
    <3>2. at[l - 1] = l /\ q[l - 1] = r[at[l - 1]]
      BY <1>8, <1>10, <2>1, <3>1
    <3>3. r[l] # r[j - 1] /\ r[l] \in L
      <4>1. j - 1 \in 1..l /\ l \in 1..l /\ j - 1 # l
        BY <1>1, <1>7
      <4> QED BY <1>2, <1>5, <4>1
    <3> QED BY <1>4, <2>2, <3>2, <3>3
  <2> QED BY <2>3, <2>4
<1>16. ASSUME NEW k \in 1..l - 1, NEW d \in 1..l - 1, q[k] = q[d] PROVE k = d
  <2>1. r[at[k]] = r[at[d]] /\ at[k] \in 1..l /\ at[d] \in 1..l
    BY <1>10, <1>16
  <2>2. at[k] = at[d]
    BY <1>5, <2>1
  <2> QED BY <1>11, <2>2
<1>17. ASSUME NEW u \in L \ {r[j]} PROVE \E k \in 1..l - 1 : q[k] = u
  <2>1. PICK d \in 1..l : r[d] = u
    BY <1>6
  <2>2. PICK k \in 1..l - 1 : at[k] = d
    BY <1>12, <2>1
  <2> QED BY <1>10, <2>1, <2>2
<1>18. q \in Seq(L \ {r[j]})
  <2>1. q \in [1..l - 1 -> L] /\ l - 1 \in Nat
    <3>1. q \in [1..Len(q) -> L]
      BY <1>9, LenProperties
    <3> QED BY <1>1, <1>7, <1>9, <3>1
  <2>2. ASSUME NEW k \in 1..l - 1 PROVE q[k] \in L \ {r[j]}
    <3>1. at[k] \in 1..l /\ at[k] # j /\ q[k] = r[at[k]] /\ j \in 1..l
      BY <1>1, <1>7, <1>10
    <3>2. r[at[k]] # r[j]
      BY <1>5, <3>1
    <3> QED BY <1>2, <3>1, <3>2
  <2>3. q \in [1..l - 1 -> L \ {r[j]}]
    BY <2>1, <2>2
  <2> QED BY <2>1, <2>3, FunctionIsSeq
<1>19. q[1] = c /\ Len(q) > 0
  BY <1>1, <1>7, <1>9, <1>10, <1>13
<1>20. \A k \in 1..Len(q) - 1 : y[q[k]].next = q[k + 1]
  <2>1. Len(q) - 1 = l - 2
    BY <1>1, <1>9
  <2> QED BY <1>14, <2>1
<1>21. y[q[Len(q)]].next = q[1]
  BY <1>9, <1>15
<1>22. \A k, d \in 1..Len(q) : q[k] = q[d] => k = d
  BY <1>9, <1>16
<1>23. \A u \in L \ {r[j]} : \E k \in 1..Len(q) : q[k] = u
  BY <1>9, <1>17
<1> QED BY <1>18, <1>19, <1>20, <1>21, <1>22, <1>23 DEF IsRing

(* The other half of the refinement mapping, and the invariant.            *)
States == [t \in Live |-> TaskState(t)]

RingInv == IsRing(Order, Live, mt_current_task, ctx)

(* After a step, too.                                                      *)
LEMMA OrderNext == \A q : IsRing(q, Live', mt_current_task', ctx') => Order' = q
<1>1. OrderIsRing'
  BY OrderIs, PTL
<1> QED BY <1>1 DEF OrderIsRing

LEMMA RingStarts == Init => Order = <<First>> /\ RingInv
<1> SUFFICES ASSUME Init PROVE Order = <<First>> /\ RingInv
  OBVIOUS
<1>1. Live = {First} /\ mt_current_task = First /\ ctx[First].next = First
  BY DEF Init, Live, AllCtxs
<1>2. IsRing(<<First>>, Live, mt_current_task, ctx)
  BY <1>1 DEF IsRing
<1> QED BY <1>2, OrderIs DEF RingInv, OrderIsRing

(* Nobody is in it but the tasks, and the running one is at its head.       *)
LEMMA RingHead ==
  ASSUME NEW L, NEW c, NEW cx, NEW r, IsRing(r, L, c, cx)
  PROVE  /\ Range(r) = L /\ Head(r) = c
         /\ \A t \in L : \E k \in 1..Len(r) : r[k] = t
<1>1. r \in Seq(L) /\ DOMAIN r = 1..Len(r) /\ \A k \in 1..Len(r) : r[k] \in L
  BY ElementOfSeq, LenProperties DEF IsRing
<1>2. \A t \in L : \E k \in 1..Len(r) : r[k] = t
  BY DEF IsRing
<1>3. Range(r) = L
  BY <1>1, <1>2 DEF Range
<1>4. Head(r) = r[1]
  BY DEF IsRing
<1> QED BY <1>2, <1>3, <1>4 DEF IsRing

(* Each action is the coroutines' of the same meaning, and keeps the ring. *)
LEMMA ComputeMaps ==
  ASSUME Inv, RingInv, NEW v \in [regs : Regs, fpu : Fpu], Compute(v)
  PROVE  Promise!Work(v) /\ RingInv'
<1>1. held' = held /\ ctx' = ctx /\ stk' = stk /\ fx' = fx /\ mt_current_task' = mt_current_task /\ cpu' = v
  BY DEF Compute, mem
<1>2. Live' = Live
  BY <1>1 DEF Live
<1>3. Order' = Order /\ RingInv'
  BY <1>1, <1>2, OrderNext DEF RingInv
<1>4. Head(Order) = mt_current_task
  BY RingHead DEF RingInv
<1>5. \A t \in Live : TaskState(t)' = IF t = mt_current_task THEN v ELSE TaskState(t)
  BY <1>1 DEF TaskState
<1>6. States' = [States EXCEPT ![Head(Order)] = v]
  BY <1>2, <1>4, <1>5 DEF States, Inv, TypeOK
<1> QED BY <1>3, <1>6 DEF Promise!Work, Order, States

LEMMA NewTaskMaps ==
  ASSUME Inv, RingInv, NEW c \in Ctxs, NEW s \in Stacks, NEW f \in FxAreas, NewTask(c, s, f)
  PROVE  Promise!Create(c) /\ RingInv'
<1> DEFINE cur == mt_current_task
<1>1. /\ c \notin held /\ held' = held \union {c, s, f}
      /\ ctx' = Link(c, s, f) /\ stk' = [stk EXCEPT ![s] = 0] /\ fx' = [fx EXCEPT ![f] = 0]
      /\ mt_current_task' = cur
  BY DEF NewTask
<1>2. c # First /\ s \notin Ctxs /\ f \notin Ctxs
  BY MultitaskAssumption
<1>3. c \notin Live /\ Live' = Live \union {c}
  BY <1>1, <1>2 DEF Live
<1>4. cur \in Live /\ c # cur /\ c \in AllCtxs /\ \A t \in Live : t \in AllCtxs /\ t # c
  BY <1>3 DEF Inv, TypeOK, Live, AllCtxs
<1>5. /\ ctx'[c].next = ctx[cur].next /\ ctx'[c].stack = s /\ ctx'[c].fxdata = f
      /\ ctx'[cur].next = c /\ \A t \in Live \ {cur} : ctx'[t].next = ctx[t].next
  BY <1>1, <1>4 DEF Link
<1>6. PICK q : q = SubSeq(Order, 1, 2 - 1) \o <<c>> \o SubSeq(Order, 2, Len(Order))
  OBVIOUS
<1>7. IsRing(q, Live', cur, ctx')
  BY <1>3, <1>5, <1>6, RingGrows DEF RingInv
<1>8. Order' = q /\ RingInv'
  BY <1>1, <1>7, OrderNext DEF RingInv
<1>9. Range(Order) = Live
  BY RingHead DEF RingInv
<1>10. TaskState(c)' = [regs |-> 0, fpu |-> 0]
  BY <1>1, <1>4, <1>5 DEF TaskState, Inv, TypeOK
<1>11. \A t \in Live : TaskState(t)' = TaskState(t)
  BY NewTaskKeepsStates
<1>12. Promise!Range(Order) = Live
  BY <1>9 DEF Range, Promise!Range
<1>13. States' = [u \in Promise!Range(Order) \union {c} |-> IF u = c THEN [regs |-> 0, fpu |-> 0] ELSE States[u]]
  BY <1>3, <1>10, <1>11, <1>12 DEF States
<1>14. c \notin Promise!Range(Order)
  BY <1>3, <1>12
<1>15. Order' = Promise!InsertAt(Order, 2, c)
  BY <1>6, <1>8 DEF Promise!InsertAt
<1> QED BY <1>8, <1>13, <1>14, <1>15, Zenon DEF Promise!Create, Order, States

LEMMA SwitchMaps ==
  ASSUME Inv, RingInv, NEW to \in Live, Switch(to)
  PROVE  (\E j \in 1..Len(Order) : Promise!Resume(j)) /\ RingInv'
<1>1. held' = held /\ ctx' = ctx /\ mt_current_task' = to
  BY DEF Switch
<1>2. Live' = Live
  BY <1>1 DEF Live
<1>3. PICK j \in 1..Len(Order) : Order[j] = to
  BY RingHead DEF RingInv
<1>4. PICK q : q = SubSeq(Order, j, Len(Order)) \o SubSeq(Order, 1, j - 1)
  OBVIOUS
<1>5. IsRing(q, Live', mt_current_task', ctx')
  BY <1>1, <1>2, <1>3, <1>4, RingTurns DEF RingInv
<1>6. Order' = q /\ RingInv'
  BY <1>5, OrderNext DEF RingInv
<1>8. \A t \in Live : TaskState(t)' = TaskState(t)
  BY SwitchKeepsStates
<1>9. States' = States
  BY <1>2, <1>8 DEF States
<1>10. Promise!Resume(j)
  BY <1>4, <1>6, <1>9 DEF Promise!Resume, Order, States
<1> QED BY <1>6, <1>10

LEMMA EndTaskMaps ==
  ASSUME Inv, RingInv, NEW t \in Live \ {First, mt_current_task}, EndTask(t)
  PROVE  (\E j \in 2..Len(Order) : Promise!Finish(j)) /\ RingInv'
<1> DEFINE p == ctx[t].prev
<1>1. /\ ctx' = Unlink(t) /\ held' = held \ Freed(t) /\ mt_current_task' = mt_current_task
  BY DEF EndTask
<1>2. /\ t \in Ctxs /\ ctx[t].stack \in Stacks /\ ctx[t].fxdata \in FxAreas
      /\ p \in Live /\ ctx[p].next = t
  BY Owned
<1>3. Live' = Live \ {t}
  <2>1. Freed(t) \intersect Ctxs = {t}
    BY <1>2, MultitaskAssumption DEF Freed
  <2> QED
    BY <1>1, <1>2, <2>1, MultitaskAssumption DEF Live
<1>4. \A u \in Live : u \in AllCtxs
  BY DEF Inv, TypeOK, Live, AllCtxs
<1>5. ctx'[p].next = ctx[t].next /\ \A u \in Live \ {p} : ctx'[u].next = ctx[u].next
  BY <1>1, <1>2, <1>4 DEF Unlink
<1>6. PICK j \in 1..Len(Order) : Order[j] = t
  BY RingHead DEF RingInv
<1>7. j \in 2..Len(Order)
  BY <1>6 DEF RingInv, IsRing
<1>8. Order[j - 1] = p
  <2>1. j - 1 \in 1..Len(Order) - 1 /\ (j - 1) + 1 = j /\ j - 1 \in 1..Len(Order)
    BY <1>7
  <2>2. ctx[Order[j - 1]].next = t /\ Order \in Seq(Live)
    BY <1>6, <2>1 DEF RingInv, IsRing
  <2>3. Order[j - 1] \in Live
    BY <2>1, <2>2, ElementOfSeq
  <2> QED BY <2>2, <2>3, Owned
<1>9. PICK q : q = SubSeq(Order, 1, j - 1) \o SubSeq(Order, j + 1, Len(Order))
  OBVIOUS
<1>10. IsRing(q, Live', mt_current_task', ctx')
  <2>1. ctx'[Order[j - 1]].next = ctx[Order[j]].next
    BY <1>5, <1>6, <1>8
  <2>2. \A u \in Live \ {Order[j - 1]} : ctx'[u].next = ctx[u].next
    BY <1>5, <1>8
  <2>3. IsRing(q, Live \ {Order[j]}, mt_current_task, ctx')
    BY ZenonT(40), <1>7, <1>9, <2>1, <2>2, RingShrinks DEF RingInv
  <2> QED BY <1>1, <1>3, <1>6, <2>3
<1>11. Order' = q /\ RingInv'
  BY <1>10, OrderNext DEF RingInv
<1>12. Promise!Range(Order) = Live
  <2>1. Range(Order) = Live
    BY RingHead DEF RingInv
  <2> QED BY <2>1 DEF Range, Promise!Range
<1>13. \A u \in Live : TaskState(u)' = TaskState(u)
  BY EndKeepsStates
<1>14. States' = [u \in Promise!Range(Order) \ {Order[j]} |-> States[u]]
  BY <1>3, <1>6, <1>12, <1>13 DEF States
<1>15. Order' = Promise!RemoveAt(Order, j)
  BY <1>9, <1>11 DEF Promise!RemoveAt
<1>16. Order[j] # First
  BY <1>6
<1>17. Promise!Finish(j)
  BY <1>14, <1>15, <1>16, Zenon DEF Promise!Finish, Order, States
<1> QED BY <1>7, <1>11, <1>17

(* Every step is one of the coroutines', or none.                          *)
LEMMA StepsMap ==
  ASSUME Inv, RingInv, [Next]_vars
  PROVE  [Promise!Next]_Promise!vars /\ RingInv'
<1>1. CASE \E r \in Regs, v \in Fpu : Compute([regs |-> r, fpu |-> v])
  <2>1. PICK v \in [regs : Regs, fpu : Fpu] : Compute(v)
    BY <1>1
  <2> QED BY <2>1, ComputeMaps DEF Promise!Next
<1>2. CASE \E c \in Ctxs, s \in Stacks, f \in FxAreas : NewTask(c, s, f)
  BY <1>2, NewTaskMaps DEF Promise!Next
<1>3. CASE \E t \in Live : Switch(t)
  BY <1>3, SwitchMaps DEF Promise!Next, Order
<1>4. CASE \E t \in Live \ {First, mt_current_task} : EndTask(t)
  BY <1>4, EndTaskMaps DEF Promise!Next, Order
<1>5. CASE UNCHANGED vars
  <2>1. held' = held /\ ctx' = ctx /\ stk' = stk /\ fx' = fx /\ mt_current_task' = mt_current_task /\ cpu' = cpu
    BY <1>5 DEF vars, mem
  <2>2. Live' = Live
    BY <2>1 DEF Live
  <2>3. Order' = Order /\ RingInv'
    BY <2>1, <2>2, OrderNext DEF RingInv
  <2>4. States' = States
    BY <2>1, <2>2 DEF States, TaskState
  <2> QED BY <2>3, <2>4 DEF Promise!vars, Order, States
<1> QED
  BY <1>1, <1>2, <1>3, <1>4, <1>5 DEF Next

(* The tasks are coroutines: whatever is created, resumed and ended, in    *)
(* whatever order and number, each finds the state it was left in and the  *)
(* ring of `next' has all of them, in the order of the sequence.           *)
THEOREM TasksAreCoroutines == Spec => AreCoroutines
<1>1. Init => Promise!Init
  <2> SUFFICES ASSUME Init PROVE Promise!Init
    OBVIOUS
  <2>1. Order = <<First>>
    BY RingStarts
  <2>2. Live = {First} /\ mt_current_task = First /\ cpu \in [regs : Regs, fpu : Fpu]
    BY DEF Init, Live
  <2>3. States \in [{First} -> [regs : Regs, fpu : Fpu]]
    BY <2>2 DEF States, TaskState
  <2> QED BY <2>1, <2>3, Zenon DEF Promise!Init, Order, States
<1>2. Inv /\ RingInv /\ [Next]_vars => [Promise!Next]_Promise!vars /\ RingInv'
  BY StepsMap
<1> QED
  BY <1>1, <1>2, RingStarts, Invariance, PTL DEF Spec, AreCoroutines, Promise!Spec

-----------------------------------------------------------------------------
(* test_multitask.  The tasks from task[k] on exist, and follow            *)
(* kernel_main's in the ring in their order.                               *)
RingFrom(k) ==
  /\ ctx[First].next = IF k > 2 THEN First ELSE task[k]
  /\ \A j \in k..2 : task[j] \in Ctxs /\ ctx[task[j]].next = IF j = 2 THEN First ELSE task[j + 1]
  /\ \A j, l \in k..2 : j # l => task[j] # task[l]
  /\ Live = {First} \union {task[j] : j \in k..2}

(* Before the running task in the ring, all have taken the turn.           *)
Turns ==
  \/ mt_current_task = First /\ \A k \in 0..2 : i[task[k]] = i[First]
  \/ \E m \in 0..2 :
       /\ mt_current_task = task[m]
       /\ \A k \in 0..2 : i[task[k]] = IF k < m THEN i[First] ELSE i[First] - 1

TestInv ==
  /\ Inv
  /\ MT_TEST_ITERS \in Nat
  /\ task \in [0..2 -> AllCtxs] /\ i \in [AllCtxs -> Nat]
  /\ n \in 0..3 /\ pc \in {"create", "loop", "end", "done"}
  /\ pc # "loop" => mt_current_task = First
  /\ pc = "create" => n \in 0..2 /\ RingFrom(3 - n) /\ i[First] = 0 /\ \A k \in 3 - n .. 2 : i[task[k]] = 0
  /\ pc = "loop" => n = 0 /\ RingFrom(0) /\ i[First] <= MT_TEST_ITERS + 1 /\ Turns
  /\ pc = "end" => n \in 0..2
  /\ pc = "done" => n = 3
  /\ pc \in {"end", "done"} =>
       RingFrom(n) /\ i[First] = MT_TEST_ITERS + 1 /\ \A k \in 0..2 : i[task[k]] = MT_TEST_ITERS + 1

LEMMA TestStarts == ASSUME MaxIters \in Nat PROVE TestInit => TestInv
  <1> SUFFICES ASSUME TestInit PROVE TestInv
    OBVIOUS
  <1>1. Inv /\ held = {} /\ ctx[First].next = First /\ mt_current_task = First /\ First \in AllCtxs
    BY InitInv DEF TestInit, Init, AllCtxs
  <1>2. RingFrom(3)
    BY <1>1 DEF RingFrom, Live
  <1> QED
    BY <1>1, <1>2 DEF TestInit, TestInv

(* A new task comes first of the three that exist so far. *)
LEMMA CreateKeeps ==
  ASSUME TestInv, NEW c \in Ctxs, NEW s \in Stacks, NEW f \in FxAreas, Create(c, s, f)
  PROVE  TestInv'
  <1>0. PICK k \in 0..2 : k = 2 - n
    BY DEF Create, TestInv
  <1>1. /\ pc = "create" /\ NewTask(c, s, f) /\ MT_TEST_ITERS' = MT_TEST_ITERS
        /\ task' = [task EXCEPT ![k] = c] /\ i' = [i EXCEPT ![c] = 0]
        /\ n' = (IF n = 2 THEN 0 ELSE n + 1) /\ pc' = IF n = 2 THEN "loop" ELSE "create"
    BY <1>0 DEF Create
  <1>2. /\ n \in 0..2 /\ RingFrom(3 - n) /\ mt_current_task = First /\ i[First] = 0
        /\ \A j \in 3 - n .. 2 : i[task[j]] = 0
        /\ MT_TEST_ITERS \in Nat /\ task \in [0..2 -> AllCtxs] /\ i \in [AllCtxs -> Nat]
    BY <1>1 DEF TestInv
  <1>3. k \in 0..2 /\ 3 - n = k + 1
    BY <1>0, <1>2
  <1>4. Inv'
    BY <1>1, NewTaskInv DEF TestInv
  <1>5. c \notin Live /\ Live' = Live \union {c} /\ mt_current_task' = First /\ c # First /\ c \in AllCtxs
        /\ First \in AllCtxs
    BY <1>1, <1>2, MultitaskAssumption DEF NewTask, Live, AllCtxs
  <1>6. /\ task' \in [0..2 -> AllCtxs] /\ i' \in [AllCtxs -> Nat]
        /\ task'[k] = c /\ \A j \in k + 1 .. 2 : task'[j] = task[j] /\ task[j] # c
        /\ i'[First] = 0 /\ i'[c] = 0 /\ \A j \in k + 1 .. 2 : i'[task[j]] = 0
    <2>1. task' \in [0..2 -> AllCtxs] /\ task'[k] = c /\ \A j \in k + 1 .. 2 : j # k /\ j \in 0..2
      BY <1>1, <1>2, <1>3, <1>5
    <2>2. \A j \in k + 1 .. 2 : task'[j] = task[j]
      BY <1>1, <1>2, <2>1
    <2>3. \A j \in k + 1 .. 2 : task[j] \in Live /\ task[j] \in AllCtxs
      BY <1>2, <1>3, <2>1 DEF RingFrom
    <2>4. i' \in [AllCtxs -> Nat] /\ i'[c] = 0 /\ \A t \in AllCtxs : t # c => i'[t] = i[t]
      BY <1>1, <1>2, <1>5
    <2>5. \A j \in k + 1 .. 2 : task[j] # c
      BY <1>5, <2>3
    <2>6. \A j \in k + 1 .. 2 : i'[task[j]] = 0
      BY <1>2, <1>3, <2>3, <2>4, <2>5
    <2> QED BY <1>2, <1>5, <2>1, <2>2, <2>4, <2>5, <2>6
  <1>7. /\ ctx'[First].next = c /\ ctx'[c].next = ctx[First].next
        /\ \A t \in AllCtxs : t # First /\ t # c => ctx'[t].next = ctx[t].next
    BY <1>1, <1>2, <1>5 DEF NewTask, Link
  <1>8. RingFrom(k)'
    <2>1. k..2 = {k} \union (k + 1 .. 2)
      BY <1>3
    <2>2. \A j \in k + 1 .. 2 : task[j] \in Ctxs /\ task[j] \in AllCtxs /\ task[j] # First
      BY <1>2, <1>3, MultitaskAssumption DEF RingFrom, AllCtxs
    <2>3. ctx'[c].next = IF k = 2 THEN First ELSE task'[k + 1]
      <3>1. ctx[First].next = IF k + 1 > 2 THEN First ELSE task[k + 1]
        BY <1>2, <1>3 DEF RingFrom
      <3>2. k # 2 => k + 1 \in k + 1 .. 2
        BY <1>3
      <3> QED BY <1>3, <1>6, <1>7, <3>1, <3>2
    <2>4. ASSUME NEW j \in k + 1 .. 2 PROVE ctx'[task'[j]].next = IF j = 2 THEN First ELSE task'[j + 1]
      <3>1. ctx[task[j]].next = IF j = 2 THEN First ELSE task[j + 1]
        BY <1>2, <1>3 DEF RingFrom
      <3>2. j # 2 => j + 1 \in k + 1 .. 2
        BY <1>3
      <3> QED BY <1>6, <1>7, <2>2, <3>1, <3>2
    <2>5. \A j \in k..2 : task'[j] \in Ctxs /\ ctx'[task'[j]].next = IF j = 2 THEN First ELSE task'[j + 1]
      BY <1>6, <2>1, <2>2, <2>3, <2>4
    <2>6. \A j, l \in k..2 : j # l => task'[j] # task'[l]
      BY <1>2, <1>3, <1>6, <2>1 DEF RingFrom
    <2>7. Live' = {First} \union {task'[j] : j \in k..2}
      <3>1. Live = {First} \union {task[j] : j \in k + 1 .. 2}
        BY <1>2, <1>3 DEF RingFrom
      <3> QED BY <1>5, <1>6, <2>1, <3>1
    <2>8. ~(k > 2) /\ ctx'[First].next = task'[k]
      BY <1>3, <1>6, <1>7
    <2> QED BY <2>5, <2>6, <2>7, <2>8, <1>3 DEF RingFrom
  <1>9. \A j \in k..2 : i'[task'[j]] = 0
    BY <1>3, <1>6
  <1>10. CASE n = 2
    <2>1. k = 0 /\ n' = 0 /\ pc' = "loop"
      BY <1>0, <1>1, <1>10
    <2>2. Turns'
      BY <1>5, <1>6, <1>9, <2>1 DEF Turns
    <2> QED BY <1>1, <1>2, <1>4, <1>5, <1>6, <1>8, <2>1, <2>2 DEF TestInv
  <1>11. CASE n # 2
    <2>1. n' = n + 1 /\ n' \in 0..2 /\ 3 - n' = k /\ pc' = "create"
      BY <1>0, <1>1, <1>2, <1>11
    <2>2. RingFrom(3 - n)'
      BY <1>8, <2>1 DEF RingFrom
    <2> QED BY <1>1, <1>2, <1>4, <1>5, <1>6, <1>9, <2>1, <2>2 DEF TestInv
  <1> QED BY <1>10, <1>11

(* The turn passes from kernel_main's task to task0, and so on around; it  *)
(* comes back once all have taken it.                                      *)
LEMMA TakeTurnKeeps == ASSUME TestInv, TakeTurn PROVE TestInv'
  <1> DEFINE cur == mt_current_task
  <1>1. /\ pc = "loop" /\ i[cur] <= MT_TEST_ITERS /\ i' = [i EXCEPT ![cur] = @ + 1]
        /\ Switch(ctx[cur].next) /\ UNCHANGED <<MT_TEST_ITERS, pc, n, task>>
    BY DEF TakeTurn, LoopsOn
  <1>2. /\ n = 0 /\ RingFrom(0) /\ i[First] <= MT_TEST_ITERS + 1 /\ Turns
        /\ MT_TEST_ITERS \in Nat /\ task \in [0..2 -> AllCtxs] /\ i \in [AllCtxs -> Nat] /\ Inv
    BY <1>1 DEF TestInv
  <1>3. cur \in Live /\ First \in Live /\ cur \in AllCtxs /\ First \in AllCtxs
    BY <1>2 DEF Inv, TypeOK, Live, AllCtxs
  <1>4. ctx[cur].next \in Live
    BY <1>2, <1>3, Owned
  <1>5. Inv'
    BY <1>1, <1>2, <1>4, SwitchInv
  <1>6. UNCHANGED <<held, ctx>> /\ mt_current_task' = ctx[cur].next
    BY <1>1 DEF Switch
  <1>7. RingFrom(0)'
    BY <1>1, <1>2, <1>6 DEF RingFrom, Live
  <1>8. i' \in [AllCtxs -> Nat] /\ i'[cur] = i[cur] + 1 /\ \A t \in AllCtxs : t # cur => i'[t] = i[t]
    BY <1>1, <1>2, <1>3
  <1>9. /\ \A k \in 0..2 : task[k] \in Ctxs /\ task[k] \in AllCtxs /\ task[k] # First
        /\ \A j, k \in 0..2 : j # k => task[j] # task[k]
    BY <1>2, MultitaskAssumption DEF RingFrom, AllCtxs
  <1>10. i[First] \in Nat /\ \A k \in 0..2 : i[task[k]] \in Nat
    BY <1>2, <1>3, <1>9
  <1>11. CASE cur = First
    <2>1. \A k \in 0..2 : i[task[k]] = i[First]
      BY <1>2, <1>9, <1>11 DEF Turns
    <2>2. mt_current_task' = task'[0]
      BY <1>1, <1>2, <1>6, <1>11 DEF RingFrom
    <2>3. \A k \in 0..2 : i'[task'[k]] = i'[First] - 1
      BY <1>1, <1>8, <1>9, <1>10, <1>11, <2>1
    <2>4. \A k \in 0..2 : ~(k < 0)
      OBVIOUS
    <2>5. Turns'
      BY <2>2, <2>3, <2>4 DEF Turns
    <2>6. i'[First] <= MT_TEST_ITERS' + 1
      BY <1>1, <1>8, <1>10, <1>11, <1>2
    <2> QED
      BY <1>1, <1>2, <1>5, <1>7, <1>8, <2>5, <2>6 DEF TestInv
  <1>12. CASE cur # First
    <2>1. PICK m \in 0..2 : /\ cur = task[m]
                            /\ \A k \in 0..2 : i[task[k]] = IF k < m THEN i[First] ELSE i[First] - 1
      BY <1>2, <1>12 DEF Turns
    <2>2. mt_current_task' = IF m = 2 THEN First ELSE task'[m + 1]
      BY <1>1, <1>2, <1>6, <2>1 DEF RingFrom
    <2>3. \A k \in 0..2 : i'[task'[k]] = IF k < m + 1 THEN i'[First] ELSE i'[First] - 1
      BY <1>1, <1>3, <1>8, <1>9, <1>10, <1>12, <2>1
    <2>4. Turns'
      <3>1. CASE m = 2
        BY <2>2, <2>3, <3>1 DEF Turns
      <3>2. CASE m # 2
        <4>1. m + 1 \in 0..2
          BY <3>2
        <4> QED BY <2>2, <2>3, <3>2, <4>1 DEF Turns
      <3> QED BY <3>1, <3>2
    <2>5. i'[First] <= MT_TEST_ITERS' + 1
      BY <1>1, <1>2, <1>3, <1>8, <1>12
    <2> QED
      BY <1>1, <1>2, <1>5, <1>7, <1>8, <2>4, <2>5 DEF TestInv
  <1> QED
    BY <1>11, <1>12

(* Only kernel_main's task leaves its loop: a task whose turn it is has    *)
(* taken one less.                                                         *)
LEMMA LeaveLoopKeeps == ASSUME TestInv, LeaveLoop PROVE TestInv'
  <1>1. /\ pc = "loop" /\ ~(i[mt_current_task] <= MT_TEST_ITERS)
        /\ pc' = IF mt_current_task = First THEN "end" ELSE "lost"
        /\ UNCHANGED <<vars, MT_TEST_ITERS, n, task, i>>
    BY DEF LeaveLoop, LoopsOn
  <1>2. /\ n = 0 /\ RingFrom(0) /\ i[First] <= MT_TEST_ITERS + 1 /\ Turns
        /\ MT_TEST_ITERS \in Nat /\ task \in [0..2 -> AllCtxs] /\ i \in [AllCtxs -> Nat] /\ Inv
    BY <1>1 DEF TestInv
  <1>3. i[First] \in Nat
    BY <1>2 DEF AllCtxs
  <1>4. mt_current_task = First
    <2>1. ASSUME NEW m \in 0..2, i[task[m]] = i[First] - 1 PROVE i[task[m]] <= MT_TEST_ITERS
      BY <1>2, <1>3, <2>1
    <2> QED BY <1>1, <1>2, <2>1 DEF Turns
  <1>5. \A k \in 0..2 : i[task[k]] = i[First]
    <2>1. \A k \in 0..2 : task[k] # First
      BY <1>2, MultitaskAssumption DEF RingFrom
    <2> QED BY <1>2, <1>4, <2>1 DEF Turns
  <1>6. i[First] = MT_TEST_ITERS + 1
    BY <1>1, <1>2, <1>3, <1>4
  <1>7. Inv' /\ RingFrom(0)'
    BY <1>1, <1>2 DEF vars, Inv, TypeOK, LinksInverse, BlocksOwned, Live, Freed, RingFrom
  <1> QED
    BY <1>1, <1>2, <1>4, <1>5, <1>6, <1>7 DEF TestInv, vars

LEMMA EndKeeps == ASSUME TestInv, End PROVE TestInv'
  <1>0. PICK k \in 0..2 : k = n
    BY DEF End, TestInv
  <1>1. /\ pc = "end" /\ EndTask(task[k]) /\ n' = k + 1 /\ pc' = IF k = 2 THEN "done" ELSE "end"
        /\ UNCHANGED <<MT_TEST_ITERS, task, i>>
    BY <1>0 DEF End
  <1>2. /\ RingFrom(k) /\ mt_current_task = First /\ Inv
        /\ i[First] = MT_TEST_ITERS + 1 /\ \A j \in 0..2 : i[task[j]] = MT_TEST_ITERS + 1
        /\ MT_TEST_ITERS \in Nat /\ task \in [0..2 -> AllCtxs] /\ i \in [AllCtxs -> Nat]
    BY <1>0, <1>1 DEF TestInv
  <1>3. task[k] \in Live /\ task[k] \in Ctxs /\ task[k] # First
    BY <1>2, MultitaskAssumption DEF RingFrom
  <1>4. Inv'
    BY <1>1, <1>2, <1>3, EndTaskInv
  <1>5. ctx[task[k]].prev = First
    <2>1. ctx[First].next = task[k] /\ First \in Live
      BY <1>2 DEF RingFrom, Live
    <2> QED BY <1>2, <2>1, Owned
  <1>6. /\ First \in AllCtxs /\ ctx'[First].next = ctx[task[k]].next
        /\ \A t \in AllCtxs : t # First => ctx'[t].next = ctx[t].next
    BY <1>1, <1>5 DEF EndTask, Unlink, AllCtxs
  <1>7. Live' = Live \ {task[k]}
    <2>1. ctx[task[k]].stack \in Stacks /\ ctx[task[k]].fxdata \in FxAreas
      BY <1>2, <1>3, Owned
    <2>2. Freed(task[k]) \intersect Ctxs = {task[k]}
      BY <1>3, <2>1, MultitaskAssumption DEF Freed
    <2> QED BY <1>1, <1>3, <2>2 DEF EndTask, Live
  <1>8. RingFrom(k + 1)'
    <2>1. k..2 = {k} \union (k + 1 .. 2) /\ k \notin k + 1 .. 2
      OBVIOUS
    <2>2. \A j \in k + 1 .. 2 : task[j] \in Ctxs /\ task[j] \in AllCtxs /\ task[j] # First
      BY <1>2, <2>1, MultitaskAssumption DEF RingFrom, AllCtxs
    <2>3. ctx'[First].next = IF k + 1 > 2 THEN First ELSE task[k + 1]
      BY <1>2, <1>6, <2>1 DEF RingFrom
    <2>4. \A j \in k + 1 .. 2 : ctx'[task[j]].next = IF j = 2 THEN First ELSE task[j + 1]
      BY <1>2, <1>6, <2>1, <2>2 DEF RingFrom
    <2>5. \A j, l \in k + 1 .. 2 : j # l => task[j] # task[l]
      BY <1>2, <2>1 DEF RingFrom
    <2>6. Live' = {First} \union {task[j] : j \in k + 1 .. 2}
      <3>1. Live = {First} \union {task[j] : j \in k..2} /\ \A j \in k + 1 .. 2 : task[j] # task[k]
        BY <1>2, <2>1 DEF RingFrom
      <3> QED BY <1>3, <1>7, <2>1, <3>1
    <2> QED
      BY <1>1, <2>2, <2>3, <2>4, <2>5, <2>6 DEF RingFrom
  <1>9. mt_current_task' = First
    BY <1>1, <1>2 DEF EndTask
  <1>10. RingFrom(n)'
    BY <1>1, <1>8 DEF RingFrom
  <1> QED
    BY <1>1, <1>2, <1>4, <1>9, <1>10 DEF TestInv

LEMMA TestUnchanged ==
  ASSUME TestInv, UNCHANGED <<held, mem, mt_current_task, cpu, task, n, i, pc>>, MT_TEST_ITERS' \in Nat,
         pc = "create" \/ MT_TEST_ITERS' = MT_TEST_ITERS
  PROVE  TestInv'
  <1>1. Inv' /\ \A k \in Nat : RingFrom(k)' = RingFrom(k)
    BY DEF mem, TestInv, Inv, TypeOK, LinksInverse, BlocksOwned, Live, Freed, RingFrom
  <1> QED
    BY <1>1 DEF TestInv, Turns, RingFrom, Live, mem

LEMMA TestKeeps == ASSUME TestInv, TestNext PROVE TestInv'
  BY CreateKeeps, TakeTurnKeeps, LeaveLoopKeeps, EndKeeps DEF TestNext

(* What the invariant says: no task returns, the four take turns, and in   *)
(* the end all is as it was.                                               *)
LEMMA TestSafe == ASSUME TestInv PROVE NoTaskReturns /\ InTurns /\ (pc = "done" => AllTidy)
  <1>1. NoTaskReturns
    BY DEF NoTaskReturns, TestInv, Inv, TypeOK
  <1>2. InTurns
    <2> SUFFICES ASSUME pc \in {"loop", "end"}
                 PROVE  LET turns(k) == IF k < 0 THEN i[First] ELSE i[task[k]] IN
                        /\ \A k \in 0..2 : turns(k) <= turns(k - 1)
                        /\ i[First] <= turns(2) + 1
      BY DEF InTurns
    <2>1. i[First] \in Nat /\ \A k \in 0..2 : i[task[k]] \in Nat
      BY DEF TestInv, AllCtxs
    <2>2. \/ \A k \in 0..2 : i[task[k]] = i[First]
          \/ \E m \in 0..2 : \A k \in 0..2 : i[task[k]] = IF k < m THEN i[First] ELSE i[First] - 1
      BY DEF TestInv, Turns
    <2>3. CASE \A k \in 0..2 : i[task[k]] = i[First]
      BY <2>1, <2>3
    <2>4. ASSUME NEW m \in 0..2, \A k \in 0..2 : i[task[k]] = IF k < m THEN i[First] ELSE i[First] - 1
          PROVE  /\ i[task[0]] <= i[First] /\ i[task[1]] <= i[task[0]] /\ i[task[2]] <= i[task[1]]
                 /\ i[First] <= i[task[2]] + 1
      BY <2>1, <2>4
    <2>5. CASE \E m \in 0..2 : \A k \in 0..2 : i[task[k]] = IF k < m THEN i[First] ELSE i[First] - 1
      BY <2>4, <2>5
    <2> QED BY <2>2, <2>3, <2>5
  <1>3. ASSUME pc = "done" PROVE AllTidy
    <2>1. n = 3 /\ RingFrom(3) /\ i[First] = MT_TEST_ITERS + 1 /\ \A k \in 0..2 : i[task[k]] = MT_TEST_ITERS + 1
      BY <1>3 DEF TestInv
    <2>2. Live = {First} /\ ctx[First].next = First
      BY <2>1 DEF RingFrom
    <2>3. held = {}
      BY <2>2 DEF TestInv, Inv, BlocksOwned
    <2>4. ctx[First].prev = First
      BY <2>2, Owned DEF TestInv
    <2>5. \A c \in Range(task) : i[c] = MT_TEST_ITERS + 1
      BY <2>1 DEF Range, TestInv
    <2> QED BY <1>3, <2>1, <2>2, <2>3, <2>4, <2>5 DEF AllTidy
  <1> QED BY <1>1, <1>2, <1>3
=============================================================================
