--------------------------- MODULE ProcessorProof ----------------------------
(***************************************************************************)
(* The invariants of Processor for every value of the constants: any set   *)
(* of opcodes, any limits, any accounts and any requests of the host.      *)
(*                                                                         *)
(* No invariant is inductive alone: the handlers reach the parent through  *)
(* ctxts[depth - 1], which exists because of CallChain; the payments read  *)
(* the account of the current context, which exists because of             *)
(* LiveReferences; a handler's push succeeds because of HandlerRoom.  The  *)
(* induction is on their conjunction.                                      *)
(*                                                                         *)
(* The argument has two layers.  An iteration of the loop ends in one of   *)
(* the ways Proceed, Leave, Resume, EndRun and Enter describe, and one     *)
(* lemma for each says that it keeps the invariant, provided that the step *)
(* leaves the rest of the state in order (Rest).  Each handler then only   *)
(* has to be classified.                                                   *)
(***************************************************************************)
EXTENDS Processor, GlobalStateProof

IInv ==
    /\ TypeOK
    /\ CallChain
    /\ LiveReferences
    /\ ReturnRegionReserved
    /\ FreshOnlyAtStart
    /\ OutcomeReported
    /\ HandlerRoom
    /\ NoVmEscape

(* What a handler does besides contexts and the result: accounts are only     *)
(* added.                                                                     *)
Rest ==
    /\ IsAccounts(accounts')
    /\ DOMAIN accounts \subseteq DOMAIN accounts'
    /\ selfdestruct_list' \in SUBSET Addr
    /\ logs' \in 0 .. MaxLogs
    /\ runs' = runs

(* c is the current context after some instruction of its own. *)
Evolves(c) ==
    /\ c \in Context
    /\ c.acc = top.acc /\ c.caller = top.caller /\ c.call_value = top.call_value
    /\ c.kind = top.kind /\ c.ret = top.ret /\ c.code = top.code
    /\ top.mem <= c.mem /\ c.mem <= MaxMem
    /\ "DUP" \notin Ops => c.s <= MaxStack

Running == phase = "run" /\ depth > 0

(* What every step of the loop and of the host is shown to do: it keeps the   *)
(* invariant, and it is a step of the specification CallStack.                *)
Kept == IInv' /\ CS!Next

-----------------------------------------------------------------------------
(* Operators on one context. *)

(* step() keeps a context a context, clears pc_changed, and leaves stack,   *)
(* memory and identity alone.                                               *)
LEMMA StepContext ==
    ASSUME NEW c \in Context
    PROVE  /\ step(c) \in Context
           /\ ~ step(c).pc_changed
           /\ step(c).acc = c.acc /\ step(c).caller = c.caller
           /\ step(c).call_value = c.call_value /\ step(c).kind = c.kind
           /\ step(c).ret = c.ret /\ step(c).code = c.code
           /\ step(c).mem = c.mem /\ step(c).s = c.s
  <1>1. CASE c.pc_changed
    <2>1. step(c) = [c EXCEPT !.pc_changed = FALSE]
      BY <1>1 DEF step
    <2> QED
      BY <2>1 DEF Context
  <1>2. CASE ~ c.pc_changed
    <2>1. step(c) = [c EXCEPT !.pc = @ + 1]
      BY <1>2 DEF step
    <2>2. step(c) \in Context
      BY <2>1 DEF Context
    <2>3. step(c).pc_changed = c.pc_changed
      BY <2>1 DEF Context
    <2> QED
      BY <1>2, <2>1, <2>2, <2>3 DEF Context
  <1> QED
    BY <1>1, <1>2

(* push adds one word and changes nothing else. *)
LEMMA PushContext ==
    ASSUME NEW c \in Context
    PROVE  /\ push(c) \in Context
           /\ push(c).acc = c.acc /\ push(c).caller = c.caller
           /\ push(c).call_value = c.call_value /\ push(c).kind = c.kind
           /\ push(c).ret = c.ret /\ push(c).code = c.code
           /\ push(c).mem = c.mem /\ push(c).s = c.s + 1
           /\ push(c).pc_changed = c.pc_changed /\ push(c).pc = c.pc
  BY DEF push, Context

(* pop of n words that exist removes n words and changes nothing else. *)
LEMMA PopContext ==
    ASSUME NEW c \in Context, NEW n \in Nat, n <= c.s
    PROVE  /\ pop(c, n) \in Context
           /\ pop(c, n).acc = c.acc /\ pop(c, n).caller = c.caller
           /\ pop(c, n).call_value = c.call_value /\ pop(c, n).kind = c.kind
           /\ pop(c, n).ret = c.ret /\ pop(c, n).code = c.code
           /\ pop(c, n).mem = c.mem /\ pop(c, n).s = c.s - n
  BY DEF pop, Context

(* Memory never shrinks, and stays below the limit when the region does. *)
LEMMA GrowContext ==
    ASSUME NEW c \in Context, NEW end \in Nat
    PROVE  /\ grow(c, end) \in Context
           /\ grow(c, end).acc = c.acc /\ grow(c, end).caller = c.caller
           /\ grow(c, end).call_value = c.call_value /\ grow(c, end).kind = c.kind
           /\ grow(c, end).ret = c.ret /\ grow(c, end).code = c.code
           /\ grow(c, end).mem = Larger(c.mem, end) /\ grow(c, end).s = c.s
  BY DEF grow, Context, Larger

(* set_pc changes the pc and its flag and nothing else. *)
LEMMA SetPcContext ==
    ASSUME NEW c \in Context, NEW pc \in Nat
    PROVE  /\ set_pc(c, pc) \in Context
           /\ set_pc(c, pc).acc = c.acc /\ set_pc(c, pc).caller = c.caller
           /\ set_pc(c, pc).call_value = c.call_value /\ set_pc(c, pc).kind = c.kind
           /\ set_pc(c, pc).ret = c.ret /\ set_pc(c, pc).code = c.code
           /\ set_pc(c, pc).mem = c.mem /\ set_pc(c, pc).s = c.s
  BY DEF set_pc, Context

-----------------------------------------------------------------------------
(* The ways an iteration ends. *)

(* A handler of the outermost context that reports r preserves the invariant. *)
LEMMA LeaveKeeps ==
    ASSUME IInv, Running, Rest, NEW r \in ExecResult, r.by # "none", Leave(r),
           depth \in {1, 2}
    PROVE  Kept
  <1> USE DEF IInv, Running, Rest, Leave
  <1>1. TypeOK'
    BY SizesAssumption DEF TypeOK, NoFrames
  <1>2. CallChain' /\ LiveReferences' /\ ReturnRegionReserved' /\ FreshOnlyAtStart'
    BY DEF CallChain, LiveReferences, ReturnRegionReserved, FreshOnlyAtStart
  <1>3. OutcomeReported'
    BY DEF OutcomeReported
  <1>4. HandlerRoom' /\ NoVmEscape'
    BY DEF HandlerRoom, NoVmEscape
  <1>5. CS!Report
    BY DEF CS!Report, CS!IsStack, NoFrames
  <1> QED
    BY <1>1, <1>2, <1>3, <1>4, <1>5 DEF Kept, CS!Next

(* A run that ends without a result preserves the invariant. *)
LEMMA EndRunKeeps ==
    ASSUME IInv, Running, Rest, NEW how \in Phase \ {"run"}, EndRun(how),
           "DUP" \notin Ops => how # "escaped"
    PROVE  Kept
  <1> USE DEF IInv, Running, Rest, EndRun
  <1>1. TypeOK'
    BY SizesAssumption DEF TypeOK, NoFrames
  <1>2. CallChain' /\ LiveReferences' /\ ReturnRegionReserved' /\ FreshOnlyAtStart'
    BY DEF CallChain, LiveReferences, ReturnRegionReserved, FreshOnlyAtStart
  <1>3. OutcomeReported'
    BY DEF OutcomeReported
  <1>4. HandlerRoom' /\ NoVmEscape'
    BY DEF HandlerRoom, NoVmEscape
  <1>5. CS!Drop
    BY DEF CS!Drop, CS!IsStack, NoFrames
  <1> QED
    BY <1>1, <1>2, <1>3, <1>4, <1>5 DEF Kept, CS!Next

(* The current context going on as c, which evolved from it, preserves the  *)
(* invariant.                                                               *)
LEMMA ProceedKeeps ==
    ASSUME IInv, Running, Rest, NEW c, Evolves(c), Proceed(c)
    PROVE  Kept
  <1> USE DEF Running, Rest
  <1>1. /\ depth \in Nat \ {0} /\ depth' = depth /\ depth <= MaxDepth
        /\ phase' = phase /\ result' = result
        /\ ctxts \in [1 .. depth -> Context]
    BY SizesAssumption DEF IInv, TypeOK, Proceed
  <1> DEFINE d == step(c)
  <1>2. /\ d \in Context /\ ~ d.pc_changed
        /\ d.acc = top.acc /\ d.caller = top.caller /\ d.call_value = top.call_value
        /\ d.kind = top.kind /\ d.ret = top.ret /\ d.mem <= MaxMem
        /\ top.mem <= d.mem
        /\ "DUP" \notin Ops => d.s <= MaxStack
    BY StepContext DEF Evolves
  <1>3. ctxts' = [i \in 1 .. depth |-> IF i = depth THEN d ELSE ctxts[i]]
    BY DEF Proceed, Frames
  <1> HIDE DEF d
  <1>4. /\ ctxts' \in [1 .. depth -> Context]
        /\ ctxts'[depth] = d
        /\ \A i \in 1 .. (depth - 1) : ctxts'[i] = ctxts[i]
    BY <1>1, <1>2, <1>3
  <1>5. TypeOK'
    BY <1>1, <1>4 DEF IInv, TypeOK
  <1>6. CallChain'
    <2>1. \A i \in 1 .. depth :
             /\ ctxts'[i].kind = ctxts[i].kind /\ ctxts'[i].caller = ctxts[i].caller
             /\ ctxts'[i].acc = ctxts[i].acc /\ ctxts'[i].call_value = ctxts[i].call_value
      BY <1>1, <1>2, <1>4 DEF top
    <2>2. \A i \in 2 .. depth : i \in 1 .. depth /\ i - 1 \in 1 .. depth
      BY <1>1
    <2>3. \A i \in 2 .. depth : EnteredFrom(ctxts'[i], ctxts'[i - 1])
      BY <2>1, <2>2 DEF IInv, CallChain, EnteredFrom
    <2>4. ctxts'[1].kind = "run"
      BY <1>1, <2>1 DEF IInv, CallChain
    <2> QED
      BY <1>1, <2>3, <2>4 DEF CallChain
  <1>7. LiveReferences'
    BY <1>1, <1>2, <1>4 DEF IInv, LiveReferences, top
  <1>8. ReturnRegionReserved'
    <2>1. \A i \in 1 .. depth :
             /\ ctxts'[i].mem <= MaxMem
             /\ ctxts'[i].ret = ctxts[i].ret
      BY <1>1, <1>2, <1>4 DEF IInv, ReturnRegionReserved, top
    <2>2. \A i \in 2 .. depth : ctxts'[i - 1].mem = ctxts[i - 1].mem
      BY <1>1, <1>4
    <2> QED
      BY <1>1, <2>1, <2>2 DEF IInv, ReturnRegionReserved
  <1>9. FreshOnlyAtStart'
    BY <1>1, <1>2, <1>4 DEF IInv, FreshOnlyAtStart
  <1>10. OutcomeReported' /\ NoVmEscape'
    BY <1>1 DEF IInv, OutcomeReported, NoVmEscape
  <1>11. HandlerRoom'
    BY <1>1, <1>2, <1>4 DEF IInv, HandlerRoom
  <1>12. CS!Work
    <2>1. /\ d.code = top.code
          /\ CS!Identity(ctxts'[depth]) = CS!Identity(ctxts[depth])
      BY <1>2, <1>4, StepContext DEF Evolves, CS!Identity, top, d
    <2>2. ctxts'[depth].mem >= ctxts[depth].mem
      BY <1>1, <1>2, <1>4 DEF top, Context
    <2>3. DOMAIN ctxts' = 1 .. depth
      BY <1>4
    <2> QED
      BY <1>1, <1>4, <2>1, <2>2, <2>3 DEF CS!Work, CS!IsStack, CS!Frozen
  <1> QED
    BY <1>5, <1>6, <1>7, <1>8, <1>9, <1>10, <1>11, <1>12 DEF IInv, Kept, CS!Next

(* Context n - 1 is resumed with one word more. *)
LEMMA ResumeKeeps ==
    ASSUME IInv, Running, Rest, NEW n \in 2 .. depth, n >= depth - 1,
           NEW c \in Context, c = push(ctxts[n - 1]), Resume(n, c)
    PROVE  Kept
  <1> USE DEF Running, Rest
  <1>1. /\ depth \in Nat \ {0} /\ depth' = n - 1 /\ depth <= MaxDepth
        /\ phase' = phase /\ result' = result
        /\ ctxts \in [1 .. depth -> Context]
    BY SizesAssumption DEF IInv, TypeOK, Resume
  <1> DEFINE k == n - 1
  <1>k. k \in 1 .. (depth - 1) /\ depth' = k
    BY <1>1
  <1>c. /\ c.acc = ctxts[k].acc /\ c.caller = ctxts[k].caller
        /\ c.call_value = ctxts[k].call_value /\ c.kind = ctxts[k].kind
        /\ c.ret = ctxts[k].ret /\ c.mem <= MaxMem /\ c.s = ctxts[k].s + 1
        /\ ~ c.pc_changed
    <2>1. ctxts[k] \in Context /\ ctxts[k].mem <= MaxMem /\ ~ ctxts[k].pc_changed
      BY <1>1, <1>k DEF IInv, ReturnRegionReserved, FreshOnlyAtStart
    <2> QED
      BY <2>1, PushContext
  <1> DEFINE d == step(c)
  <1>2. /\ d \in Context /\ ~ d.pc_changed
        /\ d.acc = ctxts[k].acc /\ d.caller = ctxts[k].caller
        /\ d.call_value = ctxts[k].call_value
        /\ d.kind = ctxts[k].kind /\ d.ret = ctxts[k].ret /\ d.mem <= MaxMem
        /\ d.s = ctxts[k].s + 1
    BY <1>c, StepContext
  <1>3. ctxts' = [i \in 1 .. k |-> IF i = k THEN d ELSE ctxts[i]]
    BY DEF Resume, Frames
  <1> HIDE DEF d, k
  <1>4. /\ ctxts' \in [1 .. k -> Context]
        /\ ctxts'[k] = d
        /\ \A i \in 1 .. (k - 1) : ctxts'[i] = ctxts[i]
    BY <1>1, <1>k, <1>2, <1>3
  <1>5. TypeOK'
    <2>1. depth' \in 0 .. MaxDepth
      BY <1>1, <1>k, SizesAssumption
    <2> QED
      BY <1>1, <1>k, <1>4, <2>1 DEF IInv, TypeOK
  <1>6. CallChain'
    <2>1. \A i \in 1 .. k :
             /\ ctxts'[i].kind = ctxts[i].kind /\ ctxts'[i].caller = ctxts[i].caller
             /\ ctxts'[i].acc = ctxts[i].acc /\ ctxts'[i].call_value = ctxts[i].call_value
      BY <1>k, <1>2, <1>4
    <2>2. \A i \in 2 .. k : i \in 1 .. k /\ i - 1 \in 1 .. k /\ i \in 2 .. depth
      BY <1>1, <1>k
    <2>3. \A i \in 2 .. k : EnteredFrom(ctxts'[i], ctxts'[i - 1])
      BY <2>1, <2>2 DEF IInv, CallChain, EnteredFrom
    <2>4. ctxts'[1].kind = "run"
      <3>1. 1 \in 1 .. k
        BY <1>1, <1>k
      <3>2. ctxts[1].kind = "run"
        BY <1>1 DEF IInv, CallChain
      <3> QED
        BY <2>1, <3>1, <3>2
    <2> QED
      BY <1>k, <2>3, <2>4 DEF CallChain
  <1>7. LiveReferences'
    BY <1>1, <1>k, <1>2, <1>4 DEF IInv, LiveReferences
  <1>8. ReturnRegionReserved'
    <2>0. \A i \in 1 .. (k - 1) : i \in 1 .. depth /\ ctxts[i].mem <= MaxMem
      BY <1>1, <1>k DEF IInv, ReturnRegionReserved
    <2>1. \A i \in 1 .. k : ctxts'[i].mem <= MaxMem /\ ctxts'[i].ret = ctxts[i].ret
      <3>1. \A i \in 1 .. k : i = k \/ i \in 1 .. (k - 1)
        BY <1>k
      <3> QED
        BY <1>2, <1>4, <2>0, <3>1
    <2>2. \A i \in 2 .. k : ctxts'[i - 1].mem = ctxts[i - 1].mem
      BY <1>1, <1>k, <1>4
    <2>3. \A i \in 2 .. k : i \in 2 .. depth
      BY <1>1, <1>k
    <2> QED
      BY <1>k, <2>1, <2>2, <2>3 DEF IInv, ReturnRegionReserved
  <1>9. FreshOnlyAtStart'
    <2>1. \A i \in 1 .. k : ~ ctxts[i].pc_changed
      BY <1>1, <1>k DEF IInv, FreshOnlyAtStart
    <2> QED
      BY <1>k, <1>2, <1>4, <2>1 DEF FreshOnlyAtStart
  <1>10. OutcomeReported' /\ NoVmEscape'
    BY <1>1, <1>k DEF IInv, OutcomeReported, NoVmEscape
  <1>11. HandlerRoom'
    <2> SUFFICES ASSUME "DUP" \notin Ops
                 PROVE  /\ \A i \in 1 .. k : ctxts'[i].s <= MaxStack
                        /\ \A i \in 1 .. (k - 1) : ctxts'[i].s + 3 <= MaxStack
      BY <1>k DEF HandlerRoom
    <2>0. \A i \in 1 .. k : i \in 1 .. (depth - 1) /\ ctxts[i] \in Context
      BY <1>1, <1>k
    <2>1. \A i \in 1 .. k : ctxts[i].s \in Nat /\ ctxts[i].s + 3 <= MaxStack
      <3>1. \A i \in 1 .. (depth - 1) : ctxts[i].s + 3 <= MaxStack
        BY DEF IInv, HandlerRoom
      <3>2. \A x \in Context : x.s \in Nat
        BY DEF Context
      <3> QED
        BY <2>0, <3>1, <3>2
    <2>2. d.s <= MaxStack
      BY <1>k, <1>2, <2>1, SizesAssumption
    <2>3. \A i \in 1 .. (k - 1) : ctxts'[i].s <= MaxStack /\ ctxts'[i].s + 3 <= MaxStack
      <3>1. \A i \in 1 .. (k - 1) : i \in 1 .. k /\ ctxts'[i] = ctxts[i]
        BY <1>k, <1>4
      <3>2. \A i \in 1 .. k : ctxts[i].s <= MaxStack
        BY <2>1, SizesAssumption
      <3> QED
        BY <2>1, <3>1, <3>2
    <2>4. ASSUME NEW i \in 1 .. k PROVE ctxts'[i].s <= MaxStack
      <3>1. i = k \/ i \in 1 .. (k - 1)
        BY <1>k, <1>1
      <3> QED
        BY <1>4, <2>2, <2>3, <3>1
    <2> QED
      BY <2>3, <2>4
  <1>12. CS!Answer
    <2>1. d = [ctxts[k] EXCEPT !.s = @ + 1, !.pc = @ + 1]
      <3>1. ctxts[k] \in Context
        BY <1>1, <1>k
      <3>2. c = [ctxts[k] EXCEPT !.s = @ + 1]
        BY DEF push, k
      <3>3. d = [c EXCEPT !.pc = @ + 1]
        BY <1>c DEF step, d
      <3> QED
        BY <3>1, <3>2, <3>3 DEF Context
    <2>2. k \in {depth - 1, depth - 2} /\ k > 0
      BY <1>1, <1>k DEF k
    <2>3. DOMAIN ctxts' = 1 .. k
      BY <1>4
    <2> QED
      BY <1>1, <1>k, <1>4, <2>1, <2>2, <2>3 DEF CS!Answer, CS!IsStack, CS!Frozen
  <1> QED
    BY <1>5, <1>6, <1>7, <1>8, <1>9, <1>10, <1>11, <1>12 DEF IInv, Kept, CS!Next

(* The parent of a nested context exists and is no outermost-only case. *)
LEMMA NestedParent ==
    ASSUME IInv, NEW n \in 1 .. depth, ctxts[n].kind # "run"
    PROVE  n \in 2 .. depth /\ n - 1 \in 1 .. depth /\ ctxts[n - 1] \in Context
  <1>1. depth \in Nat /\ ctxts \in [1 .. depth -> Context]
    BY DEF IInv, TypeOK
  <1>2. n # 1
    BY <1>1 DEF IInv, CallChain
  <1> QED
    BY <1>1, <1>2

(* The context that belongs to run is the outermost one. *)
LEMMA RunIsOutermost ==
    ASSUME IInv, NEW n \in 1 .. depth, ctxts[n].kind = "run"
    PROVE  n = 1
  <1>1. depth \in Nat
    BY DEF IInv, TypeOK
  <1>2. n \in 2 .. depth => FALSE
    BY DEF IInv, CallChain, EnteredFrom
  <1> QED
    BY <1>1, <1>2

(* A handler pushes one word on the parent's stack. *)
LEMMA ResumePushKeeps ==
    ASSUME IInv, Running, Rest, NEW n \in 1 .. depth, ctxts[n].kind # "run",
           n >= depth - 1, Resume(n, push(ctxts[n - 1]))
    PROVE  Kept
  <1>1. n \in 2 .. depth /\ n - 1 \in 1 .. depth /\ ctxts[n - 1] \in Context
    BY NestedParent
  <1>2. push(ctxts[n - 1]) \in Context
    BY <1>1, PushContext
  <1> QED
    BY <1>1, <1>2, ResumeKeeps

(* The catch clause of the loop preserves the invariant. *)
LEMMA CatchKeeps ==
    ASSUME IInv, Running, Rest, NEW n \in 1 .. depth, NEW ex \in ExceptionType,
           n >= depth - 1, catch(n, ex)
    PROVE  Kept
  <1>1. CASE ctxts[n].kind = "run" /\ Leave([er |-> "threw", ex |-> ex, by |-> "eh"])
    <2>1. [er |-> "threw", ex |-> ex, by |-> "eh"] \in ExecResult
      BY DEF ExecResult
    <2>2. depth \in {1, 2}
      BY <1>1, RunIsOutermost DEF IInv, TypeOK
    <2> QED
      BY <1>1, <2>1, <2>2, LeaveKeeps
  <1>2. CASE ctxts[n].kind # "run" /\ Resume(n, push(ctxts[n - 1]))
    BY <1>2, ResumePushKeeps
  <1>3. CASE ctxts[n].kind # "run" /\ ~ CanPush(ctxts[n - 1]) /\ EndRun("escaped")
    <2>1. n \in 2 .. depth /\ n - 1 \in 1 .. (depth - 1) /\ ctxts[n - 1] \in Context
      BY <1>3, NestedParent DEF IInv, TypeOK
    <2>2. "DUP" \in Ops
      BY <1>3, <2>1, SizesAssumption DEF CanPush, IInv, HandlerRoom, Context
    <2> QED
      BY <1>3, <2>2, EndRunKeeps DEF Phase
  <1> QED
    BY <1>1, <1>2, <1>3 DEF catch

(* An exception of the current context preserves the invariant. *)
LEMMA ThrowKeeps ==
    ASSUME IInv, Running, Rest, NEW ex \in ExceptionType, throw(ex)
    PROVE  Kept
  <1>1. depth \in 1 .. depth /\ depth >= depth - 1
    BY DEF IInv, TypeOK, Running
  <1> QED
    BY <1>1, CatchKeeps DEF throw

(* stop() preserves the invariant, whichever context halts. *)
LEMMA StopKeeps ==
    ASSUME IInv, Running, Rest, stop
    PROVE  Kept
  <1>0. depth \in 1 .. depth /\ depth >= depth - 1
    BY DEF IInv, TypeOK, Running
  <1>1. CASE top.kind = "run" /\ Leave([er |-> "halted", ex |-> "none", by |-> "hh"])
    <2>1. [er |-> "halted", ex |-> "none", by |-> "hh"] \in ExecResult
      BY DEF ExecResult
    <2>2. depth \in {1, 2}
      BY <1>0, <1>1, RunIsOutermost DEF top
    <2> QED
      BY <1>1, <2>1, <2>2, LeaveKeeps
  <1>2. CASE top.kind # "run" /\ Resume(depth, push(ctxts[depth - 1]))
    BY <1>0, <1>2, ResumePushKeeps DEF top
  <1>3. CASE top.kind # "run" /\ catch(depth - 1, "outOfBounds")
    <2>1. depth - 1 \in 1 .. depth /\ depth - 1 >= depth - 1
      BY <1>0, <1>3, NestedParent DEF top
    <2> QED
      BY <1>3, <2>1, CatchKeeps DEF ExceptionType
  <1> QED
    BY <1>1, <1>2, <1>3 DEF stop

(* The handler pushes a result: below the limit when the height is. *)
LEMMA YieldKeeps ==
    ASSUME IInv, Running, Rest, NEW c, Evolves(c), Yield(c)
    PROVE  Kept
  <1>1. CASE CanPush(c) /\ Proceed(push(c))
    <2>1. Evolves(push(c))
      <3>1. c \in Context /\ c.s \in Nat
        BY DEF Evolves, Context
      <3>2. "DUP" \notin Ops => c.s + 1 <= MaxStack
        BY <1>1, <3>1, SizesAssumption DEF Evolves, CanPush
      <3> QED
        BY <3>1, <3>2, PushContext DEF Evolves
    <2> QED
      BY <1>1, <2>1, ProceedKeeps
  <1>2. CASE throw("outOfBounds")
    BY <1>2, ThrowKeeps DEF ExceptionType
  <1> QED
    BY <1>1, <1>2 DEF Yield

(* push_context inside a handler preserves the invariant: parent keeps room *)
(* for the word its handlers push, child is what EnteredFrom says.          *)
LEMMA EnterKeeps ==
    ASSUME IInv, Running, Rest, NEW p, Evolves(p), ~ p.pc_changed,
           "DUP" \notin Ops => p.s + 3 <= MaxStack,
           NEW e \in Context, EnteredFrom(e, p), e.acc \in DOMAIN accounts',
           e.ret <= p.mem, e.mem = 0, e.s = 0, e.pc = 0, e.pc_changed,
           p.pc = top.pc, p.s + 3 <= top.s, Enter(p, e)
    PROVE  Kept
  <1> USE DEF Running, Rest
  <1>1. /\ depth \in Nat \ {0} /\ depth' = depth + 1 /\ depth < MaxDepth
        /\ phase' = phase /\ result' = result
        /\ ctxts \in [1 .. depth -> Context]
    BY SizesAssumption DEF IInv, TypeOK, Enter
  <1> DEFINE d == step(e)
  <1>2. /\ d \in Context /\ ~ d.pc_changed /\ d.acc = e.acc /\ d.caller = e.caller
        /\ d.call_value = e.call_value /\ d.kind = e.kind /\ d.ret = e.ret
        /\ d.mem = 0 /\ d.s = 0 /\ d.pc = 0
    <2>1. d.pc = 0
      BY DEF step, Context
    <2> QED
      BY <2>1, StepContext
  <1>3. ctxts' = [i \in 1 .. (depth + 1) |->
                     IF i = depth + 1 THEN d ELSE IF i = depth THEN p ELSE ctxts[i]]
    BY DEF Enter
  <1> HIDE DEF d
  <1>4. /\ ctxts' \in [1 .. (depth + 1) -> Context]
        /\ ctxts'[depth + 1] = d
        /\ ctxts'[depth] = p
        /\ \A i \in 1 .. (depth - 1) : ctxts'[i] = ctxts[i]
    BY <1>1, <1>2, <1>3 DEF Evolves
  <1>5. \A i \in 1 .. (depth + 1) : i = depth + 1 \/ i = depth \/ i \in 1 .. (depth - 1)
    BY <1>1
  <1>6. TypeOK'
    <2>1. depth' \in 0 .. MaxDepth
      BY <1>1, SizesAssumption
    <2> QED
      BY <1>1, <1>4, <2>1 DEF IInv, TypeOK
  <1>7. CallChain'
    <2>1. \A i \in 1 .. depth :
             /\ ctxts'[i].kind = ctxts[i].kind /\ ctxts'[i].caller = ctxts[i].caller
             /\ ctxts'[i].acc = ctxts[i].acc /\ ctxts'[i].call_value = ctxts[i].call_value
      BY <1>1, <1>4 DEF Evolves, top
    <2>2. \A i \in 2 .. depth : i \in 1 .. depth /\ i - 1 \in 1 .. depth
      BY <1>1
    <2>3. \A i \in 2 .. depth : EnteredFrom(ctxts'[i], ctxts'[i - 1])
      BY <2>1, <2>2 DEF IInv, CallChain, EnteredFrom
    <2>4. EnteredFrom(ctxts'[depth + 1], ctxts'[depth])
      BY <1>2, <1>4 DEF EnteredFrom
    <2>5. ctxts'[1].kind = "run"
      BY <1>1, <2>1 DEF IInv, CallChain
    <2>6. ASSUME NEW i \in 2 .. (depth + 1)
          PROVE  EnteredFrom(ctxts'[i], ctxts'[i - 1])
      <3>1. i \in 2 .. depth \/ (i = depth + 1 /\ i - 1 = depth)
        BY <1>1
      <3> QED
        BY <2>3, <2>4, <3>1
    <2> QED
      BY <1>1, <2>5, <2>6 DEF CallChain
  <1>8. LiveReferences'
    <2>1. \A i \in 1 .. depth : ctxts[i].acc \in DOMAIN accounts'
      BY DEF IInv, LiveReferences, Rest
    <2>2. \A i \in 1 .. (depth - 1) : ctxts'[i].acc \in DOMAIN accounts'
      BY <1>1, <1>4, <2>1
    <2>3. p.acc \in DOMAIN accounts'
      BY <1>1, <2>1 DEF Evolves, top
    <2>4. \A i \in 1 .. (depth + 1) : ctxts'[i].acc \in DOMAIN accounts'
      BY <1>2, <1>4, <1>5, <2>2, <2>3
    <2> QED
      BY <1>1, <2>4 DEF LiveReferences
  <1>9. ReturnRegionReserved'
    <2>0. \A i \in 1 .. (depth - 1) : ctxts'[i].mem <= MaxMem
      BY <1>1, <1>4 DEF IInv, ReturnRegionReserved
    <2>1. \A i \in 1 .. (depth + 1) : ctxts'[i].mem <= MaxMem
      BY <1>1, <1>2, <1>4, <1>5, <2>0, SizesAssumption DEF Evolves
    <2>2. \A i \in 2 .. depth : ctxts'[i].ret = ctxts[i].ret
      BY <1>1, <1>4 DEF Evolves, top
    <2>3. \A i \in 2 .. depth : ctxts'[i - 1].mem = ctxts[i - 1].mem
      BY <1>1, <1>4
    <2>4. \A i \in 2 .. depth : ctxts'[i].ret <= ctxts'[i - 1].mem
      BY <2>2, <2>3 DEF IInv, ReturnRegionReserved
    <2>5. ctxts'[depth + 1].ret <= ctxts'[depth].mem
      BY <1>2, <1>4
    <2>6. ASSUME NEW i \in 2 .. (depth + 1)
          PROVE  ctxts'[i].ret <= ctxts'[i - 1].mem
      <3>1. i \in 2 .. depth \/ (i = depth + 1 /\ i - 1 = depth)
        BY <1>1
      <3> QED
        BY <2>4, <2>5, <3>1
    <2> QED
      BY <1>1, <2>1, <2>6 DEF ReturnRegionReserved
  <1>10. FreshOnlyAtStart'
    <2>1. \A i \in 1 .. (depth - 1) : ~ ctxts[i].pc_changed
      BY <1>1 DEF IInv, FreshOnlyAtStart
    <2> QED
      BY <1>1, <1>2, <1>4, <1>5, <2>1 DEF FreshOnlyAtStart
  <1>11. OutcomeReported' /\ NoVmEscape'
    BY <1>1 DEF IInv, OutcomeReported, NoVmEscape
  <1>12. HandlerRoom'
    <2> SUFFICES ASSUME "DUP" \notin Ops
                 PROVE  /\ \A i \in 1 .. (depth + 1) : ctxts'[i].s <= MaxStack
                        /\ \A i \in 1 .. depth : ctxts'[i].s + 3 <= MaxStack
      BY <1>1 DEF HandlerRoom
    <2>1. \A i \in 1 .. (depth - 1) : ctxts'[i].s <= MaxStack /\ ctxts'[i].s + 3 <= MaxStack
      BY <1>1, <1>4 DEF IInv, HandlerRoom
    <2>2. p.s <= MaxStack /\ p.s + 3 <= MaxStack
      BY DEF Evolves
    <2> QED
      BY <1>1, <1>2, <1>4, <1>5, <2>1, <2>2, SizesAssumption
  <1>13. CS!Enter
    <2>1. CS!Identity(ctxts'[depth]) = CS!Identity(ctxts[depth])
      BY <1>4 DEF Evolves, CS!Identity, top
    <2>2. /\ ctxts'[depth].pc = ctxts[depth].pc
          /\ ctxts'[depth].s + 3 <= ctxts[depth].s
          /\ ctxts'[depth].mem >= ctxts[depth].mem
      BY <1>1, <1>4 DEF Evolves, top, Context
    <2>3. CS!Fresh(ctxts'[depth + 1]) /\ ctxts'[depth + 1].kind # "run"
      BY <1>2, <1>4 DEF CS!Fresh, EnteredFrom
    <2>4. DOMAIN ctxts' = 1 .. (depth + 1)
      BY <1>4
    <2> QED
      BY <1>1, <1>4, <2>1, <2>2, <2>3, <2>4 DEF CS!Enter, CS!IsStack, CS!Frozen
  <1> QED
    BY <1>6, <1>7, <1>8, <1>9, <1>10, <1>11, <1>12, <1>13 DEF IInv, Kept, CS!Next

-----------------------------------------------------------------------------
(* What the handlers make of the current context. *)

(* The current context is a context of an existing account, and evolves into *)
(* itself.                                                                   *)
LEMMA TopEvolves ==
    ASSUME IInv, Running
    PROVE  /\ top \in Context /\ Evolves(top) /\ top.s \in Nat /\ top.code \in Nat
           /\ top.pc \in Nat /\ top.acc \in Addr /\ top.acc \in DOMAIN accounts
           /\ top.caller \in Addr /\ top.call_value \in Word
  <1>1. depth \in 1 .. depth /\ ctxts \in [1 .. depth -> Context]
    BY DEF IInv, TypeOK, Running
  <1>2. top \in Context
    BY <1>1 DEF top
  <1>3. /\ top.s \in Nat /\ top.code \in Nat /\ top.pc \in Nat /\ top.acc \in Addr
        /\ top.mem \in Nat /\ top.caller \in Addr /\ top.call_value \in Word
    BY <1>2 DEF Context
  <1>4. top.mem <= MaxMem
    BY <1>1 DEF IInv, ReturnRegionReserved, top
  <1>5. "DUP" \notin Ops => top.s <= MaxStack
    BY <1>1 DEF IInv, HandlerRoom, top
  <1>6. top.acc \in DOMAIN accounts
    BY <1>1 DEF IInv, LiveReferences, top
  <1> QED
    BY <1>2, <1>3, <1>4, <1>5, <1>6 DEF Evolves

(* Popping words that exist is an evolution of the current context. *)
LEMMA PopEvolves ==
    ASSUME IInv, Running, NEW n \in Nat, n <= top.s
    PROVE  /\ pop(top, n) \in Context /\ Evolves(pop(top, n))
           /\ pop(top, n).s = top.s - n
  <1>1. top \in Context /\ Evolves(top) /\ top.s \in Nat
    BY TopEvolves
  <1>2. "DUP" \notin Ops => top.s - n <= MaxStack
    BY <1>1, SizesAssumption DEF Evolves
  <1> QED
    BY <1>1, <1>2, PopContext DEF Evolves

(* Growing memory below the limit is one. *)
LEMMA GrowEvolves ==
    ASSUME NEW c, Evolves(c), NEW end \in 0 .. MaxMem, top.mem \in Nat
    PROVE  Evolves(grow(c, end))
  <1>1. c \in Context /\ c.mem \in Nat /\ end \in Nat
    BY SizesAssumption DEF Evolves, Context
  <1>2. top.mem <= Larger(c.mem, end) /\ Larger(c.mem, end) <= MaxMem
    BY <1>1, SizesAssumption DEF Larger, Evolves
  <1> QED
    BY <1>1, <1>2, GrowContext DEF Evolves

(* Setting the pc is one. *)
LEMMA SetPcEvolves ==
    ASSUME NEW c, Evolves(c), NEW pc \in Nat
    PROVE  Evolves(set_pc(c, pc))
  BY SetPcContext DEF Evolves

(* A step that leaves accounts, lists and counters alone keeps their types. *)
LEMMA QuietRest ==
    ASSUME IInv, UNCHANGED <<accounts, selfdestruct_list, logs, runs>>
    PROVE  Rest
  BY DEF IInv, TypeOK, Rest

(* So does a step that only changes accounts, to more of them. *)
LEMMA AccountsRest ==
    ASSUME IInv, UNCHANGED <<selfdestruct_list, logs, runs>>,
           IsAccounts(accounts'), DOMAIN accounts \subseteq DOMAIN accounts'
    PROVE  Rest
  BY DEF IInv, TypeOK, Rest

(* What a step of a handler does in the rest of the proof: it is Running. *)
LEMMA DispatchRuns ==
    ASSUME NEW o, dispatch(o)
    PROVE  Running /\ o \in Ops
  BY DEF dispatch, Running

(* The opcodes that compute on the stack preserve the invariant. *)
LEMMA ComputeKeeps ==
    ASSUME IInv, Compute
    PROVE  Kept
  <1>1. PICK o \in Nullary \cup Unary \cup Binary \cup Ternary \cup {"BYTE"} :
           /\ dispatch(o)
           /\ \E n \in Operands(o) :
                 \/ n > top.s /\ throw("outOfBounds")
                 \/ n <= top.s /\ Yield(pop(top, n))
                 \/ o \in {"EXP", "BLOCKHASH"} /\ throw("outOfBounds")
           /\ UNCHANGED <<accounts, selfdestruct_list, logs, runs>>
    BY DEF Compute
  <1>2. Running /\ Rest
    BY <1>1, DispatchRuns, QuietRest
  <1>3. Operands(o) \subseteq Nat
    BY DEF Operands, Nullary, Unary, Binary, Ternary
  <1>4. CASE throw("outOfBounds")
    BY <1>2, <1>4, ThrowKeeps DEF ExceptionType
  <1>5. CASE \E n \in Operands(o) : n <= top.s /\ Yield(pop(top, n))
    BY <1>2, <1>3, <1>5, PopEvolves, YieldKeeps
  <1> QED
    BY <1>1, <1>4, <1>5

(* POP, SWAP, DUP and PUSH preserve the invariant. *)
LEMMA StackOpsKeep ==
    ASSUME IInv, Pop \/ Swap \/ Dup \/ Push
    PROVE  Kept
  <1>1. Running /\ Rest
    BY DispatchRuns, QuietRest DEF Pop, Swap, Dup, Push
  <1>2. top \in Context /\ Evolves(top) /\ top.s \in Nat /\ top.pc \in Nat
    BY <1>1, TopEvolves
  <1>3. CASE throw("outOfBounds")
    BY <1>1, <1>3, ThrowKeeps DEF ExceptionType
  <1>4. CASE top.s > 0 /\ Proceed(pop(top, 1))
    BY <1>1, <1>2, <1>4, PopEvolves, ProceedKeeps
  <1>5. CASE Proceed(top)
    BY <1>1, <1>2, <1>5, ProceedKeeps
  <1>6. CASE "DUP" \in Ops /\ Proceed(push(top))
    <2>1. Evolves(push(top))
      BY <1>2, <1>6, PushContext DEF Evolves
    <2> QED
      BY <1>1, <1>6, <2>1, ProceedKeeps
  <1>7. CASE \E bytes \in 1 .. 32 : Yield(set_pc(top, top.pc + bytes + 1))
    <2>1. PICK bytes \in 1 .. 32 : Yield(set_pc(top, top.pc + bytes + 1))
      BY <1>7
    <2>2. Evolves(set_pc(top, top.pc + bytes + 1))
      BY <1>2, SetPcEvolves
    <2> QED
      BY <1>1, <2>1, <2>2, YieldKeeps
  <1>8. CASE Pop
    BY <1>3, <1>4, <1>8 DEF Pop
  <1>9. CASE Swap
    BY <1>3, <1>5, <1>9 DEF Swap
  <1>10. CASE Dup
    BY <1>3, <1>6, <1>10, DispatchRuns DEF Dup
  <1>11. CASE Push
    BY <1>3, <1>7, <1>11 DEF Push
  <1> QED
    BY <1>8, <1>9, <1>10, <1>11

(* JUMP, JUMPI, JUMPDEST and unknown opcodes preserve the invariant. *)
LEMMA JumpsKeep ==
    ASSUME IInv, Jump \/ Jumpi \/ Jumpdest \/ UnknownOpcode
    PROVE  Kept
  <1>1. Running /\ Rest
    BY DispatchRuns, QuietRest DEF Jump, Jumpi, Jumpdest, UnknownOpcode
  <1>2. Evolves(top) /\ top.s \in Nat /\ top.code \in Nat
    BY <1>1, TopEvolves
  <1>3. CASE \E ex \in ExceptionType : throw(ex)
    BY <1>1, <1>3, ThrowKeeps
  <1>4. CASE Proceed(top)
    BY <1>1, <1>2, <1>4, ProceedKeeps
  <1>5. ASSUME NEW n \in {1, 2}, top.s >= n, Proceed(pop(top, n))
        PROVE  Kept
    BY <1>1, <1>2, <1>5, PopEvolves, ProceedKeeps
  <1>6. ASSUME NEW n \in {1, 2}, top.s >= n, jump_to(pop(top, n))
        PROVE  Kept
    <2>1. CASE throw("illegalInstruction")
      BY <1>3, <2>1 DEF ExceptionType
    <2>2. CASE \E newPc \in 0 .. (top.code - 1) : Proceed(set_pc(pop(top, n), newPc))
      <3>1. PICK newPc \in 0 .. (top.code - 1) : Proceed(set_pc(pop(top, n), newPc))
        BY <2>2
      <3>2. Evolves(pop(top, n)) /\ newPc \in Nat
        BY <1>1, <1>2, <1>6, PopEvolves
      <3> QED
        BY <1>1, <3>1, <3>2, SetPcEvolves, ProceedKeeps
    <2> QED
      BY <1>6, <2>1, <2>2 DEF jump_to
  <1>7. CASE Jump
    BY <1>3, <1>6, <1>7 DEF Jump, ExceptionType
  <1>8. CASE Jumpi
    BY <1>3, <1>5, <1>6, <1>8 DEF Jumpi, ExceptionType
  <1>9. CASE Jumpdest
    BY <1>4, <1>9 DEF Jumpdest
  <1>10. CASE UnknownOpcode
    BY <1>3, <1>10 DEF UnknownOpcode, ExceptionType
  <1> QED
    BY <1>7, <1>8, <1>9, <1>10

(* The opcodes that access memory preserve the invariant. *)
LEMMA MemoryAccessKeeps ==
    ASSUME IInv, MemoryAccess
    PROVE  Kept
  <1>1. PICK o \in DOMAIN MemOperands :
           /\ dispatch(o)
           /\ \/ throw("outOfBounds")
              \/ /\ top.s >= MemOperands[o]
                 /\ \E end \in 0 .. MaxMem :
                       IF o \in {"MLOAD", "SHA3"}
                         THEN Yield(grow(pop(top, MemOperands[o]), end))
                         ELSE Proceed(grow(pop(top, MemOperands[o]), end))
           /\ UNCHANGED <<accounts, selfdestruct_list, logs, runs>>
    BY DEF MemoryAccess
  <1>2. Running /\ Rest
    BY <1>1, DispatchRuns, QuietRest
  <1>3. MemOperands[o] \in Nat
    BY DEF MemOperands
  <1>4. CASE throw("outOfBounds")
    BY <1>2, <1>4, ThrowKeeps DEF ExceptionType
  <1>5. ASSUME top.s >= MemOperands[o], NEW end \in 0 .. MaxMem,
               \/ Yield(grow(pop(top, MemOperands[o]), end))
               \/ Proceed(grow(pop(top, MemOperands[o]), end))
        PROVE  Kept
    <2>1. top.s \in Nat /\ top.mem \in Nat
      BY <1>2, TopEvolves DEF Context
    <2>2. Evolves(pop(top, MemOperands[o]))
      BY <1>2, <1>3, <1>5, <2>1, PopEvolves
    <2>3. Evolves(grow(pop(top, MemOperands[o]), end))
      BY <2>1, <2>2, GrowEvolves
    <2> QED
      BY <1>2, <1>5, <2>3, YieldKeeps, ProceedKeeps
  <1> QED
    BY <1>1, <1>4, <1>5

(* CALLDATALOAD preserves the invariant, also when it escapes from run. *)
LEMMA CalldataloadKeeps ==
    ASSUME IInv, Calldataload
    PROVE  Kept
  <1>1. Running /\ Rest
    BY DispatchRuns, QuietRest DEF Calldataload
  <1>2. CASE throw("outOfBounds")
    BY <1>1, <1>2, ThrowKeeps DEF ExceptionType
  <1>3. CASE EndRun("escapedStd")
    BY <1>1, <1>3, EndRunKeeps DEF Phase
  <1>4. CASE top.s >= 1 /\ Yield(pop(top, 1))
    <2>1. top.s \in Nat
      BY <1>1, TopEvolves
    <2> QED
      BY <1>1, <1>4, <2>1, PopEvolves, YieldKeeps
  <1> QED
    BY <1>2, <1>3, <1>4 DEF Calldataload

(* SSTORE preserves the invariant. *)
LEMMA SstoreKeeps ==
    ASSUME IInv, Sstore
    PROVE  Kept
  <1>1. Running /\ UNCHANGED <<selfdestruct_list, logs, runs>>
    BY DispatchRuns DEF Sstore
  <1>2. IsAccounts(accounts) /\ top.acc \in DOMAIN accounts /\ top.s \in Nat
    BY <1>1, TopEvolves DEF IInv, TypeOK
  <1>3. CASE throw("outOfBounds") /\ UNCHANGED accounts
    BY <1>1, <1>3, QuietRest, ThrowKeeps DEF ExceptionType
  <1>4. CASE /\ top.s >= 2
             /\ \E k \in Key, isZero \in BOOLEAN :
                   accounts' = st_write(accounts, top.acc, k, isZero)
             /\ Proceed(pop(top, 2))
    <2>1. Rest
      BY <1>1, <1>2, <1>4, StorageWriteType, AccountsRest
    <2> QED
      BY <1>1, <1>2, <1>4, <2>1, PopEvolves, ProceedKeeps
  <1> QED
    BY <1>3, <1>4 DEF Sstore

(* GlobalState::get, which may create an account, keeps the accounts typed   *)
(* and loses none.                                                           *)
LEMMA GetRest ==
    ASSUME IInv, UNCHANGED <<selfdestruct_list, logs, runs>>, NEW a \in Addr,
           accounts' = gs_get(accounts, a)
    PROVE  Rest
  <1>1. IsAccounts(accounts)
    BY DEF IInv, TypeOK
  <1> QED
    BY <1>1, GetAccount, AccountsRest

(* BALANCE, EXTCODESIZE and EXTCODECOPY preserve the invariant. *)
LEMMA LookupsKeep ==
    ASSUME IInv, BalanceOrExtcodesize \/ Extcodecopy
    PROVE  Kept
  <1>1. Running /\ UNCHANGED <<selfdestruct_list, logs, runs>>
    BY DispatchRuns DEF BalanceOrExtcodesize, Extcodecopy
  <1>2. top.s \in Nat /\ top.mem \in Nat
    BY <1>1, TopEvolves DEF Context
  <1>3. CASE throw("outOfBounds") /\ UNCHANGED accounts
    BY <1>1, <1>3, QuietRest, ThrowKeeps DEF ExceptionType
  <1>4. ASSUME NEW a \in Addr, accounts' = gs_get(accounts, a), throw("outOfBounds")
        PROVE  Kept
    BY <1>1, <1>4, GetRest, ThrowKeeps DEF ExceptionType
  <1>5. ASSUME NEW a \in Addr, accounts' = gs_get(accounts, a), top.s > 0,
               Yield(pop(top, 1))
        PROVE  Kept
    <2>1. Rest
      BY <1>1, <1>5, GetRest
    <2> QED
      BY <1>1, <1>2, <1>5, <2>1, PopEvolves, YieldKeeps
  <1>6. ASSUME NEW a \in Addr, accounts' = gs_get(accounts, a), top.s >= 4,
               NEW end \in 0 .. MaxMem, Proceed(grow(pop(top, 4), end))
        PROVE  Kept
    <2>1. Rest
      BY <1>1, <1>6, GetRest
    <2>2. Evolves(grow(pop(top, 4), end))
      BY <1>1, <1>2, <1>6, PopEvolves, GrowEvolves
    <2> QED
      BY <1>1, <1>6, <2>1, <2>2, ProceedKeeps
  <1>7. CASE BalanceOrExtcodesize
    BY <1>3, <1>5, <1>7 DEF BalanceOrExtcodesize
  <1>8. CASE Extcodecopy
    BY <1>3, <1>4, <1>6, <1>8 DEF Extcodecopy
  <1> QED
    BY <1>7, <1>8

(* LOG preserves the invariant. *)
LEMMA LogKeeps ==
    ASSUME IInv, Log
    PROVE  Kept
  <1>1. Running /\ UNCHANGED <<accounts, selfdestruct_list, runs>>
    BY DispatchRuns DEF Log
  <1>2. top.s \in Nat /\ top.mem \in Nat
    BY <1>1, TopEvolves DEF Context
  <1>3. CASE throw("outOfBounds") /\ UNCHANGED logs
    BY <1>1, <1>3, QuietRest, ThrowKeeps DEF ExceptionType
  <1>4. ASSUME NEW n \in 0 .. 4, NEW end \in 0 .. MaxMem, top.s >= n + 2,
               logs' = logs + 1, logs < MaxLogs,
               Proceed(grow(pop(top, n + 2), end))
        PROVE  Kept
    <2>1. Rest
      BY <1>1, <1>4, SizesAssumption DEF IInv, TypeOK, Rest
    <2>2. Evolves(grow(pop(top, n + 2), end))
      BY <1>1, <1>2, <1>4, PopEvolves, GrowEvolves
    <2> QED
      BY <1>1, <1>4, <2>1, <2>2, ProceedKeeps
  <1> QED
    BY <1>3, <1>4 DEF Log

-----------------------------------------------------------------------------
(* Leaving and entering contexts. *)

(* The return handler of a call preserves the invariant. *)
LEMMA ReturnToCallKeeps ==
    ASSUME IInv, Running, Rest, ReturnToCall
    PROVE  Kept
  <1>1. depth \in 1 .. depth /\ top \in Context /\ top.ret \in Nat
    <2>1. depth \in 1 .. depth
      BY DEF IInv, TypeOK, Running
    <2>2. top \in Context
      BY TopEvolves
    <2>3. top.ret \in Nat
      BY <2>2 DEF Context
    <2> QED
      BY <2>1, <2>2, <2>3
  <1>2. ctxts[depth].kind # "run"
    BY DEF ReturnToCall, CallKind, top
  <1> DEFINE parent == ctxts[depth - 1]
  <1>3. depth \in 2 .. depth /\ depth - 1 \in 1 .. depth /\ parent \in Context
    BY <1>1, <1>2, NestedParent
  <1>4. CASE top.ret <= MaxMem /\ Resume(depth, push(grow(parent, top.ret)))
    <2>1. top.ret <= parent.mem /\ parent.mem \in Nat
      BY <1>3 DEF IInv, ReturnRegionReserved, Context, top
    <2>2. grow(parent, top.ret) = parent
      BY <1>1, <1>3, <2>1 DEF grow, Larger, Context
    <2>3. push(parent) \in Context
      BY <1>3, PushContext
    <2>4. Resume(depth, push(parent))
      BY <1>4, <2>2
    <2> QED
      BY <1>1, <1>3, <2>3, <2>4, ResumeKeeps
  <1>5. CASE throw("outOfBounds")
    BY <1>5, ThrowKeeps DEF ExceptionType
  <1> QED
    BY <1>4, <1>5 DEF ReturnToCall

(* The return handler of a CREATE preserves the invariant, whichever account *)
(* its dangling reference reaches.                                           *)
LEMMA ReturnToCreateKeeps ==
    ASSUME IInv, Running, UNCHANGED <<selfdestruct_list, logs, runs>>,
           NEW n \in 0 .. MaxMem, ReturnToCreate(n)
    PROVE  Kept
  <1>1. depth \in 1 .. depth /\ IsAccounts(accounts) /\ top.acc \in DOMAIN accounts
    BY TopEvolves DEF IInv, TypeOK, Running
  <1>2. ctxts[depth].kind # "run"
    BY DEF ReturnToCreate, top
  <1>3. CASE \E a \in DOMAIN accounts : accounts' = set_code(accounts, a, n)
    <2>1. n \in Nat
      BY SizesAssumption
    <2>2. Rest
      BY <1>1, <1>3, <2>1, SetCodeType, AccountsRest
    <2>3. CASE Resume(depth, push(ctxts[depth - 1]))
      BY <1>1, <1>2, <2>2, <2>3, ResumePushKeeps
    <2>4. CASE throw("outOfBounds")
      BY <2>2, <2>4, ThrowKeeps DEF ExceptionType
    <2>5. CASE EndRun("crashed")
      BY <2>2, <2>5, EndRunKeeps DEF Phase
    <2> QED
      BY <2>3, <2>4, <2>5 DEF ReturnToCreate
  <1>4. CASE EndRun("crashed") /\ UNCHANGED accounts
    BY <1>4, QuietRest, EndRunKeeps DEF Phase
  <1> QED
    BY <1>3, <1>4 DEF ReturnToCreate

(* RETURN preserves the invariant. *)
LEMMA ReturnKeeps ==
    ASSUME IInv, Return
    PROVE  Kept
  <1>1. Running /\ UNCHANGED <<selfdestruct_list, logs, runs>>
    BY DispatchRuns DEF Return
  <1>2. CASE throw("outOfBounds") /\ UNCHANGED accounts
    BY <1>1, <1>2, QuietRest, ThrowKeeps DEF ExceptionType
  <1>3. CASE ReturnToHost
    <2>1. [er |-> "returned", ex |-> "none", by |-> "rh"] \in ExecResult
      BY DEF ExecResult
    <2>2. Rest
      BY <1>1, <1>3, QuietRest DEF ReturnToHost
    <2>3. depth \in {1, 2}
      <3>1. depth \in 1 .. depth
        BY <1>1 DEF IInv, TypeOK, Running
      <3> QED
        BY <1>3, <3>1, RunIsOutermost DEF ReturnToHost, top
    <2> QED
      BY <1>1, <1>3, <2>1, <2>2, <2>3, LeaveKeeps DEF ReturnToHost
  <1>4. CASE ReturnToCall
    <2>1. Rest
      BY <1>1, <1>4, QuietRest DEF ReturnToCall
    <2> QED
      BY <1>1, <1>4, <2>1, ReturnToCallKeeps
  <1>5. CASE \E n \in 0 .. MaxMem : ReturnToCreate(n)
    BY <1>1, <1>5, ReturnToCreateKeeps
  <1> QED
    BY <1>2, <1>3, <1>4, <1>5 DEF Return

(* STOP preserves the invariant. *)
LEMMA StopOpKeeps ==
    ASSUME IInv, Stop
    PROVE  Kept
  BY DispatchRuns, QuietRest, StopKeeps DEF Stop

(* What pay_to throws is an exception of the program. *)
LEMMA PaymentExceptions ==
    ASSUME NEW m, NEW p, NEW q, NEW v
    PROVE  pay_error(m, p, q, v) \in ExceptionType \cup {"none"}
  BY DEF pay_error, ExceptionType

(* SELFDESTRUCT preserves the invariant: the account stays until run ends. *)
LEMMA SelfdestructKeeps ==
    ASSUME IInv, Selfdestruct
    PROVE  Kept
  <1>1. Running /\ UNCHANGED <<logs, runs>>
    BY DispatchRuns DEF Selfdestruct
  <1>2. /\ IsAccounts(accounts) /\ top.acc \in DOMAIN accounts /\ top.acc \in Addr
        /\ selfdestruct_list \in SUBSET Addr /\ logs \in 0 .. MaxLogs
    BY <1>1, TopEvolves DEF IInv, TypeOK
  <1>3. CASE throw("outOfBounds") /\ UNCHANGED <<accounts, selfdestruct_list>>
    BY <1>1, <1>3, QuietRest, ThrowKeeps DEF ExceptionType
  <1>4. ASSUME NEW r \in Addr, SelfdestructTo(r)
        PROVE  Kept
    <2> DEFINE m == gs_get(accounts, r)
               v == m[top.acc].balance
               ex == pay_error(m, top.acc, r, v)
    <2>1. IsAccounts(m) /\ DOMAIN m = DOMAIN accounts \cup {r}
      BY <1>2, GetAccount
    <2>2. v \in Word
      BY <1>2, <2>1, AccountsForm DEF Account
    <2>3. CASE ex # "none" /\ accounts' = m /\ throw(ex) /\ UNCHANGED selfdestruct_list
      <3>1. ex \in ExceptionType
        BY <2>3, PaymentExceptions
      <3>2. Rest
        BY <1>1, <2>1, <2>3, AccountsRest
      <3> QED
        BY <1>1, <2>3, <3>1, <3>2, ThrowKeeps
    <2>4. CASE /\ ex = "none"
               /\ accounts' = pay_to(m, top.acc, r, v)
               /\ selfdestruct_list' = selfdestruct_list \cup {top.acc}
               /\ stop
      <3>1. IsAccounts(pay_to(m, top.acc, r, v)) /\ DOMAIN pay_to(m, top.acc, r, v) = DOMAIN m
        <4>1. top.acc \in DOMAIN m /\ r \in DOMAIN m
          BY <1>2, <2>1
        <4>2. pay_error(m, top.acc, r, v) = "none"
          BY <2>4
        <4> HIDE DEF m, v, ex
        <4>3. \A p, q \in DOMAIN m, w \in Word :
                 pay_error(m, p, q, w) = "none"
                    => IsAccounts(pay_to(m, p, q, w)) /\ DOMAIN pay_to(m, p, q, w) = DOMAIN m
          BY <2>1, PaymentType
        <4> QED
          BY <2>2, <4>1, <4>2, <4>3
      <3>2. Rest
        BY <1>1, <1>2, <2>1, <2>4, <3>1 DEF Rest
      <3> QED
        BY <1>1, <2>4, <3>2, StopKeeps
    <2> QED
      BY <1>4, <2>3, <2>4 DEF SelfdestructTo
  <1> QED
    BY <1>3, <1>4 DEF Selfdestruct

(* A context that entered another has executed an instruction. *)
LEMMA SuspendedNotFresh ==
    ASSUME IInv, Running, top.s > 0
    PROVE  ~ top.pc_changed
  <1>1. depth \in 1 .. depth
    BY DEF IInv, TypeOK, Running
  <1> QED
    BY <1>1, TopEvolves DEF IInv, FreshOnlyAtStart, top

(* The parent that suspends itself after popping n operands. *)
LEMMA ParentEvolves ==
    ASSUME IInv, Running, NEW n \in Nat, n >= 3, n <= top.s,
           NEW out \in 0 .. MaxMem, NEW in \in 0 .. MaxMem
    PROVE  LET p == grow(grow(pop(top, n), out), in)
           IN  /\ Evolves(p) /\ ~ p.pc_changed
               /\ out <= p.mem
               /\ "DUP" \notin Ops => p.s + 3 <= MaxStack
               /\ p.pc = top.pc /\ p.s + 3 <= top.s
  <1> DEFINE c == pop(top, n)
             g == grow(c, out)
             p == grow(g, in)
  <1>1. top \in Context /\ top.s \in Nat /\ top.mem \in Nat /\ Evolves(top)
    BY TopEvolves DEF Context
  <1>2. c \in Context /\ Evolves(c) /\ c.s = top.s - n
    BY PopEvolves
  <1>3. c.pc_changed = top.pc_changed /\ c.pc = top.pc
    BY <1>1 DEF pop, Context
  <1> HIDE DEF c
  <1>4. Evolves(g)
    BY <1>1, <1>2, GrowEvolves
  <1>5. /\ g \in Context /\ g.s = c.s /\ g.pc_changed = c.pc_changed /\ out <= g.mem
        /\ g.pc = c.pc
    BY <1>2 DEF grow, Context, Larger
  <1> HIDE DEF g
  <1>6. Evolves(p)
    BY <1>1, <1>4, GrowEvolves
  <1>7. p.s = g.s /\ p.pc_changed = g.pc_changed /\ out <= p.mem /\ p.pc = g.pc
    BY <1>5 DEF grow, Context, Larger
  <1>8. "DUP" \notin Ops => top.s - n + 3 <= MaxStack
    BY <1>1, SizesAssumption DEF Evolves
  <1>9. ~ top.pc_changed
    BY <1>1, SuspendedNotFresh
  <1>10. p.s + 3 <= top.s
    BY <1>1, <1>2, <1>5, <1>7
  <1> QED
    BY <1>2, <1>3, <1>5, <1>6, <1>7, <1>8, <1>9, <1>10 DEF c, g

(* CREATE with its operands preserves the invariant, on every error path. *)
LEMMA CreateAccountKeeps ==
    ASSUME IInv, Running, UNCHANGED <<selfdestruct_list, logs, runs>>, top.s >= 3,
           NEW v \in Word, NEW end \in 0 .. MaxMem, NEW n \in 0 .. end,
           CreateAccount(v, end, n)
    PROVE  Kept
  <1> DEFINE a  == NewAddress(top.acc, accounts[top.acc].nonce)
             m  == gs_create(accounts, a, v)
             ex == pay_error(m, top.acc, a, v)
  <1>1. /\ IsAccounts(accounts) /\ top.acc \in DOMAIN accounts /\ top.acc \in Addr
        /\ top \in Context /\ top.s \in Nat
    BY TopEvolves DEF IInv, TypeOK
  <1>2. a \in Addr
    BY <1>1, AccountsForm, AddressAssumption DEF Account
  <1> HIDE DEF a
  <1>3. IsAccounts(m) /\ DOMAIN m = DOMAIN accounts \cup {a}
    BY <1>1, <1>2, CreateAccountType
  <1>4. ex \in ExceptionType \cup {"none"}
    BY PaymentExceptions
  <1>5. CASE EndRun("aborted") /\ UNCHANGED accounts
    BY <1>5, QuietRest, EndRunKeeps DEF Phase
  <1>6. CASE ex # "none" /\ accounts' = m /\ throw(ex)
    <2>1. Rest
      BY <1>3, <1>6, AccountsRest
    <2> QED
      BY <1>4, <1>6, <2>1, ThrowKeeps
  <1>7. CASE /\ ex = "none"
             /\ accounts' = pay_to(m, top.acc, a, v)
             /\ \/ throw("outOfBounds")
                \/ Enter(grow(pop(top, 3), end),
                         NewContext(a, top.acc, 0, n, "CREATE", 0))
    <2>1. top.acc \in DOMAIN m /\ a \in DOMAIN m
      BY <1>1, <1>3
    <2>2. IsAccounts(accounts') /\ DOMAIN accounts' = DOMAIN m
      <3>1. pay_error(m, top.acc, a, v) = "none"
        BY <1>7
      <3>2. IsAccounts(pay_to(m, top.acc, a, v)) /\ DOMAIN pay_to(m, top.acc, a, v) = DOMAIN m
        <4> HIDE DEF m, ex
        <4>1. \A p, q \in DOMAIN m, w \in Word :
                 pay_error(m, p, q, w) = "none"
                    => IsAccounts(pay_to(m, p, q, w)) /\ DOMAIN pay_to(m, p, q, w) = DOMAIN m
          BY <1>3, PaymentType
        <4> QED
          BY <2>1, <3>1, <4>1
      <3> QED
        BY <1>7, <3>2
    <2>3. Rest
      BY <1>3, <2>2, AccountsRest
    <2>4. CASE throw("outOfBounds")
      BY <2>3, <2>4, ThrowKeeps DEF ExceptionType
    <2>5. CASE Enter(grow(pop(top, 3), end), NewContext(a, top.acc, 0, n, "CREATE", 0))
      <3> DEFINE p == grow(pop(top, 3), end)
                 e == NewContext(a, top.acc, 0, n, "CREATE", 0)
      <3>1. n \in Nat /\ 0 \in Word /\ end \in Nat
        BY SizesAssumption, WordAssumption DEF Word
      <3>2. /\ e \in Context /\ e.acc = a /\ e.caller = top.acc /\ e.call_value = 0
            /\ e.kind = "CREATE" /\ e.ret = 0 /\ e.mem = 0 /\ e.s = 0
            /\ e.pc = 0 /\ e.pc_changed
        BY <1>1, <1>2, <3>1 DEF NewContext, Context
      <3>3. pop(top, 3) \in Context /\ Evolves(pop(top, 3)) /\ top.mem \in Nat
        BY <1>1, PopEvolves DEF Context
      <3>4. Evolves(p) /\ ~ p.pc_changed /\ p.mem \in Nat /\ p.pc = top.pc
        <4>1. Evolves(p)
          BY <3>3, GrowEvolves
        <4>2. p.pc_changed = top.pc_changed /\ p.mem \in Nat /\ p.pc = top.pc
          BY <1>1, <3>1 DEF grow, pop, Context, Larger
        <4> QED
          BY <1>1, <4>1, <4>2, SuspendedNotFresh
      <3>5. ("DUP" \notin Ops => p.s + 3 <= MaxStack) /\ p.s + 3 <= top.s
        <4>1. p.s = top.s - 3
          BY <1>1, <3>1, <3>3, GrowContext, PopEvolves
        <4>2. "DUP" \notin Ops => top.s <= MaxStack
          BY TopEvolves DEF Evolves
        <4> QED
          BY <1>1, <4>1, <4>2, SizesAssumption
      <3>6. p.acc = top.acc
        BY <3>4 DEF Evolves
      <3> HIDE DEF e, p
      <3>7. EnteredFrom(e, p)
        BY <3>2, <3>6 DEF EnteredFrom
      <3>8. e.acc \in DOMAIN accounts' /\ e.ret <= p.mem
        BY <2>1, <2>2, <3>2, <3>4
      <3>9. Enter(p, e)
        BY <2>5 DEF e, p
      <3> QED
        BY <2>3, <3>2, <3>4, <3>5, <3>7, <3>8, <3>9, EnterKeeps
    <2> QED
      BY <1>7, <2>4, <2>5
  <1> QED
    BY <1>5, <1>6, <1>7 DEF CreateAccount, a

(* CREATE preserves the invariant. *)
LEMMA CreateKeeps ==
    ASSUME IInv, Create
    PROVE  Kept
  <1>1. Running /\ UNCHANGED <<selfdestruct_list, logs, runs>>
    BY DispatchRuns DEF Create
  <1>2. CASE throw("outOfBounds") /\ UNCHANGED accounts
    BY <1>1, <1>2, QuietRest, ThrowKeeps DEF ExceptionType
  <1>3. CASE /\ top.s >= 3
             /\ \E v \in Word, end \in 0 .. MaxMem :
                   \E n \in 0 .. end : CreateAccount(v, end, n)
    BY <1>1, <1>3, CreateAccountKeeps
  <1> QED
    BY <1>2, <1>3 DEF Create

(* The three contexts of the switch in call() are entered from the current   *)
(* one as EnteredFrom says.                                                  *)
LEMMA CalleeContext ==
    ASSUME IInv, Running, NEW o \in CallKind, NEW a \in Addr, NEW v \in Word,
           NEW code \in Nat, NEW ret \in Nat, NEW p, Evolves(p)
    PROVE  LET e == Callee(o, a, v, code, ret)
           IN  /\ e \in Context /\ EnteredFrom(e, p) /\ e.acc \in {a, top.acc}
               /\ e.ret = ret /\ e.mem = 0 /\ e.s = 0 /\ e.pc = 0 /\ e.pc_changed
  <1> DEFINE e == Callee(o, a, v, code, ret)
  <1>1. top.acc \in Addr /\ top.caller \in Addr /\ top.call_value \in Word
    BY TopEvolves
  <1>2. p.acc = top.acc /\ p.caller = top.caller /\ p.call_value = top.call_value
    BY DEF Evolves
  <1>3. CASE o = "CALL"
    <2>1. e = NewContext(a, top.acc, v, code, "CALL", ret)
      BY <1>3 DEF Callee
    <2>2. /\ e \in Context /\ e.acc = a /\ e.caller = top.acc /\ e.kind = "CALL"
          /\ e.ret = ret /\ e.mem = 0 /\ e.s = 0 /\ e.pc = 0 /\ e.pc_changed
      BY <1>1, <2>1 DEF NewContext, Context, CallKind
    <2> QED
      BY <1>2, <2>2 DEF EnteredFrom
  <1>4. CASE o = "CALLCODE"
    <2>1. e = NewContext(top.acc, top.acc, v, code, "CALLCODE", ret)
      BY <1>4 DEF Callee
    <2>2. /\ e \in Context /\ e.acc = top.acc /\ e.caller = top.acc /\ e.kind = "CALLCODE"
          /\ e.ret = ret /\ e.mem = 0 /\ e.s = 0 /\ e.pc = 0 /\ e.pc_changed
      BY <1>1, <2>1 DEF NewContext, Context, CallKind
    <2> QED
      BY <1>2, <2>2 DEF EnteredFrom
  <1>5. CASE o = "DELEGATECALL"
    <2>1. e = NewContext(top.acc, top.caller, top.call_value, code, "DELEGATECALL", ret)
      BY <1>5 DEF Callee
    <2>2. /\ e \in Context /\ e.acc = top.acc /\ e.caller = top.caller
          /\ e.call_value = top.call_value /\ e.kind = "DELEGATECALL"
          /\ e.ret = ret /\ e.mem = 0 /\ e.s = 0 /\ e.pc = 0 /\ e.pc_changed
      BY <1>1, <2>1 DEF NewContext, Context, CallKind
    <2> QED
      BY <1>2, <2>2 DEF EnteredFrom
  <1> QED
    BY <1>3, <1>4, <1>5 DEF CallKind

(* A call with its operands preserves the invariant, on every error path. *)
LEMMA CallAccountKeeps ==
    ASSUME IInv, Running, UNCHANGED <<selfdestruct_list, logs, runs>>,
           NEW o \in CallKind, NEW k \in {6, 7}, top.s >= k,
           NEW a \in Addr, NEW v \in Word, NEW in \in MemEnd, NEW out \in MemEnd,
           NEW ret \in {0, out}, CallAccount(o, pop(top, k), a, v, in, out, ret)
    PROVE  Kept
  <1> DEFINE c    == pop(top, k)
             m    == gs_get(accounts, a)
             ex   == pay_error(m, c.acc, a, v)
             code == m[a].code
  <1>1. /\ IsAccounts(accounts) /\ top.acc \in DOMAIN accounts
        /\ top \in Context /\ top.s \in Nat
    BY TopEvolves DEF IInv, TypeOK
  <1>2. Evolves(c) /\ c.acc = top.acc
    <2>1. Evolves(c)
      BY <1>1, PopEvolves
    <2> QED
      BY <2>1 DEF Evolves
  <1>3. IsAccounts(m) /\ DOMAIN m = DOMAIN accounts \cup {a}
    BY <1>1, GetAccount
  <1>4. code \in Nat
    BY <1>3, AccountsForm DEF Account
  <1>5. ex \in ExceptionType \cup {"none"}
    BY PaymentExceptions
  <1>6. in \in Nat /\ out \in Nat /\ ret \in Nat /\ ret <= out
    BY SizesAssumption DEF MemEnd
  <1>7. CASE throw("notImplemented") /\ UNCHANGED accounts
    BY <1>7, QuietRest, ThrowKeeps DEF ExceptionType
  <1>8. CASE ex # "none" /\ accounts' = m /\ throw(ex)
    <2>1. Rest
      BY <1>3, <1>8, AccountsRest
    <2> QED
      BY <1>5, <1>8, <2>1, ThrowKeeps
  <1>9. CASE /\ ex = "none"
             /\ accounts' = pay_to(m, c.acc, a, v)
             /\ \/ Yield(c)
                \/ throw("outOfBounds")
                \/ /\ out <= MaxMem /\ in <= MaxMem
                   /\ Enter(grow(grow(c, out), in), Callee(o, a, v, code, ret))
    <2>1. c.acc \in DOMAIN m /\ a \in DOMAIN m
      BY <1>1, <1>2, <1>3
    <2>2. IsAccounts(accounts') /\ DOMAIN accounts' = DOMAIN m
      <3>1. pay_error(m, c.acc, a, v) = "none"
        BY <1>9
      <3>2. IsAccounts(pay_to(m, c.acc, a, v)) /\ DOMAIN pay_to(m, c.acc, a, v) = DOMAIN m
        <4> HIDE DEF m, c, ex, code
        <4>1. \A p, q \in DOMAIN m, w \in Word :
                 pay_error(m, p, q, w) = "none"
                    => /\ IsAccounts(pay_to(m, p, q, w))
                       /\ DOMAIN pay_to(m, p, q, w) = DOMAIN m
          BY <1>3, PaymentType
        <4> QED
          BY <2>1, <3>1, <4>1
      <3> QED
        BY <1>9, <3>2
    <2>3. Rest
      BY <1>3, <2>2, AccountsRest
    <2>4. CASE Yield(c)
      BY <1>2, <2>3, <2>4, YieldKeeps
    <2>5. CASE throw("outOfBounds")
      BY <2>3, <2>5, ThrowKeeps DEF ExceptionType
    <2>6. CASE /\ out <= MaxMem /\ in <= MaxMem
               /\ Enter(grow(grow(c, out), in), Callee(o, a, v, code, ret))
      <3> DEFINE p == grow(grow(c, out), in)
                 e == Callee(o, a, v, code, ret)
      <3>1. /\ Evolves(p) /\ ~ p.pc_changed /\ out <= p.mem
            /\ "DUP" \notin Ops => p.s + 3 <= MaxStack
            /\ p.pc = top.pc /\ p.s + 3 <= top.s
        BY <1>1, <1>6, <2>6, SizesAssumption, ParentEvolves
      <3>2. p.mem \in Nat
        BY <3>1 DEF Evolves, Context
      <3> HIDE DEF p
      <3>3. /\ e \in Context /\ EnteredFrom(e, p) /\ e.acc \in {a, top.acc}
            /\ e.ret = ret /\ e.mem = 0 /\ e.s = 0 /\ e.pc = 0 /\ e.pc_changed
        <4> HIDE DEF code
        <4> QED
          BY <1>4, <1>6, <3>1, CalleeContext
      <3>4. Enter(p, e)
        BY <2>6 DEF p
      <3> HIDE DEF e
      <3>5. e.acc \in DOMAIN accounts' /\ e.ret <= p.mem
        BY <1>2, <1>6, <2>1, <2>2, <3>1, <3>2, <3>3
      <3> QED
        BY <2>3, <3>1, <3>3, <3>4, <3>5, EnterKeeps
    <2> QED
      BY <1>9, <2>4, <2>5, <2>6
  <1> QED
    BY <1>7, <1>8, <1>9 DEF CallAccount

(* CALL, CALLCODE and DELEGATECALL preserve the invariant. *)
LEMMA CallKeeps ==
    ASSUME IInv, Call
    PROVE  Kept
  <1>1. PICK o \in CallKind :
          LET n == IF o = "DELEGATECALL" THEN 6 ELSE 7
          IN  /\ dispatch(o)
              /\ \/ throw("outOfBounds") /\ UNCHANGED accounts
                 \/ /\ top.s >= n
                    /\ \E a \in Addr, v \in IF o = "DELEGATECALL" THEN {0} ELSE Word,
                          in \in MemEnd, out \in MemEnd :
                            \E ret \in {0, out} :
                                CallAccount(o, pop(top, n), a, v, in, out, ret)
              /\ UNCHANGED <<selfdestruct_list, logs, runs>>
    BY DEF Call
  <1>2. Running /\ UNCHANGED <<selfdestruct_list, logs, runs>>
    BY <1>1, DispatchRuns
  <1>3. CASE throw("outOfBounds") /\ UNCHANGED accounts
    BY <1>2, <1>3, QuietRest, ThrowKeeps DEF ExceptionType
  <1>4. ASSUME NEW k \in {6, 7}, top.s >= k, NEW a \in Addr, NEW v \in Word,
               NEW in \in MemEnd, NEW out \in MemEnd, NEW ret \in {0, out},
               CallAccount(o, pop(top, k), a, v, in, out, ret)
        PROVE  Kept
    BY <1>2, <1>4, CallAccountKeeps
  <1>5. 0 \in Word
    BY WordAssumption DEF Word
  <1> QED
    BY <1>1, <1>3, <1>4, <1>5

-----------------------------------------------------------------------------
(* Processor::run and the host. *)

(* In a state without contexts the invariants speak of nothing but the rest. *)
LEMMA NoContextInv ==
    ASSUME TypeOK, depth = 0, OutcomeReported, NoVmEscape
    PROVE  IInv
  BY DEF IInv, CallChain, LiveReferences, ReturnRegionReserved, FreshOnlyAtStart,
         HandlerRoom, OutcomeReported

(* The initial states satisfy the invariant. *)
LEMMA InitKeeps ==
    ASSUME Init
    PROVE  IInv
  <1>1. IsAccounts(accounts)
    BY HostAssumption DEF Init
  <1>2. DefaultResult \in ExecResult /\ DefaultResult.by = "none"
    BY DEF DefaultResult, ExecResult
  <1>3. TypeOK
    BY <1>1, <1>2, SizesAssumption DEF Init, TypeOK, NoFrames, Phase
  <1>4. OutcomeReported /\ NoVmEscape
    BY DEF Init, OutcomeReported, NoVmEscape
  <1> QED
    BY <1>3, <1>4, NoContextInv DEF Init

(* A new call of Processor::run preserves the invariant. *)
LEMMA RunKeeps ==
    ASSUME IInv, Run
    PROVE  Kept
  <1>1. PICK r \in Requests :
           /\ accounts' = gs_get(accounts, r.callee)
           /\ ctxts' = [i \in 1 .. 1 |->
                           NewContext(r.callee, r.caller, r.call_value,
                                      accounts'[r.callee].code, "run", 0)]
    BY DEF Run
  <1>2. r.callee \in Addr /\ r.caller \in Addr /\ r.call_value \in Word
    BY HostAssumption
  <1>3. IsAccounts(accounts') /\ DOMAIN accounts' = DOMAIN accounts \cup {r.callee}
    BY <1>1, <1>2, GetAccount DEF IInv, TypeOK
  <1> DEFINE c == NewContext(r.callee, r.caller, r.call_value,
                             accounts'[r.callee].code, "run", 0)
  <1>4. accounts'[r.callee].code \in Nat
    <2>1. accounts' \in [DOMAIN accounts' -> Account] /\ r.callee \in DOMAIN accounts'
      BY <1>3 DEF IsAccounts
    <2> QED
      BY <2>1 DEF Account
  <1>5. /\ c \in Context /\ c.kind = "run" /\ c.acc = r.callee
        /\ c.mem = 0 /\ c.ret = 0 /\ c.s = 0 /\ c.pc = 0
    BY <1>2, <1>4 DEF NewContext, Context
  <1> HIDE DEF c
  <1>6. /\ ctxts' = [i \in 1 .. 1 |-> c] /\ depth' = 1 /\ phase' = "run"
        /\ result' = DefaultResult /\ runs' = runs + 1 /\ runs < MaxRuns /\ logs' = logs
        /\ selfdestruct_list' \in {{}, selfdestruct_list}
    BY <1>1 DEF Run, c
  <1>7. \A i \in 1 .. 1 : ctxts'[i] = c
    BY <1>6
  <1>8. TypeOK'
    <2>1. DefaultResult \in ExecResult
      BY DEF DefaultResult, ExecResult
    <2>2. ctxts' \in [1 .. 1 -> Context]
      BY <1>5, <1>6
    <2>3. depth' \in 0 .. MaxDepth /\ runs' \in 0 .. MaxRuns
      BY <1>6, SizesAssumption DEF IInv, TypeOK
    <2> QED
      BY <1>3, <1>6, <2>1, <2>2, <2>3 DEF IInv, TypeOK, Phase
  <1>9. CallChain'
    BY <1>5, <1>6, <1>7 DEF CallChain
  <1>10. LiveReferences'
    BY <1>3, <1>5, <1>6, <1>7 DEF LiveReferences
  <1>11. ReturnRegionReserved' /\ FreshOnlyAtStart'
    BY <1>5, <1>6, <1>7, SizesAssumption DEF ReturnRegionReserved, FreshOnlyAtStart
  <1>12. OutcomeReported' /\ NoVmEscape'
    BY <1>6 DEF OutcomeReported, NoVmEscape, DefaultResult
  <1>13. HandlerRoom'
    BY <1>5, <1>6, <1>7, SizesAssumption DEF HandlerRoom
  <1>14. CS!Begin
    <2>1. phase # "run" /\ ctxts'[1] = c /\ DOMAIN ctxts' = 1 .. 1
      BY <1>6, <1>7 DEF Run
    <2> QED
      BY <1>5, <1>6, <2>1 DEF CS!Begin, CS!IsStack, CS!Fresh, DefaultResult
  <1> QED
    BY <1>8, <1>9, <1>10, <1>11, <1>12, <1>13, <1>14 DEF IInv, Kept, CS!Next

(* Both ends of the loop preserve the invariant. *)
LEMMA FinishKeeps ==
    ASSUME IInv, Finish
    PROVE  Kept
  <1>1. /\ depth' = 0 /\ ctxts' = NoFrames
        /\ UNCHANGED <<selfdestruct_list, logs, runs>>
        /\ phase' \in {"done", "escaped"}
        /\ accounts' \in {accounts, gs_remove(accounts, selfdestruct_list)}
        /\ result' \in {result, [er |-> "halted", ex |-> "none", by |-> "hh"]}
    <2>1. CASE FinishNoContext
      <3>1. ctxts = NoFrames
        BY <2>1 DEF FinishNoContext, NoFrames, IInv, TypeOK
      <3> QED
        BY <2>1, <3>1 DEF FinishNoContext, CleanUp
    <2>2. CASE FinishOffEnd
      BY <2>2 DEF FinishOffEnd, CleanUp
    <2> QED
      BY <2>1, <2>2 DEF Finish
  <1>2. IsAccounts(accounts')
    BY <1>1, RemoveAccounts DEF IInv, TypeOK
  <1>3. TypeOK'
    <2>1. result' \in ExecResult
      BY <1>1 DEF IInv, TypeOK, ExecResult
    <2>2. ctxts' \in [1 .. 0 -> Context] /\ depth' \in 0 .. MaxDepth
      BY <1>1, SizesAssumption DEF NoFrames
    <2> QED
      BY <1>1, <1>2, <2>1, <2>2 DEF IInv, TypeOK, Phase
  <1>4. OutcomeReported'
    BY <1>1 DEF OutcomeReported
  <1>5. NoVmEscape'
    <2> SUFFICES ASSUME "DUP" \notin Ops, phase' = "escaped"
                 PROVE  FALSE
      BY DEF NoVmEscape
    <2>1. phase = "run" /\ depth > 0 /\ top.kind # "run" /\ ~ CanPush(ctxts[depth - 1])
      BY DEF Finish, FinishNoContext, FinishOffEnd, CleanUp
    <2>2. depth \in 1 .. depth
      BY <2>1 DEF IInv, TypeOK
    <2>3. depth - 1 \in 1 .. (depth - 1) /\ ctxts[depth - 1] \in Context
      BY <2>1, <2>2, NestedParent DEF top
    <2> QED
      BY <2>1, <2>3, SizesAssumption DEF CanPush, IInv, HandlerRoom, Context
  <1>6. CS!Next
    <2>1. CASE FinishNoContext
      <3>1. result.by # "none"
        BY <2>1 DEF FinishNoContext, IInv, OutcomeReported
      <3> QED
        BY <2>1, <3>1 DEF FinishNoContext, CleanUp, CS!Close, CS!Next
    <2>2. CASE FinishOffEnd
      <3>0. depth \in 1 .. depth
        BY <2>2 DEF FinishOffEnd, IInv, TypeOK
      <3>1. CASE top.kind = "run"
        <4>1. depth \in {1, 2}
          BY <3>0, <3>1, RunIsOutermost DEF top
        <4>2. result'.by # "none"
          BY <2>2, <3>1 DEF FinishOffEnd
        <4> QED
          BY <1>1, <2>2, <4>1, <4>2
             DEF FinishOffEnd, NoFrames, CS!IsStack, CS!Report, CS!Next
      <3>2. CASE top.kind # "run"
        <4>1. result' = result
          BY <2>2, <3>2 DEF FinishOffEnd
        <4> QED
          BY <1>1, <2>2, <4>1
             DEF FinishOffEnd, NoFrames, CS!IsStack, CS!Drop, CS!Next
      <3> QED
        BY <3>1, <3>2
    <2> QED
      BY <2>1, <2>2 DEF Finish
  <1> QED
    BY <1>1, <1>3, <1>4, <1>5, <1>6
       DEF Kept, IInv, CallChain, LiveReferences, ReturnRegionReserved, FreshOnlyAtStart,
           HandlerRoom

(* A step that changes nothing preserves the invariant. *)
LEMMA QuiescentKeeps ==
    ASSUME IInv, UNCHANGED vars
    PROVE  IInv'
  BY DEF IInv, vars, TypeOK, CallChain, LiveReferences, ReturnRegionReserved,
         FreshOnlyAtStart, OutcomeReported, HandlerRoom, NoVmEscape

(* Every opcode preserves the invariant. *)
LEMMA ExecuteKeeps ==
    ASSUME IInv, Execute
    PROVE  Kept
  BY ComputeKeeps, StackOpsKeep, JumpsKeep, MemoryAccessKeeps, CalldataloadKeeps,
     SstoreKeeps, LookupsKeep, LogKeeps, ReturnKeeps, StopOpKeeps, SelfdestructKeeps,
     CreateKeeps, CallKeeps
     DEF Execute

-----------------------------------------------------------------------------
(* The conjunction of the invariants holds in every reachable state. *)
THEOREM SpecIInv == Spec => []IInv
  <1>1. Init => IInv
    BY InitKeeps
  <1>2. IInv /\ [Next]_vars => IInv'
    BY ExecuteKeeps, RunKeeps, FinishKeeps, QuiescentKeeps DEF Next, Quiescent, Kept
  <1> QED
    BY <1>1, <1>2, PTL DEF Spec

(* Every variable keeps its type: no handler makes a stack height, a program *)
(* counter or a balance leave its range, and no call exceeds the depth limit. *)
THEOREM SpecTypeOK == Spec => []TypeOK
  <1>1. IInv => TypeOK
    BY DEF IInv
  <1> QED
    BY <1>1, SpecIInv, PTL

(* Context::caller, acc and call_value form the chain that the three kinds   *)
(* of call and CREATE set up, at any depth.                                   *)
THEOREM SpecCallChain == Spec => []CallChain
  <1>1. IInv => CallChain
    BY DEF IInv
  <1> QED
    BY <1>1, SpecIInv, PTL

(* The account references of the contexts never dangle. *)
THEOREM SpecLiveReferences == Spec => []LiveReferences
  <1>1. IInv => LiveReferences
    BY DEF IInv
  <1> QED
    BY <1>1, SpecIInv, PTL

(* The return handler of a call always has its output region ready. *)
THEOREM SpecReturnRegionReserved == Spec => []ReturnRegionReserved
  <1>1. IInv => ReturnRegionReserved
    BY DEF IInv
  <1> QED
    BY <1>1, SpecIInv, PTL

(* Only the first instruction of the outermost context sees pc_changed set. *)
THEOREM SpecFreshOnlyAtStart == Spec => []FreshOnlyAtStart
  <1>1. IInv => FreshOnlyAtStart
    BY DEF IInv
  <1> QED
    BY <1>1, SpecIInv, PTL

(* The result is written when, and only when, the last context is popped. *)
THEOREM SpecOutcomeReported == Spec => []OutcomeReported
  <1>1. IInv => OutcomeReported
    BY DEF IInv
  <1> QED
    BY <1>1, SpecIInv, PTL

(* Without DUP, stacks keep to their limit and handlers always have room. *)
THEOREM SpecHandlerRoom == Spec => []HandlerRoom
  <1>1. IInv => HandlerRoom
    BY DEF IInv
  <1> QED
    BY <1>1, SpecIInv, PTL

(* Without DUP, every eevm::Exception is caught inside Processor::run. *)
THEOREM SpecNoVmEscape == Spec => []NoVmEscape
  <1>1. IInv => NoVmEscape
    BY DEF IInv
  <1> QED
    BY <1>1, SpecIInv, PTL
=============================================================================
