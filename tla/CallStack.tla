------------------------------ MODULE CallStack -------------------------------
(***************************************************************************)
(* What a host, and a program that calls others, may rely on of the stack  *)
(* of contexts of _Processor::run, whatever the opcodes do.                *)
(*                                                                         *)
(* There is no instruction here: the current frame works on its own stack, *)
(* pc and memory as it likes.  What the specification fixes is what        *)
(* becomes of the other frames, who may report the outcome of a run, and   *)
(* how a run can end without one.  Processor implements it.                *)
(***************************************************************************)
EXTENDS Integers

VARIABLES
    depth,     \* number of frames
    frames,    \* the frames, outermost first: a function on 1 .. depth
    reported,  \* the run has an outcome for the host
    running

vars == <<depth, frames, reported, running>>

(* The one to whom a frame belongs, who called it, with what, and where its  *)
(* output goes.                                                              *)
Identity(f) == <<f.acc, f.caller, f.call_value, f.code, f.kind, f.ret>>

(* The outermost n frames stay what they are. *)
Frozen(n) == \A i \in 1 .. n : frames'[i] = frames[i]

IsStack(n) == depth' = n /\ DOMAIN frames' = 1 .. n

Fresh(f) == f.pc = 0 /\ f.s = 0 /\ f.mem = 0

-----------------------------------------------------------------------------
Init ==
    /\ depth = 0 /\ DOMAIN frames = {}
    /\ ~ reported /\ ~ running

(* The host calls run. *)
Begin ==
    /\ ~ running /\ running'
    /\ IsStack(1) /\ Fresh(frames'[1]) /\ frames'[1].kind = "run"
    /\ ~ reported'

(* An instruction of the current frame: it keeps its identity, and memory    *)
(* never shrinks.                                                            *)
Work ==
    /\ running /\ running' /\ depth > 0
    /\ IsStack(depth) /\ Frozen(depth - 1)
    /\ Identity(frames'[depth]) = Identity(frames[depth])
    /\ frames'[depth].mem >= frames[depth].mem
    /\ UNCHANGED reported

(* The current frame suspends itself in the middle of a call.  It gives up   *)
(* operands, at least three, and stays at its pc.                            *)
Enter ==
    /\ running /\ running' /\ depth > 0
    /\ IsStack(depth + 1) /\ Frozen(depth - 1)
    /\ Identity(frames'[depth]) = Identity(frames[depth])
    /\ frames'[depth].pc = frames[depth].pc
    /\ frames'[depth].s + 3 <= frames[depth].s
    /\ frames'[depth].mem >= frames[depth].mem
    /\ Fresh(frames'[depth + 1]) /\ frames'[depth + 1].kind # "run"
    /\ UNCHANGED reported

(* A suspended frame n is current again: it finds one word more on its stack, *)
(* is past the call, and has nothing else changed.  Two frames end at once    *)
(* when the caller cannot take the answer.                                    *)
Answer ==
    /\ running /\ running'
    /\ \E n \in {depth - 1, depth - 2} :
          /\ n > 0 /\ IsStack(n) /\ Frozen(n - 1)
          /\ frames'[n] = [frames[n] EXCEPT !.s = @ + 1, !.pc = @ + 1]
    /\ UNCHANGED reported

(* The outermost frame ends and with it the stack: only it reports, and that *)
(* may end the run in the same step.                                         *)
Report ==
    /\ running /\ depth \in {1, 2}
    /\ IsStack(0)
    /\ reported'

(* All frames are dropped and the run is over; the host is not told how.     *)
Drop ==
    /\ running /\ ~ running' /\ depth > 0
    /\ IsStack(0)
    /\ UNCHANGED reported

(* A run whose outcome is known ends. *)
Close ==
    /\ running /\ ~ running' /\ depth = 0 /\ reported
    /\ UNCHANGED <<depth, frames, reported>>

Next == Begin \/ Work \/ Enter \/ Answer \/ Report \/ Drop \/ Close

Spec == Init /\ [][Next]_vars
=============================================================================
