----------------------------- MODULE MCProcessor -----------------------------
(***************************************************************************)
(* Instances of Processor for TLC, and what its documentation claims.      *)
(*                                                                         *)
(* "a" and "b" are accounts the world starts with, "n" the address         *)
(* that CREATE generates, "p" a precompiled contract.                      *)
(***************************************************************************)
EXTENDS Processor

Contract(b, n) == [balance |-> b, code |-> n, nonce |-> 0, st |-> {}]

(* One contract of n bytes, alone or with a second one that owns nothing. *)
Alone(n) == {[x \in {"a"} |-> Contract(1, n)]}

Pair(n) == {[x \in {"a", "b"} |-> Contract(IF x = "a" THEN 1 ELSE 0, n)]}

Alone4 == Alone(4)
Alone8 == Alone(8)
Pair3 == Pair(3)
Pair8 == Pair(8)
Pair3And2 ==
    {[x \in {"a", "b"} |-> IF x = "a" THEN Contract(1, 3) ELSE Contract(0, 2)]}

(* A contract of 11 bytes and a short one it can call. *)
CallerAndShort == {[x \in {"a", "b"} |-> Contract(0, IF x = "a" THEN 11 ELSE 1)]}

(* What the host asks for: "b" calls "a". *)
CallA == {[caller |-> "b", callee |-> "a", call_value |-> 1]}

CallSelf == {[caller |-> "a", callee |-> "a", call_value |-> 1]}

CallEither == {[caller |-> "b", callee |-> x, call_value |-> 0] : x \in {"a", "b"}}

(* generate_address: where no CREATE matters, and where all creators, and    *)
(* every CREATE of one creator, get the same address.                        *)
SameAddress(sender, nonce) == sender

OneNewAddress(sender, nonce) == "n"

-----------------------------------------------------------------------------
(* What comments and declarations of the repository say, and the code does    *)
(* not do.                                                                    *)

(* "halt outer context if it did not do so itself": when run returns, some    *)
(* handler of the outermost context has written the result.                   *)
OuterContextHalted == phase = "done" => result.by # "none"

(* "the transaction value is an endowment for the newly created account":     *)
(* what the new account gets is what its creator gives.                       *)
EndowmentStep ==
    (depth' > depth /\ phase = "run" /\ ctxts'[depth'].kind = "CREATE")
        => Supply(accounts') = Supply(accounts)

EndowmentIsTransferred == [][EndowmentStep]_vars

(* "VM exceptions (ie, eevm::Exception) will be caught and returned". *)
VmExceptionsCaught == phase # "escaped"

(* CALLCODE: "Message-call into this account with an alternative account's    *)
(* code": the value stays in this account, and no other is paid.              *)
CallcodeStep ==
    (depth' > depth /\ phase = "run" /\ ctxts'[depth'].kind = "CALLCODE")
        => \A a \in DOMAIN accounts \ {ctxts'[depth'].acc} :
              accounts'[a].balance = accounts[a].balance

CallcodePaysThisAccount == [][CallcodeStep]_vars

(* CREATE: "Create a new account with associated code": init code that        *)
(* returns has its output stored, and the creator goes on.                    *)
CreateStoresCode == phase # "crashed"
=============================================================================
