----------------------------- MODULE GlobalState -----------------------------
(***************************************************************************)
(* The world state of the EVM: the accounts map of SimpleGlobalState, the  *)
(* fields of SimpleAccount, and the payment that Account::pay_to makes.    *)
(* Every operator takes the accounts map and returns the changed one, so   *)
(* that a handler that touches the state several times composes them in    *)
(* the order of its calls.                                                 *)
(*                                                                         *)
(* Code is kept as its length and storage as the set of keys it holds: no  *)
(* property tells more of them apart.                                      *)
(***************************************************************************)
EXTENDS Integers, FiniteSetsExt

CONSTANTS
    Addr,      \* addresses
    Key,       \* storage keys
    WordMod,   \* number of balances: 2^256 in the program
    MaxNonce   \* largest nonce: 2^64 - 1 in the program

ASSUME WordAssumption == WordMod \in Nat \ {0} /\ MaxNonce \in Nat

ASSUME AddrAssumption == IsFiniteSet(Addr)

Word == 0 .. (WordMod - 1)

Nonce == 0 .. MaxNonce

Account == [balance : Word, code : Nat, nonce : Nonce, st : SUBSET Key]

(* m is a map from some of the addresses to accounts. *)
IsAccounts(m) == \E D \in SUBSET Addr : m \in [D -> Account]

NewAccount(b) == [balance |-> b, code |-> 0, nonce |-> 0, st |-> {}]

(* SimpleGlobalState::insert: std::map::insert never overwrites. Whether the *)
(* assertion on its result stops the program is left to the caller.          *)
gs_insert(m, a, acc) ==
    IF a \in DOMAIN m
      THEN m
      ELSE [b \in DOMAIN m \cup {a} |-> IF b = a THEN acc ELSE m[b]]

gs_create(m, a, b) == gs_insert(m, a, NewAccount(b))

(* SimpleGlobalState::get creates the account it does not find. *)
gs_get(m, a) == IF a \in DOMAIN m THEN m ELSE gs_create(m, a, 0)

(* SimpleGlobalState::remove, for every address of D. *)
gs_remove(m, D) == [a \in DOMAIN m \ D |-> m[a]]

set_balance(m, a, b) == [m EXCEPT ![a].balance = b]

(* The exception Account::pay_to throws when p pays v to q, or "none". *)
pay_error_unchecked(m, p, q, v) ==       \* variant: no overflow check
    IF v > m[p].balance THEN "outOfFunds" ELSE "none"

pay_error(m, p, q, v) ==
    LET other_balance == m[q].balance
    IN  IF v > m[p].balance
          THEN "outOfFunds"
          ELSE IF (other_balance + v) % WordMod < other_balance
                 THEN "overflow"
                 ELSE "none"

(* The balances Account::pay_to leaves when it does not throw. The payee's   *)
(* balance is read before the payer's is written: when p = q the second      *)
(* write wins.                                                               *)
pay_to_undebited(m, p, q, v) ==          \* variant: the payer keeps its balance
    set_balance(m, q, (m[q].balance + v) % WordMod)

pay_to(m, p, q, v) ==
    LET proposed_balance == (m[q].balance + v) % WordMod
    IN  set_balance(set_balance(m, p, m[p].balance - v), q, proposed_balance)

(* SSTORE: storing zero removes the key. *)
st_write(m, a, k, isZero) ==
    [m EXCEPT ![a].st = IF isZero THEN @ \ {k} ELSE @ \cup {k}]

set_code(m, a, n) == [m EXCEPT ![a].code = n]

(* The sum of all balances, which properties are about. *)
Supply(m) == MapThenSumSet(LAMBDA x : m[x].balance, DOMAIN m)
=============================================================================
