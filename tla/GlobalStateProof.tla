-------------------------- MODULE GlobalStateProof ---------------------------
(***************************************************************************)
(* What the operators of GlobalState return: account maps again, over      *)
(* known domains, and payments that move money and nothing else.           *)
(***************************************************************************)
EXTENDS GlobalState, FiniteSetTheorems, TLAPS

(* An accounts map has accounts as values and addresses as keys. *)
LEMMA AccountsForm ==
    ASSUME NEW m
    PROVE  IsAccounts(m) <=> DOMAIN m \subseteq Addr /\ m \in [DOMAIN m -> Account]
  BY DEF IsAccounts

(* A remainder modulo the word size is a word. *)
LEMMA ModWord ==
    ASSUME NEW x \in Nat
    PROVE  x % WordMod \in Word
  BY WordAssumption DEF Word

(* insert gives a map with the new key, and keeps every other account. *)
LEMMA InsertAccount ==
    ASSUME NEW m, IsAccounts(m), NEW a \in Addr, NEW acc \in Account
    PROVE  /\ IsAccounts(gs_insert(m, a, acc))
           /\ DOMAIN gs_insert(m, a, acc) = DOMAIN m \cup {a}
  <1>1. CASE a \in DOMAIN m
    BY <1>1 DEF gs_insert
  <1>2. CASE a \notin DOMAIN m
    <2>1. gs_insert(m, a, acc) \in [DOMAIN m \cup {a} -> Account]
      BY <1>2, AccountsForm DEF gs_insert
    <2>2. DOMAIN m \cup {a} \subseteq Addr
      BY AccountsForm
    <2> QED
      BY <2>1, <2>2 DEF IsAccounts
  <1> QED
    BY <1>1, <1>2

(* create gives a map with the new key. *)
LEMMA CreateAccountType ==
    ASSUME NEW m, IsAccounts(m), NEW a \in Addr, NEW b \in Word
    PROVE  /\ IsAccounts(gs_create(m, a, b))
           /\ DOMAIN gs_create(m, a, b) = DOMAIN m \cup {a}
  <1>1. NewAccount(b) \in Account
    BY WordAssumption DEF NewAccount, Account, Nonce
  <1> QED
    BY <1>1, InsertAccount DEF gs_create

(* get gives a map with the key, and loses none. *)
LEMMA GetAccount ==
    ASSUME NEW m, IsAccounts(m), NEW a \in Addr
    PROVE  /\ IsAccounts(gs_get(m, a))
           /\ DOMAIN gs_get(m, a) = DOMAIN m \cup {a}
  <1>1. 0 \in Word
    BY WordAssumption DEF Word
  <1> QED
    BY <1>1, CreateAccountType DEF gs_get

(* remove gives a map. *)
LEMMA RemoveAccounts ==
    ASSUME NEW m, IsAccounts(m), NEW D
    PROVE  IsAccounts(gs_remove(m, D))
  <1>1. gs_remove(m, D) \in [DOMAIN m \ D -> Account]
    BY AccountsForm DEF gs_remove
  <1>2. DOMAIN m \ D \in SUBSET Addr
    BY AccountsForm
  <1> QED
    BY <1>1, <1>2 DEF IsAccounts

(* Writing a word as balance gives a map with the same keys. *)
LEMMA SetBalance ==
    ASSUME NEW m, IsAccounts(m), NEW a \in DOMAIN m, NEW b \in Word
    PROVE  /\ IsAccounts(set_balance(m, a, b))
           /\ DOMAIN set_balance(m, a, b) = DOMAIN m
  <1>1. [m[a] EXCEPT !.balance = b] \in Account
    BY AccountsForm DEF Account
  <1>2. set_balance(m, a, b) \in [DOMAIN m -> Account]
    BY <1>1, AccountsForm DEF set_balance
  <1> QED
    BY <1>2, AccountsForm DEF IsAccounts

(* A payment that does not throw gives a map with the same keys. *)
LEMMA PaymentType ==
    ASSUME NEW m, IsAccounts(m)
    PROVE  \A p, q \in DOMAIN m, v \in Word :
              pay_error(m, p, q, v) = "none"
                 => /\ IsAccounts(pay_to(m, p, q, v))
                    /\ DOMAIN pay_to(m, p, q, v) = DOMAIN m
  <1> SUFFICES ASSUME NEW p \in DOMAIN m, NEW q \in DOMAIN m, NEW v \in Word,
                      pay_error(m, p, q, v) = "none"
               PROVE  /\ IsAccounts(pay_to(m, p, q, v))
                      /\ DOMAIN pay_to(m, p, q, v) = DOMAIN m
    OBVIOUS
  <1>1. m[p].balance \in Word /\ m[q].balance \in Word
    BY AccountsForm DEF Account
  <1>2. v <= m[p].balance
    BY <1>1, WordAssumption DEF pay_error, Word
  <1>3. m[p].balance - v \in Word
    BY <1>1, <1>2, WordAssumption DEF Word
  <1> DEFINE proposed == (m[q].balance + v) % WordMod
             debited == set_balance(m, p, m[p].balance - v)
  <1>4. proposed \in Word
    BY <1>1, ModWord DEF Word
  <1>5. IsAccounts(debited) /\ DOMAIN debited = DOMAIN m
    BY <1>3, SetBalance
  <1>6. pay_to(m, p, q, v) = set_balance(debited, q, proposed)
    BY DEF pay_to
  <1> HIDE DEF debited, proposed
  <1> QED
    BY <1>4, <1>5, <1>6, SetBalance

(* SSTORE gives a map with the same keys. *)
LEMMA StorageWriteType ==
    ASSUME NEW m, IsAccounts(m), NEW a \in DOMAIN m, NEW k \in Key, NEW z \in BOOLEAN
    PROVE  IsAccounts(st_write(m, a, k, z)) /\ DOMAIN st_write(m, a, k, z) = DOMAIN m
  <1> DEFINE st == IF z THEN m[a].st \ {k} ELSE m[a].st \cup {k}
  <1>1. m[a] \in Account
    BY AccountsForm
  <1>2. st \in SUBSET Key
    BY <1>1 DEF Account
  <1>3. st_write(m, a, k, z) = [m EXCEPT ![a].st = st]
    BY DEF st_write
  <1> HIDE DEF st
  <1>4. [m[a] EXCEPT !.st = st] \in Account
    BY <1>1, <1>2 DEF Account
  <1>5. st_write(m, a, k, z) \in [DOMAIN m -> Account]
    BY <1>3, <1>4, AccountsForm
  <1> QED
    BY <1>5, AccountsForm DEF IsAccounts

(* set_code gives a map with the same keys. *)
LEMMA SetCodeType ==
    ASSUME NEW m, IsAccounts(m), NEW a \in DOMAIN m, NEW n \in Nat
    PROVE  IsAccounts(set_code(m, a, n)) /\ DOMAIN set_code(m, a, n) = DOMAIN m
  <1>1. [m[a] EXCEPT !.code = n] \in Account
    BY AccountsForm DEF Account
  <1>2. set_code(m, a, n) \in [DOMAIN m -> Account]
    BY <1>1, AccountsForm DEF set_code
  <1> QED
    BY <1>2, AccountsForm DEF IsAccounts

(* Reduction modulo the word size, for a sum that wraps at most once. *)
LEMMA ModOnce ==
    ASSUME NEW x \in Nat
    PROVE  /\ x < WordMod => x % WordMod = x
           /\ WordMod <= x /\ x < 2 * WordMod => x % WordMod = x - WordMod
  BY WordAssumption

(* Account::pay_to between two different accounts moves the amount: the      *)
(* payer loses what the payee gains, whatever the two balances were, and no  *)
(* other account is touched.                                                 *)
THEOREM PaymentConserves ==
    ASSUME NEW m, IsAccounts(m), NEW p \in DOMAIN m, NEW q \in DOMAIN m, p # q,
           NEW v \in Word, pay_error(m, p, q, v) = "none"
    PROVE  /\ pay_to(m, p, q, v)[p].balance + v = m[p].balance
           /\ pay_to(m, p, q, v)[q].balance = m[q].balance + v
           /\ \A a \in DOMAIN m \ {p, q} : pay_to(m, p, q, v)[a] = m[a]
  <1>1. m[p].balance \in Word /\ m[q].balance \in Word
    BY AccountsForm DEF Account
  <1>2. v <= m[p].balance
    BY <1>1, WordAssumption DEF pay_error, Word
  <1>3. ~ ((m[q].balance + v) % WordMod < m[q].balance)
    BY <1>1, <1>2, WordAssumption DEF pay_error, Word
  <1>4. (m[q].balance + v) % WordMod = m[q].balance + v
    <2>1. m[q].balance + v < WordMod
      BY <1>1, <1>3, ModOnce, WordAssumption DEF Word
    <2> QED
      BY <1>1, <2>1, ModOnce, WordAssumption DEF Word
  <1>5. pay_to(m, p, q, v)[p].balance = m[p].balance - v
    BY AccountsForm DEF pay_to, set_balance, Account
  <1>6. pay_to(m, p, q, v)[q].balance = m[q].balance + v
    BY <1>4, AccountsForm DEF pay_to, set_balance, Account
  <1>7. \A a \in DOMAIN m \ {p, q} : pay_to(m, p, q, v)[a] = m[a]
    BY AccountsForm DEF pay_to, set_balance
  <1> QED
    BY <1>1, <1>2, <1>5, <1>6, <1>7, WordAssumption DEF Word

(* A payment that does not throw raises the payee's balance by the amount,   *)
(* its own payer's too; a payment of nothing changes nothing.                *)
LEMMA PaymentGains ==
    ASSUME NEW m, IsAccounts(m), NEW p \in DOMAIN m, NEW q \in DOMAIN m,
           NEW v \in Word, pay_error(m, p, q, v) = "none"
    PROVE  /\ pay_to(m, p, q, v)[q].balance - m[q].balance = v
           /\ p # q => pay_to(m, p, q, v)[p].balance - m[p].balance = - v
           /\ v = 0 => pay_to(m, p, q, v) = m
  <1>1. m \in [DOMAIN m -> Account]
    BY AccountsForm
  <1>2. m[p] \in Account /\ m[q] \in Account /\ m[p].balance \in Word /\ m[q].balance \in Word
    BY <1>1 DEF Account
  <1>3. CASE p # q
    <2>1. /\ pay_to(m, p, q, v)[p].balance + v = m[p].balance
          /\ pay_to(m, p, q, v)[q].balance = m[q].balance + v
          /\ \A a \in DOMAIN m \ {p, q} : pay_to(m, p, q, v)[a] = m[a]
      BY <1>3, PaymentConserves
    <2>2. pay_to(m, p, q, v)[p].balance \in Word
      BY <1>3, PaymentType, AccountsForm DEF Account
    <2> DEFINE n == pay_to(m, p, q, v)
    <2>3. n[q].balance - m[q].balance = v /\ n[p].balance - m[p].balance = - v
      <3> HIDE DEF n
      <3>1. /\ n[p].balance + v = m[p].balance /\ n[q].balance = m[q].balance + v
            /\ n[p].balance \in Word
        BY <2>1, <2>2 DEF n
      <3> QED
        BY <1>2, <3>1 DEF Word
    <2>4. ASSUME v = 0 PROVE n = m
      <3>1. (m[q].balance + 0) % WordMod = m[q].balance
        BY <1>2, WordAssumption, ModOnce DEF Word
      <3>2. m[p].balance - 0 = m[p].balance
        BY <1>2 DEF Word
      <3>3. set_balance(m, p, m[p].balance) = m /\ set_balance(m, q, m[q].balance) = m
        BY <1>1 DEF set_balance, Account
      <3> QED
        BY <2>4, <3>1, <3>2, <3>3 DEF pay_to
    <2> QED
      BY <2>3, <2>4
  <1>4. CASE p = q
    <2> DEFINE b == (m[q].balance + v) % WordMod
    <2>1. ~ (b < m[q].balance)
      BY <1>4 DEF pay_error
    <2>2. b = m[q].balance + v
      <3>1. m[q].balance + v \in Nat /\ m[q].balance \in 0 .. (WordMod - 1) /\ v \in 0 .. (WordMod - 1)
        BY <1>2, WordAssumption DEF Word
      <3> QED
        BY <2>1, <3>1, ModOnce, WordAssumption
    <2>3. pay_to(m, p, q, v)[q].balance = b
      BY <1>1, <1>4 DEF pay_to, set_balance, Account
    <2>4. ASSUME v = 0 PROVE pay_to(m, p, q, v) = m
      <3>1. b = m[q].balance /\ m[q].balance - v = m[q].balance
        BY <1>2, <2>2, <2>4 DEF Word
      <3>2. set_balance(m, q, m[q].balance) = m
        BY <1>1 DEF set_balance, Account
      <3> QED
        BY <1>4, <3>1, <3>2 DEF pay_to
    <2> HIDE DEF b
    <2> QED
      BY <1>2, <1>4, <2>2, <2>3, <2>4 DEF Word
  <1> QED
    BY <1>3, <1>4

-----------------------------------------------------------------------------
(* Sums of balances.  A sum is a fold over a finite set; what is proved of   *)
(* it is proved by induction over the subsets of that set.                   *)

(* Induction over the subsets of a finite set: if a set of them has every    *)
(* member all of whose proper subsets it has, it has them all.               *)
LEMMA SubsetInduction ==
    ASSUME NEW S, IsFiniteSet(S), NEW F \in SUBSET SUBSET S,
           \A D \in SUBSET S : (\A E \in SUBSET D : E # D => E \in F) => D \in F
    PROVE  F = SUBSET S
  <1> SUFFICES ASSUME (SUBSET S) \ F # {}
               PROVE  FALSE
    OBVIOUS
  <1> DEFINE R == StrictSubsetOrdering(S)
  <1>1. IsWellFoundedOn(R, SUBSET S)
    <2>1. IsWellFoundedOn(R, FiniteSubsetsOf(S))
      BY FS_StrictSubsetOrderingWellFounded
    <2>2. FiniteSubsetsOf(S) = SUBSET S
      BY FS_FiniteSubsetsOfFinite
    <2> QED
      BY <2>1, <2>2
  <1>2. \A D, E \in SUBSET S : E \subseteq D /\ E # D => <<E, D>> \in R
    BY DEF StrictSubsetOrdering
  <1> HIDE DEF R
  <1> DEFINE T == (SUBSET S) \ F
  <1>3. T \subseteq SUBSET S /\ T # {} /\ \A D \in T : D \in SUBSET S /\ D \notin F
    OBVIOUS
  <1>4. \A D \in SUBSET S : D \notin T => D \in F
    OBVIOUS
  <1> HIDE DEF T
  <1>5. PICK D \in T : \A E \in T : ~ (<<E, D>> \in R)
    BY <1>1, <1>3, WFMin
  <1>6. ASSUME NEW E \in SUBSET D, E # D
        PROVE  E \in F
    <2>1. E \in SUBSET S /\ E \subseteq D /\ D \in SUBSET S
      BY <1>3, <1>5, <1>6
    <2>2. <<E, D>> \in R
      BY <1>2, <1>6, <2>1
    <2> QED
      BY <1>4, <1>5, <2>1, <2>2
  <1> QED
    BY <1>3, <1>5, <1>6

(* f gives, for each subset of S, the sum of the balances that m has there.  *)
IsSum(f, m, S) ==
    f = [D \in SUBSET S |->
           IF D = {}
             THEN 0
             ELSE LET x == CHOOSE y \in D : TRUE
                  IN  m[x].balance + f[D \ {x}]]

Total(m, S) == (CHOOSE f : IsSum(f, m, S))[S]

(* Two such functions agree where the balances they add agree. *)
LEMMA SumsAgree ==
    ASSUME NEW m, NEW n, NEW S, NEW T, NEW f, NEW g, IsSum(f, m, S), IsSum(g, n, T),
           NEW U, IsFiniteSet(U), U \subseteq S, U \subseteq T,
           \A x \in U : m[x].balance = n[x].balance
    PROVE  f[U] = g[U]
  <1> DEFINE F == {D \in SUBSET U : f[D] = g[D]}
  <1>1. ASSUME NEW D \in SUBSET U, \A E \in SUBSET D : E # D => E \in F
        PROVE  D \in F
    <2>1. CASE D = {}
      BY <2>1 DEF IsSum
    <2>2. CASE D # {}
      <3> DEFINE x == CHOOSE y \in D : TRUE
      <3>1. x \in D
        BY <2>2
      <3>2. f[D] = m[x].balance + f[D \ {x}] /\ g[D] = n[x].balance + g[D \ {x}]
        BY <2>2 DEF IsSum
      <3> HIDE DEF x
      <3>3. D \ {x} \in F
        BY <1>1, <3>1
      <3> QED
        BY <3>1, <3>2, <3>3
    <2> QED
      BY <2>1, <2>2
  <1> HIDE DEF F
  <1>2. F \in SUBSET SUBSET U
    BY DEF F
  <1>3. F = SUBSET U
    BY <1>1, <1>2, SubsetInduction
  <1> QED
    BY <1>3 DEF F

LEMMA SumExists ==
    ASSUME NEW m, NEW S, IsFiniteSet(S)
    PROVE  \E f : IsSum(f, m, S)
  <1> DEFINE F == {D \in SUBSET S : \E f : IsSum(f, m, D)}
  <1>1. ASSUME NEW D \in SUBSET S, \A E \in SUBSET D : E # D => E \in F
        PROVE  D \in F
    <2> DEFINE x(E) == CHOOSE y \in E : TRUE
               s(E) == CHOOSE f : IsSum(f, m, E)
               rest == s(D \ {x(D)})[D \ {x(D)}]
               h == [E \in SUBSET D |->
                        IF E # D THEN s(E)[E]
                        ELSE IF D = {} THEN 0 ELSE m[x(D)].balance + rest]
    <2>1. ASSUME NEW E \in SUBSET D, E # D
          PROVE  IsSum(s(E), m, E)
      <3>1. \E f : IsSum(f, m, E)
        BY <1>1, <2>1
      <3> QED
        BY <3>1
    <2>2. ASSUME NEW E \in SUBSET D
          PROVE  h[E] = IF E = {} THEN 0 ELSE m[x(E)].balance + h[E \ {x(E)}]
      <3>1. CASE E = {}
        <4>1. CASE D = {}
          BY <3>1, <4>1
        <4>2. CASE D # {}
          <5>1. IsSum(s({}), m, {})
            BY <2>1, <4>2
          <5>2. s({})[{}] = 0
            BY <5>1 DEF IsSum
          <5> QED
            BY <3>1, <4>2, <5>2
        <4> QED
          BY <4>1, <4>2
      <3>2. CASE E # {}
        <4> DEFINE R == E \ {x(E)}
        <4>1. x(E) \in E /\ R \in SUBSET D /\ R \in SUBSET E /\ R # E /\ R # D
          BY <3>2
        <4>2. h[R] = s(R)[R]
          BY <4>1
        <4>3. CASE E = D
          BY <3>2, <4>2, <4>3
        <4>4. CASE E # D
          <5>1. IsSum(s(E), m, E) /\ IsSum(s(R), m, R)
            BY <2>1, <4>1, <4>4
          <5>2. h[E] = s(E)[E] /\ s(E)[E] = m[x(E)].balance + s(E)[R]
            <6> HIDE DEF s
            <6> QED
              BY <3>2, <4>4, <5>1 DEF IsSum
          <5>3. s(E)[R] = s(R)[R]
            <6>1. IsFiniteSet(R)
              BY <4>1, FS_Subset
            <6> HIDE DEF s, x, R
            <6> QED
              BY <4>1, <5>1, <6>1, SumsAgree
          <5> HIDE DEF h, s, R
          <5> QED
            BY <3>2, <4>2, <5>2, <5>3 DEF R
        <4> QED
          BY <4>3, <4>4
      <3> QED
        BY <3>1, <3>2
    <2>3. IsSum(h, m, D)
      <3>1. h = [E \in SUBSET D |-> h[E]]
        OBVIOUS
      <3> HIDE DEF h
      <3> QED
        BY <2>2, <3>1 DEF IsSum
    <2> QED
      BY <2>3
  <1> HIDE DEF F
  <1>2. F \in SUBSET SUBSET S
    BY DEF F
  <1>3. F = SUBSET S
    BY <1>1, <1>2, SubsetInduction
  <1> QED
    BY <1>3 DEF F

(* The total of a set: nothing for the empty set, and otherwise the balance  *)
(* of any one of its addresses and the total of the others.                  *)
LEMMA TotalIsSum ==
    ASSUME NEW m, NEW S, IsFiniteSet(S), NEW D \in SUBSET S
    PROVE  \A f : IsSum(f, m, S) => Total(m, D) = f[D]
  <1> DEFINE s == CHOOSE f : IsSum(f, m, D)
  <1>1. IsFiniteSet(D)
    BY FS_Subset
  <1>2. IsSum(s, m, D)
    <2>1. \E f : IsSum(f, m, D)
      BY <1>1, SumExists
    <2> QED
      BY <2>1
  <1>3. Total(m, D) = s[D]
    BY DEF Total
  <1> HIDE DEF s
  <1> TAKE f
  <1> HAVE IsSum(f, m, S)
  <1> QED
    BY <1>1, <1>2, <1>3, SumsAgree

LEMMA TotalChoice ==
    ASSUME NEW m, NEW S, IsFiniteSet(S)
    PROVE  /\ Total(m, {}) = 0
           /\ \A D \in SUBSET S : D # {} =>
                 \E x \in D : Total(m, D) = m[x].balance + Total(m, D \ {x})
  <1>1. PICK f : IsSum(f, m, S)
    BY SumExists
  <1>2. f[{}] = 0 /\ \A D \in SUBSET S : D # {} =>
                        \E x \in D : f[D] = m[x].balance + f[D \ {x}]
    BY <1>1 DEF IsSum
  <1>3. \A D \in SUBSET S : Total(m, D) = f[D]
    BY <1>1, TotalIsSum
  <1>4. {} \in SUBSET S /\ \A D \in SUBSET S : \A x \in D : D \ {x} \in SUBSET S
    OBVIOUS
  <1> QED
    BY <1>2, <1>3, <1>4

LEMMA TotalSame ==
    ASSUME NEW m, NEW n, NEW S, IsFiniteSet(S), \A x \in S : m[x].balance = n[x].balance
    PROVE  Total(m, S) = Total(n, S)
  <1>1. PICK f : IsSum(f, m, S)
    BY SumExists
  <1>2. PICK g : IsSum(g, n, S)
    BY SumExists
  <1> QED
    BY <1>1, <1>2, TotalIsSum, SumsAgree

LEMMA TotalType ==
    ASSUME NEW m, NEW S, IsFiniteSet(S), \A x \in S : m[x].balance \in Nat
    PROVE  Total(m, S) \in Nat
  <1> DEFINE F == {D \in SUBSET S : Total(m, D) \in Nat}
  <1>1. ASSUME NEW D \in SUBSET S, \A E \in SUBSET D : E # D => E \in F
        PROVE  D \in F
    <2>1. CASE D = {}
      BY <2>1, TotalChoice
    <2>2. CASE D # {}
      <3>1. PICK x \in D : Total(m, D) = m[x].balance + Total(m, D \ {x})
        BY <2>2, TotalChoice
      <3>2. Total(m, D \ {x}) \in Nat
        BY <1>1
      <3> QED
        BY <3>1, <3>2
    <2> QED
      BY <2>1, <2>2
  <1> HIDE DEF F
  <1>2. F \in SUBSET SUBSET S
    BY DEF F
  <1>3. F = SUBSET S
    BY <1>1, <1>2, SubsetInduction
  <1> QED
    BY <1>3 DEF F

LEMMA TotalRemove ==
    ASSUME NEW m, NEW S, IsFiniteSet(S), \A x \in S : m[x].balance \in Nat
    PROVE  \A x \in S : Total(m, S) = m[x].balance + Total(m, S \ {x})
  <1> DEFINE F == {D \in SUBSET S : \A x \in D :
                       Total(m, D) = m[x].balance + Total(m, D \ {x})}
  <1>0. \A D \in SUBSET S : Total(m, D) \in Nat
    BY TotalType, FS_Subset
  <1>1. ASSUME NEW D \in SUBSET S, \A E \in SUBSET D : E # D => E \in F
        PROVE  D \in F
    <2> SUFFICES ASSUME NEW y \in D
                 PROVE  Total(m, D) = m[y].balance + Total(m, D \ {y})
      OBVIOUS
    <2>1. PICK x \in D : Total(m, D) = m[x].balance + Total(m, D \ {x})
      BY TotalChoice
    <2>2. CASE x # y
      <3> DEFINE R == D \ {x, y}
      <3>1. /\ D \ {x} \in F /\ D \ {y} \in F
            /\ y \in D \ {x} /\ x \in D \ {y}
            /\ (D \ {x}) \ {y} = R /\ (D \ {y}) \ {x} = R
        BY <1>1, <2>2
      <3>2. /\ Total(m, D \ {x}) = m[y].balance + Total(m, R)
            /\ Total(m, D \ {y}) = m[x].balance + Total(m, R)
        BY <3>1
      <3>3. Total(m, R) \in Nat /\ m[x].balance \in Nat /\ m[y].balance \in Nat
        BY <1>0
      <3> HIDE DEF R
      <3> QED
        BY <2>1, <3>2, <3>3
    <2> QED
      BY <2>1, <2>2
  <1> HIDE DEF F
  <1>2. F \in SUBSET SUBSET S
    BY DEF F
  <1>3. F = SUBSET S
    BY <1>1, <1>2, SubsetInduction
  <1> QED
    BY <1>3 DEF F

LEMMA TotalSplit ==
    ASSUME NEW m, NEW S, IsFiniteSet(S), \A x \in S : m[x].balance \in Nat, NEW T
    PROVE  Total(m, S) = Total(m, S \ T) + Total(m, S \cap T)
  <1> DEFINE F == {D \in SUBSET S : Total(m, D) = Total(m, D \ T) + Total(m, D \cap T)}
  <1>0. \A D \in SUBSET S : /\ Total(m, D) \in Nat
                             /\ \A x \in D : Total(m, D) = m[x].balance + Total(m, D \ {x})
    BY TotalType, TotalRemove, FS_Subset
  <1>1. ASSUME NEW D \in SUBSET S, \A E \in SUBSET D : E # D => E \in F
        PROVE  D \in F
    <2>1. CASE D = {}
      BY <2>1, TotalChoice
    <2>2. CASE D # {}
      <3>1. PICK x \in D : TRUE
        BY <2>2
      <3>2. D \ {x} \in F
        BY <1>1
      <3> DEFINE R == D \ {x}
      <3>3. /\ Total(m, R) = Total(m, R \ T) + Total(m, R \cap T)
            /\ Total(m, D) = m[x].balance + Total(m, R)
            /\ m[x].balance \in Nat
            /\ Total(m, R \ T) \in Nat /\ Total(m, R \cap T) \in Nat
        BY <1>0, <3>2
      <3>4. CASE x \in T
        <4>1. D \ T = R \ T /\ (D \cap T) \ {x} = R \cap T /\ x \in D \cap T
              /\ D \cap T \in SUBSET S
          BY <3>4
        <4>2. Total(m, D \cap T) = m[x].balance + Total(m, R \cap T)
          BY <1>0, <4>1
        <4>3. Total(m, D \ T) = Total(m, R \ T)
          BY <4>1
        <4> HIDE DEF R
        <4>4. Total(m, D) = Total(m, D \ T) + Total(m, D \cap T)
          BY <3>3, <4>2, <4>3, SMTT(20)
        <4> QED
          BY <4>4
      <3>5. CASE x \notin T
        <4>1. D \cap T = R \cap T /\ (D \ T) \ {x} = R \ T /\ x \in D \ T
              /\ D \ T \in SUBSET S
          BY <3>5
        <4>2. Total(m, D \ T) = m[x].balance + Total(m, R \ T)
          BY <1>0, <4>1
        <4>3. Total(m, D \cap T) = Total(m, R \cap T)
          BY <4>1
        <4> HIDE DEF R
        <4>4. Total(m, D) = Total(m, D \ T) + Total(m, D \cap T)
          BY <3>3, <4>2, <4>3, SMTT(20)
        <4> QED
          BY <4>4
      <3> QED
        BY <3>4, <3>5
    <2> QED
      BY <2>1, <2>2
  <1> HIDE DEF F
  <1>2. F \in SUBSET SUBSET S
    BY DEF F
  <1>3. F = SUBSET S
    BY <1>1, <1>2, SubsetInduction
  <1> QED
    BY <1>3 DEF F

LEMMA SupplyIsTotal ==
    ASSUME NEW m
    PROVE  Supply(m) = Total(m, DOMAIN m)
  BY DEF Supply, MapThenSumSet, MapThenFoldSet, Total, IsSum

(* An accounts map has finitely many addresses, and balances that add up.    *)
LEMMA AccountsFinite ==
    ASSUME NEW m, IsAccounts(m)
    PROVE  /\ IsFiniteSet(DOMAIN m)
           /\ \A x \in DOMAIN m : m[x].balance \in Nat
           /\ Supply(m) = Total(m, DOMAIN m)
           /\ Supply(m) \in Nat
  <1>1. IsFiniteSet(DOMAIN m)
    BY AccountsForm, AddrAssumption, FS_Subset
  <1>2. \A x \in DOMAIN m : m[x].balance \in Nat
    BY AccountsForm, WordAssumption DEF Account, Word
  <1> QED
    BY <1>1, <1>2, SupplyIsTotal, TotalType

(* The supply depends on the addresses and their balances only. *)
LEMMA SupplySame ==
    ASSUME NEW m, IsAccounts(m), NEW n, DOMAIN n = DOMAIN m,
           \A x \in DOMAIN m : n[x].balance = m[x].balance
    PROVE  Supply(n) = Supply(m)
  <1>1. Total(n, DOMAIN m) = Total(m, DOMAIN m)
    BY AccountsFinite, TotalSame
  <1> QED
    BY <1>1, SupplyIsTotal

(* A new account adds its balance. *)
LEMMA SupplyCreate ==
    ASSUME NEW m, IsAccounts(m), NEW a \in Addr \ DOMAIN m, NEW b \in Word
    PROVE  Supply(gs_create(m, a, b)) = Supply(m) + b
  <1> DEFINE n == gs_create(m, a, b)
  <1>1. IsAccounts(n) /\ DOMAIN n = DOMAIN m \cup {a}
    BY InsertAccount, WordAssumption DEF gs_create, NewAccount, Account, Nonce
  <1>2. n[a].balance = b /\ \A x \in DOMAIN m : n[x].balance = m[x].balance
    BY DEF gs_create, gs_insert, NewAccount
  <1> HIDE DEF n
  <1>3. Total(n, DOMAIN n) = b + Total(n, DOMAIN n \ {a})
    BY <1>1, <1>2, AccountsFinite, TotalRemove
  <1>4. Total(n, DOMAIN n \ {a}) = Total(m, DOMAIN m)
    <2>1. DOMAIN n \ {a} = DOMAIN m
      BY <1>1
    <2> QED
      BY <1>2, <2>1, AccountsFinite, TotalSame
  <1>5. Supply(n) = b + Supply(m)
    BY <1>1, <1>3, <1>4, SupplyIsTotal
  <1> QED
    BY <1>5, AccountsFinite, WordAssumption DEF n, Word

(* Looking an account up adds nothing. *)
LEMMA SupplyGet ==
    ASSUME NEW m, IsAccounts(m), NEW a \in Addr
    PROVE  Supply(gs_get(m, a)) = Supply(m)
  <1>1. CASE a \in DOMAIN m
    BY <1>1 DEF gs_get
  <1>2. CASE a \notin DOMAIN m
    <2>1. Supply(gs_create(m, a, 0)) = Supply(m) + 0
      BY <1>2, SupplyCreate, WordAssumption DEF Word
    <2> QED
      BY <1>2, <2>1, AccountsFinite DEF gs_get
  <1> QED
    BY <1>1, <1>2

(* A payment that does not throw keeps the supply, unless an account pays     *)
(* itself: then the amount is added to it.                                    *)
THEOREM PaymentSupply ==
    ASSUME NEW m, IsAccounts(m), NEW p \in DOMAIN m, NEW q \in DOMAIN m,
           NEW v \in Word, pay_error(m, p, q, v) = "none"
    PROVE  Supply(pay_to(m, p, q, v)) = IF p = q THEN Supply(m) + v ELSE Supply(m)
  <1> DEFINE n == pay_to(m, p, q, v)
             R == DOMAIN m \ {p, q}
  <1>1. IsAccounts(n) /\ DOMAIN n = DOMAIN m
    BY PaymentType
  <1>2. /\ n[q].balance - m[q].balance = v
        /\ p # q => n[p].balance - m[p].balance = - v
    BY PaymentGains
  <1>3. \A x \in R : n[x] = m[x]
    BY AccountsForm DEF pay_to, set_balance
  <1> HIDE DEF n, R
  <1>4. Total(n, R) = Total(m, R)
    BY <1>3, AccountsFinite, TotalSame, FS_Subset DEF R
  <1>5. /\ Total(m, DOMAIN m) = m[q].balance + Total(m, DOMAIN m \ {q})
        /\ Total(n, DOMAIN m) = n[q].balance + Total(n, DOMAIN m \ {q})
    BY <1>1, AccountsFinite, TotalRemove
  <1>6. /\ m[p].balance \in Nat /\ n[p].balance \in Nat
        /\ m[q].balance \in Nat /\ n[q].balance \in Nat /\ v \in Nat
    BY <1>1, AccountsFinite, WordAssumption DEF Word
  <1>7. Total(m, R) \in Nat
    BY AccountsFinite, TotalType, FS_Subset DEF R
  <1>8. Supply(n) = Total(n, DOMAIN m) /\ Supply(m) = Total(m, DOMAIN m)
    BY <1>1, AccountsFinite
  <1>9. CASE p = q
    <2>1. DOMAIN m \ {q} = R
      BY <1>9 DEF R
    <2>2. /\ Total(m, DOMAIN m) = m[q].balance + Total(m, R)
          /\ Total(n, DOMAIN m) = n[q].balance + Total(n, R)
      BY <1>5, <2>1
    <2>3. Supply(n) = Supply(m) + v
      BY <1>2, <1>4, <1>6, <1>7, <1>8, <2>2
    <2> QED
      BY <1>9, <2>3 DEF n
  <1>10. CASE p # q
    <2>1. (DOMAIN m \ {q}) \ {p} = R /\ p \in DOMAIN m \ {q}
      BY <1>10 DEF R
    <2>2. IsFiniteSet(DOMAIN m \ {q})
      BY AccountsFinite, FS_Subset
    <2>3. /\ Total(m, DOMAIN m \ {q}) = m[p].balance + Total(m, R)
          /\ Total(n, DOMAIN m \ {q}) = n[p].balance + Total(n, R)
      BY <1>1, <2>1, <2>2, AccountsFinite, TotalRemove
    <2>4. Supply(n) = Supply(m)
      BY <1>2, <1>4, <1>5, <1>6, <1>7, <1>8, <1>10, <2>3
    <2> QED
      BY <1>10, <2>4 DEF n
  <1> QED
    BY <1>9, <1>10

(* What a removal takes from the supply is what the removed accounts held.    *)
LEMMA SupplyRemove ==
    ASSUME NEW m, IsAccounts(m), NEW D
    PROVE  Supply(m) = Supply(gs_remove(m, D))
                         + Supply([x \in DOMAIN m \cap D |-> m[x]])
  <1> DEFINE n == [x \in DOMAIN m \cap D |-> m[x]]
             k == gs_remove(m, D)
  <1>1. Total(m, DOMAIN m) = Total(m, DOMAIN m \ D) + Total(m, DOMAIN m \cap D)
    <2> DEFINE S == DOMAIN m
    <2>1. IsFiniteSet(S) /\ \A x \in S : m[x].balance \in Nat
      BY AccountsFinite
    <2> HIDE DEF S
    <2>2. Total(m, S) = Total(m, S \ D) + Total(m, S \cap D)
      BY <2>1, TotalSplit
    <2> QED
      BY <2>2 DEF S
  <1>2. IsFiniteSet(DOMAIN m \ D) /\ IsFiniteSet(DOMAIN m \cap D)
    BY AccountsFinite, FS_Subset
  <1>3. /\ DOMAIN k = DOMAIN m \ D /\ \A x \in DOMAIN m \ D : k[x] = m[x]
        /\ DOMAIN n = DOMAIN m \cap D /\ \A x \in DOMAIN m \cap D : n[x] = m[x]
    BY DEF gs_remove
  <1> HIDE DEF n, k
  <1>4. Total(k, DOMAIN k) = Total(m, DOMAIN m \ D)
    BY <1>2, <1>3, TotalSame
  <1>5. Total(n, DOMAIN n) = Total(m, DOMAIN m \cap D)
    BY <1>2, <1>3, TotalSame
  <1>6. Supply(m) = Supply(k) + Supply(n)
    BY <1>1, <1>4, <1>5, SupplyIsTotal
  <1> QED
    BY <1>6 DEF n, k
=============================================================================
