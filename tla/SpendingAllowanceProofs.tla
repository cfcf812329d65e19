------------------------ MODULE SpendingAllowanceProofs ------------------------
(***************************************************************************)
(* The rolling allowance of SpendingLedger, for every set of vaults,       *)
(* lifecycles and coins and every debit, allowance and window.  First what *)
(* addOutflow computes, then the invariant of the charges, then the two    *)
(* promises: what the ledger counts, and what the network executes.        *)
(***************************************************************************)
EXTENDS SpendingLedgerProofs, FiniteSetTheorems, WellFoundedInduction

(***************************************************************************)
(* The sum.                                                                *)
(***************************************************************************)

(* Induction over finite sets, with a set for the predicate: a set of sets *)
(* that holds {} and is closed under adding an element of S holds every    *)
(* finite subset of S.                                                     *)
LEMMA FiniteSetsGrow ==
    ASSUME NEW S, NEW Good,
           {} \in Good,
           \A T \in Good : \A x \in S : T \in SUBSET S /\ x \notin T => T \cup {x} \in Good
    PROVE  \A T \in SUBSET S : IsFiniteSet(T) => T \in Good
  <1> DEFINE Bad == FiniteSubsetsOf(S) \ Good
  <1> SUFFICES ASSUME Bad # {} PROVE FALSE
    BY Zenon DEF FiniteSubsetsOf
  <1>1. IsWellFoundedOn(StrictSubsetOrdering(S), FiniteSubsetsOf(S))
    BY FS_StrictSubsetOrderingWellFounded, Zenon
  <1>2. PICK m \in Bad : \A u \in Bad : ~(<<u, m>> \in StrictSubsetOrdering(S))
    <2>1. Bad \subseteq FiniteSubsetsOf(S)
      OBVIOUS
    <2> HIDE DEF Bad
    <2>2. QED BY <1>1, <2>1, WFMin, Zenon
  <1>3. PICK x \in m : TRUE
    BY Zenon
  <1>4. m \ {x} \in SUBSET S /\ IsFiniteSet(m \ {x})
    BY FS_Subset, Zenon DEF FiniteSubsetsOf
  <1>5. <<m \ {x}, m>> \in StrictSubsetOrdering(S)
    BY DEF StrictSubsetOrdering, FiniteSubsetsOf
  <1>6. m \ {x} \in Good
    BY <1>2, <1>4, <1>5, Zenon DEF FiniteSubsetsOf
  <1>7. (m \ {x}) \cup {x} \in Good
    BY <1>4, <1>6, Zenon DEF FiniteSubsetsOf
  <1>8. (m \ {x}) \cup {x} = m
    OBVIOUS
  <1> QED BY <1>7, <1>8, Zenon

(* addOutflow is the recursive function of the fold, applied to the set:   *)
(* some element is taken, and the rest is added up.                        *)
LEMMA OutflowDef ==
    ASSUME NEW ls
    PROVE addOutflow(ls) =
       (CHOOSE iter : iter = [s \in SUBSET ls |-> IF s = {} THEN 0 ELSE Debit[CHOOSE x \in s : TRUE] + iter[s \ {CHOOSE x \in s : TRUE}]])[ls]
  BY DEF addOutflow, MapThenSumSet, MapThenFoldSet
(* g adds up debits on the subsets of S, whichever element is taken first. *)
Adds(g, S) ==
    /\ g \in [SUBSET S -> Nat]
    /\ g[{}] = 0
    /\ \A T \in SUBSET S : \A x \in T : g[T] = Debit[x] + g[T \ {x}]
    /\ \A T \in SUBSET S : \A U \in SUBSET T : g[U] <= g[T]

(* Every finite set of lifecycles has such a sum.                          *)
LEMMA AddsExists ==
    \A S \in SUBSET Lifecycles : IsFiniteSet(S) => \E g : Adds(g, S)
  <1> DEFINE Good == {S \in SUBSET Lifecycles : \E g : Adds(g, S)}
  <1>1. {} \in Good
    <2>1. Adds([T \in {{}} |-> 0], {})
      BY DEF Adds
    <2> QED BY <2>1, Zenon
  <1>2. ASSUME NEW S \in Good, NEW y \in Lifecycles, y \notin S
        PROVE  S \cup {y} \in Good
    <2>1. PICK g : Adds(g, S)
      BY Zenon
    <2> DEFINE S1 == S \cup {y}
               h == [T \in SUBSET S1 |-> IF y \in T THEN Debit[y] + g[T \ {y}] ELSE g[T]]
    <2>2. Debit[y] \in Nat /\ \A x \in S : Debit[x] \in Nat
      BY AmountAssumption
    <2>3. \A T \in SUBSET S1 : T \ {y} \in SUBSET S /\ (y \notin T => T \in SUBSET S)
      OBVIOUS
    <2>4. \A T \in SUBSET S : g[T] \in Nat
      BY <2>1 DEF Adds
    <2>5. h \in [SUBSET S1 -> Nat]
      BY <2>2, <2>3, <2>4
    <2>6. h[{}] = 0
      BY <2>1, <1>2 DEF Adds
    <2>7. ASSUME NEW T \in SUBSET S1, NEW x \in T PROVE h[T] = Debit[x] + h[T \ {x}]
      <3>1. CASE x = y
        BY <3>1, <2>3
      <3>2. CASE x # y /\ y \in T
        <4>1. x \in T \ {y} /\ x \in S
          BY <3>2
        <4>2. h[T] = Debit[y] + g[T \ {y}]
          BY <3>2
        <4>3. h[T \ {x}] = Debit[y] + g[(T \ {x}) \ {y}]
          BY <3>2
        <4>4. (T \ {x}) \ {y} = (T \ {y}) \ {x}
          OBVIOUS
        <4>5. g[T \ {y}] = Debit[x] + g[(T \ {y}) \ {x}]
          BY <4>1, <2>1, <2>3, Zenon DEF Adds
        <4>6. (T \ {y}) \ {x} \in SUBSET S
          BY <2>3
        <4>7. /\ g[(T \ {y}) \ {x}] \in Nat /\ Debit[x] \in Nat
          BY <4>1, <4>6, <2>2, <2>4, Zenon
        <4>8. \A a, b, c \in Nat : a + (b + c) = b + (a + c)
          OBVIOUS
        <4> DEFINE w == g[(T \ {y}) \ {x}]
        <4>9. Debit[y] + (Debit[x] + w) = Debit[x] + (Debit[y] + w)
          BY <4>7, <4>8, <2>2, Zenon
        <4> HIDE DEF h
        <4> QED BY <4>2, <4>3, <4>4, <4>5, <4>9, Zenon
      <3>3. CASE y \notin T
        <4>1. T \in SUBSET S /\ T \ {x} \in SUBSET S
          BY <3>3, <2>3
        <4>2. h[T] = g[T] /\ h[T \ {x}] = g[T \ {x}]
          BY <3>3
        <4> QED BY <4>1, <4>2, <2>1, Zenon DEF Adds
      <3> QED BY <3>1, <3>2, <3>3, Zenon
    <2>8. ASSUME NEW T \in SUBSET S1, NEW U \in SUBSET T PROVE h[U] <= h[T]
      <3>1. /\ U \in SUBSET S1 /\ U \ {y} \in SUBSET S /\ T \ {y} \in SUBSET S
            /\ U \ {y} \in SUBSET (T \ {y})
        OBVIOUS
      <3>2. g[U \ {y}] <= g[T \ {y}] /\ g[U \ {y}] \in Nat /\ g[T \ {y}] \in Nat
        BY <3>1, <2>1, <2>4, Zenon DEF Adds
      <3>3. /\ h[U] = IF y \in U THEN Debit[y] + g[U \ {y}] ELSE g[U]
            /\ h[T] = IF y \in T THEN Debit[y] + g[T \ {y}] ELSE g[T]
        BY <3>1, Zenon
      <3>4. (y \notin U => U \ {y} = U) /\ (y \notin T => T \ {y} = T) /\ (y \in U => y \in T)
        OBVIOUS
      <3>5. \A a, b, c \in Nat : b <= c => a + b <= a + c /\ b <= a + c
        OBVIOUS
      <3> HIDE DEF h
      <3> QED BY <3>2, <3>3, <3>4, <3>5, <2>2, Zenon
    <2>9. Adds(h, S1)
      <3> HIDE DEF h, S1
      <3> QED BY <2>5, <2>6, <2>7, <2>8, Zenon DEF Adds
    <2> HIDE DEF h
    <2> QED BY <2>9, Zenon
  <1> HIDE DEF Good
  <1>3. \A S \in SUBSET Lifecycles : IsFiniteSet(S) => S \in Good
    BY <1>1, <1>2, FiniteSetsGrow, Zenon
  <1> QED BY <1>3, Zenon DEF Good

(* The fold takes the elements in an order of its own; any sum agrees with *)
(* it.                                                                     *)
LEMMA OutflowIsSum ==
    ASSUME NEW S \in SUBSET Lifecycles, IsFiniteSet(S), NEW g, Adds(g, S)
    PROVE  addOutflow(S) = g[S]
  <1> DEFINE first(s) == CHOOSE x \in s : TRUE
             Rec(f) == f = [s \in SUBSET S |-> IF s = {} THEN 0 ELSE Debit[first(s)] + f[s \ {first(s)}]]
             iter == CHOOSE f : Rec(f)
  <1>1. Rec(g)
    <2>1. g = [s \in SUBSET S |-> g[s]]
      BY DEF Adds
    <2>2. ASSUME NEW s \in SUBSET S
          PROVE g[s] = IF s = {} THEN 0 ELSE Debit[first(s)] + g[s \ {first(s)}]
      <3>1. s # {} => first(s) \in s
        BY Zenon
      <3> QED BY <3>1, Zenon DEF Adds
    <2> HIDE DEF first
    <2> QED BY <2>1, <2>2, Zenon
  <1>2. Rec(iter)
    <2> HIDE DEF Rec
    <2> QED BY <1>1, Zenon
  <1>3. addOutflow(S) = iter[S]
    BY OutflowDef, Zenon
  <1> HIDE DEF iter
  <1>4. \A T \in SUBSET S : T # {} => first(T) \in T
    BY Zenon
  <1>5. \A T \in SUBSET S : iter[T] = IF T = {} THEN 0 ELSE Debit[first(T)] + iter[T \ {first(T)}]
    BY <1>2, Zenon
  <1> HIDE DEF first, Rec
  <1>6. ASSUME NEW T \in SUBSET S, iter[T] # g[T] PROVE FALSE
    <2> DEFINE Bad == {u \in SUBSET S : iter[u] # g[u]}
    <2>1. Bad \subseteq FiniteSubsetsOf(S) /\ Bad # {}
      BY <1>6, FS_Subset, Zenon DEF FiniteSubsetsOf
    <2>2. PICK m \in Bad : \A u \in Bad : ~(<<u, m>> \in StrictSubsetOrdering(S))
      <3> HIDE DEF Bad
      <3> QED BY <2>1, FS_StrictSubsetOrderingWellFounded, WFMin, Zenon
    <2>3. m # {}
      BY <1>5, Zenon DEF Adds
    <2> DEFINE x == first(m)
               n == m \ {x}
    <2>4. x \in m /\ n \in SUBSET S
      BY <1>4, <2>3, Zenon
    <2>5. <<n, m>> \in StrictSubsetOrdering(S)
      BY <2>4 DEF StrictSubsetOrdering
    <2>6. iter[n] = g[n]
      BY <2>2, <2>4, <2>5, Zenon
    <2>7. iter[m] = Debit[x] + iter[n] /\ g[m] = Debit[x] + g[n]
      BY <1>5, <2>3, <2>4, Zenon DEF Adds
    <2> QED BY <2>6, <2>7, Zenon
  <1> QED BY <1>3, <1>6, Zenon

(* A sum on a set is a sum on each of its subsets.                         *)
LEMMA AddsBelow ==
    ASSUME NEW S, NEW T \in SUBSET S, NEW g, Adds(g, S)
    PROVE  Adds([U \in SUBSET T |-> g[U]], T)
  <1> DEFINE h == [U \in SUBSET T |-> g[U]]
  <1>1. \A U \in SUBSET T : U \in SUBSET S /\ h[U] = g[U]
    OBVIOUS
  <1>2. \A U \in SUBSET T : \A x \in U : U \ {x} \in SUBSET T
    OBVIOUS
  <1>3. \A U \in SUBSET T : \A V \in SUBSET U : V \in SUBSET T
    OBVIOUS
  <1>4. h \in [SUBSET T -> Nat]
    BY <1>1 DEF Adds
  <1>5. {} \in SUBSET T
    OBVIOUS
  <1> HIDE DEF h
  <1>6. Adds(h, T)
    BY <1>1, <1>2, <1>3, <1>4, <1>5, Zenon DEF Adds
  <1> QED BY <1>6, Zenon DEF h

(* One sum gives the outflow of every subset of a finite set.              *)
LEMMA OutflowOf ==
    ASSUME NEW S \in SUBSET Lifecycles, IsFiniteSet(S)
    PROVE  \E g : Adds(g, S) /\ \A T \in SUBSET S : addOutflow(T) = g[T]
  <1>1. PICK g : Adds(g, S)
    BY AddsExists, Zenon
  <1>2. ASSUME NEW T \in SUBSET S PROVE addOutflow(T) = g[T]
    <2>1. T \in SUBSET Lifecycles /\ IsFiniteSet(T)
      BY FS_Subset, Zenon
    <2>2. addOutflow(T) = [U \in SUBSET T |-> g[U]][T]
      BY <1>1, <2>1, AddsBelow, OutflowIsSum, Zenon
    <2> QED BY <2>2, Zenon
  <1> QED BY <1>1, <1>2, Zenon

(* The outflow of a finite set of lifecycles is an amount.                 *)
LEMMA OutflowType ==
    ASSUME NEW S \in SUBSET Lifecycles, IsFiniteSet(S)
    PROVE  addOutflow(S) \in Nat
  <1>1. PICK g : Adds(g, S) /\ \A T \in SUBSET S : addOutflow(T) = g[T]
    BY OutflowOf, Zenon
  <1> QED BY <1>1 DEF Adds

(* Nothing flows out of an empty set.                                      *)
LEMMA OutflowEmpty == addOutflow({}) = 0
  <1>1. IsFiniteSet({})
    BY FS_EmptySet, Zenon
  <1>2. PICK g : Adds(g, {}) /\ \A T \in SUBSET {} : addOutflow(T) = g[T]
    BY <1>1, OutflowOf, Zenon
  <1> QED BY <1>2, Zenon DEF Adds

(* A smaller set of lifecycles has no larger outflow.                      *)
LEMMA OutflowMonotonic ==
    ASSUME NEW S \in SUBSET Lifecycles, IsFiniteSet(S), NEW T \in SUBSET S
    PROVE  addOutflow(T) <= addOutflow(S)
  <1>1. PICK g : Adds(g, S) /\ \A U \in SUBSET S : addOutflow(U) = g[U]
    BY OutflowOf, Zenon
  <1>2. S \in SUBSET S
    OBVIOUS
  <1>3. g[T] <= g[S]
    BY <1>1, <1>2, Zenon DEF Adds
  <1> QED BY <1>1, <1>2, <1>3, Zenon

(* What fits into an allowance still fits when lifecycles are left out.    *)
LEMMA OutflowWithin ==
    ASSUME NEW S \in SUBSET Lifecycles, IsFiniteSet(S), NEW T \in SUBSET S,
           NEW v \in Vaults, addOutflow(S) <= Allowance[v]
    PROVE  IsFiniteSet(T) /\ addOutflow(T) <= Allowance[v]
  <1>1. T \in SUBSET Lifecycles /\ IsFiniteSet(T)
    BY FS_Subset, Zenon
  <1>2. addOutflow(T) \in Nat /\ addOutflow(S) \in Nat /\ Allowance[v] \in Nat
    BY <1>1, OutflowType, AmountAssumption, Zenon
  <1>3. addOutflow(T) <= addOutflow(S)
    BY OutflowMonotonic, Zenon
  <1>4. \A a, b, c \in Nat : a <= b /\ b <= c => a <= c
    OBVIOUS
  <1> QED
    BY <1>1, <1>2, <1>3, <1>4, Zenon

(* One more lifecycle adds at most its debit.                              *)
LEMMA OutflowOneMore ==
    ASSUME NEW S \in SUBSET Lifecycles, IsFiniteSet(S), NEW l \in Lifecycles
    PROVE  addOutflow(S \cup {l}) <= Debit[l] + addOutflow(S)
  <1> DEFINE U == S \cup {l}
  <1>1. U \in SUBSET Lifecycles /\ IsFiniteSet(U)
    BY FS_AddElement, Zenon
  <1>2. PICK g : Adds(g, U) /\ \A T \in SUBSET U : addOutflow(T) = g[T]
    BY <1>1, OutflowOf, Zenon
  <1>3. S \in SUBSET U /\ U \in SUBSET U /\ l \in U /\ U \ {l} \in SUBSET S /\ U \ {l} \in SUBSET U
    OBVIOUS
  <1> HIDE DEF U
  <1>4. g[U] = Debit[l] + g[U \ {l}] /\ g[U \ {l}] <= g[S] /\ g[S] \in Nat /\ g[U \ {l}] \in Nat
    BY <1>2, <1>3 DEF Adds
  <1>5. Debit[l] \in Nat
    BY AmountAssumption
  <1>6. \A a, b, c \in Nat : b <= c => a + b <= a + c
    OBVIOUS
  <1>7. g[U] <= Debit[l] + g[S]
    BY <1>4, <1>5, <1>6, Zenon
  <1>8. addOutflow(U) = g[U] /\ addOutflow(S) = g[S]
    BY <1>2, <1>3, Zenon
  <1>9. addOutflow(U) <= Debit[l] + addOutflow(S)
    BY <1>7, <1>8, Zenon
  <1> QED BY <1>9, Zenon DEF U
-----------------------------------------------------------------------------
(***************************************************************************)
(* The charges.                                                            *)
(***************************************************************************)

(* An Ark payment owes while it blocks its vault, and once it is finalized *)
(* for the window after its stamp.                                         *)
VtxoOwes(r, t) ==
    \/ vtxoStateBlocksNewOperation(r.state)
    \/ r.state = "finalized" /\ t <= r.created + Window

(* Which lifecycles owe, one kind at a time: the charge of a journal lasts *)
(* as long as it is active, the charge of a reservation may lapse earlier. *)
OwesByKind ==
    /\ \A o \in VtxoOps : Owes(o) <=> VtxoOwes(vtxo[o], now)
    /\ \A p \in Renewals : Owes(p) <=> spendingRenewalCharged(p)
    /\ \A d \in Delegations : Owes(d) <=> delegationCharged(d)

(* A lifecycle owes as its kind says.                                      *)
LEMMA OwesKinds == TypeOK => OwesByKind
  <1> SUFFICES ASSUME TypeOK PROVE OwesByKind
    OBVIOUS
  <1>1. \A o \in VtxoOps : o \in ChargedLifecycles(vtxo) <=> VtxoCharged(vtxo[o])
    BY LifecycleAssumption, Zenon DEF ChargedLifecycles
  <1>2. \A p \in Renewals : p \in ChargedLifecycles(vtxo) <=> spendingRenewalCharged(p)
    BY LifecycleAssumption, Zenon DEF ChargedLifecycles
  <1>3. \A d \in Delegations : d \in ChargedLifecycles(vtxo) <=> delegationCharged(d)
    BY LifecycleAssumption, Zenon DEF ChargedLifecycles
  <1>4. ASSUME NEW o \in VtxoOps PROVE Owes(o) <=> VtxoOwes(vtxo[o], now)
    <2>1. vtxo[o].state \in VtxoStates
      BY Zenon DEF TypeOK, VtxoRow
    <2> QED
      BY <1>1, <2>1, ActiveKinds, Zenon
         DEF Owes, VtxoOwes, VtxoCharged, vtxoStateBlocksNewOperation, VtxoStates,
             vtxoStateCountsTowardAllowance, vtxoStateAwaitingSettlement
  <1>5. ASSUME NEW p \in Renewals PROVE Owes(p) <=> spendingRenewalCharged(p)
    BY <1>2, ActiveKinds, Zenon DEF Owes, spendingRenewalCharged
  <1>6. ASSUME NEW d \in Delegations PROVE Owes(d) <=> delegationCharged(d)
    BY <1>3, ActiveKinds, Zenon DEF Owes, delegationCharged
  <1> QED
    BY <1>4, <1>5, <1>6, Zenon DEF OwesByKind

(* The same after the step.                                                *)
LEMMA OwesKindsNext ==
    ASSUME TypeOK'
    PROVE  /\ \A o \in VtxoOps : Owes(o)' <=> VtxoOwes(vtxo'[o], now')
           /\ \A p \in Renewals : Owes(p)' <=> spendingRenewalCharged(p)'
           /\ \A d \in Delegations : Owes(d)' <=> delegationCharged(d)'
  <1>1. OwesByKind'
    BY OwesKinds, PTL
  <1> QED
    BY <1>1, Zenon DEF OwesByKind, VtxoOwes, vtxoStateBlocksNewOperation

(* A step that makes no lifecycle owe anew keeps every vault's charges     *)
(* within its allowance.                                                   *)
LEMMA NothingNew ==
    ASSUME AllowanceHeld, \A l \in Lifecycles : Owes(l)' => Owes(l)
    PROVE  AllowanceHeld'
  <1> SUFFICES ASSUME NEW v \in Vaults
               PROVE  IsFiniteSet(Held(v)') /\ addOutflow(Held(v)') <= Allowance[v]
    BY Zenon DEF AllowanceHeld
  <1>1. PICK before : before = Held(v)
    BY Zenon
  <1>2. PICK after : after = Held(v)'
    BY Zenon
  <1>3. before \in SUBSET Lifecycles /\ after \in SUBSET before
    BY <1>1, <1>2, Zenon DEF Held
  <1>4. IsFiniteSet(before) /\ addOutflow(before) <= Allowance[v]
    BY <1>1, Zenon DEF AllowanceHeld
  <1>5. IsFiniteSet(after) /\ addOutflow(after) <= Allowance[v]
    BY <1>3, <1>4, OutflowWithin, Zenon
  <1> QED
    BY <1>2, <1>5, Zenon

(* A lifecycle that is admitted next to the charges C of its vault, as the *)
(* allowance check allows, keeps them within the allowance.                *)
LEMMA Admitted ==
    ASSUME AllowanceHeld, NEW k \in Lifecycles, NEW C \in SUBSET Held(VaultOf[k]),
           Debit[k] + addOutflow(C) <= Allowance[VaultOf[k]],
           \A l \in Lifecycles \ {k} : Owes(l)' => Owes(l) /\ (VaultOf[l] = VaultOf[k] => l \in C)
    PROVE  AllowanceHeld'
  <1> SUFFICES ASSUME NEW v \in Vaults
               PROVE  IsFiniteSet(Held(v)') /\ addOutflow(Held(v)') <= Allowance[v]
    BY Zenon DEF AllowanceHeld
  <1>1. PICK before : before = Held(v)
    BY Zenon
  <1>2. PICK after : after = Held(v)'
    BY Zenon
  <1>3. before \in SUBSET Lifecycles /\ after \in SUBSET Lifecycles
    BY <1>1, <1>2, Zenon DEF Held
  <1>4. IsFiniteSet(before) /\ addOutflow(before) <= Allowance[v]
    BY <1>1, Zenon DEF AllowanceHeld
  <1>5. \A a, b, c \in Nat : a <= b /\ b <= c => a <= c
    OBVIOUS
  <1>6. Allowance[v] \in Nat /\ Debit[k] \in Nat
    BY AmountAssumption, Zenon
  <1>7. CASE v # VaultOf[k]
    <2>1. after \in SUBSET before
      BY <1>1, <1>2, <1>7, Zenon DEF Held
    <2> QED
      BY <1>2, <1>3, <1>4, <2>1, OutflowWithin, Zenon
  <1>8. CASE v = VaultOf[k]
    <2>1. C \in SUBSET Lifecycles /\ IsFiniteSet(C) /\ Debit[k] + addOutflow(C) <= Allowance[v]
      BY <1>1, <1>3, <1>4, <1>8, FS_Subset, Zenon
    <2> DEFINE D == C \cup {k}
    <2>2. D \in SUBSET Lifecycles /\ IsFiniteSet(D) /\ addOutflow(D) <= Debit[k] + addOutflow(C)
      BY <2>1, FS_AddElement, OutflowOneMore, Zenon
    <2>3. after \in SUBSET D
      BY <1>2, <1>8, Zenon DEF Held
    <2>4. IsFiniteSet(after) /\ addOutflow(after) <= addOutflow(D)
      BY <2>2, <2>3, FS_Subset, OutflowMonotonic, Zenon
    <2>5. addOutflow(after) \in Nat /\ addOutflow(D) \in Nat /\ addOutflow(C) \in Nat
      BY <1>3, <2>1, <2>2, <2>4, OutflowType, Zenon
    <2> HIDE DEF D
    <2>6. Debit[k] + addOutflow(C) \in Nat
      BY <1>6, <2>5
    <2>7. addOutflow(after) <= Allowance[v]
      BY <1>5, <1>6, <2>1, <2>2, <2>4, <2>5, <2>6, Zenon
    <2> QED
      BY <1>2, <2>4, <2>7, Zenon
  <1> QED
    BY <1>7, <1>8, Zenon

(* What the fence and the allowance check say together: when no lifecycle  *)
(* of the vault is active among the rows ops, all that it owes is counted, *)
(* and the newcomer fits.                                                  *)
LEMMA AdmittedByFence ==
    ASSUME AllowanceHeld, TypeOK, NEW k \in Lifecycles, NEW ops,
           WithinAllowance(k, ops),
           \A o \in VtxoOps : VtxoCharged(ops[o]) /\ VaultOf[o] = VaultOf[k] => Owes(o),
           \A l \in Lifecycles \ {k} : Owes(l)' => Owes(l),
           \A o \in VtxoOps \ {k} :
              Owes(o)' /\ VaultOf[o] = VaultOf[k] => VtxoCharged(ops[o])
    PROVE  AllowanceHeld'
  <1>1. PICK C : C = {l \in ChargedLifecycles(ops) : VaultOf[l] = VaultOf[k]}
    BY Zenon
  <1>2. Debit[k] + addOutflow(C) <= Allowance[VaultOf[k]]
    BY <1>1, Zenon DEF WithinAllowance, spentInWindow
  <1>3. OwesByKind
    BY OwesKinds, Zenon
  <1>4. C \in SUBSET Held(VaultOf[k])
    BY <1>1, <1>3, Zenon DEF ChargedLifecycles, Held, OwesByKind, Lifecycles
  <1>5. ASSUME NEW l \in Lifecycles \ {k}, Owes(l)', VaultOf[l] = VaultOf[k]
        PROVE  l \in C
    BY <1>1, <1>3, <1>5, Zenon DEF ChargedLifecycles, OwesByKind, Lifecycles
  <1> QED
    BY <1>2, <1>4, <1>5, Admitted, Zenon

(* A lifecycle whose row a step leaves alone owes what it owed.            *)
LEMMA SameRowOwes ==
    ASSUME TypeOK, TypeOK', now' = now
    PROVE  /\ \A o \in VtxoOps : vtxo'[o] = vtxo[o] => (Owes(o)' <=> Owes(o))
           /\ \A p \in Renewals : renewal'[p] = renewal[p] => (Owes(p)' <=> Owes(p))
           /\ \A d \in Delegations : delegation'[d] = delegation[d] => (Owes(d)' <=> Owes(d))
  <1>1. OwesByKind
    BY OwesKinds, Zenon
  <1> QED
    BY <1>1, OwesKindsNext, Zenon
       DEF OwesByKind, VtxoOwes, spendingRenewalCharged, delegationCharged,
           renewalTerminal, delegationTerminal

(* A reservation of an Ark payment.                                        *)
LEMMA ReserveVtxoHeld ==
    ASSUME AllowanceHeld, TypeOK, TypeOK', NEW o \in VtxoOps, ReserveVtxoOperation(o)
    PROVE  AllowanceHeld'
  <1>1. PICK ops : ops = abortExpiredVtxo(VaultOf[o])
    BY Zenon
  <1>2. /\ WithinAllowance(o, ops) /\ rejectConcurrentVtxoOperation(VaultOf[o], ops)
        /\ now' = now /\ renewal' = renewal
    BY <1>1, Zenon DEF ReserveVtxoOperation
  <1>3. \A q \in VtxoOps \ {o} : vtxo'[q] = ops[q]
    BY <1>1, ReserveVtxoEffect, Zenon
  <1>4. \A q \in VtxoOps : ops[q] = vtxo[q] \/ (VaultOf[q] = VaultOf[o] /\ ops[q].state = "aborted")
    <2> SUFFICES ASSUME NEW q \in VtxoOps
                 PROVE  ops[q] = vtxo[q] \/ (VaultOf[q] = VaultOf[o] /\ ops[q].state = "aborted")
      OBVIOUS
    <2>1. vtxo[q] \in VtxoRow
      BY Zenon DEF TypeOK
    <2> QED
      BY <1>1, <2>1 DEF abortExpiredVtxo, VtxoRow
  <1>5. OwesByKind
    BY OwesKinds, Zenon
  <1>6. ASSUME NEW q \in VtxoOps, VtxoCharged(ops[q]) PROVE Owes(q)
    <2>1. ops[q] = vtxo[q] /\ vtxo[q].state \in VtxoStates
      BY <1>4, <1>6, Zenon DEF VtxoCharged, vtxoStateCountsTowardAllowance, TypeOK, VtxoRow
    <2> QED
      BY <1>5, <1>6, <2>1, Zenon
         DEF OwesByKind, VtxoOwes, VtxoCharged, vtxoStateCountsTowardAllowance,
             vtxoStateAwaitingSettlement, vtxoStateBlocksNewOperation, VtxoStates
  <1>7. ASSUME NEW q \in VtxoOps \ {o}, Owes(q)'
        PROVE  Owes(q) /\ (VaultOf[q] = VaultOf[o] => VtxoCharged(ops[q]))
    <2>1. VtxoOwes(ops[q], now)
      BY <1>2, <1>3, <1>7, OwesKindsNext, Zenon
    <2>2. ops[q] = vtxo[q]
      BY <1>4, <2>1, Zenon DEF VtxoOwes, vtxoStateBlocksNewOperation
    <2>3. VaultOf[q] = VaultOf[o] => ~vtxoStateBlocksNewOperation(ops[q].state)
      BY <1>2, Zenon DEF rejectConcurrentVtxoOperation
    <2> QED
      BY <1>5, <2>1, <2>2, <2>3, Zenon
         DEF OwesByKind, VtxoOwes, VtxoCharged, vtxoStateCountsTowardAllowance
  <1>8. ASSUME NEW d \in Delegations, Owes(d)' PROVE Owes(d)
    <2>1. delegationCharged(d)'
      BY <1>8, OwesKindsNext, Zenon
    <2>2. delegation'[d].events # {"invalidated"}
      BY <2>1, Zenon DEF delegationCharged, delegationTerminal
    <2>3. delegation'[d] = delegation[d]
      BY <2>2, ReserveVtxoEffect, Zenon
    <2> QED
      BY <1>2, <1>8, <2>3, SameRowOwes, Zenon
  <1>9. \A l \in Lifecycles \ {o} : Owes(l)' => Owes(l)
    BY <1>2, <1>7, <1>8, SameRowOwes, Zenon DEF Lifecycles
  <1> QED
    BY <1>2, <1>6, <1>7, <1>9, AdmittedByFence, Zenon DEF Lifecycles

(* A step that leaves the Ark payments alone and admits k past the fence.  *)
LEMMA AdmittedAmongRows ==
    ASSUME AllowanceHeld, TypeOK, TypeOK', NEW k \in Lifecycles \ VtxoOps,
           now' = now, vtxo' = vtxo,
           rejectConcurrentVtxoOperation(VaultOf[k], vtxo), WithinAllowance(k, vtxo),
           \A l \in Lifecycles \ {k} : Owes(l)' => Owes(l)
    PROVE  AllowanceHeld'
  <1>1. PICK ops : ops = vtxo
    BY Zenon
  <1>2. OwesByKind
    BY OwesKinds, Zenon
  <1>3. ASSUME NEW q \in VtxoOps, VtxoCharged(ops[q]) PROVE Owes(q)
    <2>1. vtxo[q].state \in VtxoStates
      BY Zenon DEF TypeOK, VtxoRow
    <2> QED
      BY <1>1, <1>2, <1>3, <2>1, Zenon
         DEF OwesByKind, VtxoOwes, VtxoCharged, vtxoStateCountsTowardAllowance,
             vtxoStateAwaitingSettlement, vtxoStateBlocksNewOperation, VtxoStates
  <1>4. ASSUME NEW q \in VtxoOps, Owes(q)', VaultOf[q] = VaultOf[k] PROVE VtxoCharged(ops[q])
    <2>1. VtxoOwes(vtxo[q], now)
      BY <1>4, OwesKindsNext, Zenon
    <2>2. ~vtxoStateBlocksNewOperation(vtxo[q].state)
      BY <1>4, Zenon DEF rejectConcurrentVtxoOperation
    <2> QED
      BY <1>1, <2>1, <2>2, Zenon DEF VtxoOwes, VtxoCharged, vtxoStateCountsTowardAllowance
  <1>5. WithinAllowance(k, ops)
    BY <1>1, Zenon
  <1> QED
    BY <1>3, <1>4, <1>5, AdmittedByFence, Zenon DEF Lifecycles

(* A claim is the only phase that makes a delegated renewal owe anew; any  *)
(* other first phase ends it.                                              *)
LEMMA AdvanceHeld ==
    ASSUME AllowanceHeld, TypeOK, TypeOK', NEW d \in Delegations, NEW e \in DelegationPhases,
           AdvanceSpendingDelegation(d, e)
    PROVE  AllowanceHeld'
  <1>1. now' = now /\ vtxo' = vtxo /\ renewal' = renewal
    BY Zenon DEF AdvanceSpendingDelegation
  <1>2. /\ delegation'[d].events = delegation[d].events \cup {e}
        /\ \A f \in Delegations \ {d} : delegation'[f] = delegation[f]
    BY AdvanceDelegationEffect, Zenon
  <1>3. \A l \in Lifecycles \ {d} : Owes(l)' => Owes(l)
    BY <1>1, <1>2, SameRowOwes, Zenon DEF Lifecycles
  <1>4. ~delegationTerminal(d)
    BY Zenon DEF AdvanceSpendingDelegation, DelegationAccepts
  <1>5. OwesByKind
    BY OwesKinds, Zenon
  <1>6. CASE delegation[d].events # {}
    <2>1. Owes(d)
      BY <1>4, <1>5, <1>6, Zenon DEF OwesByKind, delegationCharged
    <2> QED
      BY <1>3, <2>1, NothingNew, Zenon
  <1>7. CASE delegation[d].events = {} /\ e # "claimed"
    <2>1. e \in {"invalidated", "cancelled", "expired", "needs_authorization"}
      BY <1>7, Zenon DEF AdvanceSpendingDelegation, DelegationAccepts, DelegationEvidence
    <2>2. delegationTerminal(d)' /\ "confirmed" \notin delegation'[d].events
      BY <1>2, <1>7, <2>1, Zenon DEF delegationTerminal
    <2>3. ~Owes(d)'
      BY <2>2, OwesKindsNext, Zenon DEF delegationCharged
    <2> QED
      BY <1>3, <2>3, NothingNew, Zenon
  <1>8. CASE delegation[d].events = {} /\ e = "claimed"
    <2>1. ClaimAdmitted(d)
      BY <1>8, Zenon DEF AdvanceSpendingDelegation, DelegationAccepts, predecessors
    <2>2. rejectConcurrentVtxoOperation(VaultOf[d], vtxo) /\ WithinAllowance(d, vtxo)
      BY <2>1, Zenon DEF ClaimAdmitted
    <2>3. d \in Lifecycles \ VtxoOps
      BY LifecycleAssumption, Zenon DEF Lifecycles
    <2> QED
      BY <1>1, <1>3, <2>2, <2>3, AdmittedAmongRows, Zenon
  <1> QED
    BY <1>6, <1>7, <1>8, Zenon

(* Every step keeps every vault's charges within its allowance.            *)
LEMMA AllowanceHeldStep ==
    ASSUME AllowanceHeld, TypeOK, TypeOK', [Next]_vars
    PROVE  AllowanceHeld'
  <1>0. OwesByKind
    BY OwesKinds, Zenon
  <1>1. ASSUME NEW o \in VtxoOps, now' = now, renewal' = renewal, delegation' = delegation,
               \A q \in VtxoOps \ {o} : vtxo'[q] = vtxo[q],
               vtxo[o].state \in {"reserved", "signed", "submitted"}
        PROVE  AllowanceHeld'
    <2>1. Owes(o)
      BY <1>0, <1>1, Zenon DEF OwesByKind, VtxoOwes, vtxoStateBlocksNewOperation
    <2>2. \A l \in Lifecycles : Owes(l)' => Owes(l)
      BY <1>1, <2>1, SameRowOwes, Zenon DEF Lifecycles
    <2> QED
      BY <2>2, NothingNew, Zenon
  <1>2. ASSUME NEW o \in VtxoOps, NEW n \in 0..MaxSignCount, CommitSignedVtxoOperation(o, n)
        PROVE  AllowanceHeld'
    <2>1. n \in Nat
      BY <1>2, AmountAssumption
    <2>2. \A q \in VtxoOps \ {o} : vtxo'[q] = vtxo[q]
      BY <1>2, <2>1, CommitSignedEffect, Zenon
    <2> QED
      BY <1>1, <1>2, <2>2, Zenon DEF CommitSignedVtxoOperation
  <1>3. ASSUME NEW o \in VtxoOps, AbortVtxo(o) \/ SubmitVtxo(o) \/ FinalizeVtxo(o) \/ UnresolveVtxo(o)
        PROVE  AllowanceHeld'
    BY <1>1, <1>3, VtxoSwap, Zenon
  <1>4. ASSUME NEW p \in Renewals, ReserveSpendingRenewal(p) PROVE AllowanceHeld'
    <2>1. /\ now' = now /\ vtxo' = vtxo /\ delegation' = delegation
          /\ rejectConcurrentVtxoOperation(VaultOf[p], vtxo) /\ WithinAllowance(p, vtxo)
      BY <1>4, Zenon DEF ReserveSpendingRenewal
    <2>2. \A q \in Renewals \ {p} : renewal'[q] = renewal[q]
      BY <1>4, ReserveRenewalEffect, Zenon
    <2>3. \A l \in Lifecycles \ {p} : Owes(l)' => Owes(l)
      BY <2>1, <2>2, SameRowOwes, Zenon DEF Lifecycles
    <2>4. p \in Lifecycles \ VtxoOps
      BY LifecycleAssumption, Zenon DEF Lifecycles
    <2> QED
      BY <2>1, <2>3, <2>4, AdmittedAmongRows, Zenon
  <1>5. ASSUME NEW p \in Renewals, NEW e \in RenewalPhases, AppendSpendingRenewalEvent(p, e)
        PROVE  AllowanceHeld'
    <2>1. /\ now' = now /\ vtxo' = vtxo /\ delegation' = delegation
          /\ renewal[p].stored /\ ~renewalTerminal(p)
      BY <1>5, Zenon DEF AppendSpendingRenewalEvent, validateRenewalTransition
    <2>2. \A q \in Renewals \ {p} : renewal'[q] = renewal[q]
      BY <1>5, AppendRenewalEffect, Zenon
    <2>3. Owes(p)
      BY <1>0, <2>1, Zenon DEF OwesByKind, spendingRenewalCharged
    <2>4. \A l \in Lifecycles : Owes(l)' => Owes(l)
      BY <2>1, <2>2, <2>3, SameRowOwes, Zenon DEF Lifecycles
    <2> QED
      BY <2>4, NothingNew, Zenon
  <1>6. ASSUME NEW v \in Vaults, NEW ds \in SUBSET Delegations, ScheduleVtxoDelegationSet(v, ds)
        PROVE  AllowanceHeld'
    <2>1. /\ now' = now /\ vtxo' = vtxo /\ renewal' = renewal
          /\ delegation' = [d \in Delegations |->
                IF d \in ds THEN [delegation[d] EXCEPT !.stored = TRUE] ELSE delegation[d]]
      BY <1>6, Zenon DEF ScheduleVtxoDelegationSet
    <2>2. \A d \in Delegations : delegation'[d].events = delegation[d].events
                                   /\ delegation'[d].confirmedAt = delegation[d].confirmedAt
      <3> SUFFICES ASSUME NEW d \in Delegations
                   PROVE  /\ delegation'[d].events = delegation[d].events
                          /\ delegation'[d].confirmedAt = delegation[d].confirmedAt
        OBVIOUS
      <3>1. delegation[d] \in DelegationRow
        BY Zenon DEF TypeOK
      <3> QED
        BY <2>1, <3>1 DEF DelegationRow
    <2>3. \A d \in Delegations : Owes(d)' => Owes(d)
      BY <1>0, <2>1, <2>2, OwesKindsNext, Zenon
         DEF OwesByKind, delegationCharged, delegationTerminal
    <2>4. \A l \in Lifecycles : Owes(l)' => Owes(l)
      BY <2>1, <2>3, SameRowOwes, Zenon DEF Lifecycles
    <2> QED
      BY <2>4, NothingNew, Zenon
  <1>7. CASE UNCHANGED <<now, vtxo, renewal, delegation>>
    <2>1. \A l \in Lifecycles : Owes(l)' => Owes(l)
      BY <1>7, SameRowOwes, Zenon DEF Lifecycles
    <2> QED
      BY <2>1, NothingNew, Zenon
  <1>8. CASE Tick
    <2>1. /\ now' = now + 1 /\ now \in Nat /\ Window \in Nat
          /\ UNCHANGED <<vtxo, renewal, delegation>>
      BY <1>8, TimeAssumption, Zenon DEF Tick, ledgerVars, TypeOK, Time
    <2>2. \A a \in Nat : now' <= a + Window => now <= a + Window
      BY <2>1
    <2>3. /\ \A o \in VtxoOps : vtxo[o].created \in Nat
          /\ \A p \in Renewals : renewal[p].confirmedAt \in Nat
          /\ \A d \in Delegations : delegation[d].confirmedAt \in Nat
      BY Zenon DEF TypeOK, VtxoRow, RenewalRow, DelegationRow, Time
    <2>4. \A o \in VtxoOps : Owes(o)' => Owes(o)
      BY <1>0, <2>1, <2>2, <2>3, OwesKindsNext, Zenon DEF OwesByKind, VtxoOwes
    <2>5. \A p \in Renewals : Owes(p)' => Owes(p)
      BY <1>0, <2>1, <2>2, <2>3, OwesKindsNext, Zenon
         DEF OwesByKind, spendingRenewalCharged, renewalTerminal
    <2>6. \A d \in Delegations : Owes(d)' => Owes(d)
      BY <1>0, <2>1, <2>2, <2>3, OwesKindsNext, Zenon
         DEF OwesByKind, delegationCharged, delegationTerminal
    <2> QED
      BY <2>4, <2>5, <2>6, NothingNew, Zenon DEF Lifecycles
  <1>9. UNCHANGED vars \/ (\E l \in Lifecycles : Settle(l)) \/ (\E c \in Coins : SpendElsewhere(c))
          \/ (\E p \in Renewals : EndBatch(p)) \/ (\E p \in Renewals : BuryConflict(p))
        => UNCHANGED <<now, vtxo, renewal, delegation>>
    BY Zenon DEF vars, Settle, SpendElsewhere, EndBatch, BuryConflict, ledgerVars
  <1> QED
    BY <1>2, <1>3, <1>4, <1>5, <1>6, <1>7, <1>8, <1>9, NextActions, ReserveVtxoHeld, AdvanceHeld,
       Zenon
-----------------------------------------------------------------------------
(***************************************************************************)
(* The stamps.                                                             *)
(***************************************************************************)

(* A finalized Ark payment was finalized before, or is stamped no earlier  *)
(* than its execution.                                                     *)
LEMMA FinalizedStep ==
    ASSUME TypeOK, [Next]_vars, NEW q \in VtxoOps, vtxo'[q].state = "finalized"
    PROVE  \/ vtxo'[q] = vtxo[q]
           \/ settled[q] # Never /\ settled[q] <= vtxo'[q].created
  <1>1. ASSUME NEW o \in VtxoOps, ReserveVtxoOperation(o) PROVE vtxo'[q] = vtxo[q]
    BY <1>1, ReserveVtxoEffect, Zenon
  <1>2. ASSUME NEW o \in VtxoOps, NEW n \in 0..MaxSignCount, CommitSignedVtxoOperation(o, n)
        PROVE  vtxo'[q] = vtxo[q]
    <2>1. n \in Nat
      BY <1>2, AmountAssumption
    <2> QED
      BY <1>2, <2>1, CommitSignedEffect, Zenon
  <1>3. ASSUME NEW o \in VtxoOps, AbortVtxo(o) \/ SubmitVtxo(o) \/ UnresolveVtxo(o)
        PROVE  vtxo'[q] = vtxo[q]
    <2>1. vtxo[o] \in VtxoRow /\ vtxo \in [VtxoOps -> VtxoRow]
      BY Zenon DEF TypeOK
    <2>2. PICK to \in {"aborted", "submitted", "unresolved"} : \E t :
             vtxo' = [vtxo EXCEPT ![o].state = to, ![o].created = t]
      BY <1>3, Zenon DEF AbortVtxo, SubmitVtxo, UnresolveVtxo, TransitionVtxoOperation
    <2>3. vtxo'[o].state = to /\ \A r \in VtxoOps \ {o} : vtxo'[r] = vtxo[r]
      BY <2>1, <2>2 DEF VtxoRow
    <2> QED
      BY <2>3, Zenon
  <1>4. ASSUME NEW o \in VtxoOps, FinalizeVtxo(o)
        PROVE  vtxo'[q] = vtxo[q] \/ (settled[q] # Never /\ settled[q] <= vtxo'[q].created)
    <2>1. vtxo[o] \in VtxoRow /\ vtxo \in [VtxoOps -> VtxoRow]
      BY Zenon DEF TypeOK
    <2>2. PICK t : /\ settled[o] # Never /\ settled[o] <= t
                   /\ vtxo' = [vtxo EXCEPT ![o].state = "finalized", ![o].created = t]
      BY <1>4, Zenon DEF FinalizeVtxo, TransitionVtxoOperation
    <2>3. vtxo'[o].created = t /\ \A r \in VtxoOps \ {o} : vtxo'[r] = vtxo[r]
      BY <2>1, <2>2 DEF VtxoRow
    <2> QED
      BY <2>2, <2>3, Zenon
  <1>5. CASE vtxo' = vtxo
    BY <1>5, Zenon
  <1> QED
    BY <1>1, <1>2, <1>3, <1>4, <1>5, NextActions, Zenon
       DEF vars, ReserveSpendingRenewal, AppendSpendingRenewalEvent, ScheduleVtxoDelegationSet,
           AdvanceSpendingDelegation, Settle, SpendElsewhere, EndBatch, BuryConflict, Tick, ledgerVars

(* A confirmed Bitcoin payment was confirmed before, with the same stamp,  *)
(* or is stamped no earlier than its execution.                            *)
LEMMA ConfirmedRenewalStep ==
    ASSUME TypeOK, [Next]_vars, NEW q \in Renewals, "confirmed" \in renewal'[q].events
    PROVE  \/ "confirmed" \in renewal[q].events /\ renewal'[q].confirmedAt = renewal[q].confirmedAt
           \/ settled[q] # Never /\ settled[q] <= renewal'[q].confirmedAt
  <1> DEFINE Kept == /\ renewal'[q].events = renewal[q].events
                     /\ renewal'[q].confirmedAt = renewal[q].confirmedAt
  <1>0. renewal \in [Renewals -> RenewalRow] /\ renewal[q] \in RenewalRow
    BY Zenon DEF TypeOK
  <1>1. ASSUME NEW p \in Renewals, ReserveSpendingRenewal(p) PROVE Kept
    <2>1. renewal' = [renewal EXCEPT ![p].stored = TRUE]
      BY <1>1, Zenon DEF ReserveSpendingRenewal
    <2> QED
      BY <1>0, <2>1 DEF RenewalRow
  <1>2. ASSUME NEW p \in Renewals, NEW e \in RenewalPhases, AppendSpendingRenewalEvent(p, e)
        PROVE  \/ "confirmed" \in renewal[q].events
                    /\ renewal'[q].confirmedAt = renewal[q].confirmedAt
               \/ settled[q] # Never /\ settled[q] <= renewal'[q].confirmedAt
    <2>1. PICK t : /\ RenewalEvidence(p, e, t)
                   /\ renewal' = [renewal EXCEPT
                        ![p] = [stored |-> TRUE,
                                events |-> @.events \cup {e},
                                dispatchedAt |-> IF e = "final_dispatched" THEN t ELSE @.dispatchedAt,
                                confirmedAt |-> IF e = "confirmed" THEN t ELSE @.confirmedAt]]
      BY <1>2, Zenon DEF AppendSpendingRenewalEvent
    <2>2. CASE q # p
      <3>1. renewal'[q] = renewal[q]
        BY <1>0, <2>1, <2>2, Zenon
      <3> QED
        BY <3>1, Zenon
    <2>3. CASE q = p
      <3>1. /\ renewal'[q].events = renewal[q].events \cup {e}
            /\ renewal'[q].confirmedAt = IF e = "confirmed" THEN t ELSE renewal[q].confirmedAt
        BY <1>0, <2>1, <2>3
      <3> QED
        BY <2>1, <2>3, <3>1, Zenon DEF RenewalEvidence
    <2> QED
      BY <2>2, <2>3, Zenon
  <1>3. CASE renewal' = renewal
    BY <1>3, Zenon
  <1> QED
    BY <1>1, <1>2, <1>3, NextActions, Zenon
       DEF vars, ReserveVtxoOperation, CommitSignedVtxoOperation, AbortVtxo, SubmitVtxo, FinalizeVtxo,
           UnresolveVtxo, TransitionVtxoOperation, ScheduleVtxoDelegationSet,
           AdvanceSpendingDelegation, Settle, SpendElsewhere, EndBatch, BuryConflict, Tick, ledgerVars

(* The same for a delegated renewal.                                       *)
LEMMA ConfirmedDelegationStep ==
    ASSUME TypeOK, [Next]_vars, NEW q \in Delegations, "confirmed" \in delegation'[q].events
    PROVE  \/ /\ "confirmed" \in delegation[q].events
              /\ delegation'[q].confirmedAt = delegation[q].confirmedAt
           \/ settled[q] # Never /\ settled[q] <= delegation'[q].confirmedAt
  <1> DEFINE Kept == /\ delegation'[q].events = delegation[q].events
                     /\ delegation'[q].confirmedAt = delegation[q].confirmedAt
  <1>0. delegation \in [Delegations -> DelegationRow] /\ delegation[q] \in DelegationRow
    BY Zenon DEF TypeOK
  <1>1. ASSUME NEW v \in Vaults, NEW ds \in SUBSET Delegations, ScheduleVtxoDelegationSet(v, ds)
        PROVE  Kept
    <2>1. delegation' = [d \in Delegations |->
             IF d \in ds THEN [delegation[d] EXCEPT !.stored = TRUE] ELSE delegation[d]]
      BY <1>1, Zenon DEF ScheduleVtxoDelegationSet
    <2>2. delegation'[q] = IF q \in ds THEN [delegation[q] EXCEPT !.stored = TRUE] ELSE delegation[q]
      BY <2>1, Zenon
    <2> QED
      BY <1>0, <2>2 DEF DelegationRow
  <1>2. ASSUME NEW d \in Delegations, NEW e \in DelegationPhases, AdvanceSpendingDelegation(d, e)
        PROVE  \/ /\ "confirmed" \in delegation[q].events
                  /\ delegation'[q].confirmedAt = delegation[q].confirmedAt
               \/ settled[q] # Never /\ settled[q] <= delegation'[q].confirmedAt
    <2>1. PICK t : /\ DelegationEvidence(d, e, t)
                   /\ delegation' = [delegation EXCEPT
                        ![d] = [stored |-> TRUE,
                                events |-> @.events \cup {e},
                                confirmedAt |-> IF e = "confirmed" THEN t ELSE @.confirmedAt]]
      BY <1>2, Zenon DEF AdvanceSpendingDelegation
    <2>2. CASE q # d
      <3>1. delegation'[q] = delegation[q]
        BY <1>0, <2>1, <2>2, Zenon
      <3> QED
        BY <3>1, Zenon
    <2>3. CASE q = d
      <3>1. /\ delegation'[q].events = delegation[q].events \cup {e}
            /\ delegation'[q].confirmedAt = IF e = "confirmed" THEN t ELSE delegation[q].confirmedAt
        BY <1>0, <2>1, <2>3
      <3> QED
        BY <2>1, <2>3, <3>1, Zenon DEF DelegationEvidence
    <2> QED
      BY <2>2, <2>3, Zenon
  <1>3. ASSUME NEW o \in VtxoOps, ReserveVtxoOperation(o) PROVE Kept
    <2>1. delegation'[q].events # {"invalidated"}
      OBVIOUS
    <2> QED
      BY <1>3, <2>1, ReserveVtxoEffect, Zenon
  <1>4. CASE delegation' = delegation
    BY <1>4, Zenon
  <1> QED
    BY <1>1, <1>2, <1>3, <1>4, NextActions, Zenon
       DEF vars, CommitSignedVtxoOperation, AbortVtxo, SubmitVtxo, FinalizeVtxo,
           UnresolveVtxo, TransitionVtxoOperation, ReserveSpendingRenewal,
           AppendSpendingRenewalEvent, Settle, SpendElsewhere, EndBatch, BuryConflict, Tick, ledgerVars

(* No step leaves an outcome stamped before the network reached it.        *)
LEMMA StampOrderStep ==
    ASSUME TypeOK, StampOrder, [Next]_vars
    PROVE  StampOrder'
  <1>1. \A l \in Lifecycles : settled[l] # Never => settled'[l] = settled[l]
    BY SpentStaysSpent, Zenon
  <1>2. ASSUME NEW o \in VtxoOps, vtxo'[o].state = "finalized"
        PROVE  settled'[o] # Never /\ settled'[o] <= vtxo'[o].created
    BY <1>1, <1>2, FinalizedStep, Zenon DEF StampOrder, Lifecycles
  <1>3. ASSUME NEW p \in Renewals, "confirmed" \in renewal'[p].events
        PROVE  settled'[p] # Never /\ settled'[p] <= renewal'[p].confirmedAt
    BY <1>1, <1>3, ConfirmedRenewalStep, Zenon DEF StampOrder, Lifecycles
  <1>4. ASSUME NEW d \in Delegations, "confirmed" \in delegation'[d].events
        PROVE  settled'[d] # Never /\ settled'[d] <= delegation'[d].confirmedAt
    BY <1>1, <1>4, ConfirmedDelegationStep, Zenon DEF StampOrder, Lifecycles
  <1> QED
    BY <1>2, <1>3, <1>4, Zenon DEF StampOrder, Never
-----------------------------------------------------------------------------
(***************************************************************************)
(* The allowance.                                                          *)
(***************************************************************************)

(* The invariant of the charges: it holds initially and every step of a    *)
(* journal, the clock or the network keeps it.                             *)
THEOREM AllowanceInvariant == Spec => []AllowanceInv
  <1>1. Init => AllowanceInv
    <2> SUFFICES ASSUME Init PROVE AllowanceInv
      BY Zenon
    <2>1. SpendingInv
      BY SpendingInit, Zenon
    <2>2. StampOrder
      BY Zenon DEF Init, StampOrder
    <2>3. ASSUME NEW v \in Vaults PROVE IsFiniteSet(Held(v)) /\ addOutflow(Held(v)) <= Allowance[v]
      <3>1. \A l \in Lifecycles : ~Owes(l)
        <4>1. TypeOK
          BY <2>1, Zenon DEF SpendingInv
        <4>2. OwesByKind
          BY <4>1, OwesKinds, Zenon
        <4> QED
          BY <4>2, Zenon
             DEF OwesByKind, Init, Lifecycles, VtxoOwes, vtxoStateBlocksNewOperation,
                 spendingRenewalCharged, delegationCharged
      <3>2. Held(v) = {}
        BY <3>1, Zenon DEF Held
      <3>3. Allowance[v] \in Nat
        BY AmountAssumption, Zenon
      <3>4. 0 <= Allowance[v]
        BY <3>3
      <3> QED
        BY <3>2, <3>4, OutflowEmpty, FS_EmptySet, Zenon
    <2> QED
      BY <2>1, <2>2, <2>3, Zenon DEF AllowanceInv, AllowanceHeld
  <1>2. AllowanceInv /\ [Next]_vars => AllowanceInv'
    BY SpendingInvStep, StampOrderStep, AllowanceHeldStep, Zenon DEF AllowanceInv, SpendingInv
  <1> QED
    BY <1>1, <1>2, PTL DEF Spec

(* What a vault holds bounds what the ledger counts against it.            *)
LEMMA CountedWithin ==
    ASSUME AllowanceInv
    PROVE  SpentWithinAllowance
  <1> SUFFICES ASSUME NEW v \in Vaults PROVE spentInWindow(v, vtxo) <= Allowance[v]
    BY Zenon DEF SpentWithinAllowance
  <1>1. PICK held : held = Held(v)
    BY Zenon
  <1>2. PICK counted : counted = {l \in ChargedLifecycles(vtxo) : VaultOf[l] = v}
    BY Zenon
  <1>3. held \in SUBSET Lifecycles /\ counted \in SUBSET held
    BY <1>1, <1>2, Zenon DEF Held, Owes, ChargedLifecycles, Lifecycles
  <1>4. IsFiniteSet(held) /\ addOutflow(held) <= Allowance[v]
    BY <1>1, Zenon DEF AllowanceInv, AllowanceHeld
  <1>5. addOutflow(counted) <= Allowance[v]
    BY <1>3, <1>4, OutflowWithin, Zenon
  <1> QED
    BY <1>2, <1>5, Zenon DEF spentInWindow

(* What the network executed within the window is still held: it is active *)
(* or it is charged from a stamp that is no earlier.                       *)
LEMMA ExecutedIsHeld ==
    ASSUME AllowanceInv, NEW l \in Lifecycles, settled[l] # Never, now <= settled[l] + Window
    PROVE  Owes(l)
  <1>1. /\ TypeOK /\ RenewalOrder /\ SettlementOrder /\ StampOrder
        /\ ~GivenUp(l) /\ Committed(l)
    BY GivenUpUnsettled, Zenon DEF AllowanceInv, SpendingInv, GivenUpNeverSettles, SettlementOrder
  <1>2. OwesByKind
    BY <1>1, OwesKinds, Zenon
  <1>3. now \in Nat /\ settled[l] \in Nat /\ Window \in Nat
    BY <1>1, TimeAssumption, Zenon DEF TypeOK, Time
  <1>4. \A t \in Nat : settled[l] <= t => now <= t + Window
    BY <1>3
  <1>5. CASE l \in VtxoOps
    <2>1. vtxo[l].created \in Nat /\ vtxo[l].state \in {"signed", "submitted", "finalized", "unresolved"}
      BY <1>1, <1>5, LifecycleAssumption, Zenon DEF Committed, TypeOK, VtxoRow, Time
    <2> QED
      BY <1>1, <1>2, <1>4, <1>5, <2>1, Zenon
         DEF OwesByKind, VtxoOwes, vtxoStateBlocksNewOperation, StampOrder
  <1>6. CASE l \in Renewals
    <2>1. renewal[l].confirmedAt \in Nat /\ "final_dispatched" \in renewal[l].events
      BY <1>1, <1>6, LifecycleAssumption, Zenon DEF Committed, TypeOK, RenewalRow, Time
    <2>2. renewal[l].stored
      BY <1>1, <1>6, <2>1, Zenon DEF RenewalOrder
    <2>3. renewalTerminal(l) => "confirmed" \in renewal[l].events
      BY <1>1, <1>6, Zenon DEF renewalTerminal, GivenUp
    <2> QED
      BY <1>1, <1>2, <1>4, <1>6, <2>1, <2>2, <2>3, Zenon
         DEF OwesByKind, spendingRenewalCharged, StampOrder
  <1>7. CASE l \in Delegations
    <2>1. delegation[l].confirmedAt \in Nat /\ "final_dispatched" \in delegation[l].events
      BY <1>1, <1>7, LifecycleAssumption, Zenon DEF Committed, TypeOK, DelegationRow, Time
    <2>2. delegationTerminal(l) => "confirmed" \in delegation[l].events
      BY <1>1, <1>7, Zenon DEF delegationTerminal, GivenUp
    <2> QED
      BY <1>1, <1>2, <1>4, <1>7, <2>1, <2>2, Zenon
         DEF OwesByKind, delegationCharged, StampOrder
  <1> QED
    BY <1>5, <1>6, <1>7, Zenon DEF Lifecycles

(* What a vault holds bounds what the network executed for it.             *)
LEMMA ExecutedWithin ==
    ASSUME AllowanceInv
    PROVE  RollingOutflowWithinAllowance
  <1> SUFFICES ASSUME NEW v \in Vaults
               PROVE  addOutflow({l \in Lifecycles : /\ VaultOf[l] = v
                                                     /\ settled[l] # Never
                                                     /\ now <= settled[l] + Window}) <= Allowance[v]
    BY Zenon DEF RollingOutflowWithinAllowance
  <1>1. PICK held : held = Held(v)
    BY Zenon
  <1>2. PICK executed : executed = {l \in Lifecycles : /\ VaultOf[l] = v
                                                       /\ settled[l] # Never
                                                       /\ now <= settled[l] + Window}
    BY Zenon
  <1>3. held \in SUBSET Lifecycles /\ executed \in SUBSET held
    BY <1>1, <1>2, ExecutedIsHeld, Zenon DEF Held
  <1>4. IsFiniteSet(held) /\ addOutflow(held) <= Allowance[v]
    BY <1>1, Zenon DEF AllowanceInv, AllowanceHeld
  <1>5. addOutflow(executed) <= Allowance[v]
    BY <1>3, <1>4, OutflowWithin, Zenon
  <1> QED
    BY <1>2, <1>5, Zenon

(* What spentInWindow adds up never exceeds a vault's allowance, however   *)
(* reservations lapse and come back and outcomes are stamped anew.         *)
THEOREM SpentWithin == Spec => []SpentWithinAllowance
  BY AllowanceInvariant, CountedWithin, PTL

(* What the network executes for a vault in any rolling window never       *)
(* exceeds its allowance, however late it executes what was signed.        *)
THEOREM RollingOutflowWithin == Spec => []RollingOutflowWithinAllowance
  BY AllowanceInvariant, ExecutedWithin, PTL
=============================================================================
