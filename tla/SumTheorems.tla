---------------------------- MODULE SumTheorems -----------------------------
(***************************************************************************)
(* The laws of SumOver that the proofs about the escrow rest on.           *)
(***************************************************************************)
EXTENDS Sums, FiniteSetTheorems, TLAPS

(* One account owns as many units as its balance. *)
LEMMA UnitsOfCount ==
  ASSUME NEW f, NEW w, f[w] \in Nat
  PROVE  IsFiniteSet(UnitsOf(f, w)) /\ Cardinality(UnitsOf(f, w)) = f[w]
<1>1. IsFiniteSet(1 .. f[w]) /\ Cardinality(1 .. f[w]) = f[w]
  BY FS_Interval
<1>2. IsFiniteSet({w}) /\ Cardinality({w}) = 1
  BY FS_Singleton
<1>3. /\ IsFiniteSet({w} \X (1 .. f[w]))
      /\ Cardinality({w} \X (1 .. f[w])) = Cardinality({w}) * Cardinality(1 .. f[w])
  BY <1>1, <1>2, FS_Product
<1> QED BY <1>1, <1>2, <1>3 DEF UnitsOf

(* The units of a finite set of accounts are finite, so its sum is a natural number. *)
LEMMA SumType ==
  ASSUME NEW S, IsFiniteSet(S), NEW f, \A w \in S : f[w] \in Nat
  PROVE  IsFiniteSet(Units(f, S)) /\ SumOver(f, S) \in Nat
<1> DEFINE T == {UnitsOf(f, w) : w \in S}
           g == [w \in S |-> UnitsOf(f, w)]
<1>1. g \in Surjection(S, T)
  BY DEF Surjection
<1>2. IsFiniteSet(T)
  BY <1>1, FS_Surjection
<1>3. \A t \in T : IsFiniteSet(t)
  BY UnitsOfCount
<1>4. IsFiniteSet(UNION T)
  BY <1>2, <1>3, FS_UNION
<1> QED BY <1>4, FS_CardinalityType DEF Units, SumOver

(* The sum over no account is zero. *)
LEMMA SumEmpty ==
  ASSUME NEW f
  PROVE  SumOver(f, {}) = 0
<1>1. Units(f, {}) = {}
  BY DEF Units
<1> QED BY <1>1, FS_EmptySet DEF SumOver

(* The sum over one account is its balance. *)
LEMMA SumSingle ==
  ASSUME NEW f, NEW w, f[w] \in Nat
  PROVE  SumOver(f, {w}) = f[w]
<1>1. Units(f, {w}) = UnitsOf(f, w)
  BY DEF Units
<1> QED BY <1>1, UnitsOfCount DEF SumOver

(* The sum depends only on the balances of the accounts summed. *)
LEMMA SumExt ==
  ASSUME NEW S, NEW f, NEW g, \A w \in S : f[w] = g[w]
  PROVE  SumOver(f, S) = SumOver(g, S)
<1>1. Units(f, S) = Units(g, S)
  BY DEF Units, UnitsOf
<1> QED BY <1>1 DEF SumOver

(* Sums over disjoint sets of accounts add up. *)
LEMMA SumDisjoint ==
  ASSUME NEW S, NEW T, IsFiniteSet(S), IsFiniteSet(T), S \cap T = {},
         NEW f, \A w \in S \cup T : f[w] \in Nat
  PROVE  SumOver(f, S \cup T) = SumOver(f, S) + SumOver(f, T)
<1>1. Units(f, S \cup T) = Units(f, S) \cup Units(f, T)
  BY DEF Units
<1>2. Units(f, S) \cap Units(f, T) = {}
  BY DEF Units, UnitsOf
<1>3. IsFiniteSet(Units(f, S)) /\ IsFiniteSet(Units(f, T))
  BY SumType
<1>4. SumOver(f, S) \in Nat /\ SumOver(f, T) \in Nat
  BY SumType
<1>5. Cardinality(Units(f, S) \cup Units(f, T))
        = Cardinality(Units(f, S)) + Cardinality(Units(f, T)) - Cardinality({})
  BY <1>2, <1>3, FS_Union
<1>6. Cardinality({}) = 0
  BY FS_EmptySet
<1>7. SumOver(f, S \cup T) = SumOver(f, S) + SumOver(f, T) - 0
  BY <1>1, <1>5, <1>6 DEF SumOver
<1> QED BY <1>4, <1>7

(* Changing one balance changes the sum by the difference. *)
LEMMA SumUpdate ==
  ASSUME NEW S, IsFiniteSet(S), NEW f \in [S -> Nat], NEW w \in S, NEW v \in Nat
  PROVE  SumOver([f EXCEPT ![w] = v], S) + f[w] = SumOver(f, S) + v
<1> DEFINE g == [f EXCEPT ![w] = v]
           R == S \ {w}
<1>1. S = R \cup {w} /\ R \cap {w} = {}
  OBVIOUS
<1>2. IsFiniteSet(R) /\ IsFiniteSet({w})
  BY FS_RemoveElement, FS_Singleton
<1>3. g[w] = v /\ \A u \in R : g[u] = f[u]
  OBVIOUS
<1>4. SumOver(f, R) = SumOver(g, R)
  BY <1>3, SumExt
<1>5. SumOver(f, R \cup {w}) = SumOver(f, R) + SumOver(f, {w})
  BY <1>1, <1>2, SumDisjoint
<1>6. SumOver(g, R \cup {w}) = SumOver(g, R) + SumOver(g, {w})
  BY <1>1, <1>2, <1>3, SumDisjoint
<1>7. SumOver(f, {w}) = f[w] /\ SumOver(g, {w}) = v
  BY <1>3, SumSingle
<1>8. SumOver(f, R) \in Nat /\ f[w] \in Nat
  BY <1>2, SumType
<1> HIDE DEF g, R
<1>9. SumOver(g, S) = SumOver(f, R) + v /\ SumOver(f, S) = SumOver(f, R) + f[w]
  BY <1>1, <1>4, <1>5, <1>6, <1>7
<1>10. SumOver(g, S) + f[w] = SumOver(f, S) + v
  BY <1>8, <1>9
<1> QED BY <1>10 DEF g

(* A payment into one account is a payment into the sum. *)
LEMMA SumAdd ==
  ASSUME NEW S, IsFiniteSet(S), NEW f \in [S -> Nat], NEW w \in S, NEW a \in Nat
  PROVE  SumOver([f EXCEPT ![w] = @ + a], S) = SumOver(f, S) + a
<1> DEFINE v == f[w] + a
<1>1. v \in Nat /\ f[w] \in Nat
  OBVIOUS
<1>2. SumOver(f, S) \in Nat
  BY SumType
<1> HIDE DEF v
<1>3. SumOver([f EXCEPT ![w] = v], S) + f[w] = SumOver(f, S) + v
  BY <1>1, SumUpdate
<1>4. [f EXCEPT ![w] = v] \in [S -> Nat]
  BY <1>1
<1>5. SumOver([f EXCEPT ![w] = v], S) \in Nat
  BY <1>4, SumType
<1>6. SumOver([f EXCEPT ![w] = v], S) = SumOver(f, S) + a
  BY <1>1, <1>2, <1>3, <1>5 DEF v
<1> QED BY <1>6 DEF v

(* Raising balances, or summing over more accounts, never lowers the sum. *)
LEMMA SumMono ==
  ASSUME NEW S, NEW T, IsFiniteSet(S), T \subseteq S,
         NEW f, NEW g, \A w \in S : f[w] \in Nat /\ g[w] \in Nat,
         \A w \in T : f[w] <= g[w]
  PROVE  SumOver(f, T) <= SumOver(g, S)
<1>1. \A w \in T : UnitsOf(f, w) \subseteq UnitsOf(g, w)
  BY DEF UnitsOf
<1>2. Units(f, T) \subseteq Units(g, S)
  BY <1>1 DEF Units
<1>3. IsFiniteSet(Units(g, S))
  BY SumType
<1> QED BY <1>2, <1>3, FS_Subset DEF SumOver

(* Each balance is at most the sum. *)
LEMMA SumMember ==
  ASSUME NEW S, IsFiniteSet(S), NEW f, \A u \in S : f[u] \in Nat, NEW w \in S
  PROVE  f[w] <= SumOver(f, S)
<1>1. SumOver(f, {w}) = f[w]
  BY SumSingle
<1>2. SumOver(f, {w}) <= SumOver(f, S)
  BY SumMono
<1> QED BY <1>1, <1>2

(* Leaving out an account with a positive balance strictly lowers the sum. *)
LEMMA SumStrict ==
  ASSUME NEW S, IsFiniteSet(S), NEW T, T \subseteq S,
         NEW f, \A u \in S : f[u] \in Nat,
         NEW w \in S, w \notin T, f[w] > 0
  PROVE  SumOver(f, T) < SumOver(f, S)
<1>1. IsFiniteSet(T) /\ IsFiniteSet({w}) /\ T \cap {w} = {}
  BY FS_Subset, FS_Singleton
<1>2. SumOver(f, T \cup {w}) = SumOver(f, T) + SumOver(f, {w})
  BY <1>1, SumDisjoint
<1>3. SumOver(f, {w}) = f[w]
  BY SumSingle
<1>4. SumOver(f, T \cup {w}) <= SumOver(f, S)
  BY SumMono
<1>5. SumOver(f, T) \in Nat /\ SumOver(f, S) \in Nat
  BY <1>1, SumType
<1> QED BY <1>2, <1>3, <1>4, <1>5

(* Sums follow an injection that never lowers a balance. *)
LEMMA SumInjection ==
  ASSUME NEW S, NEW T, IsFiniteSet(T), NEW f, NEW g,
         \A s \in S : f[s] \in Nat, \A t \in T : g[t] \in Nat,
         NEW h, \A s \in S : h[s] \in T /\ f[s] <= g[h[s]],
         \A s, t \in S : h[s] = h[t] => s = t
  PROVE  SumOver(f, S) <= SumOver(g, T)
<1> DEFINE e == [u \in Units(f, S) |-> <<h[u[1]], u[2]>>]
<1>1. ASSUME NEW u \in Units(f, S)
      PROVE  u[1] \in S /\ u[2] \in 1 .. f[u[1]] /\ u = <<u[1], u[2]>>
  BY DEF Units, UnitsOf
<1>2. ASSUME NEW u \in Units(f, S)
      PROVE  <<h[u[1]], u[2]>> \in Units(g, T)
  <2>1. h[u[1]] \in T /\ u[2] \in 1 .. g[h[u[1]]]
    BY <1>1
  <2> QED BY <2>1 DEF Units, UnitsOf
<1>3. e \in [Units(f, S) -> Units(g, T)]
  BY <1>2
<1>4. ASSUME NEW u \in Units(f, S), NEW v \in Units(f, S), e[u] = e[v]
      PROVE  u = v
  <2>1. h[u[1]] = h[v[1]] /\ u[2] = v[2]
    BY <1>4
  <2>2. u[1] = v[1]
    BY <1>1, <2>1
  <2> QED BY <1>1, <2>1, <2>2
<1> HIDE DEF e
<1>5. e \in Injection(Units(f, S), Units(g, T))
  BY <1>3, <1>4 DEF Injection, IsInjective
<1>6. IsFiniteSet(Units(g, T))
  BY SumType
<1> QED BY <1>5, <1>6, FS_Injection DEF SumOver
=============================================================================
