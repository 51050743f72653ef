------------------------------ MODULE SetSums ------------------------------
(***************************************************************************)
(* What MapThenSumSet computes for a function of naturals on a finite set. *)
(* Induction over finite sets is done with the least-element form of well- *)
(* foundedness (WFMin), which has no operator parameter: a smallest set    *)
(* for which a fact fails leads to a contradiction.                        *)
(***************************************************************************)
EXTENDS FiniteSetsExt, FiniteSetTheorems, TLAPS

Total(w, S) == MapThenSumSet(LAMBDA d : w[d], S)

Pick(s) == CHOOSE x \in s : TRUE
Rest(s) == s \ {Pick(s)}

\* F computes the total of every subset of S, element by element.
Sums(F, w, S) ==
  F = [s \in SUBSET S |-> IF s = {} THEN 0 ELSE w[Pick(s)] + F[Rest(s)]]

\* The fold of the library is the value at S of a table of sums chosen for S.
LEMMA TotalIsChosen ==
  ASSUME NEW w, NEW S
  PROVE  Total(w, S) = (CHOOSE F : Sums(F, w, S))[S]
  BY DEF Total, MapThenSumSet, MapThenFoldSet, Sums, Pick, Rest

\* A set of finite subsets of D has a member that includes no other.
LEMMA SmallestSubset ==
  ASSUME NEW D, IsFiniteSet(D), NEW B \in SUBSET SUBSET D, B # {}
  PROVE  \E T \in B : \A U \in B : U \subseteq T => U = T
  <1>1. SUBSET D = FiniteSubsetsOf(D)
    BY FS_FiniteSubsetsOfFinite
  <1>2. IsWellFoundedOn(StrictSubsetOrdering(D), SUBSET D)
    BY <1>1, FS_StrictSubsetOrderingWellFounded
  <1>3. PICK T \in B : \A U \in B : <<U, T>> \notin StrictSubsetOrdering(D)
    <2> HIDE DEF StrictSubsetOrdering
    <2> QED BY <1>2, WFMin
  <1> QED
    BY <1>3 DEF StrictSubsetOrdering

\* The element taken from a set that is not empty, and what is left without it.
LEMMA PickIn ==
  ASSUME NEW s, s # {}
  PROVE  Pick(s) \in s /\ Rest(s) \subseteq s /\ Rest(s) # s
  BY DEF Pick, Rest

\* Two tables of sums agree wherever both are defined.
LEMMA SumsAgree ==
  ASSUME NEW D, IsFiniteSet(D), NEW w, NEW S \in SUBSET D, NEW T \in SUBSET D,
         NEW F, NEW G, Sums(F, w, S), Sums(G, w, T)
  PROVE  \A s \in SUBSET (S \cap T) : F[s] = G[s]
  <1> DEFINE B == {s \in SUBSET (S \cap T) : F[s] # G[s]}
  <1> SUFFICES ASSUME B # {} PROVE FALSE
    OBVIOUS
  <1>1. B \in SUBSET SUBSET D
    OBVIOUS
  <1>2. PICK s \in B : \A U \in B : U \subseteq s => U = s
    <2> HIDE DEF B
    <2> QED BY <1>1, SmallestSubset
  <1>3. s \in SUBSET S /\ s \in SUBSET T /\ F[s] # G[s]
    OBVIOUS
  <1>4. s # {}
    BY <1>3 DEF Sums
  <1>5. Rest(s) \subseteq s /\ Rest(s) # s
    BY <1>4, PickIn
  <1>6. F[Rest(s)] = G[Rest(s)]
    BY <1>2, <1>5
  <1> QED
    BY <1>3, <1>4, <1>6 DEF Sums

\* Every finite set has a table of sums.
LEMMA SumsExists ==
  ASSUME NEW D, IsFiniteSet(D), NEW w
  PROVE  \A S \in SUBSET D : \E F : Sums(F, w, S)
  <1> DEFINE B == {S \in SUBSET D : ~\E F : Sums(F, w, S)}
  <1> SUFFICES ASSUME B # {} PROVE FALSE
    OBVIOUS
  <1>1. B \in SUBSET SUBSET D
    OBVIOUS
  <1>2. PICK S \in B : \A U \in B : U \subseteq S => U = S
    <2> HIDE DEF B
    <2> QED BY <1>1, SmallestSubset
  <1> DEFINE G(U) == CHOOSE F : Sums(F, w, U)
  <1>3. \A U \in SUBSET S : U # S => Sums(G(U), w, U)
    BY <1>2
  <1> DEFINE H == [s \in SUBSET S |-> IF s = {} THEN 0
                                     ELSE w[Pick(s)] + G(Rest(s))[Rest(s)]]
  <1> HIDE DEF G
  <1>4. \A s \in SUBSET S : s # S => H[s] = G(s)[s]
    <2> SUFFICES ASSUME NEW s \in SUBSET S, s # S PROVE H[s] = G(s)[s]
      OBVIOUS
    <2>1. Sums(G(s), w, s)
      BY <1>3
    <2>2. CASE s = {}
      BY <2>1, <2>2 DEF Sums
    <2>3. CASE s # {}
      <3>1. Rest(s) \in SUBSET s /\ Rest(s) # S
        BY <2>3, PickIn
      <3>2. Sums(G(Rest(s)), w, Rest(s))
        BY <3>1, <1>3
      <3>3. G(s)[Rest(s)] = G(Rest(s))[Rest(s)]
        <4>1. Rest(s) \in SUBSET (s \cap Rest(s)) /\ s \in SUBSET D /\ Rest(s) \in SUBSET D
          BY <3>1, <1>2
        <4> QED BY <2>1, <3>2, <4>1, SumsAgree
      <3> QED
        BY <2>1, <2>3, <3>3 DEF Sums
    <2> QED
      BY <2>2, <2>3
  <1>5. \A s \in SUBSET S : s # {} => H[Rest(s)] = G(Rest(s))[Rest(s)]
    <2> SUFFICES ASSUME NEW s \in SUBSET S, s # {} PROVE H[Rest(s)] = G(Rest(s))[Rest(s)]
      OBVIOUS
    <2>1. Rest(s) \in SUBSET S /\ Rest(s) # S
      BY PickIn
    <2> HIDE DEF H
    <2> QED BY <2>1, <1>4
  <1>6. Sums(H, w, S)
    BY <1>5 DEF Sums
  <1> QED
    BY <1>6

\* The total, one element at a time.
LEMMA TotalUnfold ==
  ASSUME NEW D, IsFiniteSet(D), NEW w, NEW S \in SUBSET D
  PROVE  Total(w, S) = IF S = {} THEN 0 ELSE w[Pick(S)] + Total(w, Rest(S))
  <1> DEFINE F(U) == CHOOSE f : Sums(f, w, U)
  <1>1. \A U \in SUBSET D : Sums(F(U), w, U)
    BY SumsExists
  <1>2. \A U \in SUBSET D : Total(w, U) = F(U)[U]
    BY TotalIsChosen
  <1> HIDE DEF F
  <1>3. CASE S = {}
    BY <1>1, <1>2, <1>3 DEF Sums
  <1>4. CASE S # {}
    <2>1. Rest(S) \in SUBSET S /\ Rest(S) \in SUBSET D
      BY <1>4, PickIn
    <2>2. F(S)[Rest(S)] = F(Rest(S))[Rest(S)]
      <3>1. Rest(S) \in SUBSET (S \cap Rest(S))
        BY <2>1
      <3> QED BY <1>1, <2>1, <3>1, SumsAgree
    <2>3. F(S)[S] = w[Pick(S)] + F(S)[Rest(S)]
      BY <1>1, <1>4 DEF Sums
    <2> QED
      BY <1>2, <1>4, <2>1, <2>2, <2>3
  <1> QED
    BY <1>3, <1>4

\* A total of naturals is a natural.
LEMMA TotalIsNat ==
  ASSUME NEW D, IsFiniteSet(D), NEW w \in [D -> Nat]
  PROVE  \A S \in SUBSET D : Total(w, S) \in Nat
  <1> DEFINE B == {S \in SUBSET D : Total(w, S) \notin Nat}
  <1> SUFFICES ASSUME B # {} PROVE FALSE
    OBVIOUS
  <1>1. PICK S \in B : \A U \in B : U \subseteq S => U = S
    <2>1. B \in SUBSET SUBSET D
      OBVIOUS
    <2> HIDE DEF B
    <2> QED BY <2>1, SmallestSubset
  <1>2. Total(w, S) = IF S = {} THEN 0 ELSE w[Pick(S)] + Total(w, Rest(S))
    BY <1>1, TotalUnfold
  <1>3. S # {}
    BY <1>1, <1>2
  <1>4. Pick(S) \in D /\ Rest(S) \in SUBSET D /\ Rest(S) \notin B
    BY <1>1, <1>3, PickIn
  <1> QED
    BY <1>1, <1>2, <1>3, <1>4

\* Whichever element is taken out, the total of the rest differs by its weight.
THEOREM TotalRemove ==
  ASSUME NEW D, IsFiniteSet(D), NEW w \in [D -> Nat]
  PROVE  \A S \in SUBSET D : \A x \in S : Total(w, S) = w[x] + Total(w, S \ {x})
  <1> DEFINE B == {S \in SUBSET D : \E x \in S : Total(w, S) # w[x] + Total(w, S \ {x})}
  <1> SUFFICES ASSUME B # {} PROVE FALSE
    OBVIOUS
  <1>1. PICK S \in B : \A U \in B : U \subseteq S => U = S
    <2>1. B \in SUBSET SUBSET D
      OBVIOUS
    <2> HIDE DEF B
    <2> QED BY <2>1, SmallestSubset
  <1>2. PICK x \in S : Total(w, S) # w[x] + Total(w, S \ {x})
    BY <1>1
  <1> DEFINE c == Pick(S)
  <1>3. S \in SUBSET D /\ S # {} /\ c \in S
    BY <1>1, <1>2, PickIn
  <1>4. Total(w, S) = w[c] + Total(w, S \ {c})
    BY <1>3, TotalUnfold DEF Rest
  <1> HIDE DEF c
  <1>5. x # c
    BY <1>2, <1>4
  <1> DEFINE R == S \ {c, x}
  <1>6. Total(w, S \ {c}) = w[x] + Total(w, R)
    <2>1. S \ {c} \notin B /\ S \ {c} \in SUBSET D /\ x \in S \ {c}
      BY <1>1, <1>3, <1>5
    <2>2. (S \ {c}) \ {x} = R
      OBVIOUS
    <2> QED BY <2>1, <2>2
  <1>7. Total(w, S \ {x}) = w[c] + Total(w, R)
    <2>1. S \ {x} \notin B /\ S \ {x} \in SUBSET D /\ c \in S \ {x}
      BY <1>1, <1>3, <1>5
    <2>2. (S \ {x}) \ {c} = R
      OBVIOUS
    <2> QED BY <2>1, <2>2
  <1>8. w[x] \in Nat /\ w[c] \in Nat /\ Total(w, R) \in Nat
    BY <1>3, TotalIsNat
  <1>9. Total(w, S) = w[c] + (w[x] + Total(w, R))
    BY <1>4, <1>6, Zenon
  <1>10. w[x] + Total(w, S \ {x}) = w[x] + (w[c] + Total(w, R))
    BY <1>7, Zenon
  <1> HIDE DEF R, B
  <1>11. Total(w, S) = w[x] + Total(w, S \ {x})
    BY <1>8, <1>9, <1>10
  <1> QED
    BY <1>2, <1>11

\* An element that is added counts once.
COROLLARY TotalAdd ==
  ASSUME NEW D, IsFiniteSet(D), NEW w \in [D -> Nat], NEW S \in SUBSET D, NEW x \in D
  PROVE  Total(w, S \cup {x}) = IF x \in S THEN Total(w, S) ELSE w[x] + Total(w, S)
  <1>1. CASE x \in S
    <2>1. S \cup {x} = S
      BY <1>1
    <2> QED BY <1>1, <2>1
  <1>2. CASE x \notin S
    <2>1. (S \cup {x}) \ {x} = S /\ S \cup {x} \in SUBSET D /\ x \in S \cup {x}
      BY <1>2
    <2> QED BY <1>2, <2>1, TotalRemove
  <1> QED BY <1>1, <1>2

\* A larger set has no smaller total.
COROLLARY TotalMonotone ==
  ASSUME NEW D, IsFiniteSet(D), NEW w \in [D -> Nat]
  PROVE  \A T \in SUBSET D : \A S \in SUBSET T : Total(w, S) <= Total(w, T)
  <1> DEFINE B == {T \in SUBSET D : \E S \in SUBSET T : ~(Total(w, S) <= Total(w, T))}
  <1> SUFFICES ASSUME B # {} PROVE FALSE
    OBVIOUS
  <1>1. PICK T \in B : \A U \in B : U \subseteq T => U = T
    <2>1. B \in SUBSET SUBSET D
      OBVIOUS
    <2> HIDE DEF B
    <2> QED BY <2>1, SmallestSubset
  <1>2. PICK S \in SUBSET T : ~(Total(w, S) <= Total(w, T))
    BY <1>1
  <1>3. Total(w, S) \in Nat /\ Total(w, T) \in Nat
    BY <1>1, TotalIsNat
  <1>4. PICK x \in T : x \notin S
    BY <1>2, <1>3
  <1>5. Total(w, T) = w[x] + Total(w, T \ {x})
    BY <1>1, TotalRemove
  <1>6. Total(w, S) <= Total(w, T \ {x})
    <2>1. T \ {x} \in SUBSET D /\ T \ {x} \notin B /\ S \in SUBSET (T \ {x})
      BY <1>1, <1>4
    <2> QED BY <2>1
  <1>7. w[x] \in Nat /\ Total(w, T \ {x}) \in Nat
    BY <1>1, TotalIsNat
  <1> QED
    BY <1>2, <1>3, <1>5, <1>6, <1>7
=============================================================================
