---------------------------- MODULE FoldTheorems ----------------------------
(***************************************************************************)
(* Induction, and what the folds of the community modules compute.         *)
(*                                                                         *)
(* An induction hypothesis is a set here, that of the numbers, or of the   *)
(* finite sets, for which it holds: a theorem about sets can be cited,     *)
(* where one about a predicate could not.                                  *)
(***************************************************************************)
EXTENDS Integers, FiniteSetTheorems, WellFoundedInduction, TLAPS

-----------------------------------------------------------------------------
(* Induction.                                                              *)

\* The order of the natural numbers as a relation.
LEMMA LessIsWellFounded == IsWellFoundedOn({p \in Nat \X Nat : p[1] < p[2]}, Nat)
  BY NatLessThanWellFounded DEF OpToRel

\* A set of natural numbers has a least member.
LEMMA LeastNatural ==
    ASSUME NEW S \in SUBSET Nat, S # {}
    PROVE  \E n \in S : \A m \in S : ~(m < n)
<1>1. \E n \in S : \A m \in S : ~(<<m, n>> \in {p \in Nat \X Nat : p[1] < p[2]})
  BY WFMin, LessIsWellFounded
<1> QED BY <1>1

\* A set that has 0, and the successor of every number it has, has all.
THEOREM InductionOnNaturals ==
    ASSUME NEW S, 0 \in S, \A n \in Nat : n \in S => n + 1 \in S
    PROVE  Nat \subseteq S
<1> SUFFICES ASSUME Nat \ S # {} PROVE FALSE
  OBVIOUS
<1>1. PICK n \in Nat \ S : \A m \in Nat \ S : ~(m < n)
  BY LeastNatural
<1>2. n # 0 /\ n - 1 \in Nat /\ n - 1 < n /\ (n - 1) + 1 = n
  BY <1>1
<1> QED BY <1>1, <1>2

\* A set that has the empty set, and each subset of D whose members it has one less of, has
\* all finite ones.
THEOREM InductionOnSubsets ==
    ASSUME NEW D, IsFiniteSet(D), NEW S, {} \in S,
           \A T \in SUBSET D : T # {} /\ (\A x \in T : T \ {x} \in S) => T \in S
    PROVE  SUBSET D \subseteq S
<1> DEFINE N == {n \in Nat : \A T \in SUBSET D : Cardinality(T) = n => T \in S}
<1>1. 0 \in N
  <2>1. \A T \in SUBSET D : Cardinality(T) = 0 => T = {}
    BY FS_Subset, FS_EmptySet
  <2> QED BY <2>1
<1>2. ASSUME NEW n \in Nat, n \in N PROVE n + 1 \in N
  <2>1. ASSUME NEW T \in SUBSET D, Cardinality(T) = n + 1 PROVE T \in S
    <3>1. IsFiniteSet(T)
      BY FS_Subset
    <3>2. T # {}
      <4>1. n + 1 # 0
        OBVIOUS
      <4> QED BY <2>1, <4>1, FS_EmptySet
    <3>3. ASSUME NEW x \in T PROVE T \ {x} \in S
      <4>1. Cardinality(T \ {x}) = n
        <5>1. Cardinality(T \ {x}) = Cardinality(T) - 1
          BY <3>1, FS_RemoveElement
        <5> QED BY <2>1, <5>1
      <4> QED BY <1>2, <4>1
    <3> QED BY <3>2, <3>3
  <2> QED BY <2>1
<1> HIDE DEF N
<1>3. Nat \subseteq N
  BY <1>1, <1>2, InductionOnNaturals
<1>4. ASSUME NEW T \in SUBSET D PROVE T \in S
  BY <1>3, FS_Subset, FS_CardinalityType DEF N
<1> QED BY <1>4

-----------------------------------------------------------------------------
(* Sums.  MapThenFoldSet takes its elements in an order of its own.        *)

\* g is the sum of val over each subset of D, taken in the order of pick.
Sums(g, D, pick, val) ==
    g = [s \in SUBSET D |-> IF s = {} THEN 0 ELSE val[pick[s]] + g[s \ {pick[s]}]]

Picks(pick, D) == \A s \in SUBSET D : s # {} => pick[s] \in s

IsSum(g, D, pick, val) ==
    /\ IsFiniteSet(D) /\ Picks(pick, D) /\ val \in [D -> Int]
    /\ g \in [SUBSET D -> Int] /\ Sums(g, D, pick, val)

\* There are such sums, and they are whole numbers.
LEMMA SumsExist ==
    ASSUME NEW D, IsFiniteSet(D), NEW pick, Picks(pick, D), NEW val \in [D -> Int]
    PROVE  \E g : IsSum(g, D, pick, val)
<1> DEFINE Level(n) == {s \in SUBSET D : Cardinality(s) <= n}
           Next(g, s) == IF s = {} THEN 0 ELSE val[pick[s]] + g[s \ {pick[s]}]
           N == {n \in Nat : \E g \in [Level(n) -> Int] : \A s \in Level(n) : g[s] = Next(g, s)}
<1>1. \A s \in SUBSET D : IsFiniteSet(s) /\ Cardinality(s) \in Nat
  BY FS_Subset, FS_CardinalityType
<1>2. 0 \in N
  <2>1. \A s \in Level(0) : s = {}
    BY <1>1, FS_EmptySet
  <2>2. \A s \in Level(0) : [t \in Level(0) |-> 0][s] = Next([t \in Level(0) |-> 0], s)
    BY <2>1
  <2>3. [t \in Level(0) |-> 0] \in [Level(0) -> Int]
    OBVIOUS
  <2> QED BY <2>2, <2>3
<1>3. ASSUME NEW n \in Nat, n \in N PROVE n + 1 \in N
  <2>1. PICK g \in [Level(n) -> Int] : \A s \in Level(n) : g[s] = Next(g, s)
    BY <1>3
  <2> DEFINE h == [s \in Level(n + 1) |-> Next(g, s)]
  <2>2. \A s \in Level(n + 1) : s # {} => s \ {pick[s]} \in Level(n) /\ pick[s] \in D
    <3> SUFFICES ASSUME NEW s \in Level(n + 1), s # {}
                 PROVE  s \ {pick[s]} \in Level(n) /\ pick[s] \in D
      OBVIOUS
    <3>1. s \in SUBSET D /\ Cardinality(s) <= n + 1 /\ IsFiniteSet(s) /\ Cardinality(s) \in Nat
      BY <1>1
    <3>2. pick[s] \in s
      BY <3>1 DEF Picks
    <3>3. PICK x : x = pick[s]
      OBVIOUS
    <3>4. Cardinality(s \ {x}) = Cardinality(s) - 1
      BY <3>1, <3>2, <3>3, FS_RemoveElement
    <3>5. Cardinality(s \ {x}) <= n /\ s \ {x} \in SUBSET D
      BY <3>1, <3>4
    <3> QED BY <3>1, <3>2, <3>3, <3>5
  <2>3. Level(n) \subseteq Level(n + 1)
    BY <1>1
  <2> HIDE DEF Level
  <2>4. \A s \in Level(n) : h[s] = g[s]
    BY <2>1, <2>3
  <2>5. \A s \in Level(n + 1) : h[s] = Next(h, s)
    BY <2>2, <2>4
  <2>6. h \in [Level(n + 1) -> Int]
    <3>1. ASSUME NEW s \in Level(n + 1) PROVE Next(g, s) \in Int
      <4>1. s # {} => val[pick[s]] \in Int /\ g[s \ {pick[s]}] \in Int
        BY <2>1, <2>2
      <4> QED BY <4>1
    <3> QED BY <3>1
  <2> HIDE DEF h
  <2>7. \E f \in [Level(n + 1) -> Int] : \A s \in Level(n + 1) : f[s] = Next(f, s)
    BY <2>5, <2>6
  <2>8. n + 1 \in Nat
    OBVIOUS
  <2> HIDE DEF Next
  <2> QED BY <2>7, <2>8, Zenon
<1>4. Nat \subseteq N
  <2> HIDE DEF N
  <2> QED BY <1>2, <1>3, InductionOnNaturals
<1>5. Cardinality(D) \in N /\ Level(Cardinality(D)) = SUBSET D
  BY <1>1, <1>4, FS_Subset, FS_CardinalityType
<1>6. PICK g \in [SUBSET D -> Int] : \A s \in SUBSET D : g[s] = Next(g, s)
  BY <1>5
<1>7. g = [s \in SUBSET D |-> Next(g, s)]
  BY <1>6
<1> QED BY <1>6, <1>7 DEF Sums, IsSum

\* One step of a sum.
LEMMA SumStep ==
    ASSUME NEW D, NEW pick, NEW val, NEW g, IsSum(g, D, pick, val)
    PROVE  /\ g[{}] = 0
           /\ \A s \in SUBSET D : s # {} => g[s] = val[pick[s]] + g[s \ {pick[s]}]
<1> DEFINE body == [s \in SUBSET D |-> IF s = {} THEN 0 ELSE val[pick[s]] + g[s \ {pick[s]}]]
<1>1. \A s \in SUBSET D : body[s] = IF s = {} THEN 0 ELSE val[pick[s]] + g[s \ {pick[s]}]
  OBVIOUS
<1>2. g = body
  BY DEF IsSum, Sums
<1> HIDE DEF body
<1> QED BY <1>1, <1>2

\* Whatever function has the equation of a sum is one.
LEMMA SumsAreSums ==
    ASSUME NEW D, IsFiniteSet(D), NEW pick, Picks(pick, D), NEW val \in [D -> Int],
           NEW g, Sums(g, D, pick, val)
    PROVE  IsSum(g, D, pick, val)
<1> DEFINE Step(s) == IF s = {} THEN 0 ELSE val[pick[s]] + g[s \ {pick[s]}]
           S == {s \in SUBSET D : g[s] \in Int}
<1>1. g = [s \in SUBSET D |-> Step(s)]
  BY DEF Sums
<1> HIDE DEF Step
<1>2. g = [s \in SUBSET D |-> g[s]] /\ \A s \in SUBSET D : g[s] = Step(s)
  BY <1>1
<1>3. {} \in S
  <2>1. Step({}) = 0
    BY DEF Step
  <2>2. g[{}] = Step({})
    BY <1>2
  <2> QED BY <2>1, <2>2
<1>4. ASSUME NEW s \in SUBSET D, s # {}, \A x \in s : s \ {x} \in S PROVE s \in S
  <2>1. pick[s] \in s
    BY <1>4 DEF Picks
  <2>2. val[pick[s]] \in Int /\ g[s \ {pick[s]}] \in Int
    BY <1>4, <2>1
  <2>3. Step(s) \in Int
    BY <1>4, <2>2 DEF Step
  <2> QED BY <1>2, <2>3
<1> HIDE DEF S
<1>5. SUBSET D \subseteq S
  BY <1>3, <1>4, InductionOnSubsets
<1>6. g \in [SUBSET D -> Int]
  BY <1>2, <1>5 DEF S
<1> QED BY <1>6 DEF IsSum

\* The same equation with its operands the other way round.
SumsTail(g, D, pick, val) ==
    g = [s \in SUBSET D |-> IF s = {} THEN 0 ELSE g[s \ {pick[s]}] + val[pick[s]]]

\* A sum is one with its operands in either order.
LEMMA SumsTailExist ==
    ASSUME NEW D, NEW pick, NEW val, NEW g, IsSum(g, D, pick, val)
    PROVE  SumsTail(g, D, pick, val)
<1> DEFINE body == [s \in SUBSET D |-> IF s = {} THEN 0 ELSE g[s \ {pick[s]}] + val[pick[s]]]
<1>1. ASSUME NEW s \in SUBSET D, s # {} PROVE g[s] = g[s \ {pick[s]}] + val[pick[s]]
  <2>1. pick[s] \in s /\ val \in [D -> Int] /\ g \in [SUBSET D -> Int]
    BY <1>1 DEF IsSum, Picks
  <2>2. val[pick[s]] \in Int /\ g[s \ {pick[s]}] \in Int
    BY <2>1
  <2>3. g[s] = val[pick[s]] + g[s \ {pick[s]}]
    BY <1>1, SumStep
  <2> QED BY <2>2, <2>3
<1>2. g[{}] = 0
  BY SumStep
<1>3. \A s \in SUBSET D : g[s] = body[s]
  BY <1>1, <1>2
<1>4. g = [s \in SUBSET D |-> g[s]]
  BY DEF IsSum
<1>5. body = [s \in SUBSET D |-> body[s]]
  OBVIOUS
<1> HIDE DEF body
<1>6. g = body
  BY <1>3, <1>4, <1>5
<1> QED BY <1>6 DEF SumsTail, body

\* Whatever function has that equation is a sum.
LEMMA SumsTailAreSums ==
    ASSUME NEW D, IsFiniteSet(D), NEW pick, Picks(pick, D), NEW val \in [D -> Int],
           NEW g, SumsTail(g, D, pick, val)
    PROVE  IsSum(g, D, pick, val)
<1> DEFINE Step(s) == IF s = {} THEN 0 ELSE g[s \ {pick[s]}] + val[pick[s]]
           S == {s \in SUBSET D : g[s] \in Int}
<1>1. g = [s \in SUBSET D |-> Step(s)]
  BY DEF SumsTail
<1> HIDE DEF Step
<1>2. g = [s \in SUBSET D |-> g[s]] /\ \A s \in SUBSET D : g[s] = Step(s)
  BY <1>1
<1>3. {} \in S
  <2>1. Step({}) = 0
    BY DEF Step
  <2>2. g[{}] = Step({})
    BY <1>2
  <2> QED BY <2>1, <2>2
<1>4. ASSUME NEW s \in SUBSET D, s # {}
      PROVE  pick[s] \in s /\ val[pick[s]] \in Int /\ Step(s) = g[s \ {pick[s]}] + val[pick[s]]
  <2>1. pick[s] \in s
    BY <1>4 DEF Picks
  <2> QED BY <1>4, <2>1 DEF Step
<1>5. ASSUME NEW s \in SUBSET D, s # {}, \A x \in s : s \ {x} \in S PROVE s \in S
  <2>1. pick[s] \in s /\ val[pick[s]] \in Int /\ Step(s) = g[s \ {pick[s]}] + val[pick[s]]
    BY <1>4, <1>5
  <2>2. g[s \ {pick[s]}] \in Int
    BY <1>5, <2>1
  <2>3. g[s] = g[s \ {pick[s]}] + val[pick[s]]
    BY <1>2, <2>1
  <2> QED BY <2>1, <2>2, <2>3
<1> HIDE DEF S
<1>6. SUBSET D \subseteq S
  BY <1>3, <1>5, InductionOnSubsets
<1>7. \A s \in SUBSET D : g[s] \in Int
  BY <1>6 DEF S
<1>8. ASSUME NEW s \in SUBSET D
      PROVE  g[s] = IF s = {} THEN 0 ELSE val[pick[s]] + g[s \ {pick[s]}]
  <2>1. CASE s = {}
    BY <1>2, <2>1 DEF Step
  <2>2. CASE s # {}
    <3>1. g[s \ {pick[s]}] \in Int
      BY <1>7
    <3>2. val[pick[s]] \in Int /\ Step(s) = g[s \ {pick[s]}] + val[pick[s]]
      BY <1>4, <2>2
    <3>3. g[s] = g[s \ {pick[s]}] + val[pick[s]]
      BY <1>2, <3>2
    <3> QED BY <2>2, <3>1, <3>2, <3>3
  <2> QED BY <2>1, <2>2
<1>9. g = [s \in SUBSET D |-> IF s = {} THEN 0 ELSE val[pick[s]] + g[s \ {pick[s]}]]
  BY <1>2, <1>8
<1>10. g \in [SUBSET D -> Int]
  BY <1>2, <1>7
<1> QED BY <1>9, <1>10 DEF IsSum, Sums

\* In whatever order a sum is taken, any member may be taken first.
THEOREM SumOfOneMore ==
    ASSUME NEW D, NEW pick, NEW val, NEW g, IsSum(g, D, pick, val),
           NEW C \in SUBSET D, NEW m \in C
    PROVE  g[C] = val[m] + g[C \ {m}]
<1> DEFINE S == {s \in SUBSET D : \A x \in s : g[s] = val[x] + g[s \ {x}]}
<1>0. /\ IsFiniteSet(D) /\ Picks(pick, D) /\ val \in [D -> Int] /\ g \in [SUBSET D -> Int]
  BY DEF IsSum
<1>1. {} \in S
  OBVIOUS
<1>2. ASSUME NEW s \in SUBSET D, s # {}, \A x \in s : s \ {x} \in S PROVE s \in S
  <2> SUFFICES ASSUME NEW x \in s PROVE g[s] = val[x] + g[s \ {x}]
    OBVIOUS
  <2> DEFINE c == pick[s]
  <2>1. c \in s /\ g[s] = val[c] + g[s \ {c}]
    BY <1>0, <1>2, SumStep DEF Picks
  <2> HIDE DEF c
  <2>2. CASE c # x
    <3>1. g[s \ {c}] = val[x] + g[(s \ {c}) \ {x}]
      BY <1>2, <2>1, <2>2
    <3>2. g[s \ {x}] = val[c] + g[(s \ {x}) \ {c}]
      BY <1>2, <2>1, <2>2
    <3>3. (s \ {c}) \ {x} = (s \ {x}) \ {c}
      OBVIOUS
    <3>4. /\ val[c] \in Int /\ val[x] \in Int
          /\ g[(s \ {x}) \ {c}] \in Int
      BY <1>0, <2>1
    <3>5. val[c] + (val[x] + g[(s \ {x}) \ {c}]) = val[x] + (val[c] + g[(s \ {x}) \ {c}])
      BY <3>4
    <3> QED BY <2>1, <3>1, <3>2, <3>3, <3>5
  <2> QED BY <2>1, <2>2
<1> HIDE DEF S
<1>3. SUBSET D \subseteq S
  BY <1>0, <1>1, <1>2, InductionOnSubsets
<1> QED BY <1>3 DEF S

\* The sum does not depend on the order, nor on what else could have been summed.
THEOREM SumIsUnique ==
    ASSUME NEW D, NEW pick, NEW val, NEW g, IsSum(g, D, pick, val),
           NEW E, NEW other, NEW wal, NEW h, IsSum(h, E, other, wal),
           NEW C \in SUBSET D, C \subseteq E, \A x \in C : val[x] = wal[x]
    PROVE  g[C] = h[C]
<1> DEFINE S == {s \in SUBSET C : g[s] = h[s]}
<1>1. {} \in S
  BY SumStep
<1>2. ASSUME NEW s \in SUBSET C, s # {}, \A x \in s : s \ {x} \in S PROVE s \in S
  <2>1. PICK x \in s : TRUE
    BY <1>2
  <2>2. g[s] = val[x] + g[s \ {x}]
    BY SumOfOneMore
  <2>3. h[s] = wal[x] + h[s \ {x}]
    BY SumOfOneMore
  <2> QED BY <1>2, <2>2, <2>3
<1>3. IsFiniteSet(C)
  BY FS_Subset DEF IsSum
<1> HIDE DEF S
<1>4. SUBSET C \subseteq S
  BY <1>1, <1>2, <1>3, InductionOnSubsets
<1> QED BY <1>4 DEF S

\* A sum of numbers that are not negative is not negative.
LEMMA SumIsNatural ==
    ASSUME NEW D, NEW pick, NEW val, NEW g, IsSum(g, D, pick, val),
           NEW C \in SUBSET D, \A x \in C : val[x] >= 0
    PROVE  g[C] \in Nat
<1> DEFINE S == {s \in SUBSET C : g[s] \in Nat}
<1>1. {} \in S
  BY SumStep
<1>2. ASSUME NEW s \in SUBSET C, s # {}, \A x \in s : s \ {x} \in S PROVE s \in S
  <2>1. PICK x \in s : TRUE
    BY <1>2
  <2>2. g[s] = val[x] + g[s \ {x}]
    BY SumOfOneMore
  <2>3. val[x] \in Int /\ val[x] >= 0 /\ g[s \ {x}] \in Nat
    BY <1>2 DEF IsSum
  <2> QED BY <2>2, <2>3
<1>3. IsFiniteSet(C)
  BY FS_Subset DEF IsSum
<1> HIDE DEF S
<1>4. SUBSET C \subseteq S
  BY <1>1, <1>2, <1>3, InductionOnSubsets
<1> QED BY <1>4 DEF S

-----------------------------------------------------------------------------
(* The sum of val over C, in no particular order.                          *)

Anyone(D) == [s \in SUBSET D |-> CHOOSE x \in s : TRUE]

SumOver(val, C) == (CHOOSE g : IsSum(g, DOMAIN val, Anyone(DOMAIN val), val))[C]

Summable(val) == IsFiniteSet(DOMAIN val) /\ val \in [DOMAIN val -> Int]

\* Choosing any member is picking one.
LEMMA AnyonePicks == ASSUME NEW D PROVE Picks(Anyone(D), D)
<1>1. ASSUME NEW s \in SUBSET D, s # {} PROVE Anyone(D)[s] \in s
  BY <1>1 DEF Anyone
<1> QED BY <1>1 DEF Picks

\* SumOver is a sum.
LEMMA SumOverIsSum ==
    ASSUME NEW val, Summable(val)
    PROVE  \E g : /\ IsSum(g, DOMAIN val, Anyone(DOMAIN val), val)
                  /\ \A C : SumOver(val, C) = g[C]
<1> DEFINE g == CHOOSE g : IsSum(g, DOMAIN val, Anyone(DOMAIN val), val)
<1>1. \E h : IsSum(h, DOMAIN val, Anyone(DOMAIN val), val)
  BY AnyonePicks, SumsExist DEF Summable
<1>2. IsSum(g, DOMAIN val, Anyone(DOMAIN val), val)
  BY <1>1, Zenon
<1>3. \A C : SumOver(val, C) = g[C]
  BY DEF SumOver
<1> HIDE DEF g
<1> QED BY <1>2, <1>3

\* Any other sum of the same numbers is equal to it.
THEOREM SumOverEquals ==
    ASSUME NEW val, Summable(val),
           NEW E, NEW other, NEW wal, NEW h, IsSum(h, E, other, wal),
           NEW C \in SUBSET DOMAIN val, C \subseteq E, \A x \in C : val[x] = wal[x]
    PROVE  SumOver(val, C) = h[C]
<1>1. PICK g : IsSum(g, DOMAIN val, Anyone(DOMAIN val), val) /\ \A A : SumOver(val, A) = g[A]
  BY SumOverIsSum
<1>2. g[C] = h[C]
  BY <1>1, SumIsUnique
<1> QED BY <1>1, <1>2

\* It depends on the values of the members of C only.
THEOREM SumOverSame ==
    ASSUME NEW val, Summable(val), NEW wal, Summable(wal),
           NEW C \in SUBSET DOMAIN val, C \subseteq DOMAIN wal, \A x \in C : val[x] = wal[x]
    PROVE  SumOver(val, C) = SumOver(wal, C)
<1>1. PICK h : IsSum(h, DOMAIN wal, Anyone(DOMAIN wal), wal) /\ \A A : SumOver(wal, A) = h[A]
  BY SumOverIsSum
<1>2. SumOver(val, C) = h[C]
  BY <1>1, SumOverEquals
<1> QED BY <1>1, <1>2

\* Its type, and the sum over nothing.
THEOREM SumOverTyped ==
    ASSUME NEW val, Summable(val)
    PROVE  /\ SumOver(val, {}) = 0
           /\ \A C \in SUBSET DOMAIN val : SumOver(val, C) \in Int
<1>1. PICK g : IsSum(g, DOMAIN val, Anyone(DOMAIN val), val) /\ \A A : SumOver(val, A) = g[A]
  BY SumOverIsSum
<1>2. g[{}] = 0
  BY <1>1, SumStep
<1>3. g \in [SUBSET DOMAIN val -> Int]
  BY <1>1 DEF IsSum
<1> QED BY <1>1, <1>2, <1>3

\* One member, and the others.
THEOREM SumOverMember ==
    ASSUME NEW val, Summable(val), NEW C \in SUBSET DOMAIN val, NEW m \in C
    PROVE  SumOver(val, C) = val[m] + SumOver(val, C \ {m})
<1>1. PICK g : IsSum(g, DOMAIN val, Anyone(DOMAIN val), val) /\ \A A : SumOver(val, A) = g[A]
  BY SumOverIsSum
<1>2. g[C] = val[m] + g[C \ {m}]
  BY <1>1, SumOfOneMore
<1> QED BY <1>1, <1>2

\* It is not negative if no value is.
THEOREM SumOverNatural ==
    ASSUME NEW val, Summable(val), NEW C \in SUBSET DOMAIN val, \A x \in C : val[x] >= 0
    PROVE  SumOver(val, C) \in Nat
<1>1. PICK g : IsSum(g, DOMAIN val, Anyone(DOMAIN val), val) /\ \A A : SumOver(val, A) = g[A]
  BY SumOverIsSum
<1>2. g[C] \in Nat
  BY <1>1, SumIsNatural
<1> QED BY <1>1, <1>2

\* The sum over two sets that have no member in common.
THEOREM SumOverUnion ==
    ASSUME NEW val, Summable(val), NEW A \in SUBSET DOMAIN val, NEW B \in SUBSET DOMAIN val,
           A \cap B = {}
    PROVE  SumOver(val, A \cup B) = SumOver(val, A) + SumOver(val, B)
<1> DEFINE S == {s \in SUBSET B : SumOver(val, A \cup s) = SumOver(val, A) + SumOver(val, s)}
<1>0. IsFiniteSet(B)
  BY FS_Subset DEF Summable
<1>1. {} \in S
  <2>1. SumOver(val, {}) = 0 /\ SumOver(val, A) \in Int
    BY SumOverTyped
  <2>2. A \cup {} = A
    OBVIOUS
  <2> QED BY <2>1, <2>2
<1>2. ASSUME NEW s \in SUBSET B, s # {}, \A x \in s : s \ {x} \in S PROVE s \in S
  <2>1. PICK x \in s : TRUE
    BY <1>2
  <2> DEFINE rest == s \ {x}
  <2>2. SumOver(val, s) = val[x] + SumOver(val, rest)
    BY SumOverMember
  <2>3. SumOver(val, A \cup s) = val[x] + SumOver(val, A \cup rest)
    <3>1. (A \cup s) \ {x} = A \cup rest
      OBVIOUS
    <3>2. A \cup s \in SUBSET DOMAIN val /\ x \in A \cup s
      OBVIOUS
    <3>3. SumOver(val, A \cup s) = val[x] + SumOver(val, (A \cup s) \ {x})
      BY <3>2, SumOverMember
    <3> QED BY <3>1, <3>3
  <2>4. SumOver(val, A \cup rest) = SumOver(val, A) + SumOver(val, rest)
    BY <1>2
  <2>5. val[x] \in Int /\ SumOver(val, A) \in Int /\ SumOver(val, rest) \in Int
    BY SumOverTyped DEF Summable
  <2> HIDE DEF rest
  <2>6. SumOver(val, A \cup s) = SumOver(val, A) + SumOver(val, s)
    BY <2>2, <2>3, <2>4, <2>5
  <2> QED BY <2>6
<1> HIDE DEF S
<1>3. SUBSET B \subseteq S
  BY <1>0, <1>1, <1>2, InductionOnSubsets
<1> QED BY <1>3 DEF S

\* A part sums up to at most the whole, if no value is negative.
THEOREM SumOverPart ==
    ASSUME NEW val, Summable(val), NEW C \in SUBSET DOMAIN val, NEW A \in SUBSET C,
           \A x \in C : val[x] >= 0
    PROVE  SumOver(val, A) <= SumOver(val, C)
<1>1. SumOver(val, A \cup (C \ A)) = SumOver(val, A) + SumOver(val, C \ A)
  BY SumOverUnion
<1>2. A \cup (C \ A) = C
  OBVIOUS
<1>3. SumOver(val, A) \in Int /\ SumOver(val, C \ A) \in Nat
  <2>1. C \ A \in SUBSET DOMAIN val /\ \A x \in C \ A : val[x] >= 0
    OBVIOUS
  <2> QED BY <2>1, SumOverTyped, SumOverNatural
<1>4. SumOver(val, C) = SumOver(val, A) + SumOver(val, C \ A)
  BY <1>1, <1>2
<1>5. ASSUME NEW a \in Int, NEW n \in Nat PROVE a <= a + n
  OBVIOUS
<1> QED BY <1>3, <1>4, <1>5

\* It grows with the values.
THEOREM SumOverAtMost ==
    ASSUME NEW val, Summable(val), NEW wal, Summable(wal), NEW C \in SUBSET DOMAIN val,
           C \subseteq DOMAIN wal, \A x \in C : val[x] <= wal[x]
    PROVE  SumOver(val, C) <= SumOver(wal, C)
<1> DEFINE S == {s \in SUBSET C : SumOver(val, s) <= SumOver(wal, s)}
<1>0. IsFiniteSet(C)
  BY FS_Subset DEF Summable
<1>1. {} \in S
  BY SumOverTyped
<1>2. ASSUME NEW s \in SUBSET C, s # {}, \A x \in s : s \ {x} \in S PROVE s \in S
  <2>1. PICK x \in s : TRUE
    BY <1>2
  <2> DEFINE rest == s \ {x}
  <2>2. SumOver(val, s) = val[x] + SumOver(val, rest)
    BY SumOverMember
  <2>3. SumOver(wal, s) = wal[x] + SumOver(wal, rest)
    BY SumOverMember
  <2>4. SumOver(val, rest) <= SumOver(wal, rest)
    BY <1>2
  <2>5. /\ val[x] \in Int /\ wal[x] \in Int /\ val[x] <= wal[x]
        /\ SumOver(val, rest) \in Int /\ SumOver(wal, rest) \in Int
    BY SumOverTyped DEF Summable
  <2> HIDE DEF rest
  <2>6. SumOver(val, s) <= SumOver(wal, s)
    BY <2>2, <2>3, <2>4, <2>5
  <2> QED BY <2>6
<1> HIDE DEF S
<1>3. SUBSET C \subseteq S
  BY <1>0, <1>1, <1>2, InductionOnSubsets
<1> QED BY <1>3 DEF S

\* It grows by at most k, if one value does and the others do not grow.
THEOREM SumOverOneGrows ==
    ASSUME NEW val, Summable(val), NEW wal, Summable(wal), NEW C \in SUBSET DOMAIN val,
           C \subseteq DOMAIN wal, NEW one, NEW k \in Nat,
           \A x \in C : val[x] <= wal[x] + IF x = one THEN k ELSE 0
    PROVE  SumOver(val, C) <= SumOver(wal, C) + k
<1> DEFINE rest == C \ {one}
<1>1. rest \in SUBSET DOMAIN val /\ rest \subseteq DOMAIN wal
  OBVIOUS
<1>2. \A x \in rest : val[x] <= wal[x]
  <2>1. ASSUME NEW x \in rest PROVE val[x] <= wal[x]
    <3>1. x \in C /\ wal[x] \in Int /\ x # one
      BY DEF Summable
    <3>2. val[x] <= wal[x] + 0
      BY <3>1
    <3> QED BY <3>1, <3>2
  <2> QED BY <2>1
<1> HIDE DEF rest
<1>3. /\ SumOver(val, rest) <= SumOver(wal, rest)
      /\ SumOver(val, rest) \in Int /\ SumOver(wal, rest) \in Int
  BY <1>1, <1>2, SumOverAtMost, SumOverTyped
<1>4. CASE one \in C
  <2>1. SumOver(val, C) = val[one] + SumOver(val, rest)
    BY <1>4, SumOverMember DEF rest
  <2>2. SumOver(wal, C) = wal[one] + SumOver(wal, rest)
    <3>1. C \in SUBSET DOMAIN wal
      OBVIOUS
    <3> QED BY <1>4, <3>1, SumOverMember DEF rest
  <2>3. val[one] \in Int /\ wal[one] \in Int /\ val[one] <= wal[one] + k
    BY <1>4 DEF Summable
  <2> QED BY <1>3, <2>1, <2>2, <2>3
<1>5. CASE one \notin C
  <2>1. rest = C
    BY <1>5 DEF rest
  <2> QED BY <1>3, <2>1
<1> QED BY <1>4, <1>5

-----------------------------------------------------------------------------
(* Sums over a sequence.                                                   *)

\* A finite set of numbers that is not empty has a greatest member.
LEMMA GreatestExists ==
    ASSUME NEW D, D \subseteq Int, IsFiniteSet(D), D # {}
    PROVE  \E m \in D : \A n \in D : m >= n
<1> DEFINE S == {s \in SUBSET D : s = {} \/ \E m \in s : \A n \in s : m >= n}
<1>1. {} \in S
  OBVIOUS
<1>2. ASSUME NEW s \in SUBSET D, s # {}, \A x \in s : s \ {x} \in S PROVE s \in S
  <2>1. PICK x \in s : TRUE
    BY <1>2
  <2>2. CASE s \ {x} = {}
    <3>1. \A n \in s : x >= n
      BY <2>2
    <3> QED BY <3>1
  <2>3. CASE s \ {x} # {}
    <3>1. PICK m \in s \ {x} : \A n \in s \ {x} : m >= n
      BY <1>2, <2>3
    <3>2. CASE m >= x
      BY <3>1, <3>2
    <3>3. CASE ~(m >= x)
      <4>1. \A n \in s : x >= n
        BY <3>1, <3>3
      <4> QED BY <4>1
    <3> QED BY <3>2, <3>3
  <2> QED BY <2>2, <2>3
<1> HIDE DEF S
<1>3. SUBSET D \subseteq S
  BY <1>1, <1>2, InductionOnSubsets
<1> QED BY <1>3 DEF S
=============================================================================
