----------------------------- MODULE SumTheorems -----------------------------
(***************************************************************************)
(* Sums of the values of a function over finite sets of its arguments, as  *)
(* SumFunctionOnSet of the community modules defines them: a recursive     *)
(* function on subsets.  The sum is the number of its units: pairs of an   *)
(* argument and a number up to its value.  That gives the recursion its    *)
(* witness, and the facts about sums follow by induction on finite sets,   *)
(* stated with a set in place of a predicate.                              *)
(***************************************************************************)
EXTENDS Integers, FiniteSets, FiniteSetsExt, FiniteSetTheorems, WellFoundedInduction, TLAPS

Sum(f, S) == SumFunctionOnSet(f, S)

Pick(s) == CHOOSE x \in s : TRUE

Units(f, S) == UNION {{t} \X (1 .. f[t]) : t \in S}

(* A collection that contains each subset of S all of whose subsets with    *)
(* one element less it contains, contains S.                                *)
LEMMA FiniteSetInduction ==
    ASSUME NEW S, IsFiniteSet(S), NEW Q,
           \A T \in SUBSET S : (\A x \in T : T \ {x} \in Q) => T \in Q
    PROVE  S \in Q
<1> SUFFICES ASSUME S \notin Q PROVE FALSE
    OBVIOUS
<1> DEFINE Bad == {T \in FiniteSubsetsOf(S) : T \notin Q}
<1>1. S \in Bad
    BY DEF FiniteSubsetsOf
<1>2. \E T \in Bad : \A U \in Bad : ~ (<<U, T>> \in StrictSubsetOrdering(S))
    <2>1. IsWellFoundedOn(StrictSubsetOrdering(S), FiniteSubsetsOf(S))
        BY FS_StrictSubsetOrderingWellFounded
    <2>2. Bad \subseteq FiniteSubsetsOf(S) /\ Bad # {}
        BY <1>1
    <2> HIDE DEF Bad
    <2> QED BY <2>1, <2>2, WFMin
<1>3. PICK T \in Bad : \A U \in Bad : ~ (<<U, T>> \in StrictSubsetOrdering(S))
    BY <1>2
<1>4. ASSUME NEW x \in T PROVE T \ {x} \in Q
    <2>1. T \in SUBSET S /\ IsFiniteSet(T)
        BY DEF FiniteSubsetsOf
    <2>2. IsFiniteSet(T \ {x}) /\ T \ {x} \in SUBSET S
        BY <2>1, FS_RemoveElement
    <2>3. <<T \ {x}, T>> \in StrictSubsetOrdering(S)
        BY <2>1, <1>4 DEF StrictSubsetOrdering
    <2> QED BY <2>2, <2>3, <1>3 DEF FiniteSubsetsOf
<1> QED BY <1>3, <1>4 DEF FiniteSubsetsOf

-----------------------------------------------------------------------------
(* The number of units satisfies the recursion of the sum. *)
LEMMA UnitsCount ==
    ASSUME NEW f, NEW S, IsFiniteSet(S), \A t \in S : f[t] \in Nat
    PROVE  /\ IsFiniteSet(Units(f, S))
           /\ S = {} => Cardinality(Units(f, S)) = 0
           /\ \A x \in S : Cardinality(Units(f, S)) = f[x] + Cardinality(Units(f, S \ {x}))
<1>1. ASSUME NEW x \in S PROVE /\ IsFiniteSet({x} \X (1 .. f[x]))
                               /\ Cardinality({x} \X (1 .. f[x])) = f[x]
    <2>1. IsFiniteSet(1 .. f[x]) /\ Cardinality(1 .. f[x]) = f[x]
        BY <1>1, FS_Interval
    <2>2. IsFiniteSet({x}) /\ Cardinality({x}) = 1
        BY FS_Singleton
    <2>3. f[x] \in Nat
        BY <1>1
    <2> QED BY <2>1, <2>2, <2>3, FS_Product
<1>2. ASSUME NEW T \in SUBSET S PROVE IsFiniteSet(Units(f, T))
    <2> DEFINE P == {{t} \X (1 .. f[t]) : t \in T}
    <2>1. IsFiniteSet(T)
        BY <1>2, FS_Subset
    <2>2. IsFiniteSet(P)
        <3> DEFINE h == [t \in T |-> {t} \X (1 .. f[t])]
        <3>1. h \in Surjection(T, P)
            BY DEF Surjection
        <3> HIDE DEF h, P
        <3> QED BY <2>1, <3>1, FS_Surjection
    <2>3. \A p \in P : IsFiniteSet(p)
        BY <1>1
    <2> HIDE DEF P
    <2>4. IsFiniteSet(UNION P)
        BY <2>2, <2>3, FS_UNION
    <2> QED BY <2>4 DEF P, Units
<1>3. S = {} => Cardinality(Units(f, S)) = 0
    BY FS_EmptySet DEF Units
<1>4. ASSUME NEW x \in S
      PROVE  Cardinality(Units(f, S)) = f[x] + Cardinality(Units(f, S \ {x}))
    <2> DEFINE A == {x} \X (1 .. f[x])
               B == Units(f, S \ {x})
    <2>1. Units(f, S) = A \cup B /\ A \cap B = {}
        BY <1>4 DEF Units
    <2>2. IsFiniteSet(A) /\ Cardinality(A) = f[x] /\ IsFiniteSet(B)
        BY <1>1, <1>2, <1>4
    <2>3. Cardinality(B) \in Nat /\ f[x] \in Nat
        BY <2>2, <1>4, FS_CardinalityType
    <2> HIDE DEF A, B
    <2>4. Cardinality(A \cup B) = Cardinality(A) + Cardinality(B) - Cardinality(A \cap B)
        BY <2>2, FS_Union
    <2>5. Cardinality(A \cap B) = 0
        BY <2>1, FS_EmptySet
    <2>6. Cardinality(Units(f, S)) = f[x] + Cardinality(B)
        BY <2>1, <2>2, <2>3, <2>4, <2>5
    <2> QED BY <2>6 DEF B
<1>5. IsFiniteSet(Units(f, S))
    BY <1>2
<1> QED BY <1>3, <1>4, <1>5

(* The sum is the number of units. *)
LEMMA SumCounts ==
    ASSUME NEW f, NEW S, IsFiniteSet(S), \A t \in S : f[t] \in Nat
    PROVE  Sum(f, S) = Cardinality(Units(f, S))
<1> DEFINE Rec(g) == [s \in SUBSET S |->
                        IF s = {} THEN 0 ELSE f[Pick(s)] + g[s \ {Pick(s)}]]
           g == CHOOSE h : h = Rec(h)
           c == [s \in SUBSET S |-> Cardinality(Units(f, s))]
<1>1. Sum(f, S) = g[S]
    BY DEF Sum, SumFunctionOnSet, FoldFunctionOnSet, MapThenFoldSet, Pick
<1>2. c = Rec(c)
    <2>1. ASSUME NEW s \in SUBSET S
          PROVE  c[s] = IF s = {} THEN 0 ELSE f[Pick(s)] + c[s \ {Pick(s)}]
        <3>1. IsFiniteSet(s) /\ \A t \in s : f[t] \in Nat
            BY <2>1, FS_Subset
        <3>2. CASE s = {}
            BY <3>1, <3>2, UnitsCount
        <3>3. CASE s # {}
            <4>1. Pick(s) \in s
                BY <3>3 DEF Pick
            <4>2. Cardinality(Units(f, s)) = f[Pick(s)] + Cardinality(Units(f, s \ {Pick(s)}))
                BY <3>1, <4>1, UnitsCount
            <4> QED BY <3>3, <4>2
        <3> QED BY <3>2, <3>3
    <2> QED BY <2>1
<1>3. g = Rec(g)
    <2> HIDE DEF c
    <2>1. \E h : h = Rec(h)
        BY <1>2
    <2> HIDE DEF Rec
    <2> QED BY <2>1
<1>4. \A s \in SUBSET S : g[s] = IF s = {} THEN 0 ELSE f[Pick(s)] + g[s \ {Pick(s)}]
    <2> HIDE DEF g
    <2> QED BY <1>3
<1> HIDE DEF g
<1> DEFINE Q == {T \in SUBSET S : g[T] = Cardinality(Units(f, T))}
<1>5. ASSUME NEW T \in SUBSET S, \A x \in T : T \ {x} \in Q
      PROVE  T \in Q
    <2>1. IsFiniteSet(T) /\ \A t \in T : f[t] \in Nat
        BY <1>5, FS_Subset
    <2>2. CASE T = {}
        BY <1>4, <2>1, <2>2, UnitsCount
    <2>3. CASE T # {}
        <3>1. Pick(T) \in T
            BY <2>3 DEF Pick
        <3>2. g[T \ {Pick(T)}] = Cardinality(Units(f, T \ {Pick(T)}))
            BY <1>5, <3>1
        <3>3. g[T] = f[Pick(T)] + g[T \ {Pick(T)}]
            BY <1>4, <2>3
        <3> QED BY <2>1, <3>1, <3>2, <3>3, UnitsCount
    <2> QED BY <2>2, <2>3
<1>6. S \in Q
    <2> HIDE DEF Q
    <2> QED BY <1>5, FiniteSetInduction
<1> QED BY <1>1, <1>6

-----------------------------------------------------------------------------
(* A sum is a natural number, 0 over the empty set. *)
LEMMA SumType ==
    ASSUME NEW f, NEW S, IsFiniteSet(S), \A t \in S : f[t] \in Nat
    PROVE  Sum(f, S) \in Nat /\ (S = {} => Sum(f, S) = 0)
BY SumCounts, UnitsCount, FS_CardinalityType

(* One argument is taken out of the sum. *)
LEMMA SumRemove ==
    ASSUME NEW f, NEW S, IsFiniteSet(S), \A t \in S : f[t] \in Nat, NEW x \in S
    PROVE  Sum(f, S) = f[x] + Sum(f, S \ {x})
<1>1. IsFiniteSet(S \ {x}) /\ \A t \in S \ {x} : f[t] \in Nat
    BY FS_RemoveElement
<1>2. Sum(f, S) = Cardinality(Units(f, S)) /\ Sum(f, S \ {x}) = Cardinality(Units(f, S \ {x}))
    BY <1>1, SumCounts
<1> QED BY <1>2, UnitsCount

(* One argument is added to the sum. *)
LEMMA SumAdd ==
    ASSUME NEW f, NEW S, IsFiniteSet(S), \A t \in S : f[t] \in Nat,
           NEW x, x \notin S, f[x] \in Nat
    PROVE  Sum(f, S \cup {x}) = f[x] + Sum(f, S)
<1>1. IsFiniteSet(S \cup {x}) /\ \A t \in S \cup {x} : f[t] \in Nat
    BY FS_AddElement
<1>2. (S \cup {x}) \ {x} = S /\ x \in S \cup {x}
    OBVIOUS
<1> QED BY <1>1, <1>2, SumRemove

(* The sum depends on the values over its arguments only. *)
LEMMA SumSame ==
    ASSUME NEW f, NEW g, NEW S, IsFiniteSet(S),
           \A t \in S : f[t] \in Nat /\ g[t] = f[t]
    PROVE  Sum(f, S) = Sum(g, S)
<1>1. Units(f, S) = Units(g, S)
    BY DEF Units
<1> QED BY <1>1, SumCounts

(* Two disjoint sets of arguments. *)
LEMMA SumUnion ==
    ASSUME NEW f, NEW S, NEW T, IsFiniteSet(S), IsFiniteSet(T), S \cap T = {},
           \A t \in S \cup T : f[t] \in Nat
    PROVE  Sum(f, S \cup T) = Sum(f, S) + Sum(f, T)
<1>1. Units(f, S \cup T) = Units(f, S) \cup Units(f, T) /\ Units(f, S) \cap Units(f, T) = {}
    BY DEF Units
<1>2. IsFiniteSet(Units(f, S)) /\ IsFiniteSet(Units(f, T)) /\ IsFiniteSet(S \cup T)
    BY UnitsCount, FS_Union
<1>3. /\ Sum(f, S) = Cardinality(Units(f, S)) /\ Sum(f, T) = Cardinality(Units(f, T))
      /\ Sum(f, S \cup T) = Cardinality(Units(f, S \cup T))
    BY <1>2, SumCounts
<1>4. /\ Cardinality(Units(f, S)) \in Nat /\ Cardinality(Units(f, T)) \in Nat
      /\ Cardinality(Units(f, S) \cap Units(f, T)) = 0
    BY <1>1, <1>2, FS_CardinalityType, FS_EmptySet
<1>5. Cardinality(Units(f, S) \cup Units(f, T)) =
        Cardinality(Units(f, S)) + Cardinality(Units(f, T))
          - Cardinality(Units(f, S) \cap Units(f, T))
    BY <1>2, FS_Union
<1>6. Sum(f, S \cup T) = Cardinality(Units(f, S) \cup Units(f, T))
    BY <1>1, <1>3, Zenon
<1> DEFINE a == Cardinality(Units(f, S))
           b == Cardinality(Units(f, T))
           n == Cardinality(Units(f, S) \cap Units(f, T))
<1>7. /\ Sum(f, S \cup T) = a + b - n /\ a \in Nat /\ b \in Nat /\ n = 0
      /\ Sum(f, S) = a /\ Sum(f, T) = b
    BY <1>3, <1>4, <1>5, <1>6, Zenon
<1> HIDE DEF a, b, n
<1> QED BY <1>7

(* Fewer arguments or smaller values give no larger sum. *)
LEMMA SumMonotone ==
    ASSUME NEW f, NEW g, NEW S, NEW T, IsFiniteSet(T), S \subseteq T,
           \A t \in S : f[t] \in Nat /\ f[t] =< g[t],
           \A t \in T : g[t] \in Nat
    PROVE  Sum(f, S) =< Sum(g, T)
<1>1. IsFiniteSet(S)
    BY FS_Subset
<1>2. Units(f, S) \subseteq Units(g, T)
    BY DEF Units
<1>3. IsFiniteSet(Units(g, T))
    BY UnitsCount
<1>4. Cardinality(Units(f, S)) =< Cardinality(Units(g, T))
    BY <1>2, <1>3, FS_Subset
<1> QED BY <1>1, <1>4, SumCounts

(* Equal values. *)
LEMMA SumConstant ==
    ASSUME NEW f, NEW S, IsFiniteSet(S), NEW k \in Nat, \A t \in S : f[t] = k
    PROVE  Sum(f, S) = Cardinality(S) * k
<1>1. Units(f, S) = S \X (1 .. k)
    BY DEF Units
<1>2. IsFiniteSet(1 .. k) /\ Cardinality(1 .. k) = k
    BY FS_Interval
<1>3. Cardinality(S \X (1 .. k)) = Cardinality(S) * k
    BY <1>2, FS_Product
<1>4. Sum(f, S) = Cardinality(Units(f, S))
    BY SumCounts
<1> QED BY <1>1, <1>3, <1>4

(* One value grows by one. *)
LEMMA SumBump ==
    ASSUME NEW S, IsFiniteSet(S), NEW f \in [S -> Nat], NEW x \in S
    PROVE  Sum([f EXCEPT ![x] = @ + 1], S) = Sum(f, S) + 1
<1> DEFINE g == [f EXCEPT ![x] = @ + 1]
<1>1. g \in [S -> Nat] /\ g[x] = f[x] + 1 /\ \A t \in S \ {x} : g[t] = f[t]
    OBVIOUS
<1> HIDE DEF g
<1>2. IsFiniteSet(S \ {x})
    BY FS_RemoveElement
<1>3. Sum(f, S \ {x}) = Sum(g, S \ {x}) /\ Sum(f, S \ {x}) \in Nat
    BY <1>1, <1>2, SumSame, SumType
<1>4. Sum(f, S) = f[x] + Sum(f, S \ {x}) /\ Sum(g, S) = g[x] + Sum(g, S \ {x})
    BY <1>1, SumRemove
<1>5. f[x] \in Nat
    OBVIOUS
<1>6. Sum(g, S) = Sum(f, S) + 1
    BY <1>1, <1>3, <1>4, <1>5
<1> QED BY <1>6 DEF g

(* Values are added argument by argument. *)
LEMMA SumPlus ==
    ASSUME NEW f, NEW g, NEW h, NEW S, IsFiniteSet(S),
           \A t \in S : f[t] \in Nat /\ g[t] \in Nat /\ h[t] = f[t] + g[t]
    PROVE  Sum(h, S) = Sum(f, S) + Sum(g, S)
<1> DEFINE Q == {T \in SUBSET S : Sum(h, T) = Sum(f, T) + Sum(g, T)}
<1>1. ASSUME NEW T \in SUBSET S, \A x \in T : T \ {x} \in Q PROVE T \in Q
    <2>1. IsFiniteSet(T)
        BY FS_Subset
    <2>2. CASE T = {}
        <3>1. Sum(f, T) = 0 /\ Sum(g, T) = 0 /\ Sum(h, T) = 0
            BY <2>1, <2>2, SumType
        <3> QED BY <3>1
    <2>3. CASE T # {}
        <3>1. PICK x \in T : TRUE
            BY <2>3
        <3>2. IsFiniteSet(T \ {x}) /\ \A t \in T : h[t] \in Nat
            BY <2>1, FS_RemoveElement
        <3>3. /\ Sum(f, T) = f[x] + Sum(f, T \ {x}) /\ Sum(g, T) = g[x] + Sum(g, T \ {x})
              /\ Sum(h, T) = h[x] + Sum(h, T \ {x})
            BY <2>1, <3>2, SumRemove
        <3>4. Sum(f, T \ {x}) \in Nat /\ Sum(g, T \ {x}) \in Nat
            BY <3>2, SumType
        <3>5. Sum(h, T \ {x}) = Sum(f, T \ {x}) + Sum(g, T \ {x})
            BY <1>1
        <3>6. f[x] \in Nat /\ g[x] \in Nat /\ h[x] = f[x] + g[x]
            OBVIOUS
        <3>7. Sum(h, T) = Sum(f, T) + Sum(g, T)
            BY <3>3, <3>4, <3>5, <3>6
        <3> QED BY <3>7
    <2> QED BY <2>2, <2>3
<1>2. S \in Q
    <2> HIDE DEF Q
    <2> QED BY <1>1, FiniteSetInduction
<1> QED BY <1>2

(* A table m, whose transpose is t, is added up by rows or by columns. *)
Table(m, t, rows, cols, R, C) ==
    /\ \A r \in R, c \in C : m[r][c] \in Nat /\ t[c][r] = m[r][c]
    /\ \A r \in R : rows[r] = Sum(m[r], C)
    /\ \A c \in C : cols[c] = Sum(t[c], R)

LEMMA SumExchange ==
    ASSUME NEW R, NEW C, IsFiniteSet(R), IsFiniteSet(C), NEW m, NEW t, NEW rows, NEW cols,
           Table(m, t, rows, cols, R, C)
    PROVE  Sum(rows, R) = Sum(cols, C)
<1>0. /\ \A r \in R, c \in C : m[r][c] \in Nat /\ t[c][r] = m[r][c]
      /\ \A r \in R : rows[r] = Sum(m[r], C)
      /\ \A c \in C : cols[c] = Sum(t[c], R)
    BY DEF Table
<1> DEFINE Col(T) == [c \in C |-> Sum(t[c], T)]
           Q == {T \in SUBSET R : Sum(rows, T) = Sum(Col(T), C)}
<1>1. ASSUME NEW T \in SUBSET R
      PROVE  IsFiniteSet(T) /\ \A c \in C : Col(T)[c] \in Nat
    <2>1. IsFiniteSet(T)
        BY FS_Subset
    <2>2. ASSUME NEW c \in C PROVE Sum(t[c], T) \in Nat
        <3>1. \A r \in T : t[c][r] \in Nat
            BY <1>0
        <3> QED BY <2>1, <3>1, SumType
    <2> QED BY <2>1, <2>2
<1>2. \A r \in R : rows[r] \in Nat
    BY <1>0, SumType
<1>3. ASSUME NEW T \in SUBSET R, NEW x \in T, NEW c \in C
      PROVE  Col(T)[c] = m[x][c] + Col(T \ {x})[c]
    <2>1. IsFiniteSet(T) /\ (\A r \in T : t[c][r] \in Nat) /\ t[c][x] = m[x][c]
        BY <1>0, <1>1
    <2>2. Sum(t[c], T) = t[c][x] + Sum(t[c], T \ {x})
        BY <2>1, SumRemove
    <2> QED BY <2>1, <2>2
<1>10. ASSUME NEW T \in SUBSET R, NEW x \in T
      PROVE  Sum(rows, T) = Sum(m[x], C) + Sum(rows, T \ {x})
    <2> HIDE DEF Col, Q
    <2>1. IsFiniteSet(T) /\ \A r \in T : rows[r] \in Nat
        BY <1>1, <1>2
    <2>2. Sum(rows, T) = rows[x] + Sum(rows, T \ {x})
        BY <2>1, SumRemove
    <2>3. rows[x] = Sum(m[x], C)
        BY <1>0
    <2> QED BY <2>2, <2>3
<1>4. ASSUME NEW T \in SUBSET R, \A x \in T : T \ {x} \in Q PROVE T \in Q
    <2>1. CASE T = {}
        <3>1. \A c \in C : Col(T)[c] = 0
            <4>1. ASSUME NEW c \in C PROVE Sum(t[c], T) = 0
                BY <1>1, <2>1, SumType
            <4> QED BY <4>1
        <3>2. Sum(rows, T) = 0
            BY <1>1, <2>1, SumType
        <3>3. Sum(Col(T), C) = Cardinality(C) * 0
            <4> HIDE DEF Col
            <4> QED BY <3>1, SumConstant
        <3>4. Cardinality(C) * 0 = 0
            BY FS_CardinalityType
        <3> QED BY <3>2, <3>3, <3>4
    <2>2. CASE T # {}
        <3>1. PICK x \in T : TRUE
            BY <2>2
        <3> DEFINE a == Sum(rows, T)
                   b == Sum(rows, T \ {x})
                   k == Sum(Col(T), C)
                   l == Sum(Col(T \ {x}), C)
                   n == Sum(m[x], C)
        <3>2. a = n + b
            BY <2>2, <1>10
        <3>3. k = n + l
            <4>1. \A c \in C : m[x][c] \in Nat /\ Col(T \ {x})[c] \in Nat /\ Col(T)[c] = m[x][c] + Col(T \ {x})[c]
                BY <1>0, <1>1, <1>3
            <4>2. PICK f, g, h : f = m[x] /\ g = Col(T \ {x}) /\ h = Col(T)
                OBVIOUS
            <4>3. \A c \in C : f[c] \in Nat /\ g[c] \in Nat /\ h[c] = f[c] + g[c]
                BY <4>1, <4>2, Zenon
            <4>4. Sum(h, C) = Sum(f, C) + Sum(g, C)
                BY <4>3, SumPlus
            <4> HIDE DEF Col
            <4> QED BY <4>2, <4>4
        <3>4. b = l
            BY <1>4
        <3> HIDE DEF a, b, k, l, n
        <3>5. a = k
            BY <3>2, <3>3, <3>4
        <3> QED BY <3>5 DEF a, k
    <2> QED BY <2>1, <2>2
<1>5. R \in Q
    <2> HIDE DEF Q
    <2> QED BY <1>4, FiniteSetInduction
<1>6. Sum(rows, R) = Sum(Col(R), C)
    <2> HIDE DEF Col
    <2> QED BY <1>5 DEF Q
<1>7. PICK d : d = Col(R)
    OBVIOUS
<1>8. \A c \in C : d[c] \in Nat /\ cols[c] = d[c]
    BY <1>0, <1>1, <1>7
<1>9. Sum(d, C) = Sum(cols, C)
    BY <1>8, SumSame
<1> QED BY <1>6, <1>7, <1>9, Zenon

(* Values carried to other arguments, each to one of its own, sum up to no  *)
(* more than those they are carried to.                                     *)
LEMMA SumCarried ==
    ASSUME NEW f, NEW g, NEW S, NEW T, NEW h, IsFiniteSet(S), IsFiniteSet(T),
           \A t \in S : f[t] \in Nat, \A t \in T : g[t] \in Nat,
           \A t \in S : f[t] = 0 \/ (h[t] \in T /\ f[t] =< g[h[t]]),
           \A t, u \in S : h[t] = h[u] => t = u
    PROVE  Sum(f, S) =< Sum(g, T)
<1> DEFINE U == Units(f, S)
           V == Units(g, T)
           carry == [p \in U |-> <<h[p[1]], p[2]>>]
<1>1. IsFiniteSet(U) /\ IsFiniteSet(V)
    BY UnitsCount
<1>2. ASSUME NEW p \in U
      PROVE  p[1] \in S /\ p[2] \in 1 .. f[p[1]] /\ p = <<p[1], p[2]>>
    BY DEF Units
<1>3. \A p \in U : carry[p] \in V
    <2>1. ASSUME NEW p \in U PROVE <<h[p[1]], p[2]>> \in V
        <3>1. f[p[1]] \in Nat /\ f[p[1]] # 0
            BY <1>2
        <3>2. h[p[1]] \in T /\ f[p[1]] =< g[h[p[1]]] /\ g[h[p[1]]] \in Nat
            BY <1>2, <3>1
        <3>3. p[2] \in 1 .. g[h[p[1]]]
            BY <1>2, <3>1, <3>2
        <3> QED BY <3>2, <3>3 DEF Units
    <2> HIDE DEF U, V
    <2> QED BY <2>1
<1>4. ASSUME NEW p \in U, NEW q \in U, carry[p] = carry[q] PROVE p = q
    <2>1. <<h[p[1]], p[2]>> = <<h[q[1]], q[2]>>
        <3> HIDE DEF U
        <3> QED BY <1>4
    <2>2. h[p[1]] = h[q[1]] /\ p[2] = q[2]
        BY <2>1
    <2> QED BY <1>2, <2>2
<1>5. carry \in Injection(U, V)
    <2>1. carry \in [U -> V]
        <3> HIDE DEF U, V
        <3> QED BY <1>3
    <2> HIDE DEF carry, U, V
    <2> QED BY <1>4, <2>1 DEF Injection, IsInjective
<1>6. Cardinality(U) =< Cardinality(V)
    <2> HIDE DEF carry, U, V
    <2> QED BY <1>1, <1>5, FS_Injection
<1> QED BY <1>6, SumCounts
=============================================================================
