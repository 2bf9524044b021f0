------------------------------ MODULE SumLemmas ------------------------------
(***************************************************************************)
(* What the proofs need to know about Total, and about the Greedy split,   *)
(* which is a statement about totals over a ranking.  A fold over a finite *)
(* set is a recursive function on its subsets; that it is defined, and     *)
(* that the order of the summands does not matter, is proved here by       *)
(* induction over sets, the property being the set of those that have it.  *)
(***************************************************************************)
EXTENDS Greedy, FiniteSetTheorems, WellFoundedInduction, TLAPS

-----------------------------------------------------------------------------
(* Induction *)

\* A set of numbers with 0 and with the successors of its members has them all.
LEMMA NatSetInduction ==
  ASSUME NEW T, 0 \in T, \A n \in Nat : n \in T => n + 1 \in T
  PROVE  Nat \subseteq T
  <1> DEFINE Bad == Nat \ T
  <1>1. ASSUME Bad # {} PROVE FALSE
    <2>1. PICK m \in Bad : \A n \in Bad : <<n, m>> \notin OpToRel(<, Nat)
      BY <1>1, NatLessThanWellFounded, WFMin
    <2>2. m \in Nat /\ m \notin T /\ m # 0 /\ m - 1 \in Nat
      <3>1. m \in Nat /\ m \notin T
        OBVIOUS
      <3>2. m # 0
        BY <3>1
      <3>3. QED
        BY <3>1, <3>2
    <2>3. <<m - 1, m>> \in OpToRel(<, Nat)
      BY <2>1, <2>2 DEF OpToRel
    <2>4. m - 1 \in T
      BY <2>1, <2>2, <2>3
    <2>5. (m - 1) + 1 \in T
      BY <2>2, <2>4
    <2>6. (m - 1) + 1 = m
      BY <2>2
    <2>7. QED
      BY <2>2, <2>5, <2>6
  <1>2. QED
    BY <1>1

\* A family of sets that has A whenever it has all smaller sets has every
\* finite set.
LEMMA SmallerSetInduction ==
  ASSUME NEW S, IsFiniteSet(S), NEW T,
         \A A \in SUBSET S : (\A B \in SUBSET A : B # A => B \in T) => A \in T
  PROVE  S \in T
  <1> DEFINE Bad == (SUBSET S) \ T
  <1>1. IsWellFoundedOn(StrictSubsetOrdering(S), SUBSET S)
    BY FS_StrictSubsetOrderingWellFounded, FS_FiniteSubsetsOfFinite
  <1>2. ASSUME Bad # {} PROVE FALSE
    <2>1. PICK A \in Bad : \A B \in Bad : <<B, A>> \notin StrictSubsetOrdering(S)
      <3>1. Bad \subseteq SUBSET S
        OBVIOUS
      <3> HIDE DEF Bad
      <3>2. QED
        BY <1>1, <1>2, <3>1, WFMin
    <2>2. ASSUME NEW B \in SUBSET A, B # A PROVE B \in T
      BY <2>1, <2>2 DEF StrictSubsetOrdering
    <2>3. QED
      BY <2>1, <2>2
  <1>3. QED
    BY <1>2

-----------------------------------------------------------------------------
(* Total is defined *)

Pick(s) == CHOOSE x \in s : TRUE
\* g sums f over every set of its domain.
Sums(g, f, S) == g = [s \in S |-> IF s = {} THEN 0 ELSE f[Pick(s)] + g[s \ {Pick(s)}]]
SumTable(f, S) == CHOOSE g : Sums(g, f, SUBSET S)

\* A total is the entry of its own table at the whole domain.
LEMMA TotalTable == ASSUME NEW f PROVE Total(f) = SumTable(f, DOMAIN f)[DOMAIN f]
  BY DEF Total, MapThenSumSet, MapThenFoldSet, SumTable, Sums, Pick

\* A table of the sums over the subsets of a finite set exists: by induction on
\* the set, one element at a time.
LEMMA TableExists ==
  ASSUME NEW f, NEW S, IsFiniteSet(S)
  PROVE  \E g : Sums(g, f, SUBSET S)
  <1> DEFINE Upto(n) == {s \in SUBSET S : Cardinality(s) <= n}
             T == {n \in Nat : \E g : Sums(g, f, Upto(n))}
  <1>1. \A s \in SUBSET S : /\ IsFiniteSet(s) /\ Cardinality(s) \in Nat
                            /\ Cardinality(s) = 0 <=> s = {}
    BY FS_Subset, FS_CardinalityType, FS_EmptySet
  <1>2. \A s \in SUBSET S : s # {} => /\ Pick(s) \in s /\ s \ {Pick(s)} \in SUBSET S
                                      /\ Cardinality(s \ {Pick(s)}) = Cardinality(s) - 1
    BY <1>1, FS_RemoveElement DEF Pick
  <1>3. 0 \in T
    <2>1. Upto(0) = {{}}
      BY <1>1
    <2>2. Sums([s \in {{}} |-> 0], f, {{}})
      BY DEF Sums
    <2>3. QED
      BY <2>1, <2>2
  <1>4. ASSUME NEW n \in Nat, n \in T PROVE n + 1 \in T
    <2>1. PICK g : Sums(g, f, Upto(n))
      BY <1>4
    <2> DEFINE h == [s \in Upto(n + 1) |->
                       IF s = {} THEN 0 ELSE f[Pick(s)] + g[s \ {Pick(s)}]]
    <2>2. \A s \in Upto(n) : s \in Upto(n + 1) /\ h[s] = g[s]
      <3>1. ASSUME NEW s \in SUBSET S, Cardinality(s) <= n PROVE Cardinality(s) <= n + 1
        BY <1>1, <3>1
      <3>2. \A s \in Upto(n) : g[s] = IF s = {} THEN 0 ELSE f[Pick(s)] + g[s \ {Pick(s)}]
        <4> HIDE DEF Upto
        <4>1. QED
          BY <2>1 DEF Sums
      <3>3. QED
        BY <3>1, <3>2
    <2>3. \A s \in Upto(n + 1) : s # {} => s \ {Pick(s)} \in Upto(n)
      BY <1>1, <1>2
    <2>4. ASSUME NEW s \in Upto(n + 1)
          PROVE  h[s] = IF s = {} THEN 0 ELSE f[Pick(s)] + h[s \ {Pick(s)}]
      BY <2>2, <2>3
    <2>5. Sums(h, f, Upto(n + 1))
      <3>1. h = [s \in Upto(n + 1) |-> h[s]]
        OBVIOUS
      <3> HIDE DEF h, Upto
      <3>2. QED
        BY <2>4, <3>1 DEF Sums
    <2>6. n + 1 \in Nat
      OBVIOUS
    <2> HIDE DEF h, Upto
    <2>7. QED
      BY <2>5, <2>6
  <1> HIDE DEF T
  <1>5. Cardinality(S) \in T
    BY <1>1, <1>3, <1>4, NatSetInduction
  <1>6. Upto(Cardinality(S)) = SUBSET S
    BY FS_Subset
  <1>7. QED
    BY <1>5, <1>6 DEF T

\* The table picks one element and adds the sum of the others.
LEMMA TableValue ==
  ASSUME NEW f, NEW S, IsFiniteSet(S), NEW s \in SUBSET S
  PROVE  SumTable(f, S)[s] = IF s = {} THEN 0
                             ELSE f[Pick(s)] + SumTable(f, S)[s \ {Pick(s)}]
  <1>1. Sums(SumTable(f, S), f, SUBSET S)
    BY TableExists DEF SumTable
  <1>2. QED
    BY <1>1 DEF Sums

\* Tables agree where their functions do.
LEMMA TablesAgree ==
  ASSUME NEW f, NEW S, IsFiniteSet(S), NEW g, NEW R \in SUBSET S, \A x \in R : g[x] = f[x]
  PROVE  SumTable(f, S)[R] = SumTable(g, R)[R]
  <1> DEFINE T == {A \in SUBSET R : SumTable(f, S)[A] = SumTable(g, R)[A]}
  <1>1. IsFiniteSet(R)
    BY FS_Subset
  <1>2. ASSUME NEW A \in SUBSET R, \A B \in SUBSET A : B # A => B \in T PROVE A \in T
    <2>1. CASE A = {}
      BY <1>1, <2>1, TableValue
    <2>2. CASE A # {}
      <3>1. Pick(A) \in A
        BY <2>2 DEF Pick
      <3>2. A \ {Pick(A)} \in T
        BY <1>2, <3>1
      <3>3. /\ SumTable(f, S)[A] = f[Pick(A)] + SumTable(f, S)[A \ {Pick(A)}]
            /\ SumTable(g, R)[A] = g[Pick(A)] + SumTable(g, R)[A \ {Pick(A)}]
        <4>1. A \in SUBSET S
          OBVIOUS
        <4>2. QED
          BY <1>1, <2>2, <4>1, TableValue
      <3>4. QED
        BY <3>1, <3>2, <3>3
    <2>3. QED
      BY <2>1, <2>2
  <1> HIDE DEF T
  <1>3. R \in T
    BY <1>1, <1>2, SmallerSetInduction
  <1>4. QED
    BY <1>3 DEF T

-----------------------------------------------------------------------------
(* Total, summand by summand *)

\* f without its entry of x.
Drop(f, x) == [y \in DOMAIN f \ {x} |-> f[y]]

\* Nothing adds up to 0.
LEMMA TotalEmpty == ASSUME NEW f, DOMAIN f = {} PROVE Total(f) = 0
  BY TotalTable, TableValue, FS_EmptySet

\* A total is the picked entry and the total of the others.
LEMMA TotalPick ==
  ASSUME NEW f, IsFiniteSet(DOMAIN f), DOMAIN f # {}
  PROVE  /\ Pick(DOMAIN f) \in DOMAIN f
         /\ Total(f) = f[Pick(DOMAIN f)] + Total(Drop(f, Pick(DOMAIN f)))
  <1> DEFINE S == DOMAIN f
             x == Pick(S)
             R == S \ {x}
  <1>1. x \in S
    BY DEF Pick
  <1>2. /\ Total(f) = SumTable(f, S)[S]
        /\ Total(Drop(f, x)) = SumTable(Drop(f, x), R)[R]
    BY TotalTable DEF Drop
  <1>3. SumTable(f, S)[S] = f[x] + SumTable(f, S)[R]
    BY TableValue
  <1>4. SumTable(f, S)[R] = SumTable(Drop(f, x), R)[R]
    <2>1. \A y \in R : Drop(f, x)[y] = f[y]
      BY DEF Drop
    <2>2. R \in SUBSET S
      OBVIOUS
    <2> HIDE DEF R
    <2>3. QED
      BY <2>1, <2>2, TablesAgree
  <1>5. QED
    BY <1>1, <1>2, <1>3, <1>4

\* f adds up: it is a function with a finite domain and whole values.
Summable(f) == IsFiniteSet(DOMAIN f) /\ f \in [DOMAIN f -> Int]

\* What can be summed still can with an entry dropped.
LEMMA DropSummable ==
  ASSUME NEW f, Summable(f), NEW x
  PROVE  Summable(Drop(f, x)) /\ DOMAIN Drop(f, x) = DOMAIN f \ {x}
  BY FS_RemoveElement DEF Summable, Drop

\* A total is an integer.
LEMMA TotalType == ASSUME NEW f, Summable(f) PROVE Total(f) \in Int
  <1> DEFINE T == {A \in SUBSET DOMAIN f : Total([y \in A |-> f[y]]) \in Int}
  <1>1. ASSUME NEW A \in SUBSET DOMAIN f, \A B \in SUBSET A : B # A => B \in T PROVE A \in T
    <2> DEFINE g == [y \in A |-> f[y]]
               x == Pick(A)
    <2>1. CASE A = {}
      BY <2>1, TotalEmpty
    <2>2. CASE A # {}
      <3>1. /\ x \in A
            /\ Total(g) = g[x] + Total(Drop(g, x))
        BY <2>2, FS_Subset, TotalPick DEF Summable
      <3>2. Drop(g, x) = [y \in A \ {x} |-> f[y]]
        BY DEF Drop
      <3>3. A \ {x} \in T
        BY <1>1, <3>1
      <3>4. g[x] \in Int
        BY <3>1 DEF Summable
      <3>5. QED
        BY <3>1, <3>2, <3>3, <3>4
    <2>3. QED
      BY <2>1, <2>2
  <1> HIDE DEF T
  <1>2. DOMAIN f \in T
    BY <1>1, SmallerSetInduction DEF Summable
  <1>3. f = [y \in DOMAIN f |-> f[y]]
    BY DEF Summable
  <1>4. QED
    BY <1>2, <1>3 DEF T

\* Any entry can be taken out first.
LEMMA TotalDrop ==
  ASSUME NEW f, Summable(f), NEW x \in DOMAIN f
  PROVE  Total(f) = f[x] + Total(Drop(f, x))
  <1> DEFINE On(A) == [y \in A |-> f[y]]
             T == {A \in SUBSET DOMAIN f :
                     \A z \in A : Total(On(A)) = f[z] + Total(On(A \ {z}))}
  <1>1. ASSUME NEW A \in SUBSET DOMAIN f
        PROVE  /\ Summable(On(A)) /\ DOMAIN On(A) = A
               /\ \A z : Drop(On(A), z) = On(A \ {z})
               /\ \A z \in A : On(A)[z] = f[z] /\ f[z] \in Int
               /\ Total(On(A)) \in Int
    <2>1. Summable(On(A))
      BY FS_Subset DEF Summable
    <2>2. QED
      BY <2>1, TotalType DEF Drop, Summable
  <1>2. ASSUME NEW A \in SUBSET DOMAIN f, \A B \in SUBSET A : B # A => B \in T PROVE A \in T
    <2> SUFFICES ASSUME NEW z \in A PROVE Total(On(A)) = f[z] + Total(On(A \ {z}))
      OBVIOUS
    <2> DEFINE p == Pick(A)
    <2>1. p \in A /\ Total(On(A)) = f[p] + Total(On(A \ {p}))
      <3>1. IsFiniteSet(DOMAIN On(A)) /\ DOMAIN On(A) # {}
        BY <1>1 DEF Summable
      <3>2. p \in A /\ Total(On(A)) = On(A)[p] + Total(Drop(On(A), p))
        BY <3>1, TotalPick
      <3>3. QED
        BY <1>1, <3>2
    <2>2. CASE p = z
      BY <2>1, <2>2
    <2>3. CASE p # z
      <3>1. Total(On(A \ {p})) = f[z] + Total(On((A \ {p}) \ {z}))
        <4>1. A \ {p} \in T
          BY <1>2, <2>1
        <4>2. QED
          BY <2>1, <2>3, <4>1
      <3>2. Total(On(A \ {z})) = f[p] + Total(On((A \ {z}) \ {p}))
        <4>1. A \ {z} \in T
          BY <1>2
        <4>2. QED
          BY <2>1, <2>3, <4>1
      <3> DEFINE rest == Total(On((A \ {z}) \ {p}))
                 u == Total(On(A \ {p}))
                 v == Total(On(A \ {z}))
      <3>3. u = f[z] + rest
        <4>1. (A \ {p}) \ {z} = (A \ {z}) \ {p}
          OBVIOUS
        <4>2. QED
          BY <3>1, <4>1
      <3>4. v = f[p] + rest
        BY <3>2
      <3>5. Total(On(A)) = f[p] + u
        BY <2>1
      <3>6. f[p] \in Int /\ f[z] \in Int /\ rest \in Int
        BY <1>1, <2>1
      <3> HIDE DEF rest, u, v
      <3>7. Total(On(A)) = f[z] + v
        BY <3>3, <3>4, <3>5, <3>6
      <3>8. QED
        BY <3>7 DEF v
    <2>4. QED
      BY <2>2, <2>3
  <1> HIDE DEF T
  <1>3. DOMAIN f \in T
    BY <1>2, SmallerSetInduction DEF Summable
  <1>4. On(DOMAIN f) = f /\ On(DOMAIN f \ {x}) = Drop(f, x)
    BY DEF Summable, Drop
  <1>5. QED
    BY <1>3, <1>4 DEF T

-----------------------------------------------------------------------------
(* What changes a total, and by how much *)

\* A new entry adds its value.
LEMMA TotalGrows ==
  ASSUME NEW f, NEW g, Summable(f), NEW k, k \notin DOMAIN f,
         g = [x \in DOMAIN f \cup {k} |-> IF x = k THEN g[k] ELSE f[x]], g[k] \in Int
  PROVE  Summable(g) /\ Total(g) = Total(f) + g[k]
  <1>1. Summable(g)
    <2>1. IsFiniteSet(DOMAIN g)
      BY FS_AddElement DEF Summable
    <2>2. QED
      BY <2>1 DEF Summable
  <1>2. Drop(g, k) = f
    BY DEF Drop, Summable
  <1>3. Total(g) = g[k] + Total(f)
    BY <1>1, <1>2, TotalDrop
  <1>4. QED
    BY <1>1, <1>3, TotalType

\* An entry that changes changes the total by as much.
LEMMA TotalUpdate ==
  ASSUME NEW f, NEW g, Summable(f), NEW k \in DOMAIN f,
         g = [x \in DOMAIN f |-> IF x = k THEN g[k] ELSE f[x]], g[k] \in Int
  PROVE  Summable(g) /\ Total(g) = Total(f) - f[k] + g[k]
  <1>1. Summable(g)
    BY DEF Summable
  <1>2. Drop(g, k) = Drop(f, k)
    BY DEF Drop
  <1>3. Total(g) = g[k] + Total(Drop(f, k)) /\ Total(f) = f[k] + Total(Drop(f, k))
    BY <1>1, <1>2, TotalDrop
  <1>4. Total(Drop(f, k)) \in Int /\ f[k] \in Int
    BY DropSummable, TotalType DEF Summable
  <1>5. QED
    BY <1>1, <1>3, <1>4

\* Totals of nothing negative are not negative, and not below an entry.
LEMMA TotalNat ==
  ASSUME NEW f, IsFiniteSet(DOMAIN f), f \in [DOMAIN f -> Nat]
  PROVE  Summable(f) /\ Total(f) \in Nat /\ \A x \in DOMAIN f : f[x] <= Total(f)
  <1> DEFINE On(A) == [y \in A |-> f[y]]
             T == {A \in SUBSET DOMAIN f : Total(On(A)) \in Nat}
  <1>0. Summable(f)
    BY DEF Summable
  <1>1. ASSUME NEW A \in SUBSET DOMAIN f, \A B \in SUBSET A : B # A => B \in T PROVE A \in T
    <2>1. CASE A = {}
      BY <2>1, TotalEmpty
    <2>2. CASE A # {}
      <3>1. PICK z \in A : TRUE
        BY <2>2
      <3>2. Total(On(A)) = On(A)[z] + Total(Drop(On(A), z))
        BY TotalDrop, FS_Subset DEF Summable
      <3>3. Drop(On(A), z) = On(A \ {z})
        BY DEF Drop
      <3>4. A \ {z} \in T /\ On(A)[z] \in Nat
        BY <1>1
      <3>5. QED
        BY <3>2, <3>3, <3>4
    <2>3. QED
      BY <2>1, <2>2
  <1>2. \A A \in SUBSET DOMAIN f : Total(On(A)) \in Nat
    <2> SUFFICES ASSUME NEW A \in SUBSET DOMAIN f PROVE A \in T
      OBVIOUS
    <2>1. IsFiniteSet(A)
      BY FS_Subset
    <2>2. \A B \in SUBSET A : (\A C \in SUBSET B : C # B => C \in T) => B \in T
      BY <1>1
    <2> HIDE DEF T
    <2>3. QED
      BY <2>1, <2>2, SmallerSetInduction
  <1>3. On(DOMAIN f) = f
    OBVIOUS
  <1>4. ASSUME NEW x \in DOMAIN f PROVE f[x] <= Total(f)
    <2>1. Drop(f, x) = On(DOMAIN f \ {x})
      BY DEF Drop
    <2>2. Total(Drop(f, x)) \in Nat
      BY <1>2, <2>1
    <2>3. QED
      BY <1>0, <2>2, TotalDrop
  <1>5. QED
    BY <1>0, <1>2, <1>3, <1>4

\* A total splits as its summands do; h may lack the entries it adds nothing to.
LEMMA TotalSplit ==
  ASSUME NEW f, NEW g, NEW h, Summable(f), Summable(g), Summable(h),
         DOMAIN g = DOMAIN f, DOMAIN h \subseteq DOMAIN f,
         \A x \in DOMAIN f : f[x] = g[x] + (IF x \in DOMAIN h THEN h[x] ELSE 0)
  PROVE  Total(f) = Total(g) + Total(h)
  <1> DEFINE On(k, A) == [y \in DOMAIN k \cap A |-> k[y]]
             T == {A \in SUBSET DOMAIN f :
                     Total(On(f, A)) = Total(On(g, A)) + Total(On(h, A))}
  <1>1. ASSUME NEW k, Summable(k), NEW A
        PROVE  /\ Total(On(k, A)) \in Int
               /\ \A z \in DOMAIN k \cap A :
                    Total(On(k, A)) = k[z] + Total(On(k, A \ {z})) /\ k[z] \in Int
               /\ \A z : z \notin DOMAIN k \cap A => On(k, A \ {z}) = On(k, A)
    <2>1. IsFiniteSet(DOMAIN k \cap A)
      BY <1>1, FS_Intersection DEF Summable
    <2>2. Summable(On(k, A))
      BY <1>1, <2>1 DEF Summable
    <2>3. ASSUME NEW z \in DOMAIN k \cap A
          PROVE  Total(On(k, A)) = k[z] + Total(On(k, A \ {z})) /\ k[z] \in Int
      <3>1. Drop(On(k, A), z) = On(k, A \ {z})
        BY DEF Drop
      <3>2. On(k, A)[z] = k[z] /\ k[z] \in Int
        BY <1>1 DEF Summable
      <3>3. Total(On(k, A)) = On(k, A)[z] + Total(Drop(On(k, A), z))
        BY <2>2, TotalDrop
      <3>4. QED
        BY <3>1, <3>2, <3>3
    <2>4. ASSUME NEW z, z \notin DOMAIN k \cap A PROVE On(k, A \ {z}) = On(k, A)
      <3>1. DOMAIN k \cap (A \ {z}) = DOMAIN k \cap A
        BY <2>4
      <3>2. QED
        BY <3>1
    <2>5. QED
      BY <2>2, <2>3, <2>4, TotalType
  <1>2. ASSUME NEW A \in SUBSET DOMAIN f, \A B \in SUBSET A : B # A => B \in T PROVE A \in T
    <2>1. CASE A = {}
      <3>1. Total(On(f, A)) = 0 /\ Total(On(g, A)) = 0 /\ Total(On(h, A)) = 0
        BY <2>1, TotalEmpty
      <3>2. QED
        BY <3>1
    <2>2. CASE A # {}
      <3>1. PICK z \in A : TRUE
        BY <2>2
      <3> DEFINE F(B) == Total(On(f, B))
                 G(B) == Total(On(g, B))
                 H(B) == Total(On(h, B))
      <3>2. F(A \ {z}) = G(A \ {z}) + H(A \ {z})
        <4>1. A \ {z} \in T
          BY <1>2
        <4>2. QED
          BY <4>1
      <3>3. F(A) = f[z] + F(A \ {z}) /\ f[z] \in Int
        BY <1>1
      <3>4. G(A) = g[z] + G(A \ {z}) /\ g[z] \in Int /\ G(A \ {z}) \in Int
        <4>1. z \in DOMAIN g \cap A
          OBVIOUS
        <4>2. G(A) = g[z] + G(A \ {z}) /\ g[z] \in Int
          BY <1>1, <4>1
        <4>3. G(A \ {z}) \in Int
          BY <1>1
        <4>4. QED
          BY <4>2, <4>3
      <3>5. H(A) \in Int /\ H(A \ {z}) \in Int
        BY <1>1
      <3>6. f[z] = g[z] + (IF z \in DOMAIN h THEN h[z] ELSE 0)
        OBVIOUS
      <3>7. CASE z \in DOMAIN h
        <4>1. H(A) = h[z] + H(A \ {z}) /\ h[z] \in Int
          BY <1>1, <3>7
        <4> HIDE DEF F, G, H
        <4>2. F(A) = G(A) + H(A)
          BY <3>2, <3>3, <3>4, <3>5, <3>6, <3>7, <4>1
        <4>3. QED
          BY <4>2 DEF F, G, H
      <3>8. CASE z \notin DOMAIN h
        <4>1. H(A) = H(A \ {z})
          BY <1>1, <3>8
        <4> HIDE DEF F, G, H
        <4>2. F(A) = G(A) + H(A)
          BY <3>2, <3>3, <3>4, <3>5, <3>6, <3>8, <4>1
        <4>3. QED
          BY <4>2 DEF F, G, H
      <3>9. QED
        BY <3>7, <3>8
    <2>3. QED
      BY <2>1, <2>2
  <1> HIDE DEF T
  <1>3. DOMAIN f \in T
    BY <1>2, SmallerSetInduction DEF Summable
  <1>4. On(f, DOMAIN f) = f /\ On(g, DOMAIN f) = g /\ On(h, DOMAIN f) = h
    <2>1. /\ DOMAIN f \cap DOMAIN f = DOMAIN f /\ DOMAIN g \cap DOMAIN f = DOMAIN g
          /\ DOMAIN h \cap DOMAIN f = DOMAIN h
      OBVIOUS
    <2>2. QED
      BY <2>1 DEF Summable
  <1>5. QED
    BY <1>3, <1>4 DEF T

\* Nothing but zeros add up to zero.
LEMMA TotalZero ==
  ASSUME NEW f, IsFiniteSet(DOMAIN f), f = [x \in DOMAIN f |-> 0]
  PROVE  Summable(f) /\ Total(f) = 0
  <1>1. Summable(f)
    BY DEF Summable
  <1>2. Total(f) = Total(f) + Total(f)
    BY <1>1, TotalSplit
  <1>3. QED
    BY <1>1, <1>2, TotalType

\* Leaving out entries that are zero changes no total.
LEMMA TotalSupport ==
  ASSUME NEW f, NEW h, Summable(f), DOMAIN h \subseteq DOMAIN f,
         h = [x \in DOMAIN h |-> f[x]], \A x \in DOMAIN f \ DOMAIN h : f[x] = 0
  PROVE  Summable(h) /\ Total(h) = Total(f)
  <1> DEFINE g == [x \in DOMAIN f |-> 0]
  <1>1. Summable(h)
    <2>1. IsFiniteSet(DOMAIN h)
      BY FS_Subset DEF Summable
    <2>2. QED
      BY <2>1 DEF Summable
  <1>2. Summable(g) /\ Total(g) = 0
    BY TotalZero DEF Summable
  <1>3. Total(f) = Total(g) + Total(h)
    <2>1. \A x \in DOMAIN f : f[x] = g[x] + (IF x \in DOMAIN h THEN h[x] ELSE 0)
      BY DEF Summable
    <2> HIDE DEF g
    <2>2. DOMAIN g = DOMAIN f
      BY DEF g
    <2>3. QED
      BY <1>1, <1>2, <2>1, <2>2, TotalSplit
  <1>4. QED
    BY <1>1, <1>2, <1>3, TotalType
\* The summand under k, if there is one.
Entry(f, k) == IF k \in DOMAIN f THEN f[k] ELSE 0

\* When only the entry under k comes, goes or changes, the total changes by it.
LEMMA TotalChange ==
  ASSUME NEW f, NEW g, NEW k, Summable(f), Summable(g),
         DOMAIN f \ {k} = DOMAIN g \ {k}, \A x \in DOMAIN f \ {k} : g[x] = f[x]
  PROVE  /\ Total(g) = Total(f) - Entry(f, k) + Entry(g, k)
         /\ Total(f) \in Int /\ Entry(f, k) \in Int /\ Entry(g, k) \in Int
  <1>1. ASSUME NEW h, Summable(h)
        PROVE  Total(h) = Total(Drop(h, k)) + Entry(h, k) /\ Entry(h, k) \in Int
    <2>1. Total(Drop(h, k)) \in Int
      BY <1>1, DropSummable, TotalType
    <2>2. CASE k \in DOMAIN h
      BY <1>1, <2>1, <2>2, TotalDrop DEF Entry, Summable
    <2>3. CASE k \notin DOMAIN h
      <3>1. Drop(h, k) = h
        BY <1>1, <2>3 DEF Drop, Summable
      <3>2. QED
        BY <2>1, <2>3, <3>1 DEF Entry
    <2>4. QED
      BY <2>2, <2>3
  <1>2. Drop(f, k) = Drop(g, k) /\ Total(Drop(f, k)) \in Int
    BY DropSummable, TotalType DEF Drop
  <1>3. QED
    BY <1>1, <1>2

-----------------------------------------------------------------------------
(* Greedy *)

\* r is a strict order on D, with no two members unordered if it is linear.
StrictOrder(r, D) ==
  /\ \A x \in D : <<x, x>> \notin r
  /\ \A x, y, z \in D : <<x, y>> \in r /\ <<y, z>> \in r => <<x, z>> \in r
LinearOrder(r, D) ==
  /\ StrictOrder(r, D)
  /\ \A x, y \in D : x = y \/ <<x, y>> \in r \/ <<y, x>> \in r

\* What can be shared out of D: nothing negative.
Capacity(cap) == IsFiniteSet(DOMAIN cap) /\ cap \in [DOMAIN cap -> Nat]

\* A part of the capacity is no more than the whole.
LEMMA TotalPart ==
  ASSUME NEW cap, Capacity(cap), NEW A \in SUBSET DOMAIN cap
  PROVE  /\ Total([x \in A |-> cap[x]]) \in Nat
         /\ Total(cap) \in Nat
         /\ Total([x \in A |-> cap[x]]) <= Total(cap)
  <1> DEFINE h == [x \in A |-> cap[x]]
             g == [x \in DOMAIN cap |-> IF x \in A THEN 0 ELSE cap[x]]
  <1>1. IsFiniteSet(DOMAIN h) /\ h \in [DOMAIN h -> Nat]
    BY FS_Subset DEF Capacity
  <1>2. IsFiniteSet(DOMAIN g) /\ g \in [DOMAIN g -> Nat]
    BY DEF Capacity
  <1>3. /\ Summable(cap) /\ Summable(g) /\ Summable(h)
        /\ Total(cap) \in Nat /\ Total(g) \in Nat /\ Total(h) \in Nat
    BY <1>1, <1>2, TotalNat DEF Capacity
  <1>4. /\ DOMAIN g = DOMAIN cap /\ DOMAIN h \subseteq DOMAIN cap
        /\ \A x \in DOMAIN cap : cap[x] = g[x] + (IF x \in DOMAIN h THEN h[x] ELSE 0)
    BY DEF Capacity
  <1> HIDE DEF g, h
  <1>5. Total(cap) = Total(g) + Total(h)
    BY <1>3, <1>4, TotalSplit
  <1>6. QED
    BY <1>3, <1>5 DEF h

\* What those ahead of a member could take is a number.
LEMMA AheadType ==
  ASSUME NEW cap, Capacity(cap), NEW r, NEW x
  PROVE  Ahead(cap, r, x) \in Nat
  BY TotalPart DEF Ahead

\* Greedy gives each member something, and no more than it can take.
LEMMA GreedyType ==
  ASSUME NEW cap, Capacity(cap), NEW r, NEW amount \in Nat, NEW x \in DOMAIN Greedy(amount, cap, r)
  PROVE  /\ x \in DOMAIN cap
         /\ Greedy(amount, cap, r)[x] \in Nat \ {0}
         /\ Greedy(amount, cap, r)[x] <= cap[x]
  <1>1. x \in DOMAIN cap /\ cap[x] > 0 /\ Ahead(cap, r, x) < amount
    BY DEF Greedy
  <1>2. cap[x] \in Nat /\ Ahead(cap, r, x) \in Nat
    BY <1>1, AheadType DEF Capacity
  <1>3. Greedy(amount, cap, r)[x] = IF cap[x] < amount - Ahead(cap, r, x) THEN cap[x]
                                    ELSE amount - Ahead(cap, r, x)
    BY <1>1 DEF Greedy
  <1>4. QED
    BY <1>1, <1>2, <1>3

\* A member gets its share only when everyone ahead of it was served in full.
LEMMA GreedyExhausts ==
  ASSUME NEW cap, Capacity(cap), NEW r, StrictOrder(r, DOMAIN cap), NEW amount \in Nat,
         NEW x \in DOMAIN cap, NEW y \in DOMAIN Greedy(amount, cap, r), <<x, y>> \in r
  PROVE  \/ x \notin DOMAIN Greedy(amount, cap, r) /\ cap[x] = 0
         \/ x \in DOMAIN Greedy(amount, cap, r) /\ Greedy(amount, cap, r)[x] = cap[x]
  <1> DEFINE Before(u) == {z \in DOMAIN cap : <<z, u>> \in r}
             f == [z \in Before(y) |-> cap[z]]
             h == [z \in Before(x) \cup {x} |-> f[z]]
  <1>1. y \in DOMAIN cap /\ Ahead(cap, r, y) < amount
    BY DEF Greedy
  <1>2. Before(x) \cup {x} \subseteq Before(y) /\ x \notin Before(x)
    BY <1>1 DEF StrictOrder
  <1>3. Capacity(f)
    BY FS_Subset DEF Capacity
  <1>4. Total(h) <= Total(f) /\ Total(f) = Ahead(cap, r, y)
    BY <1>2, <1>3, TotalPart DEF Ahead
  <1>5. Total(h) = Ahead(cap, r, x) + cap[x]
    <2> DEFINE k == [z \in Before(x) |-> cap[z]]
    <2>1. Total(k) = Ahead(cap, r, x)
      BY DEF Ahead
    <2>2. Summable(k)
      BY FS_Subset, TotalNat DEF Capacity, Summable
    <2>3. h = [z \in DOMAIN k \cup {x} |-> IF z = x THEN h[x] ELSE k[z]]
      BY <1>2
    <2>4. h[x] = cap[x] /\ cap[x] \in Int /\ x \notin DOMAIN k
      BY <1>2 DEF Capacity
    <2> HIDE DEF h, k
    <2>5. QED
      BY <2>1, <2>2, <2>3, <2>4, TotalGrows
  <1>6. cap[x] \in Nat /\ Ahead(cap, r, x) \in Nat /\ Ahead(cap, r, y) \in Nat
    BY AheadType DEF Capacity
  <1> HIDE DEF h, f
  <1>7. Ahead(cap, r, x) + cap[x] < amount
    BY <1>1, <1>4, <1>5, <1>6
  <1>8. CASE cap[x] = 0
    BY <1>8 DEF Greedy
  <1>9. CASE cap[x] > 0
    <2>1. x \in DOMAIN Greedy(amount, cap, r)
      BY <1>6, <1>7, <1>9 DEF Greedy
    <2>2. Greedy(amount, cap, r)[x] = IF cap[x] < amount - Ahead(cap, r, x) THEN cap[x]
                                      ELSE amount - Ahead(cap, r, x)
      BY <2>1 DEF Greedy
    <2>3. QED
      BY <1>6, <1>7, <2>1, <2>2
  <1>10. QED
    BY <1>6, <1>8, <1>9

\* A nonempty finite part of a linear order has a last member.
LEMMA LastMember ==
  ASSUME NEW D, NEW r, LinearOrder(r, D), NEW A \in SUBSET D, IsFiniteSet(A), A # {}
  PROVE  \E m \in A : \A x \in A \ {m} : <<x, m>> \in r
  <1> DEFINE T == {B \in SUBSET A : B = {} \/ \E m \in B : \A x \in B \ {m} : <<x, m>> \in r}
  <1>1. ASSUME NEW B \in SUBSET A, \A C \in SUBSET B : C # B => C \in T PROVE B \in T
    <2> SUFFICES ASSUME NEW z \in B PROVE \E m \in B : \A x \in B \ {m} : <<x, m>> \in r
      OBVIOUS
    <2>1. B \ {z} \in T
      BY <1>1
    <2>2. CASE B \ {z} = {}
      BY <2>2
    <2>3. CASE B \ {z} # {}
      <3>1. PICK m \in B \ {z} : \A x \in (B \ {z}) \ {m} : <<x, m>> \in r
        BY <2>1, <2>3
      <3>2. CASE <<z, m>> \in r
        BY <3>1, <3>2
      <3>3. CASE <<m, z>> \in r
        <4>1. \A x \in B \ {z} : <<x, z>> \in r
          BY <3>1, <3>3 DEF LinearOrder, StrictOrder
        <4>2. QED
          BY <4>1
      <3>4. QED
        BY <3>1, <3>2, <3>3 DEF LinearOrder
    <2>4. QED
      BY <2>2, <2>3
  <1> HIDE DEF T
  <1>2. A \in T
    BY <1>1, SmallerSetInduction
  <1>3. QED
    BY <1>2 DEF T

\* What there is room for is shared out to the last wei.
LEMMA GreedyTotal ==
  ASSUME NEW cap, Capacity(cap), NEW r, LinearOrder(r, DOMAIN cap),
         NEW amount \in Nat, amount <= Total(cap)
  PROVE  Summable(Greedy(amount, cap, r)) /\ Total(Greedy(amount, cap, r)) = amount
  <1> DEFINE D == DOMAIN cap
             shares == Greedy(amount, cap, r)
             \* the shares, with those who get none
             all == [x \in D |-> IF x \in DOMAIN shares THEN shares[x] ELSE 0]
             Room(A) == Total([x \in A |-> cap[x]])
             Given(A) == Total([x \in A |-> all[x]])
             Closed(A) == \A x \in D, y \in A : <<x, y>> \in r => x \in A
             T == {A \in SUBSET D : Closed(A) =>
                     Given(A) = IF Room(A) <= amount THEN Room(A) ELSE amount}
  <1>1. all \in [D -> Nat] /\ Summable(all)
    BY GreedyType DEF Capacity, Summable
  <1>2. ASSUME NEW A \in SUBSET D
        PROVE  Summable([x \in A |-> all[x]]) /\ Summable([x \in A |-> cap[x]])
    <2>1. IsFiniteSet(A)
      BY FS_Subset DEF Capacity
    <2>2. QED
      BY <1>1, <2>1 DEF Capacity, Summable
  <1>3. ASSUME NEW A \in SUBSET D, \A B \in SUBSET A : B # A => B \in T PROVE A \in T
    <2> SUFFICES ASSUME Closed(A)
                 PROVE  Given(A) = IF Room(A) <= amount THEN Room(A) ELSE amount
      OBVIOUS
    <2>1. CASE A = {}
      <3>1. Given(A) = 0 /\ Room(A) = 0
        BY <2>1, TotalEmpty
      <3>2. QED
        BY <3>1
    <2>2. CASE A # {}
      <3>1. PICK m \in A : \A x \in A \ {m} : <<x, m>> \in r
        BY <2>2, LastMember, FS_Subset DEF Capacity
      <3> DEFINE B == A \ {m}
      <3>2. B = {z \in D : <<z, m>> \in r}
        BY <3>1 DEF LinearOrder, StrictOrder
      <3>3. Closed(B)
        BY <3>1, <3>2 DEF LinearOrder, StrictOrder
      <3>4. Given(B) = IF Room(B) <= amount THEN Room(B) ELSE amount
        BY <1>3, <3>3
      <3>5. Ahead(cap, r, m) = Room(B)
        BY <3>2 DEF Ahead
      <3>6. Given(A) = all[m] + Given(B) /\ Room(A) = cap[m] + Room(B)
        <4>1. /\ Drop([x \in A |-> all[x]], m) = [x \in B |-> all[x]]
              /\ Drop([x \in A |-> cap[x]], m) = [x \in B |-> cap[x]]
          BY DEF Drop
        <4> HIDE DEF all
        <4>2. /\ Total([x \in A |-> all[x]]) = all[m] + Total(Drop([x \in A |-> all[x]], m))
              /\ Total([x \in A |-> cap[x]]) = cap[m] + Total(Drop([x \in A |-> cap[x]], m))
          BY <1>2, TotalDrop
        <4>3. QED
          BY <4>1, <4>2
      <3>7. all[m] = IF cap[m] > 0 /\ Room(B) < amount
                     THEN IF cap[m] < amount - Room(B) THEN cap[m] ELSE amount - Room(B)
                     ELSE 0
        BY <3>5 DEF Greedy
      <3>8. cap[m] \in Nat /\ Room(B) \in Nat
        BY TotalPart DEF Capacity
      <3> HIDE DEF Given, Room, all, B
      <3>9. QED
        BY <3>4, <3>6, <3>7, <3>8
    <2>3. QED
      BY <2>1, <2>2
  <1>4. D \in T
    <2> HIDE DEF T
    <2>1. QED
      BY <1>3, SmallerSetInduction DEF Capacity
  <1>5. Given(D) = Total(all) /\ Room(D) = Total(cap)
    <2>1. all = [x \in D |-> all[x]] /\ cap = [x \in D |-> cap[x]]
      BY DEF Capacity
    <2> HIDE DEF all
    <2>2. QED
      BY <2>1
  <1>6. Total(all) = amount
    <2>1. Given(D) = IF Room(D) <= amount THEN Room(D) ELSE amount
      BY <1>4
    <2>2. Total(cap) \in Nat
      BY TotalPart
    <2> HIDE DEF Given, Room, all
    <2>3. QED
      BY <1>5, <2>1, <2>2
  <1>7. /\ DOMAIN shares \subseteq DOMAIN all
        /\ shares = [x \in DOMAIN shares |-> all[x]]
        /\ \A x \in DOMAIN all \ DOMAIN shares : all[x] = 0
    BY DEF Greedy
  <1> HIDE DEF shares, all
  <1>8. Summable(shares) /\ Total(shares) = Total(all)
    BY <1>1, <1>7, TotalSupport
  <1>9. QED
    BY <1>6, <1>8 DEF shares

\* Where there is room to spare everyone is served in full.
LEMMA GreedyAll ==
  ASSUME NEW cap, Capacity(cap), NEW r, StrictOrder(r, DOMAIN cap),
         NEW amount \in Nat, Total(cap) <= amount
  PROVE  /\ DOMAIN Greedy(amount, cap, r) = {x \in DOMAIN cap : cap[x] > 0}
         /\ \A x \in DOMAIN cap : cap[x] > 0 => Greedy(amount, cap, r)[x] = cap[x]
         /\ Summable(Greedy(amount, cap, r)) /\ Total(Greedy(amount, cap, r)) = Total(cap)
  <1>1. ASSUME NEW x \in DOMAIN cap PROVE Ahead(cap, r, x) + cap[x] <= Total(cap)
    <2> DEFINE Before == {z \in DOMAIN cap : <<z, x>> \in r}
               k == [z \in Before |-> cap[z]]
               h == [z \in Before \cup {x} |-> cap[z]]
    <2>1. x \notin Before
      BY DEF StrictOrder
    <2>2. Total(k) = Ahead(cap, r, x)
      BY DEF Ahead
    <2>3. Summable(k)
      BY FS_Subset, TotalNat DEF Capacity, Summable
    <2>4. h = [z \in DOMAIN k \cup {x} |-> IF z = x THEN h[x] ELSE k[z]]
      BY <2>1
    <2>5. h[x] = cap[x] /\ cap[x] \in Int /\ x \notin DOMAIN k
      BY <2>1 DEF Capacity
    <2>6. Total(h) <= Total(cap)
      BY TotalPart
    <2> HIDE DEF h, k
    <2>7. Total(h) = Total(k) + cap[x]
      BY <2>3, <2>4, <2>5, TotalGrows
    <2> QED BY <2>2, <2>6, <2>7
  <1>2. \A x \in DOMAIN cap : cap[x] \in Nat /\ Ahead(cap, r, x) \in Nat
    BY AheadType DEF Capacity
  <1>3. Total(cap) \in Nat
    BY TotalPart
  <1>4. \A x \in DOMAIN cap : cap[x] > 0 => Ahead(cap, r, x) < amount
    BY <1>1, <1>2, <1>3
  <1>5. DOMAIN Greedy(amount, cap, r) = {x \in DOMAIN cap : cap[x] > 0}
    BY <1>4 DEF Greedy
  <1>6. ASSUME NEW x \in DOMAIN cap, cap[x] > 0 PROVE Greedy(amount, cap, r)[x] = cap[x]
    <2>1. Greedy(amount, cap, r)[x] = IF cap[x] < amount - Ahead(cap, r, x) THEN cap[x]
                                      ELSE amount - Ahead(cap, r, x)
      BY <1>5, <1>6 DEF Greedy
    <2> QED BY <1>1, <1>2, <1>3, <2>1
  <1>7. PICK shares : shares = Greedy(amount, cap, r)
    OBVIOUS
  <1>8. /\ DOMAIN shares \subseteq DOMAIN cap
        /\ shares = [x \in DOMAIN shares |-> cap[x]]
    <2>1. shares = [x \in DOMAIN shares |-> shares[x]]
      BY <1>7 DEF Greedy
    <2> QED BY <1>5, <1>6, <1>7, <2>1
  <1>9. \A x \in DOMAIN cap \ DOMAIN shares : cap[x] = 0
    BY <1>2, <1>5, <1>7
  <1>10. Summable(cap)
    BY TotalNat DEF Capacity
  <1> QED BY <1>5, <1>6, <1>7, <1>8, <1>9, <1>10, TotalSupport

\* What is shared out is no more than there is.
LEMMA GreedyBound ==
  ASSUME NEW cap, Capacity(cap), NEW r, LinearOrder(r, DOMAIN cap), NEW amount \in Nat
  PROVE  /\ Summable(Greedy(amount, cap, r))
         /\ Total(Greedy(amount, cap, r)) \in Nat
         /\ Total(Greedy(amount, cap, r)) <= amount
         /\ \/ Total(Greedy(amount, cap, r)) = amount
            \/ \A x \in DOMAIN cap : cap[x] > 0 => /\ x \in DOMAIN Greedy(amount, cap, r)
                                                   /\ Greedy(amount, cap, r)[x] = cap[x]
  <1>1. PICK shares, given, room : /\ shares = Greedy(amount, cap, r) /\ given = Total(shares)
                                   /\ room = Total(cap)
    OBVIOUS
  <1>2. room \in Nat
    BY <1>1, TotalPart
  <1>3. ASSUME amount <= room PROVE Summable(shares) /\ given = amount
    BY <1>1, <1>3, GreedyTotal
  <1>4. ASSUME room <= amount
        PROVE  /\ Summable(shares) /\ given = room
               /\ \A x \in DOMAIN cap : cap[x] > 0 => x \in DOMAIN shares /\ shares[x] = cap[x]
    BY <1>1, <1>4, GreedyAll DEF LinearOrder
  <1>5. amount <= room \/ room <= amount
    BY <1>2
  <1>6. /\ Summable(shares) /\ given \in Nat /\ given <= amount
        /\ \/ given = amount
           \/ \A x \in DOMAIN cap : cap[x] > 0 => x \in DOMAIN shares /\ shares[x] = cap[x]
    BY <1>2, <1>3, <1>4, <1>5
  <1> QED BY <1>1, <1>6

\* The order and the names of the summands do not matter.
LEMMA TotalReindexed ==
  ASSUME NEW f, Summable(f), NEW g, NEW b, b \in [DOMAIN f -> DOMAIN g],
         \A x, y \in DOMAIN f : b[x] = b[y] => x = y,
         \A y \in DOMAIN g : \E x \in DOMAIN f : b[x] = y,
         g = [y \in DOMAIN g |-> g[y]], \A x \in DOMAIN f : g[b[x]] = f[x]
  PROVE  Summable(g) /\ Total(g) = Total(f)
  <1> DEFINE S == DOMAIN f
             Img(A) == {y \in DOMAIN g : \E x \in A : b[x] = y}
             T == {A \in SUBSET S : Total([y \in Img(A) |-> g[y]]) = Total([x \in A |-> f[x]])}
  <1>1. IsFiniteSet(DOMAIN g)
    <2>1. b \in Surjection(DOMAIN f, DOMAIN g)
      BY DEF Surjection
    <2> QED BY <2>1, FS_Surjection DEF Summable
  <1>2. Summable(g)
    <2>1. \A y \in DOMAIN g : g[y] \in Int
      BY DEF Summable
    <2> QED BY <1>1, <2>1 DEF Summable
  <1>3. ASSUME NEW A \in SUBSET S, \A B \in SUBSET A : B # A => B \in T PROVE A \in T
    <2>1. CASE A = {}
      <3>1. Img(A) = {}
        BY <2>1
      <3>2. Total([y \in Img(A) |-> g[y]]) = 0 /\ Total([x \in A |-> f[x]]) = 0
        BY <2>1, <3>1, TotalEmpty
      <3> QED BY <3>2
    <2>2. CASE A # {}
      <3>1. PICK z \in A : TRUE
        BY <2>2
      <3>2. PICK B : B = A \ {z}
        OBVIOUS
      <3>3. Total([y \in Img(B) |-> g[y]]) = Total([x \in B |-> f[x]])
        BY <1>3, <3>1, <3>2
      <3>4. b[z] \in Img(A) /\ Img(B) = Img(A) \ {b[z]}
        BY <3>1, <3>2
      <3>5. IsFiniteSet(Img(A)) /\ IsFiniteSet(A)
        BY <1>1, FS_Subset DEF Summable
      <3> HIDE DEF Img
      <3>6. PICK k : k = [y \in Img(A) |-> g[y]]
        OBVIOUS
      <3>7. PICK l : l = [x \in A |-> f[x]]
        OBVIOUS
      <3>8. Summable(k) /\ DOMAIN k = Img(A) /\ k[b[z]] = f[z]
        <4>1. Img(A) \subseteq DOMAIN g
          BY DEF Img
        <4> QED BY <1>2, <3>1, <3>4, <3>5, <3>6, <4>1 DEF Summable
      <3>9. Summable(l) /\ DOMAIN l = A /\ l[z] = f[z]
        BY <3>1, <3>5, <3>7 DEF Summable
      <3>10. Drop(k, b[z]) = [y \in Img(B) |-> g[y]]
        BY <3>4, <3>6, <3>8 DEF Drop
      <3>11. Drop(l, z) = [x \in B |-> f[x]]
        BY <3>1, <3>2, <3>7 DEF Drop
      <3>12. Total(k) = f[z] + Total(Drop(k, b[z])) /\ Total(l) = f[z] + Total(Drop(l, z))
        BY <3>1, <3>4, <3>8, <3>9, TotalDrop
      <3>13. Total(k) = Total(l)
        BY <3>3, <3>10, <3>11, <3>12
      <3> QED BY <3>6, <3>7, <3>13
    <2> QED BY <2>1, <2>2
  <1>4. S \in T
    <2> HIDE DEF T
    <2> QED BY <1>3, SmallerSetInduction DEF Summable
  <1>5. Img(S) = DOMAIN g
    OBVIOUS
  <1>6. f = [x \in S |-> f[x]]
    BY DEF Summable
  <1>7. Total([y \in Img(S) |-> g[y]]) = Total([x \in S |-> f[x]])
    BY <1>4
  <1> QED BY <1>2, <1>5, <1>6, <1>7
=============================================================================
