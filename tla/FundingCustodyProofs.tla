------------------------ MODULE FundingCustodyProofs ------------------------
(***************************************************************************)
(* Proof that the tokens on the canister's ledger account back the books.  *)
(* A step of a call concerns the balance of one caller in one token; what  *)
(* it adds to the ledger account and what it adds to the books and to the  *)
(* open call is the same.  A fill moves tokens between two balances and    *)
(* the fee pool.  That the parts add up to the whole account rests on the  *)
(* sums over finite sets with which the module begins.                     *)
(***************************************************************************)
EXTENDS FundingProofs, FiniteSetTheorems, WellFoundedInduction

-----------------------------------------------------------------------------
(* Sums over finite sets                                                   *)

\* Induction over the naturals, for a set.
LEMMA SetInduction ==
    ASSUME NEW S, 0 \in S, \A n \in Nat : n \in S => n + 1 \in S
    PROVE  \A n \in Nat : n \in S
  <1> DEFINE T == Nat \ S
             R == OpToRel(<, Nat)
  <1> SUFFICES ASSUME T # {} PROVE FALSE
    OBVIOUS
  <1>1. \E x \in T : \A y \in T : ~(<<y, x>> \in R)
    <2>1. IsWellFoundedOn(R, Nat)
      BY Zenon, NatLessThanWellFounded
    <2>2. T \subseteq Nat
      OBVIOUS
    <2> QED BY Zenon, <2>1, <2>2, WFMin
  <1>2. \A y \in Nat, x \in Nat : y < x => <<y, x>> \in R
    BY DEF OpToRel
  <1> HIDE DEF R
  <1>3. PICK x \in T : \A y \in T : ~(<<y, x>> \in R)
    BY <1>1
  <1>4. x \in Nat /\ x # 0 /\ x \notin S
    OBVIOUS
  <1>5. x - 1 \in Nat /\ (x - 1) + 1 = x /\ x - 1 < x
    BY <1>4
  <1>6. x - 1 \notin S
    BY <1>4, <1>5
  <1> QED BY Zenon, <1>2, <1>3, <1>4, <1>5, <1>6
Pick(s) == CHOOSE x \in s : TRUE

\* g adds up the values of h over every subset of S.
Sums(g, h, S) ==
    g = [s \in SUBSET S |-> IF s = {} THEN 0 ELSE h[Pick(s)] + g[s \ {Pick(s)}]]

\* g adds up the values of h over the subsets with at most n elements.
SumsUpto(g, h, S, n) ==
    \A s \in SUBSET S : Cardinality(s) <= n =>
        g[s] = IF s = {} THEN 0 ELSE h[Pick(s)] + g[s \ {Pick(s)}]

\* Such a function exists: it is built up with the size of the subsets.
LEMMA SumsExist ==
    ASSUME NEW h, NEW S, IsFiniteSet(S)
    PROVE  \E g : Sums(g, h, S)
  <1> DEFINE N == {n \in Nat : \E g : SumsUpto(g, h, S, n)}
  <1>1. \A s \in SUBSET S : /\ IsFiniteSet(s) /\ Cardinality(s) \in Nat
                            /\ Cardinality(s) = 0 <=> s = {}
    BY FS_Subset, FS_CardinalityType, FS_EmptySet
  <1>2. \A s \in SUBSET S : s # {} =>
           /\ Pick(s) \in s /\ s \ {Pick(s)} \in SUBSET S
           /\ Cardinality(s \ {Pick(s)}) = Cardinality(s) - 1
    <2> SUFFICES ASSUME NEW s \in SUBSET S, s # {}
                 PROVE  /\ Pick(s) \in s /\ s \ {Pick(s)} \in SUBSET S
                        /\ Cardinality(s \ {Pick(s)}) = Cardinality(s) - 1
      OBVIOUS
    <2>1. Pick(s) \in s
      BY DEF Pick
    <2> QED BY <2>1, <1>1, FS_RemoveElement
  <1>3. 0 \in N
    <2>1. SumsUpto([s \in SUBSET S |-> 0], h, S, 0)
      BY <1>1 DEF SumsUpto
    <2> QED BY <2>1
  <1>4. ASSUME NEW n \in Nat, n \in N PROVE n + 1 \in N
    <2>1. PICK g : SumsUpto(g, h, S, n)
      BY <1>4
    <2>2. PICK k : k = [s \in SUBSET S |-> IF Cardinality(s) <= n THEN g[s]
                                           ELSE h[Pick(s)] + g[s \ {Pick(s)}]]
      BY Zenon
    <2>3. ASSUME NEW s \in SUBSET S, Cardinality(s) <= n + 1
          PROVE  k[s] = IF s = {} THEN 0 ELSE h[Pick(s)] + k[s \ {Pick(s)}]
      <3>1. CASE s = {}
        <4>1. Cardinality(s) <= n
          BY <3>1, <1>1
        <4> QED BY <3>1, <4>1, <2>1, <2>2 DEF SumsUpto
      <3>2. CASE s # {}
        <4>1. /\ s \ {Pick(s)} \in SUBSET S
              /\ Cardinality(s \ {Pick(s)}) = Cardinality(s) - 1
              /\ Cardinality(s) \in Nat
          BY <3>2, <1>1, <1>2
        <4>2. Cardinality(s \ {Pick(s)}) <= n
          BY <2>3, <4>1
        <4>3. k[s \ {Pick(s)}] = g[s \ {Pick(s)}]
          BY <2>2, <4>1, <4>2
        <4>4. k[s] = h[Pick(s)] + g[s \ {Pick(s)}]
          BY Zenon, <2>1, <2>2, <3>2 DEF SumsUpto
        <4> QED BY <3>2, <4>3, <4>4
      <3> QED BY <3>1, <3>2
    <2>4. SumsUpto(k, h, S, n + 1)
      BY <2>3 DEF SumsUpto
    <2> QED BY <2>4
  <1> HIDE DEF N
  <1>5. \A n \in Nat : n \in N
    <2>1. \A n \in Nat : n \in N => n + 1 \in N
      BY <1>4
    <2> QED BY <1>3, <2>1, SetInduction
  <1>6. PICK g : SumsUpto(g, h, S, Cardinality(S))
    BY <1>1, <1>5 DEF N
  <1>7. \A s \in SUBSET S : Cardinality(s) <= Cardinality(S)
    BY FS_Subset
  <1>8. PICK k : k = [s \in SUBSET S |-> g[s]]
    BY Zenon
  <1>9. \A s \in SUBSET S :
          g[s] = IF s = {} THEN 0 ELSE h[Pick(s)] + k[s \ {Pick(s)}]
    BY <1>2, <1>6, <1>7, <1>8 DEF SumsUpto
  <1>10. Sums(k, h, S)
    BY Zenon, <1>8, <1>9 DEF Sums
  <1> QED BY <1>10

\* SumFunction is the sum over the whole domain.
LEMMA SumIsSums ==
    ASSUME NEW h, IsFiniteSet(DOMAIN h)
    PROVE  \E g : Sums(g, h, DOMAIN h) /\ SumFunction(h) = g[DOMAIN h]
  <1>1. \E g : Sums(g, h, DOMAIN h)
    BY SumsExist
  <1>2. PICK S : S = DOMAIN h
    OBVIOUS
  <1>3. PICK g : g = CHOOSE k : k = [s \in SUBSET S |->
                    IF s = {} THEN 0
                    ELSE h[CHOOSE x \in s : TRUE] + k[s \ {CHOOSE x \in s : TRUE}]]
    BY Zenon
  <1>4. \E k : k = [s \in SUBSET S |->
                    IF s = {} THEN 0
                    ELSE h[CHOOSE x \in s : TRUE] + k[s \ {CHOOSE x \in s : TRUE}]]
    BY Zenon, <1>1, <1>2 DEF Sums, Pick
  <1>5. g = [s \in SUBSET S |->
                    IF s = {} THEN 0
                    ELSE h[CHOOSE x \in s : TRUE] + g[s \ {CHOOSE x \in s : TRUE}]]
    BY Zenon, <1>3, <1>4
  <1>6. SumFunction(h) = g[S]
    BY <1>2, <1>3 DEF SumFunction, SumFunctionOnSet, FoldFunctionOnSet, MapThenFoldSet
  <1>7. Sums(g, h, S)
    BY <1>5 DEF Sums, Pick
  <1> QED BY <1>2, <1>6, <1>7

\* Facts about the subsets of a finite set.
LEMMA FiniteParts ==
    ASSUME NEW S, IsFiniteSet(S)
    PROVE  /\ \A s \in SUBSET S : /\ IsFiniteSet(s) /\ Cardinality(s) \in Nat
                                  /\ Cardinality(s) = 0 <=> s = {}
           /\ \A s \in SUBSET S : \A x \in s :
                /\ s \ {x} \in SUBSET S /\ Cardinality(s \ {x}) = Cardinality(s) - 1
           /\ \A s \in SUBSET S : s # {} => Pick(s) \in s
  <1>1. \A s \in SUBSET S : /\ IsFiniteSet(s) /\ Cardinality(s) \in Nat
                            /\ Cardinality(s) = 0 <=> s = {}
    BY FS_Subset, FS_CardinalityType, FS_EmptySet
  <1>2. \A s \in SUBSET S : \A x \in s :
           /\ s \ {x} \in SUBSET S /\ Cardinality(s \ {x}) = Cardinality(s) - 1
    BY Zenon, <1>1, FS_RemoveElement
  <1>3. \A s \in SUBSET S : s # {} => Pick(s) \in s
    BY DEF Pick
  <1> QED BY <1>1, <1>2, <1>3

\* What holds of the empty set and of a set whenever it holds of the set without
\* any one of its elements holds of every subset of a finite set.
LEMMA FiniteInduction ==
    ASSUME NEW S, IsFiniteSet(S), NEW P, {} \in P,
           \A s \in SUBSET S : s # {} /\ (\A x \in s : s \ {x} \in P) => s \in P
    PROVE  \A s \in SUBSET S : s \in P
  <1> DEFINE N == {n \in Nat : \A s \in SUBSET S : Cardinality(s) = n => s \in P}
  <1>1. 0 \in N
    BY Zenon, FiniteParts
  <1>2. \A n \in Nat : n \in N => n + 1 \in N
    <2> SUFFICES ASSUME NEW n \in Nat, n \in N,
                        NEW s \in SUBSET S, Cardinality(s) = n + 1
                 PROVE  s \in P
      OBVIOUS
    <2>1. \A x \in s : s \ {x} \in SUBSET S /\ Cardinality(s \ {x}) = (n + 1) - 1
      BY FiniteParts
    <2>2. (n + 1) - 1 = n /\ n + 1 # 0
      OBVIOUS
    <2>3. \A x \in s : s \ {x} \in P
      BY <2>1, <2>2
    <2>4. s # {}
      BY <2>2, FiniteParts
    <2> QED BY <2>3, <2>4
  <1> HIDE DEF N
  <1>3. \A n \in Nat : n \in N
    BY <1>1, <1>2, SetInduction
  <1>4. \A s \in SUBSET S : Cardinality(s) \in N
    BY <1>3, FiniteParts
  <1> QED BY <1>4 DEF N

\* The partial sums are integers.
LEMMA SumsAreInt ==
    ASSUME NEW S, IsFiniteSet(S), NEW h, \A x \in S : h[x] \in Int,
           NEW g, Sums(g, h, S)
    PROVE  \A s \in SUBSET S : g[s] \in Int
  <1> DEFINE P == {s \in SUBSET S : g[s] \in Int}
  <1>1. {} \in P
    BY DEF Sums
  <1>2. ASSUME NEW s \in SUBSET S, s # {}, \A x \in s : s \ {x} \in P
        PROVE  s \in P
    <2>1. Pick(s) \in s
      BY <1>2, FiniteParts
    <2>2. g[s] = h[Pick(s)] + g[s \ {Pick(s)}]
      BY Zenon, <1>2 DEF Sums
    <2>3. h[Pick(s)] \in Int /\ g[s \ {Pick(s)}] \in Int
      BY <1>2, <2>1
    <2> QED BY <2>2, <2>3
  <1> HIDE DEF P
  <1>3. \A s \in SUBSET S : s \in P
    BY Zenon, <1>1, <1>2, FiniteInduction
  <1> QED BY <1>3 DEF P

\* Any element may be added last.
LEMMA SumsAnyOrder ==
    ASSUME NEW S, IsFiniteSet(S), NEW h, \A x \in S : h[x] \in Int,
           NEW g, Sums(g, h, S)
    PROVE  \A s \in SUBSET S : \A x \in s : g[s] = h[x] + g[s \ {x}]
  <1> DEFINE P == {s \in SUBSET S : \A x \in s : g[s] = h[x] + g[s \ {x}]}
  <1>0. \A s \in SUBSET S : g[s] \in Int
    BY SumsAreInt
  <1>1. {} \in P
    OBVIOUS
  <1>2. ASSUME NEW s \in SUBSET S, s # {}, \A x \in s : s \ {x} \in P
        PROVE  s \in P
    <2>1. PICK c : c = Pick(s)
      OBVIOUS
    <2>2. c \in s
      BY <1>2, <2>1, FiniteParts
    <2>3. g[s] = h[c] + g[s \ {c}]
      BY Zenon, <1>2, <2>1 DEF Sums
    <2>4. ASSUME NEW x \in s, x # c PROVE g[s] = h[x] + g[s \ {x}]
      <3>1. (s \ {c}) \ {x} = (s \ {x}) \ {c} /\ x \in s \ {c} /\ c \in s \ {x}
        BY <2>2, <2>4
      <3>2. PICK r : r = g[(s \ {c}) \ {x}]
        OBVIOUS
      <3>3. g[s \ {c}] = h[x] + r /\ g[s \ {x}] = h[c] + r
        BY <1>2, <2>2, <3>1, <3>2
      <3>4. r \in Int /\ h[x] \in Int /\ h[c] \in Int
        BY <1>0, <2>2, <3>2
      <3> QED BY <2>3, <3>3, <3>4
    <2> QED BY Zenon, <2>3, <2>4
  <1> HIDE DEF P
  <1>3. \A s \in SUBSET S : s \in P
    BY Zenon, <1>1, <1>2, FiniteInduction
  <1> QED BY Zenon, <1>3 DEF P

\* The partial sums depend on the values only.
LEMMA SumsAgree ==
    ASSUME NEW S, NEW T \in SUBSET S, IsFiniteSet(S), NEW h, NEW k,
           \A x \in S : h[x] \in Int, \A x \in T : k[x] = h[x],
           NEW g, Sums(g, h, S), NEW f, Sums(f, k, T)
    PROVE  f[T] = g[T]
  <1> DEFINE P == {s \in SUBSET T : f[s] = g[s]}
  <1>1. {} \in P
    BY DEF Sums
  <1>2. IsFiniteSet(T)
    BY FS_Subset
  <1>3. ASSUME NEW s \in SUBSET T, s # {}, \A x \in s : s \ {x} \in P
        PROVE  s \in P
    <2>1. Pick(s) \in s
      BY <1>3, <1>2, FiniteParts
    <2>2. f[s] = k[Pick(s)] + f[s \ {Pick(s)}]
      BY Zenon, <1>3 DEF Sums
    <2>3. g[s] = h[Pick(s)] + g[s \ {Pick(s)}]
      BY Zenon, <1>3 DEF Sums
    <2> QED BY Zenon, <1>3, <2>1, <2>2, <2>3
  <1> HIDE DEF P
  <1>4. \A s \in SUBSET T : s \in P
    BY Zenon, <1>1, <1>2, <1>3, FiniteInduction
  <1> QED BY <1>4 DEF P

\* The sum is an integer; of nothing, it is zero.
LEMMA SumType ==
    ASSUME NEW S, IsFiniteSet(S), NEW h \in [S -> Int]
    PROVE  SumFunction(h) \in Int /\ (S = {} => SumFunction(h) = 0)
  <1>1. PICK g : Sums(g, h, S) /\ SumFunction(h) = g[S]
    BY SumIsSums
  <1>2. g[S] \in Int
    BY <1>1, SumsAreInt
  <1>3. S = {} => g[S] = 0
    BY <1>1 DEF Sums
  <1> QED BY <1>1, <1>2, <1>3

\* Any value can be taken out of the sum.
LEMMA SumRemove ==
    ASSUME NEW S, IsFiniteSet(S), NEW h \in [S -> Int], NEW x \in S,
           NEW k \in [S \ {x} -> Int], \A y \in S \ {x} : k[y] = h[y]
    PROVE  SumFunction(h) = h[x] + SumFunction(k)
  <1>1. PICK g : Sums(g, h, S) /\ SumFunction(h) = g[S]
    BY SumIsSums
  <1>2. IsFiniteSet(S \ {x})
    BY FS_RemoveElement
  <1>3. PICK f : Sums(f, k, S \ {x}) /\ SumFunction(k) = f[S \ {x}]
    BY <1>2, SumIsSums
  <1>4. f[S \ {x}] = g[S \ {x}]
    BY <1>1, <1>3, SumsAgree
  <1>5. g[S] = h[x] + g[S \ {x}]
    BY <1>1, SumsAnyOrder
  <1> QED BY <1>1, <1>3, <1>4, <1>5

\* One value changes.
LEMMA SumChange ==
    ASSUME NEW S, IsFiniteSet(S), NEW h \in [S -> Int], NEW k \in [S -> Int],
           NEW x \in S, \A y \in S \ {x} : k[y] = h[y]
    PROVE  SumFunction(k) = SumFunction(h) + (k[x] - h[x])
  <1>1. PICK r : r = [y \in S \ {x} |-> h[y]]
    BY Zenon
  <1>2. r \in [S \ {x} -> Int] /\ \A y \in S \ {x} : r[y] = h[y] /\ r[y] = k[y]
    BY <1>1
  <1>3. SumFunction(h) = h[x] + SumFunction(r) /\ SumFunction(k) = k[x] + SumFunction(r)
    BY <1>2, SumRemove
  <1>4. SumFunction(r) \in Int /\ h[x] \in Int /\ k[x] \in Int
    <2>1. IsFiniteSet(S \ {x})
      BY FS_RemoveElement
    <2> QED BY <2>1, <1>2, SumType
  <1> QED BY <1>3, <1>4

\* Zeros add up to zero.
LEMMA SumZero ==
    ASSUME NEW S, IsFiniteSet(S), NEW h \in [S -> Int], \A x \in S : h[x] = 0
    PROVE  SumFunction(h) = 0
  <1>1. PICK g : Sums(g, h, S) /\ SumFunction(h) = g[S]
    BY SumIsSums
  <1> DEFINE P == {s \in SUBSET S : g[s] = 0}
  <1>2. {} \in P
    BY <1>1 DEF Sums
  <1>3. ASSUME NEW s \in SUBSET S, s # {}, \A x \in s : s \ {x} \in P
        PROVE  s \in P
    <2>1. Pick(s) \in s
      BY <1>3, FiniteParts
    <2>2. g[s] = h[Pick(s)] + g[s \ {Pick(s)}]
      BY Zenon, <1>1, <1>3 DEF Sums
    <2>3. h[Pick(s)] = 0 /\ g[s \ {Pick(s)}] = 0
      BY <1>3, <2>1
    <2> QED BY <2>2, <2>3
  <1> HIDE DEF P
  <1>4. \A s \in SUBSET S : s \in P
    BY Zenon, <1>2, <1>3, FiniteInduction
  <1> QED BY <1>1, <1>4 DEF P

-----------------------------------------------------------------------------
(* Custody                                                                 *)

USE FundingAssumption DEF FundingAssumption, registryVars, balanceVars, ledgerVars

SameBooks(p, t) == held'[p][t] = held[p][t] /\ Booked(p, t)' = Booked(p, t)

\* The sums of the custody invariant are integers.
LEMMA BooksAreNumbers ==
    ASSUME Typed, NEW p \in Principals, NEW t \in Tokens
    PROVE  /\ free[p][t] \in Nat /\ reserved[p][t] \in Nat
           /\ lost[p][t] \in Nat /\ held[p][t] \in Int /\ Booked(p, t) \in Nat
<1>1. /\ free[p][t] \in Nat /\ reserved[p][t] \in Nat
      /\ lost[p][t] \in Nat /\ held[p][t] \in Int
  BY DEF Typed, TypeOK, PerToken
<1> QED BY <1>1 DEF Booked

\* The sheet g is f with x added to one balance.
Moved(g, f, p, t, x) ==
    /\ g[p][t] = f[p][t] + x
    /\ \A q \in Principals, u \in Tokens : q # p \/ u # t => g[q][u] = f[q][u]

\* What Add returns differs from its argument at the balance it adds to.
LEMMA AddMoves ==
    ASSUME NEW S, NEW f \in PerToken(S), NEW p \in Principals,
           NEW t \in Tokens, NEW x
    PROVE  Moved(Add(f, p, t, x), f, p, t, x)
BY DEF PerToken, Add, Moved

\* The books of a balance none of whose parts changes stay as they are.
LEMMA BooksStay ==
    ASSUME NEW p \in Principals, NEW t \in Tokens, free'[p][t] = free[p][t],
           reserved'[p][t] = reserved[p][t], lost'[p][t] = lost[p][t],
           held'[p][t] = held[p][t]
    PROVE  SameBooks(p, t)
BY DEF SameBooks, Booked

\* Custody follows from the books of the one principal and token a call is for.
LEMMA OneCallCustody ==
    ASSUME SharesBacked, NEW c \in Calls, Others(c),
           NEW p \in Principals, NEW t \in Tokens,
           Live(c) => OpensOn(c, p, t), Live(c)' => OpensOn(c, p, t)',
           \A d \in Calls : d # c => ~OpensOn(d, p, t),
           \A q \in Principals, u \in Tokens : q # p \/ u # t => SameBooks(q, u),
           Live(c)' => held'[p][t] = Booked(p, t)' + Owed(c)',
           ~Live(c)' => held'[p][t] = Booked(p, t)'
    PROVE  SharesBacked'
<1>1. \A d \in Calls, q \in Principals, u \in Tokens : d # c =>
         /\ OpensOn(d, q, u)' <=> OpensOn(d, q, u)
         /\ Owed(d)' = Owed(d)
  BY DEF Others, OpensOn, Live, Owed
<1> SUFFICES ASSUME NEW q \in Principals, NEW u \in Tokens
             PROVE  /\ (\A d \in Calls : ~OpensOn(d, q, u)')
                         => held'[q][u] = Booked(q, u)'
                    /\ \A d \in Calls : OpensOn(d, q, u)'
                         => held'[q][u] = Booked(q, u)' + Owed(d)'
  BY DEF SharesBacked
<1>2. CASE q = p /\ u = t
  BY <1>1, <1>2 DEF OpensOn
<1>3. CASE q # p \/ u # t
  <2>1. ~OpensOn(c, q, u) /\ ~OpensOn(c, q, u)'
    BY <1>3 DEF OpensOn
  <2>2. SameBooks(q, u)
    BY <1>3
  <2> QED BY <1>1, <2>1, <2>2 DEF SameBooks, SharesBacked
<1> QED BY <1>2, <1>3

\* Custody, when the call ends and the books of its caller have become exact.
LEMMA ClosedCallCustody ==
    ASSUME SharesBacked, NEW c \in Calls, Others(c), ~Live(c)',
           NEW p \in Principals, NEW t \in Tokens, OpensOn(c, p, t),
           \A d \in Calls : d # c => ~OpensOn(d, p, t),
           \A q \in Principals, u \in Tokens : q # p \/ u # t => SameBooks(q, u),
           held'[p][t] = Booked(p, t)'
    PROVE  SharesBacked'
<1>1. \A d \in Calls, q \in Principals, u \in Tokens : d # c =>
         /\ OpensOn(d, q, u)' <=> OpensOn(d, q, u)
         /\ Owed(d)' = Owed(d)
  BY DEF Others, OpensOn, Live, Owed
<1>2. ASSUME NEW q \in Principals, NEW u \in Tokens
      PROVE  /\ (\A d \in Calls : ~OpensOn(d, q, u)')
                   => held'[q][u] = Booked(q, u)'
             /\ \A d \in Calls : OpensOn(d, q, u)'
                   => held'[q][u] = Booked(q, u)' + Owed(d)'
  <2>0. ~OpensOn(c, q, u)'
    BY DEF OpensOn
  <2>1. CASE q = p /\ u = t
    BY <1>1, <2>0, <2>1
  <2>2. CASE q # p \/ u # t
    <3>1. ~OpensOn(c, q, u)
      BY <2>2 DEF OpensOn
    <3>2. SameBooks(q, u)
      BY <2>2
    <3> QED BY <1>1, <2>0, <3>1, <3>2 DEF SameBooks, SharesBacked
  <2> QED BY <2>1, <2>2
<1> QED BY <1>2 DEF SharesBacked

\* A request keeps custody: what is debited is owed to the open call.
LEMMA RequestCustody ==
    ASSUME Typed, GuardedCalls, SharesBacked, Request
    PROVE  SharesBacked'
<1> PICK c \in Calls, p \in Principals, t \in Tokens, a \in Amounts :
        Deposit(c, p, t, a) \/ Withdraw(c, p, t, a)
  BY DEF Request
<1>0. calls \in [Calls -> Call] /\ a \in Nat
  BY DEF Typed, TypeOK
<1>1. <<p, t>> \notin in_flight_user_ops /\ ~Live(c)
  BY DEF Deposit, Withdraw, UserOpGuard, Live
<1>2. \A d \in Calls : ~OpensOn(d, p, t)
  BY <1>1 DEF GuardedCalls
<1>3. held[p][t] = Booked(p, t)
  BY <1>2 DEF SharesBacked
<1>4. CASE Deposit(c, p, t, a)
  <2>1. /\ calls'[c] = LedgerCall("deposit", p, t, a, 1, a, 0)
        /\ Others(c) /\ UNCHANGED <<free, reserved, held, lost>>
    BY <1>0, <1>4 DEF Deposit, Others
  <2>2. OpensOn(c, p, t)' /\ Owed(c)' = 0
    BY <2>1 DEF OpensOn, Live, Owed, LedgerCall
  <2>3. \A q \in Principals, u \in Tokens : SameBooks(q, u)
    BY <2>1 DEF SameBooks, Booked
  <2>4. held'[p][t] = Booked(p, t)' + Owed(c)'
    BY <1>3, <2>2, <2>3, BooksAreNumbers DEF SameBooks
  <2> QED BY <1>1, <1>2, <2>1, <2>2, <2>3, <2>4, OneCallCustody DEF OpensOn
<1>5. CASE Withdraw(c, p, t, a)
  <2>1. /\ calls'[c] = LedgerCall("withdraw", p, t, a, 1,
                                  a - capped_fee(t, a), capped_fee(t, a))
        /\ Others(c) /\ UNCHANGED <<reserved, held, lost>>
        /\ free' = Add(free, p, t, -a) /\ free[p][t] >= a
    BY <1>0, <1>5 DEF Withdraw, Others
  <2>2. OpensOn(c, p, t)' /\ Owed(c)' = a
    BY <2>1 DEF OpensOn, Live, Owed, LedgerCall
  <2>3. free \in PerToken(Nat)
    BY DEF Typed, TypeOK
  <2>4. /\ free'[p][t] = free[p][t] + (-a)
        /\ \A q \in Principals, u \in Tokens :
              q # p \/ u # t => free'[q][u] = free[q][u]
    <3>1. Moved(free', free, p, t, -a)
      BY <2>1, <2>3, AddMoves, Zenon
    <3> QED BY <3>1, Zenon DEF Moved
  <2>5. \A q \in Principals, u \in Tokens : q # p \/ u # t => SameBooks(q, u)
    BY <2>1, <2>4, BooksStay
  <2>6. held'[p][t] = Booked(p, t)' + Owed(c)'
    <3>1. /\ free[p][t] \in Nat /\ reserved[p][t] \in Nat
          /\ lost[p][t] \in Nat
      BY BooksAreNumbers
    <3>2. /\ free'[p][t] = free[p][t] + (-a) /\ reserved'[p][t] = reserved[p][t]
          /\ lost'[p][t] = lost[p][t] /\ held'[p][t] = held[p][t]
      BY <2>1, <2>4
    <3> QED BY SMTT(30), <1>0, <1>3, <2>2, <3>1, <3>2 DEF Booked
  <2> QED
    BY SMTT(30), <1>1, <1>2, <2>1, <2>2, <2>5, <2>6, OneCallCustody DEF OpensOn
<1> QED BY <1>4, <1>5

\* What is known of an open call before its ledger or its callback steps.
LEMMA OpenCallCustody ==
    ASSUME Typed, GuardedCalls, SharesBacked, NEW c \in Calls, Live(c)
    PROVE  \E p \in Principals, t \in Tokens :
              /\ p = calls[c].caller /\ t = calls[c].token
              /\ OpensOn(c, p, t)
              /\ \A d \in Calls : d # c => ~OpensOn(d, p, t)
              /\ held[p][t] = Booked(p, t) + Owed(c)
<1>1. calls[c].caller \in Principals /\ calls[c].token \in Tokens
  BY OpenCall
<1> QED BY <1>1 DEF OpensOn, GuardedCalls, SharesBacked

\* An answer that moves no tokens leaves what the call is owed.
LEMMA RefusalCustody ==
    ASSUME Typed, GuardedCalls, SharesBacked, NEW c \in Calls, Live(c),
           Live(c)', Others(c), UNCHANGED <<free, reserved, held, lost>>,
           calls'[c].caller = calls[c].caller, calls'[c].token = calls[c].token,
           Owed(c)' = Owed(c)
    PROVE  SharesBacked'
<1>1. PICK p \in Principals, t \in Tokens :
         /\ p = calls[c].caller /\ t = calls[c].token
         /\ OpensOn(c, p, t)
         /\ \A d \in Calls : d # c => ~OpensOn(d, p, t)
         /\ held[p][t] = Booked(p, t) + Owed(c)
  BY OpenCallCustody
<1>2. \A q \in Principals, u \in Tokens : SameBooks(q, u)
  BY DEF SameBooks, Booked
<1>3. OpensOn(c, p, t)'
  BY <1>1 DEF OpensOn
<1>4. held'[p][t] = Booked(p, t)' + Owed(c)'
  BY <1>1, <1>2 DEF SameBooks
<1> QED BY <1>1, <1>2, <1>3, <1>4, OneCallCustody

\* An answer of a ledger keeps custody: tokens move with what is owed.
LEMMA LedgerCustody ==
    ASSUME Typed, GuardedCalls, SharesBacked, NEW c \in Calls, Ledger(c)
    PROVE  SharesBacked'
<1> DEFINE k == calls[c]
<1>0. calls \in [Calls -> Call] /\ k \in Call /\ held \in PerToken(Int)
  BY DEF Typed, TypeOK
<1>1. Live(c)
  BY DEF Ledger, TransferFromOk, TransferOk, TransferBadFee, LedgerRefuses, Live
<1>2. Shaped(k) /\ k.amount \in Nat /\ k.fee \in Nat /\ k.transfer_amount \in Nat
  BY <1>1, OpenCall DEF Typed, CallShape
<1>3. PICK p \in Principals, t \in Tokens :
         /\ p = calls[c].caller /\ t = calls[c].token
         /\ OpensOn(c, p, t)
         /\ \A d \in Calls : d # c => ~OpensOn(d, p, t)
         /\ held[p][t] = Booked(p, t) + Owed(c)
  BY <1>1, OpenCallCustody
<1>4. ASSUME NEW x \in Int, held' = Add(held, p, t, x),
             UNCHANGED <<free, reserved, lost>>, Others(c), OpensOn(c, p, t)',
             Owed(c)' = Owed(c) + x
      PROVE  SharesBacked'
  <2>1. /\ held'[p][t] = held[p][t] + x
        /\ \A q \in Principals, u \in Tokens :
              q # p \/ u # t => held'[q][u] = held[q][u]
    <3>1. Moved(held', held, p, t, x)
      BY <1>0, <1>4, AddMoves, Zenon
    <3> QED BY <3>1, Zenon DEF Moved
  <2>2. \A q \in Principals, u \in Tokens : q # p \/ u # t => SameBooks(q, u)
    BY <1>4, <2>1, BooksStay
  <2>3. PICK w \in Int, b \in Int : w = Owed(c) /\ b = Booked(p, t)
    BY <1>2, BooksAreNumbers DEF Owed
  <2>4. Booked(p, t)' = b
    BY <1>4, <2>3 DEF Booked
  <2>5. held'[p][t] = Booked(p, t)' + Owed(c)'
    <3>1. held'[p][t] = (b + w) + x
      BY <1>3, <2>1, <2>3
    <3>2. Owed(c)' = w + x
      BY <1>4, <2>3
    <3> QED BY <2>4, <3>1, <3>2
  <2>6. Live(c)' /\ OpensOn(c, p, t)' /\ OpensOn(c, p, t) /\ Others(c)
    BY <1>3, <1>4 DEF OpensOn
  <2>7. \A d \in Calls : d # c => ~OpensOn(d, p, t)
    BY <1>3
  <2> HIDE <1>4
  <2> QED BY <2>2, <2>5, <2>6, <2>7, OneCallCustody
<1>5. CASE TransferFromOk(c)
  <2>1. /\ calls'[c] = [k EXCEPT !.pc = "ok"] /\ Others(c)
        /\ held' = Add(held, p, t, k.transfer_amount)
        /\ UNCHANGED <<free, reserved, lost>>
        /\ k.op = "deposit" /\ k.pc = "sent"
    BY <1>0, <1>3, <1>5 DEF TransferFromOk, Answer, Others
  <2>2. /\ calls'[c].pc = "ok" /\ calls'[c].op = "deposit"
        /\ calls'[c].caller = k.caller /\ calls'[c].token = k.token
        /\ calls'[c].amount = k.amount
    BY <1>0, <2>1, ReplyKeepsCall
  <2>3. OpensOn(c, p, t)'
    BY <1>3, <2>2 DEF OpensOn, Live
  <2>4. Owed(c) = 0 /\ Owed(c)' = k.amount /\ k.transfer_amount = k.amount
    BY <1>2, <2>1, <2>2 DEF Owed, Shaped
  <2>5. Owed(c)' = Owed(c) + k.transfer_amount /\ k.transfer_amount \in Int
    BY <1>2, <2>4
  <2> QED BY <1>4, <2>1, <2>3, <2>5
<1>6. CASE TransferOk(c)
  <2> DEFINE n == k.transfer_amount + k.fee
  <2>1. /\ calls'[c] = [k EXCEPT !.pc = "ok"] /\ Others(c)
        /\ held' = Add(held, p, t, -n)
        /\ UNCHANGED <<free, reserved, lost>>
        /\ k.op = "withdraw" /\ k.pc = "sent"
    BY <1>0, <1>3, <1>6 DEF TransferOk, Answer, Others
  <2>2. /\ calls'[c].pc = "ok" /\ calls'[c].op = "withdraw"
        /\ calls'[c].caller = k.caller /\ calls'[c].token = k.token
        /\ calls'[c].amount = k.amount
    BY <1>0, <2>1, ReplyKeepsCall
  <2>3. OpensOn(c, p, t)'
    BY <1>3, <2>2 DEF OpensOn, Live
  <2>4. Owed(c) = k.amount /\ Owed(c)' = 0 /\ n = k.amount
    BY <1>2, <2>1, <2>2 DEF Owed, Shaped
  <2>5. Owed(c)' = Owed(c) + (-n) /\ -n \in Int
    BY <1>2, <2>4
  <2> QED BY <1>4, <2>1, <2>3, <2>5
<1>7. CASE TransferBadFee(c)
  <2>1. /\ calls'[c] = [k EXCEPT !.pc = "badfee",
                                 !.expected_fee = ledger_fee[k.token]]
        /\ Others(c) /\ UNCHANGED <<free, reserved, held, lost>>
        /\ k.pc = "sent"
    BY <1>0, <1>7 DEF TransferBadFee, Answer, Others
  <2>2. ledger_fee[k.token] \in Nat
    BY <1>1, OpenCall
  <2>3. /\ calls'[c].pc = "badfee" /\ calls'[c].op = k.op
        /\ calls'[c].caller = k.caller /\ calls'[c].token = k.token
        /\ calls'[c].amount = k.amount
    BY <1>0, <2>1, <2>2 DEF Call
  <2>4. Live(c)' /\ Owed(c)' = Owed(c)
    BY <2>1, <2>3 DEF Live, Owed
  <2> QED BY Zenon, <1>1, <2>1, <2>3, <2>4, RefusalCustody
<1>8. CASE LedgerRefuses(c)
  <2>1. /\ calls'[c] = [k EXCEPT !.pc = "err"]
        /\ Others(c) /\ UNCHANGED <<free, reserved, held, lost>>
        /\ k.pc = "sent"
    BY <1>0, <1>8 DEF LedgerRefuses, Answer, Others
  <2>2. /\ calls'[c].pc = "err" /\ calls'[c].op = k.op
        /\ calls'[c].caller = k.caller /\ calls'[c].token = k.token
        /\ calls'[c].amount = k.amount
    BY <1>0, <2>1, ReplyKeepsCall
  <2>3. Live(c)' /\ Owed(c)' = Owed(c)
    BY <2>1, <2>2 DEF Live, Owed
  <2> QED BY Zenon, <1>1, <2>1, <2>2, <2>3, RefusalCustody
<1> QED BY <1>5, <1>6, <1>7, <1>8 DEF Ledger

\* What is added to a free balance is added to the books of its owner.
LEMMA FreeGrows ==
    ASSUME Typed, UNCHANGED <<reserved, held, lost>>,
           NEW p \in Principals, NEW t \in Tokens, NEW n \in Nat,
           free' = Add(free, p, t, n)
    PROVE  /\ Booked(p, t)' = Booked(p, t) + n
           /\ \A q \in Principals, u \in Tokens :
                 q # p \/ u # t => SameBooks(q, u)
<1>1. free \in PerToken(Nat)
  BY DEF Typed, TypeOK
<1>2. /\ free'[p][t] = free[p][t] + n
      /\ \A q \in Principals, u \in Tokens :
            q # p \/ u # t => free'[q][u] = free[q][u]
  <2>1. Moved(free', free, p, t, n)
    BY <1>1, AddMoves, Zenon
  <2> QED BY <2>1, Zenon DEF Moved
<1>3. Booked(p, t)' = Booked(p, t) + n
  <2>1. PICK a \in Nat, r \in Nat, l \in Nat :
           free[p][t] = a /\ reserved[p][t] = r /\ lost[p][t] = l
    BY BooksAreNumbers
  <2>2. Booked(p, t) = a + r + l
    BY <2>1 DEF Booked
  <2>3. Booked(p, t)' = (a + n) + r + l
    BY <1>2, <2>1 DEF Booked
  <2> QED BY <2>2, <2>3
<1>4. \A q \in Principals, u \in Tokens : q # p \/ u # t => SameBooks(q, u)
  BY <1>2, BooksStay
<1> QED BY <1>3, <1>4

\* What is added to the lost credits is added to the books of their owner.
LEMMA LostGrows ==
    ASSUME Typed, UNCHANGED <<reserved, held, free>>,
           NEW p \in Principals, NEW t \in Tokens, NEW n \in Nat,
           lost' = Add(lost, p, t, n)
    PROVE  /\ Booked(p, t)' = Booked(p, t) + n
           /\ \A q \in Principals, u \in Tokens :
                 q # p \/ u # t => SameBooks(q, u)
<1>1. lost \in PerToken(Nat)
  BY DEF Typed, TypeOK
<1>2. /\ lost'[p][t] = lost[p][t] + n
      /\ \A q \in Principals, u \in Tokens :
            q # p \/ u # t => lost'[q][u] = lost[q][u]
  <2>1. Moved(lost', lost, p, t, n)
    BY <1>1, AddMoves, Zenon
  <2> QED BY <2>1, Zenon DEF Moved
<1>3. Booked(p, t)' = Booked(p, t) + n
  <2>1. PICK a \in Nat, r \in Nat, l \in Nat :
           free[p][t] = a /\ reserved[p][t] = r /\ lost[p][t] = l
    BY BooksAreNumbers
  <2>2. Booked(p, t) = a + r + l
    BY <2>1 DEF Booked
  <2>3. Booked(p, t)' = a + r + (l + n)
    BY <1>2, <2>1 DEF Booked
  <2> QED BY <2>2, <2>3
<1>4. \A q \in Principals, u \in Tokens : q # p \/ u # t => SameBooks(q, u)
  BY <1>2, BooksStay
<1> QED BY <1>3, <1>4

\* State::deposit adds the amount to the books of the caller, if only to the
\* credits that were lost.
LEMMA CreditBooks ==
    ASSUME Typed, NEW c \in Calls, Live(c), deposit(calls[c]),
           UNCHANGED <<reserved, held>>,
           NEW p \in Principals, NEW t \in Tokens,
           p = calls[c].caller, t = calls[c].token
    PROVE  /\ Booked(p, t)' = Booked(p, t) + calls[c].amount
           /\ \A q \in Principals, u \in Tokens :
                 q # p \/ u # t => SameBooks(q, u)
<1>1. PICK n \in Nat : n = calls[c].amount
  BY OpenCall
<1>2. \/ free' = Add(free, p, t, n) /\ lost' = lost
      \/ lost' = Add(lost, p, t, n) /\ free' = free
  BY <1>1 DEF deposit
<1>3. /\ Booked(p, t)' = Booked(p, t) + n
      /\ \A q \in Principals, u \in Tokens :
            q # p \/ u # t => SameBooks(q, u)
  BY <1>2, FreeGrows, LostGrows
<1> QED BY <1>1, <1>3

\* A continuation keeps custody: what was owed is credited once or paid out.
LEMMA CallbackCustody ==
    ASSUME Typed, GuardedCalls, SharesBacked, NEW c \in Calls, Callback(c)
    PROVE  SharesBacked'
<1> DEFINE k == calls[c]
<1>0. calls \in [Calls -> Call] /\ k \in Call /\ k.amount \in Nat
  BY DEF Typed, TypeOK, Call
<1>1. Live(c)
  BY DEF Callback, DepositDone, DepositFailed, WithdrawDone, WithdrawRetry,
         WithdrawFailed, retries, Live
<1>2. PICK p \in Principals, t \in Tokens :
         /\ p = calls[c].caller /\ t = calls[c].token
         /\ OpensOn(c, p, t)
         /\ \A d \in Calls : d # c => ~OpensOn(d, p, t)
         /\ held[p][t] = Booked(p, t) + Owed(c)
  BY <1>1, OpenCallCustody
<1>3. ASSUME Closes(c), UNCHANGED held,
             Booked(p, t)' = Booked(p, t) + Owed(c),
             \A q \in Principals, u \in Tokens :
                q # p \/ u # t => SameBooks(q, u)
      PROVE  SharesBacked'
  <2>1. held'[p][t] = Booked(p, t)'
    BY <1>2, <1>3
  <2>2. ~Live(c)' /\ Others(c) /\ OpensOn(c, p, t)
    BY <1>2, <1>3 DEF Closes
  <2>3. \A d \in Calls : d # c => ~OpensOn(d, p, t)
    BY <1>2
  <2>4. \A q \in Principals, u \in Tokens : q # p \/ u # t => SameBooks(q, u)
    BY <1>3
  <2> HIDE <1>3
  <2> QED BY <2>1, <2>2, <2>3, <2>4, ClosedCallCustody
<1>4. ASSUME Closes(c), UNCHANGED <<free, reserved, held, lost>>, Owed(c) = 0
      PROVE  SharesBacked'
  <2>1. \A q \in Principals, u \in Tokens : SameBooks(q, u)
    BY <1>4 DEF SameBooks, Booked
  <2>2. Booked(p, t)' = Booked(p, t) /\ Booked(p, t) \in Nat
    BY <2>1, BooksAreNumbers DEF SameBooks
  <2>3. Booked(p, t)' = Booked(p, t) + Owed(c)
    BY <1>4, <2>2
  <2> QED BY <1>3, <1>4, <2>1, <2>3
<1>5. CASE DepositDone(c)
  <2>1. Closes(c) /\ Owed(c) = k.amount /\ UNCHANGED <<reserved, held>> /\ deposit(k)
    BY <1>0, <1>1, <1>5 DEF DepositDone, Closes, Others, Live, NoCall, Owed
  <2> QED BY <1>1, <1>2, <1>3, <2>1, CreditBooks
<1>6. CASE DepositFailed(c)
  <2>1. Closes(c) /\ Owed(c) = 0 /\ UNCHANGED <<free, reserved, held, lost>>
    BY <1>0, <1>1, <1>6 DEF DepositFailed, Closes, Others, Live, NoCall, Owed
  <2> QED BY <1>4, <2>1
<1>7. CASE WithdrawDone(c)
  <2>1. Closes(c) /\ Owed(c) = 0 /\ UNCHANGED <<free, reserved, held, lost>>
    BY <1>0, <1>1, <1>7 DEF WithdrawDone, Closes, Others, Live, NoCall, Owed
  <2> QED BY <1>4, <2>1
<1>8. CASE WithdrawFailed(c)
  <2>1. Closes(c) /\ Owed(c) = k.amount /\ UNCHANGED <<reserved, held>> /\ deposit(k)
    BY <1>0, <1>1, <1>8 DEF WithdrawFailed, Closes, Others, Live, NoCall, Owed
  <2> QED BY <1>1, <1>2, <1>3, <2>1, CreditBooks
<1>9. CASE WithdrawRetry(c)
  <2>1. /\ Live(c)' /\ Others(c) /\ UNCHANGED <<free, reserved, held, lost>>
        /\ calls'[c].caller = k.caller /\ calls'[c].token = k.token
        /\ Owed(c)' = Owed(c)
    BY <1>0, <1>9 DEF WithdrawRetry, retries, Others, Live, LedgerCall, Owed
  <2> QED BY <1>1, <2>1, RefusalCustody
<1> QED BY <1>5, <1>6, <1>7, <1>8, <1>9 DEF Callback

\* A step that changes no call may move what the books and the ledger
\* account hold only together.
LEMMA QuietCustody ==
    ASSUME Typed, Typed', SharesBacked, UNCHANGED calls,
           \A p \in Principals, t \in Tokens :
              held'[p][t] - Booked(p, t)' = held[p][t] - Booked(p, t)
    PROVE  SharesBacked'
<1>1. \A c \in Calls : Owed(c)' = Owed(c) /\ Owed(c) \in Int
  BY SMTT(30) DEF Owed, Typed, TypeOK, Call
<1>2. \A c \in Calls, p \in Principals, t \in Tokens :
         OpensOn(c, p, t)' <=> OpensOn(c, p, t)
  BY DEF OpensOn, Live
<1>3. \A p \in Principals, t \in Tokens :
         /\ held[p][t] \in Int /\ Booked(p, t) \in Int
         /\ held'[p][t] \in Int /\ Booked(p, t)' \in Int
  BY SMTT(30) DEF Typed, TypeOK, PerToken, Booked
<1> QED BY SMTT(30), <1>1, <1>2, <1>3 DEF SharesBacked

\* Trading keeps custody: a transfer moves the backing with the balance.
LEMMA TradingCustody ==
    ASSUME Typed, Typed', SharesBacked, Trading
    PROVE  SharesBacked'
<1>0. /\ free \in PerToken(Nat) /\ reserved \in PerToken(Nat)
      /\ held \in PerToken(Int)
      /\ trading_accounts \in [Principals -> Principals \cup {None}]
  BY SMTT(30) DEF Typed, TypeOK
<1> PICK p \in Principals, t \in Tokens, x \in Amounts \ {0} :
        \/ Reserve(p, t, x)
        \/ Unreserve(p, t, x)
        \/ \E q \in Principals, fee \in 0 .. x : Transfer(p, q, t, x, fee)
  BY DEF Trading
<1>1. x \in Nat /\ x \in Int /\ -x \in Int
  OBVIOUS
<1>2. ASSUME NEW q \in Principals, NEW y \in Int,
             free' = Add(free, q, t, -y), reserved' = Add(reserved, q, t, y),
             UNCHANGED <<held, lost, calls>>
      PROVE  SharesBacked'
  <2>1. /\ free'[q][t] = free[q][t] + (-y)
        /\ \A r \in Principals, u \in Tokens :
              r # q \/ u # t => free'[r][u] = free[r][u]
    <3>1. Moved(free', free, q, t, -y)
      BY <1>0, <1>2, AddMoves, Zenon
    <3> QED BY <3>1, Zenon DEF Moved
  <2>2. /\ reserved'[q][t] = reserved[q][t] + y
        /\ \A r \in Principals, u \in Tokens :
              r # q \/ u # t => reserved'[r][u] = reserved[r][u]
    <3>1. Moved(reserved', reserved, q, t, y)
      BY <1>0, <1>2, AddMoves, Zenon
    <3> QED BY <3>1, Zenon DEF Moved
  <2>3. Booked(q, t)' = Booked(q, t)
    <3>1. /\ free[q][t] \in Nat /\ reserved[q][t] \in Nat
          /\ lost[q][t] \in Nat
      BY BooksAreNumbers
    <3>2. /\ free'[q][t] = free[q][t] + (-y) /\ reserved'[q][t] = reserved[q][t] + y
          /\ lost'[q][t] = lost[q][t]
      BY Zenon, <1>2, <2>1, <2>2
    <3> QED BY <3>1, <3>2 DEF Booked
  <2>4. ASSUME NEW r \in Principals, NEW u \in Tokens
        PROVE  held'[r][u] - Booked(r, u)' = held[r][u] - Booked(r, u)
    <3>1. CASE r = q /\ u = t
      BY <1>2, <2>3, <3>1
    <3>2. CASE r # q \/ u # t
      <4>1. SameBooks(r, u)
        BY SMTT(30), <1>2, <2>1, <2>2, <3>2, BooksStay
      <4> QED BY <4>1 DEF SameBooks
    <3> QED BY <3>1, <3>2
  <2> QED BY <1>2, <2>4, QuietCustody
<1>3. CASE Reserve(p, t, x)
  <2> DEFINE owner == effective_account(p)
  <2>1. owner \in Principals
    BY <1>0 DEF effective_account, IsTrading
  <2>2. PICK q \in Principals : q = owner
    BY <2>1
  <2>3. /\ free' = Add(free, q, t, -x) /\ reserved' = Add(reserved, q, t, x)
        /\ UNCHANGED <<held, lost, calls>>
    BY SMTT(30), <1>3, <2>2 DEF Reserve
  <2> QED BY <1>1, <1>2, <2>3
<1>4. CASE Unreserve(p, t, x)
  <2>1. -(-x) = x
    BY <1>1
  <2>2. /\ free' = Add(free, p, t, -(-x)) /\ reserved' = Add(reserved, p, t, -x)
        /\ UNCHANGED <<held, lost, calls>>
    BY <1>4, <2>1 DEF Unreserve
  <2> QED BY <1>1, <1>2, <2>2
<1>5. ASSUME NEW q \in Principals, NEW fee \in 0 .. x, Transfer(p, q, t, x, fee)
      PROVE  SharesBacked'
  <2>0. PICK n \in Int : n = x - fee
    BY <1>1
  <2> DEFINE mid == Add(held, p, t, -x)
  <2>1. /\ free' = Add(free, q, t, n) /\ reserved' = Add(reserved, p, t, -x)
        /\ held' = Add(mid, q, t, n) /\ UNCHANGED <<lost, calls>>
    BY <1>5, <2>0, Zenon DEF Transfer
  <2>2. mid \in PerToken(Int)
    BY Zenon, <1>0, <1>1, AddInt
  <2>3. /\ free'[q][t] = free[q][t] + n
        /\ \A r \in Principals, u \in Tokens :
              r # q \/ u # t => free'[r][u] = free[r][u]
    <3>1. free \in PerToken(Nat) /\ free' = Add(free, q, t, n)
      BY <1>0, <2>1
    <3>2. Moved(free', free, q, t, n)
      BY <3>1, AddMoves, Zenon
    <3> QED BY <3>2, Zenon DEF Moved
  <2>4. /\ reserved'[p][t] = reserved[p][t] + (-x)
        /\ \A r \in Principals, u \in Tokens :
              r # p \/ u # t => reserved'[r][u] = reserved[r][u]
    <3>1. reserved \in PerToken(Nat) /\ reserved' = Add(reserved, p, t, -x)
      BY <1>0, <2>1
    <3>2. Moved(reserved', reserved, p, t, -x)
      BY <3>1, AddMoves, Zenon
    <3> QED BY <3>2, Zenon DEF Moved
  <2>5. /\ mid[p][t] = held[p][t] + (-x)
        /\ \A r \in Principals, u \in Tokens :
              r # p \/ u # t => mid[r][u] = held[r][u]
    <3>1. Moved(mid, held, p, t, -x)
      BY <1>0, AddMoves, Zenon
    <3> QED BY <3>1, Zenon DEF Moved
  <2> HIDE DEF mid
  <2>6. /\ held'[q][t] = mid[q][t] + n
        /\ \A r \in Principals, u \in Tokens :
              r # q \/ u # t => held'[r][u] = mid[r][u]
    <3>1. Moved(held', mid, q, t, n)
      BY <2>1, <2>2, AddMoves, Zenon
    <3> QED BY <3>1, Zenon DEF Moved
  <2>7. ASSUME NEW r \in Principals, NEW u \in Tokens
        PROVE  held'[r][u] - Booked(r, u)' = held[r][u] - Booked(r, u)
    <3>0. PICK a \in Nat, b \in Nat, l \in Nat, h \in Int :
             /\ free[r][u] = a /\ reserved[r][u] = b
             /\ lost[r][u] = l /\ lost'[r][u] = l /\ held[r][u] = h
      BY Zenon, <2>1, BooksAreNumbers
    <3>1. PICK y \in Int, z \in Int :
             /\ y = IF r = p /\ u = t THEN -x ELSE 0
             /\ z = IF r = q /\ u = t THEN n ELSE 0
      BY <1>1
    <3>2. free'[r][u] = a + z
      BY SMTT(30), <2>3, <3>0, <3>1
    <3>3. reserved'[r][u] = b + y
      BY SMTT(30), <2>4, <3>0, <3>1
    <3>4. mid[r][u] = h + y
      BY SMTT(30), <2>5, <3>0, <3>1
    <3>5. held'[r][u] = (h + y) + z
      BY <2>6, <3>1, <3>4
    <3>6. Booked(r, u) = a + b + l /\ Booked(r, u)' = (a + z) + (b + y) + l
      BY SMTT(30), <3>0, <3>2, <3>3 DEF Booked
    <3>7. ((h + y) + z) - ((a + z) + (b + y) + l) = h - (a + b + l)
      OBVIOUS
    <3> QED BY <3>0, <3>5, <3>6, <3>7
  <2> QED BY Zenon, <2>1, <2>7, QuietCustody
<1> QED BY <1>3, <1>4, <1>5

\* Every step keeps custody.
LEMMA CustodyStep ==
    Typed /\ Typed' /\ GuardedCalls /\ SharesBacked /\ [Next]_vars
        => SharesBacked'
<1> SUFFICES ASSUME Typed, Typed', GuardedCalls, SharesBacked, [Next]_vars
             PROVE  SharesBacked'
  OBVIOUS
<1>0. ASSUME UNCHANGED <<calls, free, reserved, held, lost>>
      PROVE  SharesBacked'
  BY <1>0, QuietCustody DEF Booked
<1>1. CASE Request
  BY <1>1, RequestCustody
<1>2. ASSUME NEW c \in Calls, Ledger(c) PROVE SharesBacked'
  BY <1>2, LedgerCustody
<1>3. ASSUME NEW c \in Calls, Callback(c) PROVE SharesBacked'
  BY <1>3, CallbackCustody
<1>4. ASSUME NEW t \in Tokens, NEW f \in LedgerFees, LedgerFeeChange(t, f)
      PROVE  SharesBacked'
  BY <1>0, <1>4 DEF LedgerFeeChange
<1>5. CASE Trading
  BY <1>5, TradingCustody
<1>6. CASE Delegation
  BY <1>0, <1>6 DEF Delegation, AddTradingAccount, RemoveTradingAccount
<1>7. CASE Tick
  BY <1>0, <1>7 DEF Tick
<1>8. CASE Upgrade
  BY <1>0, <1>8 DEF Upgrade
<1>9. CASE UNCHANGED vars
  BY <1>0, <1>9 DEF vars
<1> QED BY <1>1, <1>2, <1>3, <1>4, <1>5, <1>6, <1>7, <1>8, <1>9 DEF Next

\* An entry that grows makes the whole grow by as much, in its token only.
LEMMA AddInAll ==
    ASSUME NEW f \in PerToken(Int), NEW p \in Principals, NEW t \in Tokens,
           NEW x \in Int
    PROVE  /\ InAll(Add(f, p, t, x), t) = InAll(f, t) + x
           /\ \A u \in Tokens : u # t => InAll(Add(f, p, t, x), u) = InAll(f, u)
<1>1. PICK g \in PerToken(Int) : g = Add(f, p, t, x)
  BY AddInt
<1>2. /\ g[p][t] = f[p][t] + x
      /\ \A q \in Principals, u \in Tokens :
            q # p \/ u # t => g[q][u] = f[q][u]
  <2>1. Moved(g, f, p, t, x)
    BY <1>1, AddMoves, Zenon
  <2> QED BY <2>1, Zenon DEF Moved
<1>3. \A u \in Tokens, q \in Principals : f[q][u] \in Int /\ g[q][u] \in Int
  BY DEF PerToken
<1>4. InAll(g, t) = InAll(f, t) + x
  <2>1. PICK h \in [Principals -> Int], k \in [Principals -> Int] :
           /\ h = [q \in Principals |-> f[q][t]]
           /\ k = [q \in Principals |-> g[q][t]]
    BY Zenon, <1>3
  <2>2. \A q \in Principals \ {p} : k[q] = h[q]
    BY <1>2, <2>1
  <2>3. SumFunction(k) = SumFunction(h) + (k[p] - h[p])
    BY <2>2, FinitePrincipals, SumChange
  <2>4. k[p] - h[p] = x
    BY <1>2, <1>3, <2>1
  <2> QED BY <2>1, <2>3, <2>4 DEF InAll
<1>5. \A u \in Tokens : u # t => InAll(g, u) = InAll(f, u)
  <2> SUFFICES ASSUME NEW u \in Tokens, u # t PROVE InAll(g, u) = InAll(f, u)
    OBVIOUS
  <2>1. [q \in Principals |-> g[q][u]] = [q \in Principals |-> f[q][u]]
    BY <1>2
  <2> QED BY <2>1 DEF InAll
<1> QED BY <1>1, <1>4, <1>5

\* The whole of a balance sheet is a number.
LEMMA InAllIsInt ==
    ASSUME NEW f \in PerToken(Int), NEW t \in Tokens
    PROVE  InAll(f, t) \in Int
<1>1. [p \in Principals |-> f[p][t]] \in [Principals -> Int]
  BY DEF PerToken
<1> QED BY <1>1, FinitePrincipals, SumType DEF InAll

\* A step that moves no tokens leaves the division of the ledger account.
LEMMA QuietPool ==
    ASSUME PoolBacked, UNCHANGED <<held, custody, fee_pool>>
    PROVE  PoolBacked'
BY DEF PoolBacked, InAll

\* Tokens that reach or leave the ledger account are a principal's own.
LEMMA LedgerPool ==
    ASSUME Typed, PoolBacked, NEW p \in Principals, NEW t \in Tokens,
           NEW x \in Int, held' = Add(held, p, t, x),
           custody' = [custody EXCEPT ![t] = @ + x], UNCHANGED fee_pool
    PROVE  PoolBacked'
<1>1. /\ held \in PerToken(Int) /\ custody \in [Tokens -> Int]
      /\ fee_pool \in [Tokens -> Nat]
  BY TypeParts DEF SheetsTyped, LedgersTyped
<1>2. /\ InAll(held', t) = InAll(held, t) + x
      /\ \A u \in Tokens : u # t => InAll(held', u) = InAll(held, u)
  BY <1>1, AddInAll
<1>3. ASSUME NEW u \in Tokens
      PROVE  custody'[u] = InAll(held', u) + fee_pool'[u]
  <2>1. PICK i \in Int, f \in Int : i = InAll(held, u) /\ f = fee_pool[u]
    BY <1>1, InAllIsInt
  <2>2. custody[u] = i + f
    BY <2>1 DEF PoolBacked
  <2>3. PICK y \in Int : y = IF u = t THEN x ELSE 0
    OBVIOUS
  <2>4. custody'[u] = (i + f) + y
    BY <1>1, <2>2, <2>3
  <2>5. InAll(held', u) = i + y
    BY <1>2, <2>1, <2>3
  <2> QED BY <2>1, <2>4, <2>5
<1>4. \A u \in Tokens : InAll(held, u)' = InAll(held', u)
  BY DEF InAll
<1> QED BY <1>3, <1>4 DEF PoolBacked

\* A fill takes its gross amount from the debtor's part and divides it between
\* the creditor's part and the fee pool; the two may be the same user.
LEMMA FillPool ==
    ASSUME Typed, PoolBacked, NEW p \in Principals, NEW q \in Principals,
           NEW t \in Tokens, NEW x \in Nat, NEW fee \in 0 .. x,
           Transfer(p, q, t, x, fee)
    PROVE  PoolBacked'
<1>0. PICK n \in Int : n = x - fee
  OBVIOUS
<1>1. /\ held \in PerToken(Int) /\ custody \in [Tokens -> Int]
      /\ fee_pool \in [Tokens -> Nat]
  BY TypeParts DEF SheetsTyped, LedgersTyped
<1>2. PICK mid : mid = Add(held, p, t, -x)
  OBVIOUS
<1>3. /\ held' = Add(mid, q, t, n) /\ custody' = custody
      /\ fee_pool' = [fee_pool EXCEPT ![t] = @ + fee]
  BY SMTT(30), <1>0, <1>2 DEF Transfer
<1>4. mid \in PerToken(Int) /\ -x \in Int
  BY SMTT(30), <1>1, <1>2, AddInt
<1>5. /\ InAll(mid, t) = InAll(held, t) + (-x)
      /\ \A u \in Tokens : u # t => InAll(mid, u) = InAll(held, u)
  BY <1>1, <1>2, <1>4, AddInAll
<1>6. /\ InAll(held', t) = InAll(mid, t) + n
      /\ \A u \in Tokens : u # t => InAll(held', u) = InAll(mid, u)
  BY <1>3, <1>4, AddInAll
<1>7. ASSUME NEW u \in Tokens
      PROVE  custody'[u] = InAll(held', u) + fee_pool'[u]
  <2>1. PICK i \in Int, f \in Int : i = InAll(held, u) /\ f = fee_pool[u]
    BY <1>1, InAllIsInt
  <2>2. custody'[u] = i + f
    BY <1>3, <2>1 DEF PoolBacked
  <2>3. CASE u = t
    <3>1. InAll(held', u) = (i + (-x)) + n
      BY <1>5, <1>6, <2>1, <2>3
    <3>2. fee_pool'[u] = f + fee
      BY <1>1, <1>3, <2>1, <2>3
    <3>3. ((i + (-x)) + n) + (f + fee) = i + f
      BY <1>0
    <3> QED BY <2>2, <3>1, <3>2, <3>3
  <2>4. CASE u # t
    <3>1. InAll(held', u) = i /\ fee_pool'[u] = f
      BY <1>1, <1>3, <1>5, <1>6, <2>1, <2>4
    <3> QED BY <2>2, <3>1
  <2> QED BY <2>3, <2>4
<1>8. \A u \in Tokens : InAll(held, u)' = InAll(held', u)
  BY DEF InAll
<1> QED BY <1>7, <1>8 DEF PoolBacked

\* Every step keeps the division of the ledger account.
LEMMA PoolStep ==
    Typed /\ PoolBacked /\ [Next]_vars => PoolBacked'
<1> SUFFICES ASSUME Typed, PoolBacked, [Next]_vars PROVE PoolBacked'
  OBVIOUS
<1>1. CASE Request
  <2>0. PICK c \in Calls, p \in Principals, t \in Tokens, a \in Amounts :
           Deposit(c, p, t, a) \/ Withdraw(c, p, t, a)
    BY <1>1 DEF Request
  <2>1. UNCHANGED <<held, custody, fee_pool>>
    BY Zenon, <2>0 DEF Deposit, Withdraw
  <2> QED BY <2>1, QuietPool
<1>2. ASSUME NEW c \in Calls, Ledger(c) PROVE PoolBacked'
  <2>0. Live(c)
    BY <1>2 DEF Ledger, TransferFromOk, TransferOk, TransferBadFee,
                LedgerRefuses, Live
  <2>1. PICK p \in Principals, t \in Tokens, n \in Nat, f \in Nat :
           /\ p = calls[c].caller /\ t = calls[c].token
           /\ n = calls[c].transfer_amount /\ f = calls[c].fee
    BY <2>0, OpenCall
  <2>2. CASE TransferFromOk(c)
    <3>1. /\ held' = Add(held, p, t, n) /\ UNCHANGED fee_pool
          /\ custody' = [custody EXCEPT ![t] = @ + n]
      BY <2>1, <2>2 DEF TransferFromOk
    <3>2. n \in Int
      OBVIOUS
    <3> HIDE <1>2, <2>2
    <3> QED BY Zenon, <3>1, <3>2, LedgerPool
  <2>3. CASE TransferOk(c)
    <3>1. /\ held' = Add(held, p, t, -(n + f)) /\ UNCHANGED fee_pool
          /\ custody' = [custody EXCEPT ![t] = @ - (n + f)]
      BY <2>1, <2>3 DEF TransferOk
    <3>2. custody \in [Tokens -> Int] /\ -(n + f) \in Int
      BY TypeParts DEF LedgersTyped
    <3>3. custody' = [custody EXCEPT ![t] = @ + (-(n + f))]
      BY Zenon, <3>1, <3>2
    <3> QED BY Zenon, <3>1, <3>2, <3>3, LedgerPool
  <2>4. CASE TransferBadFee(c) \/ LedgerRefuses(c)
    BY <2>4, QuietPool DEF TransferBadFee, LedgerRefuses
  <2> QED BY <1>2, <2>2, <2>3, <2>4 DEF Ledger
<1>3. ASSUME NEW c \in Calls, Callback(c) PROVE PoolBacked'
  <2>1. UNCHANGED <<held, custody, fee_pool>>
    BY SMTT(30), <1>3 DEF Callback, DepositDone, DepositFailed, WithdrawDone,
                WithdrawRetry, WithdrawFailed
  <2> QED BY <2>1, QuietPool
<1>4. ASSUME NEW t \in Tokens, NEW f \in LedgerFees, LedgerFeeChange(t, f)
      PROVE  PoolBacked'
  BY <1>4, QuietPool DEF LedgerFeeChange
<1>5. CASE Trading
  <2>1. PICK p \in Principals, t \in Tokens, x \in Amounts \ {0} :
           \/ Reserve(p, t, x)
           \/ Unreserve(p, t, x)
           \/ \E q \in Principals, fee \in 0 .. x : Transfer(p, q, t, x, fee)
    BY <1>5 DEF Trading
  <2>2. CASE Reserve(p, t, x) \/ Unreserve(p, t, x)
    BY SMTT(30), <2>2, QuietPool DEF Reserve, Unreserve
  <2>3. x \in Nat
    OBVIOUS
  <2> QED BY <2>1, <2>2, <2>3, FillPool
<1>6. CASE Delegation
  BY <1>6, QuietPool DEF Delegation, AddTradingAccount, RemoveTradingAccount
<1>7. CASE Tick
  BY <1>7, QuietPool DEF Tick
<1>8. CASE Upgrade
  BY SMTT(30), <1>8, QuietPool DEF Upgrade
<1>9. CASE UNCHANGED vars
  BY <1>9, QuietPool DEF vars
<1> QED BY <1>1, <1>2, <1>3, <1>4, <1>5, <1>6, <1>7, <1>8, <1>9 DEF Next

\* Every user's balance and the fee pool are backed one for one by tokens on
\* the canister's ledger account, and no token there belongs to nobody,
\* whatever the ledgers answer, whatever runs while the deposit and withdraw
\* handlers wait for them and whoever trades with whom.
THEOREM CustodyIsBacked == Spec => []CustodyBacked
<1>1. Init => CustodyBacked
  <2> SUFFICES ASSUME Init PROVE CustodyBacked
    OBVIOUS
  <2>1. \A c \in Calls, p \in Principals, t \in Tokens : ~OpensOn(c, p, t)
    BY DEF Init, OpensOn, Live, NoCall
  <2>2. \A p \in Principals, t \in Tokens : held[p][t] = Booked(p, t)
    BY DEF Init, Zero, Booked
  <2>3. SharesBacked
    BY <2>1, <2>2 DEF SharesBacked
  <2>4. ASSUME NEW t \in Tokens
        PROVE  custody[t] = InAll(held, t) + fee_pool[t]
    <3>0. \A p \in Principals : held[p][t] = 0
      BY DEF Init, Zero
    <3>1. PICK h : h = [p \in Principals |-> held[p][t]]
      BY Zenon
    <3>10. h \in [Principals -> Int] /\ \A p \in Principals : h[p] = 0
      BY <3>0, <3>1
    <3>2. SumFunction(h) = 0
      BY <3>10, FinitePrincipals, SumZero
    <3>3. custody[t] = 0 /\ fee_pool[t] = 0
      BY DEF Init
    <3> QED BY <3>1, <3>2, <3>3 DEF InAll
  <2> QED BY <2>3, <2>4 DEF CustodyBacked, PoolBacked
<1>2. Typed /\ Typed' /\ GuardedCalls /\ CustodyBacked /\ [Next]_vars
         => CustodyBacked'
  BY CustodyStep, PoolStep DEF CustodyBacked
<1> QED BY <1>1, <1>2, AlwaysTyped, GuardsAreExact, PTL DEF Spec

=============================================================================
