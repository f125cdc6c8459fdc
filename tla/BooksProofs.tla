----------------------------- MODULE BooksProofs -----------------------------
(***************************************************************************)
(* Proofs about the books: the match of invoices with GSTR-2B records      *)
(* (Gstr2bMatch), the month's close of the sales (SalesClose) and one      *)
(* invoice on its way to the voucher (InvoicePipeline), for any books,     *)
(* statements, sheets, PDFs, answers and tolerances.                       *)
(*                                                                         *)
(* All are about sums and counts over what is filed, so the module opens  *)
(* with the laws of sums over finite sets.  SumFunctionOnSet is a choice   *)
(* of a function over the subsets of a set; that one exists is shown by    *)
(* taking a smallest set for which it would not.                           *)
(***************************************************************************)
EXTENDS Gstr2bMatch, SalesClose, InvoicePipeline, FiniteSetTheorems, SequenceTheorems,
        WellFoundedInduction, TLAPS

(* Sums over finite sets.                                                  *)

\* A set of naturals has a least element.
LEMMA LeastNumber ==
    ASSUME NEW N, N \subseteq Nat, N # {}
    PROVE  \E n \in N : \A m \in N : n <= m
<1>1. PICK n \in N : \A m \in N : ~(<<m, n>> \in OpToRel(<, Nat))
    BY WFMin, NatLessThanWellFounded
<1>2. \A m \in N : ~(m < n)
    BY <1>1 DEF OpToRel
<1> QED
    BY <1>2

\* Induction on the size of finite sets: what holds of a set when it holds
\* of all its proper subsets holds of every finite set.
LEMMA SmallestFirst ==
    ASSUME NEW S, IsFiniteSet(S), NEW P,
           \A T \in SUBSET S : (\A U \in SUBSET T : U # T => U \in P) => T \in P
    PROVE  \A T \in SUBSET S : T \in P
<1> DEFINE Sizes == {n \in Nat : \E T \in SUBSET S : T \notin P /\ Cardinality(T) = n}
<1> SUFFICES ASSUME NEW T \in SUBSET S, T \notin P PROVE FALSE
    OBVIOUS
<1>1. Cardinality(T) \in Sizes
    BY FS_Subset, FS_CardinalityType
<1>2. PICK n \in Sizes : \A m \in Sizes : n <= m
    BY <1>1, LeastNumber
<1>3. PICK U \in SUBSET S : U \notin P /\ Cardinality(U) = n
    OBVIOUS
<1>4. PICK V \in SUBSET U : V # U /\ V \notin P
    BY <1>3
<1>5. Cardinality(V) \in Nat /\ Cardinality(V) < n
    BY <1>3, <1>4, FS_Subset, FS_CardinalityType
<1>6. Cardinality(V) \in Sizes
    BY <1>4, <1>5
<1> QED
    BY <1>2, <1>5, <1>6

AnyOf(s) == CHOOSE x \in s : TRUE
Summing(f, g, s) == IF s = {} THEN 0 ELSE f[AnyOf(s)] + g[s \ {AnyOf(s)}]

\* The function of the sums over the subsets of a finite set exists.
LEMMA SumsExist ==
    ASSUME NEW f, NEW S, IsFiniteSet(S)
    PROVE  \E g : g = [s \in SUBSET S |-> Summing(f, g, s)]
<1> DEFINE Good(T) == \E g : /\ g = [s \in SUBSET S |-> g[s]]
                             /\ \A s \in SUBSET S : Cardinality(s) <= Cardinality(T) => g[s] = Summing(f, g, s)
           P == {T \in SUBSET S : Good(T)}
<1>1. ASSUME NEW T \in SUBSET S, \A U \in SUBSET T : U # T => U \in P
      PROVE  Good(T)
    <2>1. CASE T = {}
        <3> DEFINE g == [s \in SUBSET S |-> 0]
        <3>1. \A s \in SUBSET S : Cardinality(s) <= Cardinality(T) => g[s] = Summing(f, g, s)
            BY <2>1, FS_EmptySet, FS_Subset, FS_CardinalityType DEF Summing
        <3> QED
            BY <3>1
    <2>2. CASE T # {}
        <3> DEFINE U == T \ {AnyOf(T)}
        <3>1. AnyOf(T) \in T
            BY <2>2 DEF AnyOf
        <3>2. Cardinality(U) = Cardinality(T) - 1 /\ Cardinality(T) \in Nat
            BY <3>1, FS_RemoveElement, FS_Subset, FS_CardinalityType
        <3>3. U \in P
            BY <1>1, <3>1
        <3>4. PICK g : /\ g = [s \in SUBSET S |-> g[s]]
                       /\ \A s \in SUBSET S : Cardinality(s) <= Cardinality(U) => g[s] = Summing(f, g, s)
            BY <3>3
        <3> HIDE DEF P, Good, U
        <3> DEFINE h == [s \in SUBSET S |-> IF Cardinality(s) <= Cardinality(U) THEN g[s] ELSE Summing(f, g, s)]
        <3>5. ASSUME NEW s \in SUBSET S, Cardinality(s) <= Cardinality(T)
              PROVE  h[s] = Summing(f, h, s)
            <4>1. CASE s = {}
                BY <3>4, <4>1, FS_EmptySet DEF Summing
            <4>2. CASE s # {}
                <5>1. AnyOf(s) \in s
                    BY <4>2 DEF AnyOf
                <5>2. Cardinality(s \ {AnyOf(s)}) = Cardinality(s) - 1 /\ Cardinality(s) \in Nat
                    BY <5>1, FS_RemoveElement, FS_Subset, FS_CardinalityType
                <5>3. h[s \ {AnyOf(s)}] = g[s \ {AnyOf(s)}]
                    BY <3>2, <3>5, <5>2
                <5>4. h[s] = Summing(f, g, s)
                    BY <3>4
                <5> QED
                    BY <4>2, <5>3, <5>4 DEF Summing
            <4> QED
                BY <4>1, <4>2
        <3>6. h = [s \in SUBSET S |-> h[s]]
            OBVIOUS
        <3> HIDE DEF h
        <3> QED
            BY <3>5, <3>6 DEF Good
    <2> QED
        BY <2>1, <2>2
<1> HIDE DEF Good
<1>2. \A T \in SUBSET S : (\A U \in SUBSET T : U # T => U \in P) => T \in P
    BY <1>1
<1>3. S \in P
    <2> HIDE DEF P
    <2> QED BY <1>2, SmallestFirst
<1>4. PICK g : /\ g = [s \in SUBSET S |-> g[s]]
               /\ \A s \in SUBSET S : Cardinality(s) <= Cardinality(S) => g[s] = Summing(f, g, s)
    BY <1>3 DEF Good
<1>5. \A s \in SUBSET S : g[s] = Summing(f, g, s)
    BY <1>4, FS_Subset
<1> QED
    BY <1>4, <1>5

\* The sum over a set is the value there of any function of sums.
LEMMA SumIsUnique ==
    ASSUME NEW f, NEW S, IsFiniteSet(S), NEW h,
           \A s \in SUBSET S : h[s] = Summing(f, h, s)
    PROVE  SumFunctionOnSet(f, S) = h[S]
<1> DEFINE iter == CHOOSE g : g = [s \in SUBSET S |-> Summing(f, g, s)]
           P == {T \in SUBSET S : iter[T] = h[T]}
<1>1. iter = [s \in SUBSET S |-> Summing(f, iter, s)]
    BY SumsExist
<1>2. SumFunctionOnSet(f, S) = iter[S]
    BY DEF SumFunctionOnSet, FoldFunctionOnSet, MapThenFoldSet, Summing, AnyOf
<1> HIDE DEF iter
<1>3. \A s \in SUBSET S : iter[s] = Summing(f, iter, s)
    BY <1>1
<1>4. ASSUME NEW T \in SUBSET S, \A U \in SUBSET T : U # T => U \in P
      PROVE  iter[T] = h[T]
    <2>1. CASE T = {}
        BY <1>3, <2>1 DEF Summing
    <2>2. CASE T # {}
        <3>1. AnyOf(T) \in T
            BY <2>2 DEF AnyOf
        <3>2. iter[T \ {AnyOf(T)}] = h[T \ {AnyOf(T)}]
            BY <1>4, <3>1
        <3> QED
            BY <1>3, <2>2, <3>2 DEF Summing
    <2> QED
        BY <2>1, <2>2
<1>5. \A T \in SUBSET S : (\A U \in SUBSET T : U # T => U \in P) => T \in P
    BY <1>4
<1>6. S \in P
    <2> HIDE DEF P
    <2> QED BY <1>5, SmallestFirst
<1> QED
    BY <1>2, <1>6

\* A sum is its recursion: nothing for the empty set, else the value of an
\* element and the sum over the others.
LEMMA SumUnfolds ==
    ASSUME NEW f, NEW S, IsFiniteSet(S)
    PROVE  /\ S = {} => SumFunctionOnSet(f, S) = 0
           /\ S # {} => /\ AnyOf(S) \in S
                        /\ SumFunctionOnSet(f, S) =
                               f[AnyOf(S)] + SumFunctionOnSet(f, S \ {AnyOf(S)})
<1>1. PICK g : g = [s \in SUBSET S |-> Summing(f, g, s)]
    BY SumsExist
<1>2. \A s \in SUBSET S : g[s] = Summing(f, g, s)
    BY <1>1
<1>3. \A T \in SUBSET S : SumFunctionOnSet(f, T) = g[T]
    <2> SUFFICES ASSUME NEW T \in SUBSET S PROVE SumFunctionOnSet(f, T) = g[T]
        OBVIOUS
    <2>1. IsFiniteSet(T) /\ \A s \in SUBSET T : g[s] = Summing(f, g, s)
        BY <1>2, FS_Subset
    <2> QED
        BY <2>1, SumIsUnique
<1>4. S # {} => AnyOf(S) \in S
    BY DEF AnyOf
<1> QED
    BY <1>2, <1>3, <1>4 DEF Summing

\* Any element may be taken out of a sum of integers.
LEMMA SumTakes ==
    ASSUME NEW f, NEW S, IsFiniteSet(S), \A x \in S : f[x] \in Int
    PROVE  /\ SumFunctionOnSet(f, {}) = 0
           /\ SumFunctionOnSet(f, S) \in Int
           /\ \A x \in S : SumFunctionOnSet(f, S) = f[x] + SumFunctionOnSet(f, S \ {x})
<1> DEFINE sum(T) == SumFunctionOnSet(f, T)
           Takes(T) == sum(T) \in Int /\ \A x \in T : sum(T) = f[x] + sum(T \ {x})
           P == {T \in SUBSET S : Takes(T)}
<1>0. \A T \in SUBSET S : IsFiniteSet(T)
    BY FS_Subset
<1>1. sum({}) = 0
    BY FS_EmptySet, SumUnfolds
<1>2. \A T \in SUBSET S : T # {} => AnyOf(T) \in T /\ sum(T) = f[AnyOf(T)] + sum(T \ {AnyOf(T)})
    BY <1>0, SumUnfolds
<1> HIDE DEF sum
<1>3. ASSUME NEW T \in SUBSET S, \A U \in SUBSET T : U # T => U \in P
      PROVE  Takes(T)
    <2>1. CASE T = {}
        BY <1>1, <2>1
    <2>2. CASE T # {}
        <3> DEFINE c == AnyOf(T)
        <3>1. c \in T /\ sum(T) = f[c] + sum(T \ {c})
            BY <1>2, <2>2
        <3> HIDE DEF c
        <3>2. Takes(T \ {c})
            BY <1>3, <3>1
        <3>3. ASSUME NEW x \in T PROVE sum(T) = f[x] + sum(T \ {x})
            <4>1. CASE x = c
                BY <3>1, <4>1
            <4>2. CASE x # c
                <5>1. (T \ {c}) \ {x} = (T \ {x}) \ {c}
                    OBVIOUS
                <5>2. Takes(T \ {x})
                    BY <1>3
                <5>3. Takes((T \ {c}) \ {x})
                    BY <1>3
                <5>4. sum(T \ {c}) = f[x] + sum((T \ {c}) \ {x})
                    BY <3>2, <4>2
                <5>5. sum(T \ {x}) = f[c] + sum((T \ {c}) \ {x})
                    BY <3>1, <5>1, <5>2, <4>2
                <5>6. f[x] \in Int /\ f[c] \in Int /\ sum((T \ {c}) \ {x}) \in Int
                    BY <3>1, <5>3
                <5> HIDE DEF Takes
                <5> QED
                    BY <3>1, <5>4, <5>5, <5>6
            <4> QED
                BY <4>1, <4>2
        <3>4. sum(T) \in Int
            BY <3>1, <3>2
        <3> QED
            BY <3>3, <3>4
    <2> QED
        BY <2>1, <2>2
<1> HIDE DEF Takes
<1>4. \A T \in SUBSET S : (\A U \in SUBSET T : U # T => U \in P) => T \in P
    BY <1>3
<1>5. S \in P
    <2> HIDE DEF P
    <2> QED BY <1>4, SmallestFirst
<1> QED
    BY <1>1, <1>5 DEF sum, Takes

\* Integer functions that agree on a set have the same sum over it.
LEMMA SumAgrees ==
    ASSUME NEW f, NEW h, NEW S, IsFiniteSet(S), \A x \in S : f[x] \in Int /\ f[x] = h[x]
    PROVE  SumFunctionOnSet(f, S) = SumFunctionOnSet(h, S)
<1> DEFINE P == {T \in SUBSET S : SumFunctionOnSet(f, T) = SumFunctionOnSet(h, T)}
<1>1. ASSUME NEW T \in SUBSET S, \A U \in SUBSET T : U # T => U \in P
      PROVE  T \in P
    <2>0. IsFiniteSet(T)
        BY FS_Subset
    <2>1. CASE T = {}
        BY <2>0, <2>1, SumUnfolds
    <2>2. CASE T # {}
        <3>1. PICK x \in T : x = AnyOf(T)
            BY <2>0, <2>2, SumUnfolds
        <3>2. T \ {x} \in P
            BY <1>1
        <3> QED
            BY <2>0, <2>2, <3>1, <3>2, SumUnfolds
    <2> QED
        BY <2>1, <2>2
<1>2. S \in P
    <2> HIDE DEF P
    <2> QED
        BY <1>1, SmallestFirst
<1> QED
    BY <1>2

\* The sums over two disjoint sets add up to the sum over both.
LEMMA SumOverUnion ==
    ASSUME NEW f, NEW S, NEW T, IsFiniteSet(S), IsFiniteSet(T), S \cap T = {},
           \A x \in S \cup T : f[x] \in Int
    PROVE  SumFunctionOnSet(f, S \cup T) = SumFunctionOnSet(f, S) + SumFunctionOnSet(f, T)
<1> DEFINE sum(U) == SumFunctionOnSet(f, U)
           P == {U \in SUBSET T : sum(S \cup U) = sum(S) + sum(U)}
<1>1. \A U \in SUBSET (S \cup T) :
         /\ sum({}) = 0 /\ sum(U) \in Int
         /\ \A x \in U : sum(U) = f[x] + sum(U \ {x})
    <2> SUFFICES ASSUME NEW U \in SUBSET (S \cup T)
                 PROVE  /\ sum({}) = 0 /\ sum(U) \in Int
                        /\ \A x \in U : sum(U) = f[x] + sum(U \ {x})
        OBVIOUS
    <2>1. IsFiniteSet(U) /\ \A x \in U : f[x] \in Int
        BY FS_Union, FS_Subset
    <2> QED
        BY <2>1, SumTakes
<1> HIDE DEF sum
<1>2. ASSUME NEW U \in SUBSET T, \A V \in SUBSET U : V # U => V \in P
      PROVE  U \in P
    <2>1. CASE U = {}
        <3>1. S \cup U = S
            BY <2>1
        <3> QED
            BY <1>1, <2>1, <3>1
    <2>2. CASE U # {}
        <3>1. PICK x \in U : TRUE
            BY <2>2
        <3>2. U \ {x} \in P
            BY <1>2
        <3>3. (S \cup U) \ {x} = S \cup (U \ {x}) /\ x \in S \cup U
            OBVIOUS
        <3>4. sum(S \cup U) = f[x] + sum(S \cup (U \ {x}))
            BY <1>1, <3>3
        <3>5. sum(U) = f[x] + sum(U \ {x})
            BY <1>1
        <3>6. f[x] \in Int /\ sum(S) \in Int /\ sum(U \ {x}) \in Int
            BY <1>1
        <3> QED
            BY <3>2, <3>4, <3>5, <3>6
    <2> QED
        BY <2>1, <2>2
<1>3. T \in P
    <2> HIDE DEF P
    <2> QED
        BY <1>2, SmallestFirst
<1> QED
    BY <1>3 DEF sum

\* The sums of the groups of a set add up to the sum over the set: nothing
\* is counted twice or left out when amounts are grouped.
LEMMA SumByGroups ==
    ASSUME NEW f, NEW S, IsFiniteSet(S), \A x \in S : f[x] \in Int,
           NEW K, IsFiniteSet(K), NEW part, NEW F,
           \A k \in K : part[k] \subseteq S /\ F[k] = SumFunctionOnSet(f, part[k]),
           \A x \in S : \E k \in K : x \in part[k],
           \A k, l \in K : \A x \in S : x \in part[k] /\ x \in part[l] => k = l
    PROVE  SumFunctionOnSet(F, K) = SumFunctionOnSet(f, S)
<1> DEFINE of(L) == {x \in S : \E k \in L : x \in part[k]}
           P == {L \in SUBSET K : SumFunctionOnSet(F, L) = SumFunctionOnSet(f, of(L))}
<1>1. \A T \in SUBSET S : IsFiniteSet(T) /\ SumFunctionOnSet(f, T) \in Int
    <2> SUFFICES ASSUME NEW T \in SUBSET S
                 PROVE  IsFiniteSet(T) /\ SumFunctionOnSet(f, T) \in Int
        OBVIOUS
    <2>1. IsFiniteSet(T) /\ \A x \in T : f[x] \in Int
        BY FS_Subset
    <2> QED
        BY <2>1, SumTakes
<1>2. ASSUME NEW L \in SUBSET K, \A U \in SUBSET L : U # L => U \in P
      PROVE  L \in P
    <2>0. IsFiniteSet(L) /\ \A k \in L : F[k] \in Int
        BY <1>1, FS_Subset
    <2>1. CASE L = {}
        <3>1. of(L) = {}
            BY <2>1
        <3> QED
            BY <2>0, <2>1, <3>1, <1>1, SumUnfolds
    <2>2. CASE L # {}
        <3>1. PICK k \in L : TRUE
            BY <2>2
        <3> DEFINE A == of(L \ {k})
                   B == part[k]
        <3>2. of(L) = A \cup B /\ A \cap B = {} /\ A \subseteq S /\ B \subseteq S
            OBVIOUS
        <3>3. SumFunctionOnSet(F, L \ {k}) = SumFunctionOnSet(f, A)
            BY <1>2
        <3>4. F[k] = SumFunctionOnSet(f, B)
            OBVIOUS
        <3> HIDE DEF A, B, P, of
        <3>5. SumFunctionOnSet(f, A \cup B) = SumFunctionOnSet(f, A) + SumFunctionOnSet(f, B)
            <4>1. IsFiniteSet(A) /\ IsFiniteSet(B) /\ \A x \in A \cup B : f[x] \in Int
                BY <1>1, <3>2
            <4> QED
                BY <3>2, <4>1, SumOverUnion
        <3>6. SumFunctionOnSet(F, L) = F[k] + SumFunctionOnSet(F, L \ {k})
            BY <2>0, SumTakes
        <3>7. SumFunctionOnSet(f, A) \in Int /\ SumFunctionOnSet(f, B) \in Int
            BY <1>1, <3>2
        <3>8. SumFunctionOnSet(F, L) = SumFunctionOnSet(f, of(L))
            BY <3>2, <3>3, <3>4, <3>5, <3>6, <3>7
        <3> QED
            BY <3>8 DEF P
    <2> QED
        BY <2>1, <2>2
<1>3. K \in P
    <2> HIDE DEF P
    <2> QED
        BY <1>2, SmallestFirst
<1>4. of(K) = S
    OBVIOUS
<1> QED
    BY <1>3, <1>4

\* Disjoint sets have as many elements as there are in both.
LEMMA DisjointSetsAddUp ==
    ASSUME NEW A, NEW B, IsFiniteSet(A), IsFiniteSet(B), A \cap B = {}
    PROVE  /\ IsFiniteSet(A \cup B) /\ Cardinality(A \cup B) \in Nat
           /\ Cardinality(A) \in Nat /\ Cardinality(B) \in Nat
           /\ Cardinality(A \cup B) = Cardinality(A) + Cardinality(B)
<1>1. /\ IsFiniteSet(A \cup B)
      /\ Cardinality(A \cup B) = Cardinality(A) + Cardinality(B) - Cardinality(A \cap B)
    BY FS_Union
<1>2. Cardinality(A) \in Nat /\ Cardinality(B) \in Nat /\ Cardinality(A \cap B) = 0
    BY FS_CardinalityType, FS_EmptySet
<1> QED
    BY <1>1, <1>2
-----------------------------------------------------------------------------
(* The match.  A claim is of one of two kinds: by the invoice's own key,   *)
(* which is then used, or by a plausible number, and then the record's key *)
(* is not used and the record has left the pool.  An invoice without a     *)
(* claim of the first kind has no record of its key at all, once the exact *)
(* pass is over.  Two claims of any kinds are therefore apart.             *)

ClaimedByKey(i) ==
    /\ IsFirst(claim[i], RecordsOf(i))
    /\ books[i].key \in used

ClaimedByNumber(i) ==
    /\ claim[i] \in DOMAIN statement \ remaining
    /\ statement[claim[i]].key \notin used
    /\ RecordsOf(i) = {}

InvoicesHaveKeys ==
    \A i, j \in DOMAIN claim : books[i].key = books[j].key => i = j

TodoIsUnclaimed == todo \subseteq DOMAIN claim /\ \A i \in todo : claim[i] = 0

ExactPass ==
    stage = "exact" => \A i \in DOMAIN claim :
        \/ i \in todo
        \/ ClaimedByKey(i)
        \/ claim[i] = 0 /\ RecordsOf(i) = {}

FuzzyPass ==
    stage \in {"fuzzy", "done", "annotated"} =>
        /\ remaining = {r \in DOMAIN statement : /\ statement[r].key \notin used
                                                 /\ \A i \in DOMAIN claim : claim[i] # r}
        /\ \A i \in DOMAIN claim :
              \/ ClaimedByKey(i)
              \/ ClaimedByNumber(i)
              \/ claim[i] = 0 /\ RecordsOf(i) = {}

UsedAreClaimed ==
    \A key \in used : \E i \in DOMAIN claim : books[i].key = key /\ ClaimedByKey(i)

InvoicesAreBooked ==
    stage # "idle" =>
        /\ DOMAIN claim = Invoices(books)
        /\ total = [i \in Invoices(books) |-> Amount(books, LinesOf(books, i))]

BooksAreTyped ==
    /\ DOMAIN books = 1..Len(books) /\ Len(books) \in Nat
    /\ \A l \in DOMAIN books : books[l].amount \in Int

NumbersAreApart ==
    \A i, j \in DOMAIN claim :
        i # j /\ claim[i] # 0 /\ ClaimedByNumber(i) /\ ClaimedByNumber(j) => claim[i] # claim[j]

MatchInv ==
    /\ stage \in {"idle", "exact", "fuzzy", "done", "annotated"}
    /\ stage = "idle" => claim = <<>> /\ used = {}
    /\ DOMAIN statement \subseteq Nat \ {0}
    /\ BooksAreTyped /\ InvoicesAreBooked /\ InvoicesHaveKeys
    /\ TodoIsUnclaimed /\ ExactPass /\ FuzzyPass /\ UsedAreClaimed
    /\ stage \in {"fuzzy", "done", "annotated"} => NumbersAreApart

\* The two kinds of claims exclude one another's records.
LEMMA ClaimsAreApart == MatchInv => ClaimsAreExclusive
<1> SUFFICES ASSUME MatchInv, NEW i \in DOMAIN claim, NEW j \in DOMAIN claim,
                    claim[i] # 0, i # j
             PROVE  /\ claim[i] # claim[j]
                    /\ claim[j] # 0 => statement[claim[i]].key # books[j].key
    BY DEF ClaimsAreExclusive
<1> USE DEF MatchInv
<1>1. books[i].key # books[j].key
    BY DEF InvoicesHaveKeys
<1>2. CASE stage = "idle"
    BY <1>2
<1>3. CASE stage = "exact"
    <2>1. ClaimedByKey(i) /\ (claim[j] = 0 \/ ClaimedByKey(j))
        BY <1>3 DEF ExactPass, TodoIsUnclaimed
    <2> QED
        BY <1>1, <2>1 DEF ClaimedByKey, RecordsOf, IsFirst
<1>4. CASE stage \in {"fuzzy", "done", "annotated"}
    <2>1. \/ ClaimedByKey(i)
          \/ ClaimedByNumber(i)
        BY <1>4 DEF FuzzyPass
    <2>2. CASE claim[j] = 0
        BY <2>2
    <2>3. CASE ClaimedByKey(j)
        BY <1>1, <2>1, <2>3 DEF ClaimedByKey, ClaimedByNumber, RecordsOf, IsFirst
    <2>4. CASE ClaimedByNumber(j)
        <3>1. CASE ClaimedByKey(i)
            BY <1>1, <2>4, <3>1 DEF ClaimedByKey, ClaimedByNumber, RecordsOf, IsFirst
        <3>2. CASE ClaimedByNumber(i)
            <4>1. claim[i] # claim[j]
                BY <1>4, <2>4, <3>2 DEF NumbersAreApart
            <4> QED
                BY <2>4, <3>2, <4>1 DEF ClaimedByNumber, RecordsOf
        <3> QED
            BY <2>1, <3>1, <3>2
    <2> QED
        BY <1>4, <2>2, <2>3, <2>4 DEF FuzzyPass
<1> QED
    BY <1>2, <1>3, <1>4

\* The invariant holds initially.
LEMMA MatchInitEstablishes == MatchInit => MatchInv
BY DEF MatchInit, MatchInv, InvoicesHaveKeys, TodoIsUnclaimed, ExactPass, FuzzyPass,
       UsedAreClaimed, InvoicesAreBooked, BooksAreTyped

\* Each key of the books has one invoice.
LEMMA KeysAreDistinct ==
    ASSUME NEW b, DOMAIN b \subseteq Nat \ {0},
           NEW i \in Invoices(b), NEW j \in Invoices(b), b[i].key = b[j].key
    PROVE  i = j
BY DEF Invoices

\* Books and records are counted from one, and have amounts.
LEMMA PositionsOfInput ==
    /\ \A b \in Books : /\ DOMAIN Items(b) = 1..Len(Items(b)) /\ Len(Items(b)) \in Nat
                        /\ \A l \in DOMAIN Items(b) : Items(b)[l].amount \in Int
    /\ \A raw \in Statements : DOMAIN Parsed(raw) \subseteq Nat \ {0}
<1>1. ASSUME NEW b \in Books
      PROVE  /\ DOMAIN Items(b) = 1..Len(Items(b)) /\ Len(Items(b)) \in Nat
             /\ \A l \in DOMAIN Items(b) : Items(b)[l].amount \in Int
    <2>1. b \in Seq(Line)
        BY MatchConstants
    <2>2. DOMAIN Items(b) = 1..Len(b) /\ Len(b) \in Nat
        BY <2>1 DEF Items
    <2>3. Len(Items(b)) = Len(b)
        BY <2>2
    <2>4. ASSUME NEW l \in DOMAIN Items(b) PROVE Items(b)[l].amount \in Int
        <3>1. b[l] \in Line
            BY <2>1, <2>2
        <3> QED
            BY <2>2, <3>1 DEF Items, Item, Line
    <2> QED
        BY <2>2, <2>3, <2>4
<1>2. ASSUME NEW raw \in Statements PROVE DOMAIN Parsed(raw) \subseteq Nat \ {0}
    <2>1. raw \in Seq(Invoice)
        BY MatchConstants
    <2> DEFINE kept == SelectSeq(raw, LAMBDA r : r.inum # <<>>)
    <2>2. DOMAIN kept = 1..Len(kept)
        BY <2>1
    <2>3. Len(kept) \in Nat
        BY <2>1
    <2>4. DOMAIN Parsed(raw) = DOMAIN kept
        BY DEF Parsed
    <2> HIDE DEF kept
    <2> QED
        BY <2>2, <2>3, <2>4
<1> QED
    BY <1>1, <1>2

\* A request starts with all invoices unclaimed.
LEMMA StartPreserves ==
    ASSUME MatchInv, NEW b, DOMAIN b = 1..Len(b), Len(b) \in Nat,
           \A l \in DOMAIN b : b[l].amount \in Int,
           NEW records, DOMAIN records \subseteq Nat \ {0}, Start(b, records)
    PROVE  MatchInv'
<1>1. /\ stage' = "exact" /\ books' = b /\ statement' = records /\ todo' = Invoices(b)
      /\ claim' = [i \in Invoices(b) |-> 0]
      /\ total' = [i \in Invoices(b) |-> Amount(b, LinesOf(b, i))]
      /\ used' = {}
    BY DEF Start, MatchInv
<1>2. InvoicesHaveKeys'
    <2>1. DOMAIN b \subseteq Nat \ {0}
        OBVIOUS
    <2> QED
        BY <1>1, <2>1, KeysAreDistinct DEF InvoicesHaveKeys
<1>3. TodoIsUnclaimed' /\ ExactPass' /\ FuzzyPass' /\ UsedAreClaimed'
    BY <1>1 DEF TodoIsUnclaimed, ExactPass, FuzzyPass, UsedAreClaimed
<1>4. InvoicesAreBooked' /\ BooksAreTyped'
    BY <1>1 DEF InvoicesAreBooked, BooksAreTyped
<1> QED
    BY <1>1, <1>2, <1>3, <1>4 DEF MatchInv

\* The exact pass takes an invoice.
LEMMA ExactPreserves == ASSUME MatchInv, MatchExactly PROVE MatchInv'
<1>1. PICK i \in todo :
         /\ todo' = todo \ {i}
         /\ \/ /\ \E r \in RecordsOf(i) : /\ IsFirst(r, RecordsOf(i))
                                          /\ claim' = [claim EXCEPT ![i] = r]
               /\ used' = used \cup {books[i].key}
            \/ RecordsOf(i) = {} /\ UNCHANGED <<claim, used>>
    BY DEF MatchExactly
<1>2. stage = "exact" /\ UNCHANGED <<stage, books, statement, total, remaining>>
    BY DEF MatchExactly
<1>3. i \in DOMAIN claim /\ claim[i] = 0 /\ DOMAIN claim' = DOMAIN claim
    BY <1>1 DEF MatchInv, TodoIsUnclaimed
<1>4. \A j \in DOMAIN claim : j # i => claim'[j] = claim[j]
    BY <1>1
<1>5. InvoicesHaveKeys' /\ TodoIsUnclaimed'
    BY <1>1, <1>2, <1>3, <1>4 DEF MatchInv, InvoicesHaveKeys, TodoIsUnclaimed
<1>6. ExactPass'
    <2> SUFFICES ASSUME NEW j \in DOMAIN claim, j \notin todo'
                 PROVE  ClaimedByKey(j)' \/ (claim'[j] = 0 /\ RecordsOf(j)' = {})
        BY <1>3 DEF ExactPass
    <2>1. RecordsOf(j)' = RecordsOf(j)
        BY <1>2 DEF RecordsOf
    <2>2. used \subseteq used'
        BY <1>1
    <2>3. CASE j = i
        <3>1. CASE RecordsOf(i) = {}
            BY <1>1, <1>3, <2>1, <2>3, <3>1
        <3>2. CASE RecordsOf(i) # {}
            <4>1. IsFirst(claim'[i], RecordsOf(i)) /\ books[i].key \in used'
                BY <1>1, <1>3, <3>2
            <4> QED
                BY <1>2, <2>1, <2>3, <4>1 DEF ClaimedByKey
        <3> QED
            BY <3>1, <3>2
    <2>4. CASE j # i
        <3>1. ClaimedByKey(j) \/ (claim[j] = 0 /\ RecordsOf(j) = {})
            BY <1>1, <1>2, <2>4 DEF MatchInv, ExactPass
        <3> QED
            BY <1>2, <1>4, <2>1, <2>2, <2>4, <3>1 DEF ClaimedByKey
    <2> QED
        BY <2>3, <2>4
<1>7. UsedAreClaimed'
    <2> SUFFICES ASSUME NEW key \in used'
                 PROVE  \E j \in DOMAIN claim : books[j].key = key /\ ClaimedByKey(j)'
        BY <1>2, <1>3 DEF UsedAreClaimed
    <2>1. CASE key \in used
        <3>1. PICK j \in DOMAIN claim : books[j].key = key /\ ClaimedByKey(j)
            BY <2>1 DEF MatchInv, UsedAreClaimed
        <3>2. j # i
            BY <1>3, <3>1 DEF MatchInv, ClaimedByKey, IsFirst, RecordsOf
        <3>3. RecordsOf(j)' = RecordsOf(j) /\ claim'[j] = claim[j] /\ used \subseteq used'
            BY <1>1, <1>2, <1>4, <3>2 DEF RecordsOf
        <3> QED
            BY <1>2, <3>1, <3>3 DEF ClaimedByKey
    <2>2. CASE key \notin used
        <3>1. key = books[i].key /\ key \in used'
            BY <1>1, <2>2
        <3>2. IsFirst(claim'[i], RecordsOf(i)) /\ RecordsOf(i)' = RecordsOf(i)
            BY <1>1, <1>2, <1>3, <2>2 DEF RecordsOf
        <3> QED
            BY <1>2, <1>3, <3>1, <3>2 DEF ClaimedByKey
    <2> QED
        BY <2>1, <2>2
<1>8. InvoicesAreBooked' /\ BooksAreTyped'
    BY <1>2, <1>3 DEF MatchInv, InvoicesAreBooked, BooksAreTyped
<1> QED
    BY <1>2, <1>5, <1>6, <1>7, <1>8 DEF MatchInv, FuzzyPass

\* The pool of the fuzzy pass holds the records whose key is not used.
LEMMA BeginFuzzyPreserves == ASSUME MatchInv, BeginFuzzyPass PROVE MatchInv'
<1> USE DEF MatchInv, BeginFuzzyPass
<1>1. \A i \in DOMAIN claim : RecordsOf(i)' = RecordsOf(i)
    BY DEF RecordsOf
<1>2. InvoicesHaveKeys' /\ TodoIsUnclaimed' /\ ExactPass'
    BY DEF InvoicesHaveKeys, TodoIsUnclaimed, ExactPass
<1>3. \A i \in DOMAIN claim : ClaimedByKey(i)' \/ (claim'[i] = 0 /\ RecordsOf(i)' = {})
    BY <1>1 DEF ExactPass, ClaimedByKey
<1>4. FuzzyPass'
    <2>1. ASSUME NEW r \in DOMAIN statement, statement[r].key \notin used, NEW i \in DOMAIN claim
          PROVE  claim[i] # r
        BY <2>1, <1>1, <1>3 DEF ClaimedByKey, IsFirst, RecordsOf
    <2> QED
        BY <1>3, <2>1 DEF FuzzyPass
<1>5. NumbersAreApart'
    BY <1>1, <1>3 DEF NumbersAreApart, ClaimedByKey, ClaimedByNumber, IsFirst
<1>6. UsedAreClaimed' /\ InvoicesAreBooked' /\ BooksAreTyped'
    BY <1>1 DEF UsedAreClaimed, InvoicesAreBooked, BooksAreTyped, ClaimedByKey
<1> QED
    BY <1>2, <1>4, <1>5, <1>6

\* The fuzzy pass takes an invoice: its record leaves the pool.
LEMMA FuzzyPreserves == ASSUME MatchInv, MatchFuzzily PROVE MatchInv'
<1>1. PICK i \in todo :
         /\ todo' = todo \ {i}
         /\ \/ \E r \in Candidates(i) :
                  /\ claim' = [claim EXCEPT ![i] = r]
                  /\ remaining' = remaining \ {r}
            \/ UNCHANGED <<claim, remaining>>
    BY DEF MatchFuzzily
<1>2. stage = "fuzzy" /\ UNCHANGED <<stage, books, statement, total, used>>
    BY DEF MatchFuzzily
<1>3. i \in DOMAIN claim /\ claim[i] = 0 /\ DOMAIN claim' = DOMAIN claim
    BY <1>1 DEF MatchInv, TodoIsUnclaimed
<1>4. \A j \in DOMAIN claim : j # i => claim'[j] = claim[j]
    BY <1>1
<1>5. InvoicesHaveKeys' /\ TodoIsUnclaimed' /\ ExactPass'
    BY <1>1, <1>2, <1>3, <1>4 DEF MatchInv, InvoicesHaveKeys, TodoIsUnclaimed, ExactPass
<1>6. \A j \in DOMAIN claim : RecordsOf(j)' = RecordsOf(j)
    BY <1>2 DEF RecordsOf
<1>7. remaining' \subseteq remaining
    BY <1>1
<1>8. \A j \in DOMAIN claim : j # i =>
         /\ ClaimedByKey(j) => ClaimedByKey(j)'
         /\ ClaimedByNumber(j) => ClaimedByNumber(j)'
    BY <1>2, <1>4, <1>6, <1>7 DEF ClaimedByKey, ClaimedByNumber
<1>a. UsedAreClaimed' /\ InvoicesAreBooked' /\ BooksAreTyped'
    <2>1. \A j \in DOMAIN claim : ClaimedByKey(j) => ClaimedByKey(j)'
        BY <1>3, <1>8 DEF MatchInv, ClaimedByKey, IsFirst, RecordsOf
    <2>2. UsedAreClaimed'
        BY <1>2, <1>3, <2>1 DEF MatchInv, UsedAreClaimed
    <2> QED
        BY <1>2, <1>3, <2>2 DEF MatchInv, InvoicesAreBooked, BooksAreTyped
<1>9. CASE UNCHANGED <<claim, remaining>>
    <2>1. FuzzyPass'
        BY <1>2, <1>6, <1>9 DEF MatchInv, FuzzyPass, ClaimedByKey, ClaimedByNumber
    <2>2. NumbersAreApart'
        BY <1>2, <1>6, <1>9 DEF MatchInv, NumbersAreApart, ClaimedByNumber
    <2> QED
        BY <1>2, <1>5, <1>a, <2>1, <2>2 DEF MatchInv
<1>10. ASSUME NEW r \in Candidates(i), claim' = [claim EXCEPT ![i] = r],
              remaining' = remaining \ {r}
       PROVE  MatchInv'
    <2>1. r \in remaining /\ r \in DOMAIN statement /\ statement[r].key \notin used
        BY <1>2, <1>10 DEF Candidates, MatchInv, FuzzyPass
    <2>2. RecordsOf(i) = {}
        BY <1>2, <1>3 DEF MatchInv, FuzzyPass, ClaimedByKey, ClaimedByNumber, RecordsOf, IsFirst
    <2>3. ClaimedByNumber(i)'
        BY <1>2, <1>3, <1>6, <1>10, <2>1, <2>2 DEF ClaimedByNumber
    <2>4. FuzzyPass'
        <3>1. \A j \in DOMAIN claim :
                \/ ClaimedByKey(j)'
                \/ ClaimedByNumber(j)'
                \/ claim'[j] = 0 /\ RecordsOf(j)' = {}
            <4> SUFFICES ASSUME NEW j \in DOMAIN claim, j # i
                         PROVE  \/ ClaimedByKey(j)'
                                \/ ClaimedByNumber(j)'
                                \/ claim'[j] = 0 /\ RecordsOf(j)' = {}
                BY <2>3
            <4>1. ClaimedByKey(j) \/ ClaimedByNumber(j) \/ (claim[j] = 0 /\ RecordsOf(j) = {})
                BY <1>2 DEF MatchInv, FuzzyPass
            <4> QED
                BY <1>4, <1>6, <1>8, <4>1
        <3>2. remaining' = {s \in DOMAIN statement : /\ statement[s].key \notin used
                                                     /\ \A j \in DOMAIN claim : claim'[j] # s}
            <4>1. remaining = {s \in DOMAIN statement : /\ statement[s].key \notin used
                                                         /\ \A j \in DOMAIN claim : claim[j] # s}
                BY <1>2 DEF MatchInv, FuzzyPass
            <4>2. claim'[i] = r /\ claim[i] = 0 /\ 0 \notin DOMAIN statement
                BY <1>3, <1>10 DEF MatchInv
            <4> QED
                BY <1>3, <1>4, <1>10, <4>1, <4>2
        <3> QED
            BY <1>2, <1>3, <3>1, <3>2 DEF FuzzyPass
    <2>5. \A j \in DOMAIN claim : j # i /\ ClaimedByNumber(j)' => claim'[j] # r
        <3> SUFFICES ASSUME NEW j \in DOMAIN claim, j # i, ClaimedByNumber(j)', claim'[j] = r
                     PROVE  FALSE
            OBVIOUS
        <3>1. RecordsOf(j) = {} /\ claim[j] = r
            BY <1>4, <1>6 DEF ClaimedByNumber
        <3>2. ClaimedByNumber(j) \/ claim[j] = 0
            BY <1>2, <3>1 DEF MatchInv, FuzzyPass, ClaimedByKey, IsFirst
        <3>3. CASE ClaimedByNumber(j)
            BY <2>1, <3>1, <3>3 DEF ClaimedByNumber
        <3>4. CASE claim[j] = 0
            BY <3>1, <3>4, <2>1 DEF MatchInv
        <3> QED
            BY <3>2, <3>3, <3>4
    <2>6. NumbersAreApart'
        BY <1>2, <1>3, <1>4, <1>6, <1>7, <1>10, <2>5
        DEF MatchInv, NumbersAreApart, ClaimedByNumber
    <2> QED
        BY <1>2, <1>5, <1>a, <2>4, <2>6 DEF MatchInv
<1> QED
    BY <1>1, <1>9, <1>10

\* Every step preserves the invariant.
LEMMA MatchStepPreserves == MatchInv /\ [MatchNext]_matchVars => MatchInv'
<1> SUFFICES ASSUME MatchInv, [MatchNext]_matchVars PROVE MatchInv'
    OBVIOUS
<1>1. ASSUME UNCHANGED <<books, statement, total, todo, used, remaining, claim>>,
             \/ stage' = stage
             \/ stage \in {"fuzzy", "done"} /\ stage' \in {"done", "annotated"}
      PROVE  MatchInv'
    <2>1. \A i \in DOMAIN claim : /\ RecordsOf(i)' = RecordsOf(i)
                                 /\ ClaimedByKey(i)' = ClaimedByKey(i)
                                 /\ ClaimedByNumber(i)' = ClaimedByNumber(i)
        BY <1>1 DEF ClaimedByKey, ClaimedByNumber, RecordsOf
    <2>2. ExactPass' /\ FuzzyPass' /\ UsedAreClaimed'
        BY <1>1, <2>1 DEF MatchInv, ExactPass, FuzzyPass, UsedAreClaimed
    <2>3. stage' \in {"fuzzy", "done", "annotated"} => NumbersAreApart'
        BY <1>1, <2>1 DEF MatchInv, NumbersAreApart
    <2>4. InvoicesHaveKeys' /\ TodoIsUnclaimed' /\ InvoicesAreBooked' /\ BooksAreTyped'
        BY <1>1 DEF MatchInv, InvoicesHaveKeys, TodoIsUnclaimed, InvoicesAreBooked, BooksAreTyped
    <2> QED
        BY <1>1, <2>2, <2>3, <2>4 DEF MatchInv
<1>2. CASE UNCHANGED matchVars \/ EndPasses \/ Annotate
    BY <1>1, <1>2 DEF matchVars, EndPasses, Annotate
<1>3. ASSUME NEW b \in Books, NEW raw \in Statements,
             \/ ReconcileRequest(b, raw) \/ ReconcileBatch(b, raw) \/ ReconcileReview(b, raw)
      PROVE  MatchInv'
    <2>1. Start(Items(b), Parsed(raw))
        BY <1>3 DEF ReconcileRequest, ReconcileBatch, ReconcileReview
    <2> QED
        BY <2>1, PositionsOfInput, StartPreserves
<1> QED
    BY <1>2, <1>3, ExactPreserves, BeginFuzzyPreserves, FuzzyPreserves DEF MatchNext

\* The invariant holds in every reachable state.
THEOREM MatchIsSound == MatchSpec => []MatchInv
BY MatchInitEstablishes, MatchStepPreserves, PTL DEF MatchSpec

\* No two invoices of the books share a 2B record, and the record of one
\* invoice's own key is not given to another (reconcile, both passes).
THEOREM ClaimsExclusive == MatchSpec => []ClaimsAreExclusive
BY MatchIsSound, ClaimsAreApart, PTL

-----------------------------------------------------------------------------
(* Every record and every rupee has its place in the result.               *)

\* When reconcile returns, a record is matched, an extra row, or a repeat.
LEMMA RecordsHaveTheirPlace ==
    ASSUME MatchInv, stage \in {"done", "annotated"}, NEW r \in DOMAIN statement
    PROVE  LET claimed == \E i \in DOMAIN claim : claim[i] = r
               repeat  == \E i \in DOMAIN claim : /\ claim[i] \in 1..r - 1
                                                /\ statement[r].key = books[i].key
                                                /\ statement[r].key = statement[claim[i]].key
           IN  /\ r \in remaining <=> ~claimed /\ ~repeat
               /\ ~(claimed /\ repeat)
<1> DEFINE claimed == \E i \in DOMAIN claim : claim[i] = r
           repeat  == \E i \in DOMAIN claim : /\ claim[i] \in 1..r - 1
                                            /\ statement[r].key = books[i].key
                                            /\ statement[r].key = statement[claim[i]].key
<1>1. r \in Nat \ {0} /\ \A i \in DOMAIN claim : claim[i] # 0 =>
          (ClaimedByKey(i) \/ ClaimedByNumber(i)) /\ claim[i] \in DOMAIN statement
    BY DEF MatchInv, FuzzyPass, ClaimedByKey, ClaimedByNumber, IsFirst, RecordsOf
<1>2. r \in remaining <=> statement[r].key \notin used /\ ~claimed
    BY DEF MatchInv, FuzzyPass
\* The invoice that a repeat points to was matched by its key.
<1>3. ASSUME NEW i \in DOMAIN claim, claim[i] \in 1..r - 1,
             statement[r].key = books[i].key, statement[r].key = statement[claim[i]].key
      PROVE  ClaimedByKey(i) /\ statement[r].key \in used
    <2>1. claim[i] \in RecordsOf(i)
        BY <1>1, <1>3 DEF RecordsOf
    <2>2. ClaimedByKey(i)
        BY <1>1, <1>3, <2>1 DEF ClaimedByNumber
    <2> QED
        BY <1>3, <2>2 DEF ClaimedByKey
<1>4. ~claimed /\ ~repeat => statement[r].key \notin used
    <2> SUFFICES ASSUME ~claimed, statement[r].key \in used PROVE repeat
        OBVIOUS
    <2>1. PICK i \in DOMAIN claim : books[i].key = statement[r].key /\ ClaimedByKey(i)
        BY DEF MatchInv, UsedAreClaimed
    <2>2. r \in RecordsOf(i) /\ claim[i] # r
        BY <2>1 DEF RecordsOf
    <2>3. claim[i] \in RecordsOf(i) /\ claim[i] <= r
        BY <2>1, <2>2 DEF ClaimedByKey, IsFirst
    <2>4. claim[i] \in Nat \ {0} /\ statement[claim[i]].key = books[i].key
        BY <2>3 DEF RecordsOf, MatchInv
    <2>5. claim[i] \in 1..r - 1
        BY <1>1, <2>2, <2>3, <2>4
    <2> QED
        BY <2>1, <2>4, <2>5
<1>5. ~(claimed /\ repeat)
    <2> SUFFICES ASSUME NEW i \in DOMAIN claim, claim[i] = r,
                        NEW j \in DOMAIN claim, claim[j] \in 1..r - 1,
                        statement[r].key = books[j].key, statement[r].key = statement[claim[j]].key
                 PROVE  FALSE
        OBVIOUS
    <2>1. statement[r].key \in used
        BY <1>3
    <2>2. ClaimedByKey(i)
        BY <1>1, <2>1 DEF ClaimedByNumber
    <2>3. books[i].key = books[j].key
        BY <2>2 DEF ClaimedByKey, IsFirst, RecordsOf
    <2>4. i = j
        BY <2>3 DEF MatchInv, InvoicesHaveKeys
    <2> QED
        BY <1>1, <2>4
<1>6. repeat => statement[r].key \in used
    BY <1>3
<1> QED
    BY <1>2, <1>4, <1>5, <1>6

\* The lines of the books fall apart into the rows of the three kinds.
LEMMA RowsOfTheBooks ==
    ASSUME BooksAreTyped
    PROVE  /\ IsFiniteSet(DOMAIN books) /\ Cardinality(DOMAIN books) = Len(books)
           /\ DOMAIN books = BookRows("matched") \cup BookRows("mismatch") \cup BookRows("missing_in_2b")
           /\ BookRows("matched") \cap BookRows("mismatch") = {}
           /\ (BookRows("matched") \cup BookRows("mismatch")) \cap BookRows("missing_in_2b") = {}
           /\ \A s \in {"matched", "mismatch", "missing_in_2b"} : IsFiniteSet(BookRows(s))
<1>1. IsFiniteSet(DOMAIN books) /\ Cardinality(DOMAIN books) = Len(books)
    <2>1. 1 \in Int /\ Len(books) \in Int /\ Len(books) - 1 + 1 = Len(books)
          /\ Len(books) < 1 => Len(books) = 0
        BY DEF BooksAreTyped
    <2>2. IsFiniteSet(1..Len(books)) /\ Cardinality(1..Len(books)) = Len(books)
        BY <2>1, FS_Interval
    <2> QED
        BY <2>2 DEF BooksAreTyped
<1>2. \A l \in DOMAIN books : RowStatus(l) \in {"matched", "mismatch", "missing_in_2b"}
    BY DEF RowStatus
<1>3. \A s : BookRows(s) \subseteq DOMAIN books
    BY DEF BookRows
<1> QED
    BY <1>1, <1>2, <1>3, FS_Subset DEF BookRows

\* Every line of the books belongs to the invoice of its key.
LEMMA LinesHaveInvoices ==
    ASSUME BooksAreTyped, NEW l \in DOMAIN books
    PROVE  \E i \in Invoices(books) : \A j \in Invoices(books) : books[l].key = books[j].key <=> j = i
<1> DEFINE N == {n \in DOMAIN books : books[n].key = books[l].key}
<1>1. N \subseteq Nat /\ N # {}
    BY DEF BooksAreTyped
<1>2. PICK i \in N : \A n \in N : i <= n
    BY <1>1, LeastNumber
<1>3. i \in Invoices(books) /\ books[l].key = books[i].key
    BY <1>2 DEF Invoices, BooksAreTyped
<1>4. DOMAIN books \subseteq Nat \ {0}
    BY DEF BooksAreTyped
<1> QED
    BY <1>3, <1>4, KeysAreDistinct

\* The invoices' totals add up to the lines.
LEMMA InvoicesAddUpToLines ==
    ASSUME BooksAreTyped, total = [i \in Invoices(books) |-> Amount(books, LinesOf(books, i))]
    PROVE  SumFunction(total) =
               SumFunctionOnSet([l \in DOMAIN books |-> books[l].amount], DOMAIN books)
<1> DEFINE f == [l \in DOMAIN books |-> books[l].amount]
           K == Invoices(books)
<1>1. IsFiniteSet(DOMAIN books) /\ \A l \in DOMAIN books : f[l] \in Int
    BY RowsOfTheBooks DEF BooksAreTyped
<1>2. IsFiniteSet(K)
    BY <1>1, FS_Subset DEF Invoices
<1>3. \A l \in DOMAIN books : \E i \in K : \A j \in K : books[l].key = books[j].key <=> j = i
    BY LinesHaveInvoices
<1> DEFINE part == [i \in K |-> LinesOf(books, i)]
<1>4. /\ \A i \in K : part[i] \subseteq DOMAIN books /\ total[i] = SumFunctionOnSet(f, part[i])
      /\ \A i \in K : \A l \in DOMAIN books : l \in part[i] <=> books[l].key = books[i].key
    BY DEF Amount, LinesOf
<1> DEFINE D == DOMAIN books
<1>5. /\ IsFiniteSet(D) /\ \A l \in D : f[l] \in Int
      /\ \A i \in K : part[i] \subseteq D /\ total[i] = SumFunctionOnSet(f, part[i])
      /\ \A l \in D : \E i \in K : l \in part[i]
      /\ \A i, j \in K : \A l \in D : l \in part[i] /\ l \in part[j] => i = j
    <2> HIDE DEF f, K, part
    <2> QED
        BY <1>1, <1>3, <1>4
<1> HIDE DEF D, f, K, part
<1>6. SumFunctionOnSet(total, K) = SumFunctionOnSet(f, D)
    BY <1>2, <1>5, SumByGroups
<1>7. DOMAIN total = K
    BY DEF K
<1> QED
    BY <1>6, <1>7 DEF SumFunction, f, D

\* What is matched and what is at risk are the lines of the books.
LEMMA WorthOfTheRows ==
    ASSUME BooksAreTyped, \A l \in DOMAIN books : books[l].amount # 0
    PROVE  Summary.matched + Summary.atRisk =
               SumFunctionOnSet([l \in DOMAIN books |-> books[l].amount], DOMAIN books)
<1> DEFINE f == [l \in DOMAIN books |-> Counted(l)]
           h == [l \in DOMAIN books |-> books[l].amount]
           worth(s) == SumFunctionOnSet(f, BookRows(s))
           A == BookRows("matched")
           B == BookRows("mismatch")
           C == BookRows("missing_in_2b")
<1>1. \A l \in DOMAIN books : f[l] = h[l] /\ f[l] \in Int
    BY DEF Counted, BooksAreTyped
<1>2. /\ IsFiniteSet(A) /\ IsFiniteSet(B) /\ IsFiniteSet(C) /\ IsFiniteSet(A \cup B)
      /\ IsFiniteSet(DOMAIN books) /\ DOMAIN books = (A \cup B) \cup C
      /\ A \cap B = {} /\ (A \cup B) \cap C = {}
    BY RowsOfTheBooks, FS_Union
<1>3. Summary.matched + Summary.atRisk = worth("matched") + (worth("missing_in_2b") + worth("mismatch"))
    BY DEF Summary
<1> HIDE DEF f, A, B, C
<1>4. SumFunctionOnSet(f, A \cup B) = SumFunctionOnSet(f, A) + SumFunctionOnSet(f, B)
    BY <1>1, <1>2, SumOverUnion
<1>5. SumFunctionOnSet(f, (A \cup B) \cup C) = SumFunctionOnSet(f, A \cup B) + SumFunctionOnSet(f, C)
    BY <1>1, <1>2, SumOverUnion
<1>6. /\ SumFunctionOnSet(f, A) \in Int /\ SumFunctionOnSet(f, B) \in Int
      /\ SumFunctionOnSet(f, C) \in Int
    BY <1>1, <1>2, SumTakes
<1>7. SumFunctionOnSet(f, DOMAIN books) = SumFunctionOnSet(h, DOMAIN books)
    <2> HIDE DEF h
    <2> QED
        BY <1>1, <1>2, SumAgrees
<1>8. worth("matched") = SumFunctionOnSet(f, A) /\ worth("mismatch") = SumFunctionOnSet(f, B)
      /\ worth("missing_in_2b") = SumFunctionOnSet(f, C)
    BY DEF A, B, C
<1> HIDE DEF worth, h
<1>9. Summary.matched + Summary.atRisk = SumFunctionOnSet(f, DOMAIN books)
    BY <1>2, <1>3, <1>4, <1>5, <1>6, <1>8
<1> QED
    BY <1>7, <1>9 DEF h

\* The counts of the three kinds add up to the lines.
LEMMA CountsOfTheRows ==
    ASSUME BooksAreTyped
    PROVE  Summary.totalRows = SumFunction(Summary.counts) + Cardinality(remaining)
<1> DEFINE T == {"matched", "mismatch", "missing_in_2b"}
           c == [s \in T |-> Cardinality(BookRows(s))]
<1>1. /\ c["matched"] \in Nat /\ c["mismatch"] \in Nat /\ c["missing_in_2b"] \in Nat
      /\ Len(books) = c["matched"] + c["mismatch"] + c["missing_in_2b"]
    <2> DEFINE A == BookRows("matched")
               B == BookRows("mismatch")
               D == BookRows("missing_in_2b")
    <2>1. /\ IsFiniteSet(A) /\ IsFiniteSet(B) /\ IsFiniteSet(D)
          /\ Cardinality(DOMAIN books) = Len(books)
          /\ DOMAIN books = (A \cup B) \cup D /\ A \cap B = {} /\ (A \cup B) \cap D = {}
        BY RowsOfTheBooks
    <2>2. c["matched"] = Cardinality(A) /\ c["mismatch"] = Cardinality(B)
          /\ c["missing_in_2b"] = Cardinality(D)
        OBVIOUS
    <2> HIDE DEF A, B, D, c
    <2>3. IsFiniteSet(A \cup B) /\ Cardinality(A \cup B) = Cardinality(A) + Cardinality(B)
        BY <2>1, DisjointSetsAddUp
    <2>4. Cardinality((A \cup B) \cup D) = Cardinality(A \cup B) + Cardinality(D)
        BY <2>1, <2>3, DisjointSetsAddUp
    <2>5. Cardinality(A) \in Nat /\ Cardinality(B) \in Nat /\ Cardinality(D) \in Nat
        BY <2>1, FS_CardinalityType
    <2> QED
        BY <2>1, <2>2, <2>3, <2>4, <2>5
<1>2. Summary.counts = c /\ DOMAIN c = T /\ Summary.totalRows = Len(books) + Cardinality(remaining)
    BY DEF Summary
<1> HIDE DEF c
<1>3. \A S : S \subseteq T => IsFiniteSet(S) /\ \A s \in S : c[s] \in Int
    <2>1. IsFiniteSet({"matched"}) /\ IsFiniteSet({"mismatch"}) /\ IsFiniteSet({"missing_in_2b"})
        BY FS_Singleton
    <2>2. IsFiniteSet({"matched"} \cup {"mismatch"})
        BY <2>1, FS_Union
    <2>3. IsFiniteSet(({"matched"} \cup {"mismatch"}) \cup {"missing_in_2b"})
        BY <2>1, <2>2, FS_Union
    <2>4. T = ({"matched"} \cup {"mismatch"}) \cup {"missing_in_2b"}
        OBVIOUS
    <2>5. IsFiniteSet(T)
        BY <2>3, <2>4
    <2>6. \A s \in T : c[s] \in Int
        BY <1>1
    <2> HIDE DEF T
    <2> QED
        BY <2>5, <2>6, FS_Subset
<1>4. SumFunctionOnSet(c, T) = c["matched"] + SumFunctionOnSet(c, {"mismatch", "missing_in_2b"})
    <2>1. T \ {"matched"} = {"mismatch", "missing_in_2b"} /\ "matched" \in T
        OBVIOUS
    <2> HIDE DEF T
    <2> QED
        BY <1>3, <2>1, SumTakes
<1>5. SumFunctionOnSet(c, {"mismatch", "missing_in_2b"}) = c["mismatch"] + SumFunctionOnSet(c, {"missing_in_2b"})
    <2> DEFINE U == {"mismatch", "missing_in_2b"}
    <2>1. U \ {"mismatch"} = {"missing_in_2b"} /\ "mismatch" \in U /\ U \subseteq T
        OBVIOUS
    <2> HIDE DEF T, U
    <2>2. SumFunctionOnSet(c, U) = c["mismatch"] + SumFunctionOnSet(c, {"missing_in_2b"})
        BY <1>3, <2>1, SumTakes
    <2> QED
        BY <2>2 DEF U
<1>6. SumFunctionOnSet(c, {"missing_in_2b"}) = c["missing_in_2b"] + 0
    <2>1. {"missing_in_2b"} \ {"missing_in_2b"} = {}
        OBVIOUS
    <2> QED
        BY <1>3, <2>1, SumTakes
<1>7. SumFunction(c) = c["matched"] + (c["mismatch"] + (c["missing_in_2b"] + 0))
    BY <1>2, <1>4, <1>5, <1>6 DEF SumFunction
<1> QED
    BY <1>1, <1>2, <1>7

\* Nothing of the statement or of the books is lost by the two passes, and
\* the ITC of the summary is the total of the books (reconcile and
\* _build_summary).
THEOREM NothingIsLost == MatchSpec => []NothingUnaccounted
<1>1. MatchInv => NothingUnaccounted
    <2> SUFFICES ASSUME MatchInv, stage \in {"done", "annotated"}
                 PROVE  NothingUnaccounted
        BY DEF NothingUnaccounted
    <2>1. BooksAreTyped /\ total = [i \in Invoices(books) |-> Amount(books, LinesOf(books, i))]
        BY DEF MatchInv, InvoicesAreBooked
    <2>2. (\A l \in DOMAIN books : books[l].amount # 0) =>
              Summary.matched + Summary.atRisk = SumFunction(total)
        BY <2>1, InvoicesAddUpToLines, WorthOfTheRows
    <2>3. Summary.totalRows = SumFunction(Summary.counts) + Cardinality(remaining)
        BY <2>1, CountsOfTheRows
    <2> QED
        BY <2>2, <2>3, RecordsHaveTheirPlace DEF NothingUnaccounted
<1> QED
    BY <1>1, MatchIsSound, PTL
-----------------------------------------------------------------------------
(* The month's close.  Lines, plans and gap files are typed, and a review  *)
(* is of the lines it was made of (CloseInv); while an ingestion is whole, *)
(* the first rows of the sheet are stored in their places, and what is     *)
(* planned fits the rest (WholeInv).                                       *)

\* A function from 1..n is a sequence of its values.
LEMMA CountedFromOne ==
    ASSUME NEW n \in Nat, NEW s, DOMAIN s = 1..n, s = [i \in DOMAIN s |-> s[i]]
    PROVE  s \in Seq(Range(s)) /\ Len(s) = n
<1>1. s \in [1..n -> Range(s)]
    BY DEF Range
<1> QED
    BY <1>1

\* Elements of sequences, appended ones, and what is left after the first.
LEMMA SequencesHaveElements ==
    ASSUME NEW s, s \in Seq(Range(s))
    PROVE  /\ Len(s) \in Nat /\ DOMAIN s = 1..Len(s) /\ IsFiniteSet(DOMAIN s)
           /\ \A i \in DOMAIN s : s[i] \in Range(s)
           /\ \A x \in Range(s) : \E i \in DOMAIN s : x = s[i]
<1>1. Len(s) \in Nat
    BY LenProperties
<1>2. DOMAIN s = 1..Len(s)
    BY LenProperties
<1>3. IsFiniteSet(1..Len(s))
    BY <1>1, FS_Interval
<1> QED
    BY <1>1, <1>2, <1>3 DEF Range

\* Two sequences joined have the elements of both.
LEMMA SequencesAreJoined ==
    ASSUME NEW s, s \in Seq(Range(s)), NEW t, t \in Seq(Range(t))
    PROVE  s \o t \in Seq(Range(s \o t)) /\ Range(s \o t) = Range(s) \cup Range(t)
<1> DEFINE R == Range(s) \cup Range(t)
<1>1. s \in Seq(R) /\ t \in Seq(R)
    BY SeqMonotonic
<1> HIDE DEF R
<1>2. s \o t \in Seq(R) /\ Range(s \o t) = Range(s) \cup Range(t)
    BY <1>1, ConcatProperties, RangeConcatenation
<1> QED
    BY <1>2, SeqOfRange

\* What is left of a sequence has elements of it.
LEMMA SequencesLoseTheirHead ==
    ASSUME NEW s, s \in Seq(Range(s)), s # <<>>
    PROVE  /\ Head(s) \in Range(s) /\ Tail(s) \in Seq(Range(Tail(s)))
           /\ Range(Tail(s)) \subseteq Range(s)
<1>1. Head(s) \in Range(s) /\ Tail(s) \in Seq(Range(s))
    BY HeadTailProperties
<1>2. Range(Tail(s)) \in SUBSET Range(s)
    BY <1>1, RangeOfSeq
<1> QED
    BY <1>1, <1>2, SeqOfRange

\* An appended element is one more.
LEMMA SequencesAreAppended ==
    ASSUME NEW s, s \in Seq(Range(s)), NEW x
    PROVE  /\ Append(s, x) \in Seq(Range(Append(s, x)))
           /\ Range(Append(s, x)) = Range(s) \cup {x}
<1> DEFINE R == Range(s) \cup {x}
<1>1. s \in Seq(R) /\ x \in R
    BY SeqMonotonic
<1> HIDE DEF R
<1>2. Append(s, x) = s \o <<x>>
    BY <1>1, AppendIsConcat
<1>3. Range(<<x>>) = {x}
    BY DEF Range
<1>4. <<x>> \in Seq({x})
    OBVIOUS
<1> DEFINE t == <<x>>
<1>5. t \in Seq(Range(t)) /\ Range(t) = {x} /\ Append(s, x) = s \o t
    BY <1>2, <1>3, <1>4
<1> HIDE DEF t
<1> QED
    BY <1>5, SequencesAreJoined
-----------------------------------------------------------------------------
\* The first and the last position of a set.
LEMMA FirstAndLast ==
    ASSUME NEW n \in Nat, NEW T, T \subseteq 1..n, T # {}
    PROVE  /\ Latest(T) \in T /\ \A j \in T : j <= Latest(T)
           /\ Earliest(T) \in T /\ \A j \in T : Earliest(T) <= j
<1>0. T \subseteq Nat /\ \A i \in T : n - i \in Nat
    OBVIOUS
<1>1. \E i \in T : \A j \in T : i <= j
    BY <1>0, LeastNumber
<1>2. \E i \in T : \A j \in T : j <= i
    <2> DEFINE N == {n - i : i \in T}
    <2>1. N \subseteq Nat /\ N # {}
        BY <1>0
    <2> HIDE DEF N
    <2>2. PICK m \in N : \A k \in N : m <= k
        BY <2>1, LeastNumber
    <2>3. PICK i \in T : m = n - i
        BY <2>2 DEF N
    <2>4. ASSUME NEW j \in T PROVE j <= i
        <3>1. n - i <= n - j
            BY <2>2, <2>3 DEF N
        <3> QED
            BY <3>1
    <2> QED
        BY <2>4
<1> QED
    BY <1>1, <1>2 DEF Earliest, Latest

Keeping(s, g, T) == IF T = {} THEN <<>> ELSE Append(g[T \ {Latest(T)}], s[Latest(T)])

\* The function that keeps the elements at each set of positions exists.
LEMMA KeepingExists ==
    ASSUME NEW s, NEW n \in Nat, NEW S, S \subseteq 1..n
    PROVE  \E g : g = [T \in SUBSET S |-> Keeping(s, g, T)]
<1>0. IsFiniteSet(S)
    <2>1. IsFiniteSet(1..n)
        BY FS_Interval
    <2> QED
        BY <2>1, FS_Subset
<1> DEFINE Good(T) == \E g : /\ g = [V \in SUBSET S |-> g[V]]
                             /\ \A V \in SUBSET S : Cardinality(V) <= Cardinality(T) => g[V] = Keeping(s, g, V)
           P == {T \in SUBSET S : Good(T)}
<1>1. ASSUME NEW T \in SUBSET S, \A U \in SUBSET T : U # T => U \in P
      PROVE  Good(T)
    <2>1. CASE T = {}
        <3> DEFINE g == [V \in SUBSET S |-> <<>>]
        <3>1. ASSUME NEW V \in SUBSET S, Cardinality(V) <= Cardinality(T)
              PROVE  g[V] = Keeping(s, g, V)
            <4>1. IsFiniteSet(V) /\ Cardinality(V) \in Nat /\ Cardinality(T) = 0
                BY <1>0, <2>1, FS_EmptySet, FS_Subset, FS_CardinalityType
            <4>2. V = {}
                BY <3>1, <4>1, FS_EmptySet
            <4> QED
                BY <4>2 DEF Keeping
        <3> QED
            BY <3>1
    <2>2. CASE T # {}
        <3> DEFINE U == T \ {Latest(T)}
        <3>1. Latest(T) \in T
            BY <2>2, FirstAndLast
        <3>2. Cardinality(U) = Cardinality(T) - 1 /\ Cardinality(T) \in Nat
            BY <1>0, <3>1, FS_RemoveElement, FS_Subset, FS_CardinalityType
        <3>3. U \in P
            BY <1>1, <3>1
        <3>4. PICK g : /\ g = [V \in SUBSET S |-> g[V]]
                       /\ \A V \in SUBSET S : Cardinality(V) <= Cardinality(U) => g[V] = Keeping(s, g, V)
            BY <3>3
        <3> HIDE DEF P, Good, U
        <3> DEFINE h == [V \in SUBSET S |-> IF Cardinality(V) <= Cardinality(U) THEN g[V] ELSE Keeping(s, g, V)]
        <3>5. ASSUME NEW V \in SUBSET S, Cardinality(V) <= Cardinality(T)
              PROVE  h[V] = Keeping(s, h, V)
            <4>1. CASE V = {}
                BY <1>0, <3>4, <4>1, FS_EmptySet DEF Keeping
            <4>2. CASE V # {}
                <5>1. Latest(V) \in V
                    BY <4>2, FirstAndLast
                <5>2. Cardinality(V \ {Latest(V)}) = Cardinality(V) - 1 /\ Cardinality(V) \in Nat
                    BY <1>0, <5>1, FS_RemoveElement, FS_Subset, FS_CardinalityType
                <5>3. h[V \ {Latest(V)}] = g[V \ {Latest(V)}]
                    <6>1. V \ {Latest(V)} \in SUBSET S
                        OBVIOUS
                    <6>2. Cardinality(V \ {Latest(V)}) <= Cardinality(U)
                        BY <3>2, <3>5, <5>2
                    <6> QED
                        BY <6>1, <6>2
                <5>4. h[V] = Keeping(s, g, V)
                    BY <3>4
                <5> QED
                    BY <4>2, <5>3, <5>4 DEF Keeping
            <4> QED
                BY <4>1, <4>2
        <3>6. h = [V \in SUBSET S |-> h[V]]
            OBVIOUS
        <3> HIDE DEF h
        <3> QED
            BY <3>5, <3>6 DEF Good
    <2> QED
        BY <2>1, <2>2
<1> HIDE DEF Good
<1>2. \A T \in SUBSET S : (\A U \in SUBSET T : U # T => U \in P) => T \in P
    BY <1>1
<1>3. S \in P
    <2> HIDE DEF P
    <2> QED BY <1>0, <1>2, SmallestFirst
<1>4. PICK g : /\ g = [T \in SUBSET S |-> g[T]]
               /\ \A T \in SUBSET S : Cardinality(T) <= Cardinality(S) => g[T] = Keeping(s, g, T)
    BY <1>3 DEF Good
<1>5. \A T \in SUBSET S : g[T] = Keeping(s, g, T)
    BY <1>0, <1>4, FS_Subset
<1> QED
    BY <1>4, <1>5

\* Kept is a sequence, and its elements are those at the positions kept.
LEMMA KeptIsASelection ==
    ASSUME NEW s, s \in Seq(Range(s)), NEW S, S \subseteq DOMAIN s
    PROVE  /\ Kept(s, S) \in Seq(Range(Kept(s, S)))
           /\ \A x \in Range(Kept(s, S)) : \E i \in S : x = s[i]
           /\ \A i \in S : s[i] \in Range(Kept(s, S))
<1> DEFINE g == CHOOSE h : h = [T \in SUBSET S |-> Keeping(s, h, T)]
<1>0. Len(s) \in Nat /\ S \subseteq 1..Len(s) /\ IsFiniteSet(S)
    BY SequencesHaveElements, FS_Subset
<1>1. g = [T \in SUBSET S |-> Keeping(s, g, T)]
    BY <1>0, KeepingExists
<1>2. Kept(s, S) = g[S]
    BY DEF Kept, MapThenFoldSet, Keeping
<1> HIDE DEF g
<1> DEFINE Right(T) == /\ g[T] \in Seq(Range(g[T]))
                       /\ \A x \in Range(g[T]) : \E i \in T : x = s[i]
                       /\ \A i \in T : s[i] \in Range(g[T])
           P == {T \in SUBSET S : Right(T)}
<1>3. ASSUME NEW T \in SUBSET S, \A U \in SUBSET T : U # T => U \in P
      PROVE  Right(T)
    <2>0. g[T] = Keeping(s, g, T)
        BY <1>1
    <2>1. CASE T = {}
        <3>1. g[T] = <<>> /\ Range(<<>>) = {}
            BY <2>0, <2>1 DEF Keeping, Range
        <3> QED
            BY <2>1, <3>1
    <2>2. CASE T # {}
        <3>1. Latest(T) \in T
            BY <1>0, <2>2, FirstAndLast
        <3> DEFINE l == Latest(T)
                   U == T \ {l}
        <3>2. Right(U)
            BY <1>3, <3>1
        <3>3. g[T] = Append(g[U], s[l])
            BY <2>0, <2>2 DEF Keeping
        <3> HIDE DEF l
        <3>4. Range(g[T]) = Range(g[U]) \cup {s[l]} /\ g[T] \in Seq(Range(g[T]))
            BY <3>2, <3>3, SequencesAreAppended
        <3> QED
            BY <3>1, <3>2, <3>4 DEF l
    <2> QED
        BY <2>1, <2>2
<1> HIDE DEF Right
<1>4. \A T \in SUBSET S : (\A U \in SUBSET T : U # T => U \in P) => T \in P
    BY <1>3
<1>5. S \in P
    <2> HIDE DEF P
    <2> QED BY <1>0, <1>4, SmallestFirst
<1> QED
    BY <1>2, <1>5 DEF Right
-----------------------------------------------------------------------------
(* What is stored, planned and left to store.                              *)

IsSequence(s) == s \in Seq(Range(s))
IsBook(s)   == IsSequence(s) /\ \A l \in Range(s) : IsLine(l)
IsRead(r) == r.no # NoNumber /\ Strip(r.no) = r.no /\ r.note # "untyped"
IsParsed(s) == IsSequence(s) /\ \A r \in Range(s) : IsRow(r) /\ IsRead(r)
IsPlan(s)   == IsSequence(s) /\ \A b \in Range(s) : IsBook(b)
ArePdfs(s)  == IsSequence(s) /\ \A p \in Range(s) : IsLine(p.line)

CloseInv ==
    /\ IsBook(stored) /\ IsParsed(sheet) /\ IsPlan(plan) /\ ArePdfs(gaps)
    /\ phase # "reviewed" => filings = <<>>
    /\ phase = "reviewed" => /\ entries = ReconcilePeriod(stored, sheet)
                             /\ filings = Filings(stored, entries)

\* What may be stored, the sheets and the PDFs are as CloseConstants says.
LEMMA InputsAreTyped ==
    /\ \A s \in StoredSales : IsBook(s)
    /\ \A s \in Sheets : IsSequence(s) /\ \A r \in Range(s) : IsRow(r)
    /\ \A s \in PdfSets : ArePdfs(s)
<1>1. ASSUME NEW X, X \subseteq Seq(Elements(X)), NEW s \in X
      PROVE  IsSequence(s) /\ \A l \in Range(s) : l \in Elements(X)
    <2>1. s \in Seq(Elements(X))
        BY <1>1
    <2>2. s \in Seq(Range(s)) /\ Range(s) \in SUBSET Elements(X)
        BY <2>1, SeqOfRange, RangeOfSeq
    <2> QED
        BY <2>2 DEF IsSequence
<1> QED
    BY <1>1, CloseConstants DEF IsBook, ArePdfs

\* A number is stripped once.
LEMMA StripIsIdempotent ==
    ASSUME NEW no, IsNumber(no)
    PROVE  /\ IsNumber(Strip(no)) /\ Strip(Strip(no)) = Strip(no)
           /\ Strip(no) = NoNumber <=> no = NoNumber
<1>1. CASE no = NoNumber
    BY <1>1 DEF IsNumber, Strip
<1>2. CASE no # NoNumber
    <2>1. Strip(no) # NoNumber /\ Strip(no) = [no EXCEPT !.blanks = FALSE]
        BY <1>2 DEF IsNumber, Strip
    <2>2. [[no EXCEPT !.blanks = FALSE] EXCEPT !.blanks = FALSE] = [no EXCEPT !.blanks = FALSE]
        OBVIOUS
    <2>3. Strip(Strip(no)) = Strip(no)
        BY <2>1, <2>2 DEF Strip
    <2> QED
        BY <1>2, <2>1, <2>3 DEF IsNumber
<1> QED
    BY <1>1, <1>2

\* A parsed sheet has rows with a number and a type.
LEMMA ParsedRows ==
    ASSUME NEW raw, IsSequence(raw), \A r \in Range(raw) : IsRow(r)
    PROVE  IsParsed(Parse(raw))
<1> DEFINE S == {i \in DOMAIN raw : raw[i].no # NoNumber /\ raw[i].note # "untyped"}
           kept == Kept(raw, S)
           p == [i \in DOMAIN kept |-> [kept[i] EXCEPT !.no = Strip(@)]]
<1>1. kept \in Seq(Range(kept)) /\ \A x \in Range(kept) : \E i \in S : x = raw[i]
    BY KeptIsASelection DEF IsSequence
<1>2. \A i \in S : raw[i] \in Range(raw)
    BY SequencesHaveElements DEF IsSequence
<1>3. Parse(raw) = p
    BY DEF Parse
<1> HIDE DEF kept
<1>4. Len(kept) \in Nat /\ DOMAIN kept = 1..Len(kept) /\ \A i \in DOMAIN kept : kept[i] \in Range(kept)
    BY <1>1, SequencesHaveElements
<1>5. p \in Seq(Range(p))
    BY <1>4, CountedFromOne
<1>6. ASSUME NEW i \in DOMAIN p
      PROVE  IsRow(p[i]) /\ IsRead(p[i])
    <2> DEFINE r == kept[i]
    <2>1. IsRow(r) /\ r.no # NoNumber /\ r.note # "untyped"
        BY <1>1, <1>2, <1>4
    <2>2. p[i] = [r EXCEPT !.no = Strip(@)]
        OBVIOUS
    <2> HIDE DEF r
    <2>3. /\ DOMAIN p[i] = DOMAIN r /\ p[i].no = Strip(r.no) /\ p[i].note = r.note
          /\ p[i].sections = r.sections
          /\ \A f \in {"taxable", "igst", "cgst", "sgst", "total"} : p[i][f] = r[f]
        BY <2>1, <2>2 DEF IsRow, HasAmounts
    <2>4. IsNumber(Strip(r.no)) /\ Strip(r.no) # NoNumber /\ Strip(Strip(r.no)) = Strip(r.no)
        BY <2>1, StripIsIdempotent DEF IsRow
    <2> HIDE DEF p
    <2> QED
        BY <2>1, <2>3, <2>4 DEF IsRow, IsRead, HasAmounts
<1>7. \A x \in Range(p) : \E i \in DOMAIN p : x = p[i]
    BY <1>5, SequencesHaveElements
<1> HIDE DEF p
<1> QED
    BY <1>3, <1>5, <1>6, <1>7 DEF IsParsed, IsSequence

\* A sum of amounts, some of them positive and none negative, is positive.
LEMMA SumIsPositive ==
    ASSUME NEW f, NEW S, IsFiniteSet(S), S # {}, \A x \in S : f[x] \in Int /\ f[x] > 0
    PROVE  SumFunctionOnSet(f, S) > 0
<1> DEFINE P == {T \in SUBSET S : SumFunctionOnSet(f, T) >= 0}
<1>1. ASSUME NEW T \in SUBSET S, \A U \in SUBSET T : U # T => U \in P
      PROVE  SumFunctionOnSet(f, T) >= 0 /\ (T # {} => SumFunctionOnSet(f, T) > 0)
    <2>0. IsFiniteSet(T) /\ \A x \in T : f[x] \in Int
        BY FS_Subset
    <2>1. SumFunctionOnSet(f, {}) = 0
        BY <2>0, SumTakes
    <2>2. ASSUME NEW x \in T PROVE SumFunctionOnSet(f, T) > 0
        <3>1. T \ {x} \in P
            BY <1>1
        <3>2. SumFunctionOnSet(f, T) = f[x] + SumFunctionOnSet(f, T \ {x})
            BY <2>0, SumTakes
        <3>3. IsFiniteSet(T \ {x}) /\ \A y \in T \ {x} : f[y] \in Int
            BY <2>0, FS_Subset
        <3>4. SumFunctionOnSet(f, T \ {x}) \in Int
            BY <3>3, SumTakes
        <3> QED
            BY <3>1, <3>2, <3>4
    <2>3. CASE T = {}
        BY <2>1, <2>3
    <2>4. CASE T # {}
        <3>1. SumFunctionOnSet(f, T) > 0 /\ SumFunctionOnSet(f, T) \in Int
            BY <2>0, <2>2, <2>4, SumTakes
        <3> QED
            BY <3>1
    <2> QED
        BY <2>3, <2>4
<1>2. S \in P
    <2>1. \A T \in SUBSET S : (\A U \in SUBSET T : U # T => U \in P) => T \in P
        BY <1>1
    <2> HIDE DEF P
    <2> QED
        BY <2>1, SmallestFirst
<1>3. \A U \in SUBSET S : U \in P
    <2>1. \A T \in SUBSET S : (\A U \in SUBSET T : U # T => U \in P) => T \in P
        BY <1>1
    <2> HIDE DEF P
    <2> QED
        BY <2>1, SmallestFirst
<1> QED
    BY <1>1, <1>3

\* The shares of a tax are integers.
LEMMA SharesAreIntegers ==
    ASSUME NEW tax \in Int, NEW n \in Nat, NEW buckets, buckets \in Seq(Range(buckets)),
           Len(buckets) = n, \A i \in 1..n : buckets[i].amount \in Int /\ buckets[i].amount > 0
    PROVE  \A i \in 1..n : Shares(tax, buckets)[i] \in Int
<1> DEFINE f == [i \in 1..n |-> buckets[i].amount]
           all == SumFunctionOnSet(f, 1..n)
           h == [j \in 1..n - 1 |-> Nearest(tax * buckets[j].amount, all)]
<1>1. IsFiniteSet(1..n) /\ IsFiniteSet(1..n - 1)
    <2>1. 1 \in Int /\ n \in Int /\ n - 1 \in Int
        OBVIOUS
    <2>2. IsFiniteSet(1..n)
        BY <2>1, FS_Interval
    <2>3. IsFiniteSet(1..n - 1)
        BY <2>1, FS_Interval
    <2> QED
        BY <2>2, <2>3
<1>2. ASSUME n # 0 PROVE all \in Int /\ all > 0
    <2>1. 1 \in 1..n
        BY <1>2
    <2>2. \A i \in 1..n : f[i] \in Int /\ f[i] > 0
        OBVIOUS
    <2> HIDE DEF f
    <2> QED
        BY <1>1, <2>1, <2>2, SumIsPositive, SumTakes
<1>3. ASSUME NEW i \in 1..n PROVE Nearest(tax * buckets[i].amount, all) \in Int
    <2>1. all \in Int /\ all > 0
        BY <1>2
    <2>2. tax * buckets[i].amount \in Int
        OBVIOUS
    <2> HIDE DEF all
    <2>3. \A a, b \in Int : b > 0 => (2 * a + b) \div (2 * b) \in Int
        OBVIOUS
    <2> QED
        BY <2>1, <2>2, <2>3 DEF Nearest
<1>4. SumFunctionOnSet(h, 1..n - 1) \in Int
    <2>1. \A j \in 1..n - 1 : h[j] \in Int
        BY <1>3
    <2> HIDE DEF h
    <2> QED
        BY <1>1, <2>1, SumTakes
<1>5. /\ SumFunction(f) = all /\ SumFunction(h) = SumFunctionOnSet(h, 1..n - 1)
    BY DEF SumFunction
<1>6. Shares(tax, buckets) = [i \in 1..n |-> IF i < n THEN Nearest(tax * buckets[i].amount, all)
                                             ELSE tax - SumFunction(h)]
    BY <1>5 DEF Shares
<1> HIDE DEF all, h
<1> QED
    BY <1>3, <1>4, <1>5, <1>6

\* A row becomes lines.
LEMMA RowsBecomeLines ==
    ASSUME NEW row, IsRow(row), row.note # "untyped"
    PROVE  IsBook(SheetLines(row))
<1> DEFINE S == {i \in DOMAIN row.sections : row.sections[i].amount > 0}
           buckets == Kept(row.sections, S)
           igst == Shares(row.igst, buckets)
           cgst == Shares(row.cgst, buckets)
           sgst == Shares(row.sgst, buckets)
           many == [i \in DOMAIN buckets |->
                        [RowLine(row) EXCEPT
                           !.hsn = buckets[i].hsn, !.taxable = buckets[i].amount,
                           !.igst = igst[i], !.cgst = cgst[i], !.sgst = sgst[i],
                           !.total = buckets[i].amount + igst[i] + cgst[i] + sgst[i]]]
<1>1. buckets \in Seq(Range(buckets)) /\ \A x \in Range(buckets) : \E i \in S : x = row.sections[i]
    BY KeptIsASelection DEF IsRow
<1>2. \A i \in S : row.sections[i] \in Range(row.sections) /\ row.sections[i].amount > 0
    BY SequencesHaveElements DEF IsRow
<1>3. SheetLines(row) = IF row.note # "none" \/ buckets = <<>> THEN <<RowLine(row)>> ELSE many
    BY DEF SheetLines
<1> HIDE DEF S, buckets
<1>4. Len(buckets) \in Nat /\ DOMAIN buckets = 1..Len(buckets)
      /\ \A i \in DOMAIN buckets : buckets[i].amount \in Int /\ buckets[i].amount > 0
    BY <1>1, <1>2, SequencesHaveElements DEF IsRow
<1>5. /\ row.no = RowLine(row).no /\ IsNumber(row.no) /\ HasAmounts(row)
      /\ row.note \in {"none", "credit", "debit"}
    BY DEF IsRow, RowLine
<1>6. \A i \in DOMAIN buckets : igst[i] \in Int /\ cgst[i] \in Int /\ sgst[i] \in Int
    <2>1. row.igst \in Int /\ row.cgst \in Int /\ row.sgst \in Int
        BY <1>5 DEF HasAmounts
    <2> QED
        BY <1>1, <1>4, <2>1, SharesAreIntegers
<1> HIDE DEF igst, cgst, sgst
<1>7. IsLine(RowLine(row))
    BY <1>5 DEF IsLine, HasAmounts, RowLine
<1>8. ASSUME NEW i \in DOMAIN buckets PROVE IsLine(many[i])
    <2>1. buckets[i].amount + igst[i] + cgst[i] + sgst[i] \in Int
        BY <1>4, <1>6
    <2> QED
        BY <1>4, <1>5, <1>6, <2>1 DEF IsLine, HasAmounts, RowLine
<1>9. many \in Seq(Range(many))
    BY <1>4, CountedFromOne
<1>10. IsBook(many)
    <2>1. DOMAIN many = DOMAIN buckets
        OBVIOUS
    <2> HIDE DEF many
    <2> QED
        BY <1>8, <1>9, <2>1, SequencesHaveElements DEF IsBook, IsSequence
<1> DEFINE one == <<RowLine(row)>>
<1>11. IsBook(one)
    <2>1. one \in Seq({RowLine(row)})
        OBVIOUS
    <2> HIDE DEF one
    <2>2. one \in Seq(Range(one)) /\ Range(one) \in SUBSET {RowLine(row)}
        BY <2>1, SeqOfRange, RangeOfSeq
    <2> QED
        BY <1>7, <2>2 DEF IsBook, IsSequence
<1> QED
    BY <1>3, <1>10, <1>11

\* A group is a row's lines, or the line of its PDF.
LEMMA GroupsAreLines ==
    ASSUME NEW row, IsRow(row), row.note # "untyped", NEW pdfs, ArePdfs(pdfs)
    PROVE  IsBook(GroupOf(row, pdfs))
<1> DEFINE found == NotesOf(row, pdfs)
           pdf == pdfs[Earliest(found)]
           line == [pdf.line EXCEPT !.note = row.note, !.party = row.party, !.pos = row.pos]
<1>1. CASE row.note # "none" /\ found # {} /\ pdf.text = "credit_note"
    <2>1. Len(pdfs) \in Nat /\ found \subseteq 1..Len(pdfs)
        BY SequencesHaveElements DEF ArePdfs, IsSequence, NotesOf
    <2> HIDE DEF found
    <2>2. Earliest(found) \in found
        BY <1>1, <2>1, FirstAndLast
    <2>3. IsLine(pdf.line)
        BY <2>1, <2>2, SequencesHaveElements DEF ArePdfs, IsSequence
    <2>4. row.note \in {"none", "credit", "debit"}
        BY DEF IsRow
    <2> HIDE DEF pdf
    <2>5. /\ DOMAIN line = DOMAIN pdf.line /\ line.no = pdf.line.no /\ line.note = row.note
          /\ \A f \in {"taxable", "igst", "cgst", "sgst", "total"} : line[f] = pdf.line[f]
        BY <2>3 DEF IsLine, HasAmounts
    <2> HIDE DEF line
    <2>6. IsLine(line)
        BY <2>3, <2>4, <2>5 DEF IsLine, HasAmounts
    <2>7. <<line>> \in Seq({line})
        OBVIOUS
    <2>8. <<line>> \in Seq(Range(<<line>>)) /\ Range(<<line>>) \in SUBSET {line}
        BY <2>7, SeqOfRange, RangeOfSeq
    <2>9. GroupOf(row, pdfs) = <<line>>
        BY <1>1 DEF GroupOf, found, pdf, line
    <2> QED
        BY <2>6, <2>8, <2>9 DEF IsBook, IsSequence
<1>2. CASE ~(row.note # "none" /\ found # {} /\ pdf.text = "credit_note")
    BY <1>2, RowsBecomeLines DEF GroupOf
<1> QED
    BY <1>1, <1>2
-----------------------------------------------------------------------------
\* The invariant holds initially.
LEMMA CloseStarts == CloseInit => CloseInv
<1> DEFINE none == <<>>
<1>1. none \in Seq(Range(none)) /\ Range(none) = {}
    BY DEF Range
<1> HIDE DEF none
<1>2. IsParsed(none) /\ IsPlan(none) /\ ArePdfs(none)
    BY <1>1 DEF IsParsed, IsPlan, ArePdfs, IsSequence
<1>3. CloseInit => stored \in StoredSales /\ sheet = none /\ plan = none /\ gaps = none
                   /\ filings = none /\ phase = "open"
    BY DEF CloseInit, none
<1> QED
    BY <1>2, <1>3, InputsAreTyped DEF CloseInv, none

\* An ingestion starts with a parsed sheet, a plan of lines and its gap files.
LEMMA SheetFirstKeeps ==
    ASSUME CloseInv, NEW raw \in Sheets, NEW pdfs \in PdfSets, SheetFirst(raw, pdfs)
    PROVE  CloseInv'
<1>1. ArePdfs(pdfs) /\ IsParsed(sheet')
    BY InputsAreTyped, ParsedRows DEF SheetFirst
<1>2. IsPlan(plan')
    <2> DEFINE p == [i \in DOMAIN sheet' |-> GroupOf(sheet'[i], pdfs)]
    <2>1. Len(sheet') \in Nat /\ DOMAIN sheet' = 1..Len(sheet') /\ \A i \in DOMAIN sheet' : sheet'[i] \in Range(sheet')
        BY <1>1, SequencesHaveElements DEF IsParsed, IsSequence
    <2>2. \A i \in DOMAIN sheet' : IsBook(p[i])
        BY <1>1, <2>1, GroupsAreLines DEF IsParsed, IsRead
    <2>3. p \in Seq(Range(p))
        BY <2>1, CountedFromOne
    <2>4. plan' = p /\ DOMAIN p = DOMAIN sheet'
        BY DEF SheetFirst
    <2> HIDE DEF p
    <2> QED
        BY <2>2, <2>3, <2>4, SequencesHaveElements DEF IsPlan, IsSequence
<1>3. ArePdfs(gaps')
    <2> DEFINE S == {n \in DOMAIN pdfs : \/ pdfs[n].text = "unreadable"
                                         \/ pdfs[n].line.no \notin {sheet'[i].no : i \in DOMAIN sheet'}}
    <2>1. gaps' = Kept(pdfs, S)
        BY DEF SheetFirst, GapFiles
    <2>2. S \subseteq DOMAIN pdfs
        OBVIOUS
    <2> HIDE DEF S
    <2>3. gaps' \in Seq(Range(gaps')) /\ \A x \in Range(gaps') : \E i \in S : x = pdfs[i]
        BY <1>1, <2>1, <2>2, KeptIsASelection DEF ArePdfs, IsSequence
    <2> QED
        BY <1>1, <2>2, <2>3, SequencesHaveElements DEF ArePdfs, IsSequence
<1>4. stored' = stored /\ phase' = "storing" /\ filings' = <<>>
    BY DEF SheetFirst
<1> QED
    BY <1>1, <1>2, <1>3, <1>4 DEF CloseInv

\* A document's lines are stored as planned.
LEMMA StoreDocumentKeeps ==
    ASSUME CloseInv, StoreDocument
    PROVE  CloseInv'
<1>1. /\ IsSequence(plan) /\ plan # <<>> /\ IsBook(stored) /\ \A b \in Range(plan) : IsBook(b)
      /\ stored' = stored \o Head(plan) /\ plan' = Tail(plan)
    BY DEF CloseInv, IsPlan, StoreDocument
<1>2. Head(plan) \in Range(plan) /\ IsSequence(plan') /\ Range(plan') \subseteq Range(plan)
    BY <1>1, SequencesLoseTheirHead DEF IsSequence
<1>3. IsPlan(plan')
    BY <1>1, <1>2 DEF IsPlan
<1>4. IsSequence(stored') /\ Range(stored') = Range(stored) \cup Range(Head(plan))
    BY <1>1, <1>2, SequencesAreJoined DEF IsBook, IsSequence
<1>5. IsBook(stored')
    BY <1>1, <1>2, <1>4 DEF IsBook
<1>6. UNCHANGED <<phase, sheet, gaps, filings, entries>> /\ phase = "storing"
    BY DEF StoreDocument
<1> QED
    BY <1>3, <1>5, <1>6 DEF CloseInv

\* A gap file adds a line, or nothing.
LEMMA StoreGapKeeps ==
    ASSUME CloseInv, StoreGap
    PROVE  CloseInv'
<1> DEFINE pdf  == Head(gaps)
           note == [pdf.line EXCEPT !.note = "credit", !.party = PartyOf(pdf.line.against)]
<1>1. IsSequence(gaps) /\ gaps # <<>> /\ IsBook(stored) /\ gaps' = Tail(gaps)
      /\ \A p \in Range(gaps) : IsLine(p.line)
    BY DEF CloseInv, ArePdfs, StoreGap
<1>2. pdf \in Range(gaps) /\ IsSequence(gaps') /\ Range(gaps') \subseteq Range(gaps)
    BY <1>1, SequencesLoseTheirHead DEF IsSequence
<1>3. ArePdfs(gaps')
    BY <1>1, <1>2 DEF ArePdfs
<1>4. stored' \in {stored, Append(stored, pdf.line), Append(stored, note)}
    BY DEF StoreGap
<1> HIDE DEF pdf
<1>5. IsLine(pdf.line)
    BY <1>1, <1>2
<1>6. IsLine(note)
    <2>1. /\ DOMAIN note = DOMAIN pdf.line /\ note.no = pdf.line.no /\ note.note = "credit"
          /\ \A f \in {"taxable", "igst", "cgst", "sgst", "total"} : note[f] = pdf.line[f]
        BY <1>5 DEF IsLine, HasAmounts
    <2> HIDE DEF note
    <2> QED
        BY <1>5, <2>1 DEF IsLine, HasAmounts
<1> HIDE DEF note
<1>7. ASSUME NEW l, IsLine(l) PROVE IsBook(Append(stored, l))
    <2>1. IsSequence(Append(stored, l)) /\ Range(Append(stored, l)) = Range(stored) \cup {l}
        BY <1>1, SequencesAreAppended DEF IsBook, IsSequence
    <2> QED
        BY <1>1, <1>7, <2>1 DEF IsBook
<1>8. IsBook(stored')
    BY <1>1, <1>4, <1>5, <1>6, <1>7
<1>9. UNCHANGED <<phase, sheet, plan, filings, entries>> /\ phase = "storing"
    BY DEF StoreGap
<1> QED
    BY <1>3, <1>8, <1>9 DEF CloseInv

\* A review keeps what it compared and filed.
LEMMA GenerateReviewKeeps ==
    ASSUME CloseInv, NEW raw \in Sheets, GenerateReview(raw)
    PROVE  CloseInv'
<1>1. IsParsed(sheet')
    BY InputsAreTyped, ParsedRows DEF GenerateReview
<1>2. /\ UNCHANGED <<stored, plan, gaps>> /\ phase' = "reviewed"
      /\ entries' = ReconcilePeriod(stored, sheet') /\ filings' = Filings(stored, entries')
    BY DEF GenerateReview
<1> QED
    BY <1>1, <1>2 DEF CloseInv

\* Every step preserves the invariant.
LEMMA CloseContinues == CloseInv /\ [CloseNext]_closeVars => CloseInv'
<1> SUFFICES ASSUME CloseInv, [CloseNext]_closeVars PROVE CloseInv'
    OBVIOUS
<1>1. ASSUME NEW raw \in Sheets, NEW pdfs \in PdfSets, SheetFirst(raw, pdfs) PROVE CloseInv'
    BY <1>1, SheetFirstKeeps
<1>2. ASSUME NEW raw \in Sheets, GenerateReview(raw) PROVE CloseInv'
    BY <1>2, GenerateReviewKeeps
<1>3. CASE StoreDocument
    BY <1>3, StoreDocumentKeeps
<1>4. CASE StoreGap
    BY <1>4, StoreGapKeeps
<1>5. CASE EndIngestion
    BY <1>5 DEF CloseInv, EndIngestion
<1>6. CASE AbortIngestion
    <2> DEFINE none == <<>>
    <2>1. none \in Seq(Range(none)) /\ Range(none) = {}
        BY DEF Range
    <2>2. plan' = none /\ gaps' = none /\ UNCHANGED <<stored, sheet, entries, filings>>
          /\ phase = "storing" /\ phase' = "open"
        BY <1>6 DEF AbortIngestion
    <2> HIDE DEF none
    <2>3. IsPlan(plan') /\ ArePdfs(gaps')
        BY <2>1, <2>2 DEF IsPlan, ArePdfs, IsSequence
    <2> QED
        BY <2>2, <2>3 DEF CloseInv
<1>7. CASE UNCHANGED closeVars
    BY <1>7 DEF CloseInv, closeVars
<1> QED
    BY <1>1, <1>2, <1>3, <1>4, <1>5, <1>6, <1>7 DEF CloseNext

\* Stored lines, plans and gap files are typed in every reachable state, and
\* a review's entries and filings are those of the lines it was made of.
THEOREM ReviewsAreOfTheirLines == CloseSpec => []CloseInv
<1> QED
    BY CloseStarts, CloseContinues, PTL DEF CloseSpec
-----------------------------------------------------------------------------
(* What lines are worth, and the sections they are grouped in.             *)

Worths(lines) == [i \in DOMAIN lines |-> lines[i].taxable]
WorthOf(lines, R) == SumFunctionOnSet(Worths(lines), R)
OfCategory(lines, S, c) == {i \in S : Category(lines[i]) = c}
Documents(lines, S, c) == {k \in Groups(lines, S) : k.cat = c}

\* Lines have amounts, kinds and numbers, and there are finitely many.
LEMMA LinesAreTyped ==
    ASSUME NEW lines, IsBook(lines)
    PROVE  /\ Len(lines) \in Nat /\ DOMAIN lines = 1..Len(lines) /\ IsFiniteSet(DOMAIN lines)
           /\ \A i \in DOMAIN lines : IsLine(lines[i])
           /\ \A i \in DOMAIN lines : Worths(lines)[i] = lines[i].taxable /\ lines[i].taxable \in Int
<1>1. IsSequence(lines) /\ \A l \in Range(lines) : IsLine(l)
    BY DEF IsBook
<1>2. Len(lines) \in Nat /\ DOMAIN lines = 1..Len(lines) /\ IsFiniteSet(DOMAIN lines)
      /\ \A i \in DOMAIN lines : lines[i] \in Range(lines)
    BY <1>1, SequencesHaveElements DEF IsSequence
<1>3. \A i \in DOMAIN lines : IsLine(lines[i])
    BY <1>1, <1>2
<1> QED
    BY <1>2, <1>3 DEF Worths, IsLine, HasAmounts

\* Sums of the worths of lines are integers, and do not depend on the domain
\* of the function that is summed.
LEMMA WorthsAddUp ==
    ASSUME NEW lines, IsBook(lines), NEW R \in SUBSET DOMAIN lines
    PROVE  /\ IsFiniteSet(R) /\ WorthOf(lines, R) \in Int
           /\ Total([i \in R |-> lines[i].taxable], R) = WorthOf(lines, R)
           /\ WorthOf(lines, {}) = 0
           /\ \A x \in R : WorthOf(lines, R) = lines[x].taxable + WorthOf(lines, R \ {x})
<1> DEFINE f == Worths(lines)
           h == [i \in R |-> lines[i].taxable]
<1>1. IsFiniteSet(R) /\ \A x \in R : f[x] \in Int /\ f[x] = h[x] /\ f[x] = lines[x].taxable
    BY LinesAreTyped, FS_Subset
<1> HIDE DEF f, h
<1>2. SumFunctionOnSet(f, R) = SumFunctionOnSet(h, R)
    BY <1>1, SumAgrees
<1>3. SumFunctionOnSet(f, R) \in Int /\ SumFunctionOnSet(f, {}) = 0
      /\ \A x \in R : SumFunctionOnSet(f, R) = f[x] + SumFunctionOnSet(f, R \ {x})
    BY <1>1, SumTakes
<1> QED
    BY <1>1, <1>2, <1>3 DEF WorthOf, Total, f, h

\* The values of a function on a finite set are finitely many.
LEMMA ImagesAreFinite ==
    ASSUME NEW S, IsFiniteSet(S), NEW f, DOMAIN f = S, f = [x \in S |-> f[x]]
    PROVE  /\ IsFiniteSet({f[x] : x \in S}) /\ Cardinality({f[x] : x \in S}) \in Nat
           /\ Cardinality({f[x] : x \in S}) <= Cardinality(S)
           /\ (\A x, y \in S : f[x] = f[y] => x = y) => Cardinality({f[x] : x \in S}) = Cardinality(S)
<1> DEFINE T == {f[x] : x \in S}
<1>1. f \in [S -> T] /\ \A t \in T : \E s \in S : f[s] = t
    OBVIOUS
<1> HIDE DEF T
<1>2. f \in Surjection(S, T)
    BY <1>1 DEF Surjection
<1>3. (\A x, y \in S : f[x] = f[y] => x = y) => f \in Injection(S, T)
    BY <1>1 DEF Injection, IsInjective
<1>4. IsFiniteSet(T) /\ Cardinality(T) <= Cardinality(S)
      /\ (f \in Injection(S, T) => Cardinality(T) = Cardinality(S))
    BY <1>2, FS_Surjection
<1>5. Cardinality(T) \in Nat
    BY <1>4, FS_CardinalityType
<1> QED
    BY <1>3, <1>4, <1>5 DEF T

\* The documents of some lines.
LEMMA GroupsOfLines ==
    ASSUME NEW lines, IsBook(lines), NEW S \in SUBSET DOMAIN lines
    PROVE  /\ IsFiniteSet(Groups(lines, S))
           /\ \A i \in S : /\ GroupKey(lines[i]) \in Groups(lines, S)
                           /\ GroupKey(lines[i]).cat = Category(lines[i])
           /\ \A k \in Groups(lines, S) : RowsOf(lines, S, k) # {} /\ RowsOf(lines, S, k) \subseteq S
<1> DEFINE f == [i \in S |-> GroupKey(lines[i])]
<1>1. IsFiniteSet(S)
    BY WorthsAddUp
<1>2. IsFiniteSet({f[i] : i \in S})
    BY <1>1, ImagesAreFinite
<1>3. Groups(lines, S) = {f[i] : i \in S}
    BY DEF Groups
<1> QED
    BY <1>2, <1>3 DEF Groups, RowsOf, GroupKey

\* A document is worth its lines.
LEMMA DocumentsAreWorthTheirLines ==
    ASSUME NEW lines, IsBook(lines), NEW R \in SUBSET DOMAIN lines
    PROVE  InvoiceTotals(lines, R).taxable = WorthOf(lines, R)
<1>1. InvoiceTotals(lines, R).taxable = Total([i \in R |-> lines[i].taxable], R)
    BY DEF InvoiceTotals
<1> QED
    BY <1>1, WorthsAddUp

\* The documents of a category together are worth the lines of the category.
LEMMA CategoriesCarryTheirLines ==
    ASSUME NEW lines, IsBook(lines), NEW S \in SUBSET DOMAIN lines, NEW c, NEW F,
           \A k \in Groups(lines, S) : k.cat = c => F[k] = WorthOf(lines, RowsOf(lines, S, k))
    PROVE  SumFunctionOnSet(F, Documents(lines, S, c)) =
               WorthOf(lines, OfCategory(lines, S, c))
<1> DEFINE f == Worths(lines)
           X == OfCategory(lines, S, c)
           K == Documents(lines, S, c)
           part == [k \in K |-> RowsOf(lines, S, k)]
<1>1. X \in SUBSET DOMAIN lines /\ K \in SUBSET Groups(lines, S)
    BY DEF OfCategory, Documents
<1>0. IsFiniteSet(K)
    BY <1>1, GroupsOfLines, FS_Subset
<1>2. IsFiniteSet(X) /\ \A x \in X : f[x] \in Int
    BY <1>1, WorthsAddUp, LinesAreTyped
<1>3. \A i \in S : GroupKey(lines[i]) \in Groups(lines, S) /\ GroupKey(lines[i]).cat = Category(lines[i])
    BY GroupsOfLines
<1>4. \A k \in K : /\ F[k] = SumFunctionOnSet(f, part[k])
                   /\ part[k] = {i \in S : GroupKey(lines[i]) = k}
    BY DEF WorthOf, RowsOf, Documents
<1>5. /\ \A k \in K : part[k] \subseteq X
      /\ \A x \in X : \E k \in K : x \in part[k]
      /\ \A k, l \in K : \A x \in X : x \in part[k] /\ x \in part[l] => k = l
    BY <1>3, <1>4 DEF OfCategory, Documents
<1> HIDE DEF f, X, K, part
<1>6. SumFunctionOnSet(F, K) = SumFunctionOnSet(f, X)
    BY <1>0, <1>2, <1>4, <1>5, SumByGroups
<1> QED
    BY <1>6 DEF WorthOf, f, X, K

\* So a section has the worth of the lines of its category ...
LEMMA SectionsCarryTheirLines ==
    ASSUME NEW lines, IsBook(lines), NEW S \in SUBSET DOMAIN lines, NEW c
    PROVE  SumFunction([k \in DOMAIN Section(lines, S, c) |-> Section(lines, S, c)[k].taxable]) =
               WorthOf(lines, OfCategory(lines, S, c))
<1> DEFINE K == Documents(lines, S, c)
           s == Section(lines, S, c)
           F == [k \in DOMAIN s |-> s[k].taxable]
<1>1. DOMAIN s = K
    BY DEF Section, Documents
<1>2. ASSUME NEW k \in K PROVE F[k] = WorthOf(lines, RowsOf(lines, S, k))
    <2> DEFINE t == InvoiceTotals(lines, RowsOf(lines, S, k))
    <2>1. s[k] = [t EXCEPT !.cgst = IF c = "B2CL" THEN 0 ELSE @, !.sgst = IF c = "B2CL" THEN 0 ELSE @]
        BY <1>1 DEF Section, Documents
    <2>2. s[k].taxable = t.taxable
        BY <2>1 DEF InvoiceTotals
    <2>3. RowsOf(lines, S, k) \in SUBSET DOMAIN lines
        BY DEF RowsOf
    <2>4. t.taxable = WorthOf(lines, RowsOf(lines, S, k))
        BY <2>3, DocumentsAreWorthTheirLines
    <2> QED
        BY <1>1, <2>2, <2>4
<1>3. DOMAIN F = K
    BY <1>1
<1> HIDE DEF F
<1>4. SumFunctionOnSet(F, K) = WorthOf(lines, OfCategory(lines, S, c))
    <2>1. \A k \in Groups(lines, S) : k.cat = c => F[k] = WorthOf(lines, RowsOf(lines, S, k))
        BY <1>2 DEF Documents
    <2> QED
        BY <2>1, CategoriesCarryTheirLines
<1> QED
    BY <1>3, <1>4 DEF SumFunction, F

\* ... b2cs too, whose entries stand for several documents ...
LEMMA B2csCarriesItsLines ==
    ASSUME NEW lines, IsBook(lines), NEW S \in SUBSET DOMAIN lines, NEW firm
    PROVE  SumFunction(B2cs(lines, S, firm)) = WorthOf(lines, OfCategory(lines, S, "B2CS"))
<1> DEFINE K == Documents(lines, S, "B2CS")
           key == [k \in K |-> B2csKey(lines, S, k, firm)]
           B == {key[k] : k \in K}
           amount == [k \in K |-> InvoiceTotals(lines, RowsOf(lines, S, k)).taxable]
           F == B2cs(lines, S, firm)
<1>1. IsFiniteSet(K)
    BY GroupsOfLines, FS_Subset DEF Documents
<1>2. IsFiniteSet(B)
    BY <1>1, ImagesAreFinite
<1>3. ASSUME NEW k \in K PROVE amount[k] = WorthOf(lines, RowsOf(lines, S, k)) /\ amount[k] \in Int
    <2>1. RowsOf(lines, S, k) \in SUBSET DOMAIN lines
        BY DEF RowsOf
    <2>2. /\ InvoiceTotals(lines, RowsOf(lines, S, k)).taxable = WorthOf(lines, RowsOf(lines, S, k))
          /\ WorthOf(lines, RowsOf(lines, S, k)) \in Int
        BY <2>1, DocumentsAreWorthTheirLines, WorthsAddUp
    <2> QED
        BY <2>2
<1> DEFINE part == [b \in B |-> {k \in K : B2csKey(lines, S, k, firm) = b}]
<1>4. DOMAIN F = B /\ \A b \in B : F[b] = SumFunctionOnSet(amount, part[b])
    BY DEF B2cs, Total, Documents
<1>5. /\ \A b \in B : part[b] \subseteq K
      /\ \A k \in K : \E b \in B : k \in part[b]
      /\ \A a, b \in B : \A k \in K : k \in part[a] /\ k \in part[b] => a = b
    OBVIOUS
<1> HIDE DEF K, key, B, part, amount, F
<1>6. SumFunctionOnSet(F, B) = SumFunctionOnSet(amount, K)
    BY <1>1, <1>2, <1>3, <1>4, <1>5, SumByGroups
<1>7. SumFunctionOnSet(amount, K) = WorthOf(lines, OfCategory(lines, S, "B2CS"))
    <2>1. \A k \in Groups(lines, S) : k.cat = "B2CS" => amount[k] = WorthOf(lines, RowsOf(lines, S, k))
        BY <1>3 DEF Documents, K
    <2> QED
        BY <2>1, CategoriesCarryTheirLines DEF K
<1> QED
    BY <1>4, <1>6, <1>7 DEF SumFunction, F

\* ... and nil, which goes by the stored category.
LEMMA NilCarriesItsLines ==
    ASSUME NEW lines, IsBook(lines), NEW S \in SUBSET DOMAIN lines
    PROVE  Nil(lines, S).intra + Nil(lines, S).inter =
               WorthOf(lines, {i \in S : lines[i].cat \in NilCategories})
<1> DEFINE rows == {i \in S : lines[i].cat \in NilCategories}
           here == {i \in rows : PosOfRow(lines[i], EnvState) = EnvState}
           away == rows \ here
           f == Worths(lines)
<1>1. rows \in SUBSET DOMAIN lines /\ here \in SUBSET DOMAIN lines /\ away \in SUBSET DOMAIN lines
    OBVIOUS
<1>2. Nil(lines, S).intra = WorthOf(lines, here) /\ Nil(lines, S).inter = WorthOf(lines, away)
    <2>1. Nil(lines, S).intra = Total([i \in here |-> lines[i].taxable], here)
        BY DEF Nil
    <2>2. Nil(lines, S).inter = Total([i \in away |-> lines[i].taxable], away)
        BY DEF Nil
    <2> HIDE DEF here, away
    <2> QED
        BY <1>1, <2>1, <2>2, WorthsAddUp
<1>3. here \cap away = {} /\ here \cup away = rows
    OBVIOUS
<1> HIDE DEF rows, here, away, f
<1>4. IsFiniteSet(here) /\ IsFiniteSet(away) /\ \A x \in here \cup away : f[x] \in Int
    BY <1>1, WorthsAddUp, LinesAreTyped DEF f
<1>5. SumFunctionOnSet(f, here \cup away) = SumFunctionOnSet(f, here) + SumFunctionOnSet(f, away)
    BY <1>3, <1>4, SumOverUnion
<1> QED
    BY <1>2, <1>3, <1>5 DEF WorthOf, f, rows
-----------------------------------------------------------------------------
(* Where the lines of a filing stand.                                      *)

NilRows(lines, S)  == {i \in S : lines[i].cat \in NilCategories}
Unplaced(lines, S) == {i \in S : Category(lines[i]) \notin Placed}
NilNotes(lines, S) == {i \in S : lines[i].note # "none" /\ lines[i].cat \in NilCategories}
TakenForNotes(lines, S) ==
    {i \in S : lines[i].note = "none" /\ Category(lines[i]) \in {"CDNR", "CDNUR"}}
Signed(lines) == [i \in DOMAIN lines |-> Sign(lines[i]) * lines[i].taxable]

\* A line stands in its section or in none, a nil-rated note in two, and a
\* sale taken for a note with the wrong sign.
LEMMA PlaceOfALine ==
    ASSUME NEW lines, IsBook(lines), NEW S \in SUBSET DOMAIN lines, NEW x \in S, NEW w \in Int,
           NEW in, \A A \in SUBSET S : in[A] = IF x \in A THEN w ELSE 0
    PROVE  Sign(lines[x]) * w + in[NilNotes(lines, S)] - in[Unplaced(lines, S)]
               - 2 * in[TakenForNotes(lines, S)] =
           in[OfCategory(lines, S, "B2B")] + in[OfCategory(lines, S, "B2CL")]
           + in[OfCategory(lines, S, "EXP")] + in[OfCategory(lines, S, "B2CS")]
           + in[NilRows(lines, S)]
           - in[OfCategory(lines, S, "CDNR")] - in[OfCategory(lines, S, "CDNUR")]
<1> DEFINE c == Category(lines[x])
           here(C) == IF c = C THEN w ELSE 0
           nil == lines[x].cat \in NilCategories
           note == lines[x].note # "none"
<1>1. \A C : in[OfCategory(lines, S, C)] = here(C)
    <2>1. \A C : OfCategory(lines, S, C) \in SUBSET S
        BY DEF OfCategory
    <2> QED
        BY <2>1 DEF OfCategory
<1>0. /\ NilRows(lines, S) \in SUBSET S /\ Unplaced(lines, S) \in SUBSET S
      /\ NilNotes(lines, S) \in SUBSET S /\ TakenForNotes(lines, S) \in SUBSET S
    BY DEF NilRows, Unplaced, NilNotes, TakenForNotes
<1>2. /\ in[NilRows(lines, S)] = IF nil THEN w ELSE 0
      /\ in[Unplaced(lines, S)] = IF c \notin Placed THEN w ELSE 0
      /\ in[NilNotes(lines, S)] = IF note /\ nil THEN w ELSE 0
      /\ in[TakenForNotes(lines, S)] = IF ~note /\ c \in {"CDNR", "CDNUR"} THEN w ELSE 0
    BY <1>0 DEF NilRows, Unplaced, NilNotes, TakenForNotes
<1>3. Sign(lines[x]) = IF note THEN -1 ELSE 1
    BY DEF Sign
<1>4. /\ note => c \in {"CDNR", "CDNUR"}
      /\ ~note => IF lines[x].cat = "none" THEN c = "B2CS" /\ ~nil ELSE c = lines[x].cat
    BY DEF Category, NilCategories
<1>5. Placed = {"B2B", "B2CL", "EXP", "CDNR", "CDNUR", "B2CS", "NIL", "EXEMPT", "NIL_EXEMPT"}
      /\ NilCategories = {"NIL", "EXEMPT", "NIL_EXEMPT"}
    BY DEF Placed, NilCategories
<1>6. ~note => (nil <=> c \in NilCategories)
    BY <1>4, <1>5
<1> HIDE DEF c, nil, note
<1>7. CASE note
    BY <1>1, <1>2, <1>3, <1>4, <1>5, <1>7
<1>8. CASE ~note /\ c \in {"CDNR", "CDNUR"}
    BY <1>1, <1>2, <1>3, <1>5, <1>6, <1>8
<1>9. CASE ~note /\ c \in NilCategories
    BY <1>1, <1>2, <1>3, <1>5, <1>6, <1>9
<1>10. CASE ~note /\ c \notin Placed
    BY <1>1, <1>2, <1>3, <1>5, <1>6, <1>10
<1>11. CASE ~note /\ c \in {"B2B", "B2CL", "EXP", "B2CS"}
    BY <1>1, <1>2, <1>3, <1>5, <1>6, <1>11
<1> QED
    BY <1>5, <1>7, <1>8, <1>9, <1>10, <1>11

\* The worth of the part of U that is in A.
Part(lines, U) == [A \in SUBSET DOMAIN lines |-> WorthOf(lines, U \cap A)]

\* Taking a line out of U takes its worth out of each part that it is in.
LEMMA PartsLoseALine ==
    ASSUME NEW lines, IsBook(lines), NEW U \in SUBSET DOMAIN lines, NEW x \in U,
           NEW A \in SUBSET DOMAIN lines
    PROVE  /\ Part(lines, U)[A] \in Int /\ Part(lines, U \ {x})[A] \in Int
           /\ Part(lines, U)[A] = (IF x \in A THEN lines[x].taxable ELSE 0) + Part(lines, U \ {x})[A]
<1>1. /\ Part(lines, U)[A] = WorthOf(lines, U \cap A)
      /\ Part(lines, U \ {x})[A] = WorthOf(lines, (U \ {x}) \cap A)
    BY DEF Part
<1>2. U \cap A \in SUBSET DOMAIN lines /\ (U \ {x}) \cap A \in SUBSET DOMAIN lines
    OBVIOUS
<1>3. WorthOf(lines, U \cap A) \in Int /\ WorthOf(lines, (U \ {x}) \cap A) \in Int
    BY <1>2, WorthsAddUp
<1>4. CASE x \in A
    <2>1. (U \cap A) \ {x} = (U \ {x}) \cap A /\ x \in U \cap A
        BY <1>4
    <2>2. WorthOf(lines, U \cap A) = lines[x].taxable + WorthOf(lines, (U \cap A) \ {x})
        BY <1>2, <2>1, WorthsAddUp
    <2> QED
        BY <1>1, <1>3, <1>4, <2>1, <2>2
<1>5. CASE x \notin A
    <2>1. U \cap A = (U \ {x}) \cap A
        BY <1>5
    <2> QED
        BY <1>1, <1>3, <1>5, <2>1
<1> QED
    BY <1>4, <1>5

\* The total in the summary of a filing is what its lines are worth in the
\* sections that they stand in.
LEMMA TheTotalIsPlaced ==
    ASSUME NEW lines, IsBook(lines), NEW S \in SUBSET DOMAIN lines
    PROVE  TotalTaxable(lines, S) + WorthOf(lines, NilNotes(lines, S))
               - WorthOf(lines, Unplaced(lines, S)) - 2 * WorthOf(lines, TakenForNotes(lines, S)) =
           WorthOf(lines, OfCategory(lines, S, "B2B")) + WorthOf(lines, OfCategory(lines, S, "B2CL"))
           + WorthOf(lines, OfCategory(lines, S, "EXP")) + WorthOf(lines, OfCategory(lines, S, "B2CS"))
           + WorthOf(lines, NilRows(lines, S))
           - WorthOf(lines, OfCategory(lines, S, "CDNR")) - WorthOf(lines, OfCategory(lines, S, "CDNUR"))
<1> DEFINE b == OfCategory(lines, S, "B2B")
           l == OfCategory(lines, S, "B2CL")
           e == OfCategory(lines, S, "EXP")
           s == OfCategory(lines, S, "B2CS")
           r == OfCategory(lines, S, "CDNR")
           u == OfCategory(lines, S, "CDNUR")
           n == NilRows(lines, S)
           t == NilNotes(lines, S)
           o == Unplaced(lines, S)
           m == TakenForNotes(lines, S)
           All == {b, l, e, s, r, u, n, t, o, m}
           f == Signed(lines)
           Balanced(z, p) == z + p[t] - p[o] - 2 * p[m] = p[b] + p[l] + p[e] + p[s] + p[n] - p[r] - p[u]
           P == {U \in SUBSET S : Balanced(SumFunctionOnSet(f, U), Part(lines, U))}
<1>1. \A A \in All : A \in SUBSET S
    BY DEF OfCategory, NilRows, NilNotes, Unplaced, TakenForNotes
<1>2. /\ IsFiniteSet(S)
      /\ \A x \in S : /\ lines[x].taxable \in Int
                      /\ f[x] = Sign(lines[x]) * lines[x].taxable /\ f[x] \in Int
    <2>1. IsFiniteSet(S)
        BY WorthsAddUp
    <2>2. \A x \in S : lines[x].taxable \in Int
        BY LinesAreTyped
    <2>3. \A x \in S : f[x] = Sign(lines[x]) * lines[x].taxable /\ Sign(lines[x]) \in Int
        BY DEF Signed, Sign
    <2>4. \A x \in S : Sign(lines[x]) * lines[x].taxable \in Int
        <3> HIDE DEF f
        <3> QED
            BY <2>2, <2>3
    <2> QED
        BY <2>1, <2>2, <2>3, <2>4
<1>3. ASSUME NEW x \in S, NEW in, \A A \in SUBSET S : in[A] = IF x \in A THEN lines[x].taxable ELSE 0
      PROVE  Balanced(f[x], in)
    <2>1. lines[x].taxable \in Int
        BY <1>2
    <2> QED
        BY <1>2, <1>3, <2>1, PlaceOfALine
<1> HIDE DEF b, l, e, s, r, u, n, t, o, m, f
<1>4. ASSUME NEW U \in SUBSET S, \A V \in SUBSET U : V # U => V \in P
      PROVE  U \in P
    <2>0. IsFiniteSet(U) /\ \A x \in U : f[x] \in Int
        BY <1>2, FS_Subset
    <2> SUFFICES Balanced(SumFunctionOnSet(f, U), Part(lines, U))
        OBVIOUS
    <2>1. CASE U = {}
        <3>1. SumFunctionOnSet(f, U) = 0
            BY <2>0, <2>1, SumTakes
        <3>2. \A A \in All : Part(lines, U)[A] = WorthOf(lines, U \cap A)
            BY <1>1 DEF Part
        <3>3. \A A \in All : Part(lines, U)[A] = 0
            BY <2>1, <3>2, WorthsAddUp
        <3> HIDE DEF P
        <3> QED
            BY <3>1, <3>3
    <2>2. CASE U # {}
        <3>1. PICK x \in U : TRUE
            BY <2>2
        <3> DEFINE p == Part(lines, U)
                   q == Part(lines, U \ {x})
                   w == lines[x].taxable
                   y == SumFunctionOnSet(f, U)
                   z == SumFunctionOnSet(f, U \ {x})
                   d(A) == IF x \in A THEN w ELSE 0
        <3>2. U \ {x} \in P
            BY <1>4
        <3>3. Balanced(z, q)
            BY <3>2
        <3>4. IsFiniteSet(U \ {x}) /\ \A v \in U \ {x} : f[v] \in Int
            BY <2>0, FS_Subset
        <3>5. y = f[x] + z /\ z \in Int /\ f[x] \in Int /\ w \in Int
            BY <1>2, <2>0, <3>4, SumTakes
        <3>6. \A A \in All : p[A] \in Int /\ q[A] \in Int /\ p[A] = d(A) + q[A]
            <4> SUFFICES ASSUME NEW A \in All
                         PROVE  p[A] \in Int /\ q[A] \in Int /\ p[A] = d(A) + q[A]
                OBVIOUS
            <4>1. A \in SUBSET DOMAIN lines /\ U \in SUBSET DOMAIN lines
                BY <1>1
            <4> HIDE DEF All
            <4> QED
                BY <3>1, <4>1, PartsLoseALine
        <3> HIDE DEF p, q, w, y, z, d
        <3>7. \A A \in All : d(A) \in Int
            BY <3>5 DEF d
        <3>8. f[x] + d(t) - d(o) - 2 * d(m) = d(b) + d(l) + d(e) + d(s) + d(n) - d(r) - d(u)
            <4> DEFINE in == [A \in SUBSET S |-> d(A)]
            <4>1. \A A \in SUBSET S : in[A] = IF x \in A THEN lines[x].taxable ELSE 0
                BY DEF d, w
            <4>2. \A A \in All : in[A] = d(A)
                BY <1>1
            <4> HIDE DEF in
            <4>3. Balanced(f[x], in)
                BY <1>3, <4>1
            <4> QED
                BY <4>2, <4>3
        <3>9. Balanced(y, p)
            <4> HIDE DEF P
            <4> QED
                BY <3>3, <3>5, <3>6, <3>7, <3>8
        <3> QED
            BY <3>9 DEF y, p
    <2> QED
        BY <2>1, <2>2
<1>5. S \in P
    <2> HIDE DEF P
    <2> QED
        BY <1>2, <1>4, SmallestFirst
<1>6. \A A \in All : Part(lines, S)[A] = WorthOf(lines, A)
    <2> SUFFICES ASSUME NEW A \in All PROVE Part(lines, S)[A] = WorthOf(lines, A)
        OBVIOUS
    <2>1. A \in SUBSET DOMAIN lines /\ S \cap A = A
        BY <1>1
    <2> QED
        BY <2>1 DEF Part
<1>7. TotalTaxable(lines, S) = SumFunctionOnSet(f, S)
    <2> DEFINE h == [i \in S |-> Sign(lines[i]) * lines[i].taxable]
    <2>1. \A x \in S : f[x] \in Int /\ f[x] = h[x]
        BY <1>2
    <2> HIDE DEF h
    <2>2. SumFunctionOnSet(f, S) = SumFunctionOnSet(h, S)
        BY <1>2, <2>1, SumAgrees
    <2> QED
        BY <2>2 DEF TotalTaxable, Total, h
<1>8. Balanced(SumFunctionOnSet(f, S), Part(lines, S))
    BY <1>5
<1>9. /\ \A A \in {b, l, e} : Part(lines, S)[A] = WorthOf(lines, A)
      /\ \A A \in {s, r, u, n} : Part(lines, S)[A] = WorthOf(lines, A)
      /\ \A A \in {t, o, m} : Part(lines, S)[A] = WorthOf(lines, A)
    BY <1>6
<1> HIDE DEF P, All
<1>10. TotalTaxable(lines, S) + WorthOf(lines, t) - WorthOf(lines, o) - 2 * WorthOf(lines, m) =
           WorthOf(lines, b) + WorthOf(lines, l) + WorthOf(lines, e) + WorthOf(lines, s)
           + WorthOf(lines, n) - WorthOf(lines, r) - WorthOf(lines, u)
    BY <1>7, <1>8, <1>9
<1> QED
    BY <1>10 DEF b, l, e, s, r, u, n, t, o, m
-----------------------------------------------------------------------------
(* The workbook and the JSON.                                              *)

HsnRows(lines, S, key) == {i \in S : lines[i].hsn # NoHsn /\ HsnKey(lines[i]) = key}
Entry(s, k) == IF k \in DOMAIN s THEN s[k] ELSE 0

\* The entry of a code and rate, or nothing, is the sum over its lines.
LEMMA HsnEntries ==
    ASSUME NEW lines, IsBook(lines), NEW S \in SUBSET DOMAIN lines, NEW key
    PROVE  /\ IsFiniteSet(HsnRows(lines, S, key))
           /\ \A x \in HsnRows(lines, S, key) : Signed(lines)[x] \in Int
           /\ key \in DOMAIN Hsn(lines, S) <=> HsnRows(lines, S, key) # {}
           /\ Entry(Hsn(lines, S), key) = SumFunctionOnSet(Signed(lines), HsnRows(lines, S, key))
<1> DEFINE rows == {i \in S : lines[i].hsn # NoHsn}
           value == [i \in rows |-> Sign(lines[i]) * lines[i].taxable]
           R == HsnRows(lines, S, key)
           f == Signed(lines)
           s == Hsn(lines, S)
<1>1. R = {i \in rows : HsnKey(lines[i]) = key}
    BY DEF HsnRows
<1>2. key \in DOMAIN s <=> R # {}
    BY <1>1 DEF Hsn
<1>3. key \in DOMAIN s => s[key] = SumFunctionOnSet(value, R)
    BY <1>1 DEF Hsn, Total
<1>4. IsFiniteSet(R)
    BY WorthsAddUp, FS_Subset DEF HsnRows
<1>5. ASSUME NEW x \in R PROVE f[x] \in Int /\ f[x] = value[x]
    <2>1. lines[x].taxable \in Int /\ Sign(lines[x]) \in Int /\ x \in rows /\ x \in DOMAIN lines
        BY <1>1, LinesAreTyped DEF Sign
    <2>2. Sign(lines[x]) * lines[x].taxable \in Int
        BY <2>1
    <2> QED
        BY <2>1, <2>2 DEF Signed
<1> HIDE DEF R, f, value, s
<1>6. SumFunctionOnSet(f, R) = SumFunctionOnSet(value, R)
    BY <1>4, <1>5, SumAgrees
<1>7. R = {} => SumFunctionOnSet(f, R) = 0
    BY <1>4, SumUnfolds
<1> QED
    BY <1>2, <1>3, <1>4, <1>5, <1>6, <1>7 DEF Entry, R, f, s

\* The two sheets for codes have the codes of the JSON, and its amounts.
LEMMA HsnSheetsAgree ==
    ASSUME NEW lines, IsBook(lines), NEW S \in SUBSET DOMAIN lines
    PROVE  /\ DOMAIN Hsn(lines, S) =
                  DOMAIN HsnSheet(lines, S, TRUE) \cup DOMAIN HsnSheet(lines, S, FALSE)
           /\ \A k \in DOMAIN Hsn(lines, S) :
                 Hsn(lines, S)[k] = Entry(HsnSheet(lines, S, TRUE), k) + Entry(HsnSheet(lines, S, FALSE), k)
<1> DEFINE T == {i \in S : Category(lines[i]) \in {"B2B", "CDNR"}}
           U == S \ T
<1>1. /\ HsnSheet(lines, S, TRUE) = Hsn(lines, T) /\ HsnSheet(lines, S, FALSE) = Hsn(lines, U)
    <2>1. {i \in S : (Category(lines[i]) \in {"B2B", "CDNR"}) = TRUE} = T
        OBVIOUS
    <2>2. {i \in S : (Category(lines[i]) \in {"B2B", "CDNR"}) = FALSE} = U
        OBVIOUS
    <2> QED
        BY <2>1, <2>2 DEF HsnSheet
<1>2. T \in SUBSET DOMAIN lines /\ U \in SUBSET DOMAIN lines
    OBVIOUS
<1>3. ASSUME NEW k
      PROVE  /\ HsnRows(lines, S, k) = HsnRows(lines, T, k) \cup HsnRows(lines, U, k)
             /\ HsnRows(lines, T, k) \cap HsnRows(lines, U, k) = {}
    BY DEF HsnRows
<1> HIDE DEF T, U
<1>4. ASSUME NEW k
      PROVE  /\ k \in DOMAIN Hsn(lines, S) <=> k \in DOMAIN Hsn(lines, T) \/ k \in DOMAIN Hsn(lines, U)
             /\ Entry(Hsn(lines, S), k) = Entry(Hsn(lines, T), k) + Entry(Hsn(lines, U), k)
    <2> DEFINE A == HsnRows(lines, T, k)
               B == HsnRows(lines, U, k)
               f == Signed(lines)
    <2>1. /\ IsFiniteSet(A) /\ IsFiniteSet(B)
          /\ \A x \in A : f[x] \in Int
          /\ \A x \in B : f[x] \in Int
          /\ Entry(Hsn(lines, T), k) = SumFunctionOnSet(f, A)
          /\ Entry(Hsn(lines, U), k) = SumFunctionOnSet(f, B)
          /\ k \in DOMAIN Hsn(lines, T) <=> A # {}
          /\ k \in DOMAIN Hsn(lines, U) <=> B # {}
        BY <1>2, HsnEntries
    <2>2. /\ Entry(Hsn(lines, S), k) = SumFunctionOnSet(f, HsnRows(lines, S, k))
          /\ k \in DOMAIN Hsn(lines, S) <=> HsnRows(lines, S, k) # {}
        BY HsnEntries
    <2>3. HsnRows(lines, S, k) = A \cup B /\ A \cap B = {}
        BY <1>3
    <2> HIDE DEF A, B, f
    <2>4. SumFunctionOnSet(f, A \cup B) = SumFunctionOnSet(f, A) + SumFunctionOnSet(f, B)
        BY <2>1, <2>3, SumOverUnion
    <2> QED
        BY <2>1, <2>2, <2>3, <2>4
<1>5. DOMAIN Hsn(lines, S) = DOMAIN Hsn(lines, T) \cup DOMAIN Hsn(lines, U)
    BY <1>4
<1>6. \A k \in DOMAIN Hsn(lines, S) : Hsn(lines, S)[k] = Entry(Hsn(lines, T), k) + Entry(Hsn(lines, U), k)
    BY <1>4 DEF Entry
<1> QED
    BY <1>1, <1>5, <1>6

\* The sheets for documents have the amounts of the lines of their category.
LEMMA SheetsCarryTheirLines ==
    ASSUME NEW lines, IsBook(lines), NEW S \in SUBSET DOMAIN lines, NEW c
    PROVE  SumFunction([k \in DOMAIN DocumentRows(lines, S, c) |-> DocumentRows(lines, S, c)[k].taxable]) =
               WorthOf(lines, OfCategory(lines, S, c))
<1> DEFINE K == Documents(lines, S, c)
           s == DocumentRows(lines, S, c)
           F == [k \in DOMAIN s |-> s[k].taxable]
<1>1. DOMAIN s = K
    BY DEF DocumentRows, Documents
<1>2. ASSUME NEW k \in K PROVE F[k] = WorthOf(lines, RowsOf(lines, S, k))
    <2> DEFINE t == InvoiceTotals(lines, RowsOf(lines, S, k))
    <2>1. s[k] = [taxable |-> t.taxable, value |-> t.total, rate |-> Rate(t)]
        BY <1>1 DEF DocumentRows, Documents
    <2>2. s[k].taxable = t.taxable
        BY <2>1
    <2>3. RowsOf(lines, S, k) \in SUBSET DOMAIN lines
        BY DEF RowsOf
    <2>4. t.taxable = WorthOf(lines, RowsOf(lines, S, k))
        BY <2>3, DocumentsAreWorthTheirLines
    <2> QED
        BY <1>1, <2>2, <2>4
<1>3. DOMAIN F = K
    BY <1>1
<1> HIDE DEF F
<1>4. SumFunctionOnSet(F, K) = WorthOf(lines, OfCategory(lines, S, c))
    <2>1. \A k \in Groups(lines, S) : k.cat = c => F[k] = WorthOf(lines, RowsOf(lines, S, k))
        BY <1>2 DEF Documents
    <2> QED
        BY <2>1, CategoriesCarryTheirLines
<1> QED
    BY <1>3, <1>4 DEF SumFunction, F

\* An entry of b2cs stands for at least one document, and no two of them look
\* alike in the workbook: whether a supply is within the state follows from
\* its place.
LEMMA B2csEntries ==
    ASSUME NEW lines, IsBook(lines), NEW S \in SUBSET DOMAIN lines, NEW firm
    PROVE  /\ IsFiniteSet(DOMAIN B2cs(lines, S, firm))
           /\ Cardinality(DOMAIN B2cs(lines, S, firm)) <= Cardinality(Documents(lines, S, "B2CS"))
           /\ Cardinality(DOMAIN B2csSheet(lines, S, firm)) = Cardinality(DOMAIN B2cs(lines, S, firm))
<1> DEFINE K == Documents(lines, S, "B2CS")
           key == [k \in K |-> B2csKey(lines, S, k, firm)]
           B == DOMAIN B2cs(lines, S, firm)
           shown == [b \in B |-> [pos |-> b.pos, rate |-> b.rate]]
<1>1. IsFiniteSet(K)
    BY GroupsOfLines, FS_Subset DEF Documents
<1>2. B = {key[k] : k \in K}
    BY DEF B2cs, Documents
<1>3. DOMAIN B2csSheet(lines, S, firm) = {shown[b] : b \in B}
    BY DEF B2csSheet
<1>4. ASSUME NEW k \in K
      PROVE  \E pos, rate : key[k] = [type |-> IF pos = firm THEN "INTRA" ELSE "INTER", pos |-> pos, rate |-> rate]
    BY DEF B2csKey
<1>5. ASSUME NEW a \in B, NEW b \in B, shown[a] = shown[b] PROVE a = b
    <2>1. PICK p, q : a = [type |-> IF p = firm THEN "INTRA" ELSE "INTER", pos |-> p, rate |-> q]
        BY <1>2, <1>4
    <2>2. PICK r, s : b = [type |-> IF r = firm THEN "INTRA" ELSE "INTER", pos |-> r, rate |-> s]
        BY <1>2, <1>4
    <2>3. shown[a] = [pos |-> p, rate |-> q] /\ shown[b] = [pos |-> r, rate |-> s]
        BY <2>1, <2>2
    <2>4. p = r /\ q = s
        BY <1>5, <2>3
    <2> QED
        BY <2>1, <2>2, <2>4
<1>6. IsFiniteSet(B) /\ Cardinality(B) <= Cardinality(K)
    <2> HIDE DEF K, B
    <2> QED
        BY <1>1, <1>2, ImagesAreFinite
<1> DEFINE shows == {shown[b] : b \in B}
<1>7. Cardinality(shows) = Cardinality(B)
    <2>1. DOMAIN shown = B /\ shown = [b \in B |-> shown[b]]
        OBVIOUS
    <2> HIDE DEF K, B, shown
    <2> QED
        BY <1>5, <1>6, <2>1, ImagesAreFinite
<1> QED
    BY <1>3, <1>6, <1>7

Notes(lines, S) == {k \in Groups(lines, S) : k.cat \in {"CDNR", "CDNUR"}}
NumbersOf(K) == {k.no : k \in K} \ {NoNumber}

\* The documents sheet has the numbers of the sections; a sale taken for a
\* note stands among the invoices in the one, among the notes in the other.
LEMMA NumbersAgree ==
    ASSUME NEW lines, IsBook(lines), NEW S \in SUBSET DOMAIN lines
    PROVE  LET strays == DocsSheet(lines, TakenForNotes(lines, S), "none")
           IN  /\ NumbersOf(Notes(lines, S)) =
                      DocsSheet(lines, S, "credit") \cup DocsSheet(lines, S, "debit") \cup strays
               /\ NumbersOf(Groups(lines, S) \ Notes(lines, S)) \cup strays = DocsSheet(lines, S, "none")
<1> DEFINE strays == DocsSheet(lines, TakenForNotes(lines, S), "none")
           note(i) == Category(lines[i]) \in {"CDNR", "CDNUR"}
<1>1. \A i \in S : /\ lines[i].note \in {"none", "credit", "debit"}
                   /\ lines[i].note # "none" => note(i)
                   /\ Strip(lines[i].no) = NoNumber <=> lines[i].no = NoNumber
    <2>1. \A i \in S : IsLine(lines[i])
        BY LinesAreTyped
    <2>2. \A i \in S : lines[i].note \in {"none", "credit", "debit"} /\ IsNumber(lines[i].no)
        BY <2>1 DEF IsLine
    <2>3. \A i \in S : lines[i].note # "none" => note(i)
        BY DEF Category
    <2> HIDE DEF note
    <2> QED
        BY <2>2, <2>3, StripIsIdempotent
<1>0. \A i \in S : /\ GroupKey(lines[i]).no = Strip(lines[i].no)
                   /\ GroupKey(lines[i]).cat \in {"CDNR", "CDNUR"} <=> note(i)
    BY DEF GroupKey
<1> HIDE DEF note
<1>2. \A x : x \in NumbersOf(Notes(lines, S)) <=>
                 \E i \in S : note(i) /\ x = Strip(lines[i].no) /\ x # NoNumber
    <2>1. \A x : x \in NumbersOf(Notes(lines, S)) <=> x # NoNumber /\ \E k \in Notes(lines, S) : x = k.no
        BY DEF NumbersOf
    <2>2. \A k : k \in Notes(lines, S) <=> \E i \in S : k = GroupKey(lines[i]) /\ note(i)
        BY <1>0 DEF Notes, Groups
    <2> QED
        BY <1>0, <2>1, <2>2
<1>3. \A x : x \in NumbersOf(Groups(lines, S) \ Notes(lines, S)) <=>
                 \E i \in S : ~note(i) /\ x = Strip(lines[i].no) /\ x # NoNumber
    <2> DEFINE K == Groups(lines, S) \ Notes(lines, S)
    <2>1. \A x : x \in NumbersOf(K) <=> x # NoNumber /\ \E k \in K : x = k.no
        BY DEF NumbersOf
    <2>2. \A k : k \in K <=> \E i \in S : k = GroupKey(lines[i]) /\ ~note(i)
        BY <1>0 DEF Notes, Groups
    <2> HIDE DEF K
    <2>3. \A x : x \in NumbersOf(K) <=> \E i \in S : ~note(i) /\ x = Strip(lines[i].no) /\ x # NoNumber
        BY <1>0, <2>1, <2>2
    <2> QED
        BY <2>3 DEF K
<1>4. \A x : x \in strays <=>
                 \E i \in S : note(i) /\ lines[i].note = "none" /\ lines[i].no # NoNumber /\ x = Strip(lines[i].no)
    BY DEF DocsSheet, TakenForNotes, note
<1>5. \A kind, x : x \in DocsSheet(lines, S, kind) <=>
                 \E i \in S : lines[i].note = kind /\ lines[i].no # NoNumber /\ x = Strip(lines[i].no)
    BY DEF DocsSheet
<1> HIDE DEF strays
<1>6. ASSUME NEW x
      PROVE  x \in NumbersOf(Notes(lines, S)) <=>
                 x \in DocsSheet(lines, S, "credit") \/ x \in DocsSheet(lines, S, "debit") \/ x \in strays
    BY <1>1, <1>2, <1>4, <1>5
<1>7. ASSUME NEW x
      PROVE  x \in DocsSheet(lines, S, "none") <=>
                 x \in NumbersOf(Groups(lines, S) \ Notes(lines, S)) \/ x \in strays
    <2>1. ASSUME NEW i \in S, lines[i].note = "none", lines[i].no # NoNumber, x = Strip(lines[i].no)
          PROVE  x \in NumbersOf(Groups(lines, S) \ Notes(lines, S)) \/ x \in strays
        <3>1. CASE note(i)
            BY <1>4, <2>1, <3>1
        <3>2. CASE ~note(i)
            <4>1. x # NoNumber
                BY <1>1, <2>1
            <4> QED
                BY <1>3, <2>1, <3>2, <4>1
        <3> QED
            BY <3>1, <3>2
    <2>2. ASSUME NEW i \in S, ~note(i), x = Strip(lines[i].no), x # NoNumber
          PROVE  x \in DocsSheet(lines, S, "none")
        <3>1. lines[i].note = "none" /\ lines[i].no # NoNumber
            BY <1>1, <2>2
        <3> QED
            BY <1>5, <2>2, <3>1
    <2>3. x \in strays => x \in DocsSheet(lines, S, "none")
        BY <1>4, <1>5
    <2>4. ASSUME x \in DocsSheet(lines, S, "none")
          PROVE  x \in NumbersOf(Groups(lines, S) \ Notes(lines, S)) \/ x \in strays
        <3>1. PICK i \in S : lines[i].note = "none" /\ lines[i].no # NoNumber /\ x = Strip(lines[i].no)
            BY <1>5, <2>4
        <3> QED
            BY <2>1, <3>1
    <2>5. ASSUME x \in NumbersOf(Groups(lines, S) \ Notes(lines, S))
          PROVE  x \in DocsSheet(lines, S, "none")
        <3>1. PICK i \in S : ~note(i) /\ x = Strip(lines[i].no) /\ x # NoNumber
            BY <1>3, <2>5
        <3> QED
            BY <2>2, <3>1
    <2> QED
        BY <2>3, <2>4, <2>5
<1> QED
    BY <1>6, <1>7 DEF strays

\* The JSON counts each note, and an entry of b2cs for one invoice.
LEMMA DocumentsAreCounted ==
    ASSUME NEW lines, IsBook(lines), NEW S \in SUBSET DOMAIN lines, NEW firm
    PROVE  /\ DocSummary(lines, S, firm).notes = Cardinality(Notes(lines, S))
           /\ DocSummary(lines, S, firm).invoices <= Cardinality(Groups(lines, S) \ Notes(lines, S))
<1> DEFINE D(c) == Documents(lines, S, c)
           G == Groups(lines, S)
           N == Notes(lines, S)
<1>1. ASSUME NEW c PROVE DOMAIN Section(lines, S, c) = D(c) /\ IsFiniteSet(D(c))
    BY GroupsOfLines, FS_Subset DEF Section, Documents
<1>2. ASSUME NEW c, NEW d, c # d PROVE D(c) \cap D(d) = {}
    BY <1>2 DEF Documents
<1>3. IsFiniteSet(G \ N)
    BY GroupsOfLines, FS_Subset
<1> DEFINE b == D("B2B")
           l == D("B2CL")
           e == D("EXP")
           s == D("B2CS")
           r == D("CDNR")
           u == D("CDNUR")
<1>4. N = r \cup u
    BY DEF Notes, Documents
<1>5. ((b \cup l) \cup e) \cup s \subseteq G \ N
    BY DEF Notes, Documents
<1>6. /\ b \cap l = {} /\ (b \cup l) \cap e = {} /\ ((b \cup l) \cup e) \cap s = {}
      /\ r \cap u = {}
    BY DEF Documents
<1>7. /\ DocSummary(lines, S, firm).notes = Cardinality(r) + Cardinality(u)
      /\ DocSummary(lines, S, firm).invoices =
             Cardinality(b) + Cardinality(l) + Cardinality(e) + Cardinality(DOMAIN B2cs(lines, S, firm))
    BY <1>1 DEF DocSummary
<1>8. /\ IsFiniteSet(b) /\ IsFiniteSet(l) /\ IsFiniteSet(e)
      /\ IsFiniteSet(s) /\ IsFiniteSet(r) /\ IsFiniteSet(u)
    BY <1>1
<1>9. Cardinality(DOMAIN B2cs(lines, S, firm)) <= Cardinality(s)
      /\ Cardinality(DOMAIN B2cs(lines, S, firm)) \in Nat
    BY B2csEntries, FS_CardinalityType
<1> HIDE DEF D, G, N, b, l, e, s, r, u
<1>10. Cardinality(r \cup u) = Cardinality(r) + Cardinality(u)
    BY <1>6, <1>8, DisjointSetsAddUp
<1>11. /\ IsFiniteSet(b \cup l) /\ Cardinality(b \cup l) = Cardinality(b) + Cardinality(l)
       /\ Cardinality(b) \in Nat /\ Cardinality(l) \in Nat
    BY <1>6, <1>8, DisjointSetsAddUp
<1>12. /\ IsFiniteSet((b \cup l) \cup e) /\ Cardinality(e) \in Nat
       /\ Cardinality((b \cup l) \cup e) = Cardinality(b \cup l) + Cardinality(e)
    BY <1>6, <1>8, <1>11, DisjointSetsAddUp
<1>13. /\ Cardinality(s) \in Nat
       /\ Cardinality(((b \cup l) \cup e) \cup s) = Cardinality((b \cup l) \cup e) + Cardinality(s)
    BY <1>6, <1>8, <1>12, DisjointSetsAddUp
<1>14. /\ Cardinality(((b \cup l) \cup e) \cup s) <= Cardinality(G \ N)
       /\ Cardinality(G \ N) \in Nat
    BY <1>3, <1>5, FS_Subset, FS_CardinalityType
<1>15. Cardinality(b) + Cardinality(l) + Cardinality(e) + Cardinality(DOMAIN B2cs(lines, S, firm))
           <= Cardinality(G \ N)
    BY <1>9, <1>11, <1>12, <1>13, <1>14
<1> QED
    BY <1>4, <1>7, <1>10, <1>15 DEF G, N
-----------------------------------------------------------------------------
\* A filing of a review holds stored lines.
LEMMA FilingsHoldStoredLines ==
    ASSUME CloseInv, NEW g \in DOMAIN filings
    PROVE  IsBook(stored) /\ filings[g] \in SUBSET DOMAIN stored
<1>1. phase = "reviewed" /\ filings = Filings(stored, entries)
    BY DEF CloseInv
<1> QED
    BY <1>1 DEF CloseInv, Filings, Period

\* The sections of the lines of a filing add up.
LEMMA TheSectionsAddUp ==
    ASSUME IsBook(stored), NEW S \in SUBSET DOMAIN stored, NEW firm
    PROVE  SectionsAddUp(S, firm)
<1> DEFINE worth(R)   == Total([i \in R |-> stored[i].taxable], R)
           section(c) == SumFunction([k \in DOMAIN Section(stored, S, c) |-> Section(stored, S, c)[k].taxable])
           outside == {i \in S : Category(stored[i]) \notin Placed}
           twice   == {i \in S : stored[i].note # "none" /\ stored[i].cat \in NilCategories}
<1>1. ASSUME NEW R \in SUBSET S PROVE worth(R) = WorthOf(stored, R) /\ WorthOf(stored, R) \in Int
    BY WorthsAddUp
<1>2. /\ outside = Unplaced(stored, S) /\ twice = NilNotes(stored, S)
      /\ Mistaken(S) = TakenForNotes(stored, S)
      /\ outside \in SUBSET S /\ twice \in SUBSET S /\ Mistaken(S) \in SUBSET S
    BY DEF Unplaced, NilNotes, Mistaken, TakenForNotes
<1>3. \A c : section(c) = WorthOf(stored, OfCategory(stored, S, c))
    BY SectionsCarryTheirLines
<1>4. SumFunction(B2cs(stored, S, firm)) = WorthOf(stored, OfCategory(stored, S, "B2CS"))
    BY B2csCarriesItsLines
<1>5. Nil(stored, S).intra + Nil(stored, S).inter = WorthOf(stored, NilRows(stored, S))
    BY NilCarriesItsLines DEF NilRows
<1>6. Nil(stored, S).intra \in Int /\ Nil(stored, S).inter \in Int
    BY WorthsAddUp DEF Nil
<1>7. \A c : OfCategory(stored, S, c) \in SUBSET S
    BY DEF OfCategory
<1> HIDE DEF worth, section, outside, twice
<1>8. TotalTaxable(stored, S) + worth(twice) - worth(outside) - 2 * worth(Mistaken(S)) =
          section("B2B") + section("B2CL") + section("EXP") + SumFunction(B2cs(stored, S, firm))
          + WorthOf(stored, NilRows(stored, S)) - section("CDNR") - section("CDNUR")
    BY <1>1, <1>2, <1>3, <1>4, TheTotalIsPlaced
<1>9. /\ \A c : section(c) \in Int
      /\ SumFunction(B2cs(stored, S, firm)) \in Int
    BY <1>1, <1>3, <1>4, <1>7
<1>10. TotalTaxable(stored, S) + worth(twice) - worth(outside) - 2 * worth(Mistaken(S)) =
           section("B2B") + section("B2CL") + section("EXP")
           + SumFunction(B2cs(stored, S, firm)) + Nil(stored, S).intra + Nil(stored, S).inter
           - section("CDNR") - section("CDNUR")
    BY <1>5, <1>6, <1>8, <1>9
<1> QED
    BY <1>10 DEF SectionsAddUp, worth, section, outside, twice

\* The workbook of the lines of a filing agrees with its JSON.
LEMMA TheWorkbookAgrees ==
    ASSUME IsBook(stored), NEW S \in SUBSET DOMAIN stored, NEW firm
    PROVE  WorkbookAgrees(S, firm)
<1>1. /\ DOMAIN Hsn(stored, S) =
             DOMAIN HsnSheet(stored, S, TRUE) \cup DOMAIN HsnSheet(stored, S, FALSE)
      /\ \A k \in DOMAIN Hsn(stored, S) :
            Hsn(stored, S)[k] = Entry(HsnSheet(stored, S, TRUE), k) + Entry(HsnSheet(stored, S, FALSE), k)
    BY HsnSheetsAgree
<1> DEFINE amounts(s) == SumFunction([k \in DOMAIN s |-> s[k].taxable])
<1>2. \A c : amounts(DocumentRows(stored, S, c)) = amounts(Section(stored, S, c))
    <2> SUFFICES ASSUME NEW c PROVE amounts(DocumentRows(stored, S, c)) = amounts(Section(stored, S, c))
        OBVIOUS
    <2>1. amounts(DocumentRows(stored, S, c)) = WorthOf(stored, OfCategory(stored, S, c))
        BY SheetsCarryTheirLines
    <2>2. amounts(Section(stored, S, c)) = WorthOf(stored, OfCategory(stored, S, c))
        BY SectionsCarryTheirLines
    <2> QED
        BY <2>1, <2>2
<1>3. Cardinality(DOMAIN B2csSheet(stored, S, firm)) = Cardinality(DOMAIN B2cs(stored, S, firm))
    BY B2csEntries
<1>4. Mistaken(S) = TakenForNotes(stored, S)
    BY DEF Mistaken, TakenForNotes
<1> DEFINE strays == DocsSheet(stored, Mistaken(S), "none")
<1>5. /\ NumbersOf(Notes(stored, S)) =
             DocsSheet(stored, S, "credit") \cup DocsSheet(stored, S, "debit") \cup strays
      /\ NumbersOf(Groups(stored, S) \ Notes(stored, S)) \cup strays = DocsSheet(stored, S, "none")
    BY <1>4, NumbersAgree
<1>6. /\ DocSummary(stored, S, firm).notes = Cardinality(Notes(stored, S))
      /\ DocSummary(stored, S, firm).invoices <= Cardinality(Groups(stored, S) \ Notes(stored, S))
    BY DocumentsAreCounted
<1>7. amounts(B2bSheet(stored, S)) = amounts(Section(stored, S, "B2B"))
      /\ amounts(CdnrSheet(stored, S)) = amounts(Section(stored, S, "CDNR"))
    BY <1>2 DEF B2bSheet, CdnrSheet
<1> QED
    BY <1>1, <1>3, <1>5, <1>6, <1>7 DEF WorkbookAgrees, Entry, Notes, NumbersOf

\* The sections of every GSTR-1 of every review add up to the total in its
\* summary, notes subtracted, but for the exceptions that SectionsCarryTheTotal
\* names; the workbook has the amounts and the numbers of the JSON
\* (gstr1_generator.generate_gstr1_json, build_gstr1_excel_rows).
THEOREM SectionsAlwaysCarryTheTotal == CloseSpec => []SectionsCarryTheTotal
<1>1. ASSUME CloseInv PROVE SectionsCarryTheTotal
    <2> SUFFICES ASSUME NEW g \in DOMAIN filings \ {Unknown}, NEW S, S = filings[g],
                        NEW firm, firm = StateOf[g]
                 PROVE  SectionsAddUp(S, firm) /\ WorkbookAgrees(S, firm)
        BY DEF SectionsCarryTheTotal
    <2>1. IsBook(stored) /\ S \in SUBSET DOMAIN stored
        BY <1>1, FilingsHoldStoredLines
    <2> QED
        BY <2>1, TheSectionsAddUp, TheWorkbookAgrees
<1> QED
    BY <1>1, ReviewsAreOfTheirLines, PTL
-----------------------------------------------------------------------------
(* A review with nothing to attend to.                                     *)

\* When every document passes, the filings hold the period, each line once.
LEMMA CleanFilings ==
    ASSUME CloseInv, phase = "reviewed", NeedsAttention = {}
    PROVE  /\ \A g \in DOMAIN filings : filings[g] = {i \in Period(stored) : Routed(stored[i]) = g}
           /\ \A i \in Period(stored) : Routed(stored[i]) \in DOMAIN filings
<1>1. filings = Filings(stored, entries)
    BY DEF CloseInv
<1>2. \A i \in Period(stored) : ~IsSkipped(stored[i], entries)
    BY DEF NeedsAttention, IsSkipped, Excluded
<1> DEFINE included == {i \in Period(stored) : ~IsSkipped(stored[i], entries)}
<1>3. included = Period(stored)
    BY <1>2
<1>4. filings = [g \in {Routed(stored[i]) : i \in included} |-> {i \in included : Routed(stored[i]) = g}]
    BY <1>1 DEF Filings
<1> QED
    BY <1>3, <1>4

\* The net total of the books, less that of the registered filings, is that
\* of the unregistered lines.
LEMMA TotalsFallApart ==
    ASSUME CloseInv, phase = "reviewed", NeedsAttention = {},
           \A i \in Period(stored) : CountsAsFiled(stored[i])
    PROVE  LET U == {i \in Period(stored) : Routed(stored[i]) = Unknown}
           IN  /\ NetTaxable([i \in DOMAIN stored |-> OsRow(stored[i])], Period(stored)) =
                      TotalTaxable(stored, Filed) + TotalTaxable(stored, U)
               /\ TotalTaxable(stored, Filed) \in Int /\ TotalTaxable(stored, U) \in Int
<1> DEFINE P == Period(stored)
           U == {i \in P : Routed(stored[i]) = Unknown}
           f == Signed(stored)
           rows == [i \in DOMAIN stored |-> OsRow(stored[i])]
           net == [i \in P |-> IF rows[i].note = "none" THEN rows[i].taxable ELSE -rows[i].taxable]
<1>1. IsBook(stored) /\ P \in SUBSET DOMAIN stored
    BY DEF CloseInv, Period
<1>2. Filed = P \ U
    BY CleanFilings DEF Filed
<1>3. /\ IsFiniteSet(P) /\ IsFiniteSet(U) /\ IsFiniteSet(P \ U)
    BY <1>1, WorthsAddUp, FS_Subset
<1>4. ASSUME NEW i \in P
      PROVE  /\ stored[i].taxable \in Int /\ stored[i].note \in {"none", "credit"}
             /\ Magnitude(stored[i].taxable) = stored[i].taxable
             /\ f[i] = Sign(stored[i]) * stored[i].taxable
    <2>1. stored[i].taxable \in Int /\ IsLine(stored[i]) /\ CountsAsFiled(stored[i])
        BY <1>1, LinesAreTyped
    <2>2. Magnitude(stored[i].taxable) = stored[i].taxable
        BY <2>1 DEF CountsAsFiled, Magnitude, Distance
    <2> QED
        BY <1>1, <2>1, <2>2 DEF IsLine, Signed, CountsAsFiled
<1>5. ASSUME NEW i \in P PROVE f[i] \in Int /\ net[i] = f[i]
    <2>1. CASE stored[i].note = "none"
        <3>1. Sign(stored[i]) = 1 /\ rows[i].note = "none" /\ rows[i].taxable = stored[i].taxable
            BY <1>1, <1>4, <2>1 DEF Sign, OsRow
        <3> HIDE DEF f, rows
        <3> QED
            BY <1>4, <3>1
    <2>2. CASE stored[i].note = "credit"
        <3>1. Sign(stored[i]) = -1 /\ rows[i].note = "credit" /\ rows[i].taxable = stored[i].taxable
            BY <1>1, <1>4, <2>2 DEF Sign, OsRow
        <3> HIDE DEF f, rows
        <3> QED
            BY <1>4, <3>1
    <2> QED
        BY <1>4, <2>1, <2>2
<1>6. ASSUME NEW T \in SUBSET P
      PROVE  /\ TotalTaxable(stored, T) = SumFunctionOnSet(f, T)
             /\ SumFunctionOnSet(f, T) \in Int
    <2> DEFINE h == [i \in T |-> Sign(stored[i]) * stored[i].taxable]
    <2>1. IsFiniteSet(T) /\ \A i \in T : f[i] \in Int /\ f[i] = h[i]
        BY <1>3, <1>4, <1>5, FS_Subset
    <2>2. TotalTaxable(stored, T) = SumFunctionOnSet(h, T)
        BY DEF TotalTaxable, Total
    <2> HIDE DEF h, f
    <2> QED
        BY <2>1, <2>2, SumAgrees, SumTakes
<1>7. NetTaxable(rows, P) = SumFunctionOnSet(net, P)
    BY DEF NetTaxable, Total
<1>8. (P \ U) \cup U = P /\ (P \ U) \cap U = {}
    OBVIOUS
<1> HIDE DEF f, net, rows, P, U
<1>9. SumFunctionOnSet(f, P) = SumFunctionOnSet(net, P)
    BY <1>3, <1>5, SumAgrees
<1> DEFINE R == P \ U
<1>10. IsFiniteSet(R) /\ R \cup U = P /\ R \cap U = {} /\ R \in SUBSET P /\ U \in SUBSET P
    BY <1>3, <1>8
<1> HIDE DEF R
<1>11. SumFunctionOnSet(f, R \cup U) = SumFunctionOnSet(f, R) + SumFunctionOnSet(f, U)
    BY <1>3, <1>5, <1>10, SumOverUnion
<1>12. NetTaxable(rows, P) = TotalTaxable(stored, R) + TotalTaxable(stored, U)
    BY <1>6, <1>7, <1>9, <1>10, <1>11
<1>13. TotalTaxable(stored, R) \in Int /\ TotalTaxable(stored, U) \in Int
    BY <1>6, <1>10
<1> QED
    BY <1>2, <1>12, <1>13 DEF rows, P, U, R

\* A number that is not a duplicate has one line, which is the one compared,
\* signs apart.
LEMMA FiledLinesWereCompared ==
    ASSUME CloseInv, phase = "reviewed", NeedsAttention = {}, Duplicates = {}, NEW i \in Filed
    PROVE  \E k \in DOMAIN sheet :
              /\ sheet[k].no = stored[i].no
              /\ \A f \in {"taxable", "igst", "cgst", "sgst", "total"} :
                    Distance(Magnitude(stored[i][f]), sheet[k][f]) <= ReconTolerance
<1> DEFINE no == stored[i].no
           P == Period(stored)
           C == DOMAIN sheet
<1>1. i \in P /\ Routed(stored[i]) # Unknown
    BY CleanFilings DEF Filed
<1>2. no # NoNumber
    BY <1>1 DEF Routed
<1>3. entries = ReconcilePeriod(stored, sheet)
    BY DEF CloseInv
<1>4. no \in Numbers(stored, P)
    BY <1>1 DEF Numbers
<1>5. no \in DOMAIN entries
    BY <1>3, <1>4 DEF ReconcilePeriod
<1>6. entries[no] = "PASS"
    BY <1>5 DEF NeedsAttention
<1>7. /\ no \in Numbers(sheet, C)
      /\ ReconcileDocument(OsRow(LastOf(stored, P, no)), LastOf(sheet, C, no)) = "PASS"
    BY <1>3, <1>4, <1>5, <1>6 DEF ReconcilePeriod
<1>8. \A f \in {"taxable", "igst", "cgst", "sgst", "total"} :
          Distance(OsRow(LastOf(stored, P, no))[f], LastOf(sheet, C, no)[f]) <= ReconTolerance
    BY <1>7 DEF ReconcileDocument
<1>9. LastOf(stored, P, no) = stored[i]
    <2> DEFINE T == {j \in P : stored[j].no = no}
    <2>1. T = {i}
        BY <1>1, <1>2 DEF Duplicates, Repeated
    <2>2. Len(stored) \in Nat /\ T \subseteq 1..Len(stored) /\ T # {}
        BY <2>1, <1>1, LinesAreTyped DEF CloseInv, Period
    <2> HIDE DEF T
    <2>3. Latest(T) \in T
        BY <2>2, FirstAndLast
    <2>4. Latest(T) = i
        BY <2>1, <2>3
    <2> QED
        BY <2>4 DEF LastOf, T
<1>10. PICK k \in C : sheet[k].no = no /\ LastOf(sheet, C, no) = sheet[k]
    <2> DEFINE T == {j \in C : sheet[j].no = no}
    <2>1. Len(sheet) \in Nat /\ C = 1..Len(sheet)
        BY SequencesHaveElements DEF CloseInv, IsParsed, IsSequence
    <2>2. T \subseteq 1..Len(sheet) /\ T # {}
        BY <1>7, <2>1 DEF Numbers
    <2> HIDE DEF T
    <2>3. Latest(T) \in T
        BY <2>1, <2>2, FirstAndLast
    <2> QED
        BY <2>3 DEF LastOf, T
<1>11. \A f \in {"taxable", "igst", "cgst", "sgst", "total"} :
          OsRow(stored[i])[f] = Magnitude(stored[i][f])
    BY DEF OsRow
<1> QED
    BY <1>8, <1>9, <1>10, <1>11

\* A review with nothing to attend to and matching totals leaves nothing of
\* worth out of the filings, and without duplicates everything it files was
\* compared with the client's sheet, signs apart (sales_reconciliation.reconcile_period,
\* gstr1_filing.generate_gstr1_filings).
THEOREM CleanReviewsAreComplete == CloseSpec => []CleanReviewIsComplete
<1>1. ASSUME CloseInv PROVE CleanReviewIsComplete
    <2> SUFFICES ASSUME phase = "reviewed", NeedsAttention = {}
                 PROVE  CleanReviewIsComplete
        BY DEF CleanReviewIsComplete
    <2>1. ASSUME TotalsMatch, \A i \in Period(stored) : CountsAsFiled(stored[i]),
                 Unknown \in DOMAIN filings
          PROVE  Magnitude(TotalTaxable(stored, filings[Unknown])) <= ReconTolerance
        <3> DEFINE U == {i \in Period(stored) : Routed(stored[i]) = Unknown}
                   os == NetTaxable([i \in DOMAIN stored |-> OsRow(stored[i])], Period(stored))
                   p == TotalTaxable(stored, Filed)
                   q == TotalTaxable(stored, U)
        <3>1. filings[Unknown] = U
            BY <1>1, <2>1, CleanFilings
        <3>2. os = p + q /\ p \in Int /\ q \in Int
            BY <1>1, <2>1, TotalsFallApart
        <3>3. Distance(os, p) <= ReconTolerance
            BY <2>1 DEF TotalsMatch
        <3> HIDE DEF os, p, q, U
        <3>4. Distance(os, p) = Distance(q, 0)
            BY <3>2 DEF Distance
        <3> QED
            BY <3>1, <3>3, <3>4 DEF q, Magnitude
    <2>2. ASSUME Duplicates = {}
          PROVE  \A i \in Filed : \E k \in DOMAIN sheet :
                    /\ sheet[k].no = stored[i].no
                    /\ \A f \in {"taxable", "igst", "cgst", "sgst", "total"} :
                          Distance(Magnitude(stored[i][f]), sheet[k][f]) <= ReconTolerance
        BY <1>1, <2>2, FiledLinesWereCompared
    <2> QED
        BY <2>1, <2>2 DEF CleanReviewIsComplete
<1> QED
    BY <1>1, ReviewsAreOfTheirLines, PTL
-----------------------------------------------------------------------------
(* The lines of each row of an ingested sheet, in their places.            *)

\* A sum over one thing is what that is worth.
LEMMA SumOfOne ==
    ASSUME NEW f, NEW x, f[x] \in Int
    PROVE  SumFunctionOnSet(f, {x}) = f[x]
<1> DEFINE T == {x}
<1>1. IsFiniteSet(T) /\ (\A y \in T : f[y] \in Int) /\ x \in T /\ T \ {x} = {}
    BY FS_Singleton
<1> HIDE DEF T
<1>2. SumFunctionOnSet(f, T) = f[x] + SumFunctionOnSet(f, T \ {x}) /\ SumFunctionOnSet(f, {}) = 0
    BY <1>1, SumTakes
<1>3. SumFunctionOnSet(f, T \ {x}) = 0
    BY <1>1, <1>2, Zenon
<1>4. SumFunctionOnSet(f, T) = f[x]
    BY <1>2, <1>3
<1> QED
    BY <1>4 DEF T

\* A sum does not change when its terms are carried to other places, one by
\* one.
LEMMA SumIsCarried ==
    ASSUME NEW K, NEW B, IsFiniteSet(K), IsFiniteSet(B), NEW f, NEW h, NEW at, at \in [K -> B],
           \A i \in K : h[i] \in Int /\ f[at[i]] = h[i],
           \A x \in B : \E i \in K : at[i] = x,
           \A i, j \in K : at[i] = at[j] => i = j
    PROVE  SumFunctionOnSet(f, B) = SumFunctionOnSet(h, K)
<1> DEFINE part == [i \in K |-> {at[i]}]
<1>1. \A x \in B : f[x] \in Int
    OBVIOUS
<1>2. ASSUME NEW i \in K PROVE part[i] \subseteq B /\ h[i] = SumFunctionOnSet(f, part[i])
    <2> DEFINE x == at[i]
    <2>1. f[x] \in Int /\ f[x] = h[i] /\ x \in B /\ part[i] = {x}
        OBVIOUS
    <2> HIDE DEF x, part
    <2>2. SumFunctionOnSet(f, {x}) = f[x]
        BY <2>1, SumOfOne
    <2> QED
        BY <2>1, <2>2
<1>3. /\ \A x \in B : \E i \in K : x \in part[i]
      /\ \A i, j \in K : \A x \in B : x \in part[i] /\ x \in part[j] => i = j
    OBVIOUS
<1> HIDE DEF part
<1>4. \A i \in K : part[i] \subseteq B /\ h[i] = SumFunctionOnSet(f, part[i])
    BY <1>2
<1>5. SumFunctionOnSet(h, K) = SumFunctionOnSet(f, B)
    BY <1>1, <1>3, <1>4, SumByGroups, SMTT(60)
<1> QED
    BY <1>5

\* The shares of a tax add up to it.
LEMMA SharesAddUp ==
    ASSUME NEW tax \in Int, NEW n \in Nat \ {0}, NEW buckets, buckets \in Seq(Range(buckets)),
           Len(buckets) = n, \A i \in 1..n : buckets[i].amount \in Int /\ buckets[i].amount > 0
    PROVE  SumFunctionOnSet(Shares(tax, buckets), 1..n) = tax
<1> DEFINE s == Shares(tax, buckets)
           all == SumFunction([i \in 1..n |-> buckets[i].amount])
           h == [j \in 1..n - 1 |-> Nearest(tax * buckets[j].amount, all)]
           R == 1..n - 1
<1>0. n \in Int /\ n - 1 \in Int /\ 1 \in Int
    OBVIOUS
<1>1. IsFiniteSet(1..n) /\ IsFiniteSet(R) /\ (1..n) \ {n} = R /\ n \in 1..n
    <2>1. IsFiniteSet(1..n) /\ IsFiniteSet(R)
        BY <1>0, FS_Interval
    <2>2. (1..n) \ {n} = R
        OBVIOUS
    <2> QED
        BY <2>1, <2>2
<1>2. \A i \in 1..n : s[i] \in Int
    BY SharesAreIntegers
<1>3. s[n] = tax - SumFunction(h) /\ \A i \in R : s[i] = h[i]
    BY DEF Shares
<1>4. SumFunction(h) = SumFunctionOnSet(h, R)
    BY DEF SumFunction
<1> HIDE DEF s, h, R
<1>5. SumFunctionOnSet(s, 1..n) = s[n] + SumFunctionOnSet(s, R)
    <2> DEFINE T == 1..n
    <2>1. IsFiniteSet(T) /\ n \in T /\ T \ {n} = R /\ \A i \in T : s[i] \in Int
        BY <1>1, <1>2
    <2> HIDE DEF T
    <2>2. \A x \in T : SumFunctionOnSet(s, T) = s[x] + SumFunctionOnSet(s, T \ {x})
        BY <2>1, SumTakes
    <2> QED
        BY <2>1, <2>2 DEF T
<1>6. \A i \in R : s[i] \in Int /\ s[i] = h[i]
    BY <1>1, <1>2, <1>3
<1>7. SumFunctionOnSet(s, R) = SumFunctionOnSet(h, R) /\ SumFunctionOnSet(s, R) \in Int
    BY <1>1, <1>6, SumAgrees, SumTakes
<1> QED
    BY <1>3, <1>4, <1>5, <1>7 DEF s

\* The lines of a row bear its number and its month, and its taxes.
LEMMA LinesOfARow ==
    ASSUME NEW row, IsRow(row), row.note # "untyped"
    PROVE  LET L == SheetLines(row)
           IN  /\ Len(L) \in Nat \ {0} /\ DOMAIN L = 1..Len(L)
               /\ row.note # "none" => Len(L) = 1
               /\ \A i \in 1..Len(L) : /\ L[i].no = row.no /\ L[i].month = row.month
                                       /\ L[i].against = NoNumber
                                       /\ \A f \in {"igst", "cgst", "sgst"} : L[i][f] \in Int
               /\ \A f \in {"igst", "cgst", "sgst"} :
                     SumFunctionOnSet([i \in 1..Len(L) |-> L[i][f]], 1..Len(L)) = row[f]
<1> DEFINE S == {i \in DOMAIN row.sections : row.sections[i].amount > 0}
           buckets == Kept(row.sections, S)
           igst == Shares(row.igst, buckets)
           cgst == Shares(row.cgst, buckets)
           sgst == Shares(row.sgst, buckets)
           many == [i \in DOMAIN buckets |->
                        [RowLine(row) EXCEPT
                           !.hsn = buckets[i].hsn, !.taxable = buckets[i].amount,
                           !.igst = igst[i], !.cgst = cgst[i], !.sgst = sgst[i],
                           !.total = buckets[i].amount + igst[i] + cgst[i] + sgst[i]]]
           one == <<RowLine(row)>>
           L == SheetLines(row)
           n == Len(L)
           Taxed == {"igst", "cgst", "sgst"}
<1>1. L = IF row.note # "none" \/ buckets = <<>> THEN one ELSE many
    BY DEF SheetLines
<1>2. buckets \in Seq(Range(buckets)) /\ \A x \in Range(buckets) : \E i \in S : x = row.sections[i]
    BY KeptIsASelection DEF IsRow
<1>3. \A i \in S : row.sections[i] \in Range(row.sections) /\ row.sections[i].amount > 0
    BY SequencesHaveElements DEF IsRow
<1>4. row.igst \in Int /\ row.cgst \in Int /\ row.sgst \in Int
    BY DEF IsRow, HasAmounts
<1> HIDE DEF S, buckets
<1>5. Len(buckets) \in Nat /\ DOMAIN buckets = 1..Len(buckets)
      /\ \A i \in DOMAIN buckets : buckets[i].amount \in Int /\ buckets[i].amount > 0
    BY <1>2, <1>3, SequencesHaveElements DEF IsRow
<1>6. CASE row.note # "none" \/ buckets = <<>>
    <2>0. Len(one) = 1 /\ DOMAIN one = 1..1 /\ one[1] = RowLine(row)
        OBVIOUS
    <2>1. L = one /\ n = 1 /\ DOMAIN L = 1..1 /\ L[1] = RowLine(row)
        <3> HIDE DEF one, L
        <3>1. L = one
            BY <1>1, <1>6
        <3> QED
            BY <2>0, <3>1
    <2>2. /\ RowLine(row).no = row.no /\ RowLine(row).month = row.month
          /\ RowLine(row).against = NoNumber
          /\ \A f \in Taxed : RowLine(row)[f] = row[f]
        BY DEF RowLine
    <2>3. \A f \in Taxed : row[f] \in Int
        BY <1>4
    <2> HIDE DEF L
    <2>4. ASSUME NEW f \in Taxed
          PROVE  SumFunctionOnSet([i \in 1..n |-> L[i][f]], 1..n) = row[f]
        <3> DEFINE h == [i \in 1..n |-> L[i][f]]
        <3>1. h[1] = row[f] /\ row[f] \in Int
            BY <2>1, <2>2, <2>3
        <3> DEFINE T == 1..n
        <3>2. T = {1}
            BY <2>1
        <3>3. 1 \in T /\ T \ {1} = {} /\ IsFiniteSet(T) /\ \A x \in T : h[x] \in Int
            BY <3>1, <3>2, FS_Singleton
        <3> HIDE DEF h, T
        <3>4. SumFunctionOnSet(h, T) = h[1] + SumFunctionOnSet(h, T \ {1}) /\ SumFunctionOnSet(h, {}) = 0
            BY <3>3, SumTakes
        <3>5. SumFunctionOnSet(h, T) = row[f]
            BY <3>1, <3>3, <3>4
        <3>6. SumFunctionOnSet(h, 1..n) = row[f]
            BY <3>5 DEF T
        <3> QED
            BY <3>6 DEF h
    <2> QED
        BY <2>1, <2>2, <2>3, <2>4 DEF L
<1>7. CASE ~(row.note # "none" \/ buckets = <<>>)
    <2>1. Len(buckets) \in Nat \ {0}
        BY <1>2, <1>7, EmptySeq
    <2>2. \A i \in 1..Len(buckets) : igst[i] \in Int /\ cgst[i] \in Int /\ sgst[i] \in Int
        BY <1>2, <1>4, <1>5, SharesAreIntegers
    <2>3. L = many
        BY <1>1, <1>7
    <2>4. many \in Seq(Range(many)) /\ Len(many) = Len(buckets)
        BY <1>5, CountedFromOne
    <2>5. n = Len(buckets) /\ DOMAIN L = 1..n
        BY <1>5, <2>3, <2>4
    <2> HIDE DEF igst, cgst, sgst
    <2>6. ASSUME NEW i \in 1..n
          PROVE  /\ L[i].no = row.no /\ L[i].month = row.month /\ L[i].against = NoNumber
                 /\ L[i].igst = igst[i] /\ L[i].cgst = cgst[i] /\ L[i].sgst = sgst[i]
        <3> DEFINE l == RowLine(row)
        <3>1. /\ l.no = row.no /\ l.month = row.month /\ l.against = NoNumber
              /\ {"no", "month", "against", "igst", "cgst", "sgst"} \subseteq DOMAIN l
            BY DEF RowLine
        <3>2. i \in DOMAIN buckets
            BY <1>5, <2>5
        <3> HIDE DEF L, n, l
        <3>3. L[i] = [l EXCEPT !.hsn = buckets[i].hsn, !.taxable = buckets[i].amount,
                               !.igst = igst[i], !.cgst = cgst[i], !.sgst = sgst[i],
                               !.total = buckets[i].amount + igst[i] + cgst[i] + sgst[i]]
            BY <2>3, <3>2 DEF l
        <3> QED
            BY <3>1, <3>3
    <2> HIDE DEF L, n, many, one
    <2>7. /\ SumFunctionOnSet(igst, 1..n) = row.igst /\ SumFunctionOnSet(cgst, 1..n) = row.cgst
          /\ SumFunctionOnSet(sgst, 1..n) = row.sgst
        <3>1. /\ SumFunctionOnSet(igst, 1..Len(buckets)) = row.igst
              /\ SumFunctionOnSet(cgst, 1..Len(buckets)) = row.cgst
              /\ SumFunctionOnSet(sgst, 1..Len(buckets)) = row.sgst
            BY <1>2, <1>4, <1>5, <2>1, SharesAddUp DEF igst, cgst, sgst
        <3> QED
            BY <2>5, <3>1
    <2>8. ASSUME NEW f \in Taxed, NEW s, \A i \in 1..n : s[i] \in Int /\ L[i][f] = s[i]
          PROVE  SumFunctionOnSet([i \in 1..n |-> L[i][f]], 1..n) = SumFunctionOnSet(s, 1..n)
        <3> DEFINE h == [i \in 1..n |-> L[i][f]]
        <3>1. \A i \in 1..n : s[i] \in Int /\ s[i] = h[i]
            BY <2>8
        <3>2. IsFiniteSet(1..n)
            BY <2>1, <2>5, FS_Interval
        <3> HIDE DEF h
        <3>3. SumFunctionOnSet(s, 1..n) = SumFunctionOnSet(h, 1..n)
            BY <3>1, <3>2, SumAgrees
        <3> QED
            BY <3>3 DEF h
    <2>9. /\ \A i \in 1..n : igst[i] \in Int /\ L[i]["igst"] = igst[i]
          /\ \A i \in 1..n : cgst[i] \in Int /\ L[i]["cgst"] = cgst[i]
          /\ \A i \in 1..n : sgst[i] \in Int /\ L[i]["sgst"] = sgst[i]
        BY <2>2, <2>5, <2>6
    <2>10. /\ SumFunctionOnSet([i \in 1..n |-> L[i]["igst"]], 1..n) = row.igst
           /\ SumFunctionOnSet([i \in 1..n |-> L[i]["cgst"]], 1..n) = row.cgst
           /\ SumFunctionOnSet([i \in 1..n |-> L[i]["sgst"]], 1..n) = row.sgst
        BY <2>7, <2>8, <2>9
    <2>11. \A f \in Taxed : SumFunctionOnSet([i \in 1..n |-> L[i][f]], 1..n) = row[f]
        BY <2>10
    <2>12. \A i \in 1..n : \A f \in Taxed : L[i][f] \in Int
        BY <2>9
    <2> QED
        BY <1>7, <2>1, <2>5, <2>6, <2>11, <2>12 DEF L, n
<1> QED
    BY <1>6, <1>7

\* Where the lines of a row begin: after those of the rows before it.
SizeOf(s, j) == IF j = 0 THEN 0 ELSE Len(SheetLines(s[j]))
Offset(s, k) == SumFunction([j \in 0..k - 1 |-> SizeOf(s, j)])

\* The first row begins at the first line, and the next one after it.
LEMMA RowsFollowOneAnother ==
    ASSUME NEW s, IsParsed(s)
    PROVE  /\ Offset(s, 1) = 0
           /\ \A k \in DOMAIN s : /\ SizeOf(s, k) = Len(SheetLines(s[k])) /\ SizeOf(s, k) \in Nat \ {0}
                                  /\ Offset(s, k + 1) = Offset(s, k) + SizeOf(s, k)
                                  /\ Offset(s, k) \in Int
<1>1. Len(s) \in Nat /\ DOMAIN s = 1..Len(s) /\ \A k \in DOMAIN s : IsRow(s[k]) /\ IsRead(s[k])
    BY SequencesHaveElements DEF IsParsed, IsSequence
<1>2. ASSUME NEW k \in DOMAIN s PROVE SizeOf(s, k) = Len(SheetLines(s[k])) /\ SizeOf(s, k) \in Nat \ {0}
    <2>1. k # 0 /\ IsRow(s[k]) /\ s[k].note # "untyped"
        BY <1>1 DEF IsRead
    <2>2. Len(SheetLines(s[k])) \in Nat \ {0}
        BY <2>1, LinesOfARow
    <2> QED
        BY <2>1, <2>2 DEF SizeOf
<1>3. SizeOf(s, 0) = 0
    BY DEF SizeOf
<1>4. ASSUME NEW k \in 1..Len(s) + 1
      PROVE  /\ IsFiniteSet(0..k - 1)
             /\ Offset(s, k) = SumFunctionOnSet([j \in 0..k - 1 |-> SizeOf(s, j)], 0..k - 1)
             /\ \A j \in 0..k - 1 : SizeOf(s, j) \in Int
    <2>1. 0 \in Int /\ k - 1 \in Int
        BY <1>1
    <2>2. \A j \in 0..k - 1 : j = 0 \/ j \in DOMAIN s
        BY <1>1
    <2>3. IsFiniteSet(0..k - 1)
        BY <2>1, FS_Interval
    <2>4. \A j \in 0..k - 1 : SizeOf(s, j) \in Int
        BY <1>2, <1>3, <2>2
    <2> QED
        BY <2>3, <2>4 DEF Offset, SumFunction
<1>5. Offset(s, 1) = 0
    <2> DEFINE T == 0..1 - 1
               f == [j \in T |-> SizeOf(s, j)]
    <2>1. T = {0}
        OBVIOUS
    <2>2. 1 \in 1..Len(s) + 1
        BY <1>1
    <2>3. Offset(s, 1) = SumFunctionOnSet(f, T) /\ IsFiniteSet(T)
        BY <1>4, <2>2
    <2>4. f[0] = 0 /\ 0 \in T /\ T \ {0} = {} /\ \A j \in T : f[j] \in Int
        BY <1>3, <2>1
    <2> HIDE DEF f, T
    <2>5. SumFunctionOnSet(f, T) = f[0] + SumFunctionOnSet(f, T \ {0}) /\ SumFunctionOnSet(f, {}) = 0
        BY <2>3, <2>4, SumTakes
    <2> QED
        BY <2>3, <2>4, <2>5
<1>6. ASSUME NEW k \in DOMAIN s
      PROVE  Offset(s, k + 1) = Offset(s, k) + SizeOf(s, k) /\ Offset(s, k) \in Int
    <2> DEFINE T == 0..k - 1
               U == 0..(k + 1) - 1
               f == [j \in T |-> SizeOf(s, j)]
               h == [j \in U |-> SizeOf(s, j)]
    <2>1. k \in 1..Len(s) + 1 /\ k + 1 \in 1..Len(s) + 1
        BY <1>1
    <2>2. /\ IsFiniteSet(T) /\ Offset(s, k) = SumFunctionOnSet(f, T)
          /\ \A j \in T : SizeOf(s, j) \in Int
        BY <1>4, <2>1
    <2>3. /\ IsFiniteSet(U) /\ Offset(s, k + 1) = SumFunctionOnSet(h, U)
          /\ \A j \in U : SizeOf(s, j) \in Int
        BY <1>4, <2>1
    <2>4. k \in U /\ U \ {k} = T
        BY <1>1
    <2>5. /\ \A j \in U : h[j] \in Int
          /\ \A j \in T : f[j] \in Int /\ f[j] = h[j]
          /\ h[k] = SizeOf(s, k)
        BY <2>2, <2>3, <2>4
    <2> HIDE DEF T, U, f, h
    <2>6. SumFunctionOnSet(h, U) = h[k] + SumFunctionOnSet(h, U \ {k})
        BY <2>3, <2>4, <2>5, SumTakes
    <2>7. SumFunctionOnSet(f, T) = SumFunctionOnSet(h, T) /\ SumFunctionOnSet(f, T) \in Int
        BY <2>2, <2>5, SumAgrees, SumTakes
    <2>8. SizeOf(s, k) \in Int
        BY <1>2
    <2>9. Offset(s, k + 1) = SizeOf(s, k) + Offset(s, k) /\ Offset(s, k) \in Int
        BY <2>2, <2>3, <2>4, <2>5, <2>6, <2>7
    <2> QED
        BY <2>8, <2>9
<1> QED
    BY <1>2, <1>5, <1>6

\* A line that stands for the i-th line of a row: from a note's PDF it may
\* have other amounts.
StandsFor(l, row, i) ==
    /\ l.no = row.no
    /\ row.note = "none" => l = SheetLines(row)[i]

\* The first m rows of a sheet are stored, and the rest is planned.
InPlace(lines, s, p, m) ==
    /\ m \in Nat /\ Len(s) = m + Len(p)
    /\ \A j \in DOMAIN p :
           /\ Len(p[j]) = SizeOf(s, m + j)
           /\ \A i \in 1..SizeOf(s, m + j) : StandsFor(p[j][i], s[m + j], i)
    /\ p # <<>> => Len(lines) = Offset(s, m + 1)
    /\ \A k \in 1..m : /\ Offset(s, k) \in Nat
                       /\ Offset(s, k + 1) <= Len(lines)
                       /\ \A i \in 1..SizeOf(s, k) : StandsFor(lines[Offset(s, k) + i], s[k], i)

WholeInv ==
    whole => /\ phase # "storing" => plan = <<>>
             /\ \E m \in Nat : InPlace(stored, sheet, plan, m)

\* A group has as many lines as its row becomes, and they stand for them.
LEMMA GroupsFitTheirRows ==
    ASSUME NEW row, IsRow(row), row.note # "untyped", NEW pdfs, ArePdfs(pdfs)
    PROVE  /\ Len(GroupOf(row, pdfs)) = Len(SheetLines(row))
           /\ \A i \in 1..Len(SheetLines(row)) : StandsFor(GroupOf(row, pdfs)[i], row, i)
<1> DEFINE found == NotesOf(row, pdfs)
           pdf == pdfs[Earliest(found)]
           line == [pdf.line EXCEPT !.note = row.note, !.party = row.party, !.pos = row.pos]
           one == <<line>>
<1>1. CASE row.note # "none" /\ found # {} /\ pdf.text = "credit_note"
    <2>1. Len(pdfs) \in Nat /\ found \subseteq 1..Len(pdfs)
        BY SequencesHaveElements DEF ArePdfs, IsSequence, NotesOf
    <2>2. Earliest(found) \in found
        <3> HIDE DEF found
        <3> QED
            BY <1>1, <2>1, FirstAndLast
    <2>3. IsLine(pdf.line)
        <3> HIDE DEF found
        <3> QED
            BY <2>1, <2>2, SequencesHaveElements DEF ArePdfs, IsSequence
    <2>4. pdf.line.no = row.no
        BY <2>2 DEF NotesOf
    <2>5. GroupOf(row, pdfs) = one
        BY <1>1 DEF GroupOf
    <2>6. Len(SheetLines(row)) = 1
        BY <1>1, LinesOfARow
    <2> HIDE DEF pdf
    <2>7. line.no = row.no
        BY <2>3, <2>4 DEF IsLine
    <2> HIDE DEF line
    <2>8. Len(one) = 1 /\ one[1] = line
        OBVIOUS
    <2> HIDE DEF one
    <2> QED
        BY <1>1, <2>5, <2>6, <2>7, <2>8 DEF StandsFor
<1>2. CASE ~(row.note # "none" /\ found # {} /\ pdf.text = "credit_note")
    <2>1. GroupOf(row, pdfs) = SheetLines(row)
        BY <1>2 DEF GroupOf
    <2>2. \A i \in 1..Len(SheetLines(row)) : SheetLines(row)[i].no = row.no
        BY LinesOfARow
    <2> QED
        BY <2>1, <2>2 DEF StandsFor
<1> QED
    BY <1>1, <1>2

\* A plan begins with one fitting group per row.
LEMMA SheetFirstFits ==
    ASSUME CloseInv, NEW raw \in Sheets, NEW pdfs \in PdfSets, SheetFirst(raw, pdfs)
    PROVE  WholeInv'
<1> DEFINE p == [i \in DOMAIN sheet' |-> GroupOf(sheet'[i], pdfs)]
<1>1. ArePdfs(pdfs) /\ IsParsed(sheet')
    BY InputsAreTyped, ParsedRows DEF SheetFirst
<1>2. Len(sheet') \in Nat /\ DOMAIN sheet' = 1..Len(sheet') /\ \A i \in DOMAIN sheet' : sheet'[i] \in Range(sheet')
    BY <1>1, SequencesHaveElements DEF IsParsed, IsSequence
<1>3. plan' = p /\ stored' = stored /\ phase' = "storing" /\ whole' = (stored = <<>>)
    BY DEF SheetFirst
<1>4. Len(p) = Len(sheet') /\ DOMAIN p = DOMAIN sheet'
    BY <1>2, CountedFromOne
<1>5. ASSUME NEW j \in DOMAIN sheet'
      PROVE  /\ Len(p[j]) = SizeOf(sheet', j)
             /\ \A i \in 1..SizeOf(sheet', j) : StandsFor(p[j][i], sheet'[j], i)
    <2>1. IsRow(sheet'[j]) /\ sheet'[j].note # "untyped"
        BY <1>1, <1>2 DEF IsParsed, IsRead
    <2>2. SizeOf(sheet', j) = Len(SheetLines(sheet'[j]))
        BY <1>1, RowsFollowOneAnother
    <2>3. p[j] = GroupOf(sheet'[j], pdfs)
        OBVIOUS
    <2> HIDE DEF p
    <2> QED
        BY <1>1, <2>1, <2>2, <2>3, GroupsFitTheirRows
<1>6. stored = <<>> => Len(stored) = Offset(sheet', 1)
    BY <1>1, RowsFollowOneAnother, EmptySeq
<1> HIDE DEF p
<1>7. /\ Len(sheet') = 0 + Len(p) /\ 0 + 1 = 1 /\ \A k : k \notin 1..0
      /\ \A j \in DOMAIN p : 0 + j = j
    BY <1>2, <1>4
<1>8. stored = <<>> => InPlace(stored, sheet', p, 0)
    BY <1>4, <1>5, <1>6, <1>7 DEF InPlace
<1> QED
    BY <1>3, <1>8 DEF WholeInv

\* A document's lines are put after those of the rows before it.
LEMMA DocumentsArePutInPlace ==
    ASSUME NEW lines, IsBook(lines), NEW s, IsParsed(s), NEW p, IsPlan(p), p # <<>>,
           NEW m, InPlace(lines, s, p, m)
    PROVE  InPlace(lines \o Head(p), s, Tail(p), m + 1)
<1> DEFINE g == Head(p)
           r == Tail(p)
           new == lines \o g
<1>1. /\ Len(s) \in Nat /\ DOMAIN s = 1..Len(s) /\ Len(p) \in Nat /\ DOMAIN p = 1..Len(p)
      /\ Len(lines) \in Nat
    BY SequencesHaveElements DEF IsParsed, IsPlan, IsBook, IsSequence
<1>2. Len(p) \in Nat \ {0}
    BY EmptySeq DEF IsPlan, IsSequence
<1>3. /\ g = p[1] /\ g \in Range(p) /\ r \in Seq(Range(p)) /\ Len(r) = Len(p) - 1
      /\ \A i \in 1..Len(r) : r[i] = p[i + 1]
    BY HeadTailProperties DEF IsPlan, IsSequence
<1>4. DOMAIN r = 1..Len(r)
    BY <1>3, LenProperties
<1>5. /\ IsBook(g) /\ Len(g) \in Nat
    BY <1>3, SequencesHaveElements DEF IsPlan, IsBook, IsSequence
<1>6. /\ Len(new) = Len(lines) + Len(g)
      /\ \A i \in 1..Len(lines) + Len(g) : new[i] = IF i <= Len(lines) THEN lines[i] ELSE g[i - Len(lines)]
    <2> DEFINE R == Range(lines) \cup Range(g)
    <2>1. lines \in Seq(R) /\ g \in Seq(R)
        BY <1>5, SeqMonotonic DEF IsBook, IsSequence
    <2> HIDE DEF R, g
    <2> QED
        BY <2>1, ConcatProperties
<1> HIDE DEF g, r, new
<1>7. /\ m \in Nat /\ Len(s) = m + Len(p) /\ Len(lines) = Offset(s, m + 1)
      /\ \A j \in DOMAIN p : /\ Len(p[j]) = SizeOf(s, m + j)
                             /\ \A i \in 1..SizeOf(s, m + j) : StandsFor(p[j][i], s[m + j], i)
      /\ \A k \in 1..m : /\ Offset(s, k) \in Nat /\ Offset(s, k + 1) <= Len(lines)
                         /\ \A i \in 1..SizeOf(s, k) : StandsFor(lines[Offset(s, k) + i], s[k], i)
    BY DEF InPlace
<1>8. m + 1 \in DOMAIN s /\ 1 \in DOMAIN p /\ \A k \in 1..m : k \in DOMAIN s
    BY <1>1, <1>2, <1>7
<1>9. \A k \in DOMAIN s : /\ SizeOf(s, k) \in Nat \ {0} /\ Offset(s, k) \in Int
                          /\ Offset(s, k + 1) = Offset(s, k) + SizeOf(s, k)
    BY RowsFollowOneAnother
<1>10. /\ Len(g) = SizeOf(s, m + 1)
       /\ \A i \in 1..SizeOf(s, m + 1) : StandsFor(g[i], s[m + 1], i)
    BY <1>3, <1>7, <1>8
<1>11. Offset(s, (m + 1) + 1) = Len(new)
    BY <1>6, <1>7, <1>8, <1>9, <1>10
<1>12. m + 1 \in Nat /\ Len(s) = (m + 1) + Len(r)
    BY <1>1, <1>3, <1>7
<1>13. ASSUME NEW j \in DOMAIN r
       PROVE  /\ Len(r[j]) = SizeOf(s, (m + 1) + j)
              /\ \A i \in 1..SizeOf(s, (m + 1) + j) : StandsFor(r[j][i], s[(m + 1) + j], i)
    <2>1. j + 1 \in DOMAIN p /\ r[j] = p[j + 1] /\ m + (j + 1) = (m + 1) + j
        BY <1>1, <1>3, <1>4, <1>7
    <2> QED
        BY <1>7, <2>1
<1>14. ASSUME NEW k \in 1..m + 1
       PROVE  /\ Offset(s, k) \in Nat /\ Offset(s, k + 1) <= Len(new)
              /\ \A i \in 1..SizeOf(s, k) : StandsFor(new[Offset(s, k) + i], s[k], i)
    <2>1. CASE k = m + 1
        <3>1. Offset(s, k) = Len(lines) /\ Offset(s, k + 1) = Len(new)
            BY <1>7, <1>11, <2>1
        <3>2. ASSUME NEW i \in 1..SizeOf(s, k) PROVE new[Len(lines) + i] = g[i]
            <4>1. i \in 1..Len(g)
                BY <1>10, <2>1
            <4>2. Len(lines) + i \in 1..Len(lines) + Len(g) /\ ~(Len(lines) + i <= Len(lines))
                  /\ (Len(lines) + i) - Len(lines) = i
                BY <1>1, <1>5, <4>1
            <4> QED
                BY <1>6, <4>2
        <3>3. Len(new) <= Len(new)
            BY <1>1, <1>5, <1>6
        <3> QED
            BY <1>1, <1>10, <2>1, <3>1, <3>2, <3>3
    <2>2. CASE k # m + 1
        <3>1. k \in 1..m
            BY <1>7, <2>2
        <3>2. /\ Offset(s, k) \in Nat /\ Offset(s, k + 1) <= Len(lines)
              /\ Offset(s, k + 1) = Offset(s, k) + SizeOf(s, k) /\ SizeOf(s, k) \in Nat
            BY <1>7, <1>8, <1>9, <3>1
        <3>3. ASSUME NEW i \in 1..SizeOf(s, k) PROVE new[Offset(s, k) + i] = lines[Offset(s, k) + i]
            <4>1. Offset(s, k) + i \in 1..Len(lines) + Len(g) /\ Offset(s, k) + i <= Len(lines)
                BY <1>1, <1>5, <3>2
            <4> QED
                BY <1>6, <4>1
        <3>4. Offset(s, k + 1) <= Len(new)
            BY <1>1, <1>5, <1>6, <3>2
        <3> QED
            BY <1>7, <3>1, <3>2, <3>3, <3>4
    <2> QED
        BY <2>1, <2>2
<1>15. InPlace(new, s, r, m + 1)
    BY <1>11, <1>12, <1>13, <1>14 DEF InPlace
<1> QED
    BY <1>15 DEF new, r, g

\* What is appended after the last row's lines leaves them in place.
LEMMA AppendedLinesFollow ==
    ASSUME NEW lines, IsBook(lines), NEW s, IsParsed(s), NEW m, InPlace(lines, s, <<>>, m), NEW l
    PROVE  InPlace(Append(lines, l), s, <<>>, m)
<1> DEFINE new == Append(lines, l)
<1>1. Len(s) \in Nat /\ DOMAIN s = 1..Len(s) /\ Len(lines) \in Nat
    BY SequencesHaveElements DEF IsParsed, IsBook, IsSequence
<1>2. Len(new) = Len(lines) + 1 /\ \A i \in 1..Len(lines) : new[i] = lines[i]
    <2> DEFINE R == Range(lines) \cup {l}
    <2>1. lines \in Seq(R) /\ l \in R
        BY SeqMonotonic DEF IsBook, IsSequence
    <2> HIDE DEF R
    <2> QED
        BY <2>1, AppendProperties
<1> HIDE DEF new
<1> DEFINE none == <<>>
<1>3. Len(none) = 0 /\ DOMAIN none = {}
    OBVIOUS
<1> HIDE DEF none
<1>4. /\ m \in Nat /\ Len(s) = m + Len(none)
      /\ \A k \in 1..m : /\ Offset(s, k) \in Nat /\ Offset(s, k + 1) <= Len(lines)
                         /\ \A i \in 1..SizeOf(s, k) : StandsFor(lines[Offset(s, k) + i], s[k], i)
    BY DEF InPlace, none
<1>5. \A k \in DOMAIN s : SizeOf(s, k) \in Nat \ {0} /\ Offset(s, k + 1) = Offset(s, k) + SizeOf(s, k)
    BY RowsFollowOneAnother
<1>6. ASSUME NEW k \in 1..m
      PROVE  /\ Offset(s, k) \in Nat /\ Offset(s, k + 1) <= Len(new)
             /\ \A i \in 1..SizeOf(s, k) : StandsFor(new[Offset(s, k) + i], s[k], i)
    <2>1. k \in DOMAIN s
        BY <1>1, <1>3, <1>4
    <2>2. /\ Offset(s, k) \in Nat /\ Offset(s, k + 1) <= Len(lines)
          /\ Offset(s, k + 1) = Offset(s, k) + SizeOf(s, k) /\ SizeOf(s, k) \in Nat
        BY <1>4, <1>5, <2>1
    <2>3. ASSUME NEW i \in 1..SizeOf(s, k) PROVE new[Offset(s, k) + i] = lines[Offset(s, k) + i]
        <3>1. Offset(s, k) + i \in 1..Len(lines)
            BY <1>1, <2>2
        <3> QED
            BY <1>2, <3>1
    <2>4. Offset(s, k + 1) <= Len(new)
        BY <1>1, <1>2, <2>2
    <2> QED
        BY <1>4, <2>2, <2>3, <2>4
<1>7. InPlace(new, s, none, m)
    BY <1>3, <1>4, <1>6 DEF InPlace, none
<1> QED
    BY <1>7 DEF new, none

\* Initially nothing claims to be whole.
LEMMA WholeStarts == CloseInit => WholeInv
    BY DEF CloseInit, WholeInv

\* Every step keeps what was stored of the sheet in its place.
LEMMA WholeContinues == CloseInv /\ WholeInv /\ [CloseNext]_closeVars => WholeInv'
<1> SUFFICES ASSUME CloseInv, WholeInv, [CloseNext]_closeVars PROVE WholeInv'
    OBVIOUS
<1>0. IsBook(stored) /\ IsParsed(sheet) /\ IsPlan(plan)
    BY DEF CloseInv
<1>1. ASSUME NEW raw \in Sheets, NEW pdfs \in PdfSets, SheetFirst(raw, pdfs) PROVE WholeInv'
    BY <1>1, SheetFirstFits
<1>2. ASSUME NEW raw \in Sheets, GenerateReview(raw) PROVE WholeInv'
    <2>1. /\ phase = "open" /\ UNCHANGED <<stored, plan>>
          /\ whole' => whole /\ sheet' = sheet
        BY <1>2 DEF GenerateReview
    <2> QED
        BY <2>1 DEF WholeInv
<1>3. CASE StoreDocument
    <2>1. /\ plan # <<>> /\ stored' = stored \o Head(plan) /\ plan' = Tail(plan)
          /\ phase' = "storing" /\ sheet' = sheet /\ whole' = whole
        BY <1>3 DEF StoreDocument
    <2>2. ASSUME whole PROVE \E m \in Nat : InPlace(stored \o Head(plan), sheet, Tail(plan), m)
        <3>1. PICK m \in Nat : InPlace(stored, sheet, plan, m)
            BY <2>2 DEF WholeInv
        <3>2. InPlace(stored \o Head(plan), sheet, Tail(plan), m + 1)
            BY <1>0, <2>1, <3>1, DocumentsArePutInPlace
        <3> QED
            BY <3>2
    <2> QED
        BY <2>1, <2>2 DEF WholeInv
<1>4. CASE StoreGap
    <2>1. PICK l : stored' = stored \/ stored' = Append(stored, l)
        BY <1>4 DEF StoreGap
    <2>2. /\ plan = <<>> /\ UNCHANGED <<plan, sheet>> /\ phase' = "storing"
          /\ whole' => whole
        BY <1>4 DEF StoreGap
    <2>3. ASSUME whole' PROVE \E m \in Nat : InPlace(stored', sheet, <<>>, m)
        <3>1. PICK m \in Nat : InPlace(stored, sheet, <<>>, m)
            BY <2>2, <2>3 DEF WholeInv
        <3>2. InPlace(Append(stored, l), sheet, <<>>, m)
            BY <1>0, <3>1, AppendedLinesFollow
        <3> QED
            BY <2>1, <3>1, <3>2
    <2> QED
        BY <2>2, <2>3 DEF WholeInv
<1>5. CASE EndIngestion
    BY <1>5 DEF WholeInv, EndIngestion
<1>6. CASE AbortIngestion
    BY <1>6 DEF WholeInv, AbortIngestion
<1>7. CASE UNCHANGED closeVars
    BY <1>7 DEF WholeInv, closeVars
<1> QED
    BY <1>1, <1>2, <1>3, <1>4, <1>5, <1>6, <1>7 DEF CloseNext

\* The lines of a row of an ingested sheet stand for it, and are alike in
\* what decides where they are filed.
LEMMA LinesOfARowAreAlike ==
    ASSUME IsBook(stored), IsParsed(sheet), NEW m, InPlace(stored, sheet, <<>>, m), NEW k \in DOMAIN sheet
    PROVE  LET o == Offset(sheet, k)
               n == SizeOf(sheet, k)
           IN  /\ Block(k) = o + 1..o + n /\ o \in Int /\ n \in Nat \ {0}
               /\ Block(k) # {} /\ Block(k) \subseteq DOMAIN stored
               /\ \A i \in 1..n : StandsFor(stored[o + i], sheet[k], i)
               /\ \A i \in Block(k) : stored[i].no = sheet[k].no
               /\ \A i, j \in Block(k) : /\ stored[i].month = stored[j].month
                                         /\ stored[i].against = stored[j].against
<1> DEFINE o == Offset(sheet, k)
           n == SizeOf(sheet, k)
           B == o + 1..o + n
           none == <<>>
           row == sheet[k]
<1>1. /\ Len(sheet) \in Nat /\ DOMAIN sheet = 1..Len(sheet) /\ Len(stored) \in Nat
      /\ DOMAIN stored = 1..Len(stored) /\ IsRow(row) /\ IsRead(row)
    BY SequencesHaveElements DEF IsParsed, IsBook, IsSequence
<1>2. /\ n = Len(SheetLines(row)) /\ n \in Nat \ {0} /\ o \in Int
      /\ Offset(sheet, k + 1) = o + n
    BY RowsFollowOneAnother
<1>3. Len(none) = 0
    OBVIOUS
<1> HIDE DEF none
<1>4. /\ m \in Nat /\ Len(sheet) = m + Len(none)
      /\ \A j \in 1..m : /\ Offset(sheet, j) \in Nat /\ Offset(sheet, j + 1) <= Len(stored)
                         /\ \A i \in 1..SizeOf(sheet, j) : StandsFor(stored[Offset(sheet, j) + i], sheet[j], i)
    BY DEF InPlace, none
<1>5. k \in 1..m
    BY <1>1, <1>3, <1>4
<1>6. o \in Nat /\ o + n <= Len(stored) /\ \A i \in 1..n : StandsFor(stored[o + i], row, i)
    BY <1>2, <1>4, <1>5
<1>7. Block(k) = B
    <2>1. k # 0
        BY <1>1
    <2> QED
        BY <2>1 DEF Block, Offset, SizeOf
<1> HIDE DEF o, n, row
<1>8. B # {} /\ B \subseteq DOMAIN stored /\ \A i \in B : i - o \in 1..n /\ o + (i - o) = i
    BY <1>1, <1>2, <1>6
<1>9. ASSUME NEW i \in B PROVE StandsFor(stored[i], row, i - o)
    BY <1>6, <1>8
<1>10. \A i \in B : stored[i].no = row.no
    BY <1>9 DEF StandsFor
<1>11. ASSUME NEW i \in B, NEW j \in B
       PROVE  stored[i].month = stored[j].month /\ stored[i].against = stored[j].against
    <2>1. CASE row.note = "none"
        <3>1. /\ stored[i] = SheetLines(row)[i - o] /\ i - o \in 1..n
              /\ stored[j] = SheetLines(row)[j - o] /\ j - o \in 1..n
            BY <1>8, <1>9, <2>1 DEF StandsFor
        <3>2. \A x \in 1..n : SheetLines(row)[x].month = row.month /\ SheetLines(row)[x].against = NoNumber
            BY <1>1, <1>2, LinesOfARow DEF IsRead
        <3> QED
            BY <3>1, <3>2
    <2>2. CASE row.note # "none"
        <3>1. n = 1
            BY <1>1, <1>2, <2>2, LinesOfARow DEF IsRead
        <3>2. i = j
            BY <1>6, <3>1
        <3> QED
            BY <3>2
    <2> QED
        BY <2>1, <2>2
<1> QED
    BY <1>2, <1>6, <1>7, <1>8, <1>10, <1>11 DEF o, n, row

\* They carry the taxes of the row.
LEMMA LinesCarryTheTaxes ==
    ASSUME IsBook(stored), IsParsed(sheet), NEW m, InPlace(stored, sheet, <<>>, m),
           NEW k \in DOMAIN sheet, sheet[k].note = "none", NEW t \in {"igst", "cgst", "sgst"}
    PROVE  Total([i \in Block(k) |-> stored[i][t]], Block(k)) = sheet[k][t]
<1> DEFINE o == Offset(sheet, k)
           n == SizeOf(sheet, k)
           B == Block(k)
           L == SheetLines(sheet[k])
           h == [i \in 1..n |-> L[i][t]]
           f == [i \in B |-> stored[i][t]]
<1>1. IsRow(sheet[k]) /\ IsRead(sheet[k]) /\ n = Len(L)
    <2>1. n = Len(L)
        BY RowsFollowOneAnother
    <2> QED
        BY <2>1, SequencesHaveElements DEF IsParsed, IsSequence
<1>2. /\ B = o + 1..o + n /\ o \in Int /\ n \in Nat
      /\ \A i \in 1..n : StandsFor(stored[o + i], sheet[k], i)
    BY LinesOfARowAreAlike
<1>3. /\ SumFunctionOnSet([i \in 1..Len(L) |-> L[i][t]], 1..Len(L)) = sheet[k][t]
      /\ \A i \in 1..Len(L) : L[i][t] \in Int
    BY <1>1, LinesOfARow DEF IsRead
<1>4. SumFunctionOnSet(h, 1..n) = sheet[k][t] /\ \A i \in 1..n : L[i][t] \in Int
    BY <1>1, <1>3
<1> HIDE DEF o, n, B, L
<1>5. ASSUME NEW i \in 1..n PROVE h[i] \in Int /\ f[o + i] = h[i]
    <2>1. o + i \in B
        BY <1>2
    <2>2. stored[o + i] = L[i]
        BY <1>2 DEF StandsFor, L
    <2> QED
        BY <1>4, <2>1, <2>2
<1> HIDE DEF f, h
<1> DEFINE K == 1..n
           at == [i \in K |-> o + i]
<1>6. SumFunctionOnSet(f, B) = SumFunctionOnSet(h, K)
    <2>1. IsFiniteSet(K) /\ IsFiniteSet(B)
        <3>1. 1 \in Int /\ n \in Int /\ o + 1 \in Int /\ o + n \in Int
            BY <1>2
        <3> QED
            BY <1>2, <3>1, FS_Interval
    <2>2. /\ at \in [K -> B]
          /\ \A i, j \in K : at[i] = at[j] => i = j
        BY <1>2
    <2>3. \A x \in B : \E i \in K : at[i] = x
        <3> SUFFICES ASSUME NEW x \in B PROVE \E i \in K : at[i] = x
            OBVIOUS
        <3>1. x - o \in K /\ at[x - o] = x
            BY <1>2
        <3> QED
            BY <3>1
    <2>4. \A i \in K : h[i] \in Int /\ f[at[i]] = h[i]
        BY <1>5
    <2> HIDE DEF K, at
    <2> QED
        BY <2>1, <2>2, <2>3, <2>4, SumIsCarried
<1>7. SumFunctionOnSet(f, B) = sheet[k][t]
    BY <1>2, <1>4, <1>6
<1> QED
    BY <1>7 DEF Total, f, B

\* What is skipped for want of a GSTIN is so for the last line of its number.
LEMMA SkippedLinesHaveNoBuyer ==
    ASSUME NEW lines, NEW rows, NEW i \in Period(lines), IsSkipped(lines[i], ReconcilePeriod(lines, rows)),
           Strip(lines[i].no) = lines[i].no
    PROVE  LET no == lines[i].no
               status == ReconcilePeriod(lines, rows)
           IN  /\ no \in DOMAIN status /\ status[no] = "UNVERIFIABLE_NO_GSTIN"
               /\ LastOf(lines, Period(lines), no).party = NoGstin
<1> DEFINE no == lines[i].no
           S == Period(lines)
           C == DOMAIN rows
           status == ReconcilePeriod(lines, rows)
<1>1. no \in Numbers(lines, S)
    BY DEF Numbers
<1>2. no \in DOMAIN status /\ status[no] \in Excluded
    BY DEF IsSkipped
<1>3. /\ DOMAIN status = Numbers(lines, S) \cup Numbers(rows, C)
      /\ status[no] = IF no \notin Numbers(lines, S) THEN "MISSING_SOURCE_PDF"
                      ELSE IF no \notin Numbers(rows, C) THEN "CLIENT_MISSING"
                      ELSE ReconcileDocument(OsRow(LastOf(lines, S, no)), LastOf(rows, C, no))
    BY <1>2 DEF ReconcilePeriod
<1> HIDE DEF status, S, no
<1>4. status[no] = ReconcileDocument(OsRow(LastOf(lines, S, no)), LastOf(rows, C, no))
      /\ status[no] = "UNVERIFIABLE_NO_GSTIN"
    <2>1. \A a, b : ReconcileDocument(a, b) \in {"UNVERIFIABLE_NO_GSTIN", "PASS", "CLIENT_SHEET_ERROR", "UNRESOLVED_CONFLICT"}
        BY DEF ReconcileDocument
    <2> QED
        BY <1>1, <1>2, <1>3, <2>1 DEF Excluded
<1>5. OsRow(LastOf(lines, S, no)).party = NoGstin
    <2>1. \A a, b : ReconcileDocument(a, b) = "UNVERIFIABLE_NO_GSTIN" => a.party = NoGstin
        BY DEF ReconcileDocument
    <2> QED
        BY <1>4, <2>1
<1>6. LastOf(lines, S, no).party = NoGstin
    BY <1>5 DEF OsRow
<1> QED
    BY <1>2, <1>4, <1>6 DEF status, S, no

\* The lines of a row are in one filing, or in none for a reason.
LEMMA RowsAreFiledTogether ==
    ASSUME CloseInv, WholeInv, phase = "reviewed", whole, NEW k \in DOMAIN sheet
    PROVE  LET B    == Block(k)
               line == stored[Earliest(B)]
               keys == {g \in DOMAIN filings : B \cap filings[g] # {}}
           IN  \/ keys = {Routed(line)} /\ B \subseteq filings[Routed(line)]
               \/ keys = {} /\ ~line.month
               \/ /\ keys = {} /\ line.no \in NeedsAttention
                  /\ LastOf(stored, Period(stored), line.no).party = NoGstin
<1> DEFINE B == Block(k)
           first == Earliest(B)
           line == stored[first]
           keys == {g \in DOMAIN filings : B \cap filings[g] # {}}
           S == Period(stored)
           included == {i \in S : ~IsSkipped(stored[i], entries)}
<1>1. /\ IsBook(stored) /\ IsParsed(sheet) /\ entries = ReconcilePeriod(stored, sheet)
      /\ filings = Filings(stored, entries)
    BY DEF CloseInv
<1>2. PICK m \in Nat : InPlace(stored, sheet, <<>>, m)
    BY DEF WholeInv
<1>3. /\ B # {} /\ B \subseteq DOMAIN stored
      /\ \A i \in B : stored[i].no = sheet[k].no
      /\ \A i, j \in B : stored[i].month = stored[j].month /\ stored[i].against = stored[j].against
    BY <1>1, <1>2, LinesOfARowAreAlike
<1>4. Len(stored) \in Nat /\ DOMAIN stored = 1..Len(stored)
    BY <1>1, SequencesHaveElements DEF IsBook, IsSequence
<1> HIDE DEF B
<1>5. first \in B
    BY <1>3, <1>4, FirstAndLast
<1>6. IsRead(sheet[k])
    BY <1>1, SequencesHaveElements DEF IsParsed, IsSequence
<1>7. line.no = sheet[k].no /\ line.no # NoNumber /\ Strip(line.no) = line.no
    BY <1>3, <1>5, <1>6 DEF IsRead
<1>8. ASSUME NEW i \in B
      PROVE  /\ Routed(stored[i]) = Routed(line) /\ stored[i].month = line.month
             /\ IsSkipped(stored[i], entries) = IsSkipped(line, entries)
    <2>1. stored[i].no = line.no /\ stored[i].against = line.against /\ stored[i].month = line.month
        BY <1>3, <1>5
    <2> HIDE DEF line
    <2> QED
        BY <2>1 DEF Routed, IsSkipped
<1>9. /\ DOMAIN filings = {Routed(stored[i]) : i \in included}
      /\ \A g \in DOMAIN filings : filings[g] = {i \in included : Routed(stored[i]) = g}
    BY <1>1 DEF Filings
<1>10. \A i \in B : i \in S <=> line.month
    BY <1>3, <1>8 DEF Period
<1> HIDE DEF line, S
<1>11. CASE line.month /\ ~IsSkipped(line, entries)
    <2>1. \A i \in B : i \in included
        BY <1>8, <1>10, <1>11
    <2>2. Routed(line) \in DOMAIN filings /\ B \subseteq filings[Routed(line)]
        BY <1>5, <1>8, <1>9, <2>1
    <2>3. \A g \in keys : g = Routed(line)
        BY <1>8, <1>9
    <2>4. Routed(line) \in keys
        BY <1>5, <2>2
    <2>5. keys = {Routed(line)}
        BY <2>3, <2>4
    <2> QED
        BY <2>2, <2>5 DEF B, line
<1>12. CASE ~line.month
    <2>1. keys = {}
        <3>1. \A i \in B : i \notin included
            BY <1>10, <1>12
        <3> HIDE DEF included
        <3> QED
            BY <1>9, <3>1
    <2> QED
        BY <1>12, <2>1 DEF B, line
<1>13. CASE line.month /\ IsSkipped(line, entries)
    <2>1. keys = {}
        <3>1. \A i \in B : i \notin included
            BY <1>8, <1>13
        <3> HIDE DEF included
        <3> QED
            BY <1>9, <3>1
    <2>2. first \in S
        BY <1>5, <1>10, <1>13
    <2>3. /\ line.no \in DOMAIN entries /\ entries[line.no] = "UNVERIFIABLE_NO_GSTIN"
          /\ LastOf(stored, S, line.no).party = NoGstin
        BY <1>1, <1>7, <1>13, <2>2, SkippedLinesHaveNoBuyer DEF line, S
    <2>4. line.no \in NeedsAttention
        BY <2>3 DEF NeedsAttention
    <2> QED
        BY <2>1, <2>3, <2>4 DEF B, line, S
<1> QED
    BY <1>11, <1>12, <1>13

\* What one full ingestion of a sheet stored and a review against the same
\* sheet file: every row's lines carry its taxes and are filed together, or
\* are left out for a reason the reviewer is told of.
THEOREM SheetsAreAlwaysFiled == CloseSpec => []SheetIsFiled
<1>1. CloseInit => CloseInv /\ WholeInv
    BY CloseStarts, WholeStarts
<1>2. CloseInv /\ WholeInv /\ [CloseNext]_closeVars => CloseInv' /\ WholeInv'
    BY CloseContinues, WholeContinues
<1>3. CloseInv /\ WholeInv => SheetIsFiled
    <2> SUFFICES ASSUME CloseInv, WholeInv, phase = "reviewed", whole, NEW k \in DOMAIN sheet
                 PROVE  LET B      == Block(k)
                            line   == stored[Earliest(B)]
                            keys   == {g \in DOMAIN filings : B \cap filings[g] # {}}
                            sum(f) == Total([i \in B |-> stored[i][f]], B)
                        IN  /\ sheet[k].note = "none" => \A f \in {"igst", "cgst", "sgst"} : sum(f) = sheet[k][f]
                            /\ \/ keys = {Routed(line)} /\ B \subseteq filings[Routed(line)]
                               \/ keys = {} /\ ~line.month
                               \/ /\ keys = {} /\ line.no \in NeedsAttention
                                  /\ LastOf(stored, Period(stored), line.no).party = NoGstin
        BY DEF SheetIsFiled
    <2>1. IsBook(stored) /\ IsParsed(sheet)
        BY DEF CloseInv
    <2>2. PICK m \in Nat : InPlace(stored, sheet, <<>>, m)
        BY DEF WholeInv
    <2>3. sheet[k].note = "none" =>
              \A f \in {"igst", "cgst", "sgst"} : Total([i \in Block(k) |-> stored[i][f]], Block(k)) = sheet[k][f]
        BY <2>1, <2>2, LinesCarryTheTaxes
    <2> QED
        BY <2>3, RowsAreFiledTogether
<1> QED
    BY <1>1, <1>2, <1>3, PTL DEF CloseSpec
------------------------------------------------------------------------------
(* An invoice from the answer of the model to the voucher.                 *)

IntegerFields == Amounts \cup {"qty", "rate", "discount", "advances"}
AreIntegers(s) == s \in Seq(Range(s)) /\ \A x \in Range(s) : x \in Int
AreSums(s) == DOMAIN s = DOMAIN NoSums /\ \A f \in Amounts \cup {"round", "advance"} : s[f] \in Int

\* The sum of a finite sequence of integers.
LEMMA SequencesAddUp ==
    ASSUME NEW n \in Nat, NEW h, DOMAIN h = 1..n, \A i \in 1..n : h[i] \in Int
    PROVE  SumFunction(h) \in Int
<1>1. IsFiniteSet(1..n)
    BY FS_Interval
<1>2. SumFunctionOnSet(h, 1..n) \in Int
    BY <1>1, SumTakes
<1> QED
    BY <1>2 DEF SumFunction

\* Items have integer fields, and so have their sums.
LEMMA ItemsAreTyped ==
    ASSUME NEW s, IsItems(s)
    PROVE  /\ Len(s) \in Nat /\ DOMAIN s = 1..Len(s)
           /\ \A i \in DOMAIN s : IsItem(s[i])
           /\ \A f \in IntegerFields : Sum(s, f) \in Int
<1>1. Len(s) \in Nat /\ DOMAIN s = 1..Len(s) /\ \A i \in DOMAIN s : IsItem(s[i])
    BY SequencesHaveElements DEF IsItems
<1>2. ASSUME NEW f \in IntegerFields PROVE Sum(s, f) \in Int
    <2> DEFINE h == [i \in DOMAIN s |-> s[i][f]]
    <2>1. DOMAIN h = 1..Len(s) /\ \A i \in 1..Len(s) : h[i] \in Int
        BY <1>1 DEF IsItem, IntegerFields, Amounts
    <2> HIDE DEF h
    <2>2. SumFunction(h) \in Int
        BY <1>1, <2>1, SequencesAddUp
    <2> QED
        BY <2>2 DEF Sum, h
<1> QED
    BY <1>1, <1>2

\* What is made of items one by one is items.
LEMMA ItemsOneByOne ==
    ASSUME NEW s, IsItems(s), NEW t, DOMAIN t = DOMAIN s, t = [i \in DOMAIN t |-> t[i]],
           \A i \in DOMAIN s : IsItem(s[i]) => IsItem(t[i])
    PROVE  IsItems(t)
<1>1. Len(s) \in Nat /\ DOMAIN s = 1..Len(s) /\ \A i \in DOMAIN s : IsItem(s[i])
    BY ItemsAreTyped
<1>2. t \in Seq(Range(t))
    BY <1>1, CountedFromOne
<1>3. \A i \in DOMAIN t : IsItem(t[i])
    BY <1>1
<1>4. \A x \in Range(t) : \E i \in DOMAIN t : x = t[i]
    BY <1>2, SequencesHaveElements
<1> QED
    BY <1>2, <1>3, <1>4 DEF IsItems

\* Items that are selected are items.
LEMMA ItemsAreKept ==
    ASSUME NEW s, IsItems(s), NEW S, S \subseteq DOMAIN s
    PROVE  IsItems(Kept(s, S))
<1>1. /\ Kept(s, S) \in Seq(Range(Kept(s, S)))
      /\ \A x \in Range(Kept(s, S)) : \E i \in S : x = s[i]
    BY KeptIsASelection DEF IsItems
<1> QED
    BY <1>1, ItemsAreTyped DEF IsItems

\* Two lists of items, joined, are items.
LEMMA ItemsAreJoined ==
    ASSUME NEW s, IsItems(s), NEW t, IsItems(t)
    PROVE  IsItems(s \o t)
BY SequencesAreJoined DEF IsItems

\* A share of an amount is rounded to the paisa.
LEMMA PercentsAreIntegers == \A a, r \in Int : Percent(a, r) \in Int
<1>1. ASSUME NEW a \in Int, NEW r \in Int PROVE Percent(a, r) \in Int
    <2>1. a * r \in Int
        OBVIOUS
    <2>2. \A x \in Int : (2 * x + 10000) \div (2 * 10000) \in Int
        OBVIOUS
    <2> QED
        BY <2>1, <2>2 DEF Percent, Rounded
<1> QED
    BY <1>1

\* A nearest slab exists, and is one of the slabs or none.
LEMMA SlabsAreIntegers ==
    ASSUME NEW tax \in Int, NEW taxable \in Int
    PROVE  NearestSlab(tax, taxable) \in Slabs \cup {0}
<1> DEFINE off(r) == Gap(r * taxable, 10000 * tax)
           R == Slabs \cup {0}
           N == {off(r) : r \in R}
<1>1. \A r \in R : r \in Nat /\ off(r) \in Nat
    BY DEF Slabs, Gap
<1>2. 0 \in R
    OBVIOUS
<1> HIDE DEF off, R
<1>3. N \subseteq Nat /\ N # {}
    BY <1>1, <1>2
<1>4. PICK n \in N : \A m \in N : n <= m
    <2> HIDE DEF N
    <2> QED
        BY <1>3, LeastNumber
<1> DEFINE B == {r \in R : off(r) = n}
<1>5. B \subseteq Nat /\ B # {}
    BY <1>1, <1>4
<1>6. PICK r \in B : \A q \in B : r <= q
    <2> HIDE DEF B
    <2> QED
        BY <1>5, LeastNumber
<1>7. \A q \in R : off(r) < off(q) \/ (off(r) = off(q) /\ r <= q)
    <2>1. ASSUME NEW q \in R PROVE off(r) < off(q) \/ (off(r) = off(q) /\ r <= q)
        <3>1. n <= off(q) /\ off(q) \in Nat /\ off(r) = n /\ n \in Nat
            BY <1>1, <1>3, <1>4, <1>6
        <3>2. off(q) = n => q \in B
            BY <2>1
        <3>3. off(q) = n => r <= q
            BY <1>6, <3>2
        <3> HIDE DEF B
        <3> QED
            BY <3>1, <3>3
    <2> QED
        BY <2>1
<1>8. r \in R
    BY <1>6
<1>9. (CHOOSE x \in R : \A q \in R : off(x) < off(q) \/ (off(x) = off(q) /\ x <= q)) \in R
    <2> DEFINE best(x) == \A q \in R : off(x) < off(q) \/ (off(x) = off(q) /\ x <= q)
    <2>1. best(r)
        BY <1>7
    <2> HIDE DEF best
    <2>2. (CHOOSE x \in R : best(x)) \in R
        BY <1>8, <2>1
    <2> QED
        BY <2>2 DEF best
<1> QED
    BY <1>9 DEF NearestSlab, off, R
-----------------------------------------------------------------------------
\* What the steps make of a row is a row.
LEMMA RowsStayRows ==
    ASSUME NEW l, IsItem(l)
    PROVE  /\ IsItem(Mapped(l)) /\ IsItem(NetTaxableValue(l))
           /\ IsItem(Untaxed(l)) /\ IsItem(Exported(l))
           /\ \A h, c : IsItem([l EXCEPT !.hsn = h, !.cat = c])
           /\ \A c : IsItem([l EXCEPT !.cat = c])
           /\ \A b : IsItem(MathVerified(l, b))
<1>1. \A f \in IntegerFields : f \in DOMAIN l /\ l[f] \in Int
    BY DEF IsItem, IntegerFields, Amounts
<1>2. /\ l.qty \in Int /\ l.rate \in Int /\ l.discount \in Int /\ l.taxable \in Int
      /\ l.cgst \in Int /\ l.sgst \in Int /\ l.igst \in Int /\ l.total \in Int
      /\ l.qty * l.rate \in Int
    <2>1. l.qty \in Int /\ l.rate \in Int
        BY <1>1 DEF IntegerFields
    <2> QED
        BY <1>1, <2>1 DEF IntegerFields, Amounts
<1>3. ASSUME NEW x \in Int PROVE IsItem([l EXCEPT !.taxable = x])
    BY <1>1 DEF IsItem, IntegerFields, Amounts
<1>4. IsItem(Mapped(l))
    BY <1>2, <1>3 DEF Mapped, Larger
<1>5. IsItem(NetTaxableValue(l))
    <2>1. l.qty * l.rate - l.discount \in Int /\ l.taxable - l.discount \in Int
        BY <1>2
    <2>2. NetTaxableValue(l) \in {l, [l EXCEPT !.taxable = l.qty * l.rate - l.discount],
                                  [l EXCEPT !.taxable = l.taxable - l.discount]}
        BY DEF NetTaxableValue
    <2> QED
        BY <1>3, <2>1, <2>2
<1>6. ASSUME NEW m, IsItem(m), NEW c PROVE IsItem([m EXCEPT !.cat = c])
    BY <1>6 DEF IsItem, Amounts
<1>7. IsItem(Untaxed(l))
    <2> DEFINE u == Untaxed(l)
    <2>1. DOMAIN u = DOMAIN l /\ \A f \in DOMAIN l : u[f] \in {0, l.taxable, l[f]}
        BY DEF Untaxed
    <2> HIDE DEF u
    <2>2. \A f \in IntegerFields : f \in DOMAIN u /\ u[f] \in Int
        BY <1>1, <1>2, <2>1
    <2> QED
        BY <2>2 DEF IsItem, IntegerFields, u
<1>8. IsItem(Exported(l))
    BY <1>6, <1>7 DEF Exported
<1>9. ASSUME NEW h, NEW c PROVE IsItem([l EXCEPT !.hsn = h, !.cat = c])
    BY <1>1 DEF IsItem, IntegerFields, Amounts
<1>10. ASSUME NEW b PROVE IsItem(MathVerified(l, b))
    <2> DEFINE snapped == NearestSlab(Taxes(l), l.taxable)
               rate == IF snapped = 0 /\ l.hsn = "99" THEN 1800 ELSE snapped
               igst == IF b THEN Percent(l.taxable, rate) ELSE 0
               half == IF b THEN 0 ELSE Percent(l.taxable, rate \div 2)
               value == l.taxable + igst + 2 * half
    <2>1. rate \in Int /\ rate \div 2 \in Int
        <3>1. snapped \in Slabs \cup {0}
            BY <1>2, SlabsAreIntegers DEF Taxes
        <3> QED
            BY <3>1 DEF Slabs
    <2>2. igst \in Int /\ half \in Int
        <3> HIDE DEF rate
        <3>1. Percent(l.taxable, rate) \in Int /\ Percent(l.taxable, rate \div 2) \in Int
            BY <1>2, <2>1, PercentsAreIntegers
        <3> QED
            BY <3>1
    <2> HIDE DEF igst, half
    <2>3. value \in Int
        BY <1>2, <2>2
    <2> HIDE DEF rate, value
    <2>4. IsItem([l EXCEPT !.rate = rate, !.igst = igst, !.cgst = half, !.sgst = half, !.total = value])
        BY <1>1, <2>1, <2>2, <2>3 DEF IsItem, IntegerFields, Amounts
    <2>5. IsItem([Untaxed(l) EXCEPT !.rate = 0])
        BY <1>7 DEF IsItem, Amounts
    <2>6. MathVerified(l, b) \in {l, [Untaxed(l) EXCEPT !.rate = 0],
              [l EXCEPT !.rate = rate, !.igst = igst, !.cgst = half, !.sgst = half, !.total = value]}
        BY DEF MathVerified, rate, igst, half, value
    <2> QED
        BY <2>4, <2>5, <2>6
<1> QED
    BY <1>4, <1>5, <1>6, <1>7, <1>8, <1>9, <1>10
-----------------------------------------------------------------------------
\* What the summary is made of are integers, before and after the override.
LEMMA SumsAreMade ==
    /\ AreSums(NoSums)
    /\ \A a \in Answers : AreSums(Consolidated(a))
    /\ \A s, items : AreSums(s) /\ IsItems(items) => AreSums(CanonicalSums(s, items))
    /\ \A p, s : IsPaper(p) /\ AreSums(s) => AreSums(Override(p, s))
    /\ \A s : AreSums(s) => AreSums(ExportedSums(s))
<1>0. DOMAIN NoSums = Amounts \cup {"round", "advance"} /\ \A f \in DOMAIN NoSums : NoSums[f] = 0
    BY DEF NoSums, Amounts
<1>1. AreSums(NoSums)
    BY <1>0 DEF AreSums
<1>2. ASSUME NEW a \in Answers PROVE AreSums(Consolidated(a))
    <2>1. /\ IsItems(a.purchases) /\ IsItems(a.sales)
          /\ \A f \in Amounts \cup {"round", "advance"} : a.sums[f] \in Int
        BY InvoiceConstants
    <2> DEFINE lines == a.purchases \o a.sales
    <2>2. IsItems(lines)
        BY <2>1, ItemsAreJoined
    <2> HIDE DEF lines
    <2>3. \A f \in {"taxable", "cgst", "sgst", "igst"} : Sum(lines, f) \in Int
        BY <2>2, ItemsAreTyped DEF IntegerFields, Amounts
    <2>4. Consolidated(a) = [f \in DOMAIN NoSums |->
              IF lines # <<>> /\ f \in {"taxable", "cgst", "sgst", "igst"} THEN Sum(lines, f) ELSE a.sums[f]]
        BY DEF Consolidated, lines
    <2> QED
        BY <1>0, <2>1, <2>3, <2>4 DEF AreSums
<1>3. ASSUME NEW s, NEW items, AreSums(s), IsItems(items) PROVE AreSums(CanonicalSums(s, items))
    <2> DEFINE lines == Each(items, Mapped)
               worth == [i \in DOMAIN lines |-> lines[i].taxable + Taxes(lines[i]) - lines[i].discount - lines[i].advances]
    <2>1. DOMAIN lines = DOMAIN items /\ lines = [i \in DOMAIN lines |-> lines[i]]
          /\ \A i \in DOMAIN items : IsItem(items[i]) => IsItem(lines[i])
        BY RowsStayRows DEF Each
    <2> HIDE DEF lines
    <2>2. IsItems(lines)
        BY <1>3, <2>1, ItemsOneByOne
    <2>3. /\ Len(lines) \in Nat /\ DOMAIN lines = 1..Len(lines)
          /\ \A i \in DOMAIN lines : IsItem(lines[i])
          /\ Sum(lines, "taxable") \in Int
        BY <2>2, ItemsAreTyped DEF IntegerFields, Amounts
    <2>4. \A i \in DOMAIN lines : worth[i] \in Int
        <3>1. ASSUME NEW i \in DOMAIN lines PROVE worth[i] \in Int
            <4> DEFINE l == lines[i]
            <4>1. IsItem(l)
                BY <2>3
            <4>2. worth[i] = l.taxable + Taxes(l) - l.discount - l.advances
                OBVIOUS
            <4> HIDE DEF l, worth
            <4>3. /\ l.taxable \in Int /\ l.cgst \in Int /\ l.sgst \in Int /\ l.igst \in Int
                  /\ l.discount \in Int /\ l.advances \in Int
                BY <4>1 DEF IsItem, Amounts
            <4>4. l.taxable + Taxes(l) - l.discount - l.advances \in Int
                BY <4>3 DEF Taxes
            <4> QED
                BY <4>2, <4>4
        <3> QED
            BY <3>1
    <2>5. LinesTotal(lines) = SumFunction(worth) /\ DOMAIN worth = DOMAIN lines
        BY DEF LinesTotal, Each
    <2> HIDE DEF worth
    <2>6. LinesTotal(lines) \in Int
        BY <2>3, <2>4, <2>5, SequencesAddUp
    <2> DEFINE sound == lines # <<>> /\ LinesAddUp(lines)
               t == IF sound /\ Gap(s.taxable, Sum(lines, "taxable")) > TOLERANCE_INR
                    THEN Sum(lines, "taxable") ELSE s.taxable
               g == IF sound /\ Gap(s.total, LinesTotal(lines)) > TOLERANCE_INR
                    THEN LinesTotal(lines) ELSE s.total
    <2>7. CanonicalSums(s, items) = [s EXCEPT !.taxable = t, !.total = g]
        BY DEF CanonicalSums, lines
    <2>8. t \in Int /\ g \in Int
        <3>1. s.taxable \in Int /\ s.total \in Int
            BY <1>3 DEF AreSums, Amounts
        <3> QED
            BY <2>3, <2>6, <3>1
    <2> HIDE DEF t, g
    <2> QED
        BY <1>0, <1>3, <2>7, <2>8 DEF AreSums
<1>4. ASSUME NEW p, NEW s, IsPaper(p), AreSums(s) PROVE AreSums(Override(p, s))
    <2>1. \A f \in {"taxable", "cgst", "sgst", "igst"} : Column(p, f) \in Int \cup {Absent}
        <3>1. ASSUME NEW f \in {"taxable", "cgst", "sgst", "igst"} PROVE Sum(p.rows, f) \in Int
            <4> DEFINE h == [i \in DOMAIN p.rows |-> p.rows[i][f]]
            <4>1. Len(p.rows) \in Nat /\ DOMAIN p.rows = 1..Len(p.rows)
                  /\ \A i \in DOMAIN p.rows : p.rows[i] \in Range(p.rows)
                BY <1>4, SequencesHaveElements DEF IsPaper
            <4>2. DOMAIN h = 1..Len(p.rows) /\ \A i \in 1..Len(p.rows) : h[i] \in Int
                BY <1>4, <4>1 DEF IsPaper
            <4> HIDE DEF h
            <4>3. SumFunction(h) \in Int
                BY <4>1, <4>2, SequencesAddUp
            <4> QED
                BY <4>3 DEF Sum, h
        <3> QED
            BY <3>1 DEF Column
    <2>2. {p.finalTotal, p.netCost, p.totalCost, p.roundOff} \subseteq Int \cup {Absent}
        BY <1>4 DEF IsPaper
    <2>3. Advance(p) \in Int \cup {Absent}
        BY <2>1, <2>2 DEF Advance
    <2>4. \A f \in Amounts \cup {"round", "advance"} : s[f] \in Int
        BY <1>4 DEF AreSums
    <2>5. DOMAIN Override(p, s) = DOMAIN NoSums
        BY DEF Override, NoSums
    <2>6. /\ Override(p, s).taxable \in {Column(p, "taxable"), s.taxable}
          /\ Override(p, s).cgst \in {Column(p, "cgst"), s.cgst}
          /\ Override(p, s).sgst \in {Column(p, "sgst"), s.sgst}
          /\ Override(p, s).igst \in {Column(p, "igst"), s.igst}
          /\ Override(p, s).round \in {p.roundOff, s.round}
          /\ Override(p, s).advance \in {Advance(p), s.advance}
          /\ Override(p, s).total \in {p.totalCost, s.total}
        BY DEF Override
    <2>7. /\ Override(p, s).taxable = Absent => s.taxable = Absent
          /\ Override(p, s).cgst = Absent => s.cgst = Absent
          /\ Override(p, s).sgst = Absent => s.sgst = Absent
          /\ Override(p, s).igst = Absent => s.igst = Absent
          /\ Override(p, s).round = Absent => s.round = Absent
          /\ Override(p, s).advance = Absent => s.advance = Absent
          /\ Override(p, s).total = Absent => s.total = Absent
        BY DEF Override
    <2> DEFINE o == Override(p, s)
    <2> HIDE DEF o
    <2>8. \A f \in Amounts \cup {"round", "advance"} : o[f] \in Int
        BY <2>1, <2>2, <2>3, <2>4, <2>6, <2>7 DEF Amounts, o
    <2> QED
        BY <2>5, <2>8 DEF AreSums, o
<1>5. ASSUME NEW s, AreSums(s) PROVE AreSums(ExportedSums(s))
    <2> DEFINE u == ExportedSums(s)
    <2>1. DOMAIN u = DOMAIN s /\ \A f \in DOMAIN s : u[f] \in {0, s.taxable, s[f]}
        BY DEF ExportedSums
    <2> HIDE DEF u
    <2>2. s.taxable \in Int
        BY <1>5 DEF AreSums, Amounts
    <2>3. AreSums(u)
        BY <1>0, <1>5, <2>1, <2>2 DEF AreSums
    <2> QED
        BY <2>3 DEF u
<1> QED
    BY <1>1, <1>2, <1>3, <1>4, <1>5
-----------------------------------------------------------------------------
\* Selected integers are integers.
LEMMA IntegersAreKept ==
    ASSUME NEW s, AreIntegers(s), NEW S, S \subseteq DOMAIN s
    PROVE  AreIntegers(Kept(s, S))
<1>1. /\ Kept(s, S) \in Seq(Range(Kept(s, S)))
      /\ \A x \in Range(Kept(s, S)) : \E i \in S : x = s[i]
    BY KeptIsASelection DEF AreIntegers
<1>2. \A i \in DOMAIN s : s[i] \in Int
    BY SequencesHaveElements DEF AreIntegers
<1> QED
    BY <1>1, <1>2 DEF AreIntegers

\* The sections net of the advance are integers.
LEMMA NetOfAdvanceIsTyped ==
    ASSUME NEW amounts, AreIntegers(amounts), NEW t \in Int
    PROVE  AreIntegers(NetOfAdvance(amounts, t))
<1> DEFINE gap == SumFunction(amounts) - t
           net == NetOfAdvance(amounts, t)
<1>1. /\ Len(amounts) \in Nat /\ DOMAIN amounts = 1..Len(amounts) /\ IsFiniteSet(DOMAIN amounts)
      /\ \A i \in DOMAIN amounts : amounts[i] \in Int
    BY SequencesHaveElements DEF AreIntegers
<1>2. gap \in Int
    BY <1>1, SequencesAddUp
<1>3. ASSUME NEW i \in DOMAIN amounts PROVE SumFunctionOnSet(amounts, Before(amounts, i)) \in Int
    <2> DEFINE B == Before(amounts, i)
    <2>1. B \subseteq DOMAIN amounts
        BY DEF Before
    <2> HIDE DEF B
    <2>2. IsFiniteSet(B) /\ \A j \in B : amounts[j] \in Int
        BY <1>1, <2>1, FS_Subset
    <2>3. SumFunctionOnSet(amounts, B) \in Int
        BY <2>2, SumTakes
    <2> QED
        BY <2>3 DEF B
<1>4. net = [i \in DOMAIN amounts |-> IF gap <= 1 THEN amounts[i]
                 ELSE Larger(0, amounts[i] - Larger(0, gap - SumFunctionOnSet(amounts, Before(amounts, i))))]
    BY DEF NetOfAdvance
<1> HIDE DEF net, gap
<1>5. \A x, y \in Int : Larger(x, y) \in Int
    BY DEF Larger
<1>6. ASSUME NEW i \in DOMAIN amounts PROVE net[i] \in Int
    <2>1. amounts[i] \in Int /\ gap - SumFunctionOnSet(amounts, Before(amounts, i)) \in Int
        BY <1>1, <1>2, <1>3
    <2>2. Larger(0, gap - SumFunctionOnSet(amounts, Before(amounts, i))) \in Int
        BY <1>5, <2>1
    <2>3. amounts[i] - Larger(0, gap - SumFunctionOnSet(amounts, Before(amounts, i))) \in Int
        BY <2>1, <2>2
    <2> QED
        BY <1>4, <1>5, <2>1, <2>3
<1>7. DOMAIN net = DOMAIN amounts /\ net \in Seq(Range(net))
    <2>1. DOMAIN net = 1..Len(amounts) /\ net = [i \in DOMAIN net |-> net[i]]
        BY <1>1, <1>4
    <2> QED
        BY <1>1, <2>1, CountedFromOne
<1>8. AreIntegers(net)
    BY <1>6, <1>7, SequencesHaveElements DEF AreIntegers
<1> QED
    BY <1>8 DEF net

\* The template's sections become rows.
LEMMA TemplateRowsAreTyped ==
    ASSUME NEW p, IsPaper(p), NEW t \in Int
    PROVE  IsItems(TemplateRows(p, t))
<1> DEFINE found == Kept(p.sections, {i \in DOMAIN p.sections : p.sections[i] > 0})
           all == NetOfAdvance(found, t)
           net == Kept(all, {i \in DOMAIN all : all[i] > 0})
           nothing == <<0>>
           amounts == IF net = <<>> THEN nothing ELSE net
           Tax(f, i) == ShareOfTax(amounts, t, PrintedRate(p, f), i)
           rows == [i \in DOMAIN amounts |->
                       TemplateRow(p, amounts[i], [cgst |-> Tax("cgstRate", i), sgst |-> Tax("sgstRate", i),
                                                   igst |-> Tax("igstRate", i)])]
<1>0. TemplateRows(p, t) = IF found = <<>> THEN <<>> ELSE rows
    BY DEF TemplateRows
<1>1. AreIntegers(p.sections)
    <2>1. p.sections \in Seq(Int)
        BY DEF IsPaper
    <2>2. p.sections \in Seq(Range(p.sections)) /\ Range(p.sections) \in SUBSET Int
        BY <2>1, SeqOfRange, RangeOfSeq
    <2> QED
        BY <2>2 DEF AreIntegers
<1>2. AreIntegers(found)
    BY <1>1, IntegersAreKept
<1> HIDE DEF found
<1>3. AreIntegers(all)
    BY <1>2, NetOfAdvanceIsTyped
<1> HIDE DEF all
<1>4. AreIntegers(net)
    BY <1>3, IntegersAreKept
<1> HIDE DEF net
<1>5. AreIntegers(nothing)
    <2>1. nothing \in Seq({0})
        OBVIOUS
    <2> HIDE DEF nothing
    <2>2. nothing \in Seq(Range(nothing)) /\ Range(nothing) \in SUBSET {0}
        BY <2>1, SeqOfRange, RangeOfSeq
    <2> QED
        BY <2>2 DEF AreIntegers
<1> HIDE DEF nothing
<1>6. AreIntegers(amounts)
    BY <1>4, <1>5
<1> HIDE DEF amounts
<1>7. /\ Len(amounts) \in Nat /\ DOMAIN amounts = 1..Len(amounts)
      /\ \A i \in DOMAIN amounts : amounts[i] \in Int
    BY <1>6, SequencesHaveElements DEF AreIntegers
<1>8. ASSUME NEW f \in {"cgstRate", "sgstRate", "igstRate"} PROVE PrintedRate(p, f) \in Int
    <2>1. p.rows # <<>> => 1 \in DOMAIN p.rows
        <3>1. p.rows # <<>> => Len(p.rows) \in Nat \ {0}
            BY EmptySeq DEF IsPaper
        <3>2. DOMAIN p.rows = 1..Len(p.rows)
            BY SequencesHaveElements DEF IsPaper
        <3> QED
            BY <3>1, <3>2
    <2>2. \A i \in DOMAIN p.rows : p.rows[i] \in Range(p.rows)
        BY SequencesHaveElements DEF IsPaper
    <2> QED
        BY <2>1, <2>2 DEF IsPaper, PrintedRate
<1>9. ASSUME NEW i \in DOMAIN amounts, NEW r \in Int PROVE ShareOfTax(amounts, t, r, i) \in Int
    <2> DEFINE h == [j \in 1..Len(amounts) - 1 |-> Percent(amounts[j], r)]
    <2>1. Percent(amounts[i], r) \in Int /\ Percent(t, r) \in Int
        BY <1>7, PercentsAreIntegers
    <2>2. i \in 1..Len(amounts) /\ Len(amounts) - 1 \in Nat
        BY <1>7
    <2>3. DOMAIN h = 1..Len(amounts) - 1 /\ \A j \in 1..Len(amounts) - 1 : h[j] \in Int
        <3>1. \A j \in 1..Len(amounts) - 1 : amounts[j] \in Int
            BY <1>7
        <3> QED
            BY <3>1, PercentsAreIntegers
    <2>4. SumFunction(h) \in Int
        <3> HIDE DEF h
        <3> QED
            BY <2>2, <2>3, SequencesAddUp
    <2>5. ShareOfTax(amounts, t, r, i) =
              IF i < Len(amounts) THEN Percent(amounts[i], r) ELSE Percent(t, r) - SumFunction(h)
        BY DEF ShareOfTax
    <2> HIDE DEF h
    <2> QED
        BY <2>1, <2>4, <2>5
<1>10. ASSUME NEW i \in DOMAIN amounts PROVE IsItem(rows[i])
    <2> DEFINE tax == [cgst |-> Tax("cgstRate", i), sgst |-> Tax("sgstRate", i), igst |-> Tax("igstRate", i)]
    <2>1. amounts[i] \in Int /\ tax.cgst \in Int /\ tax.sgst \in Int /\ tax.igst \in Int
        BY <1>7, <1>8, <1>9
    <2>2. rows[i] = TemplateRow(p, amounts[i], tax)
        OBVIOUS
    <2> HIDE DEF tax, rows
    <2>3. amounts[i] + Taxes(tax) \in Int
        BY <2>1 DEF Taxes
    <2>4. IsItem(TemplateRow(p, amounts[i], tax))
        BY <2>1, <2>3 DEF IsItem, Amounts, TemplateRow
    <2> QED
        BY <2>2, <2>4
<1>11. DOMAIN rows = 1..Len(amounts) /\ rows = [i \in DOMAIN rows |-> rows[i]]
    BY <1>7
<1> HIDE DEF rows
<1>12. rows \in Seq(Range(rows))
    BY <1>7, <1>11, CountedFromOne
<1>13. IsItems(rows)
    BY <1>7, <1>10, <1>11, <1>12, SequencesHaveElements DEF IsItems
<1> DEFINE none == <<>>
<1>14. IsItems(none)
    BY DEF IsItems, Range
<1> HIDE DEF none
<1>15. TemplateRows(p, t) \in {none, rows}
    BY <1>0 DEF none
<1> QED
    BY <1>13, <1>14, <1>15
------------------------------------------------------------------------------
(* Rows and sums are typed at every stage; a verdict ERP_READY vouches for *)
(* the rows as they are stored, and a voucher is made of one of them.      *)

InvoiceInv ==
    /\ IsItems(sales) /\ IsItems(purchases) /\ AreSums(sums)
    /\ work # "queued" => paper \in Papers
    /\ Done /\ verdict = "ERP_READY" => LinesAddUp(sales \o purchases)
    /\ voucher # Absent =>
           \E row, side : IsItem(row) /\ LineAddsUp(row) /\ voucher = Voucher(row, side)

\* An invoice starts without rows.
LEMMA InvoiceStarts == InvoiceInit => InvoiceInv
<1> SUFFICES ASSUME InvoiceInit PROVE InvoiceInv
    OBVIOUS
<1> DEFINE none == <<>>
<1>1. IsItems(none)
    BY DEF IsItems, Range
<1> HIDE DEF none
<1>2. sales = none /\ purchases = none /\ sums = NoSums /\ work = "queued" /\ voucher = Absent
    BY DEF InvoiceInit, none
<1> QED
    BY <1>1, <1>2, SumsAreMade DEF InvoiceInv, Done

\* A step before the verdict has to keep the rows and the sums typed.
LEMMA BeforeTheVerdict ==
    ASSUME InvoiceInv, voucher' = voucher, work' \notin {"stored", "validated", "pushed"},
           work' # "queued" => paper' \in Papers,
           IsItems(sales'), IsItems(purchases'), AreSums(sums')
    PROVE  InvoiceInv'
BY DEF InvoiceInv, Done

\* The answer of the model, with the corrections of the engine, is typed.
LEMMA ExtractKeeps ==
    ASSUME InvoiceInv, NEW p \in Papers, NEW answer \in Answers, Extract(p, answer)
    PROVE  InvoiceInv'
<1> DEFINE items == IF answer.sales # <<>> THEN answer.sales ELSE answer.purchases
<1>1. IsItems(answer.sales) /\ IsItems(answer.purchases) /\ IsItems(items)
    BY InvoiceConstants
<1>2. /\ sums' = CanonicalSums(Consolidated(answer), items)
      /\ work' = "extracted" /\ paper' = p /\ sales' = answer.sales /\ purchases' = answer.purchases
      /\ voucher' = voucher
    BY DEF Extract
<1> HIDE DEF items
<1>3. AreSums(sums')
    BY <1>1, <1>2, SumsAreMade
<1> QED
    BY <1>1, <1>2, <1>3, BeforeTheVerdict

\* So is the summary that is made from the lines of a scan.
LEMMA ReadScanKeeps ==
    ASSUME InvoiceInv, NEW p \in Papers, NEW answer \in Answers, ReadScan(p, answer)
    PROVE  InvoiceInv'
<1>1. IsItems(answer.purchases)
    BY InvoiceConstants
<1>2. /\ sums' = [f \in DOMAIN NoSums |-> IF f \in {"round", "advance"} THEN 0 ELSE Sum(answer.purchases, f)]
      /\ work' = "ready" /\ paper' = p /\ sales' = sales /\ purchases' = answer.purchases
      /\ voucher' = voucher
    BY DEF ReadScan
<1>3. \A f \in Amounts : Sum(answer.purchases, f) \in Int
    BY <1>1, ItemsAreTyped DEF IntegerFields
<1>4. DOMAIN NoSums = Amounts \cup {"round", "advance"}
    BY DEF NoSums, Amounts
<1>5. AreSums(sums')
    BY <1>2, <1>3, <1>4 DEF AreSums
<1>6. IsItems(sales')
    BY <1>2 DEF InvoiceInv
<1> QED
    BY <1>1, <1>2, <1>5, <1>6, BeforeTheVerdict

\* The override and the rows of the template are typed.
LEMMA ApplyTableKeeps ==
    ASSUME InvoiceInv, ApplyTable
    PROVE  InvoiceInv'
<1>1. /\ IsItems(sales) /\ IsItems(purchases) /\ AreSums(sums) /\ paper \in Papers
      /\ sums' \in {Override(paper, sums), sums}
      /\ sales' \in {TemplateRows(paper, sums'.taxable), sales}
      /\ work' \in {"itemised", "ready"} /\ UNCHANGED <<paper, purchases, voucher>>
    BY DEF InvoiceInv, ApplyTable
<1>2. IsPaper(paper)
    BY <1>1, InvoiceConstants
<1>3. AreSums(sums')
    BY <1>1, <1>2, SumsAreMade
<1>4. sums'.taxable \in Int
    BY <1>3 DEF AreSums, Amounts
<1>5. IsItems(sales')
    BY <1>1, <1>2, <1>4, TemplateRowsAreTyped
<1> QED
    BY <1>1, <1>3, <1>5, BeforeTheVerdict

\* Classifying the rows of the template keeps them rows.
LEMMA ClassifyTemplateKeeps ==
    ASSUME InvoiceInv, ClassifyTemplate
    PROVE  InvoiceInv'
<1> DEFINE t == [i \in DOMAIN sales |-> IF paper.export THEN Exported(sales[i])
                                        ELSE [sales[i] EXCEPT !.cat = Classified(sales[i])]]
<1>1. /\ IsItems(sales) /\ IsItems(purchases) /\ AreSums(sums) /\ paper \in Papers
      /\ sums' \in {ExportedSums(sums), sums} /\ sales' = t
      /\ work' = "ready" /\ UNCHANGED <<paper, purchases, voucher>>
    BY DEF InvoiceInv, ClassifyTemplate, Each
<1>2. \A i \in DOMAIN sales : IsItem(sales[i]) => IsItem(t[i])
    BY RowsStayRows
<1>3. DOMAIN t = DOMAIN sales /\ t = [i \in DOMAIN t |-> t[i]]
    OBVIOUS
<1> HIDE DEF t
<1>4. IsItems(sales') /\ AreSums(sums')
    BY <1>1, <1>2, <1>3, ItemsOneByOne, SumsAreMade
<1> QED
    BY <1>1, <1>4, BeforeTheVerdict

\* Subtotals, gross values and rows without a value are tidied up.
LEMMA TidiedRowsAreTyped ==
    ASSUME NEW s, IsItems(s)
    PROVE  IsItems(QcAudit(Each(RemoveSubtotals(s), NetTaxableValue)))
<1> DEFINE r == RemoveSubtotals(s)
           n == [i \in DOMAIN r |-> NetTaxableValue(r[i])]
           k == Kept(n, {i \in DOMAIN n : n[i].taxable > 0})
           q == [i \in DOMAIN k |->
                    [k[i] EXCEPT !.hsn = IF @ = "none" THEN "99" ELSE @,
                                 !.cat = IF @ \in {"EXPORT", "EXP", "SEZ", "NIL_EXEMPT"} THEN @
                                         ELSE Classified(k[i])]]
<1>1. IsItems(r)
    BY ItemsAreKept DEF RemoveSubtotals
<1>2. Each(r, NetTaxableValue) = n
    BY DEF Each
<1> HIDE DEF r
<1>3. \A i \in DOMAIN r : IsItem(r[i]) => IsItem(n[i])
    BY RowsStayRows
<1>4. DOMAIN n = DOMAIN r /\ n = [i \in DOMAIN n |-> n[i]]
    OBVIOUS
<1>5. QcAudit(n) = q
    BY DEF QcAudit, Each
<1> HIDE DEF n
<1>6. IsItems(n)
    BY <1>1, <1>3, <1>4, ItemsOneByOne
<1>7. IsItems(k)
    BY <1>6, ItemsAreKept
<1> HIDE DEF k
<1>8. ASSUME NEW i \in DOMAIN k, IsItem(k[i]) PROVE IsItem(q[i])
    <2> DEFINE l == k[i]
               h == IF l.hsn = "none" THEN "99" ELSE l.hsn
               c == IF l.cat \in {"EXPORT", "EXP", "SEZ", "NIL_EXEMPT"} THEN l.cat ELSE Classified(l)
    <2>1. q[i] = [l EXCEPT !.hsn = h, !.cat = c]
        OBVIOUS
    <2>2. IsItem(l)
        BY <1>8
    <2> HIDE DEF h, c, q, l
    <2>3. IsItem([l EXCEPT !.hsn = h, !.cat = c])
        BY <2>2, RowsStayRows
    <2> QED
        BY <2>1, <2>3
<1>9. DOMAIN q = DOMAIN k /\ q = [i \in DOMAIN q |-> q[i]]
    OBVIOUS
<1> HIDE DEF q
<1>10. IsItems(q)
    BY <1>7, <1>8, <1>9, ItemsOneByOne
<1> QED
    BY <1>2, <1>5, <1>10 DEF r

\* Tidying up keeps rows and sums typed, for an export too.
LEMMA CleanUpRowsKeeps ==
    ASSUME InvoiceInv, CleanUpRows
    PROVE  InvoiceInv'
<1> DEFINE clean == QcAudit(Each(RemoveSubtotals(sales), NetTaxableValue))
           t == [i \in DOMAIN clean |-> Exported(clean[i])]
<1>1. /\ IsItems(sales) /\ IsItems(purchases) /\ AreSums(sums) /\ paper \in Papers
      /\ sums' \in {ExportedSums(sums), sums} /\ sales' \in {t, clean}
      /\ work' = "cleaned" /\ UNCHANGED <<paper, purchases, voucher>>
    BY DEF InvoiceInv, CleanUpRows, Each
<1>2. IsItems(clean)
    BY <1>1, TidiedRowsAreTyped
<1> HIDE DEF clean
<1>3. \A i \in DOMAIN clean : IsItem(clean[i]) => IsItem(t[i])
    BY RowsStayRows
<1>4. DOMAIN t = DOMAIN clean /\ t = [i \in DOMAIN t |-> t[i]]
    OBVIOUS
<1> HIDE DEF t
<1>5. IsItems(sales') /\ AreSums(sums')
    BY <1>1, <1>2, <1>3, <1>4, ItemsOneByOne, SumsAreMade
<1> QED
    BY <1>1, <1>5, BeforeTheVerdict

\* The lines of the follow-up call are items.
LEMMA FillGapKeeps ==
    ASSUME InvoiceInv, FillGap
    PROVE  InvoiceInv'
<1>1. /\ IsItems(sales) /\ IsItems(purchases) /\ AreSums(sums) /\ work = "cleaned" /\ paper \in Papers
      /\ work' = "filled" /\ UNCHANGED <<paper, sums, purchases, voucher>>
    BY DEF InvoiceInv, FillGap
<1>2. PICK found \in Findings : sales' = sales \o found \/ sales' = sales
    BY DEF FillGap
<1>3. IsItems(sales')
    BY <1>1, <1>2, ItemsAreJoined, InvoiceConstants
<1> QED
    BY <1>1, <1>3, BeforeTheVerdict

\* The taxes anew are integers.
LEMMA VerifyMathKeeps ==
    ASSUME InvoiceInv, VerifyMath
    PROVE  InvoiceInv'
<1> DEFINE b == IsInterstate(paper, sums, sales)
           t == [i \in DOMAIN sales |-> MathVerified(sales[i], b)]
<1>1. /\ IsItems(sales) /\ IsItems(purchases) /\ AreSums(sums) /\ paper \in Papers
      /\ work' = "ready" /\ sales' = t /\ UNCHANGED <<paper, sums, purchases, voucher>>
    BY DEF InvoiceInv, VerifyMath, Each
<1> HIDE DEF b
<1>3. \A i \in DOMAIN sales : IsItem(sales[i]) => IsItem(t[i])
    BY RowsStayRows
<1>4. DOMAIN t = DOMAIN sales /\ t = [i \in DOMAIN t |-> t[i]]
    OBVIOUS
<1> HIDE DEF t
<1>5. IsItems(sales')
    BY <1>1, <1>3, <1>4, ItemsOneByOne
<1> QED
    BY <1>1, <1>5, BeforeTheVerdict

\* An engine that calls an invoice ERP_READY has checked every row.
LEMMA VerdictVouches ==
    ASSUME InvoiceInv, StoreRows
    PROVE  InvoiceInv'
<1>1. /\ work' = "stored" /\ work = "ready" /\ verdict' \in {Status(sums, sales \o purchases), "NEEDS_REVIEW"}
      /\ UNCHANGED <<paper, sums, sales, purchases, voucher>>
    BY DEF StoreRows
<1>2. Status(sums, sales \o purchases) = "ERP_READY" => LinesAddUp(sales \o purchases)
    BY DEF Status
<1> QED
    BY <1>1, <1>2 DEF InvoiceInv, Done

\* A voucher is made of a row that the verdict vouched for.
LEMMA VoucherIsOfARow ==
    ASSUME InvoiceInv, PushVoucher
    PROVE  InvoiceInv'
<1> DEFINE rows == sales \o purchases
<1>1. /\ work = "validated" /\ verdict = "ERP_READY" /\ work' = "pushed"
      /\ UNCHANGED <<paper, sums, sales, purchases, verdict>>
      /\ \/ \E i \in DOMAIN sales : voucher' = Voucher(sales[i], "Sales")
         \/ \E i \in DOMAIN purchases : voucher' = Voucher(purchases[i], "Purchase")
    BY DEF PushVoucher
<1>2. IsItems(sales) /\ IsItems(purchases) /\ LinesAddUp(rows)
    BY <1>1 DEF InvoiceInv, Done
<1>3. Range(rows) = Range(sales) \cup Range(purchases)
    BY <1>2, SequencesAreJoined DEF IsItems
<1>4. \A x \in Range(rows) : \E i \in DOMAIN rows : x = rows[i]
    BY DEF Range
<1> HIDE DEF rows
<1>5. ASSUME NEW x \in Range(rows) PROVE LineAddsUp(x)
    BY <1>2, <1>4 DEF LinesAddUp
<1>6. /\ \A i \in DOMAIN sales : sales[i] \in Range(sales) /\ IsItem(sales[i])
      /\ \A i \in DOMAIN purchases : purchases[i] \in Range(purchases) /\ IsItem(purchases[i])
    BY <1>2, ItemsAreTyped DEF Range
<1>7. \E row, side : IsItem(row) /\ LineAddsUp(row) /\ voucher' = Voucher(row, side)
    <2>1. CASE \E i \in DOMAIN sales : voucher' = Voucher(sales[i], "Sales")
        BY <1>3, <1>5, <1>6, <2>1
    <2>2. CASE \E i \in DOMAIN purchases : voucher' = Voucher(purchases[i], "Purchase")
        BY <1>3, <1>5, <1>6, <2>2
    <2> QED
        BY <1>1, <2>1, <2>2
<1> QED
    BY <1>1, <1>2, <1>7 DEF InvoiceInv, Done, rows

\* Every step keeps the invariant of an invoice.
LEMMA InvoiceContinues == InvoiceInv /\ [InvoiceNext]_invoiceVars => InvoiceInv'
<1> SUFFICES ASSUME InvoiceInv, [InvoiceNext]_invoiceVars PROVE InvoiceInv'
    OBVIOUS
<1>1. ASSUME NEW p \in Papers, CannotOpen(p) PROVE InvoiceInv'
    <2>1. work' = "ready" /\ paper' = p /\ UNCHANGED <<sums, sales, purchases, voucher>>
        BY <1>1 DEF CannotOpen
    <2>2. IsItems(sales') /\ IsItems(purchases') /\ AreSums(sums')
        BY <2>1 DEF InvoiceInv
    <2> QED
        BY <2>1, <2>2, BeforeTheVerdict
<1>2. ASSUME NEW p \in Papers, NEW answer \in Answers, ReadScan(p, answer) \/ Extract(p, answer)
      PROVE  InvoiceInv'
    BY <1>2, ReadScanKeeps, ExtractKeeps
<1>3. CASE NoGap
    <2>1. /\ work = "cleaned" /\ work' = "filled" /\ UNCHANGED <<paper, sums, sales, purchases, voucher>>
        BY <1>3 DEF NoGap
    <2>2. IsItems(sales') /\ IsItems(purchases') /\ AreSums(sums') /\ paper' \in Papers
        BY <2>1 DEF InvoiceInv
    <2> QED
        BY <2>1, <2>2, BeforeTheVerdict
<1>4. CASE Validate
    <2>1. /\ work = "stored" /\ work' = "validated"
          /\ UNCHANGED <<paper, sums, sales, purchases, verdict, voucher>>
        BY <1>4 DEF Validate
    <2> QED
        BY <2>1 DEF InvoiceInv, Done
<1>5. CASE UNCHANGED invoiceVars
    BY <1>5 DEF invoiceVars, InvoiceInv, Done
<1> QED
    BY <1>1, <1>2, <1>3, <1>4, <1>5, ApplyTableKeeps, ClassifyTemplateKeeps, CleanUpRowsKeeps,
       FillGapKeeps, VerifyMathKeeps, VerdictVouches, VoucherIsOfARow
       DEF InvoiceNext

\* The rows and sums of an invoice are typed at every stage, and the verdict
\* ERP_READY vouches for the rows that are stored and pushed.
THEOREM VerdictIsOfTheRows == InvoiceSpec => []InvoiceInv
BY InvoiceStarts, InvoiceContinues, PTL DEF InvoiceSpec

\* The legs of a voucher add up.
LEMMA LegsAddUp ==
    ASSUME NEW legs, DOMAIN legs = {"party", "account", "cgst", "sgst", "igst"},
           \A f \in DOMAIN legs : legs[f] \in Int
    PROVE  SumFunction(legs) = legs.party + legs.account + legs.cgst + legs.sgst + legs.igst
<1> DEFINE D == DOMAIN legs
           D1 == D \ {"party"}
           D2 == D1 \ {"account"}
           D3 == D2 \ {"cgst"}
           D4 == D3 \ {"sgst"}
<1>1. /\ D4 \ {"igst"} = {} /\ "party" \in D /\ "account" \in D1 /\ "cgst" \in D2
      /\ "sgst" \in D3 /\ "igst" \in D4
    OBVIOUS
<1>2. IsFiniteSet(D)
    <2>1. IsFiniteSet({}) /\ D4 = {"igst"} /\ D3 = D4 \cup {"sgst"} /\ D2 = D3 \cup {"cgst"}
          /\ D1 = D2 \cup {"account"} /\ D = D1 \cup {"party"}
        BY FS_EmptySet
    <2> HIDE DEF D, D1, D2, D3, D4
    <2>2. IsFiniteSet(D4)
        BY <2>1, FS_Singleton
    <2>3. IsFiniteSet(D3)
        BY <2>1, <2>2, FS_AddElement
    <2>4. IsFiniteSet(D2)
        BY <2>1, <2>3, FS_AddElement
    <2>5. IsFiniteSet(D1)
        BY <2>1, <2>4, FS_AddElement
    <2> QED
        BY <2>1, <2>5, FS_AddElement
<1>3. /\ IsFiniteSet(D1) /\ IsFiniteSet(D2) /\ IsFiniteSet(D3) /\ IsFiniteSet(D4)
      /\ \A f \in D1 : legs[f] \in Int
      /\ \A f \in D2 : legs[f] \in Int
      /\ \A f \in D3 : legs[f] \in Int
      /\ \A f \in D4 : legs[f] \in Int
    BY <1>2, FS_Subset
<1>4. \A f \in D : legs[f] \in Int
    OBVIOUS
<1>5. SumFunction(legs) = SumFunctionOnSet(legs, D)
    BY DEF SumFunction
<1>6. /\ D \ {"party"} = D1 /\ D1 \ {"account"} = D2 /\ D2 \ {"cgst"} = D3 /\ D3 \ {"sgst"} = D4
    OBVIOUS
<1> HIDE DEF D, D1, D2, D3, D4
<1>7. SumFunctionOnSet(legs, D) = legs["party"] + SumFunctionOnSet(legs, D1)
    BY <1>1, <1>2, <1>4, <1>6, SumTakes
<1>8. SumFunctionOnSet(legs, D1) = legs["account"] + SumFunctionOnSet(legs, D2)
    BY <1>1, <1>3, <1>6, SumTakes
<1>9. SumFunctionOnSet(legs, D2) = legs["cgst"] + SumFunctionOnSet(legs, D3)
    BY <1>1, <1>3, <1>6, SumTakes
<1>10. SumFunctionOnSet(legs, D3) = legs["sgst"] + SumFunctionOnSet(legs, D4)
    BY <1>1, <1>3, <1>6, SumTakes
<1>11. SumFunctionOnSet(legs, D4) = legs["igst"] + SumFunctionOnSet(legs, {}) /\ SumFunctionOnSet(legs, {}) = 0
    BY <1>1, <1>3, SumTakes
<1>12. /\ legs["party"] \in Int /\ legs["account"] \in Int /\ legs["cgst"] \in Int
       /\ legs["sgst"] \in Int /\ legs["igst"] \in Int
    BY <1>1, <1>3, <1>4
<1> QED
    BY <1>5, <1>7, <1>8, <1>9, <1>10, <1>11, <1>12

\* What push_voucher sends balances to the rupee of the engine's tolerance,
\* for any papers, answers and findings, since the row was checked.
THEOREM VouchersAlwaysBalance == InvoiceSpec => []VouchersBalance
<1>1. InvoiceInv => VouchersBalance
    <2> SUFFICES ASSUME InvoiceInv, voucher # Absent, voucher.row.total > 0
                 PROVE  Gap(SumFunction(voucher.legs), 0) <= TOLERANCE_INR
        BY DEF VouchersBalance
    <2>1. PICK row, side : IsItem(row) /\ LineAddsUp(row) /\ voucher = Voucher(row, side)
        BY DEF InvoiceInv
    <2> DEFINE legs == voucher.legs
    <2>2. /\ row.taxable \in Int /\ row.cgst \in Int /\ row.sgst \in Int /\ row.igst \in Int
          /\ row.total \in Int
        BY <2>1 DEF IsItem, Amounts
    <2>3. voucher.row = row
        BY <2>1 DEF Voucher
    <2>4. PICK sign \in {1, -1} :
              legs = [party |-> sign * (-Gap(row.total, 0)), account |-> sign * row.taxable,
                      cgst |-> sign * row.cgst, sgst |-> sign * row.sgst, igst |-> sign * row.igst]
        <3> DEFINE type == IF row.vtype = "none" THEN side ELSE row.vtype
                   selling == type \in {"Sales", "Credit Note"}
                   reversal == (type \in {"Credit Note", "Debit Note"}) # ~selling
                   sign == IF reversal THEN -1 ELSE 1
        <3>1. row.total # 0
            BY <2>2, <2>3
        <3>2. Voucher(row, side).legs =
                 [party |-> sign * (-Gap(row.total, 0)), account |-> sign * row.taxable,
                  cgst |-> sign * row.cgst, sgst |-> sign * row.sgst, igst |-> sign * row.igst]
            BY <3>1 DEF Voucher
        <3>3. sign \in {1, -1}
            OBVIOUS
        <3> HIDE DEF sign
        <3> QED
            BY <2>1, <3>2, <3>3
    <2>5. Gap(row.total, 0) = row.total
        BY <2>2, <2>3 DEF Gap
    <2>6. /\ DOMAIN legs = {"party", "account", "cgst", "sgst", "igst"}
          /\ legs.party = sign * (-row.total) /\ legs.account = sign * row.taxable
          /\ legs.cgst = sign * row.cgst /\ legs.sgst = sign * row.sgst /\ legs.igst = sign * row.igst
        BY <2>4, <2>5
    <2> HIDE DEF legs
    <2>7. \A f \in DOMAIN legs : legs[f] \in Int
        BY <2>2, <2>6
    <2>8. SumFunction(legs) = legs.party + legs.account + legs.cgst + legs.sgst + legs.igst
        BY <2>6, <2>7, LegsAddUp
    <2>9. Gap(row.taxable + Taxes(row), row.total) <= TOLERANCE_INR
        BY <2>1 DEF LineAddsUp
    <2>10. SumFunction(legs) = sign * ((row.taxable + Taxes(row)) - row.total)
        <3>1. CASE sign = 1
            BY <2>2, <2>6, <2>8, <3>1 DEF Taxes
        <3>2. CASE sign = -1
            BY <2>2, <2>6, <2>8, <3>2 DEF Taxes
        <3> QED
            BY <3>1, <3>2
    <2>11. Gap(SumFunction(legs), 0) = Gap(row.taxable + Taxes(row), row.total)
        <3>1. row.taxable + Taxes(row) \in Int
            BY <2>2 DEF Taxes
        <3>2. ASSUME NEW x \in Int, NEW y \in Int
              PROVE  Gap(1 * (x - y), 0) = Gap(x, y) /\ Gap((-1) * (x - y), 0) = Gap(x, y)
            BY DEF Gap
        <3> DEFINE bears == row.taxable + Taxes(row)
                   owes  == row.total
        <3>3. bears \in Int /\ owes \in Int /\ SumFunction(legs) = sign * (bears - owes)
            BY <2>2, <2>10, <3>1
        <3> HIDE DEF bears, owes
        <3>4. Gap(SumFunction(legs), 0) = Gap(bears, owes)
            BY <3>2, <3>3
        <3> QED
            BY <3>4 DEF bears, owes
    <2> QED
        BY <2>9, <2>11 DEF legs
<1> QED
    BY <1>1, VerdictIsOfTheRows, PTL
------------------------------------------------------------------------------
(* The rows that the printed sections become.                              *)

\* One more number is one more summand.
LEMMA SumOfOneMore ==
    ASSUME NEW s, AreIntegers(s), NEW x \in Int
    PROVE  AreIntegers(Append(s, x)) /\ SumFunction(Append(s, x)) = SumFunction(s) + x
<1> DEFINE n == Len(s)
           t == Append(s, x)
           N == 1..n
           M == 1..n + 1
<1>1. n \in Nat /\ DOMAIN s = N /\ s \in Seq(Int) /\ \A i \in N : s[i] \in Int
    <2>1. n \in Nat /\ DOMAIN s = N
        BY SequencesHaveElements DEF AreIntegers
    <2>2. \A i \in N : s[i] \in Int
        BY <2>1, SequencesHaveElements DEF AreIntegers
    <2>3. s \in Seq(Int)
        <3>1. s \in Seq(Range(s)) /\ Range(s) \subseteq Int
            BY DEF AreIntegers
        <3> QED
            BY <3>1, SeqMonotonic
    <2> QED
        BY <2>1, <2>2, <2>3
<1>2. /\ Range(t) = Range(s) \cup {x} /\ t \in Seq(Range(t))
      /\ DOMAIN t = M /\ t[n + 1] = x /\ \A i \in N : t[i] = s[i]
    <2>1. Range(t) = Range(s) \cup {x} /\ t \in Seq(Range(t))
        BY SequencesAreAppended DEF AreIntegers
    <2>2. DOMAIN t = M /\ t[n + 1] = x /\ \A i \in N : t[i] = s[i]
        BY <1>1, AppendProperties
    <2> QED
        BY <2>1, <2>2
<1>3. AreIntegers(t)
    BY <1>2 DEF AreIntegers
<1>4. n + 1 \in M /\ M \ {n + 1} = N /\ IsFiniteSet(M) /\ IsFiniteSet(N)
    <2>1. 1 \in Int /\ n \in Int /\ n + 1 \in Int
        BY <1>1
    <2>2. IsFiniteSet(M) /\ IsFiniteSet(N)
        BY <2>1, FS_Interval
    <2>3. n + 1 \in M /\ M \ {n + 1} = N
        BY <1>1
    <2> QED
        BY <2>2, <2>3
<1>5. SumFunction(t) = SumFunctionOnSet(t, M) /\ SumFunction(s) = SumFunctionOnSet(s, N)
    BY <1>1, <1>2 DEF SumFunction
<1> HIDE DEF n, t, N, M
<1>6. \A i \in N : t[i] = s[i] /\ s[i] \in Int /\ t[i] \in Int
    BY <1>1, <1>2
<1>7. \A i \in M : t[i] \in Int
    BY <1>2, <1>4, <1>6
<1>8. SumFunctionOnSet(t, M) = t[n + 1] + SumFunctionOnSet(t, M \ {n + 1})
    BY <1>4, <1>7, SumTakes
<1>9. SumFunctionOnSet(t, N) = SumFunctionOnSet(s, N) /\ SumFunctionOnSet(s, N) \in Int
    BY <1>4, <1>6, SumAgrees, SumTakes
<1>10. SumFunction(t) = SumFunction(s) + x
    <2>1. SumFunction(t) = x + SumFunction(s)
        BY <1>2, <1>4, <1>5, <1>8, <1>9
    <2>2. SumFunction(s) \in Int
        BY <1>5, <1>9
    <2> QED
        BY <2>1, <2>2
<1> QED
    BY <1>3, <1>10 DEF t

\* What is kept adds up to what stood at the positions kept.
LEMMA KeptAddsUp ==
    ASSUME NEW s, AreIntegers(s), NEW S, S \subseteq DOMAIN s
    PROVE  SumFunction(Kept(s, S)) = SumFunctionOnSet(s, S)
<1>1. Len(s) \in Nat /\ DOMAIN s = 1..Len(s) /\ IsFiniteSet(S) /\ \A i \in S : s[i] \in Int
    BY SequencesHaveElements, FS_Subset DEF AreIntegers
<1> DEFINE g == CHOOSE h : h = [T \in SUBSET S |-> Keeping(s, h, T)]
<1>2. Kept(s, S) = g[S] /\ \A T \in SUBSET S : g[T] = Keeping(s, g, T)
    <2>0. Len(s) \in Nat /\ S \subseteq 1..Len(s)
        BY <1>1
    <2>1. g = [T \in SUBSET S |-> Keeping(s, g, T)]
        BY <2>0, KeepingExists
    <2>2. Kept(s, S) = g[S]
        BY DEF Kept, MapThenFoldSet, Keeping
    <2> HIDE DEF g
    <2> QED
        BY <2>1, <2>2
<1> HIDE DEF g
<1> DEFINE Right(T) == AreIntegers(g[T]) /\ SumFunction(g[T]) = SumFunctionOnSet(s, T)
           P == {T \in SUBSET S : Right(T)}
<1>3. ASSUME NEW T \in SUBSET S, \A U \in SUBSET T : U # T => U \in P
      PROVE  Right(T)
    <2>1. IsFiniteSet(T) /\ \A i \in T : s[i] \in Int
        BY <1>1, FS_Subset
    <2>2. CASE T = {}
        <3> DEFINE none == <<>>
        <3>1. g[T] = none
            BY <1>2, <2>2 DEF Keeping
        <3>2. none \in Seq(Range(none)) /\ Range(none) = {} /\ DOMAIN none = {}
            BY DEF Range
        <3> HIDE DEF none
        <3>3. SumFunction(none) = SumFunctionOnSet(none, {})
            BY <3>2 DEF SumFunction
        <3>4. SumFunctionOnSet(none, {}) = 0 /\ SumFunctionOnSet(s, {}) = 0
            <4>1. /\ IsFiniteSet({}) /\ \A x \in {} : none[x] \in Int
                  /\ \A x \in {} : s[x] \in Int
                BY FS_EmptySet
            <4> QED
                BY <4>1, SumTakes
        <3> QED
            BY <2>2, <3>1, <3>2, <3>3, <3>4 DEF AreIntegers
    <2>3. CASE T # {}
        <3> DEFINE l == Latest(T)
                   U == T \ {l}
        <3>1. l \in T
            BY <1>1, <2>3, FirstAndLast
        <3>2. Right(U)
            BY <1>3, <3>1
        <3>3. g[T] = Append(g[U], s[l])
            BY <1>2, <2>3 DEF Keeping
        <3>4. SumFunctionOnSet(s, T) = s[l] + SumFunctionOnSet(s, U) /\ SumFunctionOnSet(s, U) \in Int
            <4> HIDE DEF l
            <4>1. SumFunctionOnSet(s, T) = s[l] + SumFunctionOnSet(s, T \ {l})
                BY <2>1, <3>1, SumTakes
            <4>2. IsFiniteSet(U) /\ \A i \in U : s[i] \in Int
                BY <2>1, FS_Subset
            <4>3. SumFunctionOnSet(s, U) \in Int
                <5> HIDE DEF U
                <5> QED BY <4>2, SumTakes
            <4> QED
                BY <4>1, <4>3
        <3> HIDE DEF l, U
        <3>5. s[l] \in Int
            BY <2>1, <3>1
        <3>6. AreIntegers(g[T]) /\ SumFunction(g[T]) = SumFunction(g[U]) + s[l]
            BY <3>2, <3>3, <3>5, SumOfOneMore
        <3> QED
            BY <3>2, <3>4, <3>5, <3>6
    <2> QED
        BY <2>2, <2>3
<1> HIDE DEF Right
<1>4. \A T \in SUBSET S : (\A U \in SUBSET T : U # T => U \in P) => T \in P
    BY <1>3
<1>5. S \in P
    <2> HIDE DEF P
    <2> QED BY <1>1, <1>4, SmallestFirst
<1> QED
    BY <1>2, <1>5 DEF Right

\* Scaled summands have a scaled sum.
LEMMA SumIsScaled ==
    ASSUME NEW f, NEW h, NEW S, IsFiniteSet(S), NEW r \in Int,
           \A x \in S : f[x] \in Int /\ h[x] = f[x] * r
    PROVE  SumFunctionOnSet(h, S) = SumFunctionOnSet(f, S) * r
<1> DEFINE P == {T \in SUBSET S : SumFunctionOnSet(h, T) = SumFunctionOnSet(f, T) * r}
<1>1. ASSUME NEW T \in SUBSET S, \A U \in SUBSET T : U # T => U \in P
      PROVE  SumFunctionOnSet(h, T) = SumFunctionOnSet(f, T) * r
    <2>1. IsFiniteSet(T) /\ \A x \in T : f[x] \in Int /\ h[x] \in Int /\ h[x] = f[x] * r
        <3>1. IsFiniteSet(T)
            BY FS_Subset
        <3>2. \A y \in Int : y * r \in Int
            OBVIOUS
        <3> QED
            BY <3>1, <3>2
    <2>2. CASE T = {}
        <3>1. SumFunctionOnSet(f, T) = 0 /\ SumFunctionOnSet(h, T) = 0
            BY <2>1, <2>2, SumTakes
        <3>2. 0 * r = 0
            OBVIOUS
        <3> QED
            BY <3>1, <3>2
    <2>3. ASSUME NEW x \in T PROVE SumFunctionOnSet(h, T) = SumFunctionOnSet(f, T) * r
        <3> DEFINE U == T \ {x}
                   y == f[x]
                   s == SumFunctionOnSet(f, U)
        <3>1. SumFunctionOnSet(f, T) = y + s
            BY <2>1, SumTakes
        <3>2. SumFunctionOnSet(h, T) = h[x] + SumFunctionOnSet(h, U)
            BY <2>1, SumTakes
        <3>3. SumFunctionOnSet(h, U) = s * r
            BY <1>1
        <3>4. h[x] = y * r /\ y \in Int
            BY <2>1
        <3>5. s \in Int
            <4>1. IsFiniteSet(U) /\ \A z \in U : f[z] \in Int
                BY <2>1, FS_Subset
            <4> HIDE DEF U
            <4> QED BY <4>1, SumTakes
        <3> HIDE DEF U, y, s
        <3>6. \A p, q \in Int : p * r + q * r = (p + q) * r
            OBVIOUS
        <3>7. y * r + s * r = (y + s) * r
            BY <3>4, <3>5, <3>6
        <3> QED
            BY <3>1, <3>2, <3>3, <3>4, <3>7
    <2> QED
        BY <2>2, <2>3
<1>2. \A T \in SUBSET S : (\A U \in SUBSET T : U # T => U \in P) => T \in P
    BY <1>1
<1>3. S \in P
    <2> HIDE DEF P
    <2> QED BY <1>2, SmallestFirst
<1> QED
    BY <1>3

\* Summands of zero add nothing.
LEMMA SumOfNothing ==
    ASSUME NEW f, NEW S, IsFiniteSet(S), \A x \in S : f[x] = 0
    PROVE  SumFunctionOnSet(f, S) = 0
<1>1. 0 \in Int /\ \A x \in S : f[x] \in Int /\ f[x] = f[x] * 0
    OBVIOUS
<1>2. SumFunctionOnSet(f, S) = SumFunctionOnSet(f, S) * 0
    BY <1>1, SumIsScaled
<1>3. SumFunctionOnSet(f, S) \in Int
    BY <1>1, SumTakes
<1> QED
    BY <1>2, <1>3

\* A smaller summand at every place gives a smaller sum.
LEMMA SumIsMonotone ==
    ASSUME NEW f, NEW h, NEW S, IsFiniteSet(S),
           \A x \in S : f[x] \in Int /\ h[x] \in Int /\ f[x] <= h[x]
    PROVE  SumFunctionOnSet(f, S) <= SumFunctionOnSet(h, S)
<1> DEFINE P == {T \in SUBSET S : SumFunctionOnSet(f, T) <= SumFunctionOnSet(h, T)}
<1>1. ASSUME NEW T \in SUBSET S, \A U \in SUBSET T : U # T => U \in P
      PROVE  SumFunctionOnSet(f, T) <= SumFunctionOnSet(h, T)
    <2>1. IsFiniteSet(T) /\ \A x \in T : f[x] \in Int /\ h[x] \in Int /\ f[x] <= h[x]
        BY FS_Subset
    <2>2. CASE T = {}
        BY <2>1, <2>2, SumTakes
    <2>3. ASSUME NEW x \in T PROVE SumFunctionOnSet(f, T) <= SumFunctionOnSet(h, T)
        <3> DEFINE U == T \ {x}
        <3>1. SumFunctionOnSet(f, T) = f[x] + SumFunctionOnSet(f, U)
            BY <2>1, SumTakes
        <3>2. SumFunctionOnSet(h, T) = h[x] + SumFunctionOnSet(h, U)
            BY <2>1, SumTakes
        <3>3. SumFunctionOnSet(f, U) <= SumFunctionOnSet(h, U)
            BY <1>1
        <3>4. SumFunctionOnSet(f, U) \in Int /\ SumFunctionOnSet(h, U) \in Int
            <4>1. IsFiniteSet(U) /\ \A y \in U : f[y] \in Int /\ h[y] \in Int
                BY <2>1, FS_Subset
            <4> HIDE DEF U
            <4> QED BY <4>1, SumTakes
        <3> HIDE DEF U
        <3> QED
            BY <2>1, <3>1, <3>2, <3>3, <3>4
    <2> QED
        BY <2>2, <2>3
<1>2. \A T \in SUBSET S : (\A U \in SUBSET T : U # T => U \in P) => T \in P
    BY <1>1
<1>3. S \in P
    <2> HIDE DEF P
    <2> QED BY <1>2, SmallestFirst
<1> QED
    BY <1>3

\* Leaving out what is zero does not change a sum.
LEMMA PositivesAddUp ==
    ASSUME NEW a, AreIntegers(a), \A i \in DOMAIN a : a[i] >= 0
    PROVE  SumFunction(Kept(a, {i \in DOMAIN a : a[i] > 0})) = SumFunction(a)
<1> DEFINE D == DOMAIN a
           S == {i \in D : a[i] > 0}
           Z == D \ S
<1>1. IsFiniteSet(D) /\ \A i \in D : a[i] \in Int
    BY SequencesHaveElements DEF AreIntegers
<1>2. IsFiniteSet(S) /\ IsFiniteSet(Z) /\ S \cap Z = {} /\ S \cup Z = D
    BY <1>1, FS_Subset
<1>3. \A i \in Z : a[i] = 0
    BY <1>1
<1>4. SumFunction(a) = SumFunctionOnSet(a, D)
    BY DEF SumFunction
<1>5. SumFunction(Kept(a, S)) = SumFunctionOnSet(a, S)
    BY KeptAddsUp
<1> HIDE DEF D, S, Z
<1>6. SumFunctionOnSet(a, S \cup Z) = SumFunctionOnSet(a, S) + SumFunctionOnSet(a, Z)
    BY <1>1, <1>2, SumOverUnion
<1>7. SumFunctionOnSet(a, Z) = 0
    BY <1>2, <1>3, SumOfNothing
<1>8. SumFunctionOnSet(a, S) \in Int
    <2>1. \A i \in S : a[i] \in Int
        BY <1>1, <1>2
    <2> QED
        BY <1>2, <2>1, SumTakes
<1> QED
    BY <1>2, <1>4, <1>5, <1>6, <1>7, <1>8 DEF S, D

\* An advance is taken off as a whole: what is left of the sections is the
\* total, or nothing when the total is negative.
LEMMA NetAddsUp ==
    ASSUME NEW a, AreIntegers(a), \A i \in DOMAIN a : a[i] >= 0, NEW t \in Int
    PROVE  /\ DOMAIN NetOfAdvance(a, t) = DOMAIN a
           /\ \A i \in DOMAIN a : NetOfAdvance(a, t)[i] >= 0
           /\ SumFunction(a) \in Int
           /\ SumFunction(NetOfAdvance(a, t)) =
                  IF SumFunction(a) - t <= 1 THEN SumFunction(a) ELSE Larger(0, t)
<1> DEFINE D == DOMAIN a
           all == SumFunction(a)
           gap == all - t
           net == NetOfAdvance(a, t)
           above(i) == SumFunctionOnSet(a, Before(a, i))
<1>1. /\ Len(a) \in Nat /\ D = 1..Len(a) /\ IsFiniteSet(D)
      /\ \A i \in D : a[i] \in Int /\ a[i] \in Nat
    BY SequencesHaveElements DEF AreIntegers
<1>2. all = SumFunctionOnSet(a, D) /\ all \in Int
    <2>1. all = SumFunctionOnSet(a, D)
        BY DEF SumFunction
    <2> HIDE DEF D
    <2>2. SumFunctionOnSet(a, D) \in Int
        BY <1>1, SumTakes
    <2> QED
        BY <2>1, <2>2
<1>3. AreIntegers(net)
    BY NetOfAdvanceIsTyped
<1>4. net = [i \in D |-> IF gap <= 1 THEN a[i] ELSE Larger(0, a[i] - Larger(0, gap - above(i)))]
    BY DEF NetOfAdvance
<1>5. DOMAIN net = D /\ \A i \in D : net[i] \in Int
    BY <1>3, <1>4, SequencesHaveElements DEF AreIntegers
<1>6. SumFunction(net) = SumFunctionOnSet(net, D)
    BY <1>5 DEF SumFunction
<1>7. \A i \in D : net[i] >= 0
    <2>1. \A x, y \in Int : Larger(x, y) >= x
        BY DEF Larger
    <2>2. ASSUME NEW i \in D PROVE net[i] >= 0
        BY <1>1, <1>4, <1>5 DEF Larger
    <2> QED
        BY <2>2
<1> HIDE DEF D, all, net, above
<1>8. CASE gap <= 1
    <2>1. \A i \in D : net[i] = a[i] /\ net[i] \in Int
        BY <1>1, <1>4, <1>8
    <2>2. SumFunctionOnSet(net, D) = SumFunctionOnSet(a, D)
        BY <1>1, <2>1, SumAgrees
    <2> QED
        BY <1>2, <1>5, <1>6, <1>7, <1>8, <2>2 DEF all, D, net
<1>9. CASE gap > 1
    <2> DEFINE Closed(T) == \A i \in T : Before(a, i) \subseteq T
               Netted(T) == Closed(T) => SumFunctionOnSet(net, T) = Larger(0, SumFunctionOnSet(a, T) - gap)
               P == {T \in SUBSET D : Netted(T)}
    <2>1. ASSUME NEW T \in SUBSET D, \A U \in SUBSET T : U # T => U \in P, Closed(T)
          PROVE  SumFunctionOnSet(net, T) = Larger(0, SumFunctionOnSet(a, T) - gap)
        <3>1. IsFiniteSet(T) /\ \A i \in T : a[i] \in Int /\ net[i] \in Int /\ i \in D
            BY <1>1, <1>5, FS_Subset
        <3>2. CASE T = {}
            <4>1. SumFunctionOnSet(net, T) = 0 /\ SumFunctionOnSet(a, T) = 0
                BY <3>1, <3>2, SumTakes
            <4> QED
                BY <1>9, <1>2, <4>1 DEF Larger
        <3>3. CASE T # {}
            <4>1. PICK m \in T : \A j \in T : j # m => j \in Before(a, m) /\ m \notin Before(a, j)
                <5> DEFINE V == {a[i] : i \in T}
                <5>1. V \subseteq Nat /\ V # {}
                    BY <1>1, <3>1, <3>3
                <5> HIDE DEF V
                <5>2. PICK v \in V : \A w \in V : v <= w
                    BY <5>1, LeastNumber
                <5> DEFINE L == {i \in T : a[i] = v}
                <5>3. L \subseteq 1..Len(a) /\ L # {} /\ \A j \in T : v <= a[j]
                    BY <1>1, <3>1, <5>2 DEF V
                <5>4. Latest(L) \in L /\ \A j \in L : j <= Latest(L)
                    <6> HIDE DEF L
                    <6> QED BY <1>1, <5>3, FirstAndLast
                <5> DEFINE m == Latest(L)
                <5>5. m \in T /\ a[m] = v /\ m \in Int /\ v \in Int
                    BY <1>1, <3>1, <5>3, <5>4
                <5>6. ASSUME NEW j \in T, j # m PROVE j \in Before(a, m) /\ m \notin Before(a, j)
                    <6>1. v <= a[j] /\ a[j] \in Int /\ j \in Int /\ j \in D /\ m \in D
                        BY <1>1, <3>1, <5>3, <5>5
                    <6>2. a[j] = v => j <= m
                        BY <5>4
                    <6> HIDE DEF m
                    <6> QED
                        BY <5>5, <5>6, <6>1, <6>2 DEF Before, D
                <5> QED
                    BY <5>5, <5>6
            <4> DEFINE U == T \ {m}
                       s == SumFunctionOnSet(a, U)
            <4>2. Before(a, m) = U
                <5>1. Before(a, m) \subseteq T
                    BY <2>1
                <5>2. m \notin Before(a, m)
                    BY <1>1, <3>1, <4>1 DEF Before
                <5> QED
                    BY <4>1, <5>1, <5>2
            <4>3. Closed(U)
                BY <2>1, <4>1
            <4>4. SumFunctionOnSet(net, U) = Larger(0, s - gap)
                <5>1. U \in P
                    BY <2>1, <4>1
                <5> QED
                    BY <4>3, <5>1
            <4>5. s \in Int
                <5>1. IsFiniteSet(U) /\ \A i \in U : a[i] \in Int
                    BY <3>1, FS_Subset
                <5> HIDE DEF U
                <5> QED BY <5>1, SumTakes
            <4>6. SumFunctionOnSet(a, T) = a[m] + s /\ SumFunctionOnSet(net, T) = net[m] + SumFunctionOnSet(net, U)
                BY <3>1, SumTakes
            <4>7. net[m] = Larger(0, a[m] - Larger(0, gap - s))
                BY <1>2, <1>4, <1>9, <3>1, <4>2 DEF above
            <4>8. a[m] \in Nat /\ gap \in Int
                BY <1>1, <1>2, <3>1
            <4> HIDE DEF U, s, gap
            <4> QED
                BY <4>4, <4>5, <4>6, <4>7, <4>8 DEF Larger
        <3> QED
            BY <3>2, <3>3
    <2>2. \A T \in SUBSET D : (\A U \in SUBSET T : U # T => U \in P) => T \in P
        BY <2>1
    <2>3. D \in P
        <3>1. IsFiniteSet(D) /\ D \in SUBSET D
            BY <1>1
        <3> HIDE DEF P
        <3>2. \A T \in SUBSET D : T \in P
            BY <2>2, <3>1, SmallestFirst
        <3> QED
            BY <3>1, <3>2
    <2>4. Closed(D)
        BY DEF Before, D
    <2>5. SumFunctionOnSet(net, D) = Larger(0, all - gap)
        BY <1>2, <2>3, <2>4
    <2>6. all - gap = t /\ ~(gap <= 1)
        BY <1>2, <1>9
    <2> QED
        BY <1>2, <1>5, <1>6, <1>7, <2>5, <2>6 DEF all, D, net
<1> QED
    BY <1>2, <1>8, <1>9

\* Rounding loses or wins half a paisa at most.
LEMMA RoundingIsHalf ==
    ASSUME NEW x \in Int, NEW r \in Int
    PROVE  /\ 20000 * Percent(x, r) <= 2 * (x * r) + 10000
           /\ 2 * (x * r) + 10000 < 20000 * Percent(x, r) + 20000
<1>1. x * r \in Int
    OBVIOUS
<1>2. \A y \in Int : LET q == (2 * y + 10000) \div (2 * 10000)
                     IN  20000 * q <= 2 * y + 10000 /\ 2 * y + 10000 < 20000 * q + 20000
    OBVIOUS
<1> QED
    BY <1>1, <1>2 DEF Percent, Rounded

\* A set without one of its elements has one less.
LEMMA OneIsTaken ==
    ASSUME NEW T, IsFiniteSet(T), NEW x \in T
    PROVE  Cardinality(T) \in Nat /\ Cardinality(T \ {x}) = Cardinality(T) - 1
BY FS_RemoveElement, FS_CardinalityType

\* The rounded shares of a tax on parts of an amount exceed the tax on the
\* whole by half a paisa for each part at most.
LEMMA SharesAreBounded ==
    ASSUME NEW h, NEW w, NEW S, IsFiniteSet(S),
           \A i \in S : h[i] \in Int /\ w[i] \in Int /\ 20000 * h[i] <= 2 * w[i] + 10000
    PROVE  20000 * SumFunctionOnSet(h, S) <= 2 * SumFunctionOnSet(w, S) + 10000 * Cardinality(S)
<1> DEFINE P == {T \in SUBSET S : 20000 * SumFunctionOnSet(h, T)
                                      <= 2 * SumFunctionOnSet(w, T) + 10000 * Cardinality(T)}
<1>1. ASSUME NEW T \in SUBSET S, \A U \in SUBSET T : U # T => U \in P
      PROVE  20000 * SumFunctionOnSet(h, T) <= 2 * SumFunctionOnSet(w, T) + 10000 * Cardinality(T)
    <2>1. /\ IsFiniteSet(T)
          /\ \A i \in T : /\ h[i] \in Int /\ w[i] \in Int
                          /\ 20000 * h[i] <= 2 * w[i] + 10000
        BY FS_Subset
    <2>2. CASE T = {}
        <3>1. SumFunctionOnSet(h, T) = 0 /\ SumFunctionOnSet(w, T) = 0 /\ Cardinality(T) = 0
            BY <2>1, <2>2, SumTakes, FS_EmptySet
        <3> QED
            BY <3>1
    <2>3. ASSUME NEW x \in T
          PROVE  20000 * SumFunctionOnSet(h, T) <= 2 * SumFunctionOnSet(w, T) + 10000 * Cardinality(T)
        <3> DEFINE U == T \ {x}
                   hu == SumFunctionOnSet(h, U)
                   wu == SumFunctionOnSet(w, U)
        <3>1. SumFunctionOnSet(h, T) = h[x] + hu
            BY <2>1, SumTakes
        <3>2. SumFunctionOnSet(w, T) = w[x] + wu
            BY <2>1, SumTakes
        <3>3. Cardinality(T) \in Nat /\ Cardinality(U) = Cardinality(T) - 1
            BY <2>1, OneIsTaken
        <3>4. 20000 * hu <= 2 * wu + 10000 * Cardinality(U)
            BY <1>1
        <3>5. hu \in Int /\ wu \in Int
            <4>1. IsFiniteSet(U) /\ \A i \in U : h[i] \in Int /\ w[i] \in Int
                BY <2>1, FS_Subset
            <4> HIDE DEF U
            <4> QED BY <4>1, SumTakes
        <3>6. h[x] \in Int /\ w[x] \in Int /\ 20000 * h[x] <= 2 * w[x] + 10000
            BY <2>1
        <3> HIDE DEF U, hu, wu
        <3> QED
            BY <3>1, <3>2, <3>3, <3>4, <3>5, <3>6
    <2> QED
        BY <2>2, <2>3
<1>2. \A T \in SUBSET S : (\A U \in SUBSET T : U # T => U \in P) => T \in P
    BY <1>1
<1>3. S \in P
    <2>1. S \in SUBSET S
        OBVIOUS
    <2> HIDE DEF P
    <2>2. \A T \in SUBSET S : T \in P
        BY <1>2, SmallestFirst
    <2> QED BY <2>1, <2>2
<1> QED
    BY <1>3

\* The shares of a tax add up to the tax on the total, and none of them is
\* below zero beyond rounding, since the parts before the last one are at
\* most the total.
LEMMA SharesOfATax ==
    ASSUME NEW a, AreIntegers(a), a # <<>>, NEW t \in Int, NEW r \in Nat, NEW share,
           DOMAIN share = DOMAIN a, \A i \in DOMAIN a : share[i] = ShareOfTax(a, t, r, i)
    PROVE  /\ SumFunction(share) = Percent(t, r)
           /\ \A i \in DOMAIN a : share[i] \in Int
           /\ (/\ \A i \in DOMAIN a : a[i] >= 0
               /\ SumFunctionOnSet(a, 1..Len(a) - 1) <= t)
                  => \A i \in DOMAIN a : share[i] >= - Len(a)
<1> DEFINE n == Len(a)
           R == 1..n - 1
           h == [j \in R |-> Percent(a[j], r)]
           w == [j \in R |-> a[j] * r]
           N == 1..n
           k == n - 1
<1>1. n \in Nat /\ n # 0 /\ DOMAIN a = N /\ \A i \in N : a[i] \in Int
    <2>1. n \in Nat /\ DOMAIN a = N /\ \A i \in N : a[i] \in Int
        BY SequencesHaveElements DEF AreIntegers
    <2>2. n # 0
        BY EmptySeq DEF AreIntegers
    <2> QED
        BY <2>1, <2>2
<1>2. k \in Nat /\ R = 1..k /\ n \in N /\ N \ {n} = R /\ R \subseteq N
    BY <1>1
<1>3. IsFiniteSet(N) /\ IsFiniteSet(R)
    <2>1. 1 \in Int /\ n \in Int
        BY <1>1
    <2>2. IsFiniteSet(N)
        BY <2>1, FS_Interval
    <2> QED
        BY <1>2, <2>2, FS_Subset
<1>4. Percent(t, r) \in Int
    BY PercentsAreIntegers
<1>5. \A j \in R : a[j] \in Int /\ h[j] = Percent(a[j], r) /\ w[j] = a[j] * r /\ h[j] \in Int
    <2>1. \A j \in R : a[j] \in Int
        BY <1>1, <1>2
    <2>2. r \in Int
        OBVIOUS
    <2>3. \A j \in R : Percent(a[j], r) \in Int
        BY <2>1, <2>2, PercentsAreIntegers
    <2> QED
        BY <2>1, <2>3
<1>6. /\ \A i \in R : share[i] = h[i]
      /\ share[n] = Percent(t, r) - SumFunction(h)
    <2>1. \A i \in N : share[i] = IF i < n THEN Percent(a[i], r) ELSE Percent(t, r) - SumFunction(h)
        BY <1>1 DEF ShareOfTax
    <2>2. (\A i \in R : i < n) /\ ~(n < n)
        BY <1>1
    <2> HIDE DEF h
    <2>3. \A i \in R : share[i] = Percent(a[i], r)
        BY <1>2, <2>1, <2>2
    <2>4. share[n] = Percent(t, r) - SumFunction(h)
        BY <1>2, <2>1, <2>2
    <2> QED
        BY <1>5, <2>3, <2>4
<1>7. SumFunction(h) = SumFunctionOnSet(h, R) /\ SumFunction(share) = SumFunctionOnSet(share, N)
    BY <1>1 DEF SumFunction
<1> HIDE DEF n, R, h, w, N, k
<1>8. SumFunctionOnSet(h, R) \in Int
    BY <1>3, <1>5, SumTakes
<1>9. \A i \in N : share[i] \in Int
    BY <1>2, <1>4, <1>5, <1>6, <1>7, <1>8
<1>10. SumFunctionOnSet(share, N) = share[n] + SumFunctionOnSet(share, N \ {n})
    BY <1>2, <1>3, <1>9, SumTakes
<1>11. \A i \in R : share[i] \in Int /\ share[i] = h[i]
    BY <1>5, <1>6
<1>12. SumFunctionOnSet(share, R) = SumFunctionOnSet(h, R)
    BY <1>3, <1>11, SumAgrees
<1>13. SumFunction(share) = Percent(t, r)
    <2> DEFINE p == Percent(t, r)
               g == SumFunctionOnSet(h, R)
    <2>1. SumFunction(share) = share[n] + g
        BY <1>2, <1>7, <1>10, <1>12
    <2>2. share[n] = p - g /\ p \in Int /\ g \in Int
        BY <1>4, <1>6, <1>7, <1>8
    <2> HIDE DEF p, g
    <2>3. share[n] + g = p
        BY <2>2
    <2> QED
        BY <2>1, <2>3 DEF p
<1>14. ASSUME \A i \in N : a[i] >= 0, SumFunctionOnSet(a, R) <= t, NEW i \in N
       PROVE  share[i] >= -n
    <2>1. CASE i \in R
        <3> DEFINE x == a[i]
                   p == Percent(x, r)
        <3>1. share[i] = p /\ x \in Int /\ x >= 0 /\ p \in Int
            BY <1>5, <1>6, <1>14, <2>1
        <3> HIDE DEF x
        <3>2. 2 * (x * r) + 10000 < 20000 * p + 20000
            BY <3>1, RoundingIsHalf
        <3> HIDE DEF p
        <3>3. x * r >= 0 /\ x * r \in Int
            BY <3>1
        <3>4. p >= 0
            BY <3>1, <3>2, <3>3
        <3> QED
            BY <1>1, <3>1, <3>4
    <2>2. CASE i = n
        <3> DEFINE s == SumFunctionOnSet(a, R)
                   g == SumFunctionOnSet(h, R)
                   v == SumFunctionOnSet(w, R)
                   p == Percent(t, r)
        <3>0. r \in Int /\ Cardinality(R) = k
            <4>1. 1 \in Int /\ k \in Int
                BY <1>2
            <4>2. Cardinality(1..k) = IF 1 > k THEN 0 ELSE (k - 1) + 1
                BY <4>1, FS_Interval
            <4> QED
                BY <1>2, <4>2
        <3>1. v = s * r /\ 20000 * g <= 2 * v + 10000 * k /\ g \in Int
            <4>1. v = s * r
                BY <1>3, <1>5, <3>0, SumIsScaled
            <4>2. ASSUME NEW j \in R
                  PROVE  h[j] \in Int /\ w[j] \in Int /\ 20000 * h[j] <= 2 * w[j] + 10000
                <5> DEFINE x == a[j]
                <5>1. x \in Int /\ h[j] = Percent(x, r) /\ w[j] = x * r /\ h[j] \in Int
                    BY <1>5
                <5> HIDE DEF x
                <5>2. x * r \in Int /\ 20000 * Percent(x, r) <= 2 * (x * r) + 10000
                    BY <3>0, <5>1, RoundingIsHalf
                <5> QED
                    BY <5>1, <5>2
            <4>3. 20000 * g <= 2 * v + 10000 * Cardinality(R)
                BY <1>3, <4>2, SharesAreBounded
            <4> QED
                BY <1>8, <3>0, <4>1, <4>3
        <3>2. s \in Int
            BY <1>3, <1>5, SumTakes
        <3>3. 2 * (t * r) + 10000 < 20000 * p + 20000
            BY RoundingIsHalf
        <3>4. s <= t
            BY <1>14
        <3>5. share[i] = p - g /\ p \in Int
            BY <1>4, <1>6, <1>7, <2>2
        <3> HIDE DEF s, g, v, p
        <3>6. s * r <= t * r /\ t * r \in Int /\ s * r \in Int
            BY <3>2, <3>4
        <3>7. v \in Int /\ n = k + 1 /\ k \in Nat
            BY <1>1, <1>2, <3>1, <3>6 DEF k
        <3> DEFINE x == t * r
        <3>8. x \in Int /\ v <= x /\ 2 * x + 10000 < 20000 * p + 20000
            BY <3>1, <3>3, <3>6
        <3> HIDE DEF x
        <3>9. p - g >= -n
            BY <3>1, <3>5, <3>7, <3>8
        <3> QED
            BY <3>5, <3>9
    <2> QED
        BY <1>2, <2>1, <2>2
<1> QED
    BY <1>1, <1>9, <1>13, <1>14 DEF n, R, k

\* What the patterns read off a paper is never below zero.
LEMMA PapersArePositive ==
    ASSUME NEW p, IsPaper(p)
    PROVE  /\ AreIntegers(p.sections) /\ \A i \in DOMAIN p.sections : p.sections[i] >= 0
           /\ \A f \in {"cgstRate", "sgstRate", "igstRate"} : PrintedRate(p, f) \in Nat
           /\ p.rows # <<>> => Column(p, "taxable") \in Nat
<1>1. p.sections \in Seq(Nat)
    BY DEF IsPaper
<1>2. /\ p.sections \in Seq(Range(p.sections)) /\ Range(p.sections) \in SUBSET Nat
      /\ \A i \in DOMAIN p.sections : p.sections[i] \in Nat
    <2>1. p.sections \in Seq(Range(p.sections)) /\ Range(p.sections) \in SUBSET Nat
        BY <1>1, SeqOfRange, RangeOfSeq
    <2> QED
        BY <2>1, SequencesHaveElements
<1>3. AreIntegers(p.sections) /\ \A i \in DOMAIN p.sections : p.sections[i] >= 0
    BY <1>2 DEF AreIntegers
<1> DEFINE D == DOMAIN p.rows
<1>4. /\ Len(p.rows) \in Nat /\ D = 1..Len(p.rows) /\ IsFiniteSet(D)
      /\ \A i \in D : p.rows[i] \in Range(p.rows)
    BY SequencesHaveElements DEF IsPaper
<1>5. \A i \in D : \A f \in {"taxable", "cgstRate", "sgstRate", "igstRate"} : p.rows[i][f] \in Nat
    BY <1>4 DEF IsPaper
<1>6. p.rows # <<>> => 1 \in D
    <2>1. p.rows # <<>> => Len(p.rows) # 0
        BY EmptySeq DEF IsPaper
    <2> QED
        BY <1>4, <2>1
<1>7. \A f \in {"cgstRate", "sgstRate", "igstRate"} : PrintedRate(p, f) \in Nat
    BY <1>5, <1>6 DEF PrintedRate
<1> DEFINE h == [i \in D |-> p.rows[i]["taxable"]]
           zero == [i \in D |-> 0]
<1>8. SumFunction(h) \in Nat
    <2>1. \A i \in D : zero[i] = 0 /\ zero[i] \in Int /\ h[i] \in Int /\ zero[i] <= h[i]
        BY <1>5
    <2>2. SumFunction(h) = SumFunctionOnSet(h, D)
        BY DEF SumFunction
    <2> HIDE DEF D, h, zero
    <2>3. SumFunctionOnSet(zero, D) = 0
        BY <1>4, <2>1, SumOfNothing
    <2>4. SumFunctionOnSet(zero, D) <= SumFunctionOnSet(h, D)
        BY <1>4, <2>1, SumIsMonotone
    <2>5. SumFunctionOnSet(h, D) \in Int
        BY <1>4, <2>1, SumTakes
    <2> QED
        BY <2>2, <2>3, <2>4, <2>5
<1>9. p.rows # <<>> => Column(p, "taxable") = SumFunction(h)
    BY DEF Column, Sum
<1> QED
    BY <1>3, <1>7, <1>8, <1>9

SectionAmounts(p, t) ==
    LET positive(a) == Kept(a, {i \in DOMAIN a : a[i] > 0})
        net == positive(NetOfAdvance(positive(p.sections), t))
    IN  IF net = <<>> THEN <<0>> ELSE net

\* The amounts of the template's rows add up to the sections, net of the
\* advance, and all but the last claim no more than the total.
LEMMA SectionsBecomeAmounts ==
    ASSUME NEW p, IsPaper(p), NEW t \in Int
    PROVE  LET a == SectionAmounts(p, t)
               S == SumFunction(p.sections)
           IN  /\ AreIntegers(a) /\ a # <<>> /\ S \in Int
               /\ SumFunction(a) = IF S - t <= 1 THEN S ELSE Larger(0, t)
               /\ \A i \in DOMAIN a : a[i] >= 0
               /\ t >= 0 => SumFunctionOnSet(a, 1..Len(a) - 1) <= t
<1> DEFINE sections == p.sections
           F == {i \in DOMAIN sections : sections[i] > 0}
           found == Kept(sections, F)
           all == NetOfAdvance(found, t)
           K == {i \in DOMAIN all : all[i] > 0}
           net == Kept(all, K)
           nothing == <<0>>
           a == SectionAmounts(p, t)
           S == SumFunction(sections)
           due == IF S - t <= 1 THEN S ELSE Larger(0, t)
<1>1. a = IF net = <<>> THEN nothing ELSE net
    BY DEF SectionAmounts
<1> HIDE DEF a
<1>2. AreIntegers(sections) /\ \A i \in DOMAIN sections : sections[i] >= 0
    BY PapersArePositive
<1> HIDE DEF sections
<1>3. AreIntegers(found) /\ SumFunction(found) = S /\ \A i \in DOMAIN found : found[i] >= 0
    <2>1. AreIntegers(found)
        BY <1>2, IntegersAreKept
    <2>2. SumFunction(found) = S
        BY <1>2, PositivesAddUp
    <2>3. \A x \in Range(found) : \E i \in F : x = sections[i]
        BY <1>2, KeptIsASelection DEF AreIntegers
    <2> HIDE DEF found
    <2>4. \A i \in DOMAIN found : found[i] \in Range(found)
        BY DEF Range
    <2>5. \A i \in DOMAIN found : found[i] >= 0
        <3>1. ASSUME NEW i \in DOMAIN found PROVE found[i] >= 0
            <4>1. PICK j \in F : found[i] = sections[j]
                BY <2>3, <2>4
            <4> QED
                BY <1>2, <4>1
        <3> QED
            BY <3>1
    <2> QED
        BY <2>1, <2>2, <2>5
<1> HIDE DEF found
<1>4. /\ SumFunction(all) = due /\ S \in Int
      /\ AreIntegers(all) /\ \A i \in DOMAIN all : all[i] >= 0
    <2>1. AreIntegers(all)
        BY <1>3, NetOfAdvanceIsTyped
    <2>2. /\ DOMAIN all = DOMAIN found
          /\ \A i \in DOMAIN found : all[i] >= 0
          /\ SumFunction(found) \in Int
          /\ SumFunction(all) = IF SumFunction(found) - t <= 1 THEN SumFunction(found) ELSE Larger(0, t)
        BY <1>3, NetAddsUp
    <2> QED
        BY <1>3, <2>1, <2>2
<1> HIDE DEF all
<1>5. /\ AreIntegers(net) /\ SumFunction(net) = due /\ \A i \in DOMAIN net : net[i] > 0
    <2>1. AreIntegers(net)
        BY <1>4, IntegersAreKept
    <2>2. SumFunction(net) = SumFunction(all)
        BY <1>4, PositivesAddUp
    <2>3. \A x \in Range(net) : \E i \in K : x = all[i]
        BY <1>4, KeptIsASelection DEF AreIntegers
    <2>4. \A x \in Range(net) : x > 0
        BY <2>3
    <2> HIDE DEF net
    <2>5. \A i \in DOMAIN net : net[i] \in Range(net)
        BY DEF Range
    <2> QED
        BY <1>4, <2>1, <2>2, <2>4, <2>5
<1> HIDE DEF net
<1>6. AreIntegers(nothing) /\ DOMAIN nothing = {1} /\ nothing[1] = 0 /\ Len(nothing) = 1 /\ nothing # <<>>
    <2>1. nothing \in Seq({0}) /\ DOMAIN nothing = {1} /\ nothing[1] = 0 /\ Len(nothing) = 1 /\ nothing # <<>>
        OBVIOUS
    <2> HIDE DEF nothing
    <2>2. nothing \in Seq(Range(nothing)) /\ Range(nothing) \in SUBSET {0}
        BY <2>1, SeqOfRange, RangeOfSeq
    <2> QED
        BY <2>1, <2>2 DEF AreIntegers
<1> HIDE DEF nothing
<1>7. AreIntegers(a) /\ a # <<>>
    BY <1>1, <1>5, <1>6
<1>8. \A i \in DOMAIN a : a[i] >= 0
    <2>1. \A i \in DOMAIN net : net[i] \in Int
        BY <1>5, SequencesHaveElements DEF AreIntegers
    <2>2. CASE net = <<>>
        BY <1>1, <1>6, <2>2
    <2>3. CASE net # <<>>
        BY <1>1, <1>5, <2>1, <2>3
    <2> QED
        BY <2>2, <2>3
<1> DEFINE none == {}
           n == Len(a)
           N == 1..n
           k == n - 1
           R == 1..k
           rest == SumFunctionOnSet(a, R)
<1>9. /\ n \in Nat /\ n # 0 /\ DOMAIN a = N /\ \A i \in N : a[i] \in Int
      /\ n \in N /\ N \ {n} = R /\ R \subseteq N /\ IsFiniteSet(N) /\ IsFiniteSet(R)
    <2>1. n \in Nat /\ DOMAIN a = N /\ (\A i \in N : a[i] \in Int) /\ IsFiniteSet(N)
        BY <1>7, SequencesHaveElements DEF AreIntegers
    <2>2. n # 0
        BY <1>7, EmptySeq DEF AreIntegers
    <2>3. n \in N /\ N \ {n} = R /\ R \subseteq N
        BY <2>1, <2>2
    <2> QED
        BY <2>1, <2>2, <2>3, FS_Subset
<1>10. SumFunction(a) = a[n] + rest /\ rest \in Int
    <2>1. SumFunction(a) = SumFunctionOnSet(a, N)
        BY <1>9 DEF SumFunction
    <2> HIDE DEF n, N, R, k
    <2>0. n \in N /\ IsFiniteSet(N) /\ \A i \in N : a[i] \in Int
        BY <1>9
    <2>2. SumFunctionOnSet(a, N) = a[n] + SumFunctionOnSet(a, N \ {n})
        BY <2>0, SumTakes
    <2>3. \A i \in R : a[i] \in Int
        BY <1>9
    <2>4. SumFunctionOnSet(a, R) \in Int
        BY <1>9, <2>3, SumTakes
    <2> QED
        BY <1>9, <2>1, <2>2, <2>4
<1>11. SumFunction(a) = due
    <2>1. CASE net # <<>>
        BY <1>1, <1>5, <2>1
    <2>2. CASE net = <<>>
        <3>1. a = nothing /\ n = 1
            BY <1>1, <1>6, <2>2
        <3>2. a[n] = 0 /\ R = {}
            <4>1. R = {}
                BY <3>1
            <4> HIDE DEF n
            <4>2. a[n] = 0
                BY <1>6, <3>1
            <4> QED
                BY <4>1, <4>2
        <3>3. rest = 0 /\ SumFunctionOnSet(net, DOMAIN net) = 0
            <4>1. DOMAIN net = {} /\ IsFiniteSet({}) /\ (\A i \in {} : net[i] \in Int) /\ \A i \in {} : a[i] \in Int
                BY <2>2, FS_EmptySet
            <4>2. SumFunctionOnSet(net, {}) = 0 /\ SumFunctionOnSet(a, {}) = 0
                BY <4>1, SumTakes
            <4> QED
                BY <3>2, <4>1, <4>2, Zenon
        <3>4. SumFunction(net) = 0
            BY <3>3 DEF SumFunction
        <3> HIDE DEF due, rest, n
        <3> QED
            BY <1>5, <1>10, <3>2, <3>3, <3>4
    <2> QED
        BY <2>1, <2>2
<1>12. ASSUME t >= 0 PROVE rest <= t
    <2>1. CASE net = <<>>
        <3>1. a = nothing /\ n = 1
            BY <1>1, <1>6, <2>1
        <3>2. R = {}
            BY <3>1
        <3>3. SumFunctionOnSet(a, {}) = 0
            <4>1. IsFiniteSet({}) /\ \A i \in {} : a[i] \in Int
                BY FS_EmptySet
            <4> QED
                BY <4>1, SumTakes
        <3>4. rest = 0
            BY <3>2, <3>3, Zenon
        <3> QED
            BY <1>12, <3>4
    <2>2. CASE net # <<>>
        <3>1. a[n] > 0 /\ a[n] \in Int
            BY <1>1, <1>5, <1>9, <2>2
        <3>2. due <= t + 1
            BY <1>4, <1>12 DEF Larger
        <3> HIDE DEF due, rest, n
        <3>3. a[n] + rest <= t + 1
            BY <1>10, <1>11, <3>2
        <3> QED
            BY <1>10, <3>1, <3>3
    <2> QED
        BY <2>1, <2>2
<1> QED
    BY <1>4, <1>7, <1>8, <1>11, <1>12 DEF a, sections

\* The rows s are those of p's template on the taxable value t.
FromTemplate(s, p, t) ==
    LET S == SumFunction(p.sections)
    IN  /\ S \in Int
        /\ Sum(s, "cgst") = Percent(t, PrintedRate(p, "cgstRate"))
        /\ Sum(s, "sgst") = Percent(t, PrintedRate(p, "sgstRate"))
        /\ Sum(s, "igst") = Percent(t, PrintedRate(p, "igstRate"))
        /\ Sum(s, "taxable") = IF S - t <= 1 THEN S ELSE Larger(0, t)
        /\ t >= 0 => \A i \in DOMAIN s : Taxes(s[i]) >= -3 * Len(s)
        /\ \A i \in DOMAIN s : /\ s[i].qty = 0
                               /\ s[i].total = s[i].taxable + Taxes(s[i])

\* Rows that agree in a field agree in its sum.
LEMMA SumsOfAlikeRows ==
    ASSUME NEW s, NEW u, DOMAIN u = DOMAIN s, NEW f, \A i \in DOMAIN s : u[i][f] = s[i][f]
    PROVE  Sum(u, f) = Sum(s, f)
<1>1. [i \in DOMAIN u |-> u[i][f]] = [i \in DOMAIN s |-> s[i][f]]
    OBVIOUS
<1> QED
    BY <1>1 DEF Sum

\* Joined lists have the sum of both.
LEMMA SumsAreJoined ==
    ASSUME NEW s, IsItems(s), NEW u, IsItems(u), NEW f \in IntegerFields
    PROVE  Sum(s \o u, f) = Sum(s, f) + Sum(u, f)
<1> DEFINE w == s \o u
           m == Len(s)
           n == Len(u)
           M == 1..m
           N == 1..n
           B == m + 1..m + n
           hs == [i \in M |-> s[i][f]]
           hu == [i \in N |-> u[i][f]]
           hw == [i \in 1..m + n |-> w[i][f]]
           at == [i \in N |-> m + i]
<1>1. /\ m \in Nat /\ DOMAIN s = M /\ \A i \in M : hs[i] \in Int
      /\ n \in Nat /\ DOMAIN u = N /\ \A i \in N : hu[i] \in Int
    BY ItemsAreTyped DEF IsItem, IntegerFields
<1>2. /\ Len(w) = m + n /\ DOMAIN w = 1..m + n
      /\ \A i \in M : w[i] = s[i]
      /\ \A i \in N : w[m + i] = u[i]
    <2>1. s \in Seq(Range(s)) /\ u \in Seq(Range(u))
        BY DEF IsItems
    <2>2. s \in Seq(Range(s) \cup Range(u)) /\ u \in Seq(Range(s) \cup Range(u))
        BY <2>1, SeqMonotonic
    <2>3. /\ w \in Seq(Range(s) \cup Range(u)) /\ Len(w) = m + n
          /\ \A i \in 1..m + n : w[i] = IF i <= m THEN s[i] ELSE u[i - m]
        BY <2>2, ConcatProperties
    <2>4. DOMAIN w = 1..m + n
        BY <2>3, LenProperties
    <2> HIDE DEF w
    <2>5. ASSUME NEW i \in M PROVE w[i] = s[i]
        BY <1>1, <2>3
    <2>6. ASSUME NEW i \in N PROVE w[m + i] = u[i]
        <3>1. m + i \in 1..m + n /\ ~(m + i <= m) /\ (m + i) - m = i
            BY <1>1
        <3> QED
            BY <2>3, <3>1
    <2> QED
        BY <2>3, <2>4, <2>5, <2>6
<1>3. Sum(s, f) = SumFunctionOnSet(hs, M) /\ Sum(u, f) = SumFunctionOnSet(hu, N)
    BY <1>1 DEF Sum, SumFunction
<1>4. Sum(w, f) = SumFunctionOnSet(hw, 1..m + n)
    BY <1>2 DEF Sum, SumFunction
<1>5. /\ IsFiniteSet(M) /\ IsFiniteSet(N) /\ IsFiniteSet(B)
      /\ M \cap B = {} /\ M \cup B = 1..m + n
    <2>1. 1 \in Int /\ m \in Int /\ n \in Int /\ m + 1 \in Int /\ m + n \in Int
        BY <1>1
    <2>2. IsFiniteSet(M) /\ IsFiniteSet(N) /\ IsFiniteSet(B)
        BY <2>1, FS_Interval
    <2>3. M \cap B = {} /\ M \cup B = 1..m + n
        BY <1>1
    <2> QED
        BY <2>2, <2>3
<1>6. /\ at \in [N -> B]
      /\ \A i, j \in N : at[i] = at[j] => i = j
      /\ \A x \in B : \E i \in N : at[i] = x
    <2>1. at \in [N -> B] /\ \A i, j \in N : at[i] = at[j] => i = j
        BY <1>1
    <2>2. ASSUME NEW x \in B PROVE \E i \in N : at[i] = x
        <3>1. x - m \in N /\ at[x - m] = x
            BY <1>1
        <3> QED
            BY <3>1
    <2> QED
        BY <2>1, <2>2
<1>7. \A i \in M : hw[i] = hs[i] /\ hs[i] \in Int /\ hw[i] \in Int
    BY <1>1, <1>2
<1>8. \A i \in N : hu[i] \in Int /\ hw[at[i]] = hu[i]
    <2>1. ASSUME NEW i \in N PROVE hw[at[i]] = hu[i]
        <3>1. m + i \in 1..m + n /\ at[i] = m + i
            BY <1>1
        <3> QED
            BY <1>2, <3>1
    <2> QED
        BY <1>1, <2>1
<1> HIDE DEF w, m, n, M, N, B, hs, hu, hw, at
<1>9. \A i \in B : hw[i] \in Int
    BY <1>6, <1>8
<1>10. SumFunctionOnSet(hw, M) = SumFunctionOnSet(hs, M)
    BY <1>5, <1>7, SumAgrees
<1>11. SumFunctionOnSet(hw, B) = SumFunctionOnSet(hu, N)
    BY <1>5, <1>6, <1>8, SumIsCarried
<1>12. SumFunctionOnSet(hw, M \cup B) = SumFunctionOnSet(hw, M) + SumFunctionOnSet(hw, B)
    <2>1. \A i \in M \cup B : hw[i] \in Int
        BY <1>7, <1>9
    <2> QED
        BY <1>5, <2>1, SumOverUnion
<1>13. Sum(w, f) = Sum(s, f) + Sum(u, f)
    BY <1>3, <1>4, <1>5, <1>10, <1>11, <1>12
<1> QED
    BY <1>13 DEF w

\* The rows made of the template are of the template.
LEMMA TemplateRowsAddUp ==
    ASSUME NEW p, IsPaper(p), NEW t \in Int, NEW s, s = TemplateRows(p, t), s # <<>>
    PROVE  FromTemplate(s, p, t)
<1> DEFINE a == SectionAmounts(p, t)
           Printed(f) == PrintedRate(p, f)
           tax == [i \in DOMAIN a |-> [cgst |-> ShareOfTax(a, t, Printed("cgstRate"), i),
                                       sgst |-> ShareOfTax(a, t, Printed("sgstRate"), i),
                                       igst |-> ShareOfTax(a, t, Printed("igstRate"), i)]]
           S == SumFunction(p.sections)
<1>1. s = [i \in DOMAIN a |-> TemplateRow(p, a[i], tax[i])]
    BY DEF TemplateRows, SectionAmounts
<1>2. /\ AreIntegers(a) /\ a # <<>> /\ S \in Int
      /\ SumFunction(a) = IF S - t <= 1 THEN S ELSE Larger(0, t)
      /\ \A i \in DOMAIN a : a[i] >= 0
      /\ t >= 0 => SumFunctionOnSet(a, 1..Len(a) - 1) <= t
    BY SectionsBecomeAmounts
<1> HIDE DEF a, S
<1>3. Len(a) \in Nat /\ DOMAIN a = 1..Len(a) /\ \A i \in DOMAIN a : a[i] \in Int
    BY <1>2, SequencesHaveElements DEF AreIntegers
<1>4. /\ DOMAIN s = DOMAIN a /\ s = [i \in DOMAIN s |-> s[i]]
      /\ \A i \in DOMAIN a : s[i] = TemplateRow(p, a[i], tax[i])
    BY <1>1
<1>5. Len(s) = Len(a)
    <2>1. s \in Seq(Range(s))
        BY <1>3, <1>4, CountedFromOne
    <2>2. Len(s) \in Nat /\ DOMAIN s = 1..Len(s)
        BY <2>1, SequencesHaveElements
    <2> QED
        BY <1>3, <1>4, <2>2
<1>6. ASSUME NEW i \in DOMAIN a
      PROVE  /\ s[i].qty = 0 /\ s[i]["taxable"] = a[i]
             /\ s[i]["cgst"] = ShareOfTax(a, t, Printed("cgstRate"), i)
             /\ s[i]["sgst"] = ShareOfTax(a, t, Printed("sgstRate"), i)
             /\ s[i]["igst"] = ShareOfTax(a, t, Printed("igstRate"), i)
             /\ s[i].total = s[i].taxable + Taxes(s[i])
    <2> DEFINE x == ShareOfTax(a, t, Printed("cgstRate"), i)
               y == ShareOfTax(a, t, Printed("sgstRate"), i)
               z == ShareOfTax(a, t, Printed("igstRate"), i)
               r == TemplateRow(p, a[i], tax[i])
    <2>1. tax[i] = [cgst |-> x, sgst |-> y, igst |-> z] /\ s[i] = r
        BY <1>4
    <2> HIDE DEF x, y, z, tax
    <2>2. /\ r.qty = 0 /\ r.taxable = a[i] /\ r.cgst = x /\ r.sgst = y /\ r.igst = z
          /\ r.total = a[i] + (x + y + z)
        BY <2>1 DEF TemplateRow, Taxes
    <2> HIDE DEF r
    <2>3. Taxes(r) = x + y + z
        BY <2>2 DEF Taxes
    <2> QED
        BY <2>1, <2>2, <2>3 DEF x, y, z
<1> HIDE DEF tax
<1> DEFINE column == [f \in {"taxable", "cgst", "sgst", "igst"} |-> [i \in DOMAIN s |-> s[i][f]]]
<1>7. \A f \in {"taxable", "cgst", "sgst", "igst"} : Sum(s, f) = SumFunction(column[f])
    BY DEF Sum
<1>8. \A f \in {"taxable", "cgst", "sgst", "igst"} :
          DOMAIN column[f] = DOMAIN a /\ \A i \in DOMAIN a : column[f][i] = s[i][f]
    BY <1>4
<1>9. column["taxable"] = a
    <2>1. a = [i \in DOMAIN a |-> a[i]]
        BY <1>2 DEF AreIntegers
    <2> QED
        BY <1>4, <1>6, <2>1
<1> HIDE DEF column
<1>10. ASSUME NEW f \in {"cgst", "sgst", "igst"}, NEW r \in Nat,
              \A i \in DOMAIN a : s[i][f] = ShareOfTax(a, t, r, i)
       PROVE  /\ Sum(s, f) = Percent(t, r)
              /\ \A i \in DOMAIN a : s[i][f] \in Int
              /\ t >= 0 => \A i \in DOMAIN a : s[i][f] >= -Len(a)
    <2> DEFINE share == column[f]
    <2>1. DOMAIN share = DOMAIN a /\ \A i \in DOMAIN a : share[i] = s[i][f]
        BY <1>8
    <2>2. \A i \in DOMAIN a : share[i] = ShareOfTax(a, t, r, i)
        BY <1>10, <2>1
    <2>3. Sum(s, f) = SumFunction(share)
        BY <1>7
    <2> HIDE DEF share
    <2>4. /\ SumFunction(share) = Percent(t, r)
          /\ \A i \in DOMAIN a : share[i] \in Int
          /\ (/\ \A i \in DOMAIN a : a[i] >= 0
              /\ SumFunctionOnSet(a, 1..Len(a) - 1) <= t)
                 => \A i \in DOMAIN a : share[i] >= - Len(a)
        BY <1>2, <2>1, <2>2, SharesOfATax
    <2> QED
        BY <1>2, <2>1, <2>3, <2>4
<1>11. Printed("cgstRate") \in Nat /\ Printed("sgstRate") \in Nat /\ Printed("igstRate") \in Nat
    BY PapersArePositive
<1> HIDE DEF Printed
<1>12. /\ Sum(s, "cgst") = Percent(t, Printed("cgstRate"))
       /\ \A i \in DOMAIN a : s[i]["cgst"] \in Int
       /\ t >= 0 => \A i \in DOMAIN a : s[i]["cgst"] >= -Len(a)
    BY <1>6, <1>10, <1>11
<1>13. /\ Sum(s, "sgst") = Percent(t, Printed("sgstRate"))
       /\ \A i \in DOMAIN a : s[i]["sgst"] \in Int
       /\ t >= 0 => \A i \in DOMAIN a : s[i]["sgst"] >= -Len(a)
    BY <1>6, <1>10, <1>11
<1>14. /\ Sum(s, "igst") = Percent(t, Printed("igstRate"))
       /\ \A i \in DOMAIN a : s[i]["igst"] \in Int
       /\ t >= 0 => \A i \in DOMAIN a : s[i]["igst"] >= -Len(a)
    BY <1>6, <1>10, <1>11
<1>15. t >= 0 => \A i \in DOMAIN s : Taxes(s[i]) >= -3 * Len(s)
    <2> SUFFICES ASSUME t >= 0, NEW i \in DOMAIN a PROVE Taxes(s[i]) >= -3 * Len(a)
        BY <1>4, <1>5
    <2> DEFINE x == s[i].cgst
               y == s[i].sgst
               z == s[i].igst
               n == Len(a)
    <2>1. x >= -n /\ y >= -n /\ z >= -n /\ x \in Int /\ y \in Int /\ z \in Int /\ n \in Nat
        BY <1>3, <1>12, <1>13, <1>14
    <2>2. Taxes(s[i]) = x + y + z
        BY DEF Taxes
    <2> HIDE DEF x, y, z, n
    <2>3. x + y + z >= -3 * n
        BY <2>1
    <2> QED
        BY <2>2, <2>3 DEF n
<1>16. Sum(s, "taxable") = IF S - t <= 1 THEN S ELSE Larger(0, t)
    BY <1>2, <1>7, <1>9
<1> QED
    BY <1>2, <1>4, <1>6, <1>12, <1>13, <1>14, <1>15, <1>16 DEF FromTemplate, Printed, S

\* To give every row a category changes nothing of this.
LEMMA TaggedRowsAddUp ==
    ASSUME NEW s, IsItems(s), NEW p, NEW t, FromTemplate(s, p, t),
           NEW u, DOMAIN u = DOMAIN s, Len(u) = Len(s),
           \A i \in DOMAIN s : \A f \in IntegerFields : u[i][f] = s[i][f]
    PROVE  FromTemplate(u, p, t)
<1>1. \A i \in DOMAIN s : /\ u[i].qty = s[i].qty /\ u[i].taxable = s[i].taxable /\ u[i].total = s[i].total
                          /\ u[i].cgst = s[i].cgst /\ u[i].sgst = s[i].sgst /\ u[i].igst = s[i].igst
    BY DEF IntegerFields, Amounts
<1>2. \A i \in DOMAIN s : Taxes(u[i]) = Taxes(s[i])
    BY <1>1 DEF Taxes
<1>3. \A f \in IntegerFields : Sum(u, f) = Sum(s, f)
    BY SumsOfAlikeRows
<1>4. /\ Sum(u, "cgst") = Sum(s, "cgst") /\ Sum(u, "sgst") = Sum(s, "sgst")
      /\ Sum(u, "igst") = Sum(s, "igst") /\ Sum(u, "taxable") = Sum(s, "taxable")
    BY <1>3 DEF IntegerFields, Amounts
<1> QED
    BY <1>1, <1>2, <1>4 DEF FromTemplate
------------------------------------------------------------------------------
(* Where the rows come from, at every stage.                               *)

Open == sums.taxable + sums.advance - Sum(sales, "taxable")
FollowedUp == Open = shortfall \/ 20 * Gap(Open, 0) <= Larger(40 * Rupee, shortfall)
IsVerified(l) == l.taxable > 0 => OneKindOfTax(l) /\ l.total = l.taxable + Taxes(l)

RowsInv ==
    /\ work = "queued" => sales = <<>>
    /\ work \in {"queued", "extracted"} => ~template
    /\ template => work \in {"itemised", "ready"} \/ Done
    /\ template /\ (work = "itemised" \/ ~paper.export) => FromTemplate(sales, paper, sums.taxable)
    /\ shortfall # 0 => (work \in {"filled", "ready"} \/ Done) /\ FollowedUp
    /\ (work = "ready" \/ Done) /\ ~template => \A i \in DOMAIN sales : IsVerified(sales[i])

\* A step that leaves rows and sums alone, once they are complete.
LEMMA CompleteRowsStay ==
    ASSUME RowsInv, UNCHANGED <<paper, sums, sales, template, shortfall>>,
           work = "ready" \/ Done, (work = "ready" \/ Done)'
    PROVE  RowsInv'
<1>1. Sum(sales, "taxable")' = Sum(sales, "taxable")
    OBVIOUS
<1> QED
    BY <1>1 DEF RowsInv, Done, FollowedUp, Open

\* Before the clean-up no gap has been asked for; without rows there is
\* nothing to verify.
LEMMA EarlyRowsAreKept ==
    ASSUME shortfall' = 0, template' = FALSE, work' # "queued", (work = "ready" \/ Done)' => sales' = <<>>
    PROVE  RowsInv'
<1> DEFINE none == <<>>
<1>1. DOMAIN none = {}
    OBVIOUS
<1>2. (work = "ready" \/ Done)' => DOMAIN sales' = {}
    BY <1>1
<1> QED
    BY <1>2 DEF RowsInv

\* The rows of the template replace the model's.
LEMMA ApplyTableAddsUp ==
    ASSUME InvoiceInv, InvoiceInv', RowsInv, ApplyTable
    PROVE  RowsInv'
<1>1. /\ work = "extracted" /\ UNCHANGED <<paper, purchases, shortfall>>
      /\ template' = (/\ paper.type # "purchase" /\ HasTable(paper)
                      /\ TemplateRows(paper, sums'.taxable) # <<>>)
      /\ sales' = IF template' THEN TemplateRows(paper, sums'.taxable) ELSE sales
      /\ work' = IF template' \/ sales # <<>> THEN "itemised" ELSE "ready"
    BY DEF ApplyTable
<1>2. shortfall' = 0 /\ template' \in BOOLEAN
    BY <1>1 DEF RowsInv, Done
<1>3. CASE template'
    <2>1. paper' \in Papers /\ IsPaper(paper')
        BY <1>1, InvoiceConstants DEF InvoiceInv
    <2>2. sums'.taxable \in Int
        BY DEF InvoiceInv, AreSums, Amounts
    <2> DEFINE s == TemplateRows(paper', sums'.taxable)
    <2>3. s # <<>> /\ sales' = s
        BY <1>1, <1>3
    <2>4. FromTemplate(s, paper', sums'.taxable)
        BY <2>1, <2>2, <2>3, TemplateRowsAddUp
    <2>5. FromTemplate(sales', paper', sums'.taxable) /\ work' = "itemised"
        BY <1>1, <1>3, <2>3, <2>4
    <2> QED
        BY <1>2, <1>3, <2>5 DEF RowsInv, Done
<1>4. CASE ~template'
    <2>1. template' = FALSE /\ work' \in {"itemised", "ready"} /\ (work' = "ready" => sales' = <<>>)
        BY <1>1, <1>2, <1>4
    <2> QED
        BY <1>2, <2>1, EarlyRowsAreKept DEF Done
<1> QED
    BY <1>3, <1>4

\* The categories are added.
LEMMA ClassifyTemplateAddsUp ==
    ASSUME InvoiceInv, InvoiceInv', RowsInv, ClassifyTemplate
    PROVE  RowsInv'
<1>1. /\ work = "itemised" /\ template /\ work' = "ready" /\ UNCHANGED <<paper, template, shortfall>>
      /\ FromTemplate(sales, paper, sums.taxable) /\ shortfall = 0 /\ IsItems(sales)
    BY DEF ClassifyTemplate, RowsInv, InvoiceInv, Done
<1>2. CASE ~paper.export
    <2>1. sums' = sums /\ sales' = [i \in DOMAIN sales |-> [sales[i] EXCEPT !.cat = Classified(sales[i])]]
        BY <1>2 DEF ClassifyTemplate, Each
    <2>2. IsItems(sales')
        BY DEF InvoiceInv
    <2>3. DOMAIN sales' = DOMAIN sales /\ Len(sales') = Len(sales)
        <3>1. DOMAIN sales' = DOMAIN sales
            BY <2>1
        <3>2. Len(sales') \in Nat /\ DOMAIN sales' = 1..Len(sales') /\ Len(sales) \in Nat /\ DOMAIN sales = 1..Len(sales)
            BY <1>1, <2>2, ItemsAreTyped
        <3>3. \A m, n \in Nat : 1..m = 1..n => m = n
            OBVIOUS
        <3>4. 1..Len(sales') = 1..Len(sales)
            BY <3>1, <3>2
        <3>5. Len(sales') = Len(sales)
            BY <3>2, <3>3, <3>4
        <3> QED
            BY <3>1, <3>5
    <2>4. \A i \in DOMAIN sales : \A f \in IntegerFields : sales'[i][f] = sales[i][f]
        <3>1. ASSUME NEW l, IsItem(l), NEW f \in IntegerFields, NEW c PROVE [l EXCEPT !.cat = c][f] = l[f]
            BY <3>1 DEF IsItem, IntegerFields, Amounts
        <3>2. ASSUME NEW i \in DOMAIN sales, NEW f \in IntegerFields PROVE sales'[i][f] = sales[i][f]
            <4> DEFINE l == sales[i]
                       c == Classified(l)
            <4>1. IsItem(l)
                BY <1>1, ItemsAreTyped
            <4>2. sales'[i] = [l EXCEPT !.cat = c]
                BY <2>1
            <4> HIDE DEF l, c
            <4>3. [l EXCEPT !.cat = c][f] = l[f]
                BY <3>1, <4>1
            <4> QED
                BY <4>2, <4>3 DEF l
        <3> QED
            BY <3>2
    <2>5. FromTemplate(sales', paper, sums.taxable)
        BY <1>1, <2>3, <2>4, TaggedRowsAddUp
    <2>6. FromTemplate(sales', paper', sums'.taxable)
        BY <1>1, <2>1, <2>5
    <2> QED
        BY <1>1, <2>6 DEF RowsInv, Done
<1>3. CASE paper.export
    BY <1>1, <1>3 DEF RowsInv, Done
<1> QED
    BY <1>2, <1>3

\* The lines of the follow-up call are taken only if they close the gap.
LEMMA FillGapAddsUp ==
    ASSUME InvoiceInv, RowsInv, FillGap
    PROVE  RowsInv'
<1> DEFINE missing == MissingTaxable
<1>1. /\ work = "cleaned" /\ missing > 0 /\ work' = "filled" /\ shortfall' = missing
      /\ UNCHANGED <<paper, sums, template>> /\ ~template
      /\ \E found \in Findings :
             sales' = IF found # <<>> /\ ClosesGap(found, missing) THEN sales \o found ELSE sales
    BY DEF FillGap, RowsInv, Done
<1>2. missing = Open
    <2>1. missing \in {Open, 0}
        BY DEF MissingTaxable, Open
    <2> HIDE DEF missing
    <2> QED
        BY <1>1, <2>1
<1> HIDE DEF missing
<1>3. IsItems(sales) /\ AreSums(sums) /\ Sum(sales, "taxable") \in Int /\ missing \in Int
    <2>1. IsItems(sales) /\ AreSums(sums)
        BY DEF InvoiceInv
    <2>2. Sum(sales, "taxable") \in Int
        BY <2>1, ItemsAreTyped DEF IntegerFields, Amounts
    <2>3. sums.taxable \in Int /\ sums.advance \in Int
        BY <2>1 DEF AreSums, Amounts
    <2> QED
        BY <1>2, <2>1, <2>2, <2>3 DEF Open
<1>4. FollowedUp'
    <2>1. PICK found \in Findings :
              sales' = IF found # <<>> /\ ClosesGap(found, missing) THEN sales \o found ELSE sales
        BY <1>1
    <2>2. CASE sales' = sales
        <3>1. Open' = Open
            BY <1>1, <2>2 DEF Open
        <3> QED
            BY <1>1, <1>2, <3>1 DEF FollowedUp
    <2>3. CASE sales' = sales \o found /\ ClosesGap(found, missing)
        <3> DEFINE got == Sum(found, "taxable")
        <3>1. IsItems(found)
            BY InvoiceConstants
        <3>2. got \in Int
            BY <3>1, ItemsAreTyped DEF IntegerFields, Amounts
        <3>3. Sum(sales \o found, "taxable") = Sum(sales, "taxable") + got
            BY <1>3, <3>1, SumsAreJoined DEF IntegerFields, Amounts
        <3>4. Open' = missing - got
            <4>1. sums.taxable \in Int /\ sums.advance \in Int
                BY <1>3 DEF AreSums, Amounts
            <4>2. Open' = sums.taxable + sums.advance - (Sum(sales, "taxable") + got)
                BY <1>1, <2>3, <3>3 DEF Open
            <4> HIDE DEF got
            <4> QED
                BY <1>2, <1>3, <3>2, <4>1, <4>2 DEF Open
        <3>5. 100 * Gap(got, missing) <= Larger(200 * Rupee, 5 * missing)
            BY <2>3 DEF ClosesGap
        <3> HIDE DEF got
        <3>6. 20 * Gap(missing - got, 0) <= Larger(40 * Rupee, missing)
            BY <1>3, <3>2, <3>5 DEF Gap, Larger, Rupee
        <3> QED
            BY <1>1, <3>4, <3>6 DEF FollowedUp
    <2> QED
        BY <2>1, <2>2, <2>3
<1> QED
    BY <1>1, <1>4 DEF RowsInv, Done

\* A row of any value gets its taxes anew.
LEMMA RowsAreVerified ==
    ASSUME NEW l, IsItem(l), NEW b
    PROVE  MathVerified(l, b).taxable = l.taxable /\ IsVerified(MathVerified(l, b))
<1>1. /\ l.taxable \in Int /\ l.cgst \in Int /\ l.sgst \in Int /\ l.igst \in Int
      /\ {"taxable", "cgst", "sgst", "igst", "total", "rate"} \subseteq DOMAIN l
    BY DEF IsItem, Amounts
<1> DEFINE snapped == NearestSlab(Taxes(l), l.taxable)
           rate == IF snapped = 0 /\ l.hsn = "99" THEN 1800 ELSE snapped
           igst == IF b THEN Percent(l.taxable, rate) ELSE 0
           half == IF b THEN 0 ELSE Percent(l.taxable, rate \div 2)
           value == l.taxable + igst + 2 * half
           untaxed == [Untaxed(l) EXCEPT !.rate = 0]
           taxed == [l EXCEPT !.rate = rate, !.igst = igst, !.cgst = half, !.sgst = half, !.total = value]
<1>2. MathVerified(l, b) = IF l.taxable <= 0 THEN l
                           ELSE IF l.cat \in {"EXPORT", "SEZ", "NIL_EXEMPT"} THEN untaxed ELSE taxed
    BY DEF MathVerified
<1>3. /\ untaxed.taxable = l.taxable /\ untaxed.total = l.taxable
      /\ untaxed.cgst = 0 /\ untaxed.sgst = 0 /\ untaxed.igst = 0
    BY <1>1 DEF Untaxed
<1>4. /\ taxed.taxable = l.taxable /\ taxed.total = value
      /\ taxed.cgst = half /\ taxed.sgst = half /\ taxed.igst = igst
    <2> HIDE DEF value, igst, half, rate
    <2> QED
        BY <1>1
<1>5. (igst = 0 \/ half = 0) /\ igst \in Int /\ half \in Int
    <2>1. snapped \in Slabs \cup {0}
        BY <1>1, SlabsAreIntegers DEF Taxes
    <2>2. rate \in Int /\ rate \div 2 \in Int
        BY <2>1 DEF Slabs
    <2> HIDE DEF rate
    <2>3. Percent(l.taxable, rate) \in Int /\ Percent(l.taxable, rate \div 2) \in Int
        BY <1>1, <2>2, PercentsAreIntegers
    <2> QED
        BY <2>3
<1> HIDE DEF taxed, untaxed, igst, half
<1>6. IsVerified(untaxed)
    BY <1>1, <1>3 DEF IsVerified, OneKindOfTax, Taxes
<1>7. IsVerified(taxed)
    BY <1>1, <1>4, <1>5 DEF IsVerified, OneKindOfTax, Taxes
<1>8. l.taxable <= 0 => IsVerified(l)
    BY <1>1 DEF IsVerified
<1> QED
    BY <1>2, <1>3, <1>4, <1>6, <1>7, <1>8

\* So the rows of the model do.
LEMMA VerifyMathAddsUp ==
    ASSUME InvoiceInv, RowsInv, VerifyMath
    PROVE  RowsInv'
<1> DEFINE b == IsInterstate(paper, sums, sales)
<1>1. /\ work = "filled" /\ work' = "ready" /\ UNCHANGED <<paper, sums, template, shortfall>> /\ ~template
      /\ sales' = [i \in DOMAIN sales |-> MathVerified(sales[i], b)]
      /\ \A i \in DOMAIN sales : IsItem(sales[i])
    <2>1. \A i \in DOMAIN sales : IsItem(sales[i])
        BY ItemsAreTyped DEF InvoiceInv
    <2> QED
        BY <2>1 DEF VerifyMath, Each, RowsInv, Done
<1> HIDE DEF b
<1>2. DOMAIN sales' = DOMAIN sales
      /\ \A i \in DOMAIN sales : sales'[i]["taxable"] = sales[i]["taxable"] /\ IsVerified(sales'[i])
    BY <1>1, RowsAreVerified
<1>3. Sum(sales', "taxable") = Sum(sales, "taxable")
    BY <1>2, SumsOfAlikeRows
<1>4. Open' = Open
    BY <1>1, <1>3 DEF Open
<1>5. shortfall # 0 => FollowedUp'
    BY <1>1, <1>4 DEF RowsInv, FollowedUp
<1> QED
    BY <1>1, <1>2, <1>5 DEF RowsInv, Done

\* Every step keeps where the rows come from.
LEMMA RowsContinue ==
    ASSUME InvoiceInv, InvoiceInv', RowsInv, [InvoiceNext]_invoiceVars
    PROVE  RowsInv'
<1>1. ASSUME NEW p \in Papers, CannotOpen(p) PROVE RowsInv'
    <2>1. shortfall' = 0 /\ template' = FALSE /\ work' = "ready" /\ sales' = <<>>
        BY <1>1 DEF CannotOpen, RowsInv, Done
    <2> QED
        BY <2>1, EarlyRowsAreKept
<1>2. ASSUME NEW p \in Papers, NEW answer \in Answers, ReadScan(p, answer) PROVE RowsInv'
    <2>1. shortfall' = 0 /\ template' = FALSE /\ work' = "ready" /\ sales' = <<>>
        BY <1>2 DEF ReadScan, RowsInv, Done
    <2> QED
        BY <2>1, EarlyRowsAreKept
<1>3. ASSUME NEW p \in Papers, NEW answer \in Answers, Extract(p, answer) PROVE RowsInv'
    <2>1. shortfall' = 0 /\ template' = FALSE /\ work' = "extracted"
        BY <1>3 DEF Extract, RowsInv, Done
    <2> QED
        BY <2>1, EarlyRowsAreKept DEF Done
<1>4. CASE CleanUpRows
    <2>1. shortfall' = 0 /\ template' = FALSE /\ work' = "cleaned"
        BY <1>4 DEF CleanUpRows, RowsInv, Done
    <2> QED
        BY <2>1, EarlyRowsAreKept DEF Done
<1>5. CASE NoGap
    <2>1. shortfall' = 0 /\ template' = FALSE /\ work' = "filled"
        BY <1>5 DEF NoGap, RowsInv, Done
    <2> QED
        BY <2>1, EarlyRowsAreKept DEF Done
<1>6. CASE StoreRows
    BY <1>6, CompleteRowsStay DEF StoreRows, Done
<1>7. CASE Validate
    BY <1>7, CompleteRowsStay DEF Validate, Done
<1>8. CASE PushVoucher
    BY <1>8, CompleteRowsStay DEF PushVoucher, Done
<1>9. CASE UNCHANGED invoiceVars
    BY <1>9 DEF invoiceVars, RowsInv, Done, FollowedUp, Open
<1> QED
    BY <1>1, <1>2, <1>3, <1>4, <1>5, <1>6, <1>7, <1>8, <1>9, ApplyTableAddsUp, ClassifyTemplateAddsUp,
       FillGapAddsUp, VerifyMathAddsUp DEF InvoiceNext

\* An invoice starts without rows of its own.
LEMMA RowsStart == InvoiceInit => RowsInv
BY DEF InvoiceInit, RowsInv, Done

\* What is known of the rows of an invoice at every stage: those of the
\* template bear the printed rates on the taxable value and share out what
\* the advance leaves of it, a gap that was followed up is closed, and what
\* the model read bears one kind of tax and adds up.
LEMMA RowsAreAlwaysKnown == InvoiceSpec => [](InvoiceInv /\ RowsInv)
<1>1. InvoiceInit => InvoiceInv /\ RowsInv
    BY InvoiceStarts, RowsStart
<1>2. InvoiceInv /\ RowsInv /\ [InvoiceNext]_invoiceVars => InvoiceInv' /\ RowsInv'
    BY InvoiceContinues, RowsContinue
<1> QED
    BY <1>1, <1>2, PTL DEF InvoiceSpec

\* The rows that are stored add up, on either path, for any papers, answers
\* and findings: from the template the taxes come to the printed rates to the
\* paisa and the rows claim no more than the invoice; from the model a gap
\* that was followed up is closed and rows of any value bear one kind of tax.
THEOREM RowsAlwaysAddUp == InvoiceSpec => []RowsAddUp
<1>1. InvoiceInv /\ RowsInv => RowsAddUp
    <2> SUFFICES ASSUME InvoiceInv, RowsInv, Done PROVE RowsAddUp
        BY DEF RowsAddUp
    <2>1. CASE template
        <3>1. CASE ~paper.export
            <4>1. FromTemplate(sales, paper, sums.taxable)
                BY <2>1, <3>1 DEF RowsInv
            <4>2. sums.taxable \in Int
                BY DEF InvoiceInv, AreSums, Amounts
            <4> DEFINE t == sums.taxable
            <4>3. t >= 0 => Sum(sales, "taxable") <= t + 1
                <5> DEFINE S == SumFunction(paper.sections)
                <5>1. S \in Int /\ Sum(sales, "taxable") = IF S - t <= 1 THEN S ELSE Larger(0, t)
                    BY <4>1 DEF FromTemplate
                <5> HIDE DEF S
                <5> QED
                    BY <4>2, <5>1 DEF Larger
            <4> QED
                BY <2>1, <3>1, <4>1, <4>3 DEF RowsAddUp, FromTemplate
        <3>2. CASE paper.export
            BY <2>1, <3>2 DEF RowsAddUp
        <3> QED
            BY <3>1, <3>2
    <2>2. CASE ~template
        <3>1. \A i \in DOMAIN sales : IsVerified(sales[i])
            BY <2>2 DEF RowsInv
        <3>2. shortfall > 0 => FollowedUp
            <4>1. ~(0 > 0)
                OBVIOUS
            <4> QED
                BY <4>1 DEF RowsInv
        <3> QED
            BY <2>2, <3>1, <3>2 DEF RowsAddUp, IsVerified, FollowedUp, Open
    <2> QED
        BY <2>1, <2>2
<1> QED
    BY <1>1, RowsAreAlwaysKnown, PTL

\* An invoice that prints a consistent table, and whose sections reach its
\* taxable value, is ready for the books whatever the model made of it: for
\* any papers, answers and findings.
THEOREM TemplatesAreAlwaysReady == InvoiceSpec => []TemplateIsReady
<1>1. InvoiceInv /\ RowsInv => TemplateIsReady
    <2> SUFFICES ASSUME InvoiceInv, RowsInv, Done, template, ~paper.export, Covers(paper),
                        sums.taxable = Column(paper, "taxable"), SummaryAddsUp(sums), OneKindOfTax(sums)
                 PROVE  Status(sums, sales) = "ERP_READY"
        BY DEF TemplateIsReady
    <2>1. FromTemplate(sales, paper, sums.taxable)
        BY DEF RowsInv
    <2>2. paper \in Papers /\ IsPaper(paper) /\ IsItems(sales)
        BY InvoiceConstants DEF InvoiceInv, Done
    <2> DEFINE t == sums.taxable
               S == SumFunction(paper.sections)
               own == Sum(sales, "taxable")
    <2>3. t \in Nat /\ S \in Int /\ S >= t - TOLERANCE_INR
        BY <2>1, <2>2, PapersArePositive DEF Covers, FromTemplate
    <2>4. own = IF S - t <= 1 THEN S ELSE Larger(0, t)
        BY <2>1 DEF FromTemplate
    <2>5. TaxableAgrees(sums, sales)
        <3> HIDE DEF t, S, own
        <3>1. own \in Int /\ Gap(t, own - 0) <= TOLERANCE_INR
            BY <2>3, <2>4 DEF Gap, Larger, TOLERANCE_INR, Rupee
        <3> QED
            BY <3>1 DEF TaxableAgrees, t, own
    <2>6. ASSUME NEW i \in DOMAIN sales PROVE LineAddsUp(sales[i])
        <3> DEFINE l == sales[i]
        <3>1. IsItem(l)
            BY <2>2, ItemsAreTyped
        <3>2. l.qty = 0 /\ l.total = l.taxable + Taxes(l)
            BY <2>1 DEF FromTemplate
        <3> HIDE DEF l
        <3>3. /\ l.taxable \in Int /\ l.cgst \in Int /\ l.sgst \in Int /\ l.igst \in Int
              /\ l.total \in Int
            BY <3>1 DEF IsItem, Amounts
        <3>4. Gap(l.taxable + Taxes(l), l.total) <= TOLERANCE_INR
            <4>1. Gap(l.total, l.total) = 0
                BY <3>3 DEF Gap
            <4> QED
                BY <3>2, <4>1 DEF TOLERANCE_INR, Rupee
        <3>5. ~(l.qty > 0)
            BY <3>2
        <3>6. LineAddsUp(l)
            BY <3>4, <3>5 DEF LineAddsUp
        <3> QED
            BY <3>6 DEF l
    <2>7. LinesAddUp(sales)
        BY <2>6 DEF LinesAddUp
    <2> QED
        BY <2>5, <2>7 DEF Status
<1> QED
    BY <1>1, RowsAreAlwaysKnown, PTL
==============================================================================
