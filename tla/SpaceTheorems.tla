--------------------------- MODULE SpaceTheorems ---------------------------
(***************************************************************************)
(* Facts about free space: what first fit returns, and what the bitmap     *)
(* scan is sure of.                                                        *)
(***************************************************************************)
EXTENDS Space, FiniteSetTheorems, WellFoundedInduction, TLAPS

\* A non-empty set of natural numbers has a least element.  The intervals that
\* start at 0 and end in the set are finite, so one of them contains no other.
LEMMA LeastNatural ==
    ASSUME NEW F \in SUBSET Nat, F # {}
    PROVE  \E a \in F : \A b \in F : a <= b
<1> DEFINE T == {0 .. a : a \in F}
<1>1. \A a \in F : 0 .. a \in SUBSET Nat /\ IsFiniteSet(0 .. a)
    BY FS_Interval
<1>2. T \subseteq FiniteSubsetsOf(Nat)
    BY <1>1 DEF FiniteSubsetsOf
<1>3. T # {}
    OBVIOUS
<1>4. PICK X \in T : \A Y \in T : ~ (<<Y, X>> \in StrictSubsetOrdering(Nat))
    <2> HIDE DEF T
    <2> QED BY <1>2, <1>3, FS_StrictSubsetOrderingWellFounded, WFMin, Zenon
<1>5. PICK a \in F : X = 0 .. a
    OBVIOUS
<1>6. ASSUME NEW b \in F PROVE a <= b
    <2>1. <<0 .. b, 0 .. a>> \notin StrictSubsetOrdering(Nat)
        BY <1>4, <1>5
    <2>2. ~ (0 .. b \subseteq 0 .. a /\ 0 .. b # 0 .. a)
        BY <2>1, <1>1, <1>5 DEF StrictSubsetOrdering
    <2> QED BY <2>2, SMT
<1> QED BY <1>6

\* A function has finitely many values on a finite set.
LEMMA FiniteValues ==
    ASSUME NEW S, IsFiniteSet(S), NEW f
    PROVE  IsFiniteSet({f[x] : x \in S})
<1> DEFINE T == {f[x] : x \in S}
           g == [x \in S |-> f[x]]
<1>1. g \in Surjection(S, T)
    BY DEF Surjection
<1> HIDE DEF g, T
<1>2. IsFiniteSet(T)
    BY <1>1, FS_Surjection
<1> QED BY <1>2 DEF T

\* First fit returns an address at which there is room.
LEMMA FirstFitFits ==
    ASSUME NEW F \in SUBSET Nat, NEW n \in Nat, Fits(F, n) # {}
    PROVE  FirstFit(F, n) \in Fits(F, n)
<1>1. \E a \in Fits(F, n) : \A b \in Fits(F, n) : a <= b
    BY LeastNatural DEF Fits
<1> QED BY <1>1 DEF FirstFit

-----------------------------------------------------------------------------
(* Division, which the sizes of clusters, words, stripes and chunks need.  *)

LEMMA Division ==
    ASSUME NEW a \in Int, NEW b \in Int, b > 0
    PROVE  /\ a = b * (a \div b) + (a % b)
           /\ a \div b \in Int /\ a % b \in 0 .. b - 1
BY SMT

LEMMA DivideProduct ==
    ASSUME NEW m \in Int, NEW b \in Int, b > 0
    PROVE  (m * b) \div b = m /\ (m * b) % b = 0
BY SMT

LEMMA Quotient ==
    ASSUME NEW a \in Nat, NEW b \in Nat \ {0}, a % b = 0
    PROVE  \E q \in Int : a = q * b
<1>1. b \in Int /\ b > 0
    OBVIOUS
<1>2. a = (a \div b) * b /\ a \div b \in Int
    BY <1>1, Division
<1> QED BY <1>2

Multiple(a, M) == a % M = 0

LEMMA MultipleWitness ==
    ASSUME NEW a \in Int, NEW M \in Nat \ {0}
    PROVE  Multiple(a, M) <=> \E p \in Int : a = p * M
<1>1. M \in Int /\ M > 0
    OBVIOUS
<1>2. ASSUME Multiple(a, M) PROVE \E p \in Int : a = p * M
    <2>1. a = M * (a \div M) + (a % M) /\ a \div M \in Int
        BY <1>1, Division
    <2>2. a % M = 0
        BY <1>2 DEF Multiple
    <2> DEFINE p == a \div M
    <2>3. a = M * p + 0 /\ p \in Int
        BY <2>1, <2>2
    <2> HIDE DEF p
    <2>4. a = p * M
        BY <1>1, <2>3
    <2> QED BY <2>3, <2>4
<1>3. ASSUME NEW p \in Int, a = p * M PROVE Multiple(a, M)
    BY <1>1, <1>3, DivideProduct DEF Multiple
<1> QED BY <1>2, <1>3

\* Multiples add up, and so do multiples of them.
LEMMA MultipleSum ==
    ASSUME NEW a \in Int, NEW b \in Int, NEW M \in Nat \ {0}, Multiple(a, M), Multiple(b, M)
    PROVE  Multiple(a + b, M)
<1>1. PICK p \in Int : a = p * M
    BY MultipleWitness
<1>2. PICK q \in Int : b = q * M
    BY MultipleWitness
<1>3. a + b = (p + q) * M /\ p + q \in Int /\ a + b \in Int
    BY <1>1, <1>2
<1> QED BY <1>3, MultipleWitness

LEMMA MultipleProduct ==
    ASSUME NEW s \in Int, NEW a \in Int, NEW M \in Nat \ {0}, Multiple(a, M)
    PROVE  Multiple(s * a, M)
<1>1. PICK p \in Int : a = p * M
    BY MultipleWitness
<1>2. s * a = (s * p) * M /\ s * p \in Int /\ s * a \in Int
    BY <1>1
<1> QED BY <1>2, MultipleWitness

=============================================================================
