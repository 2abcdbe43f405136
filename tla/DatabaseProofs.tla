---------------------------- MODULE DatabaseProofs ----------------------------
(***************************************************************************)
(* Theorems about Database for any number of processes that open, upgrade  *)
(* and write the same file, with any limits and any number of faults.      *)
(***************************************************************************)
EXTENDS Database, FiniteSetTheorems, TLAPS

\* What a place says of the writer lock.
Holding == {"migrating"} \cup Writing

\* The writer is inside a transaction, and its view is the committed file.
LocksOrderly ==
  /\ \A i \in Instances : pc[i] \in Holding <=> writer = i
  /\ \A i \in Instances : writer = i => view[i] = file

Fields == {"versions", "tables", "listed", "kept", "rows", "legal", "events", "unmapped",
           "revision"}

\* A file keeps few events, and those of a file with a list of destinations, which is in one
\* of two places, were written by the release of that list.
Bounded(f) ==
  /\ DOMAIN f = Fields
  /\ f.events \subseteq EventIds
  /\ Cardinality(f.events) <= EventLimit
  /\ f.revision \in 0 .. MaxWrites
  /\ f.listed = <<>> \/ f.kept = <<>>
  /\ f.listed # <<>> \/ f.kept # <<>> => f.events \subseteq 1 .. EventLimit

FileOrderly == Bounded(file) /\ file.revision = accepted

\* Who reads or writes has a file of this release, and within the bounds.
OpenOrderly ==
  /\ \A i \in Instances : pc[i] \in {"open"} \cup Writing => Valid(file)
  /\ \A i \in Instances : pc[i] = "writingRevision" => file.revision < MaxWrites
  /\ \A i \in Instances : pc[i] = "writingEvent" => \E e \in EventIds : e > Newest(file.events)

\* The client of the events has all that is kept up to its cursor.
ClientOrderly ==
  /\ cursor <= Newest(file.events)
  /\ {e \in file.events : e <= cursor} \subseteq seen

\* The file was not one that a release up to this one wrote.
Cause ==
  \/ Lost(original)
  \/ original.versions # 1 .. Current(original)
  \/ Current(original) > Latest
  \/ Current(original) > 0 /\ ~original.tables
  \/ ~original.legal

\* A file as a release up to this one leaves it, also when its upgrade is interrupted.
Sound(f) == \E v \in 0 .. Latest :
  /\ f.versions = 1 .. v
  /\ f.tables <=> v > 0
  /\ f.legal
  /\ v >= 2 => f.listed = <<>>
  /\ v # 2 => f.kept = <<>>

RefusalsOrderly ==
  /\ ~Cause => Sound(file)
  /\ ~Cause => \A i \in Instances : pc[i] = "validating" => file.versions = 1 .. Latest
  /\ \A i \in Instances : error[i] \in {"migration", "corrupt"} => Cause

Orderly ==
  /\ TypeOK /\ DOMAIN view = Instances
  /\ LocksOrderly /\ FileOrderly /\ OpenOrderly /\ ClientOrderly /\ RefusalsOrderly

-----------------------------------------------------------------------------
(* Finite sets of numbers.                                                 *)

\* By induction over the finite subsets, which are ordered by strict inclusion.
LEMMA Extremes ==
  ASSUME NEW S \in SUBSET Nat, IsFiniteSet(S), S # {}
  PROVE  /\ \E x \in S : \A y \in S : x >= y
         /\ \E x \in S : \A y \in S : x <= y
<1> DEFINE Good(U) == /\ \E x \in U : \A y \in U : x >= y
                      /\ \E x \in U : \A y \in U : x <= y
           Bad == {U \in FiniteSubsetsOf(S) : U # {} /\ ~Good(U)}
<1>1. SUFFICES ASSUME Bad # {} PROVE FALSE
  <2>1. S \in FiniteSubsetsOf(S)
    BY DEF FiniteSubsetsOf
  <2> QED BY <1>1, <2>1
<1>2. PICK U \in Bad : \A V \in Bad : ~ (<<V, U>> \in StrictSubsetOrdering(S))
  <2>1. IsWellFoundedOn(StrictSubsetOrdering(S), FiniteSubsetsOf(S))
    BY FS_StrictSubsetOrderingWellFounded
  <2>2. Bad \subseteq FiniteSubsetsOf(S)
    OBVIOUS
  <2> HIDE DEF Bad
  <2> QED BY <1>1, <2>1, <2>2, WFMin
<1>3. U \in FiniteSubsetsOf(S) /\ U \subseteq S /\ IsFiniteSet(U) /\ U # {} /\ ~Good(U)
  BY <1>2 DEF FiniteSubsetsOf
<1>4. PICK x \in U : TRUE
  BY <1>3
<1>5. U \ {x} \in FiniteSubsetsOf(S)
  BY <1>3, FS_RemoveElement DEF FiniteSubsetsOf
<1>6. <<U \ {x}, U>> \in StrictSubsetOrdering(S)
  BY <1>3, <1>4, <1>5 DEF StrictSubsetOrdering, FiniteSubsetsOf
<1>7. CASE U \ {x} = {}
  <2>1. U = {x} /\ x \in Nat
    BY <1>3, <1>4, <1>7
  <2>2. x >= x /\ x <= x
    BY <2>1
  <2> QED BY <1>3, <2>1, <2>2
<1>8. CASE Good(U \ {x})
  <2>1. PICK high \in U \ {x} : \A y \in U \ {x} : high >= y
    BY <1>8
  <2>2. PICK low \in U \ {x} : \A y \in U \ {x} : low <= y
    BY <1>8
  <2>3. \A y \in U : y \in Nat
    BY <1>3
  <2>4. \E m \in U : \A y \in U : m >= y
    BY <1>4, <2>1, <2>3
  <2>5. \E m \in U : \A y \in U : m <= y
    BY <1>4, <2>2, <2>3
  <2> QED BY <1>3, <2>4, <2>5
<1> QED BY <1>2, <1>5, <1>6, <1>7, <1>8

\* The largest element of a set of numbers.
LEMMA MaxFacts ==
  ASSUME NEW S \in SUBSET Nat, IsFiniteSet(S), S # {}
  PROVE  Max(S) \in S /\ \A y \in S : y <= Max(S)
<1>1. PICK x \in S : \A y \in S : x >= y
  BY Extremes
<1>2. Max(S) \in S /\ \A y \in S : Max(S) >= y
  BY <1>1 DEF Max
<1> QED BY <1>2

LEMMA NewestFacts ==
  ASSUME NEW ids \in SUBSET Nat, IsFiniteSet(ids)
  PROVE  /\ Newest(ids) \in Nat
         /\ Newest(ids) \in ids \/ Newest(ids) = 0
         /\ \A e \in ids : e <= Newest(ids)
<1>1. ids \cup {0} \in SUBSET Nat /\ IsFiniteSet(ids \cup {0}) /\ ids \cup {0} # {}
  BY FS_AddElement
<1> QED BY <1>1, MaxFacts DEF Newest

\* The version of a file that has all versions up to one.
LEMMA CurrentFacts ==
  ASSUME NEW f, NEW v \in Nat, f.versions = 1 .. v
  PROVE  Current(f) = v
<1>1. 0 .. v \in SUBSET Nat /\ IsFiniteSet(0 .. v) /\ 0 .. v # {}
  <2>1. IsFiniteSet(0 .. v)
    BY FS_Interval
  <2>2. 0 \in 0 .. v /\ 0 .. v \subseteq Nat
    OBVIOUS
  <2> QED BY <2>1, <2>2
<1>2. f.versions \cup {0} = 0 .. v
  OBVIOUS
<1>3. Max(0 .. v) \in 0 .. v /\ v <= Max(0 .. v)
  BY <1>1, MaxFacts
<1>4. Max(0 .. v) = v
  BY <1>3
<1> QED BY <1>2, <1>4, Zenon DEF Current

-----------------------------------------------------------------------------
(* Events.                                                                 *)

\* add_event() keeps the new event and at most EventLimit in all.
LEMMA WithEventFacts ==
  ASSUME NEW ids \in SUBSET Nat, IsFiniteSet(ids)
  PROVE  /\ WithEvent(ids) \subseteq ids \cup {Newest(ids) + 1}
         /\ IsFiniteSet(WithEvent(ids)) /\ Cardinality(WithEvent(ids)) <= EventLimit
         /\ Newest(WithEvent(ids)) = Newest(ids) + 1
<1> DEFINE new == Newest(ids) + 1
<1>1. new \in Nat /\ EventLimit \in Nat \ {0} /\ \A e \in ids : e < new
  BY NewestFacts, DatabaseAssumption
<1>2. WithEvent(ids) = {e \in ids \cup {new} : e > new - EventLimit}
  BY DEF WithEvent
<1> HIDE DEF new
<1>3. ASSUME NEW e \in WithEvent(ids)
      PROVE  e \in Nat /\ e <= new /\ e \in (new - EventLimit + 1) .. new
  <2>1. e \in Nat /\ e > new - EventLimit /\ (e \in ids \/ e = new)
    BY <1>1, <1>2
  <2>2. e <= new
    BY <1>1, <2>1
  <2> QED BY <1>1, <2>1, <2>2
<1>4. WithEvent(ids) \subseteq (new - EventLimit + 1) .. new
  BY <1>3
<1>5. /\ IsFiniteSet((new - EventLimit + 1) .. new)
      /\ Cardinality((new - EventLimit + 1) .. new) = EventLimit
  <2>1. new - EventLimit + 1 \in Int /\ ~(new - EventLimit + 1 > new)
        /\ new - (new - EventLimit + 1) + 1 = EventLimit
    BY <1>1
  <2> QED BY <1>1, <2>1, FS_Interval
<1>6. IsFiniteSet(WithEvent(ids)) /\ Cardinality(WithEvent(ids)) <= EventLimit
  BY <1>4, <1>5, FS_Subset
<1>7. new \in WithEvent(ids)
  BY <1>1, <1>2
<1>8. WithEvent(ids) \in SUBSET Nat /\ \A e \in WithEvent(ids) : e <= new
  BY <1>3
<1>9. Newest(WithEvent(ids)) = new
  <2>1. /\ Newest(WithEvent(ids)) \in Nat
        /\ Newest(WithEvent(ids)) \in WithEvent(ids) \/ Newest(WithEvent(ids)) = 0
        /\ new <= Newest(WithEvent(ids))
    BY <1>6, <1>7, <1>8, NewestFacts
  <2> QED BY <1>1, <1>8, <2>1
<1> QED BY <1>2, <1>6, <1>9 DEF new

\* The first events of a set: whatever comes before one of them is one of them, there are
\* some if there are any, and all if there are few.
LEMMA FirstFacts ==
  ASSUME NEW ids \in SUBSET Nat, IsFiniteSet(ids), NEW n \in Nat \ {0}
  PROVE  /\ First(n, ids) \subseteq ids
         /\ \A e \in First(n, ids), d \in ids : d <= e => d \in First(n, ids)
         /\ ids # {} => First(n, ids) # {}
         /\ Cardinality(ids) <= n => First(n, ids) = ids
<1> DEFINE Before(e) == {d \in ids : d < e}
<1>1. \A e : IsFiniteSet(Before(e)) /\ Cardinality(Before(e)) \in Nat
  <2> TAKE e
  <2>1. IsFiniteSet(Before(e))
    BY FS_Subset
  <2> QED BY <2>1, FS_CardinalityType
<1>2. First(n, ids) = {e \in ids : Cardinality(Before(e)) < n}
  BY DEF First
<1>3. ASSUME NEW e \in First(n, ids), NEW d \in ids, d <= e
      PROVE  d \in First(n, ids)
  <2>1. Before(d) \subseteq Before(e)
    <3>1. e \in Nat /\ d \in Nat
      BY <1>2
    <3>2. \A x \in ids : x \in Nat /\ (x < d => x < e)
      BY <1>3, <3>1
    <3> QED BY <3>2
  <2>2. Cardinality(Before(d)) <= Cardinality(Before(e))
    BY <1>1, <2>1, FS_Subset
  <2>3. Cardinality(Before(d)) \in Nat /\ Cardinality(Before(e)) \in Nat
        /\ Cardinality(Before(e)) < n
    BY <1>1, <1>2
  <2> HIDE DEF Before
  <2>4. Cardinality(Before(d)) < n
    BY <2>2, <2>3
  <2> QED BY <1>2, <2>4
<1>4. ASSUME ids # {}
      PROVE  First(n, ids) # {}
  <2>1. PICK x \in ids : \A y \in ids : x <= y
    BY <1>4, Extremes
  <2>2. Before(x) = {}
    <3>1. \A y \in ids : ~(y < x)
      BY <2>1
    <3> QED BY <3>1
  <2>3. Cardinality(Before(x)) < n
    BY <2>2, FS_EmptySet
  <2> QED BY <1>2, <2>1, <2>3
<1>5. ASSUME Cardinality(ids) <= n
      PROVE  First(n, ids) = ids
  <2>1. ASSUME NEW e \in ids
        PROVE  Cardinality(Before(e)) < n
    <3>1. Before(e) \subseteq ids \ {e}
      OBVIOUS
    <3>2. IsFiniteSet(ids \ {e}) /\ Cardinality(ids \ {e}) = Cardinality(ids) - 1
      BY FS_RemoveElement
    <3>3. Cardinality(Before(e)) <= Cardinality(ids \ {e})
      BY <3>1, <3>2, FS_Subset
    <3>4. Cardinality(ids) \in Nat /\ Cardinality(Before(e)) \in Nat
      BY <1>1, FS_CardinalityType
    <3> HIDE DEF Before
    <3> QED BY <1>5, <3>2, <3>3, <3>4
  <2> QED BY <1>2, <2>1
<1> QED BY <1>2, <1>3, <1>4, <1>5

\* Following the cursor leaves nothing out, and an empty page is the last.
LEMMA PageFacts ==
  ASSUME NEW n \in Nat \ {0}, file.events \in SUBSET Nat, IsFiniteSet(file.events),
         Cardinality(file.events) <= EventLimit, cursor \in Nat
  PROVE  /\ Page(n) \subseteq file.events
         /\ \A e \in Page(n) : e > cursor
         /\ \A e \in Page(n), d \in file.events : d <= e => d <= cursor \/ d \in Page(n)
         /\ Page(n) = {} => \A e \in file.events : e <= cursor
<1> DEFINE listed == First(ListLimit, file.events)
           later  == {e \in listed : e > cursor}
<1>1. EventLimit \in Nat \ {0} /\ ListLimit \in Nat \ {0} /\ EventLimit <= ListLimit
  BY DatabaseAssumption
<1>2. listed = file.events
  <2>1. Cardinality(file.events) \in Nat
    BY FS_CardinalityType
  <2>2. Cardinality(file.events) <= ListLimit
    BY <1>1, <2>1
  <2> QED BY <1>1, <2>2, FirstFacts
<1>3. later \in SUBSET Nat /\ IsFiniteSet(later)
  BY <1>2, FS_Subset
<1>4. /\ First(n, later) \subseteq later
      /\ \A e \in First(n, later), d \in later : d <= e => d \in First(n, later)
      /\ later # {} => First(n, later) # {}
  <2> HIDE DEF later
  <2> QED BY <1>3, FirstFacts
<1>5. Page(n) = First(n, later)
  BY DEF Page
<1>6. later = {e \in file.events : e > cursor}
  BY <1>2
<1> HIDE DEF later
<1> QED BY <1>4, <1>5, <1>6

-----------------------------------------------------------------------------
(* The list of a file of version 1: what the folds of migration 3 compute. *)

\* Induction up to a bound, by the least element that a set of numbers would leave out.
LEMMA StepByStep ==
  ASSUME NEW N \in Nat, NEW S, 0 \in S, \A n \in 0 .. N : n < N /\ n \in S => n + 1 \in S
  PROVE  \A n \in 0 .. N : n \in S
<1> DEFINE Bad == {n \in 0 .. N : n \notin S}
<1> SUFFICES ASSUME Bad # {} PROVE FALSE
  OBVIOUS
<1>1. Bad \in SUBSET Nat /\ IsFiniteSet(Bad)
  <2>1. IsFiniteSet(0 .. N)
    BY FS_Interval
  <2> QED BY <2>1, FS_Subset
<1>2. PICK n \in Bad : \A k \in Bad : n <= k
  <2> HIDE DEF Bad
  <2> QED BY <1>1, Extremes
<1>3. n \in 1 .. N
  OBVIOUS
<1>4. n - 1 \in 0 .. N /\ n - 1 < N /\ n - 1 \in S
  BY <1>2, <1>3
<1> QED BY <1>3, <1>4

\* A solution of the recursion that folds a sequence, over the sets of its indices.
Folds(g, N, base, F) == \A s \in SUBSET (1 .. N) :
  g[s] = IF s = {} THEN base ELSE F[<<Max(s), g[s \ {Max(s)}]>>]

LEMMA FoldExists ==
  ASSUME NEW N \in Nat, NEW X, NEW base \in X, NEW F \in [(1 .. N) \X X -> X]
  PROVE  \E g \in [SUBSET (1 .. N) -> X] : Folds(g, N, base, F)
<1> DEFINE Solves(g, n) == /\ g \in [SUBSET (1 .. n) -> X]
                           /\ \A s \in SUBSET (1 .. n) :
                                g[s] = IF s = {} THEN base ELSE F[<<Max(s), g[s \ {Max(s)}]>>]
           S == {n \in 0 .. N : \E g : Solves(g, n)}
<1>1. 0 \in S
  <2> DEFINE g == [s \in SUBSET (1 .. 0) |-> base]
  <2>1. SUBSET (1 .. 0) = {{}}
    OBVIOUS
  <2>2. Solves(g, 0)
    BY <2>1
  <2> HIDE DEF Solves, g
  <2> QED BY <2>2
<1>2. ASSUME NEW n \in 0 .. N, n < N, n \in S
      PROVE  n + 1 \in S
  <2>1. PICK g : Solves(g, n)
    BY <1>2
  <2> DEFINE new == n + 1
             h == [s \in SUBSET (1 .. new) |-> IF new \in s THEN F[<<new, g[s \ {new}]>>] ELSE g[s]]
  <2>2. ASSUME NEW s \in SUBSET (1 .. new)
        PROVE  s \ {new} \in SUBSET (1 .. n)
    OBVIOUS
  <2>10. new \in 1 .. N
    BY <1>2
  <2>3. h \in [SUBSET (1 .. new) -> X]
    <3>1. ASSUME NEW s \in SUBSET (1 .. new)
          PROVE  h[s] \in X
      <4>1. g[s \ {new}] \in X /\ s \in SUBSET (1 .. new)
        BY <2>1, <2>2
      <4>2. CASE new \in s
        BY <4>1, <4>2, <2>10
      <4>3. CASE new \notin s
        <5>1. s \ {new} = s
          BY <4>3
        <5> QED BY <4>1, <4>3, <5>1
      <4> QED BY <4>2, <4>3
    <3> QED BY <3>1
  <2>4. ASSUME NEW s \in SUBSET (1 .. new)
        PROVE  h[s] = IF s = {} THEN base ELSE F[<<Max(s), h[s \ {Max(s)}]>>]
    <3>1. IsFiniteSet(1 .. new) /\ 1 .. new \in SUBSET Nat
      BY FS_Interval
    <3>2. s # {} => Max(s) \in s /\ \A y \in s : y <= Max(s)
      BY <3>1, FS_Subset, MaxFacts
    <3>3. CASE new \in s
      <4>1. Max(s) = new
        <5>1. Max(s) \in 1 .. new /\ new <= Max(s)
          BY <3>2, <3>3
        <5> QED BY <5>1
      <4>2. h[s \ {new}] = g[s \ {new}]
        OBVIOUS
      <4> QED BY <3>3, <4>1, <4>2
    <3>4. CASE new \notin s
      <4>1. s \in SUBSET (1 .. n)
        BY <3>4
      <4>2. h[s] = g[s] /\ h[s \ {Max(s)}] = g[s \ {Max(s)}]
        BY <3>4
      <4> QED BY <2>1, <4>1, <4>2
    <3> QED BY <3>3, <3>4
  <2>5. Solves(h, new)
    BY <2>3, <2>4
  <2> HIDE DEF h, Solves
  <2> QED BY <1>2, <2>5
<1> HIDE DEF Solves
<1>3. N \in S
  <2>1. N \in 0 .. N
    OBVIOUS
  <2> HIDE DEF S
  <2> QED BY <1>1, <1>2, <2>1, StepByStep
<1> QED BY <1>3 DEF Solves, Folds


\* The set of the first indices, as the fold takes it apart: its largest is the last.
LEMMA Segment ==
  ASSUME NEW n \in Nat, NEW k \in 0 .. n, k < n
  PROVE  /\ 1 .. k + 1 \in SUBSET (1 .. n) /\ 1 .. k + 1 # {}
         /\ Max(1 .. k + 1) = k + 1
         /\ (1 .. k + 1) \ {k + 1} = 1 .. k
<1>1. k + 1 \in 1 .. k + 1 /\ 1 .. k + 1 \in SUBSET Nat
  OBVIOUS
<1>2. IsFiniteSet(1 .. k + 1)
  BY FS_Interval
<1>3. Max(1 .. k + 1) \in 1 .. k + 1 /\ k + 1 <= Max(1 .. k + 1)
  BY <1>1, <1>2, MaxFacts
<1>4. Max(1 .. k + 1) = k + 1
  BY <1>3
<1> QED BY <1>1, <1>4

\* dict.fromkeys(): every name of the list once, and no other.
LEMMA DistinctFacts ==
  ASSUME NEW m \in Nat, NEW list \in [1 .. m -> Identities]
  PROVE  \E n \in Nat : /\ Distinct(list) \in [1 .. n -> Identities]
                        /\ \A i, j \in 1 .. n : Distinct(list)[i] = Distinct(list)[j] => i = j
                        /\ {Distinct(list)[i] : i \in 1 .. n} = {list[i] : i \in 1 .. m}
<1> DEFINE X == Seq(Identities)
           Added(found, x) == IF Contains(found, x) THEN found ELSE Append(found, x)
           F == [p \in (1 .. m) \X X |-> Added(p[2], list[p[1]])]
<1>1. DOMAIN list = 1 .. m
  OBVIOUS
<1>2. ASSUME NEW found \in X, NEW x \in Identities
      PROVE  Added(found, x) \in X
  OBVIOUS
<1>3. F \in [(1 .. m) \X X -> X]
  <2> HIDE DEF X, Added
  <2> QED BY <1>2
<1>4. <<>> \in X
  OBVIOUS
<1>5. PICK g \in [SUBSET (1 .. m) -> X] : Folds(g, m, <<>>, F)
  <2> HIDE DEF X, F
  <2>1. m \in Nat
    OBVIOUS
  <2> QED BY <1>3, <1>4, <2>1, FoldExists
<1>6. ASSUME NEW s \in SUBSET (1 .. m), s # {}
      PROVE  Max(s) \in s /\ Max(s) \in 1 .. m /\ \A y \in s : y <= Max(s)
  <2>1. IsFiniteSet(1 .. m) /\ 1 .. m \in SUBSET Nat
    BY FS_Interval
  <2> QED BY <1>6, <2>1, FS_Subset, MaxFacts
<1> DEFINE Iter(h) == [s \in SUBSET (1 .. m) |->
                         IF s = {} THEN <<>> ELSE Added(h[s \ {Max(s)}], list[Max(s)])]
           iter == CHOOSE h : h = Iter(h)
<1>7. g = Iter(g)
  <2>1. ASSUME NEW s \in SUBSET (1 .. m), s # {}
        PROVE  F[<<Max(s), g[s \ {Max(s)}]>>] = Added(g[s \ {Max(s)}], list[Max(s)])
    <3>1. Max(s) \in 1 .. m /\ g[s \ {Max(s)}] \in X
      BY <1>5, <1>6, <2>1
    <3> HIDE DEF X, Added
    <3> QED BY <3>1
  <2> HIDE DEF F, Added
  <2> QED BY <1>5, <2>1 DEF Folds
<1>8. iter = Iter(iter)
  <2> HIDE DEF Iter
  <2> QED BY <1>7
<1>9. Distinct(list) = iter[1 .. m]
  BY <1>1, Zenon DEF Distinct, FoldLeft, MapThenFoldSet
<1> DEFINE Good(d, k) == /\ d \in Seq(Identities)
                         /\ \A i, j \in 1 .. Len(d) : d[i] = d[j] => i = j
                         /\ {d[i] : i \in 1 .. Len(d)} = {list[i] : i \in 1 .. k}
           S == {k \in 0 .. m : Good(iter[1 .. k], k)}
<1>10. 0 \in S
  <2>1. 1 .. 0 = {} /\ iter[{}] = <<>>
    <3>1. {} \in SUBSET (1 .. m)
      OBVIOUS
    <3> HIDE DEF iter, Added
    <3> QED BY <1>8, <3>1
  <2>2. Good(<<>>, 0)
    OBVIOUS
  <2> HIDE DEF iter, Good
  <2> QED BY <2>1, <2>2
<1>11. ASSUME NEW k \in 0 .. m, k < m, k \in S
       PROVE  k + 1 \in S
  <2> DEFINE d == iter[1 .. k]
             x == list[k + 1]
  <2>1. iter[1 .. k + 1] = Added(d, x)
    <3>1. /\ 1 .. k + 1 \in SUBSET (1 .. m) /\ 1 .. k + 1 # {}
          /\ Max(1 .. k + 1) = k + 1 /\ (1 .. k + 1) \ {k + 1} = 1 .. k
      BY <1>11, Segment
    <3> HIDE DEF iter, Added
    <3>4. iter[1 .. k + 1] = Added(iter[(1 .. k + 1) \ {Max(1 .. k + 1)}], list[Max(1 .. k + 1)])
      BY <1>8, <3>1
    <3> QED BY <3>1, <3>4
  <2>2. Good(d, k) /\ x \in Identities
    <3>1. k + 1 \in 1 .. m
      BY <1>11
    <3>2. Good(d, k)
      <4> HIDE DEF Good, iter
      <4> QED BY <1>11
    <3> QED BY <3>1, <3>2
  <2> HIDE DEF d
  <2>3. {list[i] : i \in 1 .. k + 1} = {list[i] : i \in 1 .. k} \cup {x}
    <3>1. 1 .. k + 1 = (1 .. k) \cup {k + 1}
      OBVIOUS
    <3> QED BY <3>1
  <2>4. CASE Contains(d, x)
    <3>1. x \in {d[i] : i \in 1 .. Len(d)} /\ Added(d, x) = d
      BY <2>4 DEF Contains
    <3> HIDE DEF x
    <3>2. Good(d, k + 1)
      BY <2>2, <2>3, <3>1
    <3> HIDE DEF Good, Added
    <3> QED BY <1>11, <2>1, <3>1, <3>2
  <2>5. CASE ~Contains(d, x)
    <3> DEFINE e == Append(d, x)
    <3>1. Added(d, x) = e /\ \A i \in 1 .. Len(d) : d[i] # x
      BY <2>5 DEF Contains
    <3>2. /\ e \in Seq(Identities) /\ Len(e) = Len(d) + 1 /\ Len(d) \in Nat
          /\ e[Len(d) + 1] = x /\ \A i \in 1 .. Len(d) : e[i] = d[i]
      BY <2>2
    <3> HIDE DEF e, x
    <3>3. \A i, j \in 1 .. Len(e) : e[i] = e[j] => i = j
      BY <2>2, <3>1, <3>2
    <3>4. {e[i] : i \in 1 .. Len(e)} = {d[i] : i \in 1 .. Len(d)} \cup {x}
      <4>1. 1 .. Len(e) = (1 .. Len(d)) \cup {Len(d) + 1}
        BY <3>2
      <4> QED BY <3>2, <4>1
    <3>5. Good(e, k + 1)
      BY <2>2, <2>3, <3>2, <3>3, <3>4
    <3> HIDE DEF Good, Added
    <3> QED BY <1>11, <2>1, <3>1, <3>5
  <2> QED BY <2>4, <2>5
<1>12. Good(Distinct(list), m)
  <2>1. m \in S
    <3> HIDE DEF S
    <3> QED BY <1>10, <1>11, StepByStep
  <2> HIDE DEF Good, iter
  <2> QED BY <1>9, <2>1
<1>13. Len(Distinct(list)) \in Nat /\ Distinct(list) \in [1 .. Len(Distinct(list)) -> Identities]
  BY <1>12
<1> QED BY <1>12, <1>13


\* What Assign works on, for the configured kinds R.
Found(R) == [rows     : [R -> [identity : Identities, enabled : BOOLEAN]],
             assigned : SUBSET R,
             unmapped : Nat]

\* What the first k names of a list without repetition have made of the rows of R: each kind
\* that one of them names is enabled under one of its names, no other kind is, and whether
\* every name found a row.
Outcome(found, R, d, k) ==
  /\ found \in Found(R)
  /\ \A r \in R : /\ found.rows[r].enabled = (r \in found.assigned)
                  /\ r \in found.assigned <=> \E i \in 1 .. k : KindOf[d[i]] = r
                  /\ r \notin found.assigned => found.rows[r].identity = r
  /\ \A r \in found.assigned : \E i \in 1 .. k : d[i] = found.rows[r].identity /\ KindOf[d[i]] = r
  /\ found.unmapped = 0 <=>
       \A i \in 1 .. k : \E r \in found.assigned : found.rows[r].identity = d[i]

\* One more name, which the list has not named before.
LEMMA AssignFacts ==
  ASSUME NEW R, NEW found, NEW n \in Nat, NEW d \in [1 .. n -> Identities], NEW k \in Nat, k < n,
         \A i, j \in 1 .. n : d[i] = d[j] => i = j,
         Outcome(found, R, d, k)
  PROVE  Outcome(Assign(found, d[k + 1]), R, d, k + 1)
<1> DEFINE x    == d[k + 1]
           kind == KindOf[x]
           new  == Assign(found, x)
<1>1. k + 1 \in 1 .. n /\ x \in Identities /\ DOMAIN found.rows = R
  BY DEF Outcome, Found
<1>2. \A i \in 1 .. k + 1 : i \in 1 .. k \/ i = k + 1
  OBVIOUS
<1>3. \A i \in 1 .. k : i \in 1 .. k + 1 /\ i \in 1 .. n /\ d[i] # x
  <2>1. \A i \in 1 .. k : i \in 1 .. k + 1 /\ i \in 1 .. n /\ i # k + 1
    OBVIOUS
  <2> QED BY <1>1, <2>1
<1>4. k + 1 \in 1 .. k + 1
  OBVIOUS
<1>5. CASE kind \in R /\ kind \notin found.assigned
  <2> DEFINE row == [identity |-> x, enabled |-> TRUE]
  <2>1. /\ new.rows = [found.rows EXCEPT ![kind] = row]
        /\ new.assigned = found.assigned \cup {kind} /\ new.unmapped = found.unmapped
        /\ new = [rows |-> new.rows, assigned |-> new.assigned, unmapped |-> new.unmapped]
    BY <1>1, <1>5 DEF Assign
  <2> HIDE DEF new, x
  <2>2. /\ new.rows \in [R -> [identity : Identities, enabled : BOOLEAN]]
        /\ new.rows[kind].identity = x /\ new.rows[kind].enabled = TRUE
        /\ \A r \in R : r # kind => new.rows[r] = found.rows[r]
    BY <1>1, <1>5, <2>1 DEF Outcome, Found
  <2> HIDE DEF kind
  <2>3. new \in Found(R)
    <3>1. new.assigned \in SUBSET R /\ new.unmapped \in Nat
      BY <1>5, <2>1 DEF Outcome, Found
    <3> QED BY <2>1, <2>2, <3>1, Zenon DEF Found
  <2>4. ASSUME NEW r \in R
        PROVE  /\ new.rows[r].enabled = (r \in new.assigned)
               /\ r \in new.assigned <=> \E i \in 1 .. k + 1 : KindOf[d[i]] = r
               /\ r \notin new.assigned => new.rows[r].identity = r
    <3>1. CASE r = kind
      <4>1. r \in new.assigned /\ new.rows[r].enabled = TRUE
        BY <2>1, <2>2, <3>1
      <4>2. KindOf[d[k + 1]] = r
        BY <3>1 DEF kind, x
      <4>3. \E i \in 1 .. k + 1 : KindOf[d[i]] = r
        BY <1>4, <4>2
      <4>4. new.rows[r].enabled = (r \in new.assigned)
        BY <4>1
      <4> QED BY <4>1, <4>3, <4>4, Zenon
    <3>2. CASE r # kind
      <4>1. new.rows[r] = found.rows[r] /\ (r \in new.assigned <=> r \in found.assigned)
        BY <2>1, <2>2, <3>2
      <4>2. (\E i \in 1 .. k + 1 : KindOf[d[i]] = r) <=> (\E i \in 1 .. k : KindOf[d[i]] = r)
        BY <1>2, <1>3, <3>2 DEF kind, x
      <4>3. /\ found.rows[r].enabled = (r \in found.assigned)
            /\ r \in found.assigned <=> \E i \in 1 .. k : KindOf[d[i]] = r
            /\ r \notin found.assigned => found.rows[r].identity = r
        BY DEF Outcome
      <4> QED BY <4>1, <4>2, <4>3
    <3> QED BY <3>1, <3>2
  <2>5. ASSUME NEW r \in new.assigned
        PROVE  \E i \in 1 .. k + 1 : d[i] = new.rows[r].identity /\ KindOf[d[i]] = r
    <3>1. CASE r = kind
      BY <1>4, <2>2, <3>1 DEF kind, x
    <3>2. CASE r # kind
      BY <1>3, <2>1, <2>2, <3>2 DEF Outcome, Found
    <3> QED BY <3>1, <3>2
  <2>6. new.unmapped = 0 <=>
          \A i \in 1 .. k + 1 : \E r \in new.assigned : new.rows[r].identity = d[i]
    <3>1. \A r \in found.assigned : r # kind /\ r \in R /\ r \in new.assigned
                                    /\ new.rows[r].identity = found.rows[r].identity
      BY <1>5, <2>1, <2>2 DEF Outcome, Found
    <3>2. kind \in new.assigned /\ new.rows[kind].identity = d[k + 1]
      BY <2>1, <2>2 DEF x
    <3>3. \A i \in 1 .. k : (\E r \in new.assigned : new.rows[r].identity = d[i])
                              <=> (\E r \in found.assigned : found.rows[r].identity = d[i])
      BY <1>3, <2>1, <2>2, <3>1
    <3> QED BY <1>2, <1>3, <2>1, <3>2, <3>3 DEF Outcome
  <2> QED BY <2>3, <2>4, <2>5, <2>6 DEF Outcome, new, x
<1>6. CASE ~(kind \in R /\ kind \notin found.assigned)
  <2>1. /\ new.rows = found.rows /\ new.assigned = found.assigned
        /\ new.unmapped = found.unmapped + 1 /\ new \in Found(R)
    BY <1>1, <1>6 DEF Assign, Outcome, Found
  <2>2. new.unmapped # 0
    BY <2>1 DEF Outcome, Found
  <2> HIDE DEF new
  <2>3. \A r \in R : r \in found.assigned <=> \E i \in 1 .. k + 1 : KindOf[d[i]] = r
    BY <1>2, <1>3, <1>6 DEF Outcome
  <2>4. \A r \in found.assigned : found.rows[r].identity # d[k + 1]
    BY <1>3 DEF Outcome
  <2>5. \A r \in found.assigned :
          \E i \in 1 .. k + 1 : d[i] = found.rows[r].identity /\ KindOf[d[i]] = r
    BY <1>3 DEF Outcome
  <2>6. \A r \in R : /\ new.rows[r].enabled = (r \in new.assigned)
                     /\ r \in new.assigned <=> \E i \in 1 .. k + 1 : KindOf[d[i]] = r
                     /\ r \notin new.assigned => new.rows[r].identity = r
    <3>1. \A r \in R : /\ found.rows[r].enabled = (r \in found.assigned)
                       /\ r \notin found.assigned => found.rows[r].identity = r
      BY DEF Outcome
    <3> QED BY <2>1, <2>3, <3>1, Zenon
  <2>7. ~ \A i \in 1 .. k + 1 : \E r \in new.assigned : new.rows[r].identity = d[i]
    BY <1>4, <2>1, <2>4
  <2>8. \A r \in new.assigned :
          \E i \in 1 .. k + 1 : d[i] = new.rows[r].identity /\ KindOf[d[i]] = r
    BY <2>1, <2>5, Zenon
  <2>9. Outcome(new, R, d, k + 1)
    BY <2>1, <2>2, <2>6, <2>7, <2>8 DEF Outcome
  <2> QED BY <2>9 DEF new
<1> QED BY <1>5, <1>6


\* What migration 3 begins with: no row is enabled.
Dark(rows) == [rows |-> [k \in DOMAIN rows |-> [rows[k] EXCEPT !.enabled = FALSE]],
               assigned |-> {}, unmapped |-> 0]

\* The loop of migration 3 over a list without repetition.
LEMMA FoldedFacts ==
  ASSUME NEW R, NEW start, Outcome(start, R, <<>>, 0),
         NEW n \in Nat, NEW d \in [1 .. n -> Identities],
         \A i, j \in 1 .. n : d[i] = d[j] => i = j
  PROVE  Outcome(FoldLeft(Assign, start, d), R, d, n)
<1> DEFINE X == Found(R)
           F == [p \in (1 .. n) \X X |-> Assign(p[2], d[p[1]])]
<1>1. DOMAIN d = 1 .. n
  OBVIOUS
<1>2. ASSUME NEW found \in X, NEW x \in Identities
      PROVE  Assign(found, x) \in X
  <2> DEFINE kind == KindOf[x]
             new  == Assign(found, x)
  <2>1. CASE kind \in R /\ kind \notin found.assigned
    <3>1. /\ new.rows = [found.rows EXCEPT ![kind] = [identity |-> x, enabled |-> TRUE]]
          /\ new.assigned = found.assigned \cup {kind} /\ new.unmapped = found.unmapped
          /\ new = [rows |-> new.rows, assigned |-> new.assigned, unmapped |-> new.unmapped]
      BY <2>1 DEF Assign, Found
    <3> HIDE DEF new
    <3>2. /\ new.rows \in [R -> [identity : Identities, enabled : BOOLEAN]]
          /\ new.assigned \in SUBSET R /\ new.unmapped \in Nat
      BY <2>1, <3>1 DEF Found
    <3>3. new \in X
      BY <3>1, <3>2, Zenon DEF Found
    <3> QED BY <3>3 DEF new
  <2>2. CASE ~(kind \in R /\ kind \notin found.assigned)
    BY <2>2 DEF Assign, Found
  <2> QED BY <2>1, <2>2
<1>3. F \in [(1 .. n) \X X -> X]
  <2> HIDE DEF X
  <2> QED BY <1>2
<1>4. start \in X
  BY DEF Outcome
<1>5. PICK g \in [SUBSET (1 .. n) -> X] : Folds(g, n, start, F)
  <2> HIDE DEF X, F
  <2> QED BY <1>3, <1>4, FoldExists
<1>6. ASSUME NEW s \in SUBSET (1 .. n), s # {}
      PROVE  Max(s) \in s /\ Max(s) \in 1 .. n /\ \A y \in s : y <= Max(s)
  <2>1. IsFiniteSet(1 .. n) /\ 1 .. n \in SUBSET Nat
    BY FS_Interval
  <2> QED BY <1>6, <2>1, FS_Subset, MaxFacts
<1> DEFINE Iter(h) == [s \in SUBSET (1 .. n) |->
                         IF s = {} THEN start ELSE Assign(h[s \ {Max(s)}], d[Max(s)])]
           iter == CHOOSE h : h = Iter(h)
<1>7. g = Iter(g)
  <2>1. ASSUME NEW s \in SUBSET (1 .. n), s # {}
        PROVE  F[<<Max(s), g[s \ {Max(s)}]>>] = Assign(g[s \ {Max(s)}], d[Max(s)])
    <3>1. Max(s) \in 1 .. n /\ g[s \ {Max(s)}] \in X
      BY <1>5, <1>6, <2>1
    <3> HIDE DEF X
    <3> QED BY <3>1
  <2>2. ASSUME NEW s \in SUBSET (1 .. n)
        PROVE  g[s] = Iter(g)[s]
    <3> HIDE DEF F
    <3> QED BY <1>5, <2>1 DEF Folds
  <2>3. g = [s \in SUBSET (1 .. n) |-> g[s]]
    BY <1>5
  <2> QED BY <2>2, <2>3
<1>8. iter = Iter(iter)
  <2> HIDE DEF Iter
  <2> QED BY <1>7
<1>9. FoldLeft(Assign, start, d) = iter[1 .. n]
  BY <1>1, Zenon DEF FoldLeft, MapThenFoldSet
<1> DEFINE S == {k \in 0 .. n : Outcome(iter[1 .. k], R, d, k)}
<1>10. 0 \in S
  <2>1. 1 .. 0 = {} /\ iter[{}] = start
    <3>1. {} \in SUBSET (1 .. n)
      OBVIOUS
    <3> HIDE DEF iter
    <3> QED BY <1>8, <3>1
  <2>2. Outcome(start, R, d, 0)
    BY DEF Outcome
  <2> HIDE DEF iter
  <2> QED BY <2>1, <2>2
<1>11. ASSUME NEW k \in 0 .. n, k < n, k \in S
       PROVE  k + 1 \in S
  <2>1. iter[1 .. k + 1] = Assign(iter[1 .. k], d[k + 1])
    <3>1. /\ 1 .. k + 1 \in SUBSET (1 .. n) /\ 1 .. k + 1 # {}
          /\ Max(1 .. k + 1) = k + 1 /\ (1 .. k + 1) \ {k + 1} = 1 .. k
      BY <1>11, Segment
    <3> HIDE DEF iter
    <3>4. iter[1 .. k + 1] = Assign(iter[(1 .. k + 1) \ {Max(1 .. k + 1)}], d[Max(1 .. k + 1)])
      BY <1>8, <3>1
    <3> QED BY <3>1, <3>4
  <2> HIDE DEF iter
  <2>2. Outcome(iter[1 .. k], R, d, k) /\ k \in Nat
    BY <1>11
  <2>3. Outcome(Assign(iter[1 .. k], d[k + 1]), R, d, k + 1)
    BY <1>11, <2>2, AssignFacts
  <2> QED BY <1>11, <2>1, <2>3
<1>12. n \in S
  <2> HIDE DEF S
  <2> QED BY <1>10, <1>11, StepByStep
<1> HIDE DEF iter
<1> QED BY <1>9, <1>12

\* Rows of a file before migration 3, which has no identities of its own.
Original(rows) == \E R \in SUBSET Kinds :
  /\ rows \in [R -> [identity : Identities, enabled : BOOLEAN]]
  /\ \A k \in R : rows[k].identity = k

\* The names of a list that mean a kind.
Named(list, k) == {x \in ToSet(list) : KindOf[x] = k}

\* What a list wants of a row.
On(list, k) == ~Contains(list, Garbage) /\ Named(list, k) # {}

KeepsWishes(found, list, rows) ==
  /\ DOMAIN found.rows = DOMAIN rows
  /\ \A k \in DOMAIN rows :
       /\ found.rows[k].enabled = On(list, k)
       /\ found.rows[k].identity \in IF On(list, k) THEN Named(list, k) ELSE {k}
  /\ (found.unmapped = 0) = (ToSet(list) \subseteq
       {found.rows[k].identity : k \in {j \in DOMAIN rows : On(list, j)}})

\* What migration 3 makes of the rows, from the list as the file had it.
LEMMA ReconciledFacts ==
  ASSUME NEW rows, Original(rows), NEW m \in Nat, NEW list \in [1 .. m -> Identities]
  PROVE  KeepsWishes(Reconciled(list, rows), list, rows)
<1>1. PICK R \in SUBSET Kinds : /\ rows \in [R -> [identity : Identities, enabled : BOOLEAN]]
                                /\ \A k \in R : rows[k].identity = k
  BY DEF Original
<1> DEFINE start == Dark(rows)
           found == Reconciled(list, rows)
<1>2. ToSet(list) = {list[i] : i \in 1 .. m} /\ Len(list) = m /\ DOMAIN list = 1 .. m
  BY DEF ToSet
<1>3. DOMAIN rows = R
  BY <1>1
<1>4. /\ start.rows \in [R -> [identity : Identities, enabled : BOOLEAN]]
      /\ \A k \in R : start.rows[k].identity = k /\ start.rows[k].enabled = FALSE
  BY <1>1 DEF Dark
<1>5. start.assigned = {} /\ start.unmapped = 0 /\ start \in Found(R)
  BY <1>4 DEF Dark, Found
<1>6. CASE Contains(list, Garbage)
  <2>1. found = [start EXCEPT !.unmapped = 1]
    BY <1>6 DEF Reconciled, Dark
  <2>2. found.rows = start.rows /\ found.unmapped = 1
    BY <2>1 DEF Dark
  <2>3. Garbage \in ToSet(list)
    BY <1>2, <1>6 DEF Contains
  <2>4. \A k : On(list, k) = FALSE
    BY <1>6 DEF On
  <2> HIDE DEF found, start
  <2>5. ~(ToSet(list) \subseteq {found.rows[k].identity : k \in {j \in DOMAIN rows : On(list, j)}})
    BY <2>3, <2>4
  <2>6. \A k \in R : found.rows[k].enabled = On(list, k)
    BY <1>4, <2>2, <2>4, Zenon
  <2>7. DOMAIN found.rows = R /\ \A k \in R : found.rows[k].identity \in {k}
    BY <1>4, <2>2
  <2>8. (found.unmapped = 0) = (ToSet(list) \subseteq
                 {found.rows[k].identity : k \in {j \in DOMAIN rows : On(list, j)}})
    BY <2>2, <2>5
  <2> QED BY <1>3, <2>4, <2>6, <2>7, <2>8 DEF found, KeepsWishes
<1>7. CASE ~Contains(list, Garbage)
  <2>1. PICK n \in Nat : /\ Distinct(list) \in [1 .. n -> Identities]
                         /\ \A i, j \in 1 .. n : Distinct(list)[i] = Distinct(list)[j] => i = j
                         /\ {Distinct(list)[i] : i \in 1 .. n} = {list[i] : i \in 1 .. m}
    BY DistinctFacts
  <2> DEFINE d == Distinct(list)
  <2>2. found = FoldLeft(Assign, start, d)
    BY <1>7, Zenon DEF Reconciled, Dark
  <2>3. Outcome(start, R, <<>>, 0)
    <3>1. \A i : i \notin 1 .. 0
      OBVIOUS
    <3> HIDE DEF start
    <3>2. \A k \in R : start.rows[k].enabled = (k \in start.assigned)
      BY <1>4, <1>5
    <3>3. start.unmapped = 0 <=>
            \A i \in 1 .. 0 : \E r \in start.assigned : start.rows[r].identity = <<>>[i]
      BY <1>5, <3>1
    <3> QED BY <1>4, <1>5, <3>1, <3>2, <3>3 DEF Outcome
  <2> HIDE DEF start, d
  <2>4. Outcome(found, R, d, n)
    <3>1. Outcome(FoldLeft(Assign, start, d), R, d, n)
      BY <2>1, <2>3, FoldedFacts DEF d
    <3> HIDE DEF found
    <3> QED BY <2>2, <3>1
  <2> HIDE DEF found
  <2>5. ToSet(list) = {d[i] : i \in 1 .. n}
    BY <1>2, <2>1 DEF d
  <2>6. ASSUME NEW k \in R
        PROVE  On(list, k) <=> k \in found.assigned
    BY <1>7, <2>4, <2>5 DEF Outcome, Named, On
  <2>7. ASSUME NEW k \in R
        PROVE  found.rows[k].enabled = On(list, k)
    <3>1. found.rows[k].enabled = (k \in found.assigned)
      BY <2>4 DEF Outcome
    <3>2. (k \in found.assigned) = On(list, k)
      BY <2>6 DEF On
    <3> QED BY <3>1, <3>2
  <2>8. ASSUME NEW k \in R
        PROVE  found.rows[k].identity \in IF On(list, k) THEN Named(list, k) ELSE {k}
    <3>1. CASE On(list, k)
      <4>1. \E i \in 1 .. n : d[i] = found.rows[k].identity /\ KindOf[d[i]] = k
        BY <2>4, <2>6, <3>1 DEF Outcome
      <4>2. found.rows[k].identity \in Named(list, k)
        BY <2>5, <4>1 DEF Named
      <4> QED BY <3>1, <4>2
    <3>2. CASE ~On(list, k)
      <4> QED BY <2>4, <2>6, <3>2 DEF Outcome
    <3> QED BY <3>1, <3>2
  <2>9. (found.unmapped = 0) = (ToSet(list) \subseteq
          {found.rows[k].identity : k \in {j \in R : On(list, j)}})
    <3>1. {j \in R : On(list, j)} = found.assigned
      BY <2>4, <2>6 DEF Outcome, Found
    <3>2. found.unmapped = 0 <=>
            \A i \in 1 .. n : \E r \in found.assigned : found.rows[r].identity = d[i]
      BY <2>4 DEF Outcome
    <3>3. found.unmapped = 0 <=>
            ToSet(list) \subseteq {found.rows[k].identity : k \in found.assigned}
      BY <2>5, <3>2
    <3> QED BY <3>1, <3>3, Zenon
  <2>10. DOMAIN found.rows = R
    BY <2>4 DEF Outcome, Found
  <2> QED BY <1>3, <2>7, <2>8, <2>9, <2>10 DEF found, KeepsWishes
<1> QED BY <1>6, <1>7

-----------------------------------------------------------------------------
(* Files.                                                                  *)

LEMMA EventIdFacts ==
  ASSUME NEW ids \in SUBSET EventIds
  PROVE  ids \in SUBSET Nat /\ IsFiniteSet(ids)
<1>1. EventLimit + MaxWrites \in Nat
  BY DatabaseAssumption
<1>2. IsFiniteSet(EventIds) /\ EventIds \subseteq Nat
  BY <1>1, FS_Interval DEF EventIds
<1> QED BY <1>2, FS_Subset

LEMMA NewEvent ==
  ASSUME NEW ids \in SUBSET EventIds,
         ids \subseteq 1 .. EventLimit \/ \E e \in EventIds : e > Newest(ids)
  PROVE  WithEvent(ids) \subseteq EventIds
<1>1. ids \in SUBSET Nat /\ IsFiniteSet(ids)
  BY EventIdFacts
<1>2. EventLimit \in Nat \ {0} /\ MaxWrites \in Nat \ {0}
  BY DatabaseAssumption
<1>3. Newest(ids) \in Nat /\ (Newest(ids) \in ids \/ Newest(ids) = 0)
  BY <1>1, NewestFacts
<1>4. Newest(ids) + 1 \in EventIds
  <2>1. CASE ids \subseteq 1 .. EventLimit
    <3>1. Newest(ids) <= EventLimit
      BY <1>2, <1>3, <2>1
    <3> QED BY <1>2, <1>3, <3>1 DEF EventIds
  <2>2. CASE \E e \in EventIds : e > Newest(ids)
    BY <1>2, <1>3, <2>2 DEF EventIds
  <2> QED BY <2>1, <2>2
<1> QED BY <1>1, <1>4, WithEventFacts

\* What a migration leaves alone, and what it may do to the events.
LEMMA MigratedFacts ==
  ASSUME NEW f, Bounded(f)
  PROVE  /\ Bounded(Migrated(f))
         /\ Migrated(f).revision = f.revision
         /\ Migrated(f).events \in {f.events, WithEvent(f.events)}
<1> DEFINE Same(g) == /\ DOMAIN g = Fields
                      /\ g.events = f.events
                      /\ g.revision = f.revision
           Good(g) == /\ Bounded(g)
                      /\ g.revision = f.revision
                      /\ g.events \in {f.events, WithEvent(f.events)}
<1>1. Good(f)
  BY DEF Bounded
<1>2. Good(Migration1(f))
  <2>1. Same(Migration1(f)) /\ Migration1(f).listed = f.listed /\ Migration1(f).kept = f.kept
    BY DEF Migration1, Bounded, Fields
  <2> QED BY <2>1 DEF Bounded
<1>3. Good(Migration2(f))
  <2>1. /\ Same(Migration2(f)) /\ Migration2(f).listed = <<>>
        /\ Migration2(f).kept = f.listed
    BY DEF Migration2, Bounded, Fields
  <2> QED BY <2>1 DEF Bounded
<1>4. Good(Migration3(f))
  <2>1. CASE f.kept = <<>>
    BY <1>1, <2>1 DEF Migration3
  <2>2. CASE f.kept # <<>>
    <3> DEFINE found == Reconciled(f.kept[1], f.rows)
               new   == [f EXCEPT !.kept = <<>>, !.rows = found.rows, !.unmapped = found.unmapped,
                                  !.events = IF found.unmapped = 0 THEN @ ELSE WithEvent(@)]
    <3>1. Migration3(f) = new
      BY <2>2 DEF Migration3
    <3> HIDE DEF found
    <3>2. /\ DOMAIN new = Fields /\ new.revision = f.revision
          /\ new.listed = <<>> /\ new.kept = <<>>
          /\ new.events \in {f.events, WithEvent(f.events)}
      BY <2>2 DEF Bounded, Fields
    <3>3. /\ f.events \subseteq EventIds
          /\ WithEvent(f.events) \subseteq EventIds
          /\ Cardinality(WithEvent(f.events)) <= EventLimit
      <4>1. f.events \subseteq EventIds /\ f.events \subseteq 1 .. EventLimit
        BY <2>2 DEF Bounded
      <4>2. f.events \in SUBSET Nat /\ IsFiniteSet(f.events)
        BY <4>1, EventIdFacts
      <4> QED BY <4>1, <4>2, NewEvent, WithEventFacts
    <3> HIDE DEF new
    <3> QED BY <3>1, <3>2, <3>3 DEF Bounded
  <2> QED BY <2>1, <2>2
<1>5. ASSUME NEW g, Good(g), NEW versions
      PROVE  Good([g EXCEPT !.versions = versions])
  <2> DEFINE new == [g EXCEPT !.versions = versions]
  <2>1. /\ DOMAIN new = Fields /\ new.events = g.events /\ new.revision = g.revision
        /\ new.listed = g.listed /\ new.kept = g.kept
    BY <1>5 DEF Bounded, Fields
  <2> HIDE DEF new
  <2>2. Good(new)
    BY <1>5, <2>1 DEF Bounded
  <2> QED BY <2>2 DEF new
<1> DEFINE result == CASE Current(f) + 1 = 1 -> Migration1(f)
                       [] Current(f) + 1 = 2 -> Migration2(f)
                       [] Current(f) + 1 = 3 -> Migration3(f)
                       [] OTHER              -> Migration4(f)
<1> HIDE DEF Good
<1>6. Good(result)
  BY <1>1, <1>2, <1>3, <1>4 DEF Migration4
<1>7. Migrated(f) = [result EXCEPT !.versions = @ \cup {Current(f) + 1}]
  BY DEF Migrated
<1> HIDE DEF result
<1>8. Good(Migrated(f))
  BY <1>5, <1>6, <1>7
<1> QED BY <1>8 DEF Good

\* A sound file that is not up to date is sound after the next migration.
LEMMA MigratedIsSound ==
  ASSUME NEW f, Bounded(f), Sound(f), Current(f) # Latest
  PROVE  Sound(Migrated(f)) /\ ~Lost(f) /\ Current(f) < Latest
<1>1. PICK v \in 0 .. Latest :
        /\ f.versions = 1 .. v
        /\ f.tables <=> v > 0
        /\ f.legal
        /\ v >= 2 => f.listed = <<>>
        /\ v # 2 => f.kept = <<>>
  BY DEF Sound
<1>2. v \in Nat /\ Current(f) = v /\ v \in 0 .. 3
  BY <1>1, CurrentFacts DEF Latest
<1>3. ~Lost(f)
  <2>1. v > 0 => 1 \in 1 .. v
    BY <1>2
  <2> QED BY <1>1, <1>2, <2>1 DEF Lost
<1> DEFINE Ready(g) == /\ DOMAIN g = Fields /\ g.versions = f.versions
                       /\ g.legal /\ g.tables
                       /\ v >= 1 => g.listed = <<>>
                       /\ v # 1 => g.kept = <<>>
           Upgraded(g) == [g EXCEPT !.versions = @ \cup {v + 1}]
<1>4. ASSUME NEW g, Ready(g)
      PROVE  Sound(Upgraded(g))
  <2> DEFINE new == Upgraded(g)
  <2>1. /\ new.versions = f.versions \cup {v + 1}
        /\ new.legal = g.legal /\ new.tables = g.tables
        /\ new.listed = g.listed /\ new.kept = g.kept
    BY <1>4 DEF Fields
  <2> HIDE DEF new, Upgraded
  <2>2. new.versions = 1 .. v + 1
    <3>1. (1 .. v) \cup {v + 1} = 1 .. v + 1
      BY <1>2
    <3> QED BY <1>1, <2>1, <3>1
  <2>3. v + 1 \in 0 .. Latest /\ v + 1 > 0 /\ (v + 1 >= 2 => v >= 1) /\ (v + 1 # 2 => v # 1)
    BY <1>2 DEF Latest
  <2>4. Sound(new)
    BY <1>1, <1>4, <2>1, <2>2, <2>3 DEF Sound
  <2> QED BY <2>4 DEF new
<1>5. DOMAIN f = Fields
  BY DEF Bounded
<1>6. CASE v = 0
  <2>1. Ready(Migration1(f))
    BY <1>1, <1>5, <1>6 DEF Migration1, Fields
  <2>2. Sound(Upgraded(Migration1(f)))
    <3> HIDE DEF Ready, Upgraded
    <3> QED BY <1>4, <2>1
  <2>3. Migrated(f) = Upgraded(Migration1(f))
    BY <1>2, <1>6 DEF Migrated
  <2> QED BY <1>2, <1>3, <1>6, <2>2, <2>3 DEF Latest
<1>7. CASE v = 1
  <2>1. Ready(Migration2(f))
    BY <1>1, <1>5, <1>7 DEF Migration2, Fields
  <2>2. Sound(Upgraded(Migration2(f)))
    <3> HIDE DEF Ready, Upgraded
    <3> QED BY <1>4, <2>1
  <2>3. Migrated(f) = Upgraded(Migration2(f))
    BY <1>2, <1>7 DEF Migrated
  <2> QED BY <1>2, <1>3, <1>7, <2>2, <2>3 DEF Latest
<1>8. CASE v = 2
  <2>1. Ready(Migration3(f))
    BY <1>1, <1>5, <1>8 DEF Migration3, Fields
  <2>2. Sound(Upgraded(Migration3(f)))
    <3> HIDE DEF Ready, Upgraded
    <3> QED BY <1>4, <2>1
  <2>3. Migrated(f) = Upgraded(Migration3(f))
    BY <1>2, <1>8 DEF Migrated
  <2> QED BY <1>2, <1>3, <1>8, <2>2, <2>3 DEF Latest
<1>9. CASE v = 3
  <2>1. Sound(Upgraded(f))
    <3>1. Ready(f)
      BY <1>1, <1>5, <1>9
    <3> HIDE DEF Ready, Upgraded
    <3> QED BY <1>4, <3>1
  <2>2. Migrated(f) = Upgraded(f)
    BY <1>2, <1>9 DEF Migrated, Migration4
  <2> QED BY <1>2, <1>3, <1>9, <2>1, <2>2 DEF Latest
<1> QED BY <1>2, <1>6, <1>7, <1>8, <1>9

\* A valid file is up to date, and so is a sound one that has every version.
LEMMA ValidFacts ==
  ASSUME NEW f
  PROVE  /\ f.versions = 1 .. Latest => Current(f) = Latest
         /\ Valid(f) => f.versions = 1 .. Latest
         /\ Sound(f) /\ f.versions = 1 .. Latest => Valid(f)
<1>1. f.versions = 1 .. Latest => Current(f) = Latest
  BY CurrentFacts DEF Latest
<1>2. ASSUME Sound(f), f.versions = 1 .. Latest
      PROVE  Valid(f)
  <2>1. PICK v \in 0 .. Latest :
          /\ f.versions = 1 .. v
          /\ f.tables <=> v > 0
          /\ f.legal
          /\ v >= 2 => f.listed = <<>>
          /\ v # 2 => f.kept = <<>>
    BY <1>2 DEF Sound
  <2>2. v = Latest
    BY <1>1, <1>2, <2>1, CurrentFacts
  <2>3. f.tables /\ f.listed = <<>> /\ f.kept = <<>>
    BY <2>1, <2>2 DEF Latest
  <2> QED BY <1>2, <2>3 DEF Valid
<1> QED BY <1>1, <1>2 DEF Valid

-----------------------------------------------------------------------------
(* Steps.                                                                  *)

LEMMA PlaceNames ==
  /\ Writing = {"writingRevision", "writingEvent"}
  /\ Holding = {"migrating", "writingRevision", "writingEvent"}
  /\ Places = {"closed", "begin", "migrating", "validating", "open", "writingRevision",
               "writingEvent"}
  /\ Errors = {"none", "busy", "fault", "migration", "corrupt"}
BY DEF Writing, Holding, Places, Errors

\* A place is entered with the writer lock, left with it, or has nothing to do with it.
Entering(i, place) == place \in Holding /\ Begin(i) /\ UNCHANGED file
Leaving(i, place)  == place \notin Holding /\ Leave(i) /\ (writer = i \/ UNCHANGED file)
Walking(i, place)  ==
  pc[i] \notin Holding /\ place \notin Holding /\ UNCHANGED <<file, writer, view>>

LEMMA Moves ==
  ASSUME TypeOK, DOMAIN view = Instances, LocksOrderly,
         NEW i \in Instances, NEW place \in Places, Goto(i, place),
         Entering(i, place) \/ Leaving(i, place) \/ Walking(i, place)
  PROVE  /\ LocksOrderly' /\ DOMAIN view' = Instances
         /\ writer' \in Instances \cup {None}
         /\ pc' \in [Instances -> Places] /\ pc'[i] = place
         /\ \A j \in Instances : j # i => pc'[j] = pc[j]
         /\ \A j \in Instances : j # i /\ pc[j] \in Holding => file' = file
<1>1. i # None
  BY DatabaseAssumption
<1>2. /\ pc' \in [Instances -> Places] /\ pc'[i] = place
      /\ \A j \in Instances : j # i => pc'[j] = pc[j]
  BY DEF TypeOK, Goto
<1>3. CASE Entering(i, place)
  <2>1. /\ writer = None /\ writer' = i /\ view' = [view EXCEPT ![i] = file]
        /\ file' = file
    BY <1>3 DEF Entering, Begin
  <2>2. \A j \in Instances : pc[j] \notin Holding
    BY <2>1, DatabaseAssumption DEF LocksOrderly
  <2>3. LocksOrderly'
    BY <1>2, <1>3, <2>1, <2>2 DEF LocksOrderly, Entering
  <2> QED BY <1>2, <2>1, <2>3
<1>4. CASE Leaving(i, place)
  <2>1. /\ writer' = IF writer = i THEN None ELSE writer
        /\ view' = [view EXCEPT ![i] = NoFile]
        /\ writer = i \/ file' = file
    BY <1>4 DEF Leaving, Leave
  <2>2. LocksOrderly'
    BY <1>1, <1>2, <1>4, <2>1, DatabaseAssumption DEF LocksOrderly, Leaving
  <2>3. writer' \in Instances \cup {None}
    BY <2>1 DEF TypeOK
  <2> QED BY <1>2, <2>1, <2>2, <2>3 DEF LocksOrderly
<1>5. CASE Walking(i, place)
  <2>1. LocksOrderly'
    BY <1>2, <1>5 DEF LocksOrderly, Walking
  <2> QED BY <1>2, <1>5, <2>1 DEF Walking, TypeOK
<1> QED BY <1>3, <1>4, <1>5

\* An instance may go on if the file it leaves is in order and its new place says nothing
\* false of it.
LEMMA GoingOn ==
  ASSUME Orderly, UNCHANGED original,
         NEW i \in Instances, NEW place \in Places, Goto(i, place),
         Entering(i, place) \/ Leaving(i, place) \/ Walking(i, place),
         NEW reason \in Errors, error' = [error EXCEPT ![i] = reason],
         reason \in {"migration", "corrupt"} => Cause \/ reason = error[i],
         expected' \in [Instances -> 0 .. MaxWrites],
         accepted' \in Nat, cursor' \in Nat, seen' \subseteq EventIds,
         faults' \in 0 .. MaxFaults,
         FileOrderly', ClientOrderly',
         Valid(file) => Valid(file'),
         place \in {"open"} \cup Writing => Valid(file'),
         place = "writingRevision" => file'.revision < MaxWrites,
         place = "writingEvent" => \E e \in EventIds : e > Newest(file'.events),
         ~Cause => Sound(file'),
         ~Cause /\ file.versions = 1 .. Latest => file'.versions = 1 .. Latest,
         ~Cause /\ place = "validating" => file'.versions = 1 .. Latest
  PROVE  Orderly'
<1>1. TypeOK /\ DOMAIN view = Instances /\ LocksOrderly /\ OpenOrderly /\ RefusalsOrderly
  BY DEF Orderly
<1>2. /\ LocksOrderly' /\ DOMAIN view' = Instances
      /\ writer' \in Instances \cup {None}
      /\ pc' \in [Instances -> Places] /\ pc'[i] = place
      /\ \A j \in Instances : j # i => pc'[j] = pc[j]
      /\ \A j \in Instances : j # i /\ pc[j] \in Holding => file' = file
  BY <1>1, Moves
<1>3. /\ error' \in [Instances -> Errors] /\ error'[i] = reason
      /\ \A j \in Instances : j # i => error'[j] = error[j]
  BY <1>1 DEF TypeOK
<1>4. TypeOK'
  BY <1>2, <1>3 DEF TypeOK
<1>5. OpenOrderly'
  <2>1. \A j \in Instances : pc'[j] \in {"open"} \cup Writing => Valid(file')
    BY <1>1, <1>2 DEF OpenOrderly
  <2>2. \A j \in Instances : pc'[j] = "writingRevision" => file'.revision < MaxWrites
    BY <1>1, <1>2, PlaceNames DEF OpenOrderly
  <2>3. \A j \in Instances : pc'[j] = "writingEvent" =>
          \E e \in EventIds : e > Newest(file'.events)
    BY <1>1, <1>2, PlaceNames DEF OpenOrderly
  <2>4. Valid(file)' <=> Valid(file')
    BY DEF Valid
  <2> QED BY <2>1, <2>2, <2>3, <2>4 DEF OpenOrderly, Newest, EventIds
<1>6. RefusalsOrderly'
  <2>1. Cause' <=> Cause
    BY DEF Cause, Lost, Current
  <2>2. Sound(file)' <=> Sound(file')
    BY DEF Sound
  <2>3. \A j \in Instances : error'[j] \in {"migration", "corrupt"} => Cause
    BY <1>1, <1>3 DEF RefusalsOrderly
  <2>4. ~Cause => \A j \in Instances : pc'[j] = "validating" => file'.versions = 1 .. Latest
    BY <1>1, <1>2 DEF RefusalsOrderly
  <2> QED BY <2>1, <2>2, <2>3, <2>4 DEF RefusalsOrderly
<1> QED BY <1>2, <1>4, <1>5, <1>6 DEF Orderly

\* The same for a step that changes neither the file nor what the client of the events has.
LEMMA GoingOnAlone ==
  ASSUME Orderly, UNCHANGED <<original, file, accepted, cursor, seen>>,
         NEW i \in Instances, NEW place \in Places, Goto(i, place),
         Entering(i, place) \/ Leaving(i, place) \/ Walking(i, place),
         NEW reason \in Errors, error' = [error EXCEPT ![i] = reason],
         reason \in {"migration", "corrupt"} => Cause \/ reason = error[i],
         expected' \in [Instances -> 0 .. MaxWrites], faults' \in 0 .. MaxFaults,
         place \in {"open"} \cup Writing => Valid(file),
         place = "writingRevision" => file.revision < MaxWrites,
         place = "writingEvent" => \E e \in EventIds : e > Newest(file.events),
         ~Cause /\ place = "validating" => file.versions = 1 .. Latest
  PROVE  Orderly'
<1>1. TypeOK /\ FileOrderly /\ ClientOrderly /\ RefusalsOrderly
  BY DEF Orderly
<1>2. FileOrderly' /\ ClientOrderly'
  BY <1>1 DEF FileOrderly, ClientOrderly, Bounded, Newest, EventIds
<1>3. accepted' \in Nat /\ cursor' \in Nat /\ seen' \subseteq EventIds
  BY <1>1 DEF TypeOK
<1>4. ~Cause => Sound(file')
  BY <1>1 DEF RefusalsOrderly
<1> QED BY <1>2, <1>3, <1>4, GoingOn

\* What does not touch errors, expectations and faults keeps their types.
LEMMA Kept ==
  ASSUME Orderly, NEW i \in Instances
  PROVE  /\ expected \in [Instances -> 0 .. MaxWrites] /\ faults \in 0 .. MaxFaults
         /\ error[i] \in Errors /\ error = [error EXCEPT ![i] = error[i]]
         /\ Fault => faults' \in 0 .. MaxFaults
         /\ pc[i] \in Holding => writer = i /\ view[i] = file
         /\ pc[i] \notin Holding => writer # i
<1>1. TypeOK /\ LocksOrderly
  BY DEF Orderly
<1>2. Fault => faults' \in 0 .. MaxFaults
  BY <1>1, DatabaseAssumption DEF TypeOK, Fault
<1> QED BY <1>1, <1>2 DEF TypeOK, LocksOrderly

\* A refusal for a reason that the file has, or none that it could have.
LEMMA RefusalIsOrderly ==
  ASSUME Orderly, NEW i \in Instances, NEW reason \in Errors, Refuse(i, reason),
         reason \in {"migration", "corrupt"} => Cause,
         UNCHANGED <<original, clientVars>>, faults' \in 0 .. MaxFaults
  PROVE  Orderly'
<1>1. /\ Leave(i) /\ UNCHANGED file /\ Goto(i, "closed")
      /\ error' = [error EXCEPT ![i] = reason]
  BY DEF Refuse, Rollback
<1>2. Leaving(i, "closed") /\ "closed" \in Places /\ "closed" \notin {"open"} \cup Writing
  BY <1>1, PlaceNames DEF Leaving
<1>3. expected' \in [Instances -> 0 .. MaxWrites] /\ UNCHANGED <<accepted, cursor, seen>>
  BY Kept DEF clientVars
<1> QED BY <1>1, <1>2, <1>3, GoingOnAlone

\* A sound file is not refused by the loop of _migrate().
LEMMA SoundIsNotRefused ==
  ASSUME Sound(file), Bounded(file)
  PROVE  /\ ~Lost(file) /\ Current(file) <= Latest
         /\ ~UpToDate(file) => ~Inapplicable(file)
         /\ UpToDate(file) => file.versions = 1 .. Latest
<1>1. PICK v \in 0 .. Latest :
        /\ file.versions = 1 .. v
        /\ file.tables <=> v > 0
        /\ file.legal
  BY DEF Sound
<1>2. v \in Nat /\ Current(file) = v /\ v <= Latest
  BY <1>1, CurrentFacts DEF Latest
<1>3. ~Lost(file)
  <2>1. v > 0 => 1 \in 1 .. v
    BY <1>2
  <2> QED BY <1>1, <1>2, <2>1 DEF Lost
<1>4. ~Inapplicable(file)
  <2>1. v + 1 \notin 1 .. v
    BY <1>2
  <2>2. v \in {1, 2, 3} => v > 0
    OBVIOUS
  <2> QED BY <1>1, <1>2, <2>1, <2>2 DEF Inapplicable
<1> QED BY <1>1, <1>2, <1>3, <1>4 DEF UpToDate

\* The events only grow past the cursor.
LEMMA EventsGrow ==
  ASSUME Orderly, UNCHANGED <<cursor, seen>>,
         file'.events \in {file.events, WithEvent(file.events)}
  PROVE  ClientOrderly'
<1>1. ClientOrderly /\ cursor \in Nat
  BY DEF Orderly, TypeOK
<1>2. file.events \in SUBSET Nat /\ IsFiniteSet(file.events)
  BY EventIdFacts DEF Orderly, FileOrderly, Bounded
<1>3. CASE file'.events = file.events
  BY <1>1, <1>3 DEF ClientOrderly, Newest
<1>4. CASE file'.events = WithEvent(file.events)
  <2>1. /\ file'.events \subseteq file.events \cup {Newest(file.events) + 1}
        /\ Newest(file'.events) = Newest(file.events) + 1
        /\ Newest(file.events) \in Nat
    BY <1>2, <1>4, WithEventFacts, NewestFacts
  <2>2. cursor <= Newest(file'.events) /\ ~(Newest(file.events) + 1 <= cursor)
    BY <1>1, <2>1 DEF ClientOrderly
  <2>3. {e \in file'.events : e <= cursor} \subseteq seen
    BY <1>1, <2>1, <2>2 DEF ClientOrderly
  <2> QED BY <2>2, <2>3 DEF ClientOrderly, Newest
<1> QED BY <1>3, <1>4

LEMMA MigrateIsOrderly ==
  ASSUME Orderly, NEW i \in Instances, Migrate(i)
  PROVE  Orderly'
<1>1. TypeOK /\ FileOrderly /\ RefusalsOrderly /\ Bounded(file)
  BY DEF Orderly, FileOrderly
<1>2. pc[i] = "migrating" /\ UNCHANGED <<original, clientVars, faults>>
  BY DEF Migrate
<1>3. writer = i /\ view[i] = file
  BY <1>2, Kept, PlaceNames
<1>4. UNCHANGED <<expected, accepted, cursor, seen, faults>>
  BY <1>2 DEF clientVars
<1>5. CASE UpToDate(file) /\ Commit(i, file) /\ Goto(i, "validating") /\ UNCHANGED error
  <2>1. file' = file /\ Leaving(i, "validating")
    BY <1>5, <1>3, PlaceNames DEF Commit, Leaving
  <2>2. ~Cause => file.versions = 1 .. Latest
    BY <1>1, <1>5, SoundIsNotRefused DEF RefusalsOrderly
  <2>3. error' = [error EXCEPT ![i] = error[i]] /\ error[i] \in Errors
    BY <1>5, Kept
  <2>4. expected' \in [Instances -> 0 .. MaxWrites] /\ faults' \in 0 .. MaxFaults
    BY <1>4, Kept
  <2> QED BY <1>2, <1>4, <1>5, <2>1, <2>2, <2>3, <2>4, GoingOnAlone, PlaceNames
<1>6. CASE ~UpToDate(file) /\ Inapplicable(file) /\ Refuse(i, "migration")
  <2>1. Cause
    BY <1>1, <1>6, SoundIsNotRefused DEF RefusalsOrderly
  <2> QED BY <1>2, <1>4, <1>6, <2>1, RefusalIsOrderly, Kept, PlaceNames
<1>7. CASE ~UpToDate(file) /\ Commit(i, Migrated(file)) /\ Goto(i, "begin") /\ UNCHANGED error
  <2>1. file' = Migrated(file) /\ Leaving(i, "begin")
    BY <1>3, <1>7, PlaceNames DEF Commit, Leaving
  <2>2. /\ Bounded(file')
        /\ file'.revision = file.revision
        /\ file'.events \in {file.events, WithEvent(file.events)}
    BY <1>1, <2>1, MigratedFacts
  <2>3. FileOrderly'
    BY <1>1, <1>4, <2>2 DEF FileOrderly, Bounded, EventIds
  <2>4. ClientOrderly'
    BY <1>4, <2>2, EventsGrow
  <2>5. ~Valid(file) /\ file.versions # 1 .. Latest
    BY <1>7, ValidFacts DEF UpToDate
  <2>6. ~Cause => Sound(file')
    BY <1>1, <1>7, <2>1, MigratedIsSound DEF RefusalsOrderly, UpToDate
  <2>7. error' = [error EXCEPT ![i] = error[i]] /\ error[i] \in Errors
    BY <1>7, Kept
  <2>8. /\ expected' \in [Instances -> 0 .. MaxWrites] /\ faults' \in 0 .. MaxFaults
        /\ accepted' \in Nat /\ cursor' \in Nat /\ seen' \subseteq EventIds
    BY <1>1, <1>4 DEF TypeOK
  <2>9. "begin" \in Places /\ "begin" \notin {"open", "validating"} \cup Writing
    BY PlaceNames
  <2> QED
    BY <1>2, <1>7, <2>1, <2>3, <2>4, <2>5, <2>6, <2>7, <2>8, <2>9, GoingOn, PlaceNames
<1> QED BY <1>3, <1>5, <1>6, <1>7 DEF Migrate

LEMMA OpensIsOrderly ==
  ASSUME Orderly, NEW i \in Instances, Opens(i)
  PROVE  Orderly'
<1>1. TypeOK /\ FileOrderly /\ RefusalsOrderly /\ Bounded(file)
  BY DEF Orderly, FileOrderly
<1>2. ASSUME Migrate(i) PROVE Orderly'
  BY <1>2, MigrateIsOrderly
<1>3. CASE Busy(i)
  BY <1>3, RefusalIsOrderly, Kept, PlaceNames DEF Busy
<1>4. CASE FailMigration(i)
  BY <1>4, RefusalIsOrderly, Kept, PlaceNames DEF FailMigration
<1>5. CASE RefuseToMigrate(i)
  <2>1. pc[i] = "migrating" /\ UNCHANGED <<original, clientVars, faults>>
    BY <1>5 DEF RefuseToMigrate
  <2>2. view[i] = file
    BY <2>1, Kept, PlaceNames
  <2>3. Lost(file) \/ Current(file) > Latest
    BY <1>5, <2>2 DEF RefuseToMigrate
  <2>4. ASSUME Sound(file) PROVE FALSE
    <3>1. ~Lost(file)
      BY <1>1, <2>4, SoundIsNotRefused
    <3>2. PICK v \in 0 .. Latest : file.versions = 1 .. v
      BY <2>4 DEF Sound
    <3>3. v \in Nat /\ v <= Latest
      BY DEF Latest
    <3>4. Current(file) = v
      BY <3>2, <3>3, CurrentFacts
    <3> QED BY <2>3, <3>1, <3>3, <3>4 DEF Latest
  <2>5. Cause
    BY <1>1, <2>4 DEF RefusalsOrderly
  <2>6. Refuse(i, "corrupt") \/ Refuse(i, "migration")
    BY <1>5 DEF RefuseToMigrate
  <2> QED BY <2>1, <2>5, <2>6, RefusalIsOrderly, Kept, PlaceNames
<1>6. CASE Open(i)
  <2>1. /\ pc[i] = "closed" /\ Goto(i, "begin") /\ Walking(i, "begin")
        /\ error' = [error EXCEPT ![i] = "none"]
        /\ UNCHANGED <<original, file, expected, accepted, cursor, seen, faults>>
    BY <1>6, PlaceNames DEF Open, Walking, clientVars
  <2>2. "begin" \in Places /\ "begin" \notin {"open", "validating"} \cup Writing
        /\ "none" \in Errors
    BY PlaceNames
  <2>3. expected' \in [Instances -> 0 .. MaxWrites] /\ faults' \in 0 .. MaxFaults
    BY <2>1, Kept
  <2> QED BY <2>1, <2>2, <2>3, GoingOnAlone, PlaceNames
<1>7. CASE BeginMigration(i)
  <2>1. /\ Goto(i, "migrating") /\ Entering(i, "migrating")
        /\ error' = [error EXCEPT ![i] = error[i]] /\ error[i] \in Errors
        /\ UNCHANGED <<original, file, expected, accepted, cursor, seen, faults>>
    BY <1>7, Kept, PlaceNames DEF BeginMigration, Entering, clientVars
  <2>2. "migrating" \in Places /\ "migrating" \notin {"open", "validating"} \cup Writing
    BY PlaceNames
  <2>3. expected' \in [Instances -> 0 .. MaxWrites] /\ faults' \in 0 .. MaxFaults
    BY <2>1, Kept
  <2> QED BY <2>1, <2>2, <2>3, GoingOnAlone, PlaceNames
<1>8. CASE Validate(i)
  <2>1. pc[i] = "validating" /\ UNCHANGED <<original, clientVars, faults>>
    BY <1>8 DEF Validate
  <2>2. CASE Valid(file) /\ Goto(i, "open") /\ UNCHANGED <<file, writer, view, error>>
    <3>1. Walking(i, "open") /\ "open" \in Places
      BY <2>1, <2>2, PlaceNames DEF Walking
    <3>2. /\ error' = [error EXCEPT ![i] = error[i]] /\ error[i] \in Errors
          /\ UNCHANGED <<expected, accepted, cursor, seen, faults>>
      BY <2>1, <2>2, Kept DEF clientVars
    <3>3. expected' \in [Instances -> 0 .. MaxWrites] /\ faults' \in 0 .. MaxFaults
      BY <3>2, Kept
    <3> QED BY <2>1, <2>2, <3>1, <3>2, <3>3, GoingOnAlone, PlaceNames
  <2>3. CASE ~Valid(file) /\ Refuse(i, "corrupt")
    <3>1. Cause
      BY <1>1, <2>1, <2>3, ValidFacts DEF RefusalsOrderly
    <3> QED BY <2>1, <2>3, <3>1, RefusalIsOrderly, Kept, PlaceNames
  <2> QED BY <1>8, <2>2, <2>3 DEF Validate
<1>9. CASE Close(i)
  <2>1. /\ Goto(i, "closed") /\ Walking(i, "closed")
        /\ error' = [error EXCEPT ![i] = error[i]] /\ error[i] \in Errors
        /\ UNCHANGED <<original, file, expected, accepted, cursor, seen, faults>>
    BY <1>9, Kept, PlaceNames DEF Close, Walking, clientVars
  <2>2. "closed" \in Places /\ "closed" \notin {"open", "validating"} \cup Writing
    BY PlaceNames
  <2>3. expected' \in [Instances -> 0 .. MaxWrites] /\ faults' \in 0 .. MaxFaults
    BY <2>1, Kept
  <2> QED BY <2>1, <2>2, <2>3, GoingOnAlone, PlaceNames
<1>10. CASE Crash(i)
  <2>1. /\ Goto(i, "closed") /\ Leaving(i, "closed") /\ UNCHANGED file
        /\ error' = [error EXCEPT ![i] = error[i]] /\ error[i] \in Errors
        /\ UNCHANGED <<original, expected, accepted, cursor, seen>> /\ Fault
    BY <1>10, Kept, PlaceNames DEF Crash, Rollback, Leaving, clientVars
  <2>2. "closed" \in Places /\ "closed" \notin {"open", "validating"} \cup Writing
    BY PlaceNames
  <2>3. expected' \in [Instances -> 0 .. MaxWrites] /\ faults' \in 0 .. MaxFaults
    BY <2>1, Kept
  <2> QED BY <2>1, <2>2, <2>3, GoingOnAlone, PlaceNames
<1> QED BY <1>2, <1>3, <1>4, <1>5, <1>6, <1>7, <1>8, <1>9, <1>10 DEF Opens

LEMMA ReadsIsOrderly ==
  ASSUME Orderly, NEW i \in Instances,
         ReadRevision(i) \/ \E n \in 1 .. EventLimit : ReadEvents(i, n)
  PROVE  Orderly'
<1>1. TypeOK /\ FileOrderly /\ OpenOrderly /\ ClientOrderly /\ RefusalsOrderly
  BY DEF Orderly
<1>2. pc[i] = "open" /\ UNCHANGED <<file, original, writer, view, pc, error, accepted, faults>>
  BY DEF ReadRevision, ReadEvents
<1>3. Goto(i, "open") /\ Walking(i, "open") /\ "open" \in Places
  BY <1>1, <1>2, PlaceNames DEF Goto, Walking, TypeOK
<1>4. Valid(file) /\ error' = [error EXCEPT ![i] = error[i]] /\ error[i] \in Errors
  BY <1>1, <1>2, Kept DEF OpenOrderly
<1>5. faults' \in 0 .. MaxFaults
  BY <1>2, Kept
<1>6. CASE ReadRevision(i)
  <2>1. expected' = [expected EXCEPT ![i] = file.revision] /\ UNCHANGED <<cursor, seen>>
    BY <1>6 DEF ReadRevision
  <2>2. expected' \in [Instances -> 0 .. MaxWrites]
    BY <1>1, <2>1 DEF FileOrderly, Bounded, TypeOK
  <2> QED BY <1>2, <1>3, <1>4, <1>5, <2>1, <2>2, GoingOnAlone, PlaceNames
<1>7. ASSUME NEW n \in 1 .. EventLimit, ReadEvents(i, n)
      PROVE  Orderly'
  <2>1. /\ seen' = seen \cup Page(n)
        /\ cursor' = Max(Page(n) \cup {cursor})
        /\ UNCHANGED expected
    BY <1>7 DEF ReadEvents
  <2>2. n \in Nat \ {0} /\ EventLimit \in Nat
    BY DatabaseAssumption
  <2>3. /\ file.events \in SUBSET Nat /\ IsFiniteSet(file.events) /\ cursor \in Nat
        /\ file.events \subseteq EventIds /\ Cardinality(file.events) <= EventLimit
    BY <1>1, EventIdFacts DEF FileOrderly, Bounded, TypeOK
  <2>4. /\ Page(n) \subseteq file.events
        /\ \A e \in Page(n) : e > cursor
        /\ \A e \in Page(n), d \in file.events : d <= e => d <= cursor \/ d \in Page(n)
    BY <2>2, <2>3, PageFacts
  <2>5. /\ cursor' \in Page(n) \cup {cursor}
        /\ \A e \in Page(n) \cup {cursor} : e <= cursor'
    <3>1. Page(n) \cup {cursor} \in SUBSET Nat /\ IsFiniteSet(Page(n) \cup {cursor})
      BY <2>3, <2>4, FS_Subset, FS_AddElement
    <3>2. Page(n) \cup {cursor} # {}
      OBVIOUS
    <3> QED BY <2>1, <3>1, <3>2, MaxFacts
  <2>6. cursor' \in Nat /\ seen' \subseteq EventIds
    BY <1>1, <2>1, <2>3, <2>4, <2>5 DEF TypeOK
  <2>7. ClientOrderly'
    <3>1. cursor' <= Newest(file.events)
      BY <1>1, <2>3, <2>4, <2>5, NewestFacts DEF ClientOrderly
    <3>2. ASSUME NEW d \in file.events, d <= cursor'
          PROVE  d \in seen \cup Page(n)
      <4>1. CASE cursor' = cursor
        BY <1>1, <3>2, <4>1 DEF ClientOrderly
      <4>2. CASE cursor' \in Page(n)
        <5>1. d <= cursor \/ d \in Page(n)
          BY <2>4, <3>2, <4>2
        <5> QED BY <1>1, <5>1 DEF ClientOrderly
      <4> QED BY <2>5, <4>1, <4>2
    <3> QED BY <1>2, <2>1, <3>1, <3>2 DEF ClientOrderly, Newest
  <2>8. FileOrderly'
    BY <1>1, <1>2 DEF FileOrderly, Bounded, EventIds
  <2>9. expected' \in [Instances -> 0 .. MaxWrites] /\ accepted' \in Nat
    BY <1>1, <1>2, <2>1 DEF TypeOK
  <2> QED
    BY <1>1, <1>2, <1>3, <1>4, <1>5, <2>6, <2>7, <2>8, <2>9, GoingOn, PlaceNames
       DEF RefusalsOrderly
<1> QED BY <1>6, <1>7

\* A write of a valid file that is committed.
LEMMA CommittedWriteIsOrderly ==
  ASSUME Orderly, NEW i \in Instances, pc[i] \in Writing, Goto(i, "open"),
         NEW f, Commit(i, f), Bounded(f), f.revision = accepted', accepted' \in Nat,
         f.events \in {file.events, WithEvent(file.events)},
         /\ f.versions = file.versions /\ f.tables = file.tables /\ f.legal = file.legal
         /\ f.listed = file.listed /\ f.kept = file.kept,
         UNCHANGED <<original, error, expected, cursor, seen, faults>>
  PROVE  Orderly'
<1>1. TypeOK /\ OpenOrderly /\ RefusalsOrderly
  BY DEF Orderly
<1>2. file' = f /\ Leaving(i, "open") /\ "open" \in Places
  BY Kept, PlaceNames DEF Commit, Leaving
<1>3. Valid(file)
  BY <1>1 DEF OpenOrderly
<1>4. Valid(file') /\ file'.versions = file.versions
  BY <1>2, <1>3 DEF Valid
<1>5. ~Cause => Sound(file')
  <2>1. Sound(file) => Sound(f)
    BY DEF Sound
  <2> QED BY <1>1, <1>2, <2>1 DEF RefusalsOrderly
<1>6. ClientOrderly'
  BY <1>2, EventsGrow
<1>7. FileOrderly'
  BY <1>2 DEF FileOrderly, Bounded, EventIds
<1>8. error' = [error EXCEPT ![i] = error[i]] /\ error[i] \in Errors
  BY Kept
<1>9. /\ expected' \in [Instances -> 0 .. MaxWrites] /\ faults' \in 0 .. MaxFaults
      /\ cursor' \in Nat /\ seen' \subseteq EventIds
  BY <1>1 DEF TypeOK
<1> QED BY <1>2, <1>3, <1>4, <1>5, <1>6, <1>7, <1>8, <1>9, GoingOn, PlaceNames

LEMMA WritesIsOrderly ==
  ASSUME Orderly, NEW i \in Instances, Writes(i)
  PROVE  Orderly'
<1>1. TypeOK /\ FileOrderly /\ OpenOrderly /\ Bounded(file)
  BY DEF Orderly, FileOrderly
<1>2. CASE ReadRevision(i)
  BY <1>2, ReadsIsOrderly
<1>3. CASE BeginWrite(i)
  <2>1. /\ pc[i] = "open" /\ Begin(i)
        /\ error' = [error EXCEPT ![i] = error[i]] /\ error[i] \in Errors
        /\ UNCHANGED <<original, file, expected, accepted, cursor, seen, faults>>
    BY <1>3, Kept DEF BeginWrite, clientVars
  <2>2. Valid(file)
    BY <1>1, <2>1 DEF OpenOrderly
  <2>3. expected' \in [Instances -> 0 .. MaxWrites] /\ faults' \in 0 .. MaxFaults
    BY <2>1, Kept
  <2>4. CASE file.revision < MaxWrites /\ Goto(i, "writingRevision")
    <3>1. Entering(i, "writingRevision") /\ "writingRevision" \in Places
      BY <2>1, PlaceNames DEF Entering
    <3> QED BY <2>1, <2>2, <2>3, <2>4, <3>1, GoingOnAlone, PlaceNames
  <2>5. CASE EventIds \ (0 .. Newest(file.events)) # {} /\ Goto(i, "writingEvent")
    <3>1. Entering(i, "writingEvent") /\ "writingEvent" \in Places
      BY <2>1, PlaceNames DEF Entering
    <3>2. \E e \in EventIds : e > Newest(file.events)
      <4>1. PICK e \in EventIds : e \notin 0 .. Newest(file.events)
        BY <2>5
      <4>2. e \in Nat
        BY DatabaseAssumption DEF EventIds
      <4>3. Newest(file.events) \in Nat
        BY <1>1, EventIdFacts, NewestFacts DEF Bounded
      <4> QED BY <4>1, <4>2, <4>3
    <3> QED BY <2>1, <2>2, <2>3, <2>5, <3>1, <3>2, GoingOnAlone, PlaceNames
  <2> QED BY <1>3, <2>4, <2>5 DEF BeginWrite
<1>4. ASSUME pc[i] \in Writing, Goto(i, "open"), Rollback(i), faults' \in 0 .. MaxFaults,
             UNCHANGED <<original, error, expected, accepted, cursor, seen>>
      PROVE  Orderly'
  <2>1. Leaving(i, "open") /\ "open" \in Places /\ UNCHANGED file
    BY <1>4, PlaceNames DEF Rollback, Leaving
  <2>2. Valid(file)
    BY <1>1, <1>4 DEF OpenOrderly
  <2>3. error' = [error EXCEPT ![i] = error[i]] /\ error[i] \in Errors
    BY <1>4, Kept
  <2>4. expected' \in [Instances -> 0 .. MaxWrites]
    BY <1>4, Kept
  <2> QED BY <1>4, <2>1, <2>2, <2>3, <2>4, GoingOnAlone, PlaceNames
<1>5. CASE WriteRevision(i)
  <2>1. pc[i] = "writingRevision" /\ Goto(i, "open")
        /\ UNCHANGED <<original, error, expected, cursor, seen, faults>>
    BY <1>5 DEF WriteRevision
  <2>2. view[i] = file /\ file.revision < MaxWrites /\ pc[i] \in Writing
    BY <1>1, <2>1, Kept, PlaceNames DEF OpenOrderly
  <2>3. CASE Commit(i, [view[i] EXCEPT !.revision = @ + 1]) /\ accepted' = accepted + 1
    <3> DEFINE f == [file EXCEPT !.revision = @ + 1]
    <3>1. Commit(i, f)
      BY <2>2, <2>3
    <3>2. /\ DOMAIN f = Fields /\ f.revision = file.revision + 1 /\ f.events = file.events
          /\ f.versions = file.versions /\ f.tables = file.tables /\ f.legal = file.legal
          /\ f.listed = file.listed /\ f.kept = file.kept
      BY <1>1 DEF Bounded, Fields
    <3>3. f.revision \in 0 .. MaxWrites /\ f.revision = accepted' /\ accepted' \in Nat
      <4>1. /\ file.revision \in 0 .. MaxWrites /\ MaxWrites \in Nat
            /\ file.revision = accepted
        BY <1>1, DatabaseAssumption DEF Bounded, FileOrderly
      <4> QED BY <2>2, <2>3, <3>2, <4>1
    <3>4. Bounded(f)
      <4> HIDE DEF f
      <4> QED BY <1>1, <3>2, <3>3 DEF Bounded
    <3> HIDE DEF f
    <3> QED BY <2>1, <2>2, <3>1, <3>2, <3>3, <3>4, CommittedWriteIsOrderly
  <2>4. CASE Rollback(i) /\ UNCHANGED accepted
    BY <1>4, <2>1, <2>2, <2>4, Kept
  <2> QED BY <1>5, <2>3, <2>4 DEF WriteRevision
<1>6. CASE AddEvent(i)
  <2>1. /\ pc[i] = "writingEvent" /\ Goto(i, "open")
        /\ UNCHANGED <<original, error, clientVars, faults>>
    BY <1>6 DEF AddEvent
  <2>2. /\ view[i] = file /\ pc[i] \in Writing /\ Valid(file)
        /\ \E e \in EventIds : e > Newest(file.events)
    BY <1>1, <2>1, Kept, PlaceNames DEF OpenOrderly
  <2> DEFINE f == [file EXCEPT !.events = WithEvent(@)]
  <2>3. Commit(i, f)
    BY <1>6, <2>2 DEF AddEvent
  <2>4. /\ DOMAIN f = Fields /\ f.revision = file.revision /\ f.events = WithEvent(file.events)
        /\ f.versions = file.versions /\ f.tables = file.tables /\ f.legal = file.legal
        /\ f.listed = file.listed /\ f.kept = file.kept
    BY <1>1 DEF Bounded, Fields
  <2>5. /\ WithEvent(file.events) \subseteq EventIds
        /\ Cardinality(WithEvent(file.events)) <= EventLimit
    BY <1>1, <2>2, EventIdFacts, NewEvent, WithEventFacts DEF Bounded
  <2>6. f.listed = <<>> /\ f.kept = <<>>
    BY <2>2, <2>4 DEF Valid
  <2>7. Bounded(f)
    <3> HIDE DEF f
    <3> QED BY <1>1, <2>4, <2>5, <2>6 DEF Bounded
  <2>8. f.revision = accepted' /\ accepted' \in Nat
    BY <1>1, <2>1, <2>4 DEF FileOrderly, TypeOK, clientVars
  <2> HIDE DEF f
  <2> QED BY <2>1, <2>2, <2>3, <2>4, <2>7, <2>8, CommittedWriteIsOrderly DEF clientVars
<1>7. CASE FailWrite(i)
  BY <1>4, <1>7, Kept DEF FailWrite, clientVars
<1> QED BY <1>2, <1>3, <1>5, <1>6, <1>7 DEF Writes

-----------------------------------------------------------------------------
(* The invariant.                                                          *)

\* What all the files have in common that the program may meet at first.
LEMMA InitialFacts ==
  ASSUME NEW f \in InitialFiles
  PROVE  /\ DOMAIN f = Fields /\ f.revision = 0 /\ f.kept = <<>>
         /\ f.versions \in SUBSET Nat /\ IsFiniteSet(f.versions)
         /\ f.listed = <<>> \/ f.versions = {1}
         /\ f.events \subseteq 1 .. EventLimit
         /\ Original(f.rows) /\ f.unmapped = 0
         /\ f.listed = <<>>
              \/ \E m \in Nat : \E list \in [1 .. m -> Identities] : f.listed = <<list>>
<1> DEFINE OneList(listed) == \E m \in Nat : \E list \in [1 .. m -> Identities] : listed = <<list>>
           Fine(g) == /\ DOMAIN g = Fields /\ g.revision = 0 /\ g.kept = <<>>
                      /\ g.versions \in SUBSET Nat /\ IsFiniteSet(g.versions)
                      /\ g.listed = <<>> \/ g.versions = {1}
                      /\ g.events \subseteq 1 .. EventLimit
                      /\ Original(g.rows) /\ g.unmapped = 0
                      /\ g.listed = <<>> \/ OneList(g.listed)
<1>1. ASSUME NEW versions \in SUBSET Nat, IsFiniteSet(versions), NEW tables, NEW listed, NEW rows,
             NEW legal, NEW events \in SUBSET (1 .. EventLimit),
             listed = <<>> \/ versions = {1}, Original(rows), listed = <<>> \/ OneList(listed)
      PROVE  Fine(FileOf(versions, tables, listed, rows, legal, events))
  <2> DEFINE new == FileOf(versions, tables, listed, rows, legal, events)
  <2>1. /\ DOMAIN new = Fields /\ new.revision = 0 /\ new.kept = <<>> /\ new.unmapped = 0
        /\ new.versions = versions /\ new.listed = listed /\ new.rows = rows
        /\ new.events = events
    BY DEF FileOf, Fields
  <2> HIDE DEF new, OneList
  <2>2. Fine(new)
    BY <1>1, <2>1
  <2> QED BY <2>2 DEF new
<1>2. 1 \in 1 .. EventLimit
  BY DatabaseAssumption
<1>3. ASSUME NEW m \in Nat, NEW n \in Nat
      PROVE  m .. n \in SUBSET Nat /\ IsFiniteSet(m .. n)
  BY FS_Interval
<1>4. {} \in SUBSET Nat /\ IsFiniteSet({}) /\ {1} \in SUBSET Nat /\ IsFiniteSet({1})
  <2>1. IsFiniteSet({1})
    BY FS_Singleton, Zenon
  <2> QED BY <2>1, FS_EmptySet
<1> DEFINE named == {rows \in Rows : \A k \in DOMAIN rows : rows[k].identity = k}
<1>14. Original(NoRows) /\ \A rows \in named : Original(rows)
  <2>1. \A rows \in named : \E K \in SUBSET Kinds :
          rows \in [K -> [identity : Identities, enabled : BOOLEAN]]
    BY DEF Rows
  <2>2. \A rows \in named : Original(rows)
    BY <2>1 DEF Original
  <2>3. {} \in SUBSET Kinds /\ NoRows \in [{} -> [identity : Identities, enabled : BOOLEAN]]
    BY DEF NoRows
  <2>4. Original(NoRows)
    BY <2>3 DEF Original
  <2> QED BY <2>2, <2>4
<1>15. \A listed \in Lists : listed = <<>> \/ OneList(listed)
  <2>1. ASSUME NEW list \in BoundedSeq(Identities, MaxListed)
        PROVE  \E m \in Nat : list \in [1 .. m -> Identities]
    BY DatabaseAssumption DEF BoundedSeq, SeqOf
  <2> QED BY <2>1 DEF Lists
<1> DEFINE Oldest == {FileOf({1}, TRUE, list, rows, TRUE, 1 .. EventLimit) :
                      list \in Lists, rows \in named}
           Later  == {FileOf(1 .. v, TRUE, <<>>, rows, TRUE, {1}) :
                      v \in 2 .. Latest, rows \in named}
           Strange == {FileOf(vs, TRUE, <<>>, NoRows, TRUE, {}) :
                       vs \in {{}, 2 .. Latest, 1 .. Latest + 1}}
           Bare   == {FileOf(1 .. v, FALSE, <<>>, NoRows, TRUE, {}) : v \in 1 .. Latest}
<1>5. f \in {NoFile} \/ f \in Oldest \/ f \in Later
        \/ f \in {FileOf({1}, TRUE, <<>>, NoRows, FALSE, {})} \/ f \in Strange \/ f \in Bare
  <2>1. InitialFiles = {NoFile} \cup Oldest \cup Later
                         \cup {FileOf({1}, TRUE, <<>>, NoRows, FALSE, {})} \cup Strange \cup Bare
    BY DEF InitialFiles
  <2> HIDE DEF Oldest, Later, Strange, Bare
  <2> QED BY <2>1
<1>6. /\ f \in Oldest => \E list \in Lists, rows \in named :
                            f = FileOf({1}, TRUE, list, rows, TRUE, 1 .. EventLimit)
      /\ f \in Later => \E v \in 2 .. Latest, rows \in named :
                           f = FileOf(1 .. v, TRUE, <<>>, rows, TRUE, {1})
      /\ f \in Strange => \E vs \in {{}, 2 .. Latest, 1 .. Latest + 1} :
                             f = FileOf(vs, TRUE, <<>>, NoRows, TRUE, {})
      /\ f \in Bare => \E v \in 1 .. Latest :
                          f = FileOf(1 .. v, FALSE, <<>>, NoRows, TRUE, {})
  <2>1. f \in Oldest => \E list \in Lists, rows \in named :
                           f = FileOf({1}, TRUE, list, rows, TRUE, 1 .. EventLimit)
    BY SMT DEF FileOf
  <2>2. f \in Later => \E v \in 2 .. Latest, rows \in named :
                          f = FileOf(1 .. v, TRUE, <<>>, rows, TRUE, {1})
    BY SMT DEF FileOf
  <2>3. f \in Strange => \E vs \in {{}, 2 .. Latest, 1 .. Latest + 1} :
                            f = FileOf(vs, TRUE, <<>>, NoRows, TRUE, {})
    BY Zenon
  <2>4. f \in Bare => \E v \in 1 .. Latest :
                         f = FileOf(1 .. v, FALSE, <<>>, NoRows, TRUE, {})
    BY Zenon
  <2> HIDE DEF Oldest, Later, Strange, Bare
  <2> QED BY <2>1, <2>2, <2>3, <2>4, Zenon
<1> HIDE DEF Oldest, Later, Strange, Bare
<1> HIDE DEF named, Fine, OneList
<1>7. ASSUME f = NoFile PROVE Fine(f)
  BY <1>1, <1>14, <1>15, <1>4, <1>7 DEF NoFile
<1>8. ASSUME NEW list \in Lists, NEW rows \in named,
             f = FileOf({1}, TRUE, list, rows, TRUE, 1 .. EventLimit)
      PROVE  Fine(f)
  BY <1>1, <1>14, <1>15, <1>4, <1>8
<1>9. ASSUME NEW v \in 2 .. Latest, NEW rows \in named,
             f = FileOf(1 .. v, TRUE, <<>>, rows, TRUE, {1})
      PROVE  Fine(f)
  BY <1>1, <1>14, <1>15, <1>2, <1>3, <1>9 DEF Latest
<1>10. ASSUME f = FileOf({1}, TRUE, <<>>, NoRows, FALSE, {}) PROVE Fine(f)
  BY <1>1, <1>14, <1>15, <1>4, <1>10
<1>11. ASSUME NEW vs \in {{}, 2 .. Latest, 1 .. Latest + 1},
              f = FileOf(vs, TRUE, <<>>, NoRows, TRUE, {})
       PROVE  Fine(f)
  <2>1. {2, Latest, 1, Latest + 1} \subseteq Nat
    BY DEF Latest
  <2>2. vs = {} \/ vs = 2 .. Latest \/ vs = 1 .. Latest + 1
    OBVIOUS
  <2>3. vs \in SUBSET Nat /\ IsFiniteSet(vs)
    BY <1>3, <1>4, <2>1, <2>2
  <2> QED BY <1>1, <1>14, <1>15, <1>11, <2>3
<1>12. ASSUME NEW v \in 1 .. Latest, f = FileOf(1 .. v, FALSE, <<>>, NoRows, TRUE, {})
       PROVE  Fine(f)
  BY <1>1, <1>14, <1>15, <1>3, <1>12 DEF Latest
<1>13. Fine(f)
  BY <1>5, <1>6, <1>7, <1>8, <1>9, <1>10, <1>11, <1>12, Zenon
<1> QED BY <1>13 DEF Fine, OneList

LEMMA InitIsOrderly == Init => Orderly
<1> SUFFICES ASSUME Init PROVE Orderly
  OBVIOUS
<1>1. /\ file \in InitialFiles /\ original = file /\ writer = None
      /\ view = [i \in Instances |-> NoFile]
      /\ pc = [i \in Instances |-> "closed"]
      /\ error = [i \in Instances |-> "none"]
      /\ expected = [i \in Instances |-> 0]
      /\ accepted = 0 /\ cursor = 0 /\ seen = {} /\ faults = 0
  BY DEF Init
<1>2. /\ DOMAIN file = Fields /\ file.revision = 0 /\ file.kept = <<>>
      /\ file.versions \in SUBSET Nat /\ IsFiniteSet(file.versions)
      /\ file.listed = <<>> \/ file.versions = {1}
      /\ file.events \subseteq 1 .. EventLimit
  BY <1>1, InitialFacts
<1>3. EventLimit \in Nat \ {0} /\ MaxWrites \in Nat \ {0} /\ MaxFaults \in Nat
      /\ None \notin Instances
  BY DatabaseAssumption
<1>4. TypeOK
  <2>1. "closed" \in Places /\ "none" \in Errors
    BY PlaceNames
  <2> QED BY <1>1, <1>3, <2>1 DEF TypeOK
<1>5. LocksOrderly
  <2>1. "closed" \notin Holding
    BY PlaceNames
  <2> QED BY <1>1, <1>3, <2>1 DEF LocksOrderly
<1>6. Bounded(file)
  <2>1. file.events \subseteq EventIds
    BY <1>2, <1>3 DEF EventIds
  <2>2. IsFiniteSet(1 .. EventLimit) /\ Cardinality(1 .. EventLimit) = EventLimit
    BY <1>3, FS_Interval
  <2>3. Cardinality(file.events) <= EventLimit
    BY <1>2, <2>2, FS_Subset
  <2> QED BY <1>2, <1>3, <2>1, <2>3 DEF Bounded
<1>7. OpenOrderly
  <2>1. "closed" \notin {"open"} \cup Writing
    BY PlaceNames
  <2> QED BY <1>1, <2>1, PlaceNames DEF OpenOrderly
<1>8. ClientOrderly
  <2>1. file.events \in SUBSET Nat /\ IsFiniteSet(file.events)
    BY <1>6, EventIdFacts DEF Bounded
  <2>2. Newest(file.events) \in Nat
    BY <2>1, NewestFacts
  <2>3. \A e \in file.events : ~(e <= 0)
    BY <1>2, <1>3
  <2> QED BY <1>1, <2>2, <2>3 DEF ClientOrderly
<1>9. ~Cause => Sound(file)
  <2> SUFFICES ASSUME ~Cause PROVE Sound(file)
    OBVIOUS
  <2> DEFINE v == Current(file)
  <2>1. /\ ~Lost(file) /\ file.versions = 1 .. v /\ ~(v > Latest)
        /\ v > 0 => file.tables
        /\ file.legal
    BY <1>1 DEF Cause
  <2>2. v \in Nat
    BY <1>2, NewestFacts DEF Current, Newest
  <2> HIDE DEF v
  <2>3. v \in 0 .. Latest
    BY <2>1, <2>2 DEF Latest
  <2>4. file.tables <=> v > 0
    BY <2>1, <2>2 DEF Lost
  <2>5. v >= 2 => file.listed = <<>>
    <3>1. v >= 2 => 2 \in 1 .. v
      BY <2>2
    <3> QED BY <1>2, <2>1, <3>1
  <2> QED BY <1>2, <2>1, <2>3, <2>4, <2>5 DEF Sound
<1>10. RefusalsOrderly
  BY <1>1, <1>9, PlaceNames DEF RefusalsOrderly
<1> QED BY <1>1, <1>2, <1>4, <1>5, <1>6, <1>7, <1>8, <1>10 DEF Orderly, FileOrderly

LEMMA NextIsOrderly == Orderly /\ [Next]_vars => Orderly'
<1> SUFFICES ASSUME Orderly, [Next]_vars PROVE Orderly'
  OBVIOUS
<1>1. ASSUME NEW i \in Instances, Opens(i) PROVE Orderly'
  BY <1>1, OpensIsOrderly
<1>2. ASSUME NEW i \in Instances, Writes(i) PROVE Orderly'
  BY <1>2, WritesIsOrderly
<1>3. ASSUME NEW i \in Instances, \E n \in 1 .. EventLimit : ReadEvents(i, n) PROVE Orderly'
  BY <1>3, ReadsIsOrderly
<1>4. CASE UNCHANGED vars
  <2> USE <1>4 DEF vars, clientVars
  <2>1. TypeOK'
    BY DEF Orderly, TypeOK
  <2>2. /\ LocksOrderly' /\ FileOrderly' /\ OpenOrderly' /\ ClientOrderly'
        /\ (DOMAIN view = Instances)'
    BY DEF Orderly, LocksOrderly, FileOrderly, Bounded, OpenOrderly, Valid, ClientOrderly, Newest
  <2>3. RefusalsOrderly'
    BY DEF Orderly, RefusalsOrderly, Cause, Sound, Lost, Current
  <2> QED BY <2>1, <2>2, <2>3 DEF Orderly
<1> QED BY <1>1, <1>2, <1>3, <1>4 DEF Next

\* Every reachable state is orderly, whatever the processes do and whichever of them end.
THEOREM Ordered == Spec => []Orderly
  BY InitIsOrderly, NextIsOrderly, PTL DEF Spec

\* Every variable keeps to its values.
THEOREM Typed == Spec => []TypeOK
<1>1. Orderly => TypeOK
  BY DEF Orderly
<1> QED BY <1>1, Ordered, PTL

\* Rollbacks: whatever ends a transaction of open() or of a write, the writer lock is free
\* again, or nobody could write until the process ends.
THEOREM TransactionsEnd == Spec => []LockIsReleased
<1>1. Orderly => LockIsReleased
  BY DEF Orderly, LocksOrderly, LockIsReleased, Holding
<1> QED BY <1>1, Ordered, PTL

\* set_source_revisioned() and set_destination_revisioned(): the transaction compares and
\* counts under one lock, so that every write that is accepted is in the file.
THEOREM RevisionsAreExact == Spec => []NoLostUpdate
<1>1. Orderly => NoLostUpdate
  BY DEF Orderly, FileOrderly, NoLostUpdate
<1> QED BY <1>1, Ordered, PTL

\* list_events(): however small its pages are and however fast events are deleted, a client
\* that follows the cursor gets all that is kept.
THEOREM PagesAreComplete == Spec => []PagingMissesNothing
<1>1. ASSUME Orderly PROVE PagingMissesNothing
  <2>1. /\ file.events \in SUBSET Nat /\ IsFiniteSet(file.events) /\ cursor \in Nat
        /\ Cardinality(file.events) <= EventLimit /\ ClientOrderly
    BY <1>1, EventIdFacts DEF Orderly, FileOrderly, Bounded, TypeOK
  <2>2. ASSUME NEW n \in 1 .. EventLimit, Page(n) = {}
        PROVE  Newest(file.events) <= cursor
    <3>1. n \in Nat \ {0}
      BY DatabaseAssumption
    <3>2. \A e \in file.events : e <= cursor
      BY <2>1, <2>2, <3>1, PageFacts
    <3>3. Newest(file.events) \in file.events \/ Newest(file.events) = 0
      BY <2>1, NewestFacts
    <3> QED BY <2>1, <3>2, <3>3
  <2> QED BY <2>1, <2>2 DEF ClientOrderly, PagingMissesNothing
<1> QED BY <1>1, Ordered, PTL

\* open(): a file that a release up to this one wrote is never called corrupt, however many
\* processes upgrade it and wherever an upgrade was interrupted.
THEOREM UpgradesAreTrusted == Spec => []RefusedForCause
<1>1. Orderly => RefusedForCause
  BY DEF Orderly, RefusalsOrderly, RefusedForCause, Cause
<1> QED BY <1>1, Ordered, PTL


-----------------------------------------------------------------------------
(* Upgrades: what has become of the list and of the rows.                  *)

Untouched == file.rows = original.rows /\ file.unmapped = 0

\* What migration 3 made of the file as it was found.
Carried ==
  IF original.listed = <<>> THEN Untouched
  ELSE LET found == Reconciled(original.listed[1], original.rows)
       IN file.rows = found.rows /\ file.unmapped = found.unmapped

\* The list stays where it is until migration 2 puts it aside and migration 3 carries it over;
\* the rows stay what they were until then and afterwards.
HistoryOrderly ==
  /\ original \in InitialFiles
  /\ file.versions \in SUBSET Nat /\ IsFiniteSet(file.versions)
  /\ Current(file) < 2 => file.listed = original.listed /\ file.kept = <<>> /\ Untouched
  /\ Current(file) = 2 => file.kept = original.listed /\ Untouched
  /\ Current(file) >= 3 => Carried

\* A file that is not upgraded yet is as it was found.
LEMMA InitHistory == ASSUME Init PROVE HistoryOrderly
<1>1. file \in InitialFiles /\ original = file
  BY DEF Init
<1>2. /\ file.kept = <<>> /\ file.unmapped = 0
      /\ file.versions \in SUBSET Nat /\ IsFiniteSet(file.versions)
      /\ file.listed = <<>> \/ file.versions = {1}
  BY <1>1, InitialFacts
<1>3. file.versions = {1} => Current(file) = 1
  <2>1. {1} = 1 .. 1
    OBVIOUS
  <2> QED BY <2>1, CurrentFacts
<1> QED BY <1>1, <1>2, <1>3 DEF HistoryOrderly, Carried, Untouched

\* The version of a file after a migration.
LEMMA NextVersion ==
  ASSUME NEW f, NEW g, f.versions \in SUBSET Nat, IsFiniteSet(f.versions),
         g.versions = f.versions \cup {Current(f) + 1}
  PROVE  /\ g.versions \in SUBSET Nat /\ IsFiniteSet(g.versions)
         /\ Current(f) \in Nat /\ Current(g) = Current(f) + 1
<1>1. Current(f) \in Nat /\ \A v \in f.versions : v <= Current(f)
  BY NewestFacts DEF Current, Newest
<1>2. g.versions \in SUBSET Nat /\ IsFiniteSet(g.versions)
  BY <1>1, FS_AddElement
<1>3. /\ Current(g) \in Nat
      /\ Current(g) \in g.versions \/ Current(g) = 0
      /\ \A v \in g.versions : v <= Current(g)
  BY <1>2, NewestFacts DEF Current, Newest
<1> HIDE DEF Current
<1>4. Current(f) + 1 <= Current(g) /\ Current(g) <= Current(f) + 1
  BY <1>1, <1>3
<1> QED BY <1>1, <1>2, <1>3, <1>4

\* Only migrations touch versions, list and rows: the others write revisions and events.
LEMMA FileSteps ==
  ASSUME Orderly, [Next]_vars
  PROVE  /\ original' = original
         /\ \/ file' = Migrated(file)
            \/ /\ file'.versions = file.versions /\ file'.listed = file.listed
               /\ file'.kept = file.kept /\ file'.rows = file.rows
               /\ file'.unmapped = file.unmapped
<1> DEFINE Same == /\ file'.versions = file.versions /\ file'.listed = file.listed
                   /\ file'.kept = file.kept /\ file'.rows = file.rows
                   /\ file'.unmapped = file.unmapped
<1>1. DOMAIN file = Fields
  BY DEF Orderly, FileOrderly, Bounded
<1>2. ASSUME NEW i \in Instances, Opens(i)
      PROVE  original' = original /\ (file' = Migrated(file) \/ file' = file)
  <2>1. CASE Migrate(i)
    <3>1. view[i] = file
      BY <2>1, Kept, PlaceNames DEF Migrate
    <3> QED BY <2>1, <3>1 DEF Migrate, Commit, Refuse, Rollback
  <2>2. CASE ~Migrate(i)
    BY <1>2, <2>2 DEF Opens, Open, Busy, BeginMigration, RefuseToMigrate, FailMigration, Validate,
         Close, Crash, Refuse, Rollback
  <2> QED BY <2>1, <2>2
<1>3. ASSUME NEW i \in Instances, Writes(i)
      PROVE  original' = original /\ Same
  <2>1. pc[i] \in Writing => view[i] = file
    BY Kept DEF Holding
  <2>2. CASE WriteRevision(i)
    <3>1. file' = [file EXCEPT !.revision = @ + 1] \/ file' = file
      BY <2>1, <2>2 DEF WriteRevision, Commit, Rollback, Writing
    <3> QED BY <1>1, <2>2, <3>1 DEF WriteRevision, Fields
  <2>3. CASE AddEvent(i)
    <3>1. file' = [file EXCEPT !.events = WithEvent(@)]
      BY <2>1, <2>3 DEF AddEvent, Commit, Writing
    <3> QED BY <1>1, <2>3, <3>1 DEF AddEvent, Fields
  <2>4. CASE ~WriteRevision(i) /\ ~AddEvent(i)
    BY <1>3, <2>4 DEF Writes, ReadRevision, BeginWrite, FailWrite, Rollback
  <2> QED BY <2>2, <2>3, <2>4
<1>4. ASSUME NEW i \in Instances, NEW n, ReadEvents(i, n)
      PROVE  original' = original /\ Same
  BY <1>4 DEF ReadEvents
<1>5. CASE UNCHANGED vars
  BY <1>5 DEF vars
<1> QED BY <1>2, <1>3, <1>4, <1>5 DEF Next

\* One migration, by version.
LEMMA MigrateHistory ==
  ASSUME Orderly, HistoryOrderly, file' = Migrated(file), original' = original
  PROVE  HistoryOrderly'
<1> DEFINE v      == Current(file)
           result == CASE v + 1 = 1 -> Migration1(file)
                       [] v + 1 = 2 -> Migration2(file)
                       [] v + 1 = 3 -> Migration3(file)
                       [] OTHER     -> Migration4(file)
           Same(g) == /\ g.rows = file.rows /\ g.unmapped = file.unmapped
<1>1. /\ DOMAIN file = Fields /\ v \in Nat
      /\ file.versions \in SUBSET Nat /\ IsFiniteSet(file.versions)
  <2>1. file.versions \in SUBSET Nat /\ IsFiniteSet(file.versions)
    BY DEF HistoryOrderly
  <2> QED BY <2>1, NewestFacts DEF Orderly, FileOrderly, Bounded, Current, Newest
<1>2. file' = [result EXCEPT !.versions = @ \cup {v + 1}]
  BY DEF Migrated
<1>3. v = 0 => Same(result) /\ result.listed = file.listed /\ result.kept = file.kept
  BY <1>1 DEF Migration1, Fields
<1>4. v = 1 => Same(result) /\ result.kept = file.listed
  <2>1. Same(Migration2(file)) /\ Migration2(file).kept = file.listed
    BY <1>1 DEF Migration2, Fields
  <2>2. v = 1 => result = Migration2(file)
    OBVIOUS
  <2> QED BY <2>1, <2>2
<1>5. v = 2 => IF file.kept = <<>> THEN Same(result)
               ELSE /\ result.rows = Reconciled(file.kept[1], file.rows).rows
                    /\ result.unmapped = Reconciled(file.kept[1], file.rows).unmapped
  <2> SUFFICES ASSUME v = 2
               PROVE  IF file.kept = <<>> THEN Same(Migration3(file))
                      ELSE LET found == Reconciled(file.kept[1], file.rows)
                           IN /\ Migration3(file).rows = found.rows
                              /\ Migration3(file).unmapped = found.unmapped
    OBVIOUS
  <2> DEFINE found == Reconciled(file.kept[1], file.rows)
             new   == [file EXCEPT !.kept = <<>>, !.rows = found.rows,
                                   !.unmapped = found.unmapped,
                                   !.events = IF found.unmapped = 0 THEN @ ELSE WithEvent(@)]
  <2>1. CASE file.kept = <<>>
    BY <2>1 DEF Migration3
  <2>2. CASE file.kept # <<>>
    <3>1. Migration3(file) = new
      BY <2>2 DEF Migration3
    <3> HIDE DEF found
    <3>2. new.rows = found.rows /\ new.unmapped = found.unmapped
      BY <1>1 DEF Fields
    <3> HIDE DEF new
    <3>3. Migration3(file).rows = found.rows /\ Migration3(file).unmapped = found.unmapped
      BY <3>1, <3>2
    <3> QED BY <2>2, <3>3 DEF found
  <2> QED BY <2>1, <2>2
<1>6. v >= 3 => Same(result)
  BY <1>1 DEF Migration4
<1>7. /\ DOMAIN result = Fields /\ result.versions = file.versions
  <2>1. v = 2 => DOMAIN result = Fields /\ result.versions = file.versions
    <3> SUFFICES ASSUME v = 2
                 PROVE  /\ DOMAIN Migration3(file) = Fields
                        /\ Migration3(file).versions = file.versions
      OBVIOUS
    <3> DEFINE found == Reconciled(file.kept[1], file.rows)
    <3>1. Migration3(file) \in {file, [file EXCEPT !.kept = <<>>, !.rows = found.rows,
                                   !.unmapped = found.unmapped,
                                   !.events = IF found.unmapped = 0 THEN @ ELSE WithEvent(@)]}
      BY DEF Migration3
    <3> HIDE DEF found
    <3> QED BY <1>1, <3>1 DEF Fields
  <2> QED BY <1>1, <2>1 DEF Migration1, Migration2, Migration4, Fields
<1> HIDE DEF result
<1>8. /\ file'.rows = result.rows /\ file'.unmapped = result.unmapped
      /\ file'.listed = result.listed /\ file'.kept = result.kept
      /\ file'.versions = file.versions \cup {v + 1}
  BY <1>2, <1>7 DEF Fields
<1>9. /\ file'.versions \in SUBSET Nat /\ IsFiniteSet(file'.versions) /\ Current(file') = v + 1
  BY <1>1, <1>8, NextVersion
<1>10. Current(file)' = v + 1
  BY <1>9 DEF Current
<1> HIDE DEF v
<1>11. /\ original \in InitialFiles
       /\ v < 2 => file.listed = original.listed /\ file.kept = <<>> /\ Untouched
       /\ v = 2 => file.kept = original.listed /\ Untouched
       /\ v >= 3 => Carried
  BY DEF HistoryOrderly, v
<1>12. CASE v = 0
  BY <1>3, <1>8, <1>9, <1>10, <1>11, <1>12 DEF HistoryOrderly, Untouched
<1>13. CASE v = 1
  BY <1>4, <1>8, <1>9, <1>10, <1>11, <1>13 DEF HistoryOrderly, Untouched
<1>14. CASE v = 2
  <2>1. Carried'
    BY <1>5, <1>8, <1>11, <1>14 DEF Carried, Untouched
  <2> QED BY <1>9, <1>10, <1>11, <1>14, <2>1 DEF HistoryOrderly
<1>15. CASE v >= 3
  <2>1. Carried'
    BY <1>6, <1>8, <1>11, <1>15 DEF Carried, Untouched
  <2>2. ~(v + 1 < 2) /\ v + 1 # 2
    BY <1>1, <1>15 DEF v
  <2> QED BY <1>9, <1>10, <1>11, <1>15, <2>1, <2>2 DEF HistoryOrderly
<1> QED BY <1>1, <1>12, <1>13, <1>14, <1>15 DEF v

\* Whatever does not migrate leaves the history alone.
LEMMA NextHistory ==
  ASSUME Orderly, HistoryOrderly, [Next]_vars
  PROVE  HistoryOrderly'
<1>1. original' = original
  BY FileSteps
<1>2. CASE file' = Migrated(file)
  BY <1>1, <1>2, MigrateHistory
<1>3. CASE /\ file'.versions = file.versions /\ file'.listed = file.listed
           /\ file'.kept = file.kept /\ file'.rows = file.rows
           /\ file'.unmapped = file.unmapped
  BY <1>1, <1>3 DEF HistoryOrderly, Carried, Untouched, Current
<1> QED BY <1>2, <1>3, FileSteps

\* _migrate(): however often an upgrade is interrupted, and whoever goes on with it, the
\* destinations end up enabled as the operator had them, under the names of the list, and a
\* name that found no place is reported.
THEOREM WishesSurvive == Spec => []UpgradeKeepsWishes
<1>1. ASSUME HistoryOrderly PROVE UpgradeKeepsWishes
  <2> SUFFICES ASSUME Current(file) >= 3
               PROVE  /\ DOMAIN file.rows = DOMAIN original.rows
                      /\ \A k \in DOMAIN file.rows :
                           /\ file.rows[k].enabled = Wanted(k)
                           /\ file.rows[k].identity \in
                                IF original.listed # <<>> /\ Wanted(k) THEN Listed(k) ELSE {k}
                      /\ (file.unmapped = 0) =
                           (original.listed = <<>> \/ ToSet(original.listed[1]) \subseteq
                              {file.rows[k].identity : k \in {j \in DOMAIN file.rows : Wanted(j)}})
    BY DEF UpgradeKeepsWishes
  <2>1. /\ Carried /\ Original(original.rows)
        /\ original.listed = <<>>
             \/ \E m \in Nat : \E list \in [1 .. m -> Identities] : original.listed = <<list>>
    BY <1>1, InitialFacts DEF HistoryOrderly
  <2>2. CASE original.listed = <<>>
    <3>1. file.rows = original.rows /\ file.unmapped = 0
      BY <2>1, <2>2 DEF Carried, Untouched
    <3>2. \A k \in DOMAIN original.rows : original.rows[k].identity = k
      BY <2>1 DEF Original
    <3> QED BY <2>2, <3>1, <3>2 DEF Wanted
  <2>3. CASE original.listed # <<>>
    <3>0. PICK m \in Nat : \E list \in [1 .. m -> Identities] : original.listed = <<list>>
      BY <2>1, <2>3
    <3>1. PICK list \in [1 .. m -> Identities] : original.listed = <<list>>
      BY <3>0
    <3> DEFINE found == Reconciled(list, original.rows)
    <3>2. original.listed[1] = list
      BY <3>1
    <3>3. file.rows = found.rows /\ file.unmapped = found.unmapped
      BY <2>1, <2>3, <3>2 DEF Carried
    <3>4. \A k : On(list, k) = Wanted(k) /\ Listed(k) = Named(list, k)
      BY <2>3, <3>2 DEF Wanted, Listed, Named, On
    <3>5. KeepsWishes(found, list, original.rows)
      BY <2>1, ReconciledFacts
    <3> HIDE DEF found
    <3>6. DOMAIN file.rows = DOMAIN original.rows
      BY <3>3, <3>5 DEF KeepsWishes
    <3>7. \A k \in DOMAIN file.rows :
            /\ file.rows[k].enabled = Wanted(k)
            /\ file.rows[k].identity \in
                 IF original.listed # <<>> /\ Wanted(k) THEN Listed(k) ELSE {k}
      BY <2>3, <3>3, <3>4, <3>5 DEF KeepsWishes
    <3>8. {j \in DOMAIN file.rows : Wanted(j)} = {j \in DOMAIN original.rows : On(list, j)}
      BY <3>4, <3>6
    <3>9. (file.unmapped = 0) = (ToSet(list) \subseteq
            {file.rows[k].identity : k \in {j \in DOMAIN file.rows : Wanted(j)}})
      BY <3>3, <3>5, <3>8 DEF KeepsWishes
    <3> QED BY <2>3, <3>2, <3>6, <3>7, <3>9
  <2> QED BY <2>2, <2>3
<1> QED BY <1>1, InitHistory, NextHistory, Ordered, PTL DEF Spec

=============================================================================
