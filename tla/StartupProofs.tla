--------------------------- MODULE StartupProofs ---------------------------
(***************************************************************************)
(* Proofs about Startup, for paths of any length, any number of endpoints  *)
(* and addresses, and whatever other programs do with them.                *)
(***************************************************************************)
EXTENDS Startup, SequenceTheorems, WellFoundedInduction, TLAPS

----------------------------------------------------------------------------
\* Numbers.

\* Any set of numbers that is not empty has a least one.
LEMMA LeastNumber ==
    ASSUME NEW S \in SUBSET Nat, S # {}
    PROVE  \E x \in S : \A y \in S : x <= y
  <1>1. PICK x \in S : \A y \in S : <<y, x>> \notin OpToRel(<, Nat)
    BY NatLessThanWellFounded, WFMin
  <1>2. \A y \in Nat : y < x => <<y, x>> \in OpToRel(<, Nat)
    BY DEF OpToRel
  <1>3. \A y \in S : ~(y < x)
    BY <1>1, <1>2
  <1>4. \A y \in S : x <= y
    BY <1>3
  <1> QED
    BY <1>4

\* Induction, for a property of numbers given as the set of those that have it.
LEMMA EveryNumber ==
    ASSUME NEW S, 0 \in S, \A n \in Nat : n \in S => n + 1 \in S
    PROVE  \A n \in Nat : n \in S
  <1> DEFINE others == {n \in Nat : n \notin S}
  <1> SUFFICES ASSUME others # {} PROVE FALSE
    OBVIOUS
  <1>1. PICK k \in others : \A y \in others : k <= y
    <2>1. others \in SUBSET Nat
      OBVIOUS
    <2> HIDE DEF others
    <2> QED
      BY <2>1, LeastNumber
  <1>2. k # 0
    BY <1>1
  <1>3. k - 1 \in Nat /\ k - 1 + 1 = k
    BY <1>2
  <1>4. k - 1 \notin others
    BY <1>1, <1>3
  <1>5. k - 1 \in S
    BY <1>3, <1>4
  <1> QED
    BY <1>1, <1>3, <1>5

\* A set of numbers up to n that is not empty has a greatest one.
LEMMA GreatestNumber ==
    ASSUME NEW n \in Nat, NEW S \in SUBSET (1..n), S # {}
    PROVE  Max(S) \in S /\ \A y \in S : Max(S) >= y
  <1> DEFINE bounds == {b \in Nat : \A y \in S : y <= b}
  <1>1. n \in bounds /\ bounds \in SUBSET Nat
    OBVIOUS
  <1>2. PICK b \in bounds : \A c \in bounds : b <= c
    <2> HIDE DEF bounds
    <2> QED
      BY <1>1, LeastNumber
  <1>3. b \in S
    <2> SUFFICES ASSUME b \notin S PROVE FALSE
      OBVIOUS
    <2>0. PICK z : z \in S
      OBVIOUS
    <2>1. z \in Nat /\ 1 <= z /\ z <= b
      BY <1>2, <2>0
    <2>2. b \in Nat /\ b - 1 \in Nat /\ ~(b <= b - 1)
      BY <1>2, <2>1
    <2>3. ASSUME NEW y \in S PROVE y <= b - 1
      <3>1. y \in Nat /\ y <= b /\ y # b
        BY <1>2
      <3> QED
        BY <2>2, <3>1
    <2>4. b - 1 \in bounds
      BY <2>2, <2>3
    <2> QED
      BY <1>2, <2>2, <2>4
  <1>4. \A y \in S : b >= y
    BY <1>2
  <1> QED
    BY <1>3, <1>4 DEF Max

----------------------------------------------------------------------------
\* The list of unique directories.

\* FoldLeft does what its recursive function says: there is such a function.
Step(list, x, kept) == IF list[x] \in ToSet(kept) THEN kept ELSE Append(kept, list[x])

Folds(f, list, n) ==
    f = [s \in SUBSET (1..n) |->
            IF s = {} THEN <<>> ELSE LET x == Max(s) IN Step(list, x, f[s \ {x}])]

LEMMA FoldsNext ==
    ASSUME NEW list, NEW n \in Nat, NEW f, Folds(f, list, n)
    PROVE  \E g : Folds(g, list, n + 1)
  <1> DEFINE k == n + 1
             g == [s \in SUBSET (1..k) |-> IF k \in s THEN Step(list, k, f[s \ {k}]) ELSE f[s]]
             h == [s \in SUBSET (1..k) |->
                     IF s = {} THEN <<>> ELSE LET x == Max(s) IN Step(list, x, g[s \ {x}])]
  <1>1. \A s \in SUBSET (1..n) :
           f[s] = IF s = {} THEN <<>> ELSE LET x == Max(s) IN Step(list, x, f[s \ {x}])
    BY DEF Folds
  <1>2. \A s \in SUBSET (1..n) : s \in SUBSET (1..k) /\ g[s] = f[s]
    OBVIOUS
  <1>3. ASSUME NEW s \in SUBSET (1..k) PROVE g[s] = h[s]
    <2>1. CASE k \in s
      <3>1. Max(s) = k
        <4>1. Max(s) \in s /\ \A y \in s : Max(s) >= y
          <5>1. s # {} /\ k \in Nat
            BY <2>1
          <5> QED
            BY <5>1, GreatestNumber
        <4>2. Max(s) \in 1..k /\ Max(s) >= k
          BY <2>1, <4>1
        <4> QED
          BY <4>2
      <3>2. s \ {k} \in SUBSET (1..n)
        OBVIOUS
      <3>3. g[s \ {k}] = f[s \ {k}]
        BY <1>2, <3>2
      <3>4. g[s] = Step(list, k, f[s \ {k}])
        BY <2>1
      <3> HIDE DEF g
      <3>5. h[s] = Step(list, k, g[s \ {k}])
        BY <2>1, <3>1
      <3> QED
        BY <3>3, <3>4, <3>5
    <2>2. CASE k \notin s
      <3>1. s \in SUBSET (1..n) /\ g[s] = f[s]
        BY <1>2, <2>2
      <3>2. CASE s = {}
        BY <1>1, <3>1, <3>2
      <3>3. CASE s # {}
        <4>1. s \ {Max(s)} \in SUBSET (1..n)
          BY <3>1
        <4>2. g[s \ {Max(s)}] = f[s \ {Max(s)}]
          BY <1>2, <4>1
        <4>3. f[s] = Step(list, Max(s), f[s \ {Max(s)}])
          BY <1>1, <3>1, <3>3
        <4> HIDE DEF g
        <4>4. h[s] = Step(list, Max(s), g[s \ {Max(s)}])
          BY <3>3
        <4> QED
          BY <3>1, <4>2, <4>3, <4>4
      <3> QED
        BY <3>2, <3>3
    <2> QED
      BY <2>1, <2>2
  <1>4. g = h
    BY <1>3
  <1>5. Folds(g, list, k)
    BY <1>4 DEF Folds
  <1> QED
    BY <1>5

LEMMA UniqueFolds ==
    ASSUME NEW list, Len(list) \in Nat, DOMAIN list = 1..Len(list)
    PROVE  \E f : Folds(f, list, Len(list)) /\ Unique(list) = f[1..Len(list)]
  <1> DEFINE S == {n \in Nat : \E f : Folds(f, list, n)}
  <1>1. 0 \in S
    <2> DEFINE f == [s \in SUBSET (1..0) |-> <<>>]
    <2>1. \A s \in SUBSET (1..0) : s = {}
      OBVIOUS
    <2>2. Folds(f, list, 0)
      BY <2>1 DEF Folds
    <2> QED
      BY <2>2
  <1>2. \A n \in Nat : n \in S => n + 1 \in S
    BY FoldsNext
  <1>3. \E f : Folds(f, list, Len(list))
    <2>1. Len(list) \in S
      <3> HIDE DEF S
      <3> QED
        BY <1>1, <1>2, EveryNumber
    <2> QED
      BY <2>1
  <1>4. Folds(CHOOSE f : Folds(f, list, Len(list)), list, Len(list))
    BY <1>3
  <1>5. Unique(list) = (CHOOSE f : Folds(f, list, Len(list)))[1..Len(list)]
    BY DEF Unique, FoldLeft, MapThenFoldSet, Folds, Step
  <1> QED
    BY <1>4, <1>5

\* Where an element of a list is first.
First(list, d) == CHOOSE i \in DOMAIN list : list[i] = d /\ \A j \in 1..i - 1 : list[j] # d

LEMMA FirstIs ==
    ASSUME NEW S, NEW list \in Seq(S), NEW k \in 1..Len(list)
    PROVE  /\ First(list, list[k]) \in 1..k
           /\ (\A j \in 1..k - 1 : list[j] # list[k]) => First(list, list[k]) = k
  <1> DEFINE d == list[k]
             at == {i \in 1..Len(list) : list[i] = d}
             isFirst(i) == list[i] = d /\ \A j \in 1..i - 1 : list[j] # d
  <1>1. PICK m \in at : \A y \in at : m <= y
    <2>1. k \in at /\ at \in SUBSET Nat
      OBVIOUS
    <2> HIDE DEF at
    <2> QED
      BY <2>1, LeastNumber
  <1>2. m \in 1..k /\ m \in DOMAIN list
    BY <1>1
  <1>3. isFirst(m)
    <2> SUFFICES ASSUME NEW j \in 1..m - 1 PROVE list[j] # d
      BY <1>1
    <2>1. j \in 1..Len(list) /\ ~(m <= j)
      BY <1>1
    <2>2. j \notin at
      BY <1>1, <2>1
    <2> QED
      BY <2>1, <2>2
  <1>4. ASSUME NEW i \in DOMAIN list, isFirst(i) PROVE i = m
    <2>1. i \in Nat /\ m \in Nat /\ i \in at
      BY <1>2, <1>4
    <2>2. m <= i
      BY <1>1, <2>1
    <2>3. ~(m < i)
      BY <1>1, <1>2, <1>4, <2>1
    <2> QED
      BY <2>1, <2>2, <2>3
  <1>5. First(list, d) = m
    <2>1. First(list, d) = CHOOSE i \in DOMAIN list : isFirst(i)
      BY DEF First
    <2> HIDE DEF isFirst
    <2> QED
      BY <1>2, <1>3, <1>4, <2>1
  <1>6. (\A j \in 1..k - 1 : list[j] # list[k]) => k = m
    BY <1>4
  <1> QED
    BY <1>2, <1>5, <1>6

\* The first n directories without those that were there before.
Normalized(kept, list, n) ==
    /\ kept \in Seq({list[i] : i \in 1..n})
    /\ \A i \in 1..n : \E k \in 1..Len(kept) : kept[k] = list[i]
    /\ \A i, j \in 1..Len(kept) : i < j => First(list, kept[i]) < First(list, kept[j])

LEMMA StepNormalizes ==
    ASSUME NEW S, NEW list \in Seq(S), NEW n \in Nat, n + 1 \in 1..Len(list),
           NEW kept, Normalized(kept, list, n)
    PROVE  Normalized(Step(list, n + 1, kept), list, n + 1)
  <1> DEFINE x == n + 1
             before == {list[i] : i \in 1..n}
             all == {list[i] : i \in 1..x}
             new == Append(kept, list[x])
  <1>1. x \in 1..Len(list) /\ \A i \in 1..x : i \in 1..n \/ i = x
    OBVIOUS
  <1>2. before \subseteq all /\ list[x] \in all
    OBVIOUS
  <1>3. /\ kept \in Seq(before) /\ Len(kept) \in Nat /\ DOMAIN kept = 1..Len(kept)
        /\ \A i \in 1..n : \E k \in 1..Len(kept) : kept[k] = list[i]
        /\ \A i, j \in 1..Len(kept) : i < j => First(list, kept[i]) < First(list, kept[j])
    BY LenProperties DEF Normalized
  <1>4. kept \in Seq(all)
    <2> HIDE DEF before, all
    <2> QED
      BY <1>2, <1>3, SeqMonotonic
  <1>5. \A k \in 1..Len(kept) : \E i \in 1..n : kept[k] = list[i]
    <2>1. \A k \in 1..Len(kept) : kept[k] \in before
      <3> HIDE DEF before
      <3> QED
        BY <1>3, ElementOfSeq
    <2> QED
      BY <2>1
  <1>6. CASE list[x] \in ToSet(kept)
    <2>1. PICK k \in 1..Len(kept) : kept[k] = list[x]
      BY <1>3, <1>6 DEF ToSet
    <2>2. \A i \in 1..x : \E k2 \in 1..Len(kept) : kept[k2] = list[i]
      BY <1>1, <1>3, <2>1
    <2>3. Step(list, x, kept) = kept
      BY <1>6 DEF Step
    <2> HIDE DEF x
    <2> QED
      BY <1>3, <1>4, <2>2, <2>3 DEF Normalized, x
  <1>7. CASE list[x] \notin ToSet(kept)
    <2>1. \A k \in 1..Len(kept) : kept[k] # list[x]
      BY <1>3, <1>7 DEF ToSet
    <2>2. First(list, list[x]) = x
      <3>1. ASSUME NEW j \in 1..x - 1 PROVE list[j] # list[x]
        <4>1. j \in 1..n
          OBVIOUS
        <4>2. PICK k \in 1..Len(kept) : kept[k] = list[j]
          BY <1>3, <4>1
        <4> QED
          BY <2>1, <4>2
      <3> HIDE DEF x
      <3> QED
        BY <1>1, <3>1, FirstIs
    <2>3. ASSUME NEW i \in 1..Len(kept) PROVE First(list, kept[i]) < x
      <3>1. PICK j \in 1..n : kept[i] = list[j]
        BY <1>5
      <3>2. j \in 1..Len(list) /\ j \in Nat /\ j < x
        OBVIOUS
      <3>3. First(list, list[j]) \in 1..j
        BY <3>2, FirstIs
      <3> QED
        BY <3>1, <3>2, <3>3
    <2>4. /\ new \in Seq(all) /\ Len(new) = Len(kept) + 1
          /\ \A i \in 1..Len(kept) : new[i] = kept[i]
          /\ new[Len(kept) + 1] = list[x]
      <3> HIDE DEF all, x
      <3> QED
        BY <1>2, <1>3, <1>4
    <2> HIDE DEF x, new
    <2>5. ASSUME NEW i \in 1..x PROVE \E k \in 1..Len(new) : new[k] = list[i]
      <3>1. CASE i = x
        <4>1. Len(kept) + 1 \in 1..Len(new)
          BY <1>3, <2>4
        <4> QED
          BY <2>4, <3>1, <4>1
      <3>2. CASE i \in 1..n
        <4>1. PICK k \in 1..Len(kept) : kept[k] = list[i]
          BY <1>3, <3>2
        <4>2. k \in 1..Len(new)
          BY <1>3, <2>4
        <4> QED
          BY <2>4, <4>1, <4>2
      <3> QED
        BY <1>1, <3>1, <3>2
    <2>6. ASSUME NEW i \in 1..Len(new), NEW j \in 1..Len(new), i < j
          PROVE  First(list, new[i]) < First(list, new[j])
      <3>1. i \in 1..Len(kept)
        BY <1>3, <2>4, <2>6
      <3>2. CASE j \in 1..Len(kept)
        BY <1>3, <2>4, <2>6, <3>1, <3>2
      <3>3. CASE j = Len(kept) + 1
        BY <2>2, <2>3, <2>4, <3>1, <3>3
      <3> QED
        BY <1>3, <2>4, <3>2, <3>3
    <2>7. Step(list, x, kept) = new
      BY <1>7 DEF Step, new
    <2>8. Normalized(new, list, x)
      BY <2>4, <2>5, <2>6 DEF Normalized
    <2> QED
      BY <2>7, <2>8 DEF x
  <1> QED
    BY <1>6, <1>7

LEMMA UniqueIs ==
    ASSUME NEW S, NEW list \in Seq(S)
    PROVE  Normalized(Unique(list), list, Len(list))
  <1> DEFINE size == Len(list)
  <1>1. size \in Nat /\ DOMAIN list = 1..size
    BY LenProperties
  <1>2. PICK f : Folds(f, list, size) /\ Unique(list) = f[1..size]
    BY <1>1, UniqueFolds
  <1>3. f[1..0] = <<>>
    <2>1. 1..0 = {} /\ {} \in SUBSET (1..size)
      OBVIOUS
    <2> QED
      BY <1>2, <2>1 DEF Folds
  <1>4. ASSUME NEW n \in Nat, n + 1 \in 1..size PROVE f[1..(n + 1)] = Step(list, n + 1, f[1..n])
    <2> DEFINE x == n + 1
               s == 1..x
    <2>1. s \in SUBSET (1..size) /\ s # {} /\ x \in s /\ s \ {x} = 1..n /\ x \in Nat
      BY <1>1, <1>4
    <2>2. Max(s) = x
      <3>1. Max(s) \in s /\ \A y \in s : Max(s) >= y
        <4> HIDE DEF x
        <4> QED
          BY <2>1, GreatestNumber
      <3>2. Max(s) \in 1..x /\ Max(s) >= x
        BY <2>1, <3>1
      <3> QED
        BY <3>2
    <2> HIDE DEF s
    <2>3. f[s] = Step(list, Max(s), f[s \ {Max(s)}])
      BY <1>2, <2>1 DEF Folds
    <2> QED
      BY <2>1, <2>2, <2>3 DEF s
  <1> DEFINE T == {n \in Nat : n <= size => Normalized(f[1..n], list, n)}
  <1>5. 0 \in T
    <2>1. Normalized(<<>>, list, 0)
      BY DEF Normalized
    <2> QED
      BY <1>3, <2>1
  <1>6. ASSUME NEW n \in Nat, n \in T PROVE n + 1 \in T
    <2> DEFINE x == n + 1
    <2>1. x \in Nat
      OBVIOUS
    <2>2. ASSUME x <= size PROVE Normalized(f[1..x], list, x)
      <3>1. n <= size /\ x \in 1..size
        BY <1>1, <2>2
      <3>2. Normalized(f[1..n], list, n)
        BY <1>6, <3>1
      <3>3. Normalized(Step(list, x, f[1..n]), list, x)
        BY <3>1, <3>2, StepNormalizes
      <3> QED
        BY <1>4, <3>1, <3>3
    <2> HIDE DEF x
    <2>3. x \in T
      BY <2>1, <2>2
    <2> QED
      BY <2>3 DEF x
  <1>7. size \in T
    <2> HIDE DEF T
    <2> QED
      BY <1>1, <1>5, <1>6, EveryNumber
  <1> QED
    BY <1>1, <1>2, <1>7

----------------------------------------------------------------------------
\* The process.  Before main nothing is bound, and a running process has the path
\* that check made of the options.

NumberedEndpoints == DOMAIN endpoints = 1..Len(endpoints) /\ Len(endpoints) \in 0..MaxEndpoints

Untouched ==
    /\ http = "none"
    /\ \A i \in DOMAIN endpoints : socket[i] = "none"
    /\ \A a \in Addresses : holder[a] \in {Free, OtherProgram}
    /\ failed = {}

Checked == parsersPath = NormalizedPath /\ ToSet(Searched) \subseteq accessible

StartupInv ==
    /\ TypeOK
    /\ NumberedEndpoints
    /\ process = "starting" => Untouched
    /\ process = "running" => Checked
    /\ EndpointsApart

LEMMA SearchedType ==
    ASSUME givenPath \in Seq(Names)
    PROVE  /\ Searched \in Seq(Directories)
           /\ Len(Searched) = Len(givenPath) + 1
           /\ Searched[Len(givenPath) + 1] = Resolve[DefaultName]
           /\ \A i \in 1..Len(givenPath) : Searched[i] = Resolve[givenPath[i]]
  <1> DEFINE size == Len(givenPath) + 1
             path == Append(givenPath, DefaultName)
  <1>1. /\ path \in Seq(Names) /\ Len(path) = size /\ size \in Nat \ {0}
        /\ path[size] = DefaultName
        /\ \A i \in 1..Len(givenPath) : path[i] = givenPath[i]
    BY DefaultNameAssumption
  <1>2. Searched = [i \in 1..size |-> Resolve[path[i]]]
    BY DEF Searched
  <1> HIDE DEF path
  <1>3. \A i \in 1..size : Resolve[path[i]] \in Directories
    <2>1. \A i \in 1..size : path[i] \in Names
      BY <1>1, ElementOfSeq
    <2> QED
      BY <2>1 DEF Directories
  <1>4. \A i \in 1..Len(givenPath) : i \in 1..size
    BY <1>1
  <1> QED
    BY <1>1, <1>2, <1>3, <1>4

LEMMA NormalizedType ==
    ASSUME givenPath \in Seq(Names)
    PROVE  NormalizedPath \in Seq(Directories)
  <1>1. Searched \in Seq(Directories)
    BY SearchedType
  <1>2. NormalizedPath \in Seq({Searched[i] : i \in 1..Len(Searched)})
    BY <1>1, UniqueIs DEF NormalizedPath, Normalized
  <1>3. {Searched[i] : i \in 1..Len(Searched)} \subseteq Directories
    BY <1>1, ElementOfSeq
  <1> QED
    BY <1>2, <1>3, SeqMonotonic

LEMMA StartupStart ==
    Init => StartupInv
  <1> SUFFICES ASSUME Init PROVE StartupInv
    OBVIOUS
  <1> USE BoundsAssumption
  <1>1. givenPath \in Seq(Names)
    BY DEF Init, BoundedSeq, SeqOf
  <1>2. endpoints \in Seq(Endpoints) /\ NumberedEndpoints
    BY DEF Init, BoundedSeq, SeqOf, NumberedEndpoints
  <1>3. holder \in [Addresses -> {Free, OtherProgram}] /\ {Free, OtherProgram} \subseteq 0..OtherProgram
    BY DEF Init, Free, OtherProgram
  <1>4. holder \in [Addresses -> 0..OtherProgram]
    BY <1>3
  <1>5. /\ process = "starting" /\ parsersPath = <<>> /\ http = "none" /\ failed = {}
        /\ socket = [i \in DOMAIN endpoints |-> "none"]
        /\ validArgs \in BOOLEAN /\ accessible \in SUBSET Directories /\ httpTaken \in BOOLEAN
    BY DEF Init
  <1>6. TypeOK
    BY <1>1, <1>2, <1>4, <1>5 DEF TypeOK
  <1>7. Untouched
    BY <1>3, <1>5 DEF Untouched
  <1> QED
    BY <1>2, <1>5, <1>6, <1>7 DEF StartupInv, EndpointsApart

\* The exit leaves only the addresses of other programs taken.
LEMMA ProcessGone ==
    ASSUME StartupInv, ProcessExits, UNCHANGED <<input, parsersPath, httpTaken, failed>>
    PROVE  StartupInv'
  <1> USE BoundsAssumption
  <1>1. /\ process' = "gone" /\ http' = "none"
        /\ socket' = [i \in DOMAIN endpoints |-> "none"]
        /\ holder' = [a \in Addresses |-> IF holder[a] = OtherProgram THEN OtherProgram ELSE Free]
        /\ UNCHANGED <<validArgs, givenPath, accessible, endpoints, parsersPath, httpTaken, failed>>
    BY DEF ProcessExits, input
  <1>2. holder' \in [Addresses -> 0..OtherProgram]
    BY <1>1 DEF Free, OtherProgram
  <1>3. TypeOK'
    BY <1>1, <1>2 DEF TypeOK, StartupInv
  <1> QED
    BY <1>1, <1>3 DEF StartupInv, NumberedEndpoints, EndpointsApart

LEMMA Started ==
    ASSUME StartupInv, Main
    PROVE  StartupInv'
  <1>1. CASE validArgs /\ ToSet(Searched) \subseteq accessible
    <2>1. /\ process = "starting" /\ process' = "running" /\ parsersPath' = NormalizedPath
          /\ http' = "binding"
          /\ socket' = [i \in DOMAIN endpoints |->
                           IF endpoints[i].parser = NoParser THEN "none" ELSE "binding"]
          /\ UNCHANGED <<validArgs, givenPath, accessible, endpoints, holder, httpTaken, failed>>
      BY <1>1 DEF Main, input
    <2>2. Untouched /\ NumberedEndpoints /\ TypeOK
      BY <2>1 DEF StartupInv
    <2>3. parsersPath' \in Seq(Directories)
      BY <2>1, <2>2, NormalizedType DEF TypeOK
    <2>4. TypeOK'
      BY <2>1, <2>2, <2>3 DEF TypeOK
    <2>5. Checked'
      BY <1>1, <2>1 DEF Checked, NormalizedPath, Searched
    <2>6. EndpointsApart'
      <3> SUFFICES ASSUME NEW i \in DOMAIN endpoints
                   PROVE  /\ (socket'[i] = "closed") <=> (i \in failed')
                          /\ (socket'[i] = "bound") <=> (holder'[endpoints[i].address] = i)
                          /\ (socket'[i] = "none") <=> (endpoints[i].parser = NoParser)
        BY <2>1 DEF EndpointsApart
      <3>1. endpoints[i] \in Endpoints /\ i \in 1..MaxEndpoints
        BY <2>2, BoundsAssumption, ElementOfSeq DEF TypeOK, NumberedEndpoints
      <3>2. holder[endpoints[i].address] \in {Free, OtherProgram}
        BY <2>2, <3>1 DEF Untouched, Endpoints
      <3>3. i # Free /\ i # OtherProgram
        BY <3>1, BoundsAssumption DEF Free, OtherProgram
      <3> QED
        BY <2>1, <2>2, <3>2, <3>3 DEF Untouched
    <2> QED
      BY <2>1, <2>2, <2>4, <2>5, <2>6 DEF StartupInv, NumberedEndpoints
  <1>2. CASE ~(validArgs /\ ToSet(Searched) \subseteq accessible)
    <2>1. ProcessExits /\ UNCHANGED <<input, parsersPath, httpTaken, failed>>
      BY <1>2 DEF Main
    <2> QED
      BY <2>1, ProcessGone
  <1> QED
    BY <1>1, <1>2

\* What steps of the servers and of other programs do to the endpoints.
LEMMA EndpointFacts ==
    ASSUME StartupInv, NEW i \in DOMAIN endpoints
    PROVE  /\ endpoints[i].address \in Addresses
           /\ i \in Nat /\ i \in 0..OtherProgram
           /\ i # Free /\ i # OtherProgram
           /\ socket[i] \in {"none", "binding", "bound", "closed"}
           /\ process = "starting" => socket[i] = "none"
           /\ process = "running" =>
                 /\ (socket[i] = "closed") <=> (i \in failed)
                 /\ (socket[i] = "bound") <=> (holder[endpoints[i].address] = i)
                 /\ (socket[i] = "none") <=> (endpoints[i].parser = NoParser)
  <1>1. i \in 1..MaxEndpoints
    BY BoundsAssumption DEF StartupInv, NumberedEndpoints
  <1>2. endpoints[i] \in Endpoints
    BY ElementOfSeq DEF StartupInv, TypeOK, NumberedEndpoints
  <1>3. i \in Nat /\ i \in 0..OtherProgram /\ i # Free /\ i # OtherProgram
    BY <1>1, BoundsAssumption DEF Free, OtherProgram
  <1> QED
    BY <1>2, <1>3 DEF Endpoints, StartupInv, TypeOK, EndpointsApart, Untouched

LEMMA Listening ==
    ASSUME StartupInv, NEW i \in DOMAIN endpoints, UdpListening(i)
    PROVE  StartupInv'
  <1>1. /\ socket[i] = "binding" /\ holder[endpoints[i].address] = Free
        /\ socket' = [socket EXCEPT ![i] = "bound"]
        /\ holder' = [holder EXCEPT ![endpoints[i].address] = i]
        /\ UNCHANGED <<validArgs, givenPath, accessible, endpoints, process, parsersPath,
                       http, httpTaken, failed>>
    BY DEF UdpListening, input
  <1>2. TypeOK /\ NumberedEndpoints /\ process # "starting"
    BY <1>1, EndpointFacts DEF StartupInv
  <1>3. TypeOK'
    BY <1>1, <1>2, EndpointFacts DEF TypeOK
  <1>4. EndpointsApart'
    <2> SUFFICES ASSUME process = "running", NEW k \in DOMAIN endpoints
                 PROVE  /\ (socket'[k] = "closed") <=> (k \in failed)
                        /\ (socket'[k] = "bound") <=> (holder'[endpoints[k].address] = k)
                        /\ (socket'[k] = "none") <=> (endpoints[k].parser = NoParser)
      BY <1>1 DEF EndpointsApart
    <2>1. /\ socket'[i] = "bound"
          /\ k # i => socket'[k] = socket[k]
          /\ holder'[endpoints[i].address] = i
          /\ endpoints[k].address # endpoints[i].address =>
                holder'[endpoints[k].address] = holder[endpoints[k].address]
      BY <1>1, <1>2, EndpointFacts DEF TypeOK
    <2>2. /\ (socket[k] = "closed") <=> (k \in failed)
          /\ (socket[k] = "bound") <=> (holder[endpoints[k].address] = k)
          /\ (socket[k] = "none") <=> (endpoints[k].parser = NoParser)
          /\ k # Free /\ i # Free
      BY EndpointFacts
    <2>3. (socket[i] = "closed" <=> i \in failed) /\ (socket[i] = "none" <=> endpoints[i].parser = NoParser)
      BY EndpointFacts
    <2>4. CASE k = i
      <3>1. (socket'[i] = "closed") <=> (i \in failed)
        BY <1>1, <2>1, <2>3
      <3>2. (socket'[i] = "bound") <=> (holder'[endpoints[i].address] = i)
        BY <2>1
      <3>3. (socket'[i] = "none") <=> (endpoints[i].parser = NoParser)
        BY <1>1, <2>1, <2>3
      <3> QED
        BY <2>4, <3>1, <3>2, <3>3
    <2>5. CASE k # i
      BY <1>1, <2>1, <2>2, <2>5
    <2> QED
      BY <2>4, <2>5
  <1> QED
    BY <1>1, <1>2, <1>3, <1>4 DEF StartupInv, NumberedEndpoints, Checked, NormalizedPath, Searched

LEMMA SocketFailed ==
    ASSUME StartupInv, NEW i \in DOMAIN endpoints, UdpError(i)
    PROVE  StartupInv'
  <1>1. /\ socket[i] \in {"binding", "bound"} /\ failed' = failed \cup {i}
        /\ socket' = [socket EXCEPT ![i] = "closed"]
        /\ holder' = [a \in Addresses |-> IF holder[a] = i THEN Free ELSE holder[a]]
        /\ UNCHANGED <<validArgs, givenPath, accessible, endpoints, process, parsersPath,
                       http, httpTaken>>
    BY DEF UdpError, Close, input
  <1>2. TypeOK /\ NumberedEndpoints /\ process # "starting"
    BY <1>1, EndpointFacts DEF StartupInv
  <1>3. holder' \in [Addresses -> 0..OtherProgram]
    BY <1>1, <1>2, BoundsAssumption DEF TypeOK, Free, OtherProgram
  <1>4. TypeOK'
    BY <1>1, <1>2, <1>3 DEF TypeOK
  <1>5. EndpointsApart'
    <2> SUFFICES ASSUME process = "running", NEW k \in DOMAIN endpoints
                 PROVE  /\ (socket'[k] = "closed") <=> (k \in failed')
                        /\ (socket'[k] = "bound") <=> (holder'[endpoints[k].address] = k)
                        /\ (socket'[k] = "none") <=> (endpoints[k].parser = NoParser)
      BY <1>1 DEF EndpointsApart
    <2>1. /\ socket'[i] = "closed"
          /\ k # i => socket'[k] = socket[k]
          /\ holder'[endpoints[k].address] =
                IF holder[endpoints[k].address] = i THEN Free ELSE holder[endpoints[k].address]
      BY <1>1, <1>2, EndpointFacts DEF TypeOK
    <2>2. /\ (socket[k] = "closed") <=> (k \in failed)
          /\ (socket[k] = "bound") <=> (holder[endpoints[k].address] = k)
          /\ (socket[k] = "none") <=> (endpoints[k].parser = NoParser)
          /\ k # Free /\ i # Free
      BY EndpointFacts
    <2>3. (socket[i] = "closed" <=> i \in failed) /\ (socket[i] = "none" <=> endpoints[i].parser = NoParser)
      BY EndpointFacts
    <2>4. CASE k = i
      <3>1. (socket'[i] = "closed") <=> (i \in failed')
        BY <1>1, <2>1
      <3>2. (socket'[i] = "bound") <=> (holder'[endpoints[i].address] = i)
        BY <2>1, <2>2, <2>4
      <3>3. (socket'[i] = "none") <=> (endpoints[i].parser = NoParser)
        BY <1>1, <2>1, <2>3
      <3> QED
        BY <2>4, <3>1, <3>2, <3>3
    <2>5. CASE k # i
      BY <1>1, <2>1, <2>2, <2>5
    <2> QED
      BY <2>4, <2>5
  <1> QED
    BY <1>1, <1>2, <1>4, <1>5 DEF StartupInv, NumberedEndpoints, Checked, NormalizedPath, Searched

LEMMA AddressTaken ==
    ASSUME StartupInv, NEW a \in Addresses, OtherProgramUdp(a)
    PROVE  StartupInv'
  <1>1. /\ holder[a] \in {Free, OtherProgram}
        /\ holder' = [holder EXCEPT ![a] = IF @ = Free THEN OtherProgram ELSE Free]
        /\ UNCHANGED <<validArgs, givenPath, accessible, endpoints, process, parsersPath,
                       http, httpTaken, socket, failed>>
    BY DEF OtherProgramUdp, input
  <1>2. TypeOK /\ NumberedEndpoints
    BY DEF StartupInv
  <1>3. /\ holder'[a] \in {Free, OtherProgram}
        /\ \A b \in Addresses : b # a => holder'[b] = holder[b]
        /\ holder' \in [Addresses -> 0..OtherProgram]
    BY <1>1, <1>2, BoundsAssumption DEF TypeOK, Free, OtherProgram
  <1>4. TypeOK'
    BY <1>1, <1>2, <1>3 DEF TypeOK
  <1>5. process = "starting" => Untouched'
    BY <1>1, <1>3 DEF StartupInv, Untouched
  <1>6. EndpointsApart'
    <2> SUFFICES ASSUME process = "running", NEW k \in DOMAIN endpoints
                 PROVE  /\ (socket[k] = "closed") <=> (k \in failed)
                        /\ (socket[k] = "bound") <=> (holder'[endpoints[k].address] = k)
                        /\ (socket[k] = "none") <=> (endpoints[k].parser = NoParser)
      BY <1>1 DEF EndpointsApart
    <2> QED
      BY <1>1, <1>3, EndpointFacts
  <1> QED
    BY <1>1, <1>2, <1>4, <1>5, <1>6
       DEF StartupInv, NumberedEndpoints, Checked, NormalizedPath, Searched

LEMMA ServerStep ==
    ASSUME StartupInv, HttpListening \/ OtherProgramHttp \/ UNCHANGED vars
    PROVE  StartupInv'
  <1>1. /\ UNCHANGED <<validArgs, givenPath, accessible, endpoints, process, parsersPath,
                       socket, holder, failed>>
        /\ http' \in {"none", "binding", "bound"} /\ httpTaken' \in BOOLEAN
        /\ process = "starting" => http' = http
    BY DEF HttpListening, OtherProgramHttp, vars, input, StartupInv, TypeOK, Untouched
  <1> QED
    BY <1>1 DEF StartupInv, TypeOK, NumberedEndpoints, Untouched, Checked, NormalizedPath,
                Searched, EndpointsApart

\* Nothing is bound before the options are checked, and a process that runs has the
\* directories that check left it, and its endpoints apart (config.js:119-136,
\* adapter.js:233-279).
THEOREM StartupAccount == Spec => []StartupInv
  <1>1. StartupInv /\ [Next]_vars => StartupInv'
    <2> SUFFICES ASSUME StartupInv, [Next]_vars PROVE StartupInv'
      OBVIOUS
    <2>1. CASE Main
      BY <2>1, Started
    <2>2. CASE HttpListening \/ OtherProgramHttp \/ UNCHANGED vars
      BY <2>2, ServerStep
    <2>3. CASE HttpError
      BY <2>3, ProcessGone DEF HttpError
    <2>4. CASE Exit
      BY <2>4, ProcessGone DEF Exit
    <2>5. ASSUME NEW i \in DOMAIN endpoints, UdpListening(i) PROVE StartupInv'
      BY <2>5, Listening
    <2>6. ASSUME NEW i \in DOMAIN endpoints, UdpError(i) PROVE StartupInv'
      BY <2>6, SocketFailed
    <2>7. ASSUME NEW a \in Addresses, OtherProgramUdp(a) PROVE StartupInv'
      BY <2>7, AddressTaken
    <2> QED
      BY <2>1, <2>2, <2>3, <2>4, <2>5, <2>6, <2>7 DEF Next
  <1> QED
    BY <1>1, StartupStart, PTL DEF Spec

\* Types of the options, the servers and the addresses.
THEOREM StartupTypes == Spec => []TypeOK
  <1>1. StartupInv => TypeOK
    BY DEF StartupInv
  <1> QED
    BY <1>1, StartupAccount, PTL

\* An endpoint whose socket fails takes no other with it (adapter.js:257-279), and an
\* address is held by the socket bound to it.
THEOREM EndpointsSeparate == Spec => []EndpointsApart
  <1>1. StartupInv => EndpointsApart
    BY DEF StartupInv
  <1> QED
    BY <1>1, StartupAccount, PTL

\* The list of directories of a process that runs can be read, has every directory
\* given and the default one, each once and in the order given (config.js:119-136).
THEOREM PathIsNormalized == Spec => []PathNormalized
  <1>1. ASSUME StartupInv PROVE PathNormalized
    <2> SUFFICES ASSUME process = "running" PROVE PathNormalized
      BY DEF PathNormalized
    <2> DEFINE size == Len(Searched)
    <2>1. /\ parsersPath = Unique(Searched) /\ ToSet(Searched) \subseteq accessible
          /\ givenPath \in Seq(Names)
      BY <1>1 DEF StartupInv, Checked, NormalizedPath, TypeOK
    <2>2. /\ Searched \in Seq(Directories) /\ size = Len(givenPath) + 1
          /\ Len(givenPath) \in Nat /\ DOMAIN givenPath = 1..Len(givenPath)
          /\ DOMAIN Searched = 1..size
          /\ Searched[size] = Resolve[DefaultName]
          /\ \A i \in DOMAIN givenPath : Searched[i] = Resolve[givenPath[i]]
      BY <2>1, SearchedType, LenProperties
    <2>3. Normalized(parsersPath, Searched, size)
      BY <2>1, <2>2, UniqueIs
    <2> HIDE DEF size
    <2>4. /\ parsersPath \in Seq({Searched[i] : i \in 1..size})
          /\ \A i \in 1..size : \E k \in 1..Len(parsersPath) : parsersPath[k] = Searched[i]
          /\ \A i, j \in 1..Len(parsersPath) :
                i < j => First(Searched, parsersPath[i]) < First(Searched, parsersPath[j])
      BY <2>3 DEF Normalized
    <2>5. DOMAIN parsersPath = 1..Len(parsersPath)
      BY <2>4, LenProperties
    <2>6. \A i \in 1..size : Searched[i] \in ToSet(parsersPath)
      BY <2>4, <2>5 DEF ToSet
    <2>7. Resolve[DefaultName] \in ToSet(parsersPath)
      <3>1. size \in 1..size
        BY <2>2
      <3> QED
        BY <2>2, <2>6, <3>1
    <2>8. {Resolve[givenPath[i]] : i \in DOMAIN givenPath} \subseteq ToSet(parsersPath)
      <3>1. \A i \in DOMAIN givenPath : i \in 1..size
        BY <2>2
      <3> QED
        BY <2>2, <2>6, <3>1
    <2>9. ToSet(parsersPath) \subseteq accessible
      <3>1. \A k \in 1..Len(parsersPath) : parsersPath[k] \in {Searched[i] : i \in 1..size}
        BY <2>4, ElementOfSeq
      <3>2. {Searched[i] : i \in 1..size} \subseteq ToSet(Searched)
        BY <2>2 DEF ToSet
      <3> QED
        BY <2>1, <2>5, <3>1, <3>2 DEF ToSet
    <2> QED
      BY <2>4, <2>5, <2>7, <2>8, <2>9 DEF PathNormalized, First
  <1> QED
    BY <1>1, StartupAccount, PTL
=============================================================================
