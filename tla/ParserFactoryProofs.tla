------------------------- MODULE ParserFactoryProofs -------------------------
(***************************************************************************)
(* Proofs about ParserFactory, for any names, inherited or not, and any    *)
(* number of directories, whatever happens to the files.                   *)
(***************************************************************************)
EXTENDS ParserFactory, WellFoundedInduction, TLAPS

----------------------------------------------------------------------------
\* The search.

\* Any set of numbers that is not empty has a least one.
LEMMA LeastNumber ==
    ASSUME NEW S \in SUBSET Nat, S # {}
    PROVE  Min(S) \in S /\ \A y \in S : Min(S) <= y
  <1>1. PICK x \in S : \A y \in S : <<y, x>> \notin OpToRel(<, Nat)
    BY NatLessThanWellFounded, WFMin
  <1>2. \A y \in Nat : y < x => <<y, x>> \in OpToRel(<, Nat)
    BY DEF OpToRel
  <1>3. \A y \in S : ~(y < x)
    BY <1>1, <1>2
  <1>4. \A y \in S : x <= y
    BY <1>3
  <1> QED
    BY <1>4 DEF Min

\* It ends in the first directory with a usable module, if there is one.
LEMMA ChosenDirectory ==
    ASSUME NEW n \in Names
    PROVE  /\ Chosen(n) \in 0..Dirs
           /\ Chosen(n) = 0 => \A d \in Path : Require(d, n) # "valid"
           /\ Chosen(n) # 0 => /\ Chosen(n) \in Path
                               /\ Require(Chosen(n), n) = "valid"
                               /\ \A d \in 1..(Chosen(n) - 1) : Require(d, n) # "valid"
  <1> USE DirsAssumption
  <1> DEFINE valid == {d \in Path : Require(d, n) = "valid"}
  <1>1. CASE valid = {}
    <2>1. Chosen(n) = 0
      BY <1>1 DEF Chosen
    <2> QED
      BY <1>1, <2>1
  <1>2. CASE valid # {}
    <2>1. valid \in SUBSET Nat
      BY DEF Path
    <2>2. Min(valid) \in valid /\ \A d \in valid : Min(valid) <= d
      BY <1>2, <2>1, LeastNumber
    <2>3. Chosen(n) = Min(valid)
      BY <1>2 DEF Chosen
    <2>4. Chosen(n) \in Path /\ Require(Chosen(n), n) = "valid"
      BY <2>2, <2>3
    <2>5. ASSUME NEW d \in 1..(Chosen(n) - 1) PROVE Require(d, n) # "valid"
      <3>1. d \in Path /\ d < Chosen(n)
        BY <2>4, <2>5 DEF Path
      <3>2. d \notin valid
        BY <2>1, <2>2, <2>3, <3>1 DEF Path
      <3> QED
        BY <3>1, <3>2
    <2> QED
      BY <2>4, <2>5 DEF Path
  <1> QED
    BY <1>1, <1>2

\* A module is not usable for what is in the file, or for what Node keeps of it.
LEMMA NotUsable ==
    ASSUME TypeOK, NEW d \in Path, NEW n \in Names, Require(d, n) # "valid"
    PROVE  file[d][n] # "valid" \/ module[d][n] = "noParser"
  BY DEF TypeOK, Require

\* A lookup is the only step that answers.
LEMMA Lookup ==
    ASSUME TypeOK, [Next]_vars, NEW n \in Names, Asked(n)
    PROVE  /\ GetParserByName(n)
           /\ \E from \in {CacheLookup(n), Chosen(n)} :
                 /\ Answer(n, from)
                 /\ from = 0 => from = Chosen(n)
  <1>1. PICK m \in Names : GetParserByName(m)
    BY DEF Next, vars, ChangeFile, Restart, Asked
  <1>2. PICK from \in {CacheLookup(m), Chosen(m)} :
           Answer(m, from) /\ (from = 0 => from = Chosen(m))
    BY <1>1 DEF GetParserByName
  <1>3. m = n
    BY <1>2 DEF Answer, Asked
  <1> QED
    BY <1>1, <1>2, <1>3

----------------------------------------------------------------------------
\* Every state reached has the types declared: Node keeps nothing of a module that
\* throws, and the cache holds directories of the path only.
THEOREM FactoryTypes == Spec => []TypeOK
  <1> USE DirsAssumption, InheritedAssumption
  <1>1. Init => TypeOK
    BY DEF Init, TypeOK, Kinds
  <1>2. TypeOK /\ [Next]_vars => TypeOK'
    <2> SUFFICES ASSUME TypeOK, [Next]_vars PROVE TypeOK'
      OBVIOUS
    <2>1. ASSUME NEW n \in Names, GetParserByName(n) PROVE TypeOK'
      <3>1. ASSUME NEW from \in 0..Prototype, Answer(n, from)
            PROVE answer' \in [name : Names, from : 0..Prototype, turn : {0, 1},
                               code : {"none", "INVALID", "MODULE_NOT_FOUND"}]
        <4>1. 1 - answer.turn \in {0, 1}
          BY DEF TypeOK, NoAnswer
        <4>2. (IF from = 0 THEN ErrorCode(n) ELSE "none")
                 \in {"none", "INVALID", "MODULE_NOT_FOUND"}
          BY DEF ErrorCode
        <4> QED
          BY <3>1, <4>1, <4>2 DEF Answer
      <3>2. CASE CacheLookup(n) # 0
        <4>1. CacheLookup(n) \in 0..Prototype
          BY DEF CacheLookup, TypeOK, Prototype
        <4> QED
          BY <2>1, <3>1, <3>2, <4>1 DEF GetParserByName, TypeOK
      <3>3. CASE CacheLookup(n) = 0
        <4>1. Chosen(n) \in 0..Dirs /\ Chosen(n) \in 0..Prototype
          BY ChosenDirectory DEF Prototype
        <4>2. \A d \in Path : Remembered(d, n) \in {"none", "noParser", "valid"}
          BY DEF Remembered
        <4>3. module' \in [Path -> [Names -> {"none", "noParser", "valid"}]]
          BY <2>1, <3>3, <4>2 DEF GetParserByName, TypeOK
        <4> QED
          BY <2>1, <3>1, <3>3, <4>1, <4>3 DEF GetParserByName, TypeOK
      <3> QED
        BY <3>2, <3>3
    <2>2. ASSUME NEW d \in Path, NEW n \in Names, ChangeFile(d, n) PROVE TypeOK'
      BY <2>2 DEF ChangeFile, TypeOK
    <2>3. CASE Restart
      BY <2>3 DEF Restart, TypeOK
    <2>4. CASE UNCHANGED vars
      BY <2>4 DEF vars, TypeOK
    <2> QED
      BY <2>1, <2>2, <2>3, <2>4 DEF Next
  <1> QED
    BY <1>1, <1>2, PTL DEF Spec

\* Refusals are not cached: a probe is refused only if no directory has a parser for
\* it now, or Node keeps a module without one (factory.js:51-74).
THEOREM RefusalsCurrent == Spec => RefusalIsCurrent
  <1>1. TypeOK /\ [Next]_vars
          => [\A n \in Names :
                 Asked(n) /\ answer'.from = 0
                    => \A d \in Path : file[d][n] = "valid" => module[d][n] = "noParser"]_vars
    <2> SUFFICES ASSUME TypeOK, [Next]_vars, NEW n \in Names, Asked(n), answer'.from = 0,
                        NEW d \in Path, file[d][n] = "valid"
                 PROVE  module[d][n] = "noParser"
      OBVIOUS
    <2>1. Chosen(n) = 0
      BY Lookup DEF Answer
    <2> QED
      BY <2>1, ChosenDirectory, NotUsable
  <1> QED
    BY <1>1, FactoryTypes, PTL DEF Spec, RefusalIsCurrent

\* A parser comes from the first directory that has one, for any number of them.
THEOREM FirstDirectory == Spec => FirstDirectoryWins
  <1>1. TypeOK /\ [Next]_vars
          => [\A n \in Names :
                 cache'[n] # cache[n] /\ cache'[n] # 0
                    => \A d \in 1..(cache'[n] - 1) :
                          file[d][n] # "valid" \/ module[d][n] = "noParser"]_vars
    <2> SUFFICES ASSUME TypeOK, [Next]_vars, NEW n \in Names,
                        cache'[n] # cache[n], cache'[n] # 0,
                        NEW d \in 1..(cache'[n] - 1)
                 PROVE  file[d][n] # "valid" \/ module[d][n] = "noParser"
      OBVIOUS
    <2>1. PICK m \in Names : GetParserByName(m)
      BY DEF Next, vars, ChangeFile, Restart
    <2>2. cache' = [cache EXCEPT ![m] = Chosen(m)]
      BY <2>1 DEF GetParserByName
    <2>3. cache'[n] = Chosen(n)
      BY <2>2 DEF TypeOK
    <2>4. d \in Path /\ Require(d, n) # "valid"
      BY <2>3, ChosenDirectory, DirsAssumption DEF Path
    <2> QED
      BY <2>4, NotUsable
  <1> QED
    BY <1>1, FactoryTypes, PTL DEF Spec, FirstDirectoryWins

\* A parser once found serves its probe until the process ends.
THEOREM ParserStable == Spec => ParserIsStable
  <1>1. TypeOK /\ [Next]_vars
          => [\A n \in Names :
                 cache[n] # 0 => \/ cache'[n] = cache[n]
                                 \/ \A m \in Names : cache'[m] = 0]_vars
    <2> SUFFICES ASSUME TypeOK, [Next]_vars, NEW n \in Names, cache[n] # 0,
                        ~ \A m \in Names : cache'[m] = 0
                 PROVE  cache'[n] = cache[n]
      OBVIOUS
    <2>1. ASSUME NEW m \in Names, GetParserByName(m) PROVE cache'[n] = cache[n]
      BY <2>1 DEF GetParserByName, CacheLookup, TypeOK
    <2> QED
      BY <2>1 DEF Next, vars, ChangeFile, Restart
  <1> QED
    BY <1>1, FactoryTypes, PTL DEF Spec, ParserIsStable

\* A module that throws is reported as invalid, although others are just missing.
THEOREM InvalidReported == Spec => InvalidIsReported
  <1>1. TypeOK /\ [Next]_vars
          => [\A n \in Names :
                 /\ Asked(n) /\ answer'.from = 0
                 /\ \E d \in Path : file[d][n] = "throws" /\ module[d][n] = "none"
                 => answer'.code = "INVALID"]_vars
    <2> SUFFICES ASSUME TypeOK, [Next]_vars, NEW n \in Names, Asked(n), answer'.from = 0,
                        NEW d \in Path, file[d][n] = "throws", module[d][n] = "none"
                 PROVE  answer'.code = "INVALID"
      OBVIOUS
    <2>1. Require(d, n) = "throws"
      BY DEF Require
    <2>2. ErrorCode(n) = "INVALID"
      BY <2>1 DEF ErrorCode
    <2> QED
      BY <2>2, Lookup DEF Answer
  <1> QED
    BY <1>1, FactoryTypes, PTL DEF Spec, InvalidIsReported

\* Inherited names are all that is wrong with the cache: a lookup of any other name
\* that returns something returns a parser of the path (factory.js:40, 51).
THEOREM OthersRefused == Spec => [](answer.name \notin Inherited => UnknownIsRefused)
  <1> DEFINE Inv == answer.name \notin Inherited => UnknownIsRefused
  <1>1. Init => Inv
    BY DEF Init, NoAnswer, UnknownIsRefused
  <1>2. TypeOK /\ Inv /\ [Next]_vars => Inv'
    <2> SUFFICES ASSUME TypeOK, Inv, [Next]_vars, answer'.name \notin Inherited
                 PROVE  UnknownIsRefused'
      OBVIOUS
    <2>1. ASSUME NEW n \in Names, GetParserByName(n) PROVE UnknownIsRefused'
      <3>1. answer'.name = n
        BY <2>1 DEF GetParserByName, Answer
      <3>2. CASE CacheLookup(n) # 0
        <4>1. CacheLookup(n) = cache[n]
          BY <3>1, <3>2 DEF CacheLookup
        <4>2. answer'.from = cache[n] /\ cache' = cache
          BY <2>1, <3>2, <4>1 DEF GetParserByName, Answer
        <4> QED
          BY <3>1, <4>2 DEF UnknownIsRefused
      <3>3. CASE CacheLookup(n) = 0
        <4>1. answer'.from = Chosen(n) /\ cache'[n] = Chosen(n)
          BY <2>1, <3>3 DEF GetParserByName, Answer, TypeOK
        <4> QED
          BY <3>1, <4>1 DEF UnknownIsRefused
      <3> QED
        BY <3>2, <3>3
    <2>2. ASSUME NEW d \in Path, NEW n \in Names, ChangeFile(d, n)
          PROVE UnknownIsRefused'
      BY <2>2 DEF ChangeFile, UnknownIsRefused
    <2>3. CASE Restart
      BY <2>3 DEF Restart, NoAnswer, UnknownIsRefused
    <2>4. CASE UNCHANGED vars
      BY <2>4 DEF vars, UnknownIsRefused
    <2> QED
      BY <2>1, <2>2, <2>3, <2>4 DEF Next
  <1> QED
    BY <1>1, <1>2, FactoryTypes, PTL DEF Spec
=============================================================================
