------------------------ MODULE ArgumentParserProofs ------------------------
(***************************************************************************)
(* Proofs about ArgumentParser, for any letters, strings of any number of  *)
(* tokens and any room in argv.                                            *)
(***************************************************************************)
EXTENDS ArgumentParser, TLAPS

----------------------------------------------------------------------------
\* A string is a sequence of tokens, of which getopt only looks at those in argv.
LEMMA StringTokens ==
    ASSUME TypeOK
    PROVE  /\ args \in Seq(Tokens) /\ Len(args) \in 0..MaxTokens
           /\ Argc \in Nat /\ Argc <= Len(args) + 1
           /\ \A t \in 1..(Argc - 1) : t \in 1..Len(args) /\ args[t] \in Tokens
  <1>1. PICK n \in 0..MaxTokens : args \in [1..n -> Tokens]
    BY DEF TypeOK, Strings
  <1>2. args \in Seq(Tokens) /\ Len(args) = n
    BY <1>1, MaxTokensAssumption
  <1>3. Argc \in Nat /\ Argc <= Len(args) + 1
    BY <1>2, MaxTokensAssumption, MaxArgsAssumption DEF Argc
  <1> QED
    BY <1>1, <1>2, <1>3

\* What a scan that is not over may do next; at and the options found move together.
Scans ==
    /\ at < Argc
    /\ stage' = "scanning"
    /\ \/ args[at].letters = <<>> /\ optlist' = optlist /\ at' = at + 1
       \/ Found("value", at) /\ at' = at + 1
       \/ /\ at + 1 < Argc /\ ~args[at + 1].dash
          /\ Found("value", at + 1) /\ at' = at + 2
Fails ==
    /\ at < Argc
    /\ \E outcome \in {"missing", "unknown"} : Found(outcome, 0)
    /\ at' = at /\ stage' = "done"
Ends ==
    /\ at < Argc => args[at] = EndMark
    /\ UNCHANGED <<at, optlist>> /\ stage' = "done"
Crashes ==
    /\ at < Argc /\ Current \in Flags
    /\ UNCHANGED <<at, optlist>> /\ stage' = "crashed"

\* Each action, by what it does to the list: words, options and their values are
\* passed by one at a time, and any failure ends the scan.
LEMMA StepKinds ==
    ASSUME TypeOK, Next
    PROVE  /\ stage = "scanning" /\ args' = args /\ letter' \in {1, letter}
           /\ Scans \/ Fails \/ Ends \/ Crashes
  <1> letter \in 1..2 /\ at \in 1..Argc /\ Argc \in Nat
    BY StringTokens DEF TypeOK
  <1>1. CASE SkipWord
    BY <1>1 DEF SkipWord, Scans
  <1>2. CASE EndOfOptions
    BY <1>2 DEF EndOfOptions, Ends
  <1>3. CASE UnknownOption \/ NoValue
    BY <1>3 DEF UnknownOption, NoValue, AtOption, Fails
  <1>4. CASE FlagOption
    BY <1>4 DEF FlagOption, AtOption, Crashes
  <1>5. CASE AttachedValue
    <2>1. CASE args[at].letters[letter + 1] = Dash
      BY <1>5, <2>1 DEF AttachedValue, AtOption, TakeValue, Fails
    <2>2. CASE args[at].letters[letter + 1] # Dash
      BY <1>5, <2>2 DEF AttachedValue, AtOption, TakeValue, Scans
    <2> QED
      BY <2>1, <2>2
  <1>6. CASE NextValue
    BY <1>6 DEF NextValue, AtOption, TakeValue, Scans, Fails
  <1> QED
    BY <1>1, <1>2, <1>3, <1>4, <1>5, <1>6 DEF Next

Items == [token : 1..MaxTokens, value : 0..MaxTokens,
          outcome : {"value", "missing", "unknown"}]

\* What is found at a token of argv is added to the list, and nothing else changes.
LEMMA ListGrows ==
    ASSUME TypeOK, at < Argc, Scans \/ Fails
    PROVE  \/ Scans /\ optlist' = optlist /\ at' = at + 1 /\ args[at].letters = <<>>
           \/ \E item \in Items :
                 /\ optlist' = Append(optlist, item)
                 /\ item.token = at
                 /\ Scans => /\ item.outcome = "value"
                             /\ \/ at' = at + 1
                                \/ at' = at + 2 /\ at + 1 < Argc /\ ~args[at + 1].dash
                 /\ Fails => item.outcome # "value"
  <1> USE MaxTokensAssumption
  <1> /\ at \in 1..Argc /\ Argc \in Nat
      /\ Len(args) \in 0..MaxTokens /\ Argc <= Len(args) + 1
    BY StringTokens DEF TypeOK
  <1>1. at \in 1..MaxTokens
    OBVIOUS
  <1>2. CASE Scans
    <2>1. CASE optlist' = optlist /\ at' = at + 1 /\ args[at].letters = <<>>
      BY <1>2, <2>1
    <2>2. CASE Found("value", at) /\ at' = at + 1
      <3> DEFINE item == [token |-> at, outcome |-> "value", value |-> at]
      <3>1. item \in Items
        BY <1>1 DEF Items
      <3>2. optlist' = Append(optlist, item)
        BY <2>2 DEF Found
      <3> QED
        BY <1>2, <2>2, <3>1, <3>2 DEF Scans, Fails
    <2>3. CASE /\ at + 1 < Argc /\ ~args[at + 1].dash
               /\ Found("value", at + 1) /\ at' = at + 2
      <3> DEFINE item == [token |-> at, outcome |-> "value", value |-> at + 1]
      <3>1. item \in Items
        BY <1>1, <2>3 DEF Items
      <3>2. optlist' = Append(optlist, item)
        BY <2>3 DEF Found
      <3> QED
        BY <1>2, <2>3, <3>1, <3>2 DEF Scans, Fails
    <2> QED
      BY <1>2, <2>1, <2>2, <2>3 DEF Scans
  <1>3. CASE Fails
    <2>1. PICK outcome \in {"missing", "unknown"} : Found(outcome, 0)
      BY <1>3 DEF Fails
    <2> DEFINE item == [token |-> at, outcome |-> outcome, value |-> 0]
    <2>2. item \in Items /\ item.outcome # "value"
      BY <1>1 DEF Items
    <2>3. optlist' = Append(optlist, item)
      BY <2>1 DEF Found
    <2> QED
      BY <1>3, <2>2, <2>3 DEF Scans, Fails
  <1> QED
    BY <1>2, <1>3

LEMMA ScanTypes ==
    ASSUME TypeOK, [Next]_vars
    PROVE  TypeOK'
  <1> USE MaxTokensAssumption
  <1> /\ letter \in 1..2 /\ at \in 1..Argc /\ Argc \in Nat
      /\ Len(args) \in 0..MaxTokens /\ Argc <= Len(args) + 1
      /\ optlist \in Seq(Items)
    BY StringTokens DEF TypeOK, Items
  <1>1. ASSUME Next PROVE TypeOK'
    <2>1. args' = args /\ letter' \in 1..2 /\ Argc' = Argc
      BY <1>1, StepKinds DEF Argc
    <2>2. CASE Scans \/ Fails
      <3>1. at' \in 1..Argc /\ stage' \in {"scanning", "done"} /\ at < Argc
        BY <2>2 DEF Scans, Fails
      <3>2. optlist' = optlist \/ \E item \in Items : optlist' = Append(optlist, item)
        BY <2>2, <3>1, ListGrows
      <3>3. optlist' \in Seq(Items)
        BY <3>2
      <3> QED
        BY <2>1, <3>1, <3>3 DEF TypeOK, Items
    <2>5. CASE Ends \/ Crashes
      BY <2>1, <2>5 DEF Ends, Crashes, TypeOK
    <2> QED
      BY <1>1, <2>2, <2>5, StepKinds
  <1>2. CASE UNCHANGED vars
    BY <1>2 DEF vars, TypeOK, Argc
  <1> QED
    BY <1>1, <1>2

\* Every state reached has the types declared: getopt stays inside argv, also when
\* there are more tokens than it holds.
THEOREM ScanCorrect == Spec => []TypeOK
  <1>1. Init => TypeOK
    <2> SUFFICES ASSUME Init PROVE TypeOK
      OBVIOUS
    <2>1. PICK n \in 0..MaxTokens : args \in [1..n -> Tokens]
      BY DEF Init, Strings
    <2>2. Argc \in Nat /\ Argc >= 1
      BY <2>1, MaxTokensAssumption, MaxArgsAssumption DEF Argc
    <2> QED
      BY <2>2 DEF Init, TypeOK
  <1>2. TypeOK /\ [Next]_vars => TypeOK'
    BY ScanTypes
  <1> QED
    BY <1>1, <1>2, PTL DEF Spec

----------------------------------------------------------------------------
\* Every option stored stands for a token passed, so that of the elements as many are
\* left as tokens; the scan ends with the failure it stores.
RoomLeft ==
    /\ stage = "scanning" => Len(optlist) + 1 <= at
    /\ OptionListFits

\* The list never exceeds the memory allocated for it (argument_parser.c:63, 72, 77),
\* for any string, however many of its tokens argv has room for.
THEOREM ListFits == Spec => []OptionListFits
  <1>1. Init => RoomLeft
    <2> SUFFICES ASSUME Init PROVE RoomLeft
      OBVIOUS
    <2>1. PICK n \in 0..MaxTokens : args \in [1..n -> Tokens]
      BY DEF Init, Strings
    <2>2. Argc \in Nat /\ Argc >= 1
      BY <2>1, MaxTokensAssumption, MaxArgsAssumption DEF Argc
    <2> QED
      BY <2>2 DEF Init, RoomLeft, OptionListFits, Capacity
  <1>2. TypeOK /\ RoomLeft /\ [Next]_vars => RoomLeft'
    <2> SUFFICES ASSUME TypeOK, RoomLeft, [Next]_vars PROVE RoomLeft'
      OBVIOUS
    <2> at \in 1..Argc /\ Argc \in Nat /\ Len(optlist) \in Nat
      BY StringTokens DEF TypeOK
    <2>1. CASE Next
      <3>1. Argc' = Argc /\ stage = "scanning"
        BY <2>1, StepKinds DEF Argc
      <3>2. CASE Scans \/ Fails
        <4>1. at < Argc /\ at' \in Nat /\ (stage' = "scanning" => at' >= at + 1)
          BY <3>2 DEF Scans, Fails
        <4>2. Len(optlist') <= Len(optlist) + 1 /\ Len(optlist') \in Nat
          <5>1. optlist' = optlist \/ \E item \in Items : optlist' = Append(optlist, item)
            BY <3>2, <4>1, ListGrows
          <5> QED
            BY <5>1 DEF TypeOK
        <4> QED
          BY <3>1, <4>1, <4>2 DEF RoomLeft, OptionListFits, Capacity
      <3>3. CASE Ends \/ Crashes
        BY <3>1, <3>3 DEF Ends, Crashes, RoomLeft, OptionListFits, Capacity
      <3> QED
        BY <2>1, <3>2, <3>3, StepKinds
    <2>2. CASE UNCHANGED vars
      BY <2>2 DEF vars, RoomLeft, OptionListFits, Capacity, Argc
    <2> QED
      BY <2>1, <2>2
  <1>3. RoomLeft => OptionListFits
    BY DEF RoomLeft
  <1> QED
    BY <1>1, <1>2, <1>3, ScanCorrect, PTL DEF Spec

----------------------------------------------------------------------------
\* What of the string has been stored.

Succeeds == \A i \in 1..Len(optlist) : optlist[i].outcome = "value"
Stored(t) == \E i \in 1..Len(optlist) : optlist[i].token = t
BeforeEnd(t) == \A s \in 1..t : args[s] # EndMark

\* Every option passed is stored, and those stored were passed in their order; when
\* the scan is over there is no option left.
Collected ==
    /\ stage = "scanning" =>
          /\ Succeeds
          /\ \A t \in 1..(at - 1) : IsOption(args[t]) => Stored(t)
          /\ \A i \in 1..Len(optlist) : optlist[i].token < at
    /\ \A i, j \in 1..Len(optlist) : i < j => optlist[i].token < optlist[j].token
    /\ stage = "done" /\ Succeeds =>
          \A t \in 1..(Argc - 1) : IsOption(args[t]) /\ BeforeEnd(t) => Stored(t)

LEMMA CollectedStep ==
    ASSUME TypeOK, Collected, [Next]_vars
    PROVE  Collected'
  <1> USE MaxTokensAssumption
  <1> at \in 1..Argc /\ Argc \in Nat /\ optlist \in Seq(Items) /\ Len(optlist) \in Nat
    BY StringTokens DEF TypeOK, Items
  <1>1. CASE Next
    <2>1. args' = args /\ Argc' = Argc /\ stage = "scanning"
      BY <1>1, StepKinds DEF Argc
    <2>2. CASE Scans /\ optlist' = optlist /\ at' = at + 1 /\ args[at].letters = <<>>
      <3>1. Succeeds' /\ \A t \in 1..at : IsOption(args[t]) => Stored(t)'
        <4>1. ASSUME NEW t \in 1..at, IsOption(args[t]) PROVE Stored(t)
          <5>1. t \in 1..(at - 1)
            BY <2>2, <4>1 DEF IsOption
          <5> QED
            BY <2>1, <4>1, <5>1 DEF Collected
        <4> QED
          BY <2>1, <2>2, <4>1 DEF Collected, Succeeds, Stored
      <3>2. \A i \in 1..Len(optlist) : optlist[i].token < at + 1
        <4>1. \A i \in 1..Len(optlist) : optlist[i] \in Items
          OBVIOUS
        <4> QED
          BY <2>1, <4>1 DEF Items, Collected
      <3>3. \A i, j \in 1..Len(optlist) : i < j => optlist[i].token < optlist[j].token
        BY DEF Collected
      <3> QED
        BY <2>1, <2>2, <3>1, <3>2, <3>3 DEF Scans, Collected
    <2>3. ASSUME NEW item \in Items, optlist' = Append(optlist, item), item.token = at
          PROVE  /\ \A i \in 1..Len(optlist) :
                       i \in 1..Len(optlist') /\ optlist'[i] = optlist[i]
                 /\ Len(optlist') \in 1..Len(optlist') /\ optlist'[Len(optlist')] = item
                 /\ \A i \in 1..Len(optlist') : i = Len(optlist') \/ i \in 1..Len(optlist)
                 /\ \A i, j \in 1..Len(optlist') :
                       i < j => optlist'[i].token < optlist'[j].token
                 /\ \A i \in 1..Len(optlist') : optlist'[i].token <= at
      <3>1. /\ \A i \in 1..Len(optlist) :
                  i \in 1..Len(optlist') /\ optlist'[i] = optlist[i]
            /\ Len(optlist') = Len(optlist) + 1 /\ optlist'[Len(optlist')] = item
        BY <2>3
      <3>2. \A i \in 1..Len(optlist) : optlist[i].token \in Nat /\ optlist[i].token < at
        <4>1. \A i \in 1..Len(optlist) : optlist[i] \in Items
          OBVIOUS
        <4> QED
          BY <2>1, <4>1 DEF Items, Collected
      <3>3. \A i, j \in 1..Len(optlist) : i < j => optlist[i].token < optlist[j].token
        BY DEF Collected
      <3>4. \A i \in 1..Len(optlist') : i = Len(optlist') \/ i \in 1..Len(optlist)
        BY <3>1
      <3>5. ASSUME NEW i \in 1..Len(optlist'), NEW j \in 1..Len(optlist'), i < j
            PROVE  optlist'[i].token < optlist'[j].token
        <4>1. i \in 1..Len(optlist)
          BY <3>1, <3>5
        <4> QED
          BY <2>3, <3>1, <3>2, <3>3, <3>4, <3>5, <4>1
      <3>6. \A i \in 1..Len(optlist') : optlist'[i].token <= at
        BY <2>3, <3>1, <3>2, <3>4
      <3> QED
        BY <3>1, <3>4, <3>5, <3>6
    <2>4. ASSUME NEW item \in Items, optlist' = Append(optlist, item), item.token = at,
                 Scans, item.outcome = "value", at' \in {at + 1, at + 2},
                 at' = at + 2 => at + 1 < Argc /\ ~args[at + 1].dash
          PROVE  Collected'
      <3> at' \in Nat
        BY <2>4
      <3>1. Succeeds'
        BY <2>1, <2>3, <2>4 DEF Collected, Succeeds
      <3>2. ASSUME NEW t \in 1..(at' - 1), IsOption(args[t]) PROVE Stored(t)'
        <4>0. /\ t \in 1..(at + 1)
              /\ t = at + 1 => at' = at + 2
          <5>1. CASE at' = at + 1
            BY <3>2, <5>1
          <5>2. CASE at' = at + 2
            BY <3>2, <5>2
          <5> QED
            BY <2>4, <5>1, <5>2
        <4>1. CASE t < at
          <5>1. PICK i \in 1..Len(optlist) : optlist[i].token = t
            BY <2>1, <3>2, <4>1 DEF Collected, Stored
          <5>2. i \in 1..Len(optlist') /\ optlist'[i].token = t
            BY <2>3, <2>4, <5>1
          <5> QED
            BY <5>2 DEF Stored
        <4>2. CASE t = at
          BY <2>3, <2>4, <4>2 DEF Stored
        <4>3. CASE t = at + 1
          <5>1. ~args[t].dash
            BY <2>4, <4>0, <4>3
          <5>2. t \in 1..(Argc - 1)
            BY <2>4, <4>0, <4>3
          <5>3. args[t].letters = <<>>
            BY <5>1, <5>2, StringTokens DEF Tokens
          <5> QED
            BY <3>2, <5>3 DEF IsOption
        <4> QED
          BY <4>0, <4>1, <4>2, <4>3
      <3>3. \A i \in 1..Len(optlist') : optlist'[i].token < at'
        <4>1. \A i \in 1..Len(optlist') : optlist'[i] \in Items
          BY <2>4
        <4>2. \A i \in 1..Len(optlist') : optlist'[i].token \in Nat
          BY <4>1 DEF Items
        <4>3. \A i \in 1..Len(optlist') : optlist'[i].token <= at
          BY <2>3, <2>4
        <4> QED
          BY <2>4, <4>2, <4>3
      <3> QED
        BY <2>1, <2>3, <2>4, <3>1, <3>2, <3>3 DEF Scans, Collected
    <2>5. ASSUME NEW item \in Items, optlist' = Append(optlist, item), item.token = at,
                 Fails, item.outcome # "value"
          PROVE  Collected'
      <3>1. ~Succeeds'
        BY <2>3, <2>5 DEF Succeeds
      <3> QED
        BY <2>3, <2>5, <3>1 DEF Fails, Collected
    <2>6. CASE Ends
      <3>1. ASSUME NEW t \in 1..(Argc - 1), IsOption(args[t]), BeforeEnd(t) PROVE Stored(t)
        <4>1. t < at
          BY <2>6, <3>1 DEF Ends, BeforeEnd
        <4> QED
          BY <2>1, <3>1, <4>1 DEF Collected
      <3> QED
        BY <2>1, <2>6, <3>1 DEF Ends, Collected, Succeeds, Stored, BeforeEnd
    <2>7. CASE Crashes
      BY <2>1, <2>7 DEF Crashes, Collected
    <2>8. CASE Scans \/ Fails
      BY <2>2, <2>4, <2>5, <2>8, ListGrows DEF Scans, Fails
    <2> QED
      BY <1>1, <2>6, <2>7, <2>8, StepKinds
  <1>2. CASE UNCHANGED vars
    BY <1>2 DEF vars, Collected, Succeeds, Stored, BeforeEnd, Argc
  <1> QED
    BY <1>1, <1>2

\* A scan without failures stores every option of the string before "--", in order,
\* for any string.
THEOREM EveryOptionCollected == Spec => []AllCollected
  <1>1. Init => Collected
    BY DEF Init, Collected, Succeeds
  <1>2. TypeOK /\ Collected /\ [Next]_vars => Collected'
    BY CollectedStep
  <1>3. Collected => AllCollected
    BY DEF Collected, Succeeds, Stored, BeforeEnd, AllCollected
  <1> QED
    BY <1>1, <1>2, <1>3, ScanCorrect, PTL DEF Spec

\* Flags are all that can crash a scan (argument_parser.c:70): of an option string
\* without them, every string of arguments is read to its end or its first failure.
THEOREM OnlyFlagsCrash == Flags = {} => (Spec => []ScanReturns)
  <1> SUFFICES ASSUME Flags = {} PROVE Spec => []ScanReturns
    OBVIOUS
  <1>1. Init => ScanReturns
    BY DEF Init, ScanReturns
  <1>2. TypeOK /\ ScanReturns /\ [Next]_vars => ScanReturns'
    BY StepKinds DEF vars, ScanReturns, Scans, Fails, Ends, Crashes
  <1> QED
    BY <1>1, <1>2, ScanCorrect, PTL DEF Spec
=============================================================================
