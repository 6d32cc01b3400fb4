------------------------- MODULE UpdateRequestProofs -------------------------
(***************************************************************************)
(* Proofs about NagiosParser and UpdateRequest, for bodies of any number   *)
(* of lines, any names and any path of the broker's URL.                   *)
(***************************************************************************)
EXTENDS UpdateRequest, SequenceTheorems, WellFoundedInduction, TLAPS

----------------------------------------------------------------------------
\* The parser.  What it has read is described by the lines done, all before `next';
\* what is in its variables by the compound line among them, if there was one.

Lines(from, to) == [i \in 1..(to - from + 1) |-> from + i - 1]
FirstPerf == IF body[1] = "both" THEN <<1>> ELSE <<>>

ReadFine ==
    /\ body \in Bodies
    /\ next \in 1..(Len(body) + 1)
    /\ \A i \in 1..(next - 1) : body[i] # "bad"
    /\ \A i, j \in 2..(next - 1) : body[i] = "both" /\ body[j] = "both" => i = j
    /\ next = 1 => data = <<>> /\ perfData = <<>> /\ ~multi
    /\ next > 1 /\ ~multi => /\ \A i \in 2..(next - 1) : body[i] # "both"
                             /\ data = Lines(1, next - 1)
                             /\ perfData = FirstPerf
    /\ next > 1 /\ multi => /\ body[1] = "both"
                            /\ \E c \in 2..(next - 1) :
                                  /\ body[c] = "both"
                                  /\ data = Lines(1, c)
                                  /\ perfData = <<1>> \o Lines(c, next - 1)

ParserInv ==
    /\ stage \in {"idle", "parsing", "parsed", "invalid"}
    /\ multi \in BOOLEAN
    /\ stage = "idle" => Idle
    /\ stage = "parsing" => ReadFine /\ next <= Len(body)
    /\ stage = "parsed" => ReadFine /\ next = Len(body) + 1
    /\ stage = "invalid" => /\ body \in Bodies /\ next \in 1..Len(body)
                            /\ data \in Seq(1..Len(body)) /\ perfData \in Seq(1..Len(body))
                            /\ ~WellFormed

LEMMA BodyLines ==
    ASSUME NEW b \in Bodies
    PROVE  b \in Seq(LineKinds) /\ Len(b) \in Nat \ {0} /\ DOMAIN b = 1..Len(b)
  BY MaxLinesAssumption DEF Bodies

LEMMA LinesType ==
    \A from, to \in Nat \ {0} : from <= to =>
        /\ Lines(from, to) \in Seq(Nat)
        /\ Lines(from, to) \in Seq(1..to)
        /\ Len(Lines(from, to)) = to - from + 1
        /\ Lines(from, to) # <<>>
        /\ Append(Lines(from, to), to + 1) = Lines(from, to + 1)
        /\ Lines(from, from) = <<from>>
  <1> SUFFICES ASSUME NEW from \in Nat \ {0}, NEW to \in Nat \ {0}, from <= to
               PROVE  /\ Lines(from, to) \in Seq(Nat)
                      /\ Lines(from, to) \in Seq(1..to)
                      /\ Len(Lines(from, to)) = to - from + 1
                      /\ Lines(from, to) # <<>>
                      /\ Append(Lines(from, to), to + 1) = Lines(from, to + 1)
                      /\ Lines(from, from) = <<from>>
    OBVIOUS
  <1>1. /\ Lines(from, to) \in Seq(Nat)
        /\ Lines(from, to) \in Seq(1..to)
        /\ Len(Lines(from, to)) = to - from + 1
    BY DEF Lines
  <1>2. Append(Lines(from, to), to + 1) = Lines(from, to + 1)
    <2>1. Lines(from, to + 1) \in Seq(Nat) /\ Lines(from, to) \in Seq(Nat)
      BY DEF Lines
    <2>2. Append(Lines(from, to), to + 1) \in Seq(Nat)
      BY <2>1
    <2>3. Len(Append(Lines(from, to), to + 1)) = Len(Lines(from, to + 1))
      BY <1>1, <2>1 DEF Lines
    <2>4. ASSUME NEW i \in 1..Len(Lines(from, to + 1))
          PROVE  Append(Lines(from, to), to + 1)[i] = Lines(from, to + 1)[i]
      BY <1>1, <2>1 DEF Lines
    <2> QED
      BY <2>1, <2>2, <2>3, <2>4, SeqEqual
  <1>3. Lines(from, from) = <<from>>
    BY DEF Lines
  <1> QED
    BY <1>1, <1>2, <1>3

\* The data read is of lines of the body.
LEMMA ReadTypes ==
    ASSUME ReadFine
    PROVE  data \in Seq(1..(next - 1)) /\ perfData \in Seq(1..(next - 1))
  <1> DEFINE done == next - 1
  <1>1. next \in Nat \ {0} /\ done \in Nat
    BY BodyLines DEF ReadFine
  <1> HIDE DEF done
  <1>2. CASE next = 1
    BY <1>2 DEF ReadFine
  <1>3. CASE next > 1
    <2>1. done \in Nat \ {0}
      BY <1>1, <1>3 DEF done
    <2>2. <<>> \in Seq(1..done) /\ <<1>> \in Seq(1..done)
      BY <2>1
    <2>3. CASE ~multi
      <3>1. data = Lines(1, done) /\ perfData = FirstPerf
        BY <1>3, <2>3 DEF ReadFine, done
      <3>2. Lines(1, done) \in Seq(1..done)
        BY <2>1, LinesType
      <3>3. FirstPerf \in Seq(1..done)
        BY <2>2 DEF FirstPerf
      <3> QED
        BY <3>1, <3>2, <3>3 DEF done
    <2>4. CASE multi
      <3>1. PICK c \in 2..done : data = Lines(1, c) /\ perfData = <<1>> \o Lines(c, done)
        BY <1>3, <2>4 DEF ReadFine, done
      <3>2. c \in Nat \ {0} /\ 1 <= c /\ c <= done
        BY <2>1
      <3>3. Lines(1, c) \in Seq(1..c) /\ Lines(c, done) \in Seq(1..done)
        BY <2>1, <3>2, LinesType
      <3>4. 1..c \subseteq 1..done
        BY <2>1, <3>2
      <3>5. Lines(1, c) \in Seq(1..done)
        BY <3>3, <3>4, SeqMonotonic
      <3>6. <<1>> \o Lines(c, done) \in Seq(1..done)
        BY <2>2, <3>3
      <3> QED
        BY <3>1, <3>5, <3>6 DEF done
    <2> QED
      BY <2>3, <2>4
  <1> QED
    BY <1>1, <1>2, <1>3

\* One turn of the loop over the lines keeps the account of those read.
LEMMA LineRead ==
    ASSUME ReadFine, next <= Len(body), ~InvalidLine,
           FirstLine \/ CompoundLine \/ SimpleLine,
           next' = next + 1, body' = body
    PROVE  ReadFine'
  <1> DEFINE done == next - 1
  <1> body \in Seq(LineKinds) /\ Len(body) \in Nat \ {0} /\ next \in 1..Len(body)
    BY BodyLines DEF ReadFine
  <1>a. next \in Nat \ {0} /\ done \in Nat /\ next = done + 1 /\ next' - 1 = next
    OBVIOUS
  <1>b. next > 1 => done \in Nat \ {0} /\ 1 <= done /\ 1 \in Nat \ {0}
    OBVIOUS
  <1> HIDE DEF done
  <1>1. next' \in 1..(Len(body') + 1) /\ next' > 1 /\ body' \in Bodies
    BY DEF ReadFine
  <1>2. body[next] # "bad" /\ \A i \in 1..(next' - 1) : body'[i] # "bad"
    BY DEF InvalidLine, ReadFine
  <1>p. /\ next > 1 /\ ~multi => /\ \A i \in 2..done : body[i] # "both"
                                 /\ data = Lines(1, done)
                                 /\ perfData = FirstPerf
        /\ next > 1 /\ multi => /\ body[1] = "both"
                                /\ \E c \in 2..done : /\ body[c] = "both"
                                                       /\ data = Lines(1, c)
                                                       /\ perfData = <<1>> \o Lines(c, done)
    BY DEF ReadFine, done
  <1>3. data = <<>> <=> next = 1
    <2>1. CASE next > 1
      <3>1. CASE ~multi
        <4>1. Lines(1, done) # <<>>
          BY <1>b, <2>1, LinesType
        <4> QED
          BY <1>p, <2>1, <3>1, <4>1
      <3>2. CASE multi
        <4>1. PICK c \in 2..done : data = Lines(1, c)
          BY <1>p, <2>1, <3>2
        <4>2. c \in Nat \ {0} /\ 1 <= c
          BY <1>a
        <4> QED
          BY <2>1, <4>1, <4>2, LinesType
      <3> QED
        BY <3>1, <3>2
    <2> QED
      BY <2>1 DEF ReadFine
  <1>4. CASE FirstLine
    <2>1. next = 1 /\ ~multi /\ perfData = <<>>
      BY <1>3, <1>4 DEF FirstLine, ReadFine
    <2>2. data' = Lines(1, 1)
      BY <1>4, <2>1, LinesType DEF FirstLine
    <2>3. perfData' = FirstPerf' /\ ~multi'
      BY <1>4, <2>1 DEF FirstLine, FirstPerf
    <2> QED
      BY <1>1, <1>2, <2>1, <2>2, <2>3 DEF ReadFine
  <1>5. CASE CompoundLine
    <2>1. next > 1 /\ body[next] = "both" /\ ~multi /\ perfData # <<>>
      BY <1>3, <1>5 DEF CompoundLine, InvalidLine, ReadFine
    <2>2. /\ \A i \in 2..done : body[i] # "both"
          /\ data = Lines(1, done) /\ perfData = <<1>> /\ body[1] = "both"
      BY <1>p, <2>1 DEF FirstPerf
    <2>3. Append(Lines(1, done), done + 1) = Lines(1, done + 1)
      BY <1>b, <2>1, LinesType
    <2>4. data' = Lines(1, next)
      BY <1>a, <1>5, <2>2, <2>3 DEF CompoundLine
    <2>5. perfData' = <<1>> \o Lines(next, next)
      <3>1. perfData' = Append(<<1>>, next)
        BY <1>5, <2>2 DEF CompoundLine
      <3>2. <<1>> \in Seq(Nat) /\ Append(<<1>>, next) = <<1>> \o <<next>>
        BY <1>a, AppendIsConcat
      <3> QED
        BY <1>a, <3>1, <3>2, LinesType
    <2>6. multi' /\ next \in 2..(next' - 1)
      BY <1>5, <2>1 DEF CompoundLine
    <2>7. \A i, j \in 2..(next' - 1) : body'[i] = "both" /\ body'[j] = "both" => i = j
      <3> SUFFICES ASSUME NEW i \in 2..(next' - 1), body[i] = "both" PROVE i = next
        OBVIOUS
      <3>1. i \notin 2..done
        BY <2>2
      <3> QED
        BY <1>a, <3>1
    <2>8. \E c \in 2..(next' - 1) : /\ body'[c] = "both"
                                    /\ data' = Lines(1, c)
                                    /\ perfData' = <<1>> \o Lines(c, next' - 1)
      BY <1>a, <2>1, <2>4, <2>5, <2>6
    <2>9. body'[1] = "both"
      BY <2>2
    <2> QED
      BY <1>1, <1>2, <2>6, <2>7, <2>8, <2>9 DEF ReadFine
  <1>6. CASE SimpleLine
    <2>1. next > 1 /\ body[next] # "both" /\ multi' = multi
      BY <1>3, <1>6 DEF SimpleLine
    <2>2. Append(Lines(1, done), next) = Lines(1, next)
      BY <1>a, <1>b, <2>1, LinesType
    <2>3. \A i, j \in 2..(next' - 1) : body[i] = "both" /\ body[j] = "both" => i = j
      BY <1>a, <2>1 DEF ReadFine
    <2>4. CASE ~multi
      <3>1. \A i \in 2..(next' - 1) : body'[i] # "both"
        BY <1>a, <1>p, <2>1, <2>4
      <3>2. data' = Lines(1, next' - 1)
        BY <1>a, <1>6, <1>p, <2>1, <2>2, <2>4 DEF SimpleLine
      <3>3. perfData' = FirstPerf'
        BY <1>6, <1>p, <2>1, <2>4 DEF SimpleLine, FirstPerf
      <3> QED
        BY <1>1, <1>2, <2>1, <2>3, <2>4, <3>1, <3>2, <3>3 DEF ReadFine
    <2>5. CASE multi
      <3>1. PICK c \in 2..done : /\ body[c] = "both"
                                 /\ data = Lines(1, c)
                                 /\ perfData = <<1>> \o Lines(c, done)
        BY <1>p, <2>1, <2>5
      <3>2. c \in Nat \ {0} /\ c <= done /\ c \in 2..(next' - 1)
        BY <1>a
      <3>3. Lines(c, done) \in Seq(Nat) /\ Append(Lines(c, done), done + 1) = Lines(c, done + 1)
        BY <1>b, <2>1, <3>2, LinesType
      <3>4. perfData' = Append(<<1>> \o Lines(c, done), next) /\ data' = data
        BY <1>6, <2>1, <2>5, <3>1 DEF SimpleLine
      <3>5. Append(<<1>> \o Lines(c, done), next) = <<1>> \o Append(Lines(c, done), next)
        <4>1. <<next>> \in Seq(Nat) /\ <<1>> \in Seq(Nat)
          BY <1>a
        <4>2. <<1>> \o Lines(c, done) \in Seq(Nat)
          BY <3>3, <4>1
        <4>3. (<<1>> \o Lines(c, done)) \o <<next>> = <<1>> \o (Lines(c, done) \o <<next>>)
          BY <3>3, <4>1, ConcatAssociative
        <4>4. Append(<<1>> \o Lines(c, done), next) = (<<1>> \o Lines(c, done)) \o <<next>>
          BY <1>a, <4>2, AppendIsConcat
        <4>5. Append(Lines(c, done), next) = Lines(c, done) \o <<next>>
          BY <1>a, <3>3, AppendIsConcat
        <4> QED
          BY <4>3, <4>4, <4>5
      <3>6. perfData' = <<1>> \o Lines(c, next' - 1)
        BY <1>a, <3>3, <3>4, <3>5
      <3>7. body[1] = "both"
        BY <1>p, <2>1, <2>5
      <3>8. \E k \in 2..(next' - 1) : /\ body'[k] = "both"
                                      /\ data' = Lines(1, k)
                                      /\ perfData' = <<1>> \o Lines(k, next' - 1)
        BY <3>1, <3>2, <3>4, <3>6
      <3> QED
        BY <1>1, <1>2, <2>1, <2>3, <2>5, <3>7, <3>8 DEF ReadFine
    <2> QED
      BY <2>4, <2>5
  <1> QED
    BY <1>4, <1>5, <1>6

\* A line that the parser throws for breaks the format.
LEMMA LineRefused ==
    ASSUME ReadFine, next <= Len(body), InvalidLine
    PROVE  ~WellFormed
  <1> /\ body \in Seq(LineKinds) /\ Len(body) \in Nat \ {0} /\ DOMAIN body = 1..Len(body)
      /\ next \in 1..Len(body)
    BY BodyLines DEF ReadFine
  <1>1. CASE body[next] = "bad"
    BY <1>1 DEF WellFormed
  <1>2. CASE data # <<>> /\ body[next] = "both" /\ (perfData = <<>> \/ multi)
    <2>1. next > 1 /\ next \in Compound
      BY <1>2 DEF ReadFine, Compound
    <2>2. CASE multi
      <3>1. PICK c \in 2..(next - 1) : body[c] = "both"
        BY <2>1, <2>2 DEF ReadFine
      <3>2. c \in Compound /\ c # next
        BY <3>1 DEF Compound
      <3> QED
        BY <2>1, <3>2 DEF WellFormed
    <2>3. CASE ~multi
      <3>1. FirstPerf = <<>>
        BY <1>2, <2>1, <2>3 DEF ReadFine
      <3>2. body[1] # "both"
        BY <3>1 DEF FirstPerf
      <3> QED
        BY <2>1, <3>2 DEF WellFormed
    <2> QED
      BY <2>2, <2>3
  <1> QED
    BY <1>1, <1>2 DEF InvalidLine

----------------------------------------------------------------------------
\* The parser's account is kept by every step of UpdateRequest.
LEMMA ParserStart ==
    Idle => ParserInv
  BY DEF Idle, ParserInv

LEMMA BodyReceived ==
    ASSUME ParserInv, ReceiveBody
    PROVE  ParserInv'
  <1>1. /\ stage = "idle" /\ body' \in Bodies /\ stage' = "parsing"
        /\ next' = 1 /\ data' = <<>> /\ perfData' = <<>> /\ multi' = FALSE
    BY DEF ParserInv, ReceiveBody, Idle
  <1>2. Len(body') \in Nat \ {0}
    BY <1>1, BodyLines
  <1>3. ReadFine' /\ next' <= Len(body')
    BY <1>1, <1>2 DEF ReadFine
  <1> QED
    BY <1>1, <1>3 DEF ParserInv

LEMMA LineParsed ==
    ASSUME ParserInv, ParseLine
    PROVE  ParserInv'
  <1>1. stage = "parsing" /\ ReadFine /\ next <= Len(body) /\ body' = body
    BY DEF ParserInv, ParseLine
  <1>2. /\ body \in Bodies /\ Len(body) \in Nat \ {0} /\ next \in 1..Len(body)
    BY <1>1, BodyLines DEF ReadFine
  <1>3. CASE InvalidLine
    <2>1. stage' = "invalid" /\ UNCHANGED <<next, data, perfData, multi>>
      BY <1>3 DEF ParseLine
    <2>2. ~WellFormed'
      BY <1>1, <1>3, LineRefused DEF WellFormed, Compound
    <2>3. data \in Seq(1..Len(body)) /\ perfData \in Seq(1..Len(body))
      <3>1. 1..(next - 1) \subseteq 1..Len(body)
        BY <1>2
      <3> QED
        BY <1>1, <3>1, ReadTypes, SeqMonotonic
    <2> QED
      BY <1>1, <1>2, <2>1, <2>2, <2>3 DEF ParserInv
  <1>4. CASE ~InvalidLine
    <2>1. /\ FirstLine \/ CompoundLine \/ SimpleLine
          /\ next' = next + 1
          /\ stage' = IF next = Len(body) THEN "parsed" ELSE stage
      BY <1>4 DEF ParseLine
    <2>2. ReadFine'
      BY <1>1, <1>4, <2>1, LineRead
    <2>3. multi' \in BOOLEAN
      BY <2>1 DEF FirstLine, CompoundLine, SimpleLine, ParserInv
    <2> QED
      BY <1>1, <1>2, <2>1, <2>2, <2>3 DEF ParserInv
  <1> QED
    BY <1>3, <1>4

LEMMA ParserReleased ==
    Release => ParserInv'
  BY DEF Release, ParserInv, Idle

LEMMA ParserKept ==
    ASSUME ParserInv, UNCHANGED parserVars
    PROVE  ParserInv'
  BY DEF ParserInv, parserVars, Idle, ReadFine, FirstPerf, Lines, WellFormed, Compound

LEMMA ParserStep ==
    ParserInv /\ [Next]_vars => ParserInv'
  <1> SUFFICES ASSUME ParserInv, [Next]_vars PROVE ParserInv'
    OBVIOUS
  <1>1. CASE ParseRequest
    BY <1>1, LineParsed DEF ParseRequest
  <1>2. CASE GetUpdateRequest
    BY <1>2, ParserReleased DEF GetUpdateRequest
  <1>3. ASSUME NEW reused \in BOOLEAN, SendUpdate(reused) PROVE ParserInv'
    BY <1>3, ParserKept DEF SendUpdate
  <1>4. CASE SendSpoiled
    BY <1>4, ParserKept DEF SendSpoiled
  <1>5. CASE NextRequest
    BY <1>5, BodyReceived DEF NextRequest
  <1>6. CASE UNCHANGED vars
    BY <1>6, ParserKept DEF vars
  <1> QED
    BY <1>1, <1>2, <1>3, <1>4, <1>5, <1>6 DEF Next

\* While the lines of a body are read (nagios.js:66-86), what the parser holds is what
\* the lines done amount to, in every state of the two flags.
THEOREM ParserAccount == Spec => []ParserInv
  <1>1. Init => ParserInv
    BY ParserStart DEF Init
  <1> QED
    BY <1>1, ParserStep, PTL DEF Spec

\* What nagios.js accepts and what it throws for: a body is accepted if it has the
\* form of nagios.js:49-58 and refused if it has not.
THEOREM FormatDecided == Spec => []GrammarDecided
  <1>1. ASSUME ParserInv PROVE GrammarDecided
    <2>1. CASE stage = "parsed"
      <3>1. ReadFine /\ next = Len(body) + 1 /\ Len(body) \in Nat \ {0} /\ DOMAIN body = 1..Len(body)
        BY <1>1, <2>1, BodyLines DEF ParserInv, ReadFine
      <3>2. next - 1 = Len(body) /\ next > 1
        BY <3>1
      <3>3. \A i \in DOMAIN body : body[i] # "bad"
        BY <3>1, <3>2 DEF ReadFine
      <3>4. \A i, j \in Compound : i = j
        BY <3>1, <3>2 DEF ReadFine, Compound
      <3>5. Compound # {} => body[1] = "both"
        BY <1>1, <3>1, <3>2 DEF ReadFine, Compound
      <3> QED
        BY <2>1, <3>3, <3>4, <3>5 DEF WellFormed, GrammarDecided
    <2>2. CASE stage # "parsed"
      BY <1>1, <2>2 DEF ParserInv, GrammarDecided
    <2> QED
      BY <2>1, <2>2
  <1> QED
    BY <1>1, ParserAccount, PTL

\* No line of an accepted body is lost, repeated or moved between the text and the
\* performance data (nagios.js:66-93).
THEOREM LinesKept == Spec => []NoLineLost
  <1>1. ASSUME ParserInv PROVE NoLineLost
    <2> SUFFICES ASSUME stage = "parsed" PROVE NoLineLost
      BY DEF NoLineLost
    <2> DEFINE size == Len(body)
    <2>1. ReadFine /\ next = size + 1 /\ size \in Nat \ {0}
      BY <1>1, BodyLines DEF ParserInv, ReadFine
    <2>2. next - 1 = size /\ next > 1 /\ multi \in BOOLEAN
      BY <1>1, <2>1 DEF ParserInv
    <2>3. CASE ~multi
      <3>1. Compound = {}
        BY <2>1, <2>2, <2>3 DEF ReadFine, Compound
      <3>2. data = Lines(1, size) /\ perfData = FirstPerf
        BY <2>1, <2>2, <2>3 DEF ReadFine
      <3>3. FirstPerf = FirstPerf \o <<>>
        BY DEF FirstPerf
      <3> QED
        BY <3>1, <3>2, <3>3 DEF NoLineLost, Lines, FirstPerf
    <2>4. CASE multi
      <3>1. PICK c \in 2..size : /\ body[c] = "both"
                                 /\ data = Lines(1, c)
                                 /\ perfData = <<1>> \o Lines(c, size)
        BY <2>1, <2>2, <2>4 DEF ReadFine
      <3>2. body[1] = "both"
        BY <2>1, <2>2, <2>4 DEF ReadFine
      <3>3. Compound # {} /\ (CHOOSE i \in Compound : TRUE) = c
        BY <2>1, <2>2, <3>1 DEF ReadFine, Compound
      <3> QED
        BY <3>1, <3>2, <3>3 DEF NoLineLost, Lines
    <2> QED
      BY <2>2, <2>3, <2>4
  <1> QED
    BY <1>1, ParserAccount, PTL

----------------------------------------------------------------------------
\* The conversions of a text.

\* Any set of numbers that is not empty has a least one.
LEMMA LeastNumber ==
    ASSUME NEW S \in SUBSET Nat, S # {}
    PROVE  Min(S) \in S /\ \A y \in S : Min(S) <= y
  <1>1. PICK x \in S : \A y \in S : <<y, x>> \notin OpToRel(<, Nat)
    BY NatLessThanWellFounded, WFMin
  <1>2. \A y \in Nat : y < x => <<y, x>> \in OpToRel(<, Nat)
    BY DEF OpToRel
  <1>3. \A y \in S : ~(y < x)
    BY <1>1, <1>2
  <1>4. \A y \in S : x <= y
    BY <1>3
  <1> QED
    BY <1>4 DEF Min

\* Induction, for a property of numbers given as the set of those that have it.
LEMMA EveryNumber ==
    ASSUME NEW S, 0 \in S, \A n \in Nat : n \in S => n + 1 \in S
    PROVE  \A n \in Nat : n \in S
  <1> DEFINE others == {n \in Nat : n \notin S}
  <1> SUFFICES ASSUME others # {} PROVE FALSE
    OBVIOUS
  <1>1. Min(others) \in others /\ \A y \in others : Min(others) <= y
    <2>1. others \in SUBSET Nat
      OBVIOUS
    <2> HIDE DEF others
    <2> QED
      BY <2>1, LeastNumber
  <1>2. PICK k \in Nat : k \notin S /\ \A y \in others : k <= y
    BY <1>1
  <1>3. k # 0
    BY <1>2
  <1>4. k - 1 \in Nat /\ k - 1 + 1 = k
    BY <1>3
  <1>5. k - 1 \notin others
    BY <1>2, <1>4
  <1>6. k - 1 \in S
    BY <1>4, <1>5
  <1> QED
    BY <1>2, <1>4, <1>6

\* FlattenSeq does what its recursive function says: there is such a function.
Flattens(f, seqs, n) == f = [i \in 1..n |-> IF i = 1 THEN seqs[i] ELSE f[i - 1] \o seqs[i]]

LEMMA FlattenStep ==
    ASSUME NEW seqs, NEW n \in Nat, NEW f, Flattens(f, seqs, n)
    PROVE  \E g : Flattens(g, seqs, n + 1)
  <1> DEFINE g == [i \in 1..(n + 1) |->
                     IF i <= n THEN f[i] ELSE IF i = 1 THEN seqs[i] ELSE f[i - 1] \o seqs[i]]
             h == [i \in 1..(n + 1) |-> IF i = 1 THEN seqs[i] ELSE g[i - 1] \o seqs[i]]
  <1>0. \A i \in 1..n : f[i] = IF i = 1 THEN seqs[i] ELSE f[i - 1] \o seqs[i]
    BY DEF Flattens
  <1>1. ASSUME NEW i \in 1..(n + 1) PROVE g[i] = h[i]
    <2>1. CASE i = 1
      BY <1>0, <2>1
    <2>2. CASE i # 1
      <3>1. i - 1 \in 1..n /\ i - 1 <= n /\ i - 1 \in 1..(n + 1)
        BY <2>2
      <3>2. g[i - 1] = f[i - 1]
        BY <3>1
      <3>3. i <= n => f[i] = f[i - 1] \o seqs[i]
        <4>1. i <= n => i \in 1..n
          OBVIOUS
        <4> QED
          BY <1>0, <2>2, <4>1
      <3>4. h[i] = f[i - 1] \o seqs[i]
        BY <2>2, <3>2
      <3>5. ~(i <= n) => g[i] = f[i - 1] \o seqs[i]
        BY <2>2
      <3> QED
        BY <3>3, <3>4, <3>5
    <2> QED
      BY <2>1, <2>2
  <1>2. g = h
    BY <1>1
  <1> QED
    BY <1>2 DEF Flattens

LEMMA FlattenDefined ==
    ASSUME NEW seqs, Len(seqs) \in Nat \ {0}
    PROVE  \E f : Flattens(f, seqs, Len(seqs)) /\ FlattenSeq(seqs) = f[Len(seqs)]
  <1> DEFINE S == {n \in Nat : \E f : Flattens(f, seqs, n)}
  <1>1. 0 \in S
    <2>1. Flattens([i \in 1..0 |-> seqs], seqs, 0)
      BY DEF Flattens
    <2> QED
      BY <2>1
  <1>2. \A n \in Nat : n \in S => n + 1 \in S
    BY FlattenStep
  <1>3. \E f : Flattens(f, seqs, Len(seqs))
    <2>1. Len(seqs) \in S
      <3> HIDE DEF S
      <3> QED
        BY <1>1, <1>2, EveryNumber
    <2> QED
      BY <2>1
  <1>4. Flattens(CHOOSE f : Flattens(f, seqs, Len(seqs)), seqs, Len(seqs))
    BY <1>3
  <1>5. FlattenSeq(seqs) = (CHOOSE f : Flattens(f, seqs, Len(seqs)))[Len(seqs)]
    BY DEF FlattenSeq, Flattens
  <1> QED
    BY <1>4, <1>5

\* The bytes of a text: as many as its characters, the same as them, unless one is
\* wide; never another character than those of the text.
Byte(text) == [i \in DOMAIN text |-> IF text[i] = "wide" THEN <<"wide", "wide">> ELSE <<text[i]>>]

Told(result, text, n) ==
    /\ result \in Seq(Chars)
    /\ Len(result) >= n
    /\ (\A i \in 1..n : text[i] # "wide") =>
          Len(result) = n /\ \A i \in 1..n : result[i] = text[i]
    /\ (\E i \in 1..n : text[i] = "wide") =>
          Len(result) > n /\ \E j \in 1..Len(result) : result[j] = "wide"
    /\ \A j \in 1..Len(result) : \E i \in 1..n : result[j] = text[i]

LEMMA ByteType ==
    ASSUME NEW text \in Seq(Chars), NEW i \in 1..Len(text)
    PROVE  /\ Byte(text)[i] \in Seq(Chars)
           /\ text[i] = "wide" => Byte(text)[i] = <<"wide", "wide">>
           /\ text[i] # "wide" => Byte(text)[i] = <<text[i]>>
  <1>1. text[i] \in Chars /\ DOMAIN text = 1..Len(text)
    BY ElementOfSeq, LenProperties
  <1>2. /\ text[i] = "wide" => Byte(text)[i] = <<"wide", "wide">>
        /\ text[i] # "wide" => Byte(text)[i] = <<text[i]>>
    BY <1>1 DEF Byte
  <1>3. <<text[i]>> \in Seq(Chars) /\ <<"wide", "wide">> \in Seq(Chars)
    <2>1. "wide" \in Chars
      BY DEF Chars
    <2> QED
      BY <1>1, <2>1
  <1> QED
    BY <1>2, <1>3

LEMMA ToldFirst ==
    ASSUME NEW text \in Seq(Chars), text # <<>>
    PROVE  Told(Byte(text)[1], text, 1)
  <1>1. 1 \in 1..Len(text) /\ text[1] \in Chars
    OBVIOUS
  <1>2. CASE text[1] = "wide"
    <2>1. Byte(text)[1] = <<"wide", "wide">> /\ Byte(text)[1] \in Seq(Chars)
      BY <1>1, <1>2, ByteType
    <2>2. Len(<<"wide", "wide">>) = 2 /\ \A j \in 1..2 : <<"wide", "wide">>[j] = "wide"
      OBVIOUS
    <2> QED
      BY <1>2, <2>1, <2>2 DEF Told
  <1>3. CASE text[1] # "wide"
    <2>1. Byte(text)[1] = <<text[1]>> /\ Byte(text)[1] \in Seq(Chars)
      BY <1>1, <1>3, ByteType
    <2>2. Len(<<text[1]>>) = 1 /\ \A j \in 1..1 : <<text[1]>>[j] = text[1]
      OBVIOUS
    <2> QED
      BY <1>3, <2>1, <2>2 DEF Told
  <1> QED
    BY <1>2, <1>3

LEMMA ToldNext ==
    ASSUME NEW text \in Seq(Chars), NEW n \in Nat \ {0}, n + 1 \in 1..Len(text),
           NEW result, Told(result, text, n)
    PROVE  Told(result \o Byte(text)[n + 1], text, n + 1)
  <1> DEFINE all == result \o Byte(text)[n + 1]
             next1 == n + 1
  <1>1. next1 \in 1..Len(text) /\ text[next1] \in Chars /\ next1 \in Nat /\ n < next1
    OBVIOUS
  <1>2. result \in Seq(Chars) /\ Len(result) \in Nat /\ Len(result) >= n
    BY DEF Told
  <1>3. \A i \in 1..next1 : i \in 1..n \/ i = next1
    BY <1>1
  <1>4. CASE text[next1] = "wide"
    <2>1. Byte(text)[next1] = <<"wide", "wide">> /\ <<"wide", "wide">> \in Seq(Chars)
      BY <1>1, <1>4, ByteType
    <2>2. all = result \o <<"wide", "wide">>
      BY <2>1
    <2>3. /\ all \in Seq(Chars) /\ Len(all) = Len(result) + 2
          /\ \A j \in 1..Len(result) : all[j] = result[j]
          /\ \A j \in 1..Len(all) : j \notin 1..Len(result) => all[j] = "wide"
      BY <1>2, <2>1, <2>2
    <2>4. Len(all) > next1 /\ Len(all) \in 1..Len(all) /\ all[Len(all)] = "wide"
      BY <1>2, <2>3
    <2>5. ASSUME NEW j \in 1..Len(all) PROVE \E i \in 1..next1 : all[j] = text[i]
      <3>1. CASE j \in 1..Len(result)
        <4>1. PICK i \in 1..n : result[j] = text[i]
          BY <3>1 DEF Told
        <4> QED
          BY <2>3, <3>1, <4>1
      <3>2. CASE j \notin 1..Len(result)
        BY <1>1, <1>4, <2>3, <3>2
      <3> QED
        BY <3>1, <3>2
    <2>6. \E i \in 1..next1 : text[i] = "wide"
      BY <1>1, <1>4
    <2> HIDE DEF all
    <2>7. ~(\A i \in 1..next1 : text[i] # "wide") /\ Len(all) >= next1
      BY <1>1, <2>3, <2>4, <2>6
    <2>8. \E j \in 1..Len(all) : all[j] = "wide"
      BY <2>4
    <2>9. Told(all, text, next1)
      BY <2>3, <2>4, <2>5, <2>7, <2>8 DEF Told
    <2> QED
      BY <2>9 DEF all
  <1>5. CASE text[next1] # "wide"
    <2>1. Byte(text)[next1] = <<text[next1]>> /\ <<text[next1]>> \in Seq(Chars)
      BY <1>1, <1>5, ByteType
    <2>2. all = result \o <<text[next1]>>
      BY <2>1
    <2>3. /\ all \in Seq(Chars) /\ Len(all) = Len(result) + 1
          /\ \A j \in 1..Len(result) : all[j] = result[j]
          /\ \A j \in 1..Len(all) : j \notin 1..Len(result) => j = Len(all)
          /\ all[Len(all)] = text[next1]
      BY <1>2, <2>1, <2>2
    <2>4. Len(all) >= next1
      BY <1>2, <2>3
    <2>5. ASSUME NEW j \in 1..Len(all) PROVE \E i \in 1..next1 : all[j] = text[i]
      <3>1. CASE j \in 1..Len(result)
        <4>1. PICK i \in 1..n : result[j] = text[i]
          BY <3>1 DEF Told
        <4> QED
          BY <2>3, <3>1, <4>1
      <3>2. CASE j \notin 1..Len(result)
        BY <1>1, <2>3, <3>2
      <3> QED
        BY <3>1, <3>2
    <2>6. ASSUME \A i \in 1..next1 : text[i] # "wide"
          PROVE  Len(all) = next1 /\ \A i \in 1..next1 : all[i] = text[i]
      <3>1. Len(result) = n /\ \A i \in 1..n : result[i] = text[i]
        BY <2>6 DEF Told
      <3> QED
        BY <1>3, <2>3, <3>1
    <2>7. ASSUME NEW i \in 1..next1, text[i] = "wide"
          PROVE  Len(all) > next1 /\ \E j \in 1..Len(all) : all[j] = "wide"
      <3>1. i \in 1..n
        BY <1>3, <1>5, <2>7
      <3>2. Len(result) > n /\ \E j \in 1..Len(result) : result[j] = "wide"
        BY <2>7, <3>1 DEF Told
      <3> QED
        BY <1>2, <2>3, <3>2
    <2> HIDE DEF all
    <2>8. Told(all, text, next1)
      BY <2>3, <2>4, <2>5, <2>6, <2>7 DEF Told
    <2> QED
      BY <2>8 DEF all
  <1> QED
    BY <1>4, <1>5

LEMMA TextBytes ==
    ASSUME NEW text \in Seq(Chars)
    PROVE  /\ BytesAsChars(text) \in Seq(Chars)
           /\ Len(BytesAsChars(text)) >= Len(text)
           /\ ~Has(text, {"wide"}) => BytesAsChars(text) = text
           /\ Has(text, {"wide"}) => /\ Len(BytesAsChars(text)) > Len(text)
                                    /\ Has(BytesAsChars(text), {"wide"})
           /\ \A chars : Has(BytesAsChars(text), chars) => Has(text, chars)
  <1> DEFINE result == BytesAsChars(text)
             size == Len(text)
  <1>1. result = FlattenSeq(Byte(text)) /\ Len(Byte(text)) = size /\ DOMAIN text = 1..size
    BY DEF BytesAsChars, Byte
  <1>2. CASE text = <<>>
    <2>1. Len(Byte(text)) = 0 /\ result = Byte(text)
      BY <1>1, <1>2 DEF FlattenSeq
    <2>2. Byte(text) = <<>>
      BY <1>2 DEF Byte
    <2>3. \A chars : ~Has(text, chars)
      BY <1>2 DEF Has
    <2>4. result = text
      BY <1>2, <2>1, <2>2
    <2> QED
      BY <2>3, <2>4
  <1>3. CASE text # <<>>
    <2>1. size \in Nat \ {0}
      BY <1>3
    <2>2. PICK f : Flattens(f, Byte(text), size) /\ result = f[size]
      BY <1>1, <2>1, FlattenDefined
    <2>3. \A i \in 1..size : f[i] = IF i = 1 THEN Byte(text)[i] ELSE f[i - 1] \o Byte(text)[i]
      BY <2>2 DEF Flattens
    <2> DEFINE S == {n \in Nat : n \in 1..size => Told(f[n], text, n)}
    <2>4. ASSUME NEW n \in Nat, n \in 1..size => Told(f[n], text, n),
                 NEW k \in 1..size, k = n + 1
          PROVE  Told(f[k], text, k)
      <3>1. CASE n = 0
        BY <1>3, <2>1, <2>3, <2>4, <3>1, ToldFirst
      <3>2. CASE n # 0
        <4>1. n \in 1..size /\ n \in Nat \ {0} /\ k # 1 /\ k - 1 = n
          BY <2>1, <2>4, <3>2
        <4>2. Told(f[n], text, n)
          BY <2>4, <4>1
        <4>3. f[k] = f[n] \o Byte(text)[k]
          BY <2>3, <4>1
        <4> QED
          BY <2>4, <4>1, <4>2, <4>3, ToldNext
      <3> QED
        BY <3>1, <3>2
    <2>5. size \in S
      <3>1. 0 \in S
        OBVIOUS
      <3>2. ASSUME NEW n \in Nat, n \in S PROVE n + 1 \in S
        <4> DEFINE k == n + 1
        <4>1. n \in 1..size => Told(f[n], text, n)
          BY <3>2
        <4>2. k \in 1..size => Told(f[k], text, k)
          BY <2>4, <4>1
        <4> HIDE DEF k
        <4>3. k \in Nat
          BY DEF k
        <4>4. k \in S
          BY <4>2, <4>3
        <4> QED
          BY <4>4 DEF k
      <3> HIDE DEF S
      <3> QED
        BY <2>1, <3>1, <3>2, EveryNumber
    <2>6. Told(result, text, size)
      BY <2>1, <2>2, <2>5
    <2> HIDE DEF result
    <2>7. ~Has(text, {"wide"}) => result = text
      <3> SUFFICES ASSUME ~Has(text, {"wide"}) PROVE result = text
        OBVIOUS
      <3>1. \A i \in 1..size : text[i] # "wide"
        BY <1>1 DEF Has
      <3>2. result \in Seq(Chars) /\ Len(result) = Len(text) /\ \A i \in 1..Len(result) : result[i] = text[i]
        BY <2>6, <3>1 DEF Told
      <3> QED
        BY <3>2, SeqEqual
    <2>8. Has(text, {"wide"}) => Len(result) > Len(text) /\ Has(result, {"wide"})
      BY <1>1, <2>6 DEF Has, Told
    <2>9. \A chars : Has(result, chars) => Has(text, chars)
      <3>1. DOMAIN result = 1..Len(result) /\ \A j \in 1..Len(result) : \E i \in 1..size : result[j] = text[i]
        BY <2>6, LenProperties DEF Told
      <3> QED
        BY <1>1, <3>1 DEF Has
    <2> QED
      BY <2>6, <2>7, <2>8, <2>9 DEF Told, result
  <1> QED
    BY <1>2, <1>3

\* A parameter is what is before the first "&" or "#".
LEMMA ParameterIs ==
    ASSUME NEW text \in Seq(Chars)
    PROVE  /\ Parameter(text) \in Seq(Chars)
           /\ Len(Parameter(text)) <= Len(text)
           /\ \A i \in 1..Len(Parameter(text)) : Parameter(text)[i] = text[i] /\ text[i] \notin {"&", "#"}
           /\ Len(Parameter(text)) < Len(text) => Has(text, {"&", "#"})
  <1> DEFINE all == text \o <<"&">>
             ends == {i \in 1..Len(all) : all[i] \in {"&", "#"}}
  <1>1. <<"&">> \in Seq(Chars)
    <2>1. "&" \in Chars
      BY DEF Chars
    <2> QED
      BY <2>1
  <1>2. /\ all \in Seq(Chars) /\ Len(all) = Len(text) + 1 /\ Len(text) \in Nat
        /\ \A i \in 1..Len(text) : all[i] = text[i]
        /\ all[Len(text) + 1] = "&"
    BY <1>1
  <1>3. Len(text) + 1 \in ends /\ ends \in SUBSET Nat
    BY <1>2
  <1>4. Min(ends) \in ends /\ \A i \in ends : Min(ends) <= i
    <2> HIDE DEF ends
    <2> QED
      BY <1>3, LeastNumber
  <1>5. Parameter(text) = SubSeq(text, 1, Min(ends) - 1)
    <2>1. SelectInSeq(all, LAMBDA c : c \in {"&", "#"}) = Min(ends)
      BY <1>3 DEF SelectInSeq
    <2> QED
      BY <2>1 DEF Parameter
  <1>6. PICK m \in 1..(Len(text) + 1) :
           /\ m = Min(ends) /\ all[m] \in {"&", "#"}
           /\ \A i \in 1..(Len(text) + 1) : all[i] \in {"&", "#"} => m <= i
    BY <1>2, <1>4
  <1> HIDE DEF all, ends
  <1>7. /\ Parameter(text) \in Seq(Chars) /\ Len(Parameter(text)) = m - 1
        /\ \A i \in 1..(m - 1) : Parameter(text)[i] = text[i]
    <2>1. m - 1 \in 0..Len(text) /\ 1 \in 1..(Len(text) + 1)
      BY <1>2, <1>6
    <2>2. SubSeq(text, 1, m - 1) = [i \in 1..(m - 1) |-> text[i]]
      BY <1>2, <2>1
    <2>3. \A i \in 1..(m - 1) : text[i] \in Chars
      BY <1>2, <2>1, ElementOfSeq
    <2> QED
      BY <1>5, <1>6, <2>1, <2>2, <2>3
  <1>8. ASSUME NEW i \in 1..(m - 1) PROVE text[i] \notin {"&", "#"}
    <2>1. i \in 1..Len(text) /\ i \in 1..(Len(text) + 1) /\ ~(m <= i)
      BY <1>2
    <2> QED
      BY <1>2, <1>6, <2>1
  <1>9. ASSUME m - 1 < Len(text) PROVE Has(text, {"&", "#"})
    <2>1. m \in 1..Len(text) /\ DOMAIN text = 1..Len(text)
      BY <1>2, <1>9, LenProperties
    <2>2. text[m] \in {"&", "#"}
      BY <1>2, <1>6, <2>1
    <2> QED
      BY <2>1, <2>2 DEF Has
  <1> QED
    BY <1>2, <1>6, <1>7, <1>8, <1>9

\* The characters that reading a parameter changes.
FormChars == {"#", "&", "+", "%20"}

LEMMA HasUnion ==
    ASSUME NEW text, NEW A, NEW B
    PROVE  Has(text, A \cup B) <=> Has(text, A) \/ Has(text, B)
  BY DEF Has

\* A sequence made out of another, character by character.
LEMMA OfCharacters ==
    ASSUME NEW text \in Seq(Chars), NEW size \in Nat, NEW value,
           value = [i \in 1..size |-> value[i]],
           \A i \in 1..size : value[i] \in Chars
    PROVE  value \in Seq(Chars) /\ Len(value) = size /\ DOMAIN value = 1..size
  OBVIOUS

\* A value read from a query is the text if that had none of them, and has none itself.
LEMMA FormValueIs ==
    ASSUME NEW text \in Seq(Chars)
    PROVE  /\ FormValue(text) \in Seq(Chars)
           /\ ~Has(FormValue(text), FormChars)
           /\ FormValue(text) = text <=> ~Has(text, FormChars)
           /\ Has(FormValue(text), {"wide"}) => Has(text, {"wide"})
           /\ Has(Parameter(text), {"%"}) => Has(FormValue(text), {"%"})
           /\ ~Has(text, FormChars) => Parameter(text) = text
  <1> DEFINE value == FormValue(text)
             size == Len(Parameter(text))
  <1>1. size \in Nat /\ size <= Len(text) /\ DOMAIN text = 1..Len(text) /\ DOMAIN Parameter(text) = 1..size
    BY ParameterIs, LenProperties
  <1>2. value = [i \in 1..size |-> IF text[i] \in {"+", "%20"} THEN " " ELSE text[i]]
    BY <1>1 DEF FormValue
  <1>3. ASSUME NEW i \in 1..size
        PROVE  /\ i \in 1..Len(text) /\ text[i] \in Chars /\ text[i] \notin {"&", "#"}
               /\ Parameter(text)[i] = text[i]
               /\ value[i] = IF text[i] \in {"+", "%20"} THEN " " ELSE text[i]
    <2>1. i \in 1..Len(text)
      BY <1>1
    <2>2. text[i] \in Chars
      BY <2>1, ElementOfSeq
    <2> QED
      BY <1>2, <2>1, <2>2, ParameterIs
  <1>4. \A i \in 1..size : value[i] \in Chars /\ value[i] \notin FormChars
    BY <1>3 DEF Chars, FormChars
  <1>5. value \in Seq(Chars) /\ Len(value) = size /\ DOMAIN value = 1..size
    <2> HIDE DEF size, value
    <2>1. value = [i \in 1..size |-> value[i]]
      BY <1>2
    <2> QED
      BY <1>1, <1>4, <2>1, OfCharacters
  <1>p. Parameter(text) \in Seq(Chars)
    BY ParameterIs
  <1> HIDE DEF value
  <1>6. ~Has(value, FormChars)
    BY <1>4, <1>5 DEF Has
  <1>e. ~Has(text, FormChars) => size = Len(text)
    <2>1. ~Has(text, FormChars) => ~Has(text, {"&", "#"})
      BY DEF Has, FormChars
    <2>2. ~Has(text, {"&", "#"}) => ~(Len(Parameter(text)) < Len(text))
      BY ParameterIs
    <2>3. Len(text) \in Nat /\ (~(size < Len(text)) => size = Len(text))
      <3> DEFINE all == Len(text)
      <3>1. all \in Nat
        BY LenProperties
      <3>2. size \in Nat /\ size <= all
        BY <1>1
      <3> HIDE DEF size, all
      <3>3. ~(size < all) => size = all
        BY <3>1, <3>2
      <3> QED
        BY <3>1, <3>3 DEF all
    <2>4. ~Has(text, FormChars) => ~(size < Len(text))
      BY <2>1, <2>2
    <2> HIDE DEF size
    <2> QED
      BY <2>3, <2>4
  <1>7. value = text <=> ~Has(text, FormChars)
    <2>1. ASSUME ~Has(text, FormChars) PROVE value = text
      <3>1. size = Len(text)
        BY <1>e, <2>1
      <3>2. \A i \in 1..size : text[i] \notin FormChars
        BY <1>1, <1>3, <2>1 DEF Has
      <3>3. \A i \in 1..size : value[i] = text[i]
        BY <1>3, <3>2 DEF FormChars
      <3> HIDE DEF size
      <3> QED
        BY <1>5, <3>1, <3>3, SeqEqual
    <2> QED
      BY <1>6, <2>1
  <1>8. Has(value, {"wide"}) => Has(text, {"wide"})
    BY <1>1, <1>3, <1>5 DEF Has
  <1>9. Has(Parameter(text), {"%"}) => Has(value, {"%"})
    <2>1. ASSUME NEW i \in 1..size, Parameter(text)[i] = "%" PROVE value[i] = "%"
      BY <1>3, <2>1
    <2> QED
      BY <1>1, <1>5, <2>1 DEF Has
  <1>10. ~Has(text, FormChars) => Parameter(text) = text
    <2>1. \A i \in 1..size : Parameter(text)[i] = text[i]
      BY <1>3
    <2>2. size = Len(text) => Parameter(text) = text
      BY <1>p, <2>1, SeqEqual
    <2> QED
      BY <1>e, <2>2
  <1> QED
    BY <1>5, <1>6, <1>7, <1>8, <1>9, <1>10 DEF value

\* The identifier that the broker finds in a path.
LEMMA DecodedIs ==
    ASSUME NEW text \in Seq(Chars)
    PROVE  /\ Decoded(text) \in Seq(Chars) /\ Len(Decoded(text)) = Len(text)
           /\ Decoded(text) = text <=> ~Has(text, {"%20"})
  <1> DEFINE value == Decoded(text)
  <1>1. DOMAIN text = 1..Len(text) /\ Len(text) \in Nat
    BY LenProperties
  <1>2. value = [i \in 1..Len(text) |-> IF text[i] = "%20" THEN " " ELSE text[i]]
    BY <1>1 DEF Decoded
  <1>3. \A i \in 1..Len(text) : text[i] \in Chars /\ value[i] \in Chars /\ value[i] # "%20"
    BY <1>2, ElementOfSeq DEF Chars
  <1> HIDE DEF value
  <1>4. value \in Seq(Chars) /\ Len(value) = Len(text) /\ DOMAIN value = 1..Len(text)
    <2>1. value = [i \in 1..Len(text) |-> value[i]]
      BY <1>2
    <2> QED
      BY <1>1, <1>3, <2>1, OfCharacters
  <1>5. ~Has(value, {"%20"})
    BY <1>3, <1>4 DEF Has
  <1>6. ASSUME ~Has(text, {"%20"}) PROVE value = text
    <2>1. \A i \in 1..Len(text) : text[i] # "%20"
      BY <1>1, <1>6 DEF Has
    <2>2. \A i \in 1..Len(text) : value[i] = text[i]
      BY <1>2, <2>1
    <2> QED
      BY <1>4, <2>2, SeqEqual
  <1> QED
    BY <1>4, <1>5, <1>6 DEF value

\* How the value read relates to a text that the module writes as it is.
ReadAs(text, value) ==
    /\ ~Has(value, FormChars)
    /\ value = text => ~Has(text, FormChars) /\ (Has(text, {"wide"}) => Has(text, {"%"}))
    /\ ~Has(text, FormChars) /\ ~Has(text, {"wide"}) => value = text

\* What NGSI Adapter makes of a text that the module writes as it is.
LEMMA ModuleText ==
    ASSUME NEW text \in Seq(Chars), source = "module"
    PROVE  QueryValue(text) \in Seq(Chars) /\ ReadAs(text, QueryValue(text))
  <1> DEFINE form == FormValue(text)
             bytes == BytesAsChars(form)
             value == QueryValue(text)
  <1>1. /\ form \in Seq(Chars) /\ ~Has(form, FormChars)
        /\ form = text <=> ~Has(text, FormChars)
        /\ Has(form, {"wide"}) => Has(text, {"wide"})
        /\ ~Has(text, FormChars) => Parameter(text) = text
    BY FormValueIs
  <1>2. value = IF Has(Parameter(text), {"%"}) THEN form ELSE bytes
    <2>1. source # "client"
      OBVIOUS
    <2> QED
      BY <2>1 DEF QueryValue
  <1>3. value = form \/ value = bytes
    BY <1>2
  <1> HIDE DEF form
  <1>4. /\ bytes \in Seq(Chars)
        /\ ~Has(form, {"wide"}) => bytes = form
        /\ Has(form, {"wide"}) => Len(bytes) > Len(form)
        /\ Has(bytes, FormChars) => Has(form, FormChars)
    BY <1>1, TextBytes
  <1> HIDE DEF bytes, value
  <1>5. value \in Seq(Chars) /\ ~Has(value, FormChars)
    BY <1>1, <1>3, <1>4
  <1>6. ASSUME ~Has(text, FormChars), ~Has(text, {"wide"}) PROVE value = text
    BY <1>1, <1>3, <1>4, <1>6
  <1>7. ASSUME value = text PROVE ~Has(text, FormChars)
    BY <1>5, <1>7
  <1>8. ASSUME value = text, Has(text, {"wide"}) PROVE Has(text, {"%"})
    <2>1. form = text /\ Parameter(text) = text
      BY <1>1, <1>7, <1>8
    <2>2. Len(form) \in Nat /\ Len(bytes) > Len(form) /\ Len(bytes) \in Nat
      BY <1>1, <1>4, <1>8, <2>1, LenProperties
    <2>3. bytes # text
      BY <2>1, <2>2
    <2> QED
      BY <1>2, <1>8, <2>1, <2>3
  <1> QED
    BY <1>5, <1>6, <1>7, <1>8 DEF ReadAs, value

----------------------------------------------------------------------------
\* The API that the path of the URL names.

\* A short sequence is its length and its elements.
LEMMA ShortSequence ==
    ASSUME NEW S, NEW s \in Seq(S)
    PROVE  /\ \A u : s = <<u>> <=> Len(s) = 1 /\ s[1] = u
           /\ \A u, v : s = <<u, v>> <=> Len(s) = 2 /\ s[1] = u /\ s[2] = v
           /\ \A u, v, w : s = <<u, v, w>> <=> Len(s) = 3 /\ s[1] = u /\ s[2] = v /\ s[3] = w
  <1>0. s = [i \in 1..Len(s) |-> s[i]]
    OBVIOUS
  <1>1. ASSUME NEW u PROVE s = <<u>> <=> Len(s) = 1 /\ s[1] = u
    <2>1. s = <<u>> => Len(s) = 1 /\ s[1] = u
      OBVIOUS
    <2>2. Len(s) = 1 /\ s[1] = u => s = <<u>>
      BY <1>0
    <2> QED
      BY <2>1, <2>2
  <1>2. ASSUME NEW u, NEW v PROVE s = <<u, v>> <=> Len(s) = 2 /\ s[1] = u /\ s[2] = v
    <2>1. s = <<u, v>> => Len(s) = 2 /\ s[1] = u /\ s[2] = v
      OBVIOUS
    <2>2. Len(s) = 2 /\ s[1] = u /\ s[2] = v => s = <<u, v>>
      BY <1>0
    <2> QED
      BY <2>1, <2>2
  <1>3. ASSUME NEW u, NEW v, NEW w
        PROVE  s = <<u, v, w>> <=> Len(s) = 3 /\ s[1] = u /\ s[2] = v /\ s[3] = w
    <2>1. s = <<u, v, w>> => Len(s) = 3 /\ s[1] = u /\ s[2] = v /\ s[3] = w
      OBVIOUS
    <2>2. Len(s) = 3 /\ s[1] = u /\ s[2] = v /\ s[3] = w => s = <<u, v, w>>
      BY <1>0
    <2> QED
      BY <2>1, <2>2
  <1> QED
    BY <1>1, <1>2, <1>3

LEMMA TrimmedIs ==
    ASSUME NEW path \in BrokerPaths
    PROVE  /\ Trimmed(path) \in Seq(PathParts) /\ Trimmed(path) # <<>>
           /\ Trimmed(path)[1] = "/"
           /\ Trimmed(path) = <<"/">> <=> path \in {<<"/">>, <<"/", "/">>}
           /\ \A v \in PathParts \ {"/"} :
                 Trimmed(path) = <<"/", v>> <=> path \in {<<"/", v>>, <<"/", v, "/">>}
  <1> DEFINE front == Trimmed(path)
             size == Len(path)
  <1>1. path \in Seq(PathParts) /\ path # <<>> /\ path[1] = "/"
    BY BrokerPathsAssumption
  <1>2. size \in Nat \ {0} /\ DOMAIN path = 1..size
    BY <1>1
  <1>3. /\ \A u : path = <<u>> <=> size = 1 /\ path[1] = u
        /\ \A u, v : path = <<u, v>> <=> size = 2 /\ path[1] = u /\ path[2] = v
        /\ \A u, v, w : path = <<u, v, w>> <=> size = 3 /\ path[1] = u /\ path[2] = v /\ path[3] = w
    BY <1>1, ShortSequence
  <1>4. CASE size > 1 /\ path[size] = "/"
    <2>1. front = SubSeq(path, 1, size - 1)
      BY <1>4 DEF Trimmed, Last, Front
    <2>2. /\ front \in Seq(PathParts) /\ Len(front) = size - 1
          /\ \A i \in 1..(size - 1) : front[i] = path[i]
      BY <1>1, <1>2, <1>4, <2>1
    <2> HIDE DEF front
    <2>3. /\ \A u : front = <<u>> <=> size - 1 = 1 /\ front[1] = u
          /\ \A u, v : front = <<u, v>> <=> size - 1 = 2 /\ front[1] = u /\ front[2] = v
      <3>1. front \in Seq(PathParts)
        BY <2>2
      <3>2. \A u : front = <<u>> <=> Len(front) = 1 /\ front[1] = u
        BY <3>1, ShortSequence
      <3>3. \A u, v : front = <<u, v>> <=> Len(front) = 2 /\ front[1] = u /\ front[2] = v
        BY <3>1, ShortSequence
      <3> QED
        BY <2>2, <3>2, <3>3, Zenon
    <2> HIDE DEF size
    <2>4. front # <<>> /\ front[1] = "/"
      BY <1>1, <1>2, <1>4, <2>2
    <2>5. size - 1 = 1 <=> size = 2
      BY <1>2
    <2>6. front = <<"/">> <=> path \in {<<"/">>, <<"/", "/">>}
      <3>1. front = <<"/">> <=> size = 2
        BY <2>3, <2>4, <2>5
      <3>2. path = <<"/", "/">> <=> size = 2
        BY <1>1, <1>3, <1>4
      <3>3. path # <<"/">>
        BY <1>3, <1>4
      <3> QED
        BY <3>1, <3>2, <3>3
    <2>7. ASSUME NEW v \in PathParts \ {"/"}
          PROVE  front = <<"/", v>> <=> path \in {<<"/", v>>, <<"/", v, "/">>}
      <3>1. size - 1 = 2 <=> size = 3
        BY <1>2
      <3>2. size = 3 => front[2] = path[2]
        BY <2>2
      <3>3. path # <<"/", v>>
        BY <1>3, <1>4
      <3> QED
        <4>1. front = <<"/", v>> <=> size = 3 /\ path[2] = v
          BY <2>3, <2>4, <3>1, <3>2
        <4>2. path = <<"/", v, "/">> <=> size = 3 /\ path[2] = v
          BY <1>1, <1>3, <1>4
        <4> QED
          BY <3>3, <4>1, <4>2
    <2> QED
      BY <2>2, <2>4, <2>6, <2>7 DEF front
  <1>5. CASE ~(size > 1 /\ path[size] = "/")
    <2>1. front = path
      BY <1>5 DEF Trimmed, Last
    <2> HIDE DEF size
    <2>2. path # <<"/", "/">> /\ \A v : path # <<"/", v, "/">>
      BY <1>3, <1>5
    <2> HIDE DEF front
    <2> QED
      BY <1>1, <2>1, <2>2 DEF front
  <1> QED
    BY <1>4, <1>5

LEMMA ApiNamed ==
    ASSUME NEW path \in BrokerPaths
    PROVE  /\ ApiOf(path) \in {BROKER_API_V0, BROKER_API_V1} <=>
                 Trimmed(path) = <<"/">> \/ \E v \in OlderNames : Trimmed(path) = <<"/", v>>
           /\ ApiOf(path) = BROKER_API_V2 <=> \E v \in V2Names : Trimmed(path) = <<"/", v>>
  <1> DEFINE whole == Trimmed(path)
             name == Tail(whole)
             low == Lower(name)
  <1>1. whole \in Seq(PathParts) /\ whole # <<>> /\ whole[1] = "/"
    BY TrimmedIs
  <1>2. ApiOf(path) = IF whole = <<"/">> THEN BROKER_API_V0 ELSE low
    BY DEF ApiOf
  <1> HIDE DEF whole
  <1>3. /\ name \in Seq(PathParts) /\ Len(name) = Len(whole) - 1 /\ Len(whole) \in Nat \ {0}
        /\ \A i \in 1..(Len(whole) - 1) : name[i] = whole[i + 1]
    BY <1>1
  <1> HIDE DEF name
  <1>4. /\ DOMAIN name = 1..Len(name) /\ Len(name) \in Nat
        /\ \A i \in 1..Len(name) : name[i] \in PathParts
    BY <1>3, ElementOfSeq, LenProperties
  <1>5. \A i \in 1..Len(name) : low[i] = CASE name[i] = "NGSI10" -> "ngsi10"
                                           [] name[i] = "V1" -> "v1"
                                           [] name[i] = "V2" -> "v2"
                                           [] OTHER -> name[i]
    BY <1>4 DEF Lower
  <1>6. low \in Seq(PathParts) /\ Len(low) = Len(name)
    <2>1. \A i \in 1..Len(name) : low[i] \in PathParts
      BY <1>4, <1>5 DEF PathParts
    <2>2. low = [i \in 1..Len(name) |-> low[i]]
      BY <1>4 DEF Lower
    <2> HIDE DEF low
    <2> QED
      BY <1>4, <2>1, <2>2
  <1> HIDE DEF low
  <1>7. /\ \A u : low = <<u>> <=> Len(low) = 1 /\ low[1] = u
        /\ \A v : whole = <<"/", v>> <=> Len(whole) = 2 /\ whole[2] = v
    <2>1. \A u, v : whole = <<u, v>> <=> Len(whole) = 2 /\ whole[1] = u /\ whole[2] = v
      BY <1>1, ShortSequence
    <2>2. \A u : low = <<u>> <=> Len(low) = 1 /\ low[1] = u
      <3>1. low \in Seq(PathParts)
        BY <1>6
      <3> QED
        BY <3>1, ShortSequence
    <2> QED
      BY <1>1, <2>1, <2>2
  <1>8. Len(low) = 1 <=> Len(whole) = 2
    BY <1>3, <1>4, <1>6
  <1>9. Len(whole) = 2 => name[1] = whole[2] /\ 1 \in 1..Len(name)
    BY <1>3
  <1>10. /\ low \in {BROKER_API_V0, BROKER_API_V1} <=> \E v \in OlderNames : whole = <<"/", v>>
         /\ low = BROKER_API_V2 <=> \E v \in V2Names : whole = <<"/", v>>
    <2>1. CASE Len(whole) = 2
      <3>1. low = <<low[1]>> /\ whole = <<"/", name[1]>>
        BY <1>7, <1>8, <1>9, <2>1
      <3>2. low[1] = CASE name[1] = "NGSI10" -> "ngsi10"
                       [] name[1] = "V1" -> "v1"
                       [] name[1] = "V2" -> "v2"
                       [] OTHER -> name[1]
        BY <1>5, <1>9, <2>1
      <3>3. /\ low[1] \in {"ngsi10", "v1"} <=> name[1] \in OlderNames
            /\ low[1] = "v2" <=> name[1] \in V2Names
        BY <3>2 DEF OlderNames, V2Names
      <3>4. /\ low \in {BROKER_API_V0, BROKER_API_V1} <=> low[1] \in {"ngsi10", "v1"}
            /\ low = BROKER_API_V2 <=> low[1] = "v2"
        BY <1>7, <1>8, <2>1 DEF BROKER_API_V0, BROKER_API_V1, BROKER_API_V2
      <3>5. \A v : whole = <<"/", v>> <=> v = name[1]
        BY <1>7, <1>9, <2>1
      <3> QED
        BY <3>3, <3>4, <3>5
    <2>2. CASE Len(whole) # 2
      <3>1. low \notin {BROKER_API_V0, BROKER_API_V1} /\ low # BROKER_API_V2
        BY <1>7, <1>8, <2>2 DEF BROKER_API_V0, BROKER_API_V1, BROKER_API_V2
      <3> QED
        BY <1>7, <2>2, <3>1
    <2> QED
      BY <2>1, <2>2
  <1>11. CASE whole = <<"/">>
    <2>1. Len(whole) # 2
      BY <1>11
    <2>2. \A v : whole # <<"/", v>>
      BY <1>7, <2>1
    <2>3. ApiOf(path) = BROKER_API_V0 /\ BROKER_API_V0 # BROKER_API_V2
      BY <1>2, <1>11 DEF BROKER_API_V0, BROKER_API_V2
    <2> QED
      BY <1>11, <2>2, <2>3 DEF whole
  <1>12. CASE whole # <<"/">>
    BY <1>2, <1>10, <1>12 DEF whole
  <1> QED
    BY <1>11, <1>12

LEMMA ApiIs ==
    ASSUME brokerPath \in BrokerPaths, brokerApi = ApiOf(brokerPath)
    PROVE  /\ brokerApi \in {BROKER_API_V0, BROKER_API_V1} <=> OlderApi
           /\ brokerApi = BROKER_API_V2 <=> UrlNames(V2Names)
           /\ brokerApi = BROKER_API_V2 => brokerApi \notin {BROKER_API_V0, BROKER_API_V1}
  <1>1. OlderNames \subseteq PathParts \ {"/"} /\ V2Names \subseteq PathParts \ {"/"}
    BY DEF OlderNames, V2Names, PathParts
  <1>2. /\ \A v \in OlderNames : Trimmed(brokerPath) = <<"/", v>> <=>
                                  brokerPath \in {<<"/", v>>, <<"/", v, "/">>}
        /\ \A v \in V2Names : Trimmed(brokerPath) = <<"/", v>> <=>
                               brokerPath \in {<<"/", v>>, <<"/", v, "/">>}
        /\ Trimmed(brokerPath) = <<"/">> <=> brokerPath \in {<<"/">>, <<"/", "/">>}
    BY <1>1, TrimmedIs
  <1>3. brokerApi \in {BROKER_API_V0, BROKER_API_V1} <=> OlderApi
    BY <1>2, ApiNamed DEF OlderApi, UrlNames
  <1>4. brokerApi = BROKER_API_V2 <=> UrlNames(V2Names)
    BY <1>2, ApiNamed DEF UrlNames
  <1> QED
    BY <1>3, <1>4 DEF BROKER_API_V0, BROKER_API_V1, BROKER_API_V2

----------------------------------------------------------------------------
\* The request.  From the time it is built until the next, its entity is what the
\* query of the source was read as, and passed the checks; bytes are left over only
\* by a body with wide characters, which API v2 never has.

Text == Content(UpdateBody(entity))

Built ==
    /\ asked \in Entities
    /\ Accepted(asked)
    /\ entity = Query(asked)
    /\ ~Unescaped(UpdatePath(entity))

RequestInv ==
    /\ brokerPath \in BrokerPaths
    /\ brokerApi = ApiOf(brokerPath)
    /\ source \in Sources
    /\ asked \in Entities \cup {Nameless}
    /\ entity \in [id : Seq(Chars), type : Seq(Chars)]
    /\ outcome \in {"none", "failed", "built", "refused", "performed"}
    /\ leftover \in Nat
    /\ lastWide \in BOOLEAN /\ afterWide \in BOOLEAN
    /\ updated \in [id : Seq(Chars), type : Seq(Chars)]
    /\ leftover > 0 => lastWide /\ brokerApi # BROKER_API_V2
    /\ outcome \in {"built", "refused", "performed"} => Built
    /\ outcome = "performed" => /\ ~Has(Text, {"wide"})
                               /\ updated = Target(UpdatePath(entity), UpdateBody(entity))
                               /\ updated # Nameless
    /\ outcome = "refused" => \/ afterWide /\ brokerApi # BROKER_API_V2
                             \/ Has(Text, {"wide"})
                             \/ Target(UpdatePath(entity), UpdateBody(entity)) = Nameless

LEMMA HasConcat ==
    ASSUME NEW a \in Seq(Chars), NEW b \in Seq(Chars), NEW chars
    PROVE  Has(a \o b, chars) <=> Has(a, chars) \/ Has(b, chars)
  <1> DEFINE ab == a \o b
  <1>1. /\ Len(a) \in Nat /\ DOMAIN a = 1..Len(a)
        /\ Len(b) \in Nat /\ DOMAIN b = 1..Len(b)
        /\ DOMAIN ab = 1..(Len(a) + Len(b))
        /\ \A i \in 1..Len(a) : ab[i] = a[i]
        /\ \A i \in 1..Len(b) : ab[Len(a) + i] = b[i]
        /\ \A i \in 1..(Len(a) + Len(b)) : i \in 1..Len(a) \/ i - Len(a) \in 1..Len(b)
    OBVIOUS
  <1> HIDE DEF ab
  <1>2. ASSUME Has(ab, chars) PROVE Has(a, chars) \/ Has(b, chars)
    <2>1. PICK i \in DOMAIN ab : ab[i] \in chars
      BY <1>2 DEF Has
    <2>2. CASE i \in 1..Len(a)
      BY <1>1, <2>1, <2>2 DEF Has
    <2>3. CASE i \notin 1..Len(a)
      <3> DEFINE k == i - Len(a)
      <3>1. k \in 1..Len(b) /\ Len(a) + k = i
        BY <1>1, <2>1, <2>3
      <3> HIDE DEF k
      <3>2. b[k] \in chars
        BY <1>1, <2>1, <3>1
      <3> QED
        BY <1>1, <3>1, <3>2 DEF Has
    <2> QED
      BY <2>2, <2>3
  <1>3. ASSUME Has(a, chars) PROVE Has(ab, chars)
    <2>1. PICK i \in 1..Len(a) : a[i] \in chars
      BY <1>1, <1>3 DEF Has
    <2>2. i \in DOMAIN ab /\ ab[i] \in chars
      BY <1>1, <2>1
    <2> QED
      BY <2>2 DEF Has
  <1>4. ASSUME Has(b, chars) PROVE Has(ab, chars)
    <2>1. PICK i \in 1..Len(b) : b[i] \in chars
      BY <1>1, <1>4 DEF Has
    <2>2. Len(a) + i \in DOMAIN ab /\ ab[Len(a) + i] \in chars
      BY <1>1, <2>1
    <2> QED
      BY <2>2 DEF Has
  <1> QED
    BY <1>2, <1>3, <1>4 DEF ab

LEMMA QueryType ==
    ASSUME NEW e \in Entities
    PROVE  /\ Query(e) \in [id : Seq(Chars), type : Seq(Chars)]
           /\ e.id \in Seq(Chars) /\ e.type \in Seq(Chars)
  <1>1. e.id \in Seq(Chars) /\ e.type \in Seq(Chars)
    BY NamesAssumption DEF Entities
  <1>2. ASSUME NEW t \in Seq(Chars) PROVE QueryValue(t) \in Seq(Chars)
    <2>1. BytesAsChars(FormValue(t)) \in Seq(Chars) /\ FormValue(t) \in Seq(Chars)
      BY FormValueIs, TextBytes
    <2>2. \/ QueryValue(t) = t
          \/ QueryValue(t) = FormValue(t)
          \/ QueryValue(t) = BytesAsChars(FormValue(t))
      BY DEF QueryValue
    <2> QED
      BY <2>1, <2>2
  <1> QED
    BY <1>1, <1>2 DEF Query

\* The text of the body, and the bytes that its length leaves out.
LEMMA BodyText ==
    ASSUME entity \in [id : Seq(Chars), type : Seq(Chars)]
    PROVE  /\ Text \in Seq(Chars)
           /\ brokerApi = BROKER_API_V2 => ~Has(Text, {"wide"})
           /\ brokerApi # BROKER_API_V2 =>
                 (Has(Text, {"wide"}) <=> Has(entity.id \o entity.type, {"wide"}))
           /\ Bytes(Text) - ContentLength(Text) \in Nat
           /\ Bytes(Text) - ContentLength(Text) = 0 <=> ~Has(Text, {"wide"})
  <1>1. entity.id \in Seq(Chars) /\ entity.type \in Seq(Chars)
    OBVIOUS
  <1>2. ContextAttrs \in Seq(Chars) /\ ~Has(ContextAttrs, {"wide"})
    <2>1. "a" \in Chars
      BY DEF Chars
    <2>2. ContextAttrs \in Seq(Chars)
      BY <2>1 DEF ContextAttrs
    <2>3. ~Has(ContextAttrs, {"wide"})
      BY DEF ContextAttrs, Has
    <2> QED
      BY <2>2, <2>3
  <1>3. brokerApi = BROKER_API_V2 => Text = ContextAttrs
    BY DEF Text, Content, UpdateBody
  <1>4. brokerApi # BROKER_API_V2 => Text = entity.id \o entity.type \o ContextAttrs
    BY DEF Text, Content, UpdateBody
  <1>5. entity.id \o entity.type \in Seq(Chars)
    BY <1>1
  <1>e. (entity.id \o entity.type) \o ContextAttrs \in Seq(Chars)
    BY <1>2, <1>5, ConcatProperties
  <1>6. Text \in Seq(Chars)
    BY <1>2, <1>3, <1>4, <1>e
  <1>7. brokerApi # BROKER_API_V2 =>
           (Has(Text, {"wide"}) <=> Has(entity.id \o entity.type, {"wide"}))
    <2>1. Has((entity.id \o entity.type) \o ContextAttrs, {"wide"})
             <=> Has(entity.id \o entity.type, {"wide"})
      BY <1>2, <1>5, HasConcat
    <2> QED
      BY <1>4, <2>1
  <1>8. /\ Bytes(Text) - ContentLength(Text) \in Nat
        /\ Bytes(Text) - ContentLength(Text) = 0 <=> ~Has(Text, {"wide"})
    <2> DEFINE more == BytesAsChars(Text)
    <2>1. /\ more \in Seq(Chars)
          /\ Len(more) >= Len(Text)
          /\ ~Has(Text, {"wide"}) => more = Text
          /\ Has(Text, {"wide"}) => Len(more) > Len(Text)
      BY <1>6, TextBytes
    <2> HIDE DEF more
    <2>2. Len(more) \in Nat /\ Len(Text) \in Nat
      BY <1>6, <2>1
    <2>3. Bytes(Text) = Len(more) /\ ContentLength(Text) = Len(Text)
      BY DEF Bytes, ContentLength, more
    <2> QED
      BY <2>1, <2>2, <2>3
  <1> QED
    BY <1>2, <1>3, <1>6, <1>7, <1>8

LEMMA TargetType ==
    ASSUME entity \in [id : Seq(Chars), type : Seq(Chars)]
    PROVE  Target(UpdatePath(entity), UpdateBody(entity)) \in [id : Seq(Chars), type : Seq(Chars)]
  <1>1. Nameless \in [id : Seq(Chars), type : Seq(Chars)]
    BY DEF Nameless
  <1>2. CASE brokerApi \in {BROKER_API_V0, BROKER_API_V1}
    <2>1. brokerApi # BROKER_API_V2
      BY <1>2 DEF BROKER_API_V0, BROKER_API_V1, BROKER_API_V2
    <2>2. UpdateBody(entity) = [id |-> entity.id, type |-> entity.type, attrs |-> ContextAttrs]
      BY <2>1 DEF UpdateBody
    <2>3. Target(UpdatePath(entity), UpdateBody(entity))
             = [id |-> UpdateBody(entity).id, type |-> UpdateBody(entity).type]
      BY <1>2, <2>1 DEF Target
    <2>4. UpdateBody(entity).id = entity.id /\ UpdateBody(entity).type = entity.type
      BY <2>2
    <2> QED
      BY <2>3, <2>4
  <1>3. CASE brokerApi \notin {BROKER_API_V0, BROKER_API_V1} /\ brokerApi = BROKER_API_V2
    <2>1. UpdatePath(entity) = entity
      BY <1>3 DEF UpdatePath
    <2>2. FormValue(entity.type) \in Seq(Chars) /\ Decoded(entity.id) \in Seq(Chars)
      BY FormValueIs, DecodedIs
    <2> QED
      BY <1>1, <1>3, <2>1, <2>2 DEF Target
  <1>4. CASE brokerApi \notin {BROKER_API_V0, BROKER_API_V1} /\ brokerApi # BROKER_API_V2
    BY <1>1, <1>4 DEF Target
  <1> QED
    BY <1>2, <1>3, <1>4

LEMMA RequestStart ==
    Init => RequestInv
  <1>1. Nameless \in [id : Seq(Chars), type : Seq(Chars)]
    BY DEF Nameless
  <1> SUFFICES ASSUME Init PROVE RequestInv
    OBVIOUS
  <1>2. /\ brokerPath \in BrokerPaths /\ brokerApi = ApiOf(brokerPath) /\ source \in Sources
        /\ asked = Nameless /\ entity = Nameless /\ outcome = "none" /\ leftover = 0
        /\ lastWide = FALSE /\ afterWide = FALSE /\ updated = Nameless
    BY DEF Init
  <1>3. lastWide \in BOOLEAN /\ afterWide \in BOOLEAN
    BY <1>2
  <1>4. leftover \in Nat /\ ~(leftover > 0)
    BY <1>2
  <1>5. asked \in Entities \cup {Nameless}
    BY <1>2
  <1>6. /\ entity \in [id : Seq(Chars), type : Seq(Chars)]
        /\ updated \in [id : Seq(Chars), type : Seq(Chars)]
    BY <1>1, <1>2
  <1> QED
    BY <1>2, <1>3, <1>4, <1>5, <1>6 DEF RequestInv

LEMMA RequestBuilt ==
    ASSUME RequestInv, GetUpdateRequest
    PROVE  RequestInv'
  <1> USE DEF RequestInv
  <1>1. PICK e \in Entities : Accepted(e) /\ asked' = e /\ entity' = Query(e)
    BY DEF GetUpdateRequest
  <1>2. /\ outcome' \in {"failed", "built"}
        /\ outcome' = "built" => ~Unescaped(UpdatePath(entity'))
    BY DEF GetUpdateRequest
  <1>3. UNCHANGED <<brokerPath, brokerApi, source, leftover, lastWide, afterWide, updated>>
    BY DEF GetUpdateRequest
  <1>4. entity' \in [id : Seq(Chars), type : Seq(Chars)]
    BY <1>1, QueryType
  <1>5. outcome' = "built" => Built'
    <2>1. Accepted(e)' /\ Query(e)' = Query(e)
      BY <1>1, <1>3 DEF Accepted, Query, QueryValue
    <2>2. UpdatePath(entity)' = UpdatePath(entity')
      BY <1>3 DEF UpdatePath
    <2> QED
      BY <1>1, <1>2, <2>1, <2>2 DEF Built, Accepted, Query, QueryValue, Unescaped
  <1> QED
    BY <1>1, <1>2, <1>3, <1>4, <1>5

\* What a step that keeps the request keeps of the invariant.
LEMMA SameRequest ==
    ASSUME UNCHANGED <<brokerPath, brokerApi, source, asked, entity>>
    PROVE  /\ Built' = Built
           /\ Text' = Text
           /\ Target(UpdatePath(entity), UpdateBody(entity))'
                 = Target(UpdatePath(entity), UpdateBody(entity))
  BY DEF Built, Accepted, Query, QueryValue, Unescaped, UpdatePath, Text, UpdateBody, Target

LEMMA RequestSent ==
    ASSUME RequestInv, NEW reused \in BOOLEAN, SendUpdate(reused)
    PROVE  RequestInv'
  <1> DEFINE target == Target(UpdatePath(entity), UpdateBody(entity))
  <1>1. /\ outcome = "built"
        /\ leftover' = Bytes(Text) - ContentLength(Text)
        /\ updated' = IF leftover' # 0 THEN Nameless ELSE target
        /\ outcome' = IF updated' = Nameless THEN "refused" ELSE "performed"
        /\ lastWide' = Has(Text, {"wide"})
        /\ afterWide' = (reused /\ lastWide)
        /\ UNCHANGED <<brokerPath, brokerApi, source, asked, entity>>
    BY DEF SendUpdate, Text
  <1>2. /\ entity \in [id : Seq(Chars), type : Seq(Chars)]
        /\ Built /\ lastWide \in BOOLEAN
    BY <1>1 DEF RequestInv
  <1>3. Built' /\ Text' = Text /\ target' = target
    BY <1>1, <1>2, SameRequest
  <1>4. /\ target \in [id : Seq(Chars), type : Seq(Chars)]
        /\ Nameless \in [id : Seq(Chars), type : Seq(Chars)]
    BY <1>2, TargetType DEF Nameless
  <1>5. /\ leftover' \in Nat
        /\ leftover' = 0 <=> ~Has(Text, {"wide"})
        /\ brokerApi = BROKER_API_V2 => ~Has(Text, {"wide"})
    BY <1>1, <1>2, BodyText
  <1>6. lastWide' \in BOOLEAN /\ afterWide' \in BOOLEAN
    BY <1>1, <1>2 DEF Has
  <1> HIDE DEF target
  <1>7. leftover' > 0 => lastWide' /\ brokerApi' # BROKER_API_V2
    BY <1>1, <1>5
  <1>8. updated' \in [id : Seq(Chars), type : Seq(Chars)]
    BY <1>1, <1>4
  <1>9. outcome' = "performed" => /\ ~Has(Text', {"wide"})
                                /\ updated' = target'
                                /\ updated' # Nameless
    BY <1>1, <1>3, <1>5
  <1>10. outcome' = "refused" => Has(Text', {"wide"}) \/ target' = Nameless
    BY <1>1, <1>3, <1>5
  <1> QED
    BY <1>1, <1>2, <1>3, <1>5, <1>6, <1>7, <1>8, <1>9, <1>10 DEF RequestInv, target

LEMMA RequestSpoiled ==
    ASSUME RequestInv, SendSpoiled
    PROVE  RequestInv'
  <1>1. /\ outcome = "built" /\ leftover > 0 /\ leftover' = 0
        /\ updated' = Nameless /\ outcome' \in {"refused", "built"}
        /\ lastWide' = FALSE /\ afterWide' = lastWide
        /\ UNCHANGED <<brokerPath, brokerApi, source, asked, entity>>
    BY DEF SendSpoiled
  <1>2. Built' /\ lastWide /\ brokerApi' # BROKER_API_V2
    BY <1>1, SameRequest DEF RequestInv
  <1>3. updated' \in [id : Seq(Chars), type : Seq(Chars)]
    BY <1>1 DEF Nameless
  <1>4. lastWide' \in BOOLEAN /\ afterWide' \in BOOLEAN /\ afterWide'
    BY <1>1, <1>2 DEF RequestInv
  <1>5. /\ brokerPath' \in BrokerPaths /\ brokerApi' = ApiOf(brokerPath')
        /\ source' \in Sources /\ asked' \in Entities \cup {Nameless}
        /\ entity' \in [id : Seq(Chars), type : Seq(Chars)]
    BY <1>1 DEF RequestInv
  <1>6. leftover' \in Nat /\ ~(leftover' > 0)
    BY <1>1
  <1> QED
    BY <1>1, <1>2, <1>3, <1>4, <1>5, <1>6 DEF RequestInv

LEMMA RequestNext ==
    ASSUME RequestInv, NextRequest
    PROVE  RequestInv'
  <1>1. /\ source' \in Sources /\ asked' = Nameless /\ entity' = Nameless
        /\ outcome' = "none" /\ afterWide' = FALSE /\ updated' = Nameless
        /\ UNCHANGED <<brokerPath, brokerApi, leftover, lastWide>>
    BY DEF NextRequest
  <1>2. Nameless \in [id : Seq(Chars), type : Seq(Chars)]
    BY DEF Nameless
  <1> QED
    BY <1>1, <1>2 DEF RequestInv

LEMMA RequestKept ==
    ASSUME RequestInv, UNCHANGED updateVars
    PROVE  RequestInv'
  <1>1. /\ UNCHANGED <<brokerPath, brokerApi, source, asked, entity>>
        /\ UNCHANGED <<outcome, leftover, lastWide, afterWide, updated>>
    BY DEF updateVars
  <1> QED
    BY <1>1, SameRequest DEF RequestInv

\* A request that was built names what was asked, after all the checks of the listener
\* and of http.request (adapter.js:160-172), and only a body of the older API with wide
\* characters leaves bytes behind on the connection (base.js:93).
THEOREM RequestAccount == Spec => []RequestInv
  <1>1. RequestInv /\ [Next]_vars => RequestInv'
    <2> SUFFICES ASSUME RequestInv, [Next]_vars PROVE RequestInv'
      OBVIOUS
    <2>1. CASE ParseRequest
      BY <2>1, RequestKept DEF ParseRequest
    <2>2. CASE GetUpdateRequest
      BY <2>2, RequestBuilt
    <2>3. ASSUME NEW reused \in BOOLEAN, SendUpdate(reused) PROVE RequestInv'
      BY <2>3, RequestSent
    <2>4. CASE SendSpoiled
      BY <2>4, RequestSpoiled
    <2>5. CASE NextRequest
      BY <2>5, RequestNext
    <2>6. CASE UNCHANGED vars
      BY <2>6, RequestKept DEF vars
    <2> QED
      BY <2>1, <2>2, <2>3, <2>4, <2>5, <2>6 DEF Next
  <1> QED
    BY <1>1, RequestStart, PTL DEF Spec

\* Types of the parse and of the request, for any number of lines and any names.
THEOREM RequestTypes == Spec => []TypeOK
  <1>1. ASSUME ParserInv, RequestInv PROVE TypeOK
    <2>1. CASE stage = "idle"
      <3>1. /\ body = <<>> /\ next = 1 /\ data = <<>> /\ perfData = <<>> /\ Len(body) = 0
        BY <1>1, <2>1 DEF ParserInv, Idle
      <3>2. /\ next \in 1..(Len(body) + (IF stage \in {"parsed", "idle"} THEN 1 ELSE 0))
            /\ data \in Seq(1..Len(body)) /\ perfData \in Seq(1..Len(body))
        BY <2>1, <3>1
      <3> QED
        BY <1>1, <3>1, <3>2 DEF TypeOK, ParserInv, RequestInv
    <2>2. CASE stage \in {"parsing", "parsed"}
      <3>1. ReadFine /\ next <= Len(body) + (IF stage = "parsed" THEN 1 ELSE 0)
        <4>1. ReadFine => Len(body) \in Nat \ {0}
          BY BodyLines DEF ReadFine
        <4> QED
          BY <1>1, <2>2, <4>1 DEF ParserInv
      <3>2. body \in Bodies /\ Len(body) \in Nat \ {0} /\ next \in 1..(Len(body) + 1)
        BY <3>1, BodyLines DEF ReadFine
      <3>3. data \in Seq(1..Len(body)) /\ perfData \in Seq(1..Len(body))
        <4>1. 1..(next - 1) \subseteq 1..Len(body)
          BY <3>2
        <4> QED
          BY <3>1, <4>1, ReadTypes, SeqMonotonic
      <3>4. next \in 1..(Len(body) + (IF stage \in {"parsed", "idle"} THEN 1 ELSE 0))
        BY <2>2, <3>1, <3>2
      <3> QED
        BY <1>1, <2>2, <3>2, <3>3, <3>4 DEF TypeOK, ParserInv, RequestInv
    <2>3. CASE stage = "invalid"
      <3>1. body \in Bodies /\ Len(body) \in Nat \ {0}
        BY <1>1, <2>3, BodyLines DEF ParserInv
      <3>2. next \in 1..(Len(body) + (IF stage \in {"parsed", "idle"} THEN 1 ELSE 0))
        BY <1>1, <2>3, <3>1 DEF ParserInv
      <3> QED
        BY <1>1, <2>3, <3>1, <3>2 DEF TypeOK, ParserInv, RequestInv
    <2> QED
      BY <1>1, <2>1, <2>2, <2>3 DEF ParserInv
  <1> QED
    BY <1>1, ParserAccount, RequestAccount, PTL

----------------------------------------------------------------------------
\* The entity updated.

\* The entity that the broker reads in a path of API v2.
InPath == [id |-> Decoded(entity.id), type |-> FormValue(entity.type)]

\* What the broker takes out of a request, by the API that the URL names.
LEMMA TargetIs ==
    ASSUME RequestInv
    PROVE  /\ OlderApi =>
                 Target(UpdatePath(entity), UpdateBody(entity)) = entity
           /\ UrlNames(V2Names) =>
                 Target(UpdatePath(entity), UpdateBody(entity)) =
                    IF Readable(entity) THEN InPath ELSE Nameless
           /\ ~OlderApi /\ ~UrlNames(V2Names) =>
                 Target(UpdatePath(entity), UpdateBody(entity)) = Nameless
  <1>1. ASSUME OlderApi
        PROVE  Target(UpdatePath(entity), UpdateBody(entity)) = entity
    <2>1. brokerApi \in {BROKER_API_V0, BROKER_API_V1} /\ brokerApi # BROKER_API_V2
      BY <1>1, ApiIs DEF RequestInv
    <2>2. UpdateBody(entity) = [id |-> entity.id, type |-> entity.type, attrs |-> ContextAttrs]
      BY <2>1 DEF UpdateBody
    <2>3. Target(UpdatePath(entity), UpdateBody(entity))
             = [id |-> UpdateBody(entity).id, type |-> UpdateBody(entity).type]
      BY <2>1 DEF Target
    <2>4. UpdateBody(entity).id = entity.id /\ UpdateBody(entity).type = entity.type
      BY <2>2
    <2>5. entity \in [id : Seq(Chars), type : Seq(Chars)]
      BY <1>1 DEF RequestInv
    <2> QED
      BY <2>3, <2>4, <2>5
  <1>2. ASSUME UrlNames(V2Names)
        PROVE  Target(UpdatePath(entity), UpdateBody(entity)) =
                  IF Readable(entity) THEN InPath ELSE Nameless
    <2>1. brokerApi = BROKER_API_V2 /\ brokerApi \notin {BROKER_API_V0, BROKER_API_V1}
      BY <1>2, ApiIs DEF RequestInv
    <2>2. UpdatePath(entity) = entity
      BY <2>1 DEF UpdatePath
    <2> QED
      BY <2>1, <2>2 DEF Target, InPath
  <1>3. ASSUME ~OlderApi, ~UrlNames(V2Names)
        PROVE  Target(UpdatePath(entity), UpdateBody(entity)) = Nameless
    <2>1. brokerApi # BROKER_API_V2 /\ brokerApi \notin {BROKER_API_V0, BROKER_API_V1}
      BY <1>3, ApiIs DEF RequestInv
    <2> QED
      BY <2>1 DEF Target
  <1> QED
    BY <1>1, <1>2, <1>3

\* The entity of a request is the one asked for, for those that its source writes as
\* they are.
LEMMA EntityRead ==
    ASSUME Built, source \in Sources
    PROVE  /\ asked = [id |-> asked.id, type |-> asked.type]
           /\ asked.id \in Seq(Chars) /\ asked.type \in Seq(Chars)
           /\ entity.id \in Seq(Chars) /\ entity.type \in Seq(Chars)
           /\ entity = [id |-> entity.id, type |-> entity.type]
           /\ entity.id # <<>> /\ entity.type # <<>>
           /\ source = "client" => entity.id = asked.id /\ entity.type = asked.type
           /\ source = "module" => /\ ReadAs(asked.id, entity.id) /\ ~Has(asked.id, {" "})
                                  /\ ReadAs(asked.type, entity.type) /\ ~Has(asked.type, {" "})
  <1>1. asked.id \in Seq(Chars) /\ asked.type \in Seq(Chars)
    BY QueryType DEF Built
  <1>2. asked = [id |-> asked.id, type |-> asked.type]
    BY DEF Built, Entities
  <1>6. entity.id # <<>> /\ entity.type # <<>>
    BY DEF Built, Accepted
  <1>3. entity.id = QueryValue(asked.id) /\ entity.type = QueryValue(asked.type)
    BY <1>6 DEF Built, Query
  <1>4. entity = [id |-> entity.id, type |-> entity.type]
    BY DEF Built, Query
  <1>5. entity.id \in Seq(Chars) /\ entity.type \in Seq(Chars)
    BY QueryType DEF Built
  <1>7. source = "client" => entity.id = asked.id /\ entity.type = asked.type
    BY <1>3 DEF QueryValue
  <1>8. ASSUME source = "module"
        PROVE  /\ ReadAs(asked.id, entity.id) /\ ~Has(asked.id, {" "})
               /\ ReadAs(asked.type, entity.type) /\ ~Has(asked.type, {" "})
    <2>1. ~Has(asked.id \o asked.type, {" "})
      BY <1>8 DEF Built, Accepted
    <2>2. ~Has(asked.id, {" "}) /\ ~Has(asked.type, {" "})
      BY <1>1, <2>1, HasConcat
    <2>3. ReadAs(asked.id, QueryValue(asked.id)) /\ ReadAs(asked.type, QueryValue(asked.type))
      BY <1>1, <1>8, ModuleText
    <2> QED
      BY <1>3, <2>2, <2>3
  <1> QED
    BY <1>1, <1>2, <1>4, <1>5, <1>6, <1>7, <1>8

\* The condition on an entity, part by part: the characters that the query of the
\* module does not keep, and those that the path of API v2 does not.
Written(text) == ~Has(text, FormChars) /\ ~Has(text, {" "}) /\ ~Has(text, {"wide"})
PathId(text) == /\ ~Has(text, {"/", "?"}) /\ ~Has(text, {"#", "%"})
                /\ ~Has(text, {" "}) /\ ~Has(text, {"%20"})
PathType(text) == ~Has(text, FormChars) /\ ~Has(text, {" "}) /\ ~Has(text, {"%"})

LEMMA PlainIs ==
    ASSUME asked.id \in Seq(Chars), asked.type \in Seq(Chars)
    PROVE  Plain(asked) <=>
              /\ source = "module" => Written(asked.id) /\ Written(asked.type)
              /\ \/ OlderApi /\ ~Has(asked.id, {"wide"}) /\ ~Has(asked.type, {"wide"})
                 \/ UrlNames(V2Names) /\ PathId(asked.id) /\ PathType(asked.type)
  <1>1. \A t : Written(t) <=> ~Has(t, {"#", "&", "+", " ", "%20", "wide"})
    BY DEF Written, Has, FormChars
  <1>2. \A t : PathId(t) <=> ~Has(t, {"/", "?", "#", " ", "%20", "%"})
    BY DEF PathId, Has
  <1>3. \A t : PathType(t) <=> ~Has(t, {"#", "&", "+", " ", "%20", "%"})
    BY DEF PathType, Has, FormChars
  <1>4. \A chars : Has(asked.id \o asked.type, chars)
                      <=> Has(asked.id, chars) \/ Has(asked.type, chars)
    BY HasConcat
  <1> QED
    BY <1>1, <1>2, <1>3, <1>4 DEF Plain

\* What the broker finds readable, part by part.
LEMMA ReadableIs ==
    ASSUME NEW e, e.id \in Seq(Chars), e.type \in Seq(Chars)
    PROVE  Readable(e) <=> /\ ~Has(e.id, {"/", "?"}) /\ ~Has(e.id, {"#", "%"})
                           /\ ~Has(e.type, {"#", "%"})
  BY HasConcat DEF Readable

LEMMA ApisApart ==
    RequestInv => ~(OlderApi /\ UrlNames(V2Names))
  BY ApiIs DEF RequestInv

\* Over an older API the update is of the entity read, if the text of the body has no
\* wide characters.
LEMMA OlderKept ==
    ASSUME RequestInv, Built, OlderApi
    PROVE  /\ Has(Text, {"wide"}) <=> Has(entity.id, {"wide"}) \/ Has(entity.type, {"wide"})
           /\ ~Has(Text, {"wide"}) => (entity = asked <=> Plain(asked))
           /\ Plain(asked) => ~Has(Text, {"wide"})
  <1>1. /\ source \in Sources /\ ~UrlNames(V2Names) /\ brokerApi # BROKER_API_V2
        /\ entity \in [id : Seq(Chars), type : Seq(Chars)]
    BY ApisApart, ApiIs DEF RequestInv
  <1>2. Has(Text, {"wide"}) <=> Has(entity.id, {"wide"}) \/ Has(entity.type, {"wide"})
    BY <1>1, BodyText, EntityRead, HasConcat
  <1>3. entity = asked <=> entity.id = asked.id /\ entity.type = asked.type
    BY <1>1, EntityRead
  <1>4. Plain(asked) <=>
           /\ source = "module" => Written(asked.id) /\ Written(asked.type)
           /\ ~Has(asked.id, {"wide"}) /\ ~Has(asked.type, {"wide"})
    BY <1>1, EntityRead, PlainIs
  <1>5. CASE source = "client"
    <2>1. entity.id = asked.id /\ entity.type = asked.type
      BY <1>1, <1>5, EntityRead
    <2> QED
      BY <1>2, <1>3, <1>4, <1>5, <2>1
  <1>6. CASE source = "module"
    <2>1. /\ ReadAs(asked.id, entity.id) /\ ~Has(asked.id, {" "})
          /\ ReadAs(asked.type, entity.type) /\ ~Has(asked.type, {" "})
      BY <1>1, <1>6, EntityRead
    <2>2. Plain(asked) <=> Written(asked.id) /\ Written(asked.type)
      BY <1>4, <1>6 DEF Written
    <2>3. Plain(asked) => entity.id = asked.id /\ entity.type = asked.type
      BY <2>1, <2>2 DEF Written, ReadAs
    <2>4. ASSUME entity = asked, ~Has(Text, {"wide"}) PROVE Plain(asked)
      <3>1. entity.id = asked.id /\ entity.type = asked.type
        BY <2>4
      <3>2. ~Has(asked.id, {"wide"}) /\ ~Has(asked.type, {"wide"})
        BY <1>2, <2>4, <3>1
      <3> QED
        BY <2>1, <2>2, <3>1, <3>2 DEF Written, ReadAs
    <2>5. Plain(asked) => ~Has(Text, {"wide"})
      BY <1>2, <2>2, <2>3 DEF Written
    <2> QED
      BY <1>2, <1>3, <2>3, <2>4, <2>5
  <1> QED
    BY <1>1, <1>2, <1>5, <1>6 DEF Sources

\* Over API v2 the update is of what the broker reads in the path.
LEMMA V2Kept ==
    ASSUME RequestInv, Built, UrlNames(V2Names)
    PROVE  /\ ~Has(Text, {"wide"})
           /\ Readable(entity) => (InPath = asked <=> Plain(asked))
           /\ Plain(asked) => Readable(entity)
  <1>1. /\ source \in Sources /\ ~OlderApi /\ brokerApi = BROKER_API_V2
        /\ entity \in [id : Seq(Chars), type : Seq(Chars)]
    BY ApisApart, ApiIs DEF RequestInv
  <1>2. ~Has(Text, {"wide"})
    BY <1>1, BodyText
  <1>t. /\ asked.id \in Seq(Chars) /\ asked.type \in Seq(Chars)
        /\ entity.id \in Seq(Chars) /\ entity.type \in Seq(Chars)
    BY <1>1, EntityRead
  <1>3. ~Has(entity.id, {" "}) /\ ~Has(entity.type, {" "})
    <2>1. ~Has(entity.id \o entity.type, {" "})
      BY <1>1 DEF Built, Unescaped, UpdatePath
    <2> QED
      BY <1>t, <2>1, HasConcat
  <1>4. InPath = asked <=> Decoded(entity.id) = asked.id /\ FormValue(entity.type) = asked.type
    <2>1. asked = [id |-> asked.id, type |-> asked.type]
      BY <1>1, EntityRead
    <2>2. \A a, b, c, d : [id |-> a, type |-> b] = [id |-> c, type |-> d] <=> a = c /\ b = d
      OBVIOUS
    <2> QED
      BY <2>1, <2>2 DEF InPath
  <1>5. Plain(asked) <=> /\ source = "module" => Written(asked.id) /\ Written(asked.type)
                         /\ PathId(asked.id) /\ PathType(asked.type)
    BY <1>1, <1>t, PlainIs
  <1>6. Readable(entity) <=> /\ ~Has(entity.id, {"/", "?"}) /\ ~Has(entity.id, {"#", "%"})
                             /\ ~Has(entity.type, {"#", "%"})
    BY <1>t, ReadableIs
  <1>7. ASSUME NEW t
        PROVE  /\ Has(t, {"#", "%"}) => Has(t, FormChars) \/ Has(t, {"%"})
               /\ Has(t, {"%"}) => Has(t, {"#", "%"})
               /\ Has(t, {"%20"}) => Has(t, FormChars)
    BY DEF Has, FormChars
  <1>8. /\ Decoded(entity.id) = entity.id <=> ~Has(entity.id, {"%20"})
        /\ FormValue(entity.type) = entity.type <=> ~Has(entity.type, FormChars)
    BY <1>t, DecodedIs, FormValueIs
  <1>9. CASE source = "client"
    <2>1. entity.id = asked.id /\ entity.type = asked.type
      BY <1>1, <1>9, EntityRead
    <2>2. Plain(asked) <=> /\ Readable(entity)
                           /\ ~Has(entity.id, {"%20"}) /\ ~Has(entity.type, FormChars)
      <3>1. Plain(asked) <=> PathId(entity.id) /\ PathType(entity.type)
        BY <1>5, <1>9, <2>1
      <3>2. /\ Has(entity.type, {"#", "%"}) => Has(entity.type, FormChars) \/ Has(entity.type, {"%"})
            /\ Has(entity.type, {"%"}) => Has(entity.type, {"#", "%"})
        BY <1>7
      <3> QED
        BY <1>3, <1>6, <3>1, <3>2 DEF PathId, PathType
    <2>3. InPath = asked <=> ~Has(entity.id, {"%20"}) /\ ~Has(entity.type, FormChars)
      BY <1>4, <1>8, <2>1
    <2> QED
      BY <1>2, <2>2, <2>3
  <1>10. CASE source = "module"
    <2>1. /\ ReadAs(asked.id, entity.id) /\ ~Has(asked.id, {" "})
          /\ ReadAs(asked.type, entity.type) /\ ~Has(asked.type, {" "})
      BY <1>1, <1>10, EntityRead
    <2>2. ~Has(entity.id, FormChars) /\ ~Has(entity.type, FormChars)
      BY <2>1 DEF ReadAs
    <2>3. InPath = asked <=> entity.id = asked.id /\ entity.type = asked.type
      <3>1. Has(entity.id, {"%20"}) => Has(entity.id, FormChars)
        BY <1>7
      <3> QED
        BY <1>4, <1>8, <2>2, <3>1
    <2>4. Plain(asked) => entity.id = asked.id /\ entity.type = asked.type
      BY <1>5, <1>10, <2>1 DEF Written, ReadAs
    <2>5. Plain(asked) => Readable(entity)
      <3>1. Has(asked.type, {"#", "%"}) => Has(asked.type, FormChars) \/ Has(asked.type, {"%"})
        BY <1>7
      <3> QED
        BY <1>5, <1>6, <2>4, <3>1 DEF PathId, PathType
    <2>6. ASSUME Readable(entity), entity.id = asked.id, entity.type = asked.type
          PROVE  Plain(asked)
      <3>1. /\ ~Has(asked.id, {"%"}) /\ ~Has(asked.type, {"%"}) /\ ~Has(asked.id, {"%20"})
            /\ ~Has(asked.id, FormChars) /\ ~Has(asked.type, FormChars)
        <4>1. /\ Has(asked.id, {"%"}) => Has(asked.id, {"#", "%"})
              /\ Has(asked.type, {"%"}) => Has(asked.type, {"#", "%"})
              /\ Has(asked.id, {"%20"}) => Has(asked.id, FormChars)
          BY <1>7
        <4> QED
          BY <1>6, <2>2, <2>6, <4>1
      <3>2. Written(asked.id) /\ Written(asked.type)
        BY <2>1, <2>6, <3>1 DEF Written, ReadAs
      <3>3. PathId(asked.id) /\ PathType(asked.type)
        BY <1>3, <1>6, <2>6, <3>1 DEF PathId, PathType
      <3> QED
        BY <1>5, <3>2, <3>3
    <2> QED
      BY <1>2, <2>3, <2>4, <2>5, <2>6
  <1> QED
    BY <1>1, <1>9, <1>10 DEF Sources

\* An update that is performed is of the entity that the source means for exactly the
\* names that no conversion on the way changes, neither the query of the module
\* (ngsi_event_broker_common.h:151), nor the path of API v2 (base.js:82), nor the
\* length of the body (base.js:93), for names of any length.
THEOREM EntityIdentified == Spec => []EntityKept
  <1>1. ASSUME RequestInv PROVE EntityKept
    <2> SUFFICES ASSUME outcome = "performed" PROVE updated = asked <=> Plain(asked)
      BY DEF EntityKept
    <2>1. /\ Built /\ source \in Sources /\ ~Has(Text, {"wide"}) /\ updated # Nameless
          /\ updated = Target(UpdatePath(entity), UpdateBody(entity))
      BY <1>1 DEF RequestInv
    <2>2. CASE OlderApi
      BY <1>1, <2>1, <2>2, TargetIs, OlderKept
    <2>3. CASE UrlNames(V2Names)
      <3>1. Readable(entity)
        BY <1>1, <2>1, <2>3, TargetIs
      <3>2. updated = InPath
        BY <1>1, <2>1, <2>3, <3>1, TargetIs
      <3> QED
        BY <1>1, <2>1, <2>3, <3>1, <3>2, V2Kept
    <2>4. CASE ~OlderApi /\ ~UrlNames(V2Names)
      BY <1>1, <2>1, <2>4, TargetIs
    <2> QED
      BY <2>2, <2>3, <2>4
  <1> QED
    BY <1>1, RequestAccount, PTL

\* The update of such an entity is refused only behind a body of an older API with
\* wide characters, on the same connection (the length of base.js:93).
THEOREM OthersSpared == Spec => []NeighbourSpared
  <1>1. ASSUME RequestInv PROVE NeighbourSpared
    <2> SUFFICES ASSUME outcome = "refused", Plain(asked) PROVE afterWide /\ OlderApi
      BY DEF NeighbourSpared
    <2>1. Built /\ source \in Sources
      BY <1>1 DEF RequestInv
    <2>2. OlderApi \/ UrlNames(V2Names)
      BY DEF Plain
    <2>3. ~Has(Text, {"wide"}) /\ Target(UpdatePath(entity), UpdateBody(entity)) # Nameless
      <3>1. CASE OlderApi
        <4>1. ~Has(Text, {"wide"}) /\ Target(UpdatePath(entity), UpdateBody(entity)) = entity
          BY <1>1, <2>1, <3>1, TargetIs, OlderKept
        <4>2. entity.id # Nameless.id
          BY <2>1, EntityRead DEF Nameless
        <4> QED
          BY <4>1, <4>2
      <3>2. CASE UrlNames(V2Names)
        <4>1. /\ ~Has(Text, {"wide"})
              /\ Target(UpdatePath(entity), UpdateBody(entity)) = InPath
          BY <1>1, <2>1, <3>2, TargetIs, V2Kept
        <4>2. entity.id # <<>> /\ entity.id \in Seq(Chars)
          BY <2>1, EntityRead
        <4>3. Len(Decoded(entity.id)) # 0
          BY <4>2, DecodedIs, EmptySeq
        <4>4. Decoded(entity.id) # <<>>
          BY <4>3
        <4> QED
          BY <4>1, <4>4 DEF InPath, Nameless
      <3> QED
        BY <2>2, <3>1, <3>2
    <2>4. afterWide /\ brokerApi # BROKER_API_V2
      BY <1>1, <2>3 DEF RequestInv
    <2> QED
      BY <1>1, <2>2, <2>4, ApiIs DEF RequestInv
  <1> QED
    BY <1>1, RequestAccount, PTL
=============================================================================
