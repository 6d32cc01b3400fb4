---------------------------- MODULE NagiosParser ----------------------------
(***************************************************************************)
(* Parsing of a Nagios probe's output: parseRequest of nagios.js, one line *)
(* at a time, and the getContextAttrs of the five probes in                *)
(* lib/parsers/nagios.  UpdateRequest makes requests out of the result.    *)
(*                                                                         *)
(* A line is abstracted to what its split by bars yields, and the first    *)
(* line to the leading word of each of the fields its probe splits it in.  *)
(* Lines of the result are positions in the body.                          *)
(***************************************************************************)
EXTENDS Naturals, Sequences, SequencesExt

CONSTANT MaxLines   \* bound on the lines of a body

ASSUME MaxLinesAssumption == MaxLines \in Nat \ {0}

\* "bad": no text before the bar, or more than one bar.
\* "textBar": a bar with nothing behind, whose second part is falsy.
LineKinds == {"bad", "text", "textBar", "both"}
Bodies == UNION {[1..n -> LineKinds] : n \in 1..MaxLines}

\* A field may lead with a number, with a word or, for check_disk, hold the
\* percentages of one group or of several partitions.
FieldKinds == {"number", "word", "group", "groups"}
FirstLines == UNION {[1..n -> FieldKinds] : n \in 1..3}

VARIABLES
    body,       \* the lines received
    next,       \* line parseRequest is at
    data,       \* lines of entityData.data
    perfData,   \* lines of entityData.perfData, <<>> while undefined
    multi,      \* isMultilinePerf
    stage       \* "idle", "parsing", "parsed" or "invalid"

parserVars == <<body, next, data, perfData, multi, stage>>

Idle ==
    /\ body = <<>>
    /\ next = 1
    /\ data = <<>>
    /\ perfData = <<>>
    /\ multi = FALSE
    /\ stage = "idle"

\* parseRequest is called on reqdomain.body.
ReceiveBody ==
    /\ stage = "idle"
    /\ body' \in Bodies
    /\ stage' = "parsing"
    /\ UNCHANGED <<next, data, perfData, multi>>

FirstLine ==
    /\ data = <<>>
    /\ data' = <<next>>
    /\ perfData' = IF body[next] = "both" THEN <<next>> ELSE perfData
    /\ multi' = multi

\* MUTATION of CompoundLine: the flag of multi-line performance data is not set.
CompoundLine_NoFlag ==
    /\ data # <<>> /\ body[next] = "both"
    /\ perfData' = Append(perfData, next)
    /\ data' = Append(data, next)
    /\ multi' = multi
\* A later line with both parts starts the multi-line performance data.
CompoundLine ==
    /\ data # <<>> /\ body[next] = "both"
    /\ perfData' = Append(perfData, next)
    /\ data' = Append(data, next)
    /\ multi' = TRUE

SimpleLine ==
    /\ data # <<>> /\ body[next] # "both"
    /\ IF multi
       THEN perfData' = Append(perfData, next) /\ data' = data
       ELSE data' = Append(data, next) /\ perfData' = perfData
    /\ multi' = multi

\* MUTATION of InvalidLine: performance data may start in any line, once.
InvalidLine_AnyPerf ==
    body[next] = "bad" \/ (data # <<>> /\ body[next] = "both" /\ multi)
\* The lines parseRequest throws for.
InvalidLine ==
    \/ body[next] = "bad"
    \/ data # <<>> /\ body[next] = "both" /\ (perfData = <<>> \/ multi)

\* MUTATION of ParseLine: the end of the body is not noticed.
ParseLine_NoEnd ==
    /\ stage = "parsing"
    /\ ~InvalidLine
    /\ FirstLine \/ CompoundLine \/ SimpleLine
    /\ next' = next + 1
    /\ UNCHANGED <<stage, body>>
\* One turn of lines.forEach.
ParseLine ==
    /\ stage = "parsing"
    /\ IF InvalidLine
       THEN /\ stage' = "invalid"
            /\ UNCHANGED <<next, data, perfData, multi>>
       ELSE /\ FirstLine \/ CompoundLine \/ SimpleLine
            /\ next' = next + 1
            /\ stage' = IF next = Len(body) THEN "parsed" ELSE stage
    /\ UNCHANGED body

----------------------------------------------------------------------------
\* getContextAttrs of each probe: the field of the first line its attribute is
\* read from, or 0 when parseFloat yields NaN.

Leading(fields, n, kind) == IF n <= Len(fields) /\ fields[n] = kind THEN n ELSE 0

DiskAttrs(fields) == Leading(fields, 2, "group")
LoadAttrs(fields) == Leading(fields, 2, "number")
MemAttrs(fields) == Leading(fields, 3, "number")
ProcsAttrs(fields) == Leading(fields, 2, "number")
UsersAttrs(fields) == Leading(fields, 2, "number")

\* What any of the probes may find.
Metrics == UNION {{DiskAttrs(f), LoadAttrs(f), MemAttrs(f), ProcsAttrs(f), UsersAttrs(f)} :
                     f \in FirstLines}

\* The result goes to whoever called parseRequest, and nothing is kept.
Release ==
    /\ body' = <<>>
    /\ next' = 1
    /\ data' = <<>>
    /\ perfData' = <<>>
    /\ multi' = FALSE
    /\ stage' = "idle"

----------------------------------------------------------------------------
\* The format of the comment in nagios.js:49-58, as the code reads it: the only
\* other line that may hold a bar with data behind is the last of the text, and
\* then the first line has performance data too.
Compound == {i \in 2..Len(body) : body[i] = "both"}
WellFormed ==
    /\ \A i \in DOMAIN body : body[i] # "bad"
    /\ \A i, j \in Compound : i = j
    /\ Compound # {} => body[1] = "both"

\* Parsing line by line with two flags decides exactly that format.
GrammarDecided ==
    /\ stage = "parsed" => WellFormed
    /\ stage = "invalid" => ~WellFormed

\* No line of an accepted body is lost, repeated or moved: the text is the lines
\* up to the second compound line, the performance data what follows it.
NoLineLost ==
    stage = "parsed" =>
        LET last == IF Compound = {} THEN Len(body) ELSE CHOOSE i \in Compound : TRUE
            lines(from, to) == [i \in 1..(to - from + 1) |-> from + i - 1]
        IN /\ data = lines(1, last)
           /\ perfData = (IF body[1] = "both" THEN <<1>> ELSE <<>>) \o
                         (IF Compound = {} THEN <<>> ELSE lines(last, Len(body)))
=============================================================================
