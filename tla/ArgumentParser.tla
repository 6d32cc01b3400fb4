--------------------------- MODULE ArgumentParser ---------------------------
(***************************************************************************)
(* parse_args of src/ngsi_event_broker/src/argument_parser.c: a string of  *)
(* arguments is split by blanks and given to getopt, and what getopt finds *)
(* is stored in a list with room for as many elements as arguments there   *)
(* are.  Module options and the arguments of SNMP and NRPE plugins are     *)
(* read this way, inside the process of Nagios.                            *)
(*                                                                         *)
(* getopt is external: an option is a letter of a token that starts with a *)
(* dash; it may take the rest of the token or the next token as its value. *)
(***************************************************************************)
EXTENDS Integers, Sequences

CONSTANTS
    Valued,     \* letters of optstr followed by a colon
    Flags,      \* letters of optstr without one
    Others,     \* letters that are not in optstr
    MaxTokens,  \* bound on the tokens of the string
    MaxArgs     \* MAX_ARGS, 255 in the code

Letters == Valued \cup Flags \cup Others

ASSUME LettersAssumption == /\ Valued \cap Flags = {}
                            /\ (Valued \cup Flags) \cap Others = {}
                            /\ "-" \in Others
ASSUME MaxArgsAssumption == MaxArgs \in Nat /\ MaxArgs >= 2
ASSUME MaxTokensAssumption == MaxTokens \in Nat

\* A token is a word, or a dash and up to two letters; a dash is one of the
\* letters no option has.  A dash alone is a word to getopt.
Dash == "-"
Tokens == [dash : {FALSE}, letters : {<<>>}]
          \cup [dash : {TRUE}, letters : UNION {[1..n -> Letters] : n \in 0..2}]
EndMark == [dash |-> TRUE, letters |-> <<Dash>>]
IsOption(token) == token.letters # <<>> /\ token # EndMark
Strings == UNION {[1..n -> Tokens] : n \in 0..MaxTokens}

VARIABLES
    args,       \* the tokens of the string
    at,         \* token getopt is at
    letter,     \* letter of that token it reads next
    optlist,    \* options stored: token, outcome and token of the value
    stage       \* "scanning", "done" or "crashed"

vars == <<args, at, letter, optlist, stage>>

\* argv holds the name of the program too, and the tokens beyond it are ignored.
Argc == IF Len(args) + 1 < MaxArgs THEN Len(args) + 1 ELSE MaxArgs - 1
Capacity == Argc

Init ==
    /\ args \in Strings
    /\ at = 1
    /\ letter = 1
    /\ optlist = <<>>
    /\ stage = "scanning"

Found(outcome, value) ==
    optlist' = Append(optlist, [token |-> at, outcome |-> outcome, value |-> value])

\* MUTATION of SkipWord: the first word ends the options.
SkipWord_Stops ==
    /\ stage = "scanning"
    /\ at < Argc
    /\ args[at].letters = <<>>
    /\ stage' = "done"
    /\ UNCHANGED <<args, at, letter, optlist>>
\* Words are skipped (getopt moves them to the end of argv).
SkipWord ==
    /\ stage = "scanning"
    /\ at < Argc
    /\ args[at].letters = <<>>
    /\ at' = at + 1
    /\ UNCHANGED <<args, letter, optlist, stage>>

\* getopt returns -1, after the last token or at "--".
EndOfOptions ==
    /\ stage = "scanning"
    /\ IF at < Argc THEN args[at] = EndMark ELSE TRUE
    /\ stage' = "done"
    /\ UNCHANGED <<args, at, letter, optlist>>

Current == args[at].letters[letter]
AtOption == /\ stage = "scanning"
            /\ at < Argc
            /\ IsOption(args[at])

\* MUTATION of UnknownOption: the loop goes on after a failure.
UnknownOption_GoesOn ==
    /\ AtOption
    /\ Current \in Others
    /\ Found("unknown", 0)
    /\ IF letter < Len(args[at].letters) THEN letter' = letter + 1 /\ at' = at
                                         ELSE letter' = 1 /\ at' = at + 1
    /\ UNCHANGED <<args, stage>>
\* getopt returns '?': the option is stored as a failure and the loop ends.
UnknownOption ==
    /\ AtOption
    /\ Current \in Others
    /\ Found("unknown", 0)
    /\ stage' = "done"
    /\ UNCHANGED <<args, at, letter>>

\* A flag has no optarg, and strdup(NULL) is undefined: the process crashes.
FlagOption ==
    /\ AtOption
    /\ Current \in Flags
    /\ stage' = "crashed"
    /\ UNCHANGED <<args, at, letter, optlist>>

\* A value that starts with a dash is taken for an option, its own for missing,
\* and the loop ends; any other value is stored and the scan goes on.
TakeValue(dashed, token) ==
    /\ IF dashed
       THEN /\ Found("missing", 0)
            /\ stage' = "done"
            /\ UNCHANGED <<at, letter>>
       ELSE /\ Found("value", token)
            /\ at' = token + 1 /\ letter' = 1
            /\ UNCHANGED stage
    /\ UNCHANGED args

\* The value is the rest of the token.
AttachedValue ==
    /\ AtOption
    /\ Current \in Valued
    /\ letter < Len(args[at].letters)
    /\ TakeValue(args[at].letters[letter + 1] = Dash, at)

\* MUTATION of NextValue: the end of argv is not looked at.
NextValue_PastEnd ==
    /\ AtOption
    /\ Current \in Valued
    /\ letter = Len(args[at].letters)
    /\ TakeValue(FALSE, at + 1)
\* The value is the next token.
NextValue ==
    /\ AtOption
    /\ Current \in Valued
    /\ letter = Len(args[at].letters) /\ at + 1 < Argc
    /\ TakeValue(args[at + 1].dash, at + 1)

\* getopt returns ':', nothing follows the option.
NoValue ==
    /\ AtOption
    /\ Current \in Valued
    /\ letter = Len(args[at].letters) /\ at + 1 = Argc
    /\ Found("missing", 0)
    /\ stage' = "done"
    /\ UNCHANGED <<args, at, letter>>

Next == SkipWord \/ EndOfOptions \/ UnknownOption \/ FlagOption
        \/ AttachedValue \/ NextValue \/ NoValue

Spec == Init /\ [][Next]_vars

----------------------------------------------------------------------------
\* Types of the scan.
TypeOK ==
    /\ args \in Strings
    /\ at \in 1..Argc
    /\ letter \in 1..2
    /\ optlist \in Seq([token : 1..MaxTokens, value : 0..MaxTokens,
                        outcome : {"value", "missing", "unknown"}])
    /\ stage \in {"scanning", "done", "crashed"}

\* The options and the mark that ends the list fit in the memory allocated for
\* as many elements as arguments (argument_parser.c:63, 72, 77), although several
\* options may share a token.
OptionListFits == Len(optlist) + 1 <= Capacity

\* A scan that meets no failure stores every option before the "--", in the order
\* of the string, whatever words stand between them.
AllCollected ==
    stage = "done" /\ (\A i \in 1..Len(optlist) : optlist[i].outcome = "value")
        => /\ \A t \in 1..(Argc - 1) :
                 IsOption(args[t]) /\ (\A s \in 1..t : args[s] # EndMark)
                     => \E i \in 1..Len(optlist) : optlist[i].token = t
           /\ \A i, j \in 1..Len(optlist) : i < j => optlist[i].token < optlist[j].token

\* The scan ends for any option string that getopt admits (argument_parser.h:68),
\* and so the callback of Nagios returns, whatever the event
\* (ngsi_event_broker_common.h:315).
ScanReturns == stage # "crashed"
=============================================================================
