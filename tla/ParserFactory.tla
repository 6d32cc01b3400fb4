--------------------------- MODULE ParserFactory ---------------------------
(***************************************************************************)
(* The parser factory, src/ngsi_adapter/lib/parsers/common/factory.js:     *)
(* parsers are modules named after probes, looked for in the directories   *)
(* of config.parsersPath when the first request for the probe arrives, and *)
(* kept for the life of the process.  Meanwhile the administrator may add, *)
(* repair and remove modules.  Two caches stand between the files and the  *)
(* requests: parsersCache, an object literal, and Node's own cache of      *)
(* modules (external).                                                     *)
(***************************************************************************)
EXTENDS Naturals, Sequences, FiniteSetsExt

CONSTANTS
    Names,      \* names of probes that requests ask for
    Inherited,  \* those that every object literal has from Object.prototype
    Dirs        \* number of directories in config.parsersPath, in order

ASSUME InheritedAssumption == Inherited \subseteq Names
ASSUME DirsAssumption == Dirs \in Nat \ {0}

\* A file may be missing, throw when loaded, throw because a module it requires
\* is missing, load without exporting an object as `parser', or be right.
Kinds == {"absent", "throws", "lacksModule", "noParser", "valid"}
Path == 1..Dirs

VARIABLES
    file,       \* what is in each directory under each name
    module,     \* what Node keeps of each file it has loaded, or "none"
    cache,      \* parsersCache: directory the parser came from, 0 if not cached
    answer      \* what the last lookup returned

vars == <<file, module, cache, answer>>

NoAnswer == [name |-> "none", from |-> 0, code |-> "none", turn |-> 0]
\* A lookup that found an inherited property instead of a parser.
Prototype == Dirs + 1

Init ==
    /\ file \in [Path -> [Names -> {"absent", "valid"}]]
    /\ module = [d \in Path |-> [n \in Names |-> "none"]]
    /\ cache = [n \in Names |-> 0]
    /\ answer = NoAnswer

\* require (external): a module that loaded once is never read again; one that
\* threw is.
Require(d, n) == IF module[d][n] # "none" THEN module[d][n] ELSE file[d][n]
\* MUTATION of Remembered: what failed to load is kept as well.
Remembered_Failures(d, n) == Require(d, n)
Remembered(d, n) ==
    IF Require(d, n) \in {"noParser", "valid"} THEN Require(d, n) ELSE "none"

\* MUTATION of Chosen: the search does not stop at the first directory.
Chosen_Last(n) ==
    IF \E d \in Path : Require(d, n) = "valid"
    THEN Max({d \in Path : Require(d, n) = "valid"}) ELSE 0
\* `some' stops at the first directory with a usable module; 0 if there is none.
Chosen(n) ==
    IF \E d \in Path : Require(d, n) = "valid"
    THEN Min({d \in Path : Require(d, n) = "valid"}) ELSE 0

Tried(n) == {d \in Path : Chosen(n) = 0 \/ d <= Chosen(n)}

\* MUTATION of ErrorCode: the code of the last directory prevails.
ErrorCode_Last(n) ==
    IF Require(Dirs, n) \in {"throws", "noParser"} THEN "INVALID"
                                                   ELSE "MODULE_NOT_FOUND"
\* A module that is there but invalid prevails over those not found, whatever
\* the order; a module whose own dependency is missing counts as not found.
ErrorCode(n) ==
    IF \E d \in Path : Require(d, n) \in {"throws", "noParser"}
    THEN "INVALID" ELSE "MODULE_NOT_FOUND"

\* The outcome of a lookup; `turn' tells a repeated answer from none.
Answer(n, from) ==
    answer' = [name |-> n, from |-> from, turn |-> 1 - answer.turn,
               code |-> IF from = 0 THEN ErrorCode(n) ELSE "none"]

\* What parsersCache[name] yields before any search: 0 is undefined.
CacheLookup(n) ==
    IF cache[n] # 0 THEN cache[n] ELSE IF n \in Inherited THEN Prototype ELSE 0

\* MUTATION of GetParserByName: failures are remembered as well.
GetParserByName_NegativeCache(n) ==
    LET from == IF CacheLookup(n) # 0 THEN CacheLookup(n)
                ELSE IF answer.name = n THEN 0 ELSE Chosen(n)
    IN /\ module' = module
       /\ cache' = IF from \in Path THEN [cache EXCEPT ![n] = from] ELSE cache
       /\ Answer(n, from)
       /\ UNCHANGED file
\* MUTATION of GetParserByName: the parser is searched for every time.
GetParserByName_NoCache(n) ==
    /\ module' = module
    /\ cache' = [cache EXCEPT ![n] = Chosen(n)]
    /\ Answer(n, Chosen(n))
    /\ UNCHANGED file

\* getParserByName: cached, or searched for directory by directory.
GetParserByName(n) ==
    /\ IF CacheLookup(n) # 0
       THEN /\ Answer(n, CacheLookup(n))
            /\ UNCHANGED <<module, cache>>
       ELSE /\ module' = [d \in Path |->
                             IF d \in Tried(n)
                             THEN [module[d] EXCEPT ![n] = Remembered(d, n)]
                             ELSE module[d]]
            /\ cache' = [cache EXCEPT ![n] = Chosen(n)]
            /\ Answer(n, Chosen(n))
    /\ UNCHANGED file

\* The administrator installs, replaces or removes a module.
ChangeFile(d, n) ==
    /\ \E kind \in Kinds \ {file[d][n]} : file' = [file EXCEPT ![d][n] = kind]
    /\ UNCHANGED <<module, cache, answer>>

\* A new process starts with both caches empty.
Restart ==
    /\ module' = [d \in Path |-> [n \in Names |-> "none"]]
    /\ cache' = [n \in Names |-> 0]
    /\ answer' = NoAnswer
    /\ UNCHANGED file

Next ==
    \/ \E n \in Names : GetParserByName(n)
    \/ \E d \in Path, n \in Names : ChangeFile(d, n)
    \/ Restart

Spec == Init /\ [][Next]_vars

----------------------------------------------------------------------------
\* Types of the files, of both caches and of the answer.
TypeOK ==
    /\ file \in [Path -> [Names -> Kinds]]
    /\ module \in [Path -> [Names -> {"none", "noParser", "valid"}]]
    /\ cache \in [Names -> 0..Dirs]
    /\ answer \in {NoAnswer} \cup
                  [name : Names, from : 0..Prototype, turn : {0, 1},
                   code : {"none", "INVALID", "MODULE_NOT_FOUND"}]

Asked(n) == answer' \notin {answer, NoAnswer} /\ answer'.name = n

\* A probe is refused only if no directory has a parser for it now: failures
\* are not cached, so a parser installed while the adapter runs serves the next
\* request.  The exception is a module that was once loaded without a parser.
RefusalIsCurrent ==
    [][\A n \in Names :
          Asked(n) /\ answer'.from = 0
              => \A d \in Path : file[d][n] = "valid" => module[d][n] = "noParser"]_vars

\* A parser is taken from the first directory that has it, the administrator's
\* before the default one, and what is earlier in the path was tried.
FirstDirectoryWins ==
    [][\A n \in Names :
          cache'[n] # cache[n] /\ cache'[n] # 0
              => \A d \in 1..(cache'[n] - 1) :
                    file[d][n] # "valid" \/ module[d][n] = "noParser"]_vars

\* The same parser serves a probe until the process ends, whatever happens to
\* the files, even if its module is removed or a directory before gets one.
ParserIsStable ==
    [][\A n \in Names :
          cache[n] # 0 => \/ cache'[n] = cache[n]
                          \/ \A m \in Names : cache'[m] = 0]_vars

\* A module that cannot be loaded is reported as invalid and never hidden by a
\* later directory where it is just missing.
InvalidIsReported ==
    [][\A n \in Names :
          /\ Asked(n) /\ answer'.from = 0
          /\ \E d \in Path : file[d][n] = "throws" /\ module[d][n] = "none"
          => answer'.code = "INVALID"]_vars

\* A request for an unknown probe is refused: a lookup that returns something
\* returns a parser of the path (doc/manuals/user/index.rst:98-99).
UnknownIsRefused == answer.from # 0 => cache[answer.name] = answer.from
=============================================================================
