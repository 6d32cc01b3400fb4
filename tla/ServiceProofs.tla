---------------------------- MODULE ServiceProofs ----------------------------
(***************************************************************************)
(* Proofs about Service, for any process identifiers and whether or not    *)
(* other programs use them.  Types are right for any number of             *)
(* administrators; that the adapter is managed is only so for one, as two  *)
(* runs of the script may both find that no adapter runs.                  *)
(***************************************************************************)
EXTENDS Service, TLAPS

----------------------------------------------------------------------------
LEMMA ReturnType ==
    ASSUME TypeOK, NEW a \in Admins, NEW command \in {"start", "stop"},
           NEW value \in 0..2, Return(a, command, value)
    PROVE  /\ result' \in [Admins -> {"none", "start", "stop"} \X (0..2)]
           /\ step' \in [Admins -> {"idle", "test", "start", "spawn", "stop", "wait", "remove"}]
           /\ restarting' \subseteq Admins
  BY DEF Return, TypeOK

LEMMA StopReturnType ==
    ASSUME TypeOK, NEW a \in Admins, NEW value \in 0..2, StopReturn(a, value)
    PROVE  /\ result' \in [Admins -> {"none", "start", "stop"} \X (0..2)]
           /\ step' \in [Admins -> {"idle", "test", "start", "spawn", "stop", "wait", "remove"}]
           /\ restarting' \subseteq Admins
           /\ step'[a] \in {"test", "idle"}
  <1>1. CASE a \in restarting
    BY <1>1 DEF StopReturn, TypeOK
  <1>2. CASE a \notin restarting
    <2>1. Return(a, "stop", value)
      BY <1>2 DEF StopReturn
    <2> QED
      BY <2>1, ReturnType DEF Return, TypeOK
  <1> QED
    BY <1>1, <1>2

\* Every state reached has the types declared, whoever runs the script: no run of it
\* waits for a process without a pid, and the pid file holds a pid or is not there.
THEOREM ServiceTypes == Spec => []TypeOK
  <1> USE PidsAssumption
  <1> 0 \in 0..2 /\ 1 \in 0..2 /\ 2 \in 0..2
    OBVIOUS
  <1>1. Init => TypeOK
    BY DEF Init, TypeOK
  <1>2. TypeOK /\ [Next]_vars => TypeOK'
    <2> SUFFICES ASSUME TypeOK, [Next]_vars PROVE TypeOK'
      OBVIOUS
    <2>1. ASSUME NEW a \in Admins, Checkup(a) PROVE TypeOK'
      <3>1. CASE step[a] = "test"
        BY <2>1, <3>1, ReturnType DEF Checkup, TypeOK
      <3>2. CASE step[a] = "stop"
        BY <2>1, <3>2, StopReturnType DEF Checkup, TypeOK
      <3> QED
        BY <2>1, <3>1, <3>2 DEF Checkup
    <2>2. ASSUME NEW a \in Admins, Run(a) PROVE TypeOK'
      BY <2>2 DEF Run, TypeOK
    <2>3. ASSUME NEW a \in Admins, StartTest(a) PROVE TypeOK'
      <3>1. CASE Running
        BY <2>3, <3>1, ReturnType DEF StartTest, TypeOK
      <3>2. CASE ~Running
        BY <2>3, <3>2 DEF StartTest, TypeOK
      <3> QED
        BY <3>1, <3>2
    <2>4. ASSUME NEW a \in Admins, StartCheck(a) PROVE TypeOK'
      <3>1. CASE Running
        BY <2>4, <3>1, ReturnType DEF StartCheck, TypeOK
      <3>2. CASE ~Running
        BY <2>4, <3>2 DEF StartCheck, TypeOK
      <3> QED
        BY <3>1, <3>2
    <2>5. ASSUME NEW a \in Admins, StartSpawn(a) PROVE TypeOK'
      BY <2>5, ReturnType DEF StartSpawn, TypeOK
    <2>6. ASSUME NEW a \in Admins, StopSignal(a) PROVE TypeOK'
      <3>1. CASE Running
        BY <2>6, <3>1 DEF StopSignal, Running, TypeOK
      <3>2. CASE ~Running
        BY <2>6, <3>2 DEF StopSignal, TypeOK
      <3> QED
        BY <3>1, <3>2
    <2>7. ASSUME NEW a \in Admins, StopWait(a) PROVE TypeOK'
      BY <2>7 DEF StopWait, TypeOK
    <2>8. ASSUME NEW a \in Admins, StopFails(a) \/ StopRemove(a) PROVE TypeOK'
      <3>1. retval[a] \in 0..2
        BY DEF TypeOK
      <3>2. CASE StopFails(a)
        BY <3>2, StopReturnType DEF StopFails, TypeOK
      <3>3. CASE StopRemove(a)
        BY <3>1, <3>3, StopReturnType DEF StopRemove, TypeOK
      <3> QED
        BY <2>8, <3>2, <3>3
    <2>9. ASSUME NEW p \in Pids, AdapterListens(p) \/ AdapterExits(p) \/ OtherProgram(p)
          PROVE TypeOK'
      BY <2>9 DEF AdapterListens, AdapterExits, OtherProgram, TypeOK
    <2>10. CASE UNCHANGED vars
      BY <2>10 DEF vars, TypeOK
    <2> QED
      BY <2>1, <2>2, <2>3, <2>4, <2>5, <2>6, <2>7, <2>8, <2>9, <2>10 DEF Next
  <1> QED
    BY <1>1, <1>2, PTL DEF Spec

----------------------------------------------------------------------------
\* One administrator.  What the script found out must still hold when it acts on it:
\* no adapter runs when it spawns one or forgets the pid, and the process that it
\* waits for is the one in the file.

OneAdmin == \A a, b \in Admins : a = b

ScriptKnows(a) ==
    /\ step[a] \in {"spawn", "remove"} => Adapters = {}
    /\ step[a] = "wait" => target[a] = pidfile

ManagedInv == Managed /\ \A a \in Admins : ScriptKnows(a)

\* The pid file names the only adapter there may be, so what is not running by the
\* file does not run.
LEMMA NothingRuns ==
    ASSUME TypeOK, Managed, ~Running
    PROVE  Adapters = {}
  BY PidsAssumption DEF TypeOK, Managed, Running, Adapters

\* A step by which adapters only end, or another program comes or goes.
LEMMA FewerAdapters ==
    ASSUME ManagedInv, Adapters' \subseteq Adapters,
           UNCHANGED <<pidfile, step, target>>
    PROVE  ManagedInv'
  BY DEF ManagedInv, Managed, ScriptKnows

LEMMA ManagedStep ==
    ASSUME OneAdmin, TypeOK, ManagedInv, [Next]_vars
    PROVE  ManagedInv'
  <1> USE PidsAssumption
  <1> Managed
    BY DEF ManagedInv
  \* A run of the script that is no further than before in spawning or stopping.
  <1>a. ASSUME NEW a \in Admins, UNCHANGED <<process, pidfile>>,
               step'[a] \notin {"spawn", "remove", "wait"}
        PROVE  ManagedInv'
    <2>1. Managed'
      BY <1>a DEF Managed, Adapters
    <2>2. \A b \in Admins : ScriptKnows(b)'
      BY <1>a DEF OneAdmin, ScriptKnows
    <2> QED
      BY <2>1, <2>2 DEF ManagedInv
  <1>1. ASSUME NEW a \in Admins, Checkup(a) PROVE ManagedInv'
    <2>1. step'[a] \in {"idle", "test"}
      <3>1. CASE step[a] = "test"
        BY <1>1, <3>1 DEF Checkup, Return, TypeOK
      <3>2. CASE step[a] = "stop"
        BY <1>1, <3>2, StopReturnType DEF Checkup
      <3> QED
        BY <1>1, <3>1, <3>2 DEF Checkup
    <2> QED
      BY <1>1, <1>a, <2>1 DEF Checkup
  <1>2. ASSUME NEW a \in Admins, Run(a) PROVE ManagedInv'
    <2>1. step'[a] \in {"test", "stop"}
      BY <1>2 DEF Run, TypeOK
    <2> QED
      BY <1>2, <1>a, <2>1 DEF Run
  <1>3. ASSUME NEW a \in Admins, StartTest(a) PROVE ManagedInv'
    <2>1. step'[a] \in {"idle", "start"}
      BY <1>3 DEF StartTest, Return, TypeOK
    <2> QED
      BY <1>3, <1>a, <2>1 DEF StartTest
  <1>4. ASSUME NEW a \in Admins, StartCheck(a) PROVE ManagedInv'
    <2>1. CASE Running
      <3>1. step'[a] = "idle"
        BY <1>4, <2>1 DEF StartCheck, Return, TypeOK
      <3> QED
        BY <1>4, <1>a, <3>1 DEF StartCheck
    <2>2. CASE ~Running
      <3>1. Adapters' = {} /\ step'[a] = "spawn"
        BY <1>4, <2>2, NothingRuns DEF StartCheck, Adapters, TypeOK
      <3> QED
        BY <3>1 DEF OneAdmin, ManagedInv, Managed, ScriptKnows
    <2> QED
      BY <2>1, <2>2
  <1>5. ASSUME NEW a \in Admins, StartSpawn(a) PROVE ManagedInv'
    <2>1. Adapters = {}
      BY <1>5 DEF StartSpawn, ManagedInv, ScriptKnows
    <2>2. PICK p \in Pids : /\ process' = [process EXCEPT ![p] = "starting"]
                            /\ pidfile' = p
      BY <1>5 DEF StartSpawn
    <2>3. Managed'
      BY <2>1, <2>2 DEF Managed, Adapters, TypeOK
    <2>4. step'[a] = "idle"
      BY <1>5 DEF StartSpawn, Return, TypeOK
    <2> QED
      BY <2>3, <2>4 DEF OneAdmin, ManagedInv, ScriptKnows
  <1>6. ASSUME NEW a \in Admins, StopSignal(a) PROVE ManagedInv'
    <2>1. Managed'
      BY <1>6 DEF StopSignal, Managed, Adapters
    <2>2. CASE Running
      <3>1. step'[a] = "wait" /\ target'[a] = pidfile'
        BY <1>6, <2>2 DEF StopSignal, TypeOK
      <3> QED
        BY <2>1, <3>1 DEF OneAdmin, ManagedInv, ScriptKnows
    <2>3. CASE ~Running
      <3>1. step'[a] = "remove" /\ Adapters' = {}
        BY <1>6, <2>3, NothingRuns DEF StopSignal, Adapters, TypeOK
      <3> QED
        BY <2>1, <3>1 DEF OneAdmin, ManagedInv, ScriptKnows
    <2> QED
      BY <2>2, <2>3
  <1>7. ASSUME NEW a \in Admins, StopWait(a) PROVE ManagedInv'
    <2>1. target[a] = pidfile
      BY <1>7 DEF StopWait, ManagedInv, ScriptKnows
    <2>2. Adapters' = {}
      BY <1>7, <2>1 DEF StopWait, Managed, Adapters, TypeOK
    <2>3. step'[a] = "remove"
      BY <1>7 DEF StopWait, TypeOK
    <2> QED
      BY <2>2, <2>3 DEF OneAdmin, ManagedInv, Managed, ScriptKnows
  <1>8. ASSUME NEW a \in Admins, StopRemove(a) PROVE ManagedInv'
    <2>1. Adapters' = {}
      BY <1>8 DEF StopRemove, ManagedInv, ScriptKnows, Adapters
    <2>2. retval[a] \in 0..2
      BY DEF TypeOK
    <2>3. step'[a] \in {"test", "idle"}
      BY <1>8, <2>2, StopReturnType DEF StopRemove
    <2> QED
      BY <2>1, <2>3 DEF OneAdmin, ManagedInv, Managed, ScriptKnows
  <1>11. ASSUME NEW a \in Admins, StopFails(a) PROVE ManagedInv'
    <2>1. step'[a] \in {"test", "idle"}
      BY <1>11, StopReturnType DEF StopFails
    <2> QED
      BY <1>11, <1>a, <2>1 DEF StopFails
  <1>9. ASSUME NEW p \in Pids, AdapterListens(p) \/ AdapterExits(p) \/ OtherProgram(p)
        PROVE  ManagedInv'
    <2>1. Adapters' \subseteq Adapters
      BY <1>9 DEF AdapterListens, AdapterExits, OtherProgram, Adapters, TypeOK
    <2>2. UNCHANGED <<pidfile, step, target>>
      BY <1>9 DEF AdapterListens, AdapterExits, OtherProgram
    <2> QED
      BY <2>1, <2>2, FewerAdapters
  <1>10. CASE UNCHANGED vars
    BY <1>10, FewerAdapters DEF vars, Adapters
  <1> QED
    BY <1>1, <1>2, <1>3, <1>4, <1>5, <1>6, <1>7, <1>8, <1>9, <1>10, <1>11 DEF Next

LEMMA ManagedInvariant == OneAdmin => (Spec => []ManagedInv)
  <1> SUFFICES ASSUME OneAdmin PROVE Spec => []ManagedInv
    OBVIOUS
  <1>1. Init => ManagedInv
    BY DEF Init, ManagedInv, Managed, Adapters, ScriptKnows
  <1>2. TypeOK /\ ManagedInv /\ [Next]_vars => ManagedInv'
    BY ManagedStep
  <1> QED
    BY <1>1, <1>2, ServiceTypes, PTL DEF Spec

\* With one administrator, the adapter that runs is the one in the pid file, however
\* often its pid was reused and whatever died in the meantime.
THEOREM AdapterManaged == OneAdmin => (Spec => []Managed)
  <1>1. ManagedInv => Managed
    BY DEF ManagedInv
  <1> QED
    BY <1>1, ManagedInvariant, PTL

\* With one administrator, do_stop says that the daemon is stopped, or was, only if no
\* adapter runs (ngsi_adapter.init:74-76).
THEOREM StopTrue == OneAdmin => (Spec => StopMeansStopped)
  <1> SUFFICES ASSUME OneAdmin PROVE Spec => StopMeansStopped
    OBVIOUS
  <1>1. TypeOK /\ ManagedInv /\ [Next]_vars
          => [\A a \in Admins : Returns(a, "stop", {0, 1}) => Adapters' = {}]_vars
    <2> SUFFICES ASSUME TypeOK, ManagedInv, [Next]_vars,
                        NEW a \in Admins, Returns(a, "stop", {0, 1})
                 PROVE  Adapters' = {}
      OBVIOUS
    <2>1. CASE StopRemove(a)
      BY <2>1 DEF StopRemove, ManagedInv, ScriptKnows, Adapters
    <2>2. ASSUME NEW b \in Admins, Run(b) \/ Checkup(b) \/ StopFails(b) PROVE FALSE
      <3>1. a = b
        BY DEF OneAdmin
      <3>2. CASE Run(b)
        BY <3>1, <3>2 DEF Run, Returns, TypeOK
      <3>3. CASE StopReturn(b, 2)
        BY <3>1, <3>3 DEF StopReturn, Return, Returns, TypeOK
      <3>4. CASE Return(b, "start", 2)
        BY <3>1, <3>4 DEF Return, Returns, TypeOK
      <3> QED
        BY <2>2, <3>2, <3>3, <3>4 DEF Checkup, StopFails
    <2>3. ASSUME NEW b \in Admins, StartTest(b) \/ StartCheck(b) \/ StartSpawn(b)
          PROVE FALSE
      <3>1. a = b /\ step'[b] = "idle" => result'[b][1] = "start"
        BY <2>3 DEF StartTest, StartCheck, StartSpawn, Return, TypeOK
      <3> QED
        BY <2>3, <3>1 DEF OneAdmin, Returns
    <2>4. ASSUME NEW b \in Admins, StopSignal(b) \/ StopWait(b) PROVE FALSE
      BY <2>4 DEF OneAdmin, StopSignal, StopWait, Returns, TypeOK
    <2>5. ASSUME UNCHANGED step PROVE FALSE
      BY <2>5 DEF Returns
    <2> QED
      BY <2>1, <2>2, <2>3, <2>4, <2>5
         DEF Next, vars, OneAdmin, AdapterListens, AdapterExits, OtherProgram
  <1> QED
    BY <1>1, ManagedInvariant, ServiceTypes, PTL DEF Spec, StopMeansStopped

----------------------------------------------------------------------------
\* What a restart knows when it begins to start: its stop has failed, or there is no
\* pid file.

RestartKnows(a) ==
    /\ step[a] = "idle" => a \notin restarting
    /\ a \in restarting /\ step[a] = "test" => retval[a] = 2 \/ pidfile = 0

RestartInv == \A a \in Admins : RestartKnows(a)

\* A run that ends is no restart any more; one that goes on to start knows.
LEMMA RunEnds ==
    ASSUME OneAdmin, TypeOK, NEW a \in Admins, NEW value, NEW command,
           Return(a, command, value) \/ StopReturn(a, value),
           retval'[a] = 2 \/ pidfile' = 0
    PROVE  RestartInv'
  <1>1. ASSUME NEW word, Return(a, word, value) PROVE RestartInv'
    <2>1. a \notin restarting'
      BY <1>1 DEF Return
    <2> QED
      BY <2>1 DEF OneAdmin, RestartInv, RestartKnows
  <1>2. CASE a \in restarting /\ StopReturn(a, value)
    <2>1. step'[a] = "test"
      BY <1>2 DEF StopReturn, TypeOK
    <2> QED
      BY <2>1 DEF OneAdmin, RestartInv, RestartKnows
  <1> QED
    BY <1>1, <1>2 DEF StopReturn

LEMMA RestartStep ==
    ASSUME OneAdmin, TypeOK, RestartInv, [Next]_vars
    PROVE  RestartInv'
  <1>1. ASSUME NEW a \in Admins, step'[a] \notin {"idle", "test"} PROVE RestartInv'
    BY <1>1 DEF OneAdmin, RestartInv, RestartKnows
  <1>2. ASSUME NEW a \in Admins, a \notin restarting' PROVE RestartInv'
    BY <1>2 DEF OneAdmin, RestartInv, RestartKnows
  <1>3. CASE UNCHANGED <<step, restarting, retval, pidfile>>
    BY <1>3 DEF RestartInv, RestartKnows
  <1>4. ASSUME NEW a \in Admins, Run(a) PROVE RestartInv'
    <2>1. PICK command \in {"start", "stop", "restart"} :
             /\ step' = [step EXCEPT ![a] = IF command = "start" THEN "test" ELSE "stop"]
             /\ restarting' = IF command = "restart" THEN restarting \cup {a} ELSE restarting
      BY <1>4 DEF Run
    <2>2. a \notin restarting
      BY <1>4 DEF Run, RestartInv, RestartKnows
    <2>3. CASE command = "start"
      BY <1>2, <2>1, <2>2, <2>3
    <2>4. CASE command # "start"
      BY <1>1, <2>1, <2>4 DEF TypeOK
    <2> QED
      BY <2>3, <2>4
  <1>5. ASSUME NEW a \in Admins, Checkup(a) PROVE RestartInv'
    <2>1. CASE step[a] = "test"
      BY <1>2, <1>5, <2>1 DEF Checkup, Return
    <2>2. CASE step[a] = "stop"
      <3>1. StopReturn(a, 2) /\ retval'[a] = 2
        BY <1>5, <2>2 DEF Checkup, TypeOK
      <3> QED
        BY <3>1, RunEnds
    <2> QED
      BY <1>5, <2>1, <2>2 DEF Checkup
  <1>6. ASSUME NEW a \in Admins, StartTest(a) \/ StartCheck(a) \/ StartSpawn(a)
        PROVE  RestartInv'
    <2>1. a \notin restarting' \/ step'[a] \in {"start", "spawn"}
      BY <1>6 DEF StartTest, StartCheck, StartSpawn, Return, TypeOK
    <2> QED
      BY <1>1, <1>2, <2>1
  <1>7. ASSUME NEW a \in Admins, StopSignal(a) \/ StopWait(a) PROVE RestartInv'
    <2>1. step'[a] \in {"wait", "remove"}
      BY <1>7 DEF StopSignal, StopWait, TypeOK
    <2> QED
      BY <1>1, <2>1
  <1>8. ASSUME NEW a \in Admins, StopFails(a) PROVE RestartInv'
    <2>1. StopReturn(a, 2) /\ retval'[a] = 2
      BY <1>8 DEF StopFails, TypeOK
    <2> QED
      BY <2>1, RunEnds
  <1>9. ASSUME NEW a \in Admins, StopRemove(a) PROVE RestartInv'
    <2>1. StopReturn(a, retval[a]) /\ pidfile' = 0
      BY <1>9 DEF StopRemove
    <2> QED
      BY <2>1, RunEnds
  <1>10. ASSUME NEW p \in Pids, AdapterListens(p) \/ AdapterExits(p) \/ OtherProgram(p)
         PROVE  RestartInv'
    BY <1>3, <1>10 DEF AdapterListens, AdapterExits, OtherProgram
  <1>11. CASE UNCHANGED vars
    BY <1>3, <1>11 DEF vars
  <1> QED
    BY <1>4, <1>5, <1>6, <1>7, <1>8, <1>9, <1>10, <1>11 DEF Next

\* With one administrator, restart only leaves running, and reports as started, what its
\* own stop has failed to end (ngsi_adapter.init:82 and :116).
THEOREM RestartTrue == OneAdmin => (Spec => RestartReplaces)
  <1> SUFFICES ASSUME OneAdmin PROVE Spec => RestartReplaces
    OBVIOUS
  <1>1. Init => RestartInv
    BY DEF Init, RestartInv, RestartKnows
  <1>2. TypeOK /\ RestartInv /\ [Next]_vars => RestartInv'
    BY RestartStep
  <1>3. TypeOK /\ RestartInv /\ [Next]_vars
          => [\A a \in restarting : Returns(a, "start", {1}) => retval[a] = 2]_vars
    <2> SUFFICES ASSUME TypeOK, RestartInv, [Next]_vars,
                        NEW a \in restarting, Returns(a, "start", {1})
                 PROVE  retval[a] = 2
      OBVIOUS
    <2>1. /\ a \in Admins /\ step[a] # "idle" /\ step'[a] = "idle"
          /\ result'[a][1] = "start" /\ result'[a][2] = 1
      BY DEF Returns, TypeOK
    <2>2. CASE StartTest(a)
      <3>1. Running /\ step[a] = "test"
        BY <2>1, <2>2 DEF StartTest, TypeOK
      <3> QED
        BY <2>1, <3>1 DEF Running, RestartInv, RestartKnows
    <2>3. ASSUME NEW word, NEW value, word # "start" \/ value # 1, Return(a, word, value)
          PROVE  FALSE
      BY <2>1, <2>3 DEF Return, TypeOK
    <2>4. ASSUME NEW value, StopReturn(a, value) PROVE FALSE
      BY <2>1, <2>4 DEF StopReturn, TypeOK
    <2>5. ASSUME NEW b \in Admins, ~StartTest(b),
                 \/ Checkup(b) \/ Run(b) \/ StartCheck(b) \/ StartSpawn(b)
                 \/ StopSignal(b) \/ StopWait(b) \/ StopFails(b) \/ StopRemove(b)
          PROVE  FALSE
      <3>1. a = b
        BY <2>1 DEF OneAdmin
      <3>2. CASE Checkup(b)
        BY <2>3, <2>4, <3>1, <3>2 DEF Checkup
      <3>3. CASE Run(b)
        BY <2>1, <3>1, <3>3 DEF Run
      <3>4. CASE StartCheck(b)
        BY <2>1, <2>3, <3>1, <3>4 DEF StartCheck, TypeOK
      <3>5. CASE StartSpawn(b)
        BY <2>3, <3>1, <3>5 DEF StartSpawn
      <3>6. CASE StopSignal(b) \/ StopWait(b)
        BY <2>1, <3>1, <3>6 DEF StopSignal, StopWait, TypeOK
      <3>7. CASE StopFails(b) \/ StopRemove(b)
        BY <2>4, <3>1, <3>7 DEF StopFails, StopRemove
      <3> QED
        BY <2>5, <3>2, <3>3, <3>4, <3>5, <3>6, <3>7
    <2>6. ASSUME UNCHANGED step PROVE FALSE
      BY <2>1, <2>6
    <2>7. ASSUME NEW b \in Admins, StartTest(b) PROVE retval[a] = 2
      BY <2>1, <2>2, <2>7 DEF OneAdmin
    <2> QED
      BY <2>5, <2>6, <2>7 DEF Next, vars, AdapterListens, AdapterExits, OtherProgram
  <1> QED
    BY <1>1, <1>2, <1>3, ServiceTypes, PTL DEF Spec, RestartReplaces
=============================================================================
