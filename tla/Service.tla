------------------------------ MODULE Service ------------------------------
(***************************************************************************)
(* The service script of NGSI Adapter in Debian,                           *)
(* tools/devops/debian/ngsi_adapter.init: start, stop and restart around a *)
(* pid file, run by any number of administrators (or by the boot) at the   *)
(* same time.  Every action is one command of the script.                  *)
(*                                                                         *)
(* start-stop-daemon is external.  Given no more than a pid file it takes  *)
(* any live process with that pid for the daemon.  Its last call in        *)
(* do_stop, by the path of the executable, finds nothing and so never      *)
(* fails, because what runs is node and not the script.                    *)
(***************************************************************************)
EXTENDS Naturals

CONSTANTS
    Admins,     \* who runs the script
    Pids,       \* process identifiers, a positive number each
    Others      \* whether other programs may be given a pid that got free

ASSUME PidsAssumption == Pids \subseteq Nat \ {0}
ASSUME OthersAssumption == Others \in BOOLEAN

VARIABLES
    process,    \* "none", "starting", "serving" (both the adapter) or "other"
    pidfile,    \* pid in $PIDFILE, 0 when there is no such file
    step,       \* command each run of the script is at
    target,     \* pid that a run of the script is stopping
    retval,     \* what do_stop returns, RETVAL if start-stop-daemon was called
    restarting, \* who is running restart
    result      \* what do_start or do_stop returned in the last run

vars == <<process, pidfile, step, target, retval, restarting, result>>

Adapters == {p \in Pids : process[p] \in {"starting", "serving"}}

Init ==
    /\ process = [p \in Pids |-> "none"]
    /\ pidfile = 0
    /\ step = [a \in Admins |-> "idle"]
    /\ target = [a \in Admins |-> 0]
    /\ retval = [a \in Admins |-> 0]
    /\ restarting = {}
    /\ result = [a \in Admins |-> <<"none", 0>>]

\* What start-stop-daemon takes for a running daemon: a live process whose pid is
\* in the file, whichever it is.
Running == pidfile # 0 /\ process[pidfile] # "none"

Return(a, command, value) ==
    /\ result' = [result EXCEPT ![a] = <<command, value>>]
    /\ step' = [step EXCEPT ![a] = "idle"]
    /\ restarting' = restarting \ {a}

Run(a) ==
    /\ step[a] = "idle"
    /\ \E command \in {"start", "stop", "restart"} :
          /\ step' = [step EXCEPT ![a] = IF command = "start" THEN "test" ELSE "stop"]
          /\ restarting' = IF command = "restart" THEN restarting \cup {a} ELSE restarting
    /\ UNCHANGED <<process, pidfile, target, retval, result>>

\* do_stop ends; restart goes on with do_start, whatever it returned.
StopReturn(a, value) ==
    IF a \in restarting
    THEN /\ step' = [step EXCEPT ![a] = "test"]
         /\ UNCHANGED <<restarting, result>>
    ELSE Return(a, "stop", value)

\* do_checkup, with which do_start and do_stop begin, fails without privileges, user
\* or node: nothing is done.
Checkup(a) ==
    /\ \/ step[a] = "test" /\ Return(a, "start", 2) /\ UNCHANGED retval
       \/ step[a] = "stop" /\ StopReturn(a, 2) /\ retval' = [retval EXCEPT ![a] = 2]
    /\ UNCHANGED <<process, pidfile, target>>

\* do_start: start-stop-daemon --start --test.
StartTest(a) ==
    /\ step[a] = "test"
    /\ IF Running
       THEN Return(a, "start", 1)
       ELSE /\ step' = [step EXCEPT ![a] = "start"]
            /\ UNCHANGED <<restarting, result>>
    /\ UNCHANGED <<process, pidfile, target, retval>>

\* start-stop-daemon --start --make-pidfile --background, which tests again.
StartCheck(a) ==
    /\ step[a] = "start"
    /\ IF Running
       THEN Return(a, "start", 2)
       ELSE /\ step' = [step EXCEPT ![a] = "spawn"]
            /\ UNCHANGED <<restarting, result>>
    /\ UNCHANGED <<process, pidfile, target, retval>>

\* MUTATION of StartSpawn: the pid file is not made.
StartSpawn_NoPidfile(a) ==
    /\ step[a] = "spawn"
    /\ \E p \in Pids : /\ process[p] = "none"
                       /\ process' = [process EXCEPT ![p] = "starting"]
    /\ Return(a, "start", 0)
    /\ UNCHANGED <<pidfile, target, retval>>
\* MUTATION of StartSpawn: the pid written is that of a child of the daemon.
StartSpawn_ChildPid(a) ==
    /\ step[a] = "spawn"
    /\ \E p \in Pids : /\ process[p] = "none"
                       /\ process' = [process EXCEPT ![p] = "starting"]
                       /\ pidfile' = p + 1
    /\ Return(a, "start", 0)
    /\ UNCHANGED <<target, retval>>
\* The daemon is forked to the background and its pid written.
StartSpawn(a) ==
    /\ step[a] = "spawn"
    /\ \E p \in Pids : /\ process[p] = "none"
                       /\ process' = [process EXCEPT ![p] = "starting"]
                       /\ pidfile' = p
    /\ Return(a, "start", 0)
    /\ UNCHANGED <<target, retval>>

\* do_stop: start-stop-daemon --stop --retry=TERM/30/KILL/5.
StopSignal(a) ==
    /\ step[a] = "stop"
    /\ IF Running
       THEN /\ target' = [target EXCEPT ![a] = pidfile]
            /\ step' = [step EXCEPT ![a] = "wait"]
            /\ retval' = [retval EXCEPT ![a] = 0]
       ELSE /\ step' = [step EXCEPT ![a] = "remove"]
            /\ retval' = [retval EXCEPT ![a] = 1]
            /\ UNCHANGED target
    /\ UNCHANGED <<process, pidfile, restarting, result>>

\* MUTATION of StopWait: nobody waits for the end of the process.
StopWait_Signalled(a) ==
    /\ step[a] = "wait"
    /\ step' = [step EXCEPT ![a] = "remove"]
    /\ target' = [target EXCEPT ![a] = 0]
    /\ UNCHANGED <<process, pidfile, retval, restarting, result>>
\* The process ends with SIGTERM or, 30 seconds later, with SIGKILL.
StopWait(a) ==
    /\ step[a] = "wait"
    /\ process' = [process EXCEPT ![target[a]] = "none"]
    /\ step' = [step EXCEPT ![a] = "remove"]
    /\ target' = [target EXCEPT ![a] = 0]
    /\ UNCHANGED <<pidfile, retval, restarting, result>>

\* MUTATION of StopFails: the result of start-stop-daemon is not looked at.
StopFails_Removes(a) ==
    /\ step[a] = "wait"
    /\ process[target[a]] # "none"
    /\ step' = [step EXCEPT ![a] = "remove"]
    /\ retval' = [retval EXCEPT ![a] = 2]
    /\ target' = [target EXCEPT ![a] = 0]
    /\ UNCHANGED <<process, pidfile, restarting, result>>
\* The process is still there 5 seconds after SIGKILL, and do_stop returns 2 before
\* it removes the pid file.
StopFails(a) ==
    /\ step[a] = "wait"
    /\ process[target[a]] # "none"
    /\ StopReturn(a, 2)
    /\ retval' = [retval EXCEPT ![a] = 2]
    /\ target' = [target EXCEPT ![a] = 0]
    /\ UNCHANGED <<process, pidfile>>

\* MUTATION of StopRemove: the pid file is left to the daemon.
StopRemove_Left(a) ==
    /\ step[a] = "remove"
    /\ StopReturn(a, retval[a])
    /\ UNCHANGED <<process, pidfile, target, retval>>
\* rm -f $PIDFILE.
StopRemove(a) ==
    /\ step[a] = "remove"
    /\ pidfile' = 0
    /\ StopReturn(a, retval[a])
    /\ UNCHANGED <<process, target, retval>>

----------------------------------------------------------------------------
\* The adapter listens or, when the port is in use, exits with an error
\* (main in lib/adapter.js); it may exit at any time.
AdapterListens(p) ==
    /\ process[p] = "starting"
    /\ process' = [process EXCEPT ![p] =
                      IF \E q \in Pids : process[q] = "serving" THEN "none" ELSE "serving"]
    /\ UNCHANGED <<pidfile, step, target, retval, restarting, result>>

AdapterExits(p) ==
    /\ p \in Adapters
    /\ process' = [process EXCEPT ![p] = "none"]
    /\ UNCHANGED <<pidfile, step, target, retval, restarting, result>>

\* Other programs (external).
OtherProgram(p) ==
    /\ Others
    /\ \/ process[p] = "none" /\ process' = [process EXCEPT ![p] = "other"]
       \/ process[p] = "other" /\ process' = [process EXCEPT ![p] = "none"]
    /\ UNCHANGED <<pidfile, step, target, retval, restarting, result>>

Next ==
    \/ \E a \in Admins : \/ Checkup(a) \/ Run(a)
                         \/ StartTest(a) \/ StartCheck(a) \/ StartSpawn(a)
                         \/ StopSignal(a) \/ StopWait(a) \/ StopFails(a) \/ StopRemove(a)
    \/ \E p \in Pids : AdapterListens(p) \/ AdapterExits(p) \/ OtherProgram(p)

Spec == Init /\ [][Next]_vars

----------------------------------------------------------------------------
\* Types of the processes, of the file and of the runs of the script.
TypeOK ==
    /\ process \in [Pids -> {"none", "starting", "serving", "other"}]
    /\ pidfile \in Pids \cup {0}
    /\ step \in [Admins -> {"idle", "test", "start", "spawn", "stop", "wait", "remove"}]
    /\ target \in [Admins -> Pids \cup {0}]
    /\ retval \in [Admins -> 0..2]
    /\ restarting \subseteq Admins
    /\ result \in [Admins -> {"none", "start", "stop"} \X (0..2)]

\* Every adapter that runs is the one in the pid file, so that the script can
\* stop it: for as long as a single administrator uses the script.
Managed == \A p \in Adapters : pidfile = p

\* Run a of the script ends now with one of the values given.
Returns(a, command, values) ==
    /\ step[a] # "idle" /\ step'[a] = "idle"
    /\ result'[a][1] = command /\ result'[a][2] \in values

\* do_stop returns 0 or 1 only if no adapter runs: "0 if daemon has been stopped,
\* 1 if daemon was already stopped" (ngsi_adapter.init:74-76).
StopMeansStopped ==
    [][\A a \in Admins : Returns(a, "stop", {0, 1}) => Adapters' = {}]_vars

\* restart ends with 1, which is shown as a success (ngsi_adapter.init:116-118), only
\* if its own do_stop failed: neither a pid file left behind nor a pid used again
\* makes it pass off what ran before for the daemon it should have started.
RestartReplaces ==
    [][\A a \in restarting : Returns(a, "start", {1}) => retval[a] = 2]_vars
=============================================================================
