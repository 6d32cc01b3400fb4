\* One administrator; other programs get the pids that are free.
SPECIFICATION Spec
CONSTANTS
    a1 = a1
    Admins <- MCOne
    Pids <- MCPids
    Others = TRUE
INVARIANTS TypeOK Managed
PROPERTIES StopMeansStopped RestartReplaces
