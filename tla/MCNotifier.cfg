\* Two processes, a problem on each channel, any one fault.
CONSTANTS
    Channels = {"risk_state", "heartbeat"}
    Procs = {"cycle", "heartbeat"}
    Observes <- CycleAndHeartbeat
    Confirm <- StateConfirmCycles
    Problems = {"problem"}
    MaxFaults = 1
SPECIFICATION Spec
INVARIANTS
    NotifierTypeOK
PROPERTIES
    SentIfNews
    ProblemIsTold
