--------------------------- MODULE SupervisionTimed ---------------------------
(***************************************************************************)
(* Supervision on a healthy host, in real time: the timers of deploy/ fire *)
(* when they are due, no run is killed, every cycle ends with a record.    *)
(* What must happen then happens in a bounded time, so liveness is stated  *)
(* here as bounded response.                                               *)
(***************************************************************************)
EXTENDS Supervision

CONSTANTS
    HeartbeatPeriod,    \* OnCalendar of yield-*heartbeat.timer
    CyclePeriod         \* OnCalendar of yield-*cycle.timer, CYCLE_MINUTES

ASSUME PeriodAssumption ==
    HeartbeatPeriod \in Nat \ {0} /\ CyclePeriod \in Nat \ {0}

(* The deployed numbers leave room for one run of each process.  Minutes,  *)
(* carry / yield: cycle every 5 / 10, killed after 4:40 / 9; heartbeat     *)
(* every 5, killed after 2; Window 30, RenewAfter 15, MaxAge 30.           *)
ASSUME HealthyAssumption ==
    /\ CyclePeriod + CycleTimeout < Window
    /\ RenewAfter + HeartbeatPeriod + HeartbeatTimeout <= MaxAge
    /\ CyclePeriod + CycleTimeout + HeartbeatPeriod + HeartbeatTimeout <= MaxAge

VARIABLES
    lastHeartbeat,      \* when the heartbeat last started, Never at first
    lastCycle           \* when the cycle last started

timedVars == <<vars, lastHeartbeat, lastCycle>>

TimedTypeOK ==
    /\ TypeOK
    /\ lastHeartbeat \in Nat \cup {Never}
    /\ lastCycle \in Nat \cup {Never}

TimedInit == Init /\ lastHeartbeat = Never /\ lastCycle = Never

(* The first firing comes at any point of the first period, the next ones  *)
(* a period apart.                                                         *)
Due(last, period) == last = Never \/ now = last + period

(* Time does not pass over a firing that is due.                           *)
Overdue(last, period) == now + 1 > last + period

TimedTick ==
    /\ Tick
    /\ ~Overdue(lastHeartbeat, HeartbeatPeriod)
    /\ ~Overdue(lastCycle, CyclePeriod)
    /\ UNCHANGED <<lastHeartbeat, lastCycle>>

TimedCycleStart ==
    /\ Due(lastCycle, CyclePeriod)
    /\ CycleStart
    /\ lastCycle' = now
    /\ UNCHANGED lastHeartbeat

TimedHeartbeatStart ==
    /\ Due(lastHeartbeat, HeartbeatPeriod)
    /\ lastHeartbeat # now
    /\ HeartbeatStart
    /\ lastHeartbeat' = now
    /\ UNCHANGED lastCycle

TimedNext ==
    \/ TimedTick
    \/ TimedCycleStart
    \/ TimedHeartbeatStart
    \/ /\ \/ \E s \in OperatorStates : OperatorWrite(s)
          \/ CycleVerify
          \/ \E e \in Escalations : CycleTrade(e)
          \/ CycleRecord
          \/ HeartbeatVerify
          \/ HeartbeatDecide
          \/ HeartbeatWrite
       /\ UNCHANGED <<lastHeartbeat, lastCycle>>

TimedSpec == TimedInit /\ [][TimedNext]_timedVars

-----------------------------------------------------------------------------
(* heartbeat.py: "a healthy cycle never sees a stale record".  While no    *)
(* escalation is waiting, a NORMAL in the file is never stale, whoever     *)
(* wrote it and however cycle and heartbeat are phased.                    *)
NormalNeverLapses ==
    file.kind = "signed" /\ file.state = "NORMAL" /\ hold = NoHold
    => now - file.ts <= MaxAge

(* heartbeat.py: blocking on RISK_STATE_* "creates a deadlock".  The       *)
(* bootstrap ends: a missing file is replaced within one heartbeat, and a  *)
(* bootstrap record within one cycle and one heartbeat after it, unless    *)
(* the cycles escalate.                                                    *)
BootstrapIsPrompt ==
    hold = NoHold
    => /\ file = Missing => now <= HeartbeatPeriod + HeartbeatTimeout
       /\ file.kind = "signed" /\ file.source = "heartbeat_bootstrap"
          => now - file.ts <= CyclePeriod + CycleTimeout
                              + HeartbeatPeriod + HeartbeatTimeout

(* telegram_bot.py: a hold "is released at the next carry cycle" after the *)
(* operator's write, /resume or /unwind, as long as that write is in the   *)
(* file (a heartbeat in flight may take it away: OperatorStopKept).        *)
AcknowledgementIsSeen ==
    hold # NoHold /\ SignatureValid(file) /\ file.source = "operator" /\ file.ts > hold
    => now - file.ts <= CyclePeriod + CycleTimeout

(* What waits for another process, the bootstrap for a clean cycle and the *)
(* latch for one that reads the operator's word, does not wait longer than *)
(* one run of each.                                                        *)
WaitsEnd == BootstrapIsPrompt /\ AcknowledgementIsSeen
=============================================================================
