----------------------------- MODULE Supervision -----------------------------
(***************************************************************************)
(* Who may open the door.  One supervised system (the yield rotation or    *)
(* the carry): its signed risk-state file, the record log its cycles       *)
(* append to, the escalation latch ("hold"), and the three processes that  *)
(* touch them without a lock between them:                                 *)
(*                                                                         *)
(*   the cycle      reads the file and the latch, trades, sets the latch,  *)
(*                  appends one record       (run_carry_cycle.py,          *)
(*                                            run_yield_cycle.py)          *)
(*   the heartbeat  reads the newest record, verifies the file, decides,   *)
(*                  writes the file          (heartbeat.py)                *)
(*   the operator   writes the file          (telegram_bot.py, the CLI of  *)
(*                                            risk_state.py)               *)
(*                                                                         *)
(* A write of the file is atomic (tmp + replace), a read-decide-write is   *)
(* not.  What a cycle trades is abstracted to the alerts it leaves behind; *)
(* CarryCycle and YieldCycle model the trading.                            *)
(***************************************************************************)
EXTENDS RiskState

CONSTANTS
    RenewAfter,         \* RENEW_AFTER_MS: a NORMAL this old is renewed
    Window,             \* scanner_window_ms: how old a record proves life
    HeartbeatTimeout,   \* TimeoutStartSec of the heartbeat service
    CycleTimeout,       \* TimeoutStartSec of the cycle service
    OperatorStates,     \* the states the operator writes: all, or fewer to bound
    Escalations,        \* how a cycle may end: {"none"} for the yield rotation
    Ahead,              \* how far ahead of the host's clock the record found at
                        \* the start may be dated (a clock stepped back)
    MaxClock            \* bound of the model: time stops here

ASSUME SupervisionAssumption ==
    /\ RenewAfter \in Nat /\ Window \in Nat
    /\ HeartbeatTimeout \in Nat /\ CycleTimeout \in Nat
    /\ Ahead \in Nat /\ MaxClock \in Nat
    /\ OperatorStates \subseteq RiskStates
    /\ Escalations \subseteq {"none", "blocking", "quiet"}

VARIABLES
    now,        \* the host's clock
    file,       \* risk_state.json / carry_risk_state.json
    log,        \* the newest line of LOG_DIR/*.jsonl, as the heartbeat reads it
    hold,       \* carry_hold.json
    cyc,        \* the running cycle
    hb,         \* the running heartbeat
    ack,        \* history: did the operator write since the cycle that set the
                \* latch began: not at all, before the latch, after it
    boot        \* history: ts of the newest bootstrap record until a clean
                \* cycle has verified it

vars == <<now, file, log, hold, cyc, hb, ack, boot>>
history == <<ack, boot>>

Never == -1

NoRecord == [kind |-> "none"]     \* no line yet
(* meta: risk_state_meta.ts, Never when the cycle verified no signed record *)
Record == [kind : {"record"}, ts : Nat, blocking : BOOLEAN, meta : Nat \cup {Never}]

NoHold == Never                   \* else the latch's since_ms

Idle == [pc |-> "idle", start |-> Never, meta |-> Never,
         state |-> "NO_NEW_POSITIONS", blocking |-> FALSE]
HbIdle == [pc |-> "idle", start |-> Never, seen |-> Missing, at |-> Never]

CycType ==
    [pc : {"idle", "started", "verified", "traded"}, start : Nat \cup {Never},
     meta : Nat \cup {Never}, state : RiskStates, blocking : BOOLEAN]
HbType ==
    [pc : {"idle", "checked", "verified", "bootstrap", "promote", "renew"},
     start : Nat \cup {Never}, seen : File, at : Nat \cup {Never}]

TypeOK ==
    /\ now \in Nat
    /\ file \in File
    /\ log \in Record \cup {NoRecord}
    /\ hold \in Nat \cup {NoHold}
    /\ cyc \in CycType
    /\ cyc.pc # "idle" => cyc.start \in Nat
    /\ hb \in HbType
    /\ ack \in {"none", "before", "after"}
    /\ boot \in Nat \cup {Never}

(* A fresh host, or one with the operator's record on it.                  *)
Init ==
    /\ now = 0
    /\ file \in {Missing, Unverifiable}
               \cup {Signed(s, "operator", t) : s \in OperatorStates, t \in 0..Ahead}
    /\ log = NoRecord
    /\ hold = NoHold
    /\ cyc = Idle
    /\ hb = HbIdle
    /\ ack = "none"
    /\ boot = Never

-----------------------------------------------------------------------------
(* Time.  systemd ends a run at its timeout, so no run outlives it.        *)

Running(p, timeout) == p.pc = "idle" \/ now < p.start + timeout

Tick ==
    /\ now < MaxClock
    /\ Running(hb, HeartbeatTimeout)
    /\ Running(cyc, CycleTimeout)
    /\ now' = now + 1
    /\ UNCHANGED <<file, log, hold, cyc, hb, history>>

-----------------------------------------------------------------------------
(* The operator and the disk.                                              *)

OperatorWrite(s) ==
    /\ file' = Signed(s, "operator", now)
    /\ ack' = IF hold # NoHold THEN "after"
              ELSE IF cyc.pc # "idle" THEN "before" ELSE ack
    /\ UNCHANGED <<now, log, hold, cyc, hb, boot>>

FileDamaged ==
    /\ file' \in {Missing, Unverifiable}
    /\ UNCHANGED <<now, log, hold, cyc, hb, history>>

-----------------------------------------------------------------------------
(* The cycle.  flock (carry) or one systemd unit (yield): one at a time.   *)

CycleStart ==
    /\ cyc.pc = "idle"
    /\ cyc' = [Idle EXCEPT !.pc = "started", !.start = now]
    /\ ack' = IF hold = NoHold THEN "none" ELSE ack
    /\ UNCHANGED <<now, file, log, hold, hb, boot>>

(* Mutant: any signed record newer than the latch opens it.                *)
HoldReleasedByAnyone(h, f) == SignatureValid(f) /\ f.ts > h

HoldReleased(h, f) ==
    /\ SignatureValid(f)
    /\ f.source = "operator"
    /\ f.ts > h

(* Verify the file as of the cycle's start, then read (and perhaps clear)  *)
(* the latch.                                                              *)
CycleVerify ==
    /\ cyc.pc = "started"
    /\ LET held == hold # NoHold /\ ~HoldReleased(hold, file)
           signed == Effective(file, cyc.start)
       IN /\ hold' = IF held THEN hold ELSE NoHold
          /\ cyc' = [cyc EXCEPT !.pc = "verified", !.blocking = held,
                       !.meta = IF SignatureValid(file) THEN file.ts ELSE Never,
                       !.state = IF held THEN Stricter(signed, "NO_NEW_POSITIONS")
                                         ELSE signed]
    /\ UNCHANGED <<now, file, log, hb, history>>

(* Plan, execute, and set the latch if the cycle must be escalated:        *)
(* "blocking" with an alert the heartbeat blocks on (orphan leg, book      *)
(* mismatch), "quiet" without (UNDERPERFORMANCE).  The latch keeps its     *)
(* first reason and time; its time is the cycle's start, not the moment it *)
(* is written.  A run that dies between trading and the latch is one that  *)
(* dies before this step: nothing else here remembers the trade.  The      *)
(* permission (cyc.state) is dropped once it is used.                      *)
CycleTrade(e) ==
    /\ cyc.pc = "verified"
    /\ hold' = IF e # "none" /\ hold = NoHold THEN cyc.start ELSE hold
    /\ cyc' = [cyc EXCEPT !.pc = "traded", !.state = "NO_NEW_POSITIONS",
                       !.blocking = @ \/ e = "blocking"]
    /\ UNCHANGED <<now, file, log, hb, history>>

AppendRecord(rec) ==
    /\ log' = rec
    /\ boot' = IF ~rec.blocking /\ rec.meta = boot /\ rec.ts > boot
               THEN Never ELSE boot

CycleRecord ==
    /\ cyc.pc = "traded"
    /\ AppendRecord([kind |-> "record", ts |-> cyc.start,
                     blocking |-> cyc.blocking, meta |-> cyc.meta])
    /\ cyc' = Idle
    /\ UNCHANGED <<now, file, hold, hb, ack>>

(* An invalid config or an exception still leaves a record, a blocking one. *)
CycleFails ==
    /\ cyc.pc # "idle"
    /\ AppendRecord([kind |-> "record", ts |-> cyc.start, blocking |-> TRUE,
                     meta |-> cyc.meta])
    /\ cyc' = Idle
    /\ UNCHANGED <<now, file, hold, hb, ack>>

(* Killed (timeout, reboot): no record.                                    *)
CycleKilled ==
    /\ cyc.pc # "idle"
    /\ cyc' = Idle
    /\ UNCHANGED <<now, file, log, hold, hb, history>>

-----------------------------------------------------------------------------
(* The heartbeat, one step per read or write of shared state.              *)

(* Mutant: a cycle that verified no signed record blocks, like RISK_STATE_*. *)
BlockedOnUnverified(l) == l.kind = "record" /\ (l.blocking \/ l.meta = Never)

Blocked(l) == l.kind = "record" /\ l.blocking

(* Mutant: any record, however old, proves the cycle alive.                *)
ScannerEverAlive(l, at) == l.kind = "record" /\ l.ts <= at

ScannerAlive(l, at) ==
    l.kind = "record" /\ 0 <= at - l.ts /\ at - l.ts < Window

(* Mutant: a clean cycle that verified any record will do.                 *)
CleanCycleVerifiedAny(l, f) ==
    l.kind = "record" /\ ~Blocked(l) /\ l.meta # Never /\ l.ts > f.ts

CleanCycleVerified(l, f) ==
    /\ l.kind = "record"
    /\ ~Blocked(l)
    /\ l.meta = f.ts
    /\ l.ts > f.ts

(* The blocking codes end the run here; so may the API probe before them,  *)
(* which is a step that changes nothing.                                   *)
HeartbeatStart ==
    /\ hb.pc = "idle"
    /\ hb' = IF Blocked(log) THEN HbIdle
             ELSE [HbIdle EXCEPT !.pc = "checked", !.start = now]
    /\ UNCHANGED <<now, file, log, hold, cyc, history>>

HeartbeatVerify ==
    /\ hb.pc = "checked"
    /\ hb' = IF file = Unverifiable THEN HbIdle
             ELSE [hb EXCEPT !.seen = file, !.at = now,
                     !.pc = IF file = Missing THEN "bootstrap" ELSE "verified"]
    /\ UNCHANGED <<now, file, log, hold, cyc, history>>

Promotable(f) ==
    /\ f.state = "NO_NEW_POSITIONS" /\ f.source = "heartbeat_bootstrap"
    /\ ScannerAlive(log, now)
    /\ CleanCycleVerified(log, f)

(* Mutant: a stop that has gone stale is renewed as NORMAL.                *)
RenewableStop(f, at) ==
    ~(Fresh(f, at) /\ at - f.ts < RenewAfter) /\ ScannerAlive(log, now)
(* Mutant: renewed only once it has expired.                               *)
RenewableStale(f, at) ==
    f.state = "NORMAL" /\ ~Fresh(f, at) /\ ScannerAlive(log, now)

Renewable(f, at) ==
    /\ f.state = "NORMAL"
    /\ ~(Fresh(f, at) /\ at - f.ts < RenewAfter)
    /\ ScannerAlive(log, now)

HeartbeatDecide ==
    /\ hb.pc = "verified"
    /\ hb' = IF Promotable(hb.seen)
             THEN [hb EXCEPT !.pc = "promote", !.seen = Missing]
             ELSE IF Renewable(hb.seen, hb.at)
             THEN [hb EXCEPT !.pc = "renew", !.seen = Missing]
             ELSE HbIdle
    /\ UNCHANGED <<now, file, log, hold, cyc, history>>

HeartbeatWrite ==
    /\ hb.pc \in {"bootstrap", "promote", "renew"}
    /\ file' = IF hb.pc = "bootstrap"
               THEN Signed("NO_NEW_POSITIONS", "heartbeat_bootstrap", now)
               ELSE Signed("NORMAL", "heartbeat_renew", now)
    /\ boot' = IF hb.pc = "bootstrap" THEN now ELSE boot
    /\ hb' = HbIdle
    /\ UNCHANGED <<now, log, hold, cyc, ack>>

HeartbeatKilled ==
    /\ hb.pc # "idle"
    /\ hb' = HbIdle
    /\ UNCHANGED <<now, file, log, hold, cyc, history>>

-----------------------------------------------------------------------------
CycleSteps ==
    \/ CycleStart \/ CycleVerify \/ CycleRecord
    \/ \E e \in Escalations : CycleTrade(e)

HeartbeatSteps ==
    HeartbeatStart \/ HeartbeatVerify \/ HeartbeatDecide \/ HeartbeatWrite

Faults == CycleFails \/ CycleKilled \/ HeartbeatKilled \/ FileDamaged

Next ==
    \/ Tick
    \/ \E s \in OperatorStates : OperatorWrite(s)
    \/ CycleSteps
    \/ HeartbeatSteps
    \/ Faults

Spec == Init /\ [][Next]_vars
-----------------------------------------------------------------------------
(* What the supervision promises.                                          *)

(* The abstract warrant, and the supervision as an implementation of it: a *)
(* NORMAL record is a grant, its ts the time of the grant.                 *)
Granted ==
    IF SignatureValid(file) /\ file.state = "NORMAL"
    THEN [by |-> IF file.source = "operator" THEN "operator" ELSE "supervisor",
          at |-> file.ts]
    ELSE [by |-> "nobody", at |-> -1]

Reported == IF log = NoRecord THEN Never ELSE log.ts

W == INSTANCE Warrant WITH
        Lifetime <- MaxAge, Evidence <- Window + HeartbeatTimeout,
        clock <- now, reported <- Reported, grant <- Granted

(* Every step of operator, disk, cycle and heartbeat is a step the warrant *)
(* allows: no automatic NORMAL without a decision of a live cycle          *)
(* (heartbeat.scanner_alive), and no NORMAL from anyone else.              *)
ImplementsWarrant == W!Spec

(* A NORMAL the operator did not write rests on a decision record of a     *)
(* live cycle: the dead man's switch.  A cycle or heartbeat that stops     *)
(* closes the door by itself.                                              *)
NormalIsEvidenced == W!DeadMan

(* A cycle that may open positions read a record no older than MaxAge at   *)
(* the cycle's start (resolve_risk_state), and no escalation of an earlier *)
(* cycle waits for the operator (the hold latch), through any crash in     *)
(* between.                                                                *)
EntryIsWarranted ==
    cyc.pc = "verified" /\ cyc.state = "NORMAL"
    => hold = NoHold /\ cyc.meta # Never /\ cyc.start - cyc.meta <= MaxAge

(* The heartbeat replaces an operator's stop (UNWIND, NO_NEW_POSITIONS)    *)
(* only in the run that had verified the file before the stop was written: *)
(* the window heartbeat.py leaves open between verify and write, and no    *)
(* wider than one run of it.                                               *)
OperatorStop(f) == SignatureValid(f) /\ f.source = "operator" /\ f.state # "NORMAL"
StopLostOnlyToRunInFlight ==
    [][OperatorStop(file) /\ file' # file /\ SignatureValid(file')
         /\ file'.source # "operator"
       => /\ hb.at <= file.ts
          /\ file'.ts - file.ts <= HeartbeatTimeout]_vars

(* The latch opens only if the operator wrote the file since the cycle     *)
(* that set it began (risk.hold_released): no renewal by the heartbeat, no *)
(* earlier command and no restart opens it.                                *)
HoldNeedsOperator ==
    [][hold # NoHold /\ hold' = NoHold => ack # "none"]_vars

(* A bootstrap record becomes NORMAL only after a cycle without a blocking *)
(* code verified exactly that record, later than it was written            *)
(* (heartbeat.clean_cycle_verified).                                       *)
PromotionSawThisRecord ==
    [][hb.pc = "promote" /\ file' # file /\ file' \in SignedRecord
         /\ file'.source = "heartbeat_renew"
       => boot = Never]_vars

(* Time alone only closes the door: a record the host's clock has reached  *)
(* never grows laxer as it ages (carry/state.py, "staleness only ever      *)
(* makes the system more conservative").                                   *)
TimeNeverRelaxes ==
    [][SignatureValid(file) /\ file' = file /\ file.ts <= now
       => Conservative[Effective(file', now')] >= Conservative[Effective(file, now)]]_vars

(* The claims of the docs that the code does not keep.                     *)

(* heartbeat.py: "it never overrides an operator"; README.md: "never       *)
(* overwrites an operator state or UNWIND".                                *)
OperatorStopKept ==
    [][OperatorStop(file) /\ SignatureValid(file')
       => file' = file \/ file'.source = "operator"]_vars

(* carry/risk.py: the latch holds "until the operator writes the carry     *)
(* risk state after it".                                                   *)
HoldReleasedByLaterWrite ==
    [][hold # NoHold /\ hold' = NoHold => ack = "after"]_vars
=============================================================================
