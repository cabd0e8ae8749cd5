-------------------------- MODULE SupervisionProofs --------------------------
(***************************************************************************)
(* The safety of Supervision for every value of its constants.  IInv is    *)
(* the inductive invariant: on top of the types it orders the timestamps   *)
(* that the properties compare, and says what a heartbeat in flight still  *)
(* knows when it writes.  The second part is about SupervisionTimed, under *)
(* HealthyAssumption, which the first part does not use.  The third is     *)
(* about the other latch of the operator, the switch of LiveSwitch.        *)
(***************************************************************************)
EXTENDS SupervisionTimed, LiveSwitch, TLAPS

(* The clock is ahead of every timestamp the processes take, and records   *)
(* are appended in the order of their cycles.                              *)
Ordered ==
    /\ cyc.pc # "idle" => cyc.start \in Nat /\ cyc.start <= now
    /\ log # NoRecord => log.ts <= now
    /\ log # NoRecord /\ cyc.pc # "idle" => log.ts <= cyc.start
    /\ hb.pc # "idle" => /\ hb.start \in Nat /\ hb.start <= now
                         /\ now <= hb.start + HeartbeatTimeout
    /\ hb.pc \notin {"idle", "checked"} => hb.at \in Nat /\ hb.start <= hb.at /\ hb.at <= now

(* A decision to write NORMAL rests on a record that was recent when the   *)
(* run began, and so does a NORMAL it wrote.                               *)
Evidenced ==
    /\ hb.pc \in {"promote", "renew"} => log # NoRecord /\ hb.start - log.ts < Window
    /\ SignatureValid(file) /\ file.state = "NORMAL" /\ file.source # "operator"
       => log # NoRecord /\ file.ts - log.ts < Window + HeartbeatTimeout

(* An operator's stop in the file is either newer than what the heartbeat  *)
(* in flight verified, or is what it verified.                             *)
StopSeen ==
    OperatorStop(file) =>
        /\ hb.pc = "verified" => hb.at <= file.ts \/ hb.seen = file
        /\ hb.pc \in {"bootstrap", "promote", "renew"} => hb.at <= file.ts

IInv == TypeOK /\ Ordered /\ Evidenced /\ StopSeen /\ EntryIsWarranted

-----------------------------------------------------------------------------
USE AgesAssumption, SupervisionAssumption

(* The effective state is a state.                                         *)
LEMMA EffectiveType ==
  ASSUME NEW f \in File, NEW at
  PROVE  Effective(f, at) \in RiskStates
  BY DEF Effective, SignatureValid, File, SignedRecord, Missing, Unverifiable, RiskStates

LEMMA StricterType ==
  ASSUME NEW a \in RiskStates, NEW b \in RiskStates
  PROVE  Stricter(a, b) \in RiskStates
  BY DEF Stricter

(* With the latch set, what is left of the signed state never permits an   *)
(* entry.                                                                  *)
LEMMA StricterHolds ==
  ASSUME NEW a \in RiskStates
  PROVE  Stricter(a, "NO_NEW_POSITIONS") # "NORMAL"
  BY DEF Stricter, Conservative, RiskStates

(* Effectively NORMAL: signed NORMAL, and young enough.                    *)
LEMMA EffectiveNormal ==
  ASSUME NEW f \in File, NEW at \in Int, Effective(f, at) = "NORMAL"
  PROVE  f \in SignedRecord /\ f.state = "NORMAL" /\ at - f.ts <= MaxAge
  BY DEF Effective, SignatureValid, Fresh, Code, File, SignedRecord, Missing, Unverifiable

-----------------------------------------------------------------------------
LEMMA InitType == Init => TypeOK
  BY DEF Init, TypeOK, Idle, HbIdle, NoRecord, NoHold, Never, File, SignedRecord,
         Signed, Sources, RiskStates, CycType, HbType

LEMMA IdleTypes == Idle \in CycType /\ HbIdle \in HbType
  BY DEF Idle, HbIdle, CycType, HbType, Never, RiskStates, File

LEMMA NextType == TypeOK /\ [Next]_vars => TypeOK'
<1> SUFFICES ASSUME TypeOK, [Next]_vars PROVE TypeOK'
    OBVIOUS
<1> USE DEF TypeOK, history
<1>1. CASE Tick
    BY <1>1 DEF Tick
<1>2. ASSUME NEW s \in OperatorStates, OperatorWrite(s) PROVE TypeOK'
    BY <1>2 DEF OperatorWrite, Signed, File, SignedRecord, Sources
<1>3. CASE CycleStart
    BY <1>3, IdleTypes DEF CycleStart, Idle, CycType
<1>4. CASE CycleVerify
  <2>1. Effective(file, cyc.start) \in RiskStates
      BY EffectiveType
  <2>2. Stricter(Effective(file, cyc.start), "NO_NEW_POSITIONS") \in RiskStates
      BY <2>1, StricterType DEF RiskStates
  <2>3. (IF SignatureValid(file) THEN file.ts ELSE Never) \in Nat \cup {Never}
      BY DEF SignatureValid, File, SignedRecord, Missing, Unverifiable
  <2>. QED
      BY <1>4, <2>1, <2>2, <2>3 DEF CycleVerify, CycType
<1>5. ASSUME NEW e \in Escalations, CycleTrade(e) PROVE TypeOK'
  <2>1. hold' \in Nat \cup {NoHold}
      BY <1>5 DEF CycleTrade, NoHold
  <2>2. cyc' \in CycType
      BY <1>5 DEF CycleTrade, CycType, RiskStates
  <2>. QED
      BY <1>5, <2>1, <2>2 DEF CycleTrade
<1>6. CASE CycleRecord
  <2>1. cyc.start \in Nat /\ cyc.blocking \in BOOLEAN /\ cyc.meta \in Nat \cup {Never}
      BY <1>6 DEF CycleRecord, CycType
  <2>2. log' \in Record /\ boot' \in Nat \cup {Never}
      BY <1>6, <2>1 DEF CycleRecord, AppendRecord, Record
  <2>3. cyc' \in CycType /\ cyc'.pc = "idle"
      BY <1>6, IdleTypes DEF CycleRecord, Idle
  <2>4. UNCHANGED <<now, file, hold, hb, ack>>
      BY <1>6 DEF CycleRecord
  <2>. QED
      BY <2>2, <2>3, <2>4
<1>7. CASE HeartbeatSteps
  <2>1. CASE HeartbeatStart
      BY <2>1, IdleTypes DEF HeartbeatStart, HbIdle, HbType
  <2>2. CASE HeartbeatVerify
    <3>1. [hb EXCEPT !.seen = file, !.at = now,
                     !.pc = IF file = Missing THEN "bootstrap" ELSE "verified"] \in HbType
        BY DEF HbType
    <3>2. hb' \in HbType
        BY <2>2, <3>1, IdleTypes DEF HeartbeatVerify
    <3>3. UNCHANGED <<now, file, log, hold, cyc, ack, boot>>
        BY <2>2 DEF HeartbeatVerify
    <3>. QED
        BY <3>2, <3>3
  <2>3. CASE HeartbeatDecide
    <3>1. Missing \in File
        BY DEF File
    <3>2. hb' \in HbType
        BY <2>3, <3>1, IdleTypes DEF HeartbeatDecide, HbType
    <3>. QED
        BY <2>3, <3>2 DEF HeartbeatDecide
  <2>4. CASE HeartbeatWrite
      BY <2>4, IdleTypes DEF HeartbeatWrite, Signed, File, SignedRecord, Sources,
                             RiskStates
  <2>. QED
      BY <1>7, <2>1, <2>2, <2>3, <2>4 DEF HeartbeatSteps
<1>8. CASE Faults
  <2>1. CASE CycleFails
      BY <2>1, IdleTypes DEF CycleFails, AppendRecord, Record, CycType, Idle, Never
  <2>2. CASE CycleKilled
      BY <2>2, IdleTypes DEF CycleKilled, Idle
  <2>3. CASE HeartbeatKilled
      BY <2>3, IdleTypes DEF HeartbeatKilled
  <2>4. CASE FileDamaged
      BY <2>4 DEF FileDamaged, File
  <2>. QED
      BY <1>8, <2>1, <2>2, <2>3, <2>4 DEF Faults
<1>9. CASE UNCHANGED vars
    BY <1>9 DEF vars
<1>. QED
    BY <1>1, <1>2, <1>3, <1>4, <1>5, <1>6, <1>7, <1>8, <1>9 DEF Next, CycleSteps

(* Every variable keeps its type.                                          *)
THEOREM TypeCorrect == Spec => []TypeOK
<1>. QED
    BY InitType, NextType, PTL DEF Spec

-----------------------------------------------------------------------------
(* The invariant is inductive: one step per action, and under it one per   *)
(* part the action can disturb.                                            *)

LEMMA InitInv == Init => IInv
<1> SUFFICES ASSUME Init PROVE IInv
    OBVIOUS
<1>1. TypeOK
    BY InitType
<1>2. Ordered
    BY DEF Init, Ordered, Idle, HbIdle
<1>3. Evidenced
    BY DEF Init, Evidenced, HbIdle, SignatureValid, Signed, Missing, Unverifiable
<1>4. StopSeen
    BY DEF Init, StopSeen, HbIdle
<1>5. EntryIsWarranted
    BY DEF Init, EntryIsWarranted, Idle
<1>. QED
    BY <1>1, <1>2, <1>3, <1>4, <1>5 DEF IInv

LEMMA NextInv == IInv /\ [Next]_vars => IInv'
<1> SUFFICES ASSUME IInv, [Next]_vars PROVE IInv'
    OBVIOUS
<1>1. TypeOK'
    BY NextType DEF IInv
<1> USE <1>1 DEF IInv, history
<1>2. CASE Tick
  <2>1. Ordered'
      BY <1>2 DEF Tick, Ordered, Running, TypeOK, Record
  <2>2. Evidenced' /\ StopSeen' /\ EntryIsWarranted'
      BY <1>2 DEF Tick, Evidenced, StopSeen, EntryIsWarranted
  <2>. QED
      BY <2>1, <2>2
<1>3. ASSUME NEW s \in OperatorStates, OperatorWrite(s) PROVE IInv'
  <2>1. Ordered' /\ EntryIsWarranted'
      BY <1>3 DEF OperatorWrite, Ordered, EntryIsWarranted
  <2>2. Evidenced'
      BY <1>3 DEF OperatorWrite, Signed, Evidenced
  <2>3. StopSeen'
      BY <1>3 DEF OperatorWrite, Signed, StopSeen, Ordered
  <2>. QED
      BY <2>1, <2>2, <2>3
<1>4. CASE CycleStart
  <2>1. Ordered'
      BY <1>4 DEF CycleStart, Ordered, Idle, TypeOK, Record
  <2>2. Evidenced' /\ StopSeen' /\ EntryIsWarranted'
      BY <1>4 DEF CycleStart, Evidenced, StopSeen, EntryIsWarranted, Idle
  <2>. QED
      BY <2>1, <2>2
<1>5. CASE CycleVerify
  <2>1. Ordered' /\ Evidenced' /\ StopSeen'
      BY <1>5 DEF CycleVerify, Ordered, Evidenced, StopSeen, TypeOK, CycType
  <2>2. EntryIsWarranted'
    <3> SUFFICES ASSUME cyc'.state = "NORMAL"
                 PROVE  hold' = NoHold /\ cyc'.meta # Never /\ cyc'.start - cyc'.meta <= MaxAge
        BY DEF EntryIsWarranted
    <3> DEFINE held == hold # NoHold /\ ~HoldReleased(hold, file)
    <3>1. file \in File /\ cyc.start \in Nat
        BY <1>5 DEF CycleVerify, TypeOK
    <3>2. ~held
        BY <1>5, <3>1, EffectiveType, StricterHolds DEF CycleVerify, TypeOK, CycType
    <3>3. Effective(file, cyc.start) = "NORMAL"
        BY <1>5, <3>2 DEF CycleVerify, TypeOK, CycType
    <3>4. file \in SignedRecord /\ cyc.start - file.ts <= MaxAge
        BY <3>1, <3>3, EffectiveNormal
    <3>. QED
        BY <1>5, <3>2, <3>4 DEF CycleVerify, SignatureValid, SignedRecord, Never, TypeOK, CycType
  <2>. QED
      BY <2>1, <2>2
<1>6. ASSUME NEW e \in Escalations, CycleTrade(e) PROVE IInv'
    BY <1>6 DEF CycleTrade, Ordered, Evidenced, StopSeen, EntryIsWarranted, TypeOK, CycType
<1>7. CASE CycleRecord
  <2>1. Ordered'
      BY <1>7 DEF CycleRecord, AppendRecord, Ordered, Idle
  <2>2. Evidenced'
      BY <1>7 DEF CycleRecord, AppendRecord, Evidenced, Ordered, NoRecord, TypeOK, Record,
                  SignatureValid, File, SignedRecord, Missing, Unverifiable, HbType
  <2>3. StopSeen' /\ EntryIsWarranted'
      BY <1>7 DEF CycleRecord, AppendRecord, StopSeen, EntryIsWarranted, Idle
  <2>. QED
      BY <2>1, <2>2, <2>3
<1>8. CASE HeartbeatStart
  <2>1. Ordered'
      BY <1>8 DEF HeartbeatStart, Ordered, HbIdle, TypeOK
  <2>2. Evidenced' /\ StopSeen' /\ EntryIsWarranted'
      BY <1>8 DEF HeartbeatStart, Evidenced, StopSeen, EntryIsWarranted, HbIdle
  <2>. QED
      BY <2>1, <2>2
<1>9. CASE HeartbeatVerify
  <2>1. Ordered'
      BY <1>9 DEF HeartbeatVerify, Ordered, HbIdle, TypeOK, HbType
  <2>2. Evidenced' /\ EntryIsWarranted'
      BY <1>9 DEF HeartbeatVerify, Evidenced, EntryIsWarranted, HbIdle, TypeOK, HbType
  <2>3. StopSeen'
      BY <1>9 DEF HeartbeatVerify, StopSeen, OperatorStop, SignatureValid, Missing,
                  HbIdle, TypeOK, HbType
  <2>. QED
      BY <2>1, <2>2, <2>3
<1>10. CASE HeartbeatDecide
  <2>1. Ordered'
      BY <1>10 DEF HeartbeatDecide, Ordered, HbIdle, TypeOK, HbType
  <2>2. Evidenced'
      BY <1>10 DEF HeartbeatDecide, Evidenced, Ordered, Promotable, Renewable, ScannerAlive,
                  HbIdle, NoRecord, TypeOK, HbType, Record
  <2>3. StopSeen'
      BY <1>10 DEF HeartbeatDecide, StopSeen, OperatorStop, Promotable, Renewable,
                  HbIdle, TypeOK, HbType
  <2>4. EntryIsWarranted'
      BY <1>10 DEF HeartbeatDecide, EntryIsWarranted
  <2>. QED
      BY <2>1, <2>2, <2>3, <2>4
<1>11. CASE HeartbeatWrite
  <2>1. Ordered' /\ EntryIsWarranted'
      BY <1>11 DEF HeartbeatWrite, Ordered, EntryIsWarranted, HbIdle
  <2>2. Evidenced'
      BY <1>11 DEF HeartbeatWrite, Evidenced, Ordered, HbIdle, Signed, SignatureValid,
                   TypeOK, Record
  <2>3. StopSeen'
      BY <1>11 DEF HeartbeatWrite, StopSeen, HbIdle
  <2>. QED
      BY <2>1, <2>2, <2>3
<1>12. CASE CycleFails
  <2>1. Ordered'
      BY <1>12 DEF CycleFails, AppendRecord, Ordered, Idle
  <2>2. Evidenced'
      BY <1>12 DEF CycleFails, AppendRecord, Evidenced, Ordered, NoRecord, TypeOK, Record,
                   SignatureValid, File, SignedRecord, Missing, Unverifiable, HbType
  <2>3. StopSeen' /\ EntryIsWarranted'
      BY <1>12 DEF CycleFails, AppendRecord, StopSeen, EntryIsWarranted, Idle
  <2>. QED
      BY <2>1, <2>2, <2>3
<1>13. CASE CycleKilled
    BY <1>13 DEF CycleKilled, Ordered, Evidenced, StopSeen, EntryIsWarranted, Idle
<1>14. CASE HeartbeatKilled
    BY <1>14 DEF HeartbeatKilled, Ordered, Evidenced, StopSeen, EntryIsWarranted, HbIdle
<1>15. CASE FileDamaged
    BY <1>15 DEF FileDamaged, Ordered, Evidenced, StopSeen, EntryIsWarranted, OperatorStop,
                 SignatureValid, Missing, Unverifiable
<1>16. CASE UNCHANGED vars
    BY <1>16 DEF vars, Ordered, Evidenced, StopSeen, EntryIsWarranted
<1>. QED
    BY <1>2, <1>3, <1>4, <1>5, <1>6, <1>7, <1>8, <1>9, <1>10, <1>11, <1>12, <1>13, <1>14,
       <1>15, <1>16 DEF Next, CycleSteps, HeartbeatSteps, Faults

LEMMA Inductive == Spec => []IInv
<1>. QED
    BY InitInv, NextInv, PTL DEF Spec

-----------------------------------------------------------------------------
(* A cycle that may open positions has read a record younger than MaxAge   *)
(* and no escalation is waiting for the operator, whatever the interleaving *)
(* and the crashes.                                                        *)
THEOREM EntryWarranted == Spec => []EntryIsWarranted
<1>1. IInv => EntryIsWarranted
    BY DEF IInv
<1>. QED
    BY <1>1, Inductive, PTL

(* The dead man's switch: a fresh NORMAL the operator did not write rests  *)
(* on a decision record of a live cycle (heartbeat.scanner_alive).         *)
THEOREM DeadManSwitch == Spec => []NormalIsEvidenced
<1>1. IInv => NormalIsEvidenced
  <2> SUFFICES ASSUME IInv, W!Good, Granted.by = "supervisor"
               PROVE  Reported # -1 /\ now - Reported < Window + HeartbeatTimeout + MaxAge
      BY DEF NormalIsEvidenced, W!DeadMan
  <2>1. SignatureValid(file) /\ file.state = "NORMAL" /\ file.source # "operator"
      BY DEF Granted
  <2>2. Granted.at = file.ts /\ now - file.ts <= MaxAge
      BY <2>1 DEF Granted, W!Good
  <2>3. log # NoRecord /\ file.ts - log.ts < Window + HeartbeatTimeout
      BY <2>1 DEF IInv, Evidenced
  <2>4. log.ts \in Nat /\ now \in Nat /\ file.ts \in Nat
      BY <2>1, <2>3 DEF IInv, TypeOK, Record, File, SignedRecord, SignatureValid,
                        Missing, Unverifiable
  <2>. QED
      BY <2>2, <2>3, <2>4 DEF Reported
<1>. QED
    BY <1>1, Inductive, PTL

(* The file after a step that is neither the operator's nor the heartbeat's *)
(* write is the file before it, or unsigned.                               *)
LEMMA FileWriters ==
  ASSUME [Next]_vars, SignatureValid(file'), file' # file
  PROVE  (\E s \in OperatorStates : OperatorWrite(s)) \/ HeartbeatWrite
<1>1. ~FileDamaged
    BY DEF FileDamaged, SignatureValid, Missing, Unverifiable
<1>. QED
    BY <1>1 DEF Next, vars, Tick, CycleSteps, CycleStart, CycleVerify, CycleTrade, CycleRecord,
       HeartbeatSteps, HeartbeatStart, HeartbeatVerify, HeartbeatDecide,
       Faults, CycleFails, CycleKilled, HeartbeatKilled

(* An operator's stop is lost only to a heartbeat run that had verified    *)
(* the file before the stop was written, and within that run's timeout.    *)
THEOREM StopLost == Spec => StopLostOnlyToRunInFlight
<1>1. IInv /\ [Next]_vars
      => (OperatorStop(file) /\ file' # file /\ SignatureValid(file')
            /\ file'.source # "operator"
          => hb.at <= file.ts /\ file'.ts - file.ts <= HeartbeatTimeout)
  <2> SUFFICES ASSUME IInv, [Next]_vars, OperatorStop(file), file' # file,
                      SignatureValid(file'), file'.source # "operator"
               PROVE  hb.at <= file.ts /\ file'.ts - file.ts <= HeartbeatTimeout
      OBVIOUS
  <2>1. HeartbeatWrite
      BY FileWriters DEF OperatorWrite, Signed
  <2>2. hb.at <= file.ts /\ file'.ts = now
      BY <2>1 DEF IInv, StopSeen, HeartbeatWrite, Signed
  <2>3. now \in Nat /\ hb.start \in Nat /\ hb.at \in Nat /\ file.ts \in Nat
        /\ hb.start <= hb.at /\ now <= hb.start + HeartbeatTimeout
      BY <2>1 DEF IInv, TypeOK, Ordered, HeartbeatWrite, OperatorStop, SignatureValid, File,
                  SignedRecord, Missing, Unverifiable
  <2>. QED
      BY <2>2, <2>3
<1>. QED
    BY <1>1, Inductive, PTL DEF Spec, StopLostOnlyToRunInFlight

(* The clock stands still or advances by one.                              *)
LEMMA ClockMoves == [Next]_vars => now' = now \/ now' = now + 1
<1>1. CASE CycleSteps
    BY <1>1 DEF CycleSteps, CycleStart, CycleVerify, CycleTrade, CycleRecord
<1>2. CASE HeartbeatSteps
    BY <1>2 DEF HeartbeatSteps, HeartbeatStart, HeartbeatVerify, HeartbeatDecide,
                HeartbeatWrite
<1>3. CASE Faults
    BY <1>3 DEF Faults, CycleFails, CycleKilled, HeartbeatKilled, FileDamaged
<1>. QED
    BY <1>1, <1>2, <1>3 DEF Next, vars, Tick, OperatorWrite

(* Time alone only closes the door.                                        *)
THEOREM TimeOnlyCloses == Spec => TimeNeverRelaxes
<1>1. IInv /\ [Next]_vars
      => (SignatureValid(file) /\ file' = file /\ file.ts <= now
          => Conservative[Effective(file', now')] >= Conservative[Effective(file, now)])
  <2> SUFFICES ASSUME IInv, [Next]_vars, SignatureValid(file), file' = file, file.ts <= now
               PROVE  Conservative[Effective(file, now')] >= Conservative[Effective(file, now)]
      OBVIOUS
  <2>1. now \in Nat /\ now' \in Nat /\ now <= now'
      BY ClockMoves DEF IInv, TypeOK
  <2>2. file \in SignedRecord
      BY DEF IInv, TypeOK, File, SignatureValid, Missing, Unverifiable
  <2>3. Fresh(file, now') => Fresh(file, now)
      BY <2>1, <2>2 DEF Fresh, Code, SignedRecord
  <2>. QED
      BY <2>2, <2>3 DEF Effective, Conservative, SignatureValid, SignedRecord, RiskStates
<1>. QED
    BY <1>1, Inductive, PTL DEF Spec, TimeNeverRelaxes

-----------------------------------------------------------------------------
(* The refinement.                                                         *)

(* The view of the file as a grant, while nobody writes it.                *)
LEMMA SameView ==
  ASSUME file' = file, log' = log
  PROVE  Granted' = Granted /\ Reported' = Reported
  BY DEF Granted, Reported

LEMMA NextReport ==
  ASSUME IInv, cyc.pc # "idle", now' = now, file' = file,
         NEW b \in BOOLEAN,
         AppendRecord([kind |-> "record", ts |-> cyc.start, blocking |-> b,
                       meta |-> cyc.meta])
  PROVE  W!Report
<1>1. Granted' = Granted
    BY DEF Granted
<1>2. Reported' = cyc.start
    BY DEF AppendRecord, Reported, NoRecord
<1>3. cyc.start \in Int /\ now \in Int /\ cyc.start <= now
    BY DEF IInv, TypeOK, Ordered
<1>4. Reported \in Int /\ Reported <= cyc.start
    BY <1>3 DEF Reported, IInv, TypeOK, Ordered, Record, Never
<1>. QED
    BY <1>1, <1>2, <1>3, <1>4 DEF W!Report

(* A step of the heartbeat, the operator or the disk that writes the file  *)
(* grants or revokes.                                                      *)
LEMMA NextGrant ==
  ASSUME IInv, HeartbeatWrite
  PROVE  W!GrantBySupervisor \/ W!Revoke
<1>1. now' = now /\ Reported' = Reported
    BY DEF HeartbeatWrite, Reported
<1>2. CASE hb.pc = "bootstrap"
    BY <1>1, <1>2 DEF HeartbeatWrite, Signed, Granted, SignatureValid, W!Revoke, W!Nobody
<1>3. CASE hb.pc \in {"promote", "renew"}
  <2>1. Granted' = [by |-> "supervisor", at |-> now]
      BY <1>3 DEF HeartbeatWrite, Signed, Granted, SignatureValid
  <2>2. log # NoRecord /\ log.ts \in Nat
      BY <1>3 DEF IInv, Evidenced, TypeOK, Record
  <2>3. hb.start \in Nat /\ now \in Nat /\ now <= hb.start + HeartbeatTimeout
        /\ hb.start - log.ts < Window
      BY <1>3 DEF IInv, Evidenced, Ordered, TypeOK
  <2>4. Reported # -1 /\ now - Reported < Window + HeartbeatTimeout
      BY <2>2, <2>3 DEF Reported
  <2>. QED
      BY <1>1, <2>1, <2>4 DEF W!GrantBySupervisor
<1>. QED
    BY <1>2, <1>3 DEF HeartbeatWrite

LEMMA InitWarrant == Init => W!Init
<1> SUFFICES ASSUME Init PROVE W!Init
    OBVIOUS
<1>1. TypeOK
    BY InitType
<1>2. now = 0 /\ Reported = -1
    BY DEF Init, Reported, Never
<1>3. Granted \in W!Grant /\ Granted.by # "supervisor"
    BY <1>1 DEF Init, Granted, SignatureValid, Signed, Missing, Unverifiable, TypeOK, File,
                SignedRecord, W!Grant, W!Nobody
<1>. QED
    BY <1>2, <1>3 DEF W!Init

LEMMA NextWarrant ==
  IInv /\ [Next]_vars => [W!Next]_<<now, Reported, Granted>>
<1> SUFFICES ASSUME IInv, [Next]_vars PROVE [W!Next]_<<now, Reported, Granted>>
    OBVIOUS
<1>1. CASE Tick
    BY <1>1, SameView DEF Tick, W!Next, W!Pass
<1>2. ASSUME NEW s \in OperatorStates, OperatorWrite(s)
      PROVE W!GrantByOperator \/ W!Revoke
    BY <1>2 DEF OperatorWrite, Signed, Granted, Reported, SignatureValid,
                W!GrantByOperator, W!Revoke, W!Nobody
<1>3. CASE CycleRecord
    BY <1>3, NextReport DEF CycleRecord, IInv, TypeOK, CycType, W!Next
<1>4. CASE CycleFails
    BY <1>4, NextReport DEF CycleFails, W!Next
<1>5. CASE HeartbeatWrite
    BY <1>5, NextGrant DEF W!Next
<1>6. CASE FileDamaged
    BY <1>6 DEF FileDamaged, Granted, Reported, SignatureValid, Missing, Unverifiable,
                W!Next, W!Revoke, W!Nobody
<1>7. ASSUME CycleStart \/ CycleVerify \/ (\E e \in Escalations : CycleTrade(e))
             \/ CycleKilled
      PROVE  UNCHANGED <<now, Reported, Granted>>
    BY <1>7, SameView DEF CycleStart, CycleVerify, CycleTrade, CycleKilled
<1>8. ASSUME HeartbeatStart \/ HeartbeatVerify \/ HeartbeatDecide \/ HeartbeatKilled
      PROVE  UNCHANGED <<now, Reported, Granted>>
    BY <1>8, SameView DEF HeartbeatStart, HeartbeatVerify, HeartbeatDecide, HeartbeatKilled
<1>9. CASE UNCHANGED vars
    BY <1>9, SameView DEF vars
<1>. QED
    BY <1>1, <1>2, <1>3, <1>4, <1>5, <1>6, <1>7, <1>8, <1>9
    DEF Next, CycleSteps, HeartbeatSteps, Faults, W!Next

(* Every behaviour of operator, disk, cycle and heartbeat is one the       *)
(* abstract warrant allows: no automatic NORMAL without recent evidence of *)
(* a working cycle, and no NORMAL from anyone else.                        *)
THEOREM WarrantImplemented == Spec => ImplementsWarrant
<1>. QED
    BY InitWarrant, NextWarrant, Inductive, PTL DEF Spec, ImplementsWarrant, W!Spec

-----------------------------------------------------------------------------
(* The latch.  Ack says what the history variable knows: on a host whose   *)
(* clock never went back, an operator's record newer than the latch, or    *)
(* than the cycle that may yet set it, was written since that cycle began. *)

OperatorAfter(t) == SignatureValid(file) /\ file.source = "operator" /\ file.ts > t

Ack ==
    /\ SignatureValid(file) => file.ts <= now
    /\ hold # NoHold /\ OperatorAfter(hold) => ack # "none"
    /\ hold = NoHold /\ cyc.pc # "idle" /\ OperatorAfter(cyc.start) => ack # "none"

LEMMA NextAck == TypeOK /\ Ack /\ [Next]_vars => Ack'
<1> SUFFICES ASSUME TypeOK, Ack, [Next]_vars PROVE Ack'
    OBVIOUS
<1>1. CASE Tick
    BY <1>1 DEF Tick, Ack, OperatorAfter, history, TypeOK, File, SignedRecord, SignatureValid,
                Missing, Unverifiable
<1>2. ASSUME NEW s \in OperatorStates, OperatorWrite(s) PROVE Ack'
    BY <1>2 DEF OperatorWrite, Signed, Ack, OperatorAfter, TypeOK
<1>3. CASE CycleStart
  <2>1. cyc'.start = now /\ file' = file /\ now' = now /\ hold' = hold
      BY <1>3 DEF CycleStart, Idle
  <2>2. ~OperatorAfter(cyc.start)'
      BY <2>1 DEF Ack, OperatorAfter, TypeOK, SignatureValid, File, SignedRecord,
                  Missing, Unverifiable
  <2>3. hold # NoHold => ack' = ack
      BY <1>3 DEF CycleStart
  <2>. QED
      BY <2>1, <2>2, <2>3 DEF Ack, OperatorAfter
<1>4. CASE CycleVerify
    BY <1>4 DEF CycleVerify, Ack, OperatorAfter, HoldReleased, TypeOK, CycType, history
<1>5. ASSUME NEW e \in Escalations, CycleTrade(e) PROVE Ack'
    BY <1>5 DEF CycleTrade, Ack, OperatorAfter, TypeOK, CycType, history
<1>6. CASE CycleRecord \/ CycleFails \/ CycleKilled
    BY <1>6 DEF CycleRecord, CycleFails, CycleKilled, Idle, Ack, OperatorAfter, history
<1>7. CASE HeartbeatWrite
    BY <1>7 DEF HeartbeatWrite, Signed, Ack, OperatorAfter, TypeOK
<1>8. CASE HeartbeatStart \/ HeartbeatVerify \/ HeartbeatDecide \/ HeartbeatKilled
    BY <1>8 DEF HeartbeatStart, HeartbeatVerify, HeartbeatDecide, HeartbeatKilled, Ack,
                OperatorAfter, history
<1>9. CASE FileDamaged
    BY <1>9 DEF FileDamaged, Ack, OperatorAfter, SignatureValid, Missing, Unverifiable
<1>10. CASE UNCHANGED vars
    BY <1>10 DEF vars, Ack, OperatorAfter
<1>. QED
    BY <1>1, <1>2, <1>3, <1>4, <1>5, <1>6, <1>7, <1>8, <1>9, <1>10
    DEF Next, CycleSteps, HeartbeatSteps, Faults

(* The latch opens only if the operator wrote the file since the cycle     *)
(* that set it began, on a host whose clock never went back (Ahead = 0).   *)
THEOREM HoldKept ==
  ASSUME Ahead = 0
  PROVE  Spec => HoldNeedsOperator
<1>1. Init => Ack
    BY DEF Init, Ack, Idle, Signed, SignatureValid, Missing, Unverifiable
<1>2. TypeOK /\ Ack /\ [Next]_vars => (hold # NoHold /\ hold' = NoHold => ack # "none")
  <2> SUFFICES ASSUME TypeOK, Ack, [Next]_vars, hold # NoHold, hold' = NoHold
               PROVE  ack # "none"
      OBVIOUS
  <2>1. ASSUME NEW e \in Escalations PROVE ~CycleTrade(e)
      BY DEF CycleTrade
  <2>2. CycleVerify
      BY <2>1 DEF Next, vars, Tick, OperatorWrite, CycleSteps, CycleStart, CycleRecord,
         HeartbeatSteps, HeartbeatStart, HeartbeatVerify, HeartbeatDecide, HeartbeatWrite,
         Faults, CycleFails, CycleKilled, HeartbeatKilled, FileDamaged
  <2>. QED
      BY <2>2 DEF CycleVerify, HoldReleased, Ack, OperatorAfter
<1>. QED
    BY <1>1, <1>2, NextAck, TypeCorrect, PTL DEF Spec, HoldNeedsOperator

-----------------------------------------------------------------------------
(* The bootstrap.  While a bootstrap record waits for its clean cycle, the *)
(* newest record is not that cycle's, and whatever bootstrap record the    *)
(* file or the heartbeat holds is the one that waits.                      *)

Bootstrap(f) == SignatureValid(f) /\ f.source = "heartbeat_bootstrap"

Waiting ==
    /\ hb.pc = "verified" => SignatureValid(hb.seen)
    /\ boot # Never =>
        /\ log # NoRecord /\ ~log.blocking => ~(log.meta = boot /\ log.ts > boot)
        /\ Bootstrap(file) => file.ts = boot
        /\ hb.pc = "verified" /\ Bootstrap(hb.seen) => hb.seen.ts = boot
        /\ hb.pc # "promote"

LEMMA NextWaiting == IInv /\ Waiting /\ [Next]_vars => Waiting'
<1> SUFFICES ASSUME IInv, Waiting, [Next]_vars PROVE Waiting'
    OBVIOUS
<1> USE DEF Waiting, Bootstrap
<1>1. CASE Tick
    BY <1>1 DEF Tick, history
<1>2. ASSUME NEW s \in OperatorStates, OperatorWrite(s) PROVE Waiting'
    BY <1>2 DEF OperatorWrite, Signed
<1>3. CASE CycleStart \/ CycleVerify \/ (\E e \in Escalations : CycleTrade(e))
           \/ CycleKilled
    BY <1>3 DEF CycleStart, CycleVerify, CycleTrade, CycleKilled, history
<1>4. CASE CycleRecord
    BY <1>4 DEF CycleRecord, AppendRecord
<1>5. CASE CycleFails
    BY <1>5 DEF CycleFails, AppendRecord
<1>6. CASE HeartbeatStart \/ HeartbeatKilled
  <2>1. boot' = boot /\ log' = log /\ file' = file
      BY <1>6 DEF HeartbeatStart, HeartbeatKilled, history
  <2>2. CASE HeartbeatStart
      BY <2>1, <2>2 DEF HeartbeatStart, HbIdle
  <2>3. CASE HeartbeatKilled
      BY <2>1, <2>3 DEF HeartbeatKilled, HbIdle
  <2>. QED
      BY <1>6, <2>2, <2>3
<1>7. CASE HeartbeatVerify
  <2>1. boot' = boot /\ log' = log /\ file' = file
      BY <1>7 DEF HeartbeatVerify, history
  <2>2. hb'.pc = "verified" => SignatureValid(file) /\ hb'.seen = file
      BY <1>7 DEF HeartbeatVerify, HbIdle, IInv, TypeOK, HbType, File, SignedRecord,
                  SignatureValid
  <2>3. hb'.pc # "promote"
      BY <1>7 DEF HeartbeatVerify, HbIdle, IInv, TypeOK, HbType
  <2>. QED
      BY <2>1, <2>2, <2>3
<1>8. CASE HeartbeatDecide
  <2>1. boot # Never => ~Promotable(hb.seen)
    <3> SUFFICES ASSUME boot # Never, Promotable(hb.seen) PROVE FALSE
        OBVIOUS
    <3>1. hb.seen.ts = boot
        BY <1>8 DEF HeartbeatDecide, Promotable
    <3>2. log.kind = "record" /\ log.meta = boot /\ log.ts > boot /\ ~Blocked(log)
        BY <3>1 DEF Promotable, CleanCycleVerified
    <3>3. log # NoRecord /\ ~log.blocking
        BY <3>2 DEF Blocked, NoRecord
    <3>. QED
        BY <3>2, <3>3
  <2>. QED
      BY <1>8, <2>1 DEF HeartbeatDecide, HbIdle, history, IInv, TypeOK, HbType
<1>9. CASE HeartbeatWrite
    BY <1>9 DEF HeartbeatWrite, Signed, HbIdle, IInv, TypeOK, Ordered, Record
<1>10. CASE FileDamaged
    BY <1>10 DEF FileDamaged, SignatureValid, Missing, Unverifiable, history
<1>11. CASE UNCHANGED vars
    BY <1>11 DEF vars
<1>. QED
    BY <1>1, <1>2, <1>3, <1>4, <1>5, <1>6, <1>7, <1>8, <1>9, <1>10, <1>11
    DEF Next, CycleSteps, HeartbeatSteps, Faults

(* A bootstrap record becomes NORMAL only after a cycle without a blocking *)
(* code verified exactly that record, later than it was written.           *)
THEOREM PromotionSound == Spec => PromotionSawThisRecord
<1>1. Init => Waiting
    BY DEF Init, Waiting, HbIdle
<1>2. Waiting
      => (hb.pc = "promote" /\ file' # file /\ file' \in SignedRecord
            /\ file'.source = "heartbeat_renew"
          => boot = Never)
    BY DEF Waiting
<1>. QED
    BY <1>1, <1>2, NextWaiting, Inductive, PTL DEF Spec, PromotionSawThisRecord

-----------------------------------------------------------------------------
(***************************************************************************)
(* Bounded response on a healthy host, for every choice of periods,        *)
(* timeouts and windows that leave room for one run of each process        *)
(* (HealthyAssumption).  On top of the inductive invariant of Supervision, *)
(* which every timed step keeps, TInv ties the clock to the last firing of *)
(* each timer, and says for each thing that waits (a latch, a NORMAL, a    *)
(* bootstrap record) how far the run it waits for has come.                *)
(***************************************************************************)
(* No timer is overdue, a run belongs to its timer's last firing, and the  *)
(* newest record to the last or the last but one firing of the cycle.      *)
OnTime ==
    /\ lastHeartbeat <= now /\ now <= lastHeartbeat + HeartbeatPeriod
    /\ lastCycle <= now /\ now <= lastCycle + CyclePeriod
    /\ hb.pc # "idle" => hb.start = lastHeartbeat
    /\ cyc.pc # "idle" => cyc.start = lastCycle /\ now <= lastCycle + CycleTimeout
    /\ cyc.pc = "idle" => Reported = lastCycle
    /\ cyc.pc # "idle" => lastCycle - Reported <= CyclePeriod

(* The first cycle that begins after time t has begun at most a period     *)
(* later, and has not ended.                                               *)
NextCyclePending(t) ==
    IF cyc.pc = "idle" THEN lastCycle <= t ELSE lastCycle - t <= CyclePeriod

(* A blocking cycle has set the latch; without a latch, a blocking record  *)
(* is about to be replaced.                                                *)
Latched ==
    /\ cyc.pc \in {"verified", "traded"} /\ cyc.blocking => hold # NoHold
    /\ Blocked(log) /\ hold = NoHold => cyc.pc \in {"verified", "traded"}

(* The operator's word that opens the latch waits for the cycle after it.  *)
Acknowledged ==
    hold # NoHold /\ HoldReleased(hold, file)
    => IF cyc.pc = "started" THEN lastCycle - file.ts <= CyclePeriod
                             ELSE lastCycle <= file.ts

(* The run in flight verified what is in the file, or before it was        *)
(* written.                                                                *)
Seen ==
    SignatureValid(file) =>
        /\ hb.pc = "verified" => hb.seen = file \/ hb.at <= file.ts
        /\ hb.pc = "bootstrap" => hb.at <= file.ts

(* A NORMAL waits for a record that lets the heartbeat renew it, then for  *)
(* its age, then for the next run of the heartbeat.                        *)
Young(age) == age <= RenewAfter \/ age <= CyclePeriod + CycleTimeout

Renewed ==
    file.kind = "signed" /\ file.state = "NORMAL" /\ hold = NoHold =>
        /\ log = NoRecord \/ Blocked(log) => NextCyclePending(file.ts)
        /\ hb.pc = "idle" => Young(lastHeartbeat - file.ts)
        /\ hb.pc # "idle" => Young(lastHeartbeat - HeartbeatPeriod - file.ts)

(* A missing file waits for the first heartbeat.                           *)
Created ==
    file = Missing =>
        /\ hold = NoHold => ~Blocked(log)
        /\ hold = NoHold =>
              \/ lastHeartbeat = Never
              \/ hb.pc \in {"checked", "bootstrap"} /\ lastHeartbeat < HeartbeatPeriod

(* A bootstrap record waits for a clean cycle that began after it, then    *)
(* for the next run of the heartbeat.                                      *)
Promoted ==
    file.kind = "signed" /\ file.source = "heartbeat_bootstrap" =>
    /\ file.state = "NO_NEW_POSITIONS"
    /\ hold = NoHold =>
        /\ ~CleanCycleVerified(log, file) => NextCyclePending(file.ts)
        /\ cyc.pc \in {"verified", "traded"} /\ cyc.start > file.ts => cyc.meta = file.ts
        /\ hb.pc = "idle" => lastHeartbeat - file.ts <= CyclePeriod + CycleTimeout
        /\ hb.pc # "idle" => lastHeartbeat - file.ts
                             <= CyclePeriod + CycleTimeout + HeartbeatPeriod

TInv ==
    /\ TimedTypeOK /\ OnTime /\ Latched /\ Acknowledged
    /\ Seen /\ Renewed /\ Created /\ Promoted

-----------------------------------------------------------------------------
USE AgesAssumption, SupervisionAssumption, PeriodAssumption, HealthyAssumption

(* What the types say of the parts of the state the invariant compares.    *)
LEMMA TimesAre ==
  ASSUME TypeOK, TimedTypeOK
  PROVE  /\ now \in Nat /\ lastHeartbeat \in Int /\ lastCycle \in Int
         /\ Reported \in Int
         /\ SignatureValid(file) => file \in SignedRecord /\ file.ts \in Nat
         /\ log # NoRecord => log \in Record /\ log.ts \in Nat /\ log.blocking \in BOOLEAN
         /\ hold # NoHold => hold \in Nat
         /\ cyc.blocking \in BOOLEAN
<1>1. SignatureValid(file) => file \in SignedRecord /\ file.ts \in Nat
    BY DEF TypeOK, SignatureValid, File, SignedRecord, Missing, Unverifiable
<1>2. log # NoRecord => log \in Record /\ log.ts \in Nat /\ log.blocking \in BOOLEAN
    BY DEF TypeOK, Record
<1>3. Reported \in Int
    BY <1>2 DEF Reported, Never
<1>. QED
    BY <1>1, <1>2, <1>3 DEF TypeOK, TimedTypeOK, Never, CycType

LEMMA YoungIs ==
  ASSUME NEW age \in Int
  PROVE  /\ age <= 0 => Young(age)
         /\ age <= CyclePeriod + CycleTimeout => Young(age)
         /\ age <= RenewAfter => Young(age)
         /\ \A b \in Int : b >= age /\ Young(b) => Young(age)
  BY DEF Young

(* What a writer of the file writes.                                       *)
LEMMA Kinds ==
  ASSUME NEW s, NEW src, NEW t
  PROVE  /\ Signed(s, src, t).kind = "signed" /\ Signed(s, src, t).state = s
         /\ Signed(s, src, t).source = src /\ Signed(s, src, t).ts = t
         /\ SignatureValid(Signed(s, src, t))
         /\ Signed(s, src, t) # Missing
  BY DEF Signed, SignatureValid, Missing

LEMMA TimedInitInv == TimedInit => TInv
<1> SUFFICES ASSUME TimedInit PROVE TInv
    OBVIOUS
<1>1. Init /\ lastHeartbeat = Never /\ lastCycle = Never
    BY DEF TimedInit
<1>2. TypeOK /\ TimedTypeOK
    BY <1>1, InitType DEF TimedTypeOK
<1>3. hb.pc = "idle" /\ cyc.pc = "idle" /\ log = NoRecord /\ hold = NoHold /\ now = 0
    BY <1>1 DEF Init, Idle, HbIdle
<1>4. SignatureValid(file) => file.ts \in Nat /\ file.source = "operator"
    BY <1>1 DEF Init, Signed, SignatureValid, Missing, Unverifiable
<1>5. OnTime
    BY <1>1, <1>3 DEF OnTime, Never, Reported
<1>6. ~Blocked(log)
    BY <1>3 DEF Blocked, NoRecord
<1>7. Latched /\ Acknowledged /\ Seen /\ Created
    BY <1>1, <1>3, <1>6 DEF Latched, Acknowledged, Seen, Created
<1>8. Renewed
  <2> SUFFICES ASSUME file.ts \in Nat PROVE Renewed
      BY <1>4 DEF Renewed, SignatureValid
  <2>1. lastHeartbeat - file.ts \in Int /\ lastHeartbeat - file.ts <= 0
        /\ lastCycle <= file.ts
      BY <1>1 DEF Never
  <2>. QED
      BY <2>1, <1>3, YoungIs DEF Renewed, NextCyclePending
<1>9. Promoted
    BY <1>4 DEF Promoted, SignatureValid
<1>. QED
    BY <1>2, <1>5, <1>7, <1>8, <1>9 DEF TInv

-----------------------------------------------------------------------------
(* One lemma per action.                                                   *)

LEMMA TickKeeps == IInv /\ TInv /\ TypeOK' /\ TimedTick => TInv'
<1> SUFFICES ASSUME IInv, TInv, TypeOK', TimedTick PROVE TInv'
    OBVIOUS
<1> USE DEF history
<1>1. TypeOK /\ TimedTypeOK /\ Ordered
    BY DEF IInv, TInv
<1>2. TimedTypeOK'
    BY <1>1 DEF TimedTick, TimedTypeOK
<1>a. /\ now' = now + 1 /\ UNCHANGED <<file, log, hold, cyc, hb, lastHeartbeat, lastCycle>>
      /\ ~(now + 1 > lastHeartbeat + HeartbeatPeriod) /\ ~(now + 1 > lastCycle + CyclePeriod)
      /\ cyc.pc # "idle" => now < cyc.start + CycleTimeout
    BY DEF TimedTick, Tick, Running, Overdue
<1>3. OnTime'
  <2>1. /\ now \in Nat /\ lastHeartbeat \in Int /\ lastCycle \in Int
        /\ cyc.pc # "idle" => cyc.start = lastCycle
        /\ lastHeartbeat <= now /\ lastCycle <= now
      BY <1>1, TimesAre DEF TInv, OnTime
  <2>2. now' <= lastHeartbeat + HeartbeatPeriod /\ now' <= lastCycle + CyclePeriod
        /\ lastHeartbeat <= now' /\ lastCycle <= now'
      BY <1>a, <2>1
  <2>3. cyc.pc # "idle" => now' <= lastCycle + CycleTimeout
      BY <1>a, <2>1
  <2>. QED
      BY <1>a, <2>2, <2>3 DEF TInv, OnTime, Reported
<1>4. Latched' /\ Acknowledged' /\ Seen' /\ Renewed' /\ Created' /\ Promoted'
    BY DEF TInv, TimedTick, Tick, Latched, Acknowledged, Seen, Renewed, Created, Promoted,
           NextCyclePending
<1>. QED
    BY <1>2, <1>3, <1>4 DEF TInv

LEMMA CycleStartKeeps == IInv /\ TInv /\ TypeOK' /\ TimedCycleStart => TInv'
<1> SUFFICES ASSUME IInv, TInv, TypeOK', TimedCycleStart PROVE TInv'
    OBVIOUS
<1>1. TypeOK /\ TimedTypeOK /\ Ordered
    BY DEF IInv, TInv
<1>a. /\ cyc.pc = "idle" /\ cyc'.pc = "started" /\ cyc'.start = now /\ lastCycle' = now
      /\ cyc'.blocking = FALSE
      /\ UNCHANGED <<now, file, log, hold, hb, lastHeartbeat>>
    BY DEF TimedCycleStart, CycleStart, Idle
<1>2. TimedTypeOK'
    BY <1>1, <1>a DEF TimedTypeOK, TypeOK
<1>3. OnTime'
  <2>1. /\ now \in Nat /\ lastCycle \in Int /\ Reported = lastCycle
        /\ now <= lastCycle + CyclePeriod
      BY <1>1, <1>a, TimesAre DEF TInv, OnTime
  <2>2. now - Reported <= CyclePeriod /\ now <= now + CyclePeriod /\ now <= now + CycleTimeout
      BY <2>1
  <2>3. Reported' = Reported
      BY <1>a DEF Reported
  <2>4. lastHeartbeat' <= now' /\ now' <= lastHeartbeat' + HeartbeatPeriod
        /\ (hb'.pc # "idle" => hb'.start = lastHeartbeat')
      BY <1>a DEF TInv, OnTime
  <2>5. lastCycle' <= now' /\ now' <= lastCycle' + CyclePeriod
        /\ now' <= lastCycle' + CycleTimeout /\ lastCycle' - Reported' <= CyclePeriod
      BY <1>a, <2>1, <2>2, <2>3
  <2>. QED
      BY <1>a, <2>4, <2>5 DEF OnTime
<1>4. Latched'
    BY <1>a DEF TInv, Latched
<1>5. Acknowledged'
    BY <1>1, <1>a, TimesAre DEF TInv, OnTime, Acknowledged, HoldReleased
<1>6. Seen' /\ Created'
    BY <1>a DEF TInv, Seen, Created
<1>7. Renewed'
    BY <1>1, <1>a, TimesAre DEF TInv, OnTime, Renewed, NextCyclePending, SignatureValid
<1>8. Promoted'
    BY <1>1, <1>a, TimesAre DEF TInv, OnTime, Promoted, NextCyclePending, SignatureValid
<1>. QED
    BY <1>2, <1>3, <1>4, <1>5, <1>6, <1>7, <1>8 DEF TInv

LEMMA CycleVerifyKeeps ==
  IInv /\ TInv /\ TypeOK' /\ CycleVerify /\ UNCHANGED <<lastHeartbeat, lastCycle>> => TInv'
<1> SUFFICES ASSUME IInv, TInv, TypeOK', CycleVerify, UNCHANGED <<lastHeartbeat, lastCycle>>
             PROVE  TInv'
    OBVIOUS
<1> USE DEF history
<1>1. TypeOK /\ TimedTypeOK /\ Ordered
    BY DEF IInv, TInv
<1> DEFINE held == hold # NoHold /\ ~HoldReleased(hold, file)
<1>a. /\ cyc.pc = "started" /\ cyc'.pc = "verified" /\ cyc'.start = cyc.start
      /\ cyc'.blocking = held
      /\ cyc'.meta = IF SignatureValid(file) THEN file.ts ELSE Never
      /\ hold' = IF held THEN hold ELSE NoHold
      /\ UNCHANGED <<now, file, log, hb>>
    BY <1>1 DEF CycleVerify, TypeOK, CycType
<1> HIDE DEF held
<1>b. hold' # NoHold => held /\ hold' = hold
    BY <1>a
<1>c. hold = NoHold => hold' = NoHold
    BY <1>a
<1>d. hold # NoHold /\ hold' = NoHold => HoldReleased(hold, file)
    BY <1>a DEF held
<1>2. TimedTypeOK'
    BY <1>1 DEF TimedTypeOK
<1>3. OnTime'
    BY <1>1, <1>a DEF TInv, OnTime, Reported
<1>4. Latched'
    BY <1>a DEF Latched, held, Blocked
<1>5. Acknowledged'
    BY <1>a, <1>b DEF Acknowledged, held, HoldReleased
<1>6. Seen'
    BY <1>a DEF TInv, Seen
<1>7. Renewed'
  <2> SUFFICES ASSUME file.kind = "signed", file.state = "NORMAL", hold' = NoHold
               PROVE  Renewed'
      BY <1>a DEF Renewed
  <2>1. CASE hold = NoHold
      BY <2>1, <1>a DEF TInv, Renewed, NextCyclePending, Blocked
  <2>2. CASE hold # NoHold
    <3>1. lastCycle - file.ts <= CyclePeriod
        BY <2>2, <1>a, <1>d DEF TInv, Acknowledged
    <3>2. file.ts \in Nat /\ lastHeartbeat \in Int /\ lastCycle \in Int
        BY <1>1, TimesAre DEF SignatureValid
    <3>3. lastHeartbeat <= now /\ cyc.start = lastCycle /\ now <= lastCycle + CycleTimeout
        BY <1>a DEF TInv, OnTime
    <3>4. now - file.ts <= CyclePeriod + CycleTimeout
        BY <3>1, <3>2, <3>3, <1>1, TimesAre
    <3>5. /\ lastHeartbeat - file.ts <= CyclePeriod + CycleTimeout
          /\ lastHeartbeat - HeartbeatPeriod - file.ts <= CyclePeriod + CycleTimeout
        BY <3>2, <3>3, <3>4, <1>1, TimesAre
    <3>6. Young(lastHeartbeat - file.ts) /\ Young(lastHeartbeat - HeartbeatPeriod - file.ts)
        BY <3>2, <3>5 DEF Young
    <3>. QED
        BY <3>1, <3>6, <1>a DEF Renewed, NextCyclePending
  <2>. QED
      BY <2>1, <2>2
<1>8. Created'
    BY <1>a, <1>d DEF TInv, Created, HoldReleased, SignatureValid, Missing
<1>9. Promoted'
    BY <1>a, <1>d DEF TInv, Promoted, HoldReleased, SignatureValid, NextCyclePending,
                      CleanCycleVerified, Blocked
<1>. QED
    BY <1>2, <1>3, <1>4, <1>5, <1>6, <1>7, <1>8, <1>9 DEF TInv

LEMMA CycleTradeKeeps ==
  ASSUME NEW e \in Escalations, IInv, TInv, TypeOK', CycleTrade(e),
         UNCHANGED <<lastHeartbeat, lastCycle>>
  PROVE  TInv'
<1> USE DEF history
<1>1. TypeOK /\ TimedTypeOK /\ Ordered
    BY DEF IInv, TInv
<1>a. /\ cyc.pc = "verified" /\ cyc'.pc = "traded" /\ cyc'.start = cyc.start
      /\ cyc'.blocking = (cyc.blocking \/ e = "blocking") /\ cyc'.meta = cyc.meta
      /\ UNCHANGED <<now, file, log, hb>>
    BY <1>1 DEF CycleTrade, TypeOK, CycType
<1>b. /\ hold' = IF e # "none" /\ hold = NoHold THEN cyc.start ELSE hold
      /\ cyc.start \in Nat
    BY <1>1, <1>a DEF CycleTrade, TypeOK
<1>c. hold' = NoHold => hold = NoHold /\ e = "none"
    BY <1>b DEF NoHold, Never
<1>2. TimedTypeOK'
    BY <1>1 DEF TimedTypeOK
<1>3. OnTime'
    BY <1>1, <1>a DEF TInv, OnTime, Reported
<1>4. Latched'
    BY <1>a, <1>c DEF TInv, Latched
<1>5. Acknowledged'
  <2>1. CASE hold' = hold
      BY <2>1, <1>a DEF TInv, Acknowledged
  <2>2. CASE hold' = cyc.start
      BY <2>2, <1>1, <1>a, <1>b, TimesAre DEF TInv, OnTime, Acknowledged, HoldReleased
  <2>. QED
      BY <2>1, <2>2, <1>b
<1>6. Seen'
    BY <1>a DEF TInv, Seen
<1>7. Renewed' /\ Created'
    BY <1>a, <1>c DEF TInv, Renewed, Created, NextCyclePending
<1>8. Promoted'
    BY <1>a, <1>c DEF TInv, Promoted, NextCyclePending
<1>. QED
    BY <1>2, <1>3, <1>4, <1>5, <1>6, <1>7, <1>8 DEF TInv

LEMMA CycleRecordKeeps ==
  IInv /\ TInv /\ TypeOK' /\ CycleRecord /\ UNCHANGED <<lastHeartbeat, lastCycle>> => TInv'
<1> SUFFICES ASSUME IInv, TInv, TypeOK', CycleRecord, UNCHANGED <<lastHeartbeat, lastCycle>>
             PROVE  TInv'
    OBVIOUS
<1>1. TypeOK /\ TimedTypeOK /\ Ordered
    BY DEF IInv, TInv
<1>a. /\ cyc.pc = "traded" /\ cyc' = Idle
      /\ log' = [kind |-> "record", ts |-> cyc.start, blocking |-> cyc.blocking,
                 meta |-> cyc.meta]
      /\ UNCHANGED <<now, file, hold, hb>>
    BY DEF CycleRecord, AppendRecord
<1>b. /\ cyc'.pc = "idle" /\ log' # NoRecord /\ log'.kind = "record" /\ log'.ts = cyc.start
      /\ log'.blocking = cyc.blocking /\ log'.meta = cyc.meta
    BY <1>a DEF Idle, NoRecord
<1>c. cyc.start = lastCycle /\ (cyc.blocking => hold # NoHold)
    BY <1>a DEF TInv, OnTime, Latched
<1>2. TimedTypeOK'
    BY <1>1 DEF TimedTypeOK
<1>3. OnTime'
    BY <1>1, <1>a, <1>b, <1>c DEF TInv, OnTime, Reported
<1>4. Latched'
    BY <1>a, <1>b, <1>c DEF Latched, Blocked
<1>5. Acknowledged' /\ Seen'
    BY <1>a, <1>b DEF TInv, Acknowledged, Seen
<1>6. Renewed' /\ Created'
    BY <1>a, <1>b, <1>c DEF TInv, Renewed, Created, Blocked
<1>7. Promoted'
  <2> SUFFICES ASSUME file.kind = "signed", file.source = "heartbeat_bootstrap",
                      hold = NoHold, ~CleanCycleVerified(log, file)'
               PROVE  lastCycle <= file.ts
      BY <1>a, <1>b DEF TInv, Promoted, NextCyclePending
  <2>1. cyc.start > file.ts => cyc.meta = file.ts
      BY <1>a DEF TInv, Promoted
  <2>2. ~(cyc.start > file.ts)
      BY <2>1, <1>a, <1>b, <1>c DEF CleanCycleVerified, Blocked
  <2>. QED
      BY <2>2, <1>c, <1>1, TimesAre DEF SignatureValid
<1>. QED
    BY <1>2, <1>3, <1>4, <1>5, <1>6, <1>7 DEF TInv

LEMMA OperatorWriteKeeps ==
  ASSUME NEW s \in OperatorStates, IInv, TInv, TypeOK', OperatorWrite(s),
         UNCHANGED <<lastHeartbeat, lastCycle>>
  PROVE  TInv'
<1>1. TypeOK /\ TimedTypeOK /\ Ordered
    BY DEF IInv, TInv
<1>a. /\ file'.kind = "signed" /\ file'.source = "operator" /\ file'.ts = now
      /\ file' # Missing /\ SignatureValid(file')
      /\ UNCHANGED <<now, log, hold, cyc, hb>>
    BY Kinds DEF OperatorWrite
<1>2. TimedTypeOK'
    BY <1>1 DEF TimedTypeOK
<1>3. OnTime'
    BY <1>a DEF TInv, OnTime, Reported
<1>4. Latched'
    BY <1>a DEF TInv, Latched
<1>5. Acknowledged'
    BY <1>a, <1>1, TimesAre DEF TInv, OnTime, Acknowledged
<1>6. Seen'
    BY <1>a, <1>1 DEF Seen, Ordered
<1>7. Renewed'
  <2>1. /\ now \in Nat /\ lastHeartbeat \in Int /\ lastCycle \in Int
        /\ lastHeartbeat <= now /\ lastCycle <= now
      BY <1>1, TimesAre DEF TInv, OnTime
  <2>2. lastHeartbeat - now <= 0 /\ lastHeartbeat - HeartbeatPeriod - now <= 0
        /\ lastCycle - now <= CyclePeriod
      BY <2>1
  <2>3. Young(lastHeartbeat - now) /\ Young(lastHeartbeat - HeartbeatPeriod - now)
      BY <2>1, <2>2 DEF Young
  <2>. QED
      BY <1>a, <2>1, <2>2, <2>3 DEF Renewed, NextCyclePending
<1>8. Created' /\ Promoted'
    BY <1>a DEF Created, Promoted
<1>. QED
    BY <1>2, <1>3, <1>4, <1>5, <1>6, <1>7, <1>8 DEF TInv

(* The heartbeat's start takes the firing; without a run in flight, the    *)
(* last one left what waits for it young.                                  *)
LEMMA HeartbeatStartKeeps == IInv /\ TInv /\ TypeOK' /\ TimedHeartbeatStart => TInv'
<1> SUFFICES ASSUME IInv, TInv, TypeOK', TimedHeartbeatStart PROVE TInv'
    OBVIOUS
<1> USE DEF history
<1>1. TypeOK /\ TimedTypeOK /\ Ordered
    BY DEF IInv, TInv
<1>a. /\ hb.pc = "idle" /\ lastHeartbeat' = now /\ UNCHANGED <<now, file, log, hold, cyc, lastCycle>>
      /\ Blocked(log) => hb'.pc = "idle"
      /\ ~Blocked(log) => hb'.pc = "checked" /\ hb'.start = now
      /\ Due(lastHeartbeat, HeartbeatPeriod)
    BY DEF TimedHeartbeatStart, HeartbeatStart, HbIdle
<1>b. /\ now \in Nat /\ lastHeartbeat \in Int /\ lastCycle \in Int
      /\ lastHeartbeat <= now /\ now <= lastHeartbeat + HeartbeatPeriod
      /\ lastCycle <= now /\ now <= lastCycle + CyclePeriod
      /\ cyc.pc # "idle" => now <= lastCycle + CycleTimeout
    BY <1>1, TimesAre DEF TInv, OnTime
<1>c. ASSUME SignatureValid(file), NextCyclePending(file.ts)
      PROVE  now - file.ts <= CyclePeriod + CycleTimeout
  <2>1. file.ts \in Nat
      BY <1>1, <1>c, TimesAre
  <2>. QED
      BY <2>1, <1>b, <1>c DEF NextCyclePending
<1>2. TimedTypeOK'
    BY <1>1, <1>a DEF TimedTypeOK, TypeOK
<1>3. OnTime'
  <2>1. lastHeartbeat' <= now' /\ now' <= lastHeartbeat' + HeartbeatPeriod
      BY <1>a, <1>b
  <2>2. Reported' = Reported
      BY <1>a DEF Reported
  <2>3. hb'.pc # "idle" => hb'.start = lastHeartbeat'
      BY <1>a
  <2>. QED
      BY <1>a, <2>1, <2>2, <2>3 DEF TInv, OnTime
<1>4. Latched' /\ Acknowledged' /\ Seen'
    BY <1>a DEF TInv, Latched, Acknowledged, Seen
<1>5. Renewed'
  <2> SUFFICES ASSUME file.kind = "signed", file.state = "NORMAL", hold = NoHold
               PROVE  Renewed'
      BY <1>a DEF Renewed
  <2>1. file.ts \in Nat /\ SignatureValid(file)
      BY <1>1, TimesAre DEF SignatureValid
  <2>2. CASE Blocked(log)
    <3>1. now - file.ts <= CyclePeriod + CycleTimeout
        BY <1>c, <2>1, <2>2 DEF TInv, Renewed
    <3>2. Young(now - file.ts)
        BY <3>1 DEF Young
    <3>. QED
        BY <1>a, <2>2, <3>2 DEF TInv, Renewed, NextCyclePending
  <2>3. CASE ~Blocked(log)
    <3>1. Young(lastHeartbeat - file.ts)
        BY <1>a DEF TInv, Renewed
    <3>2. now - HeartbeatPeriod - file.ts <= lastHeartbeat - file.ts
        BY <1>b, <2>1
    <3>3. Young(now - HeartbeatPeriod - file.ts)
        BY <3>1, <3>2, <1>b, <2>1 DEF Young
    <3>. QED
        BY <1>a, <2>3, <3>3 DEF TInv, Renewed, NextCyclePending
  <2>. QED
      BY <2>2, <2>3
<1>6. Created'
  <2> SUFFICES ASSUME file = Missing, hold = NoHold
               PROVE  hb'.pc = "checked" /\ now < HeartbeatPeriod
      BY <1>a DEF TInv, Created, Blocked
  <2>1. ~Blocked(log) /\ lastHeartbeat = Never
      BY <1>a DEF TInv, Created
  <2>. QED
      BY <1>a, <1>b, <2>1 DEF Never
<1>7. Promoted'
  <2> SUFFICES ASSUME file.kind = "signed", file.source = "heartbeat_bootstrap", hold = NoHold
               PROVE  Promoted'
      BY <1>a DEF TInv, Promoted
  <2>1. file.ts \in Nat /\ SignatureValid(file)
      BY <1>1, TimesAre DEF SignatureValid
  <2>2. Blocked(log) => now - file.ts <= CyclePeriod + CycleTimeout
      BY <1>c, <2>1 DEF TInv, Promoted, CleanCycleVerified
  <2>3. now - file.ts <= CyclePeriod + CycleTimeout + HeartbeatPeriod
    <3>1. lastHeartbeat - file.ts <= CyclePeriod + CycleTimeout
        BY <1>a DEF TInv, Promoted
    <3>. QED
        BY <3>1, <1>b, <2>1
  <2>. QED
      BY <1>a, <2>2, <2>3 DEF TInv, Promoted, NextCyclePending
<1>. QED
    BY <1>2, <1>3, <1>4, <1>5, <1>6, <1>7 DEF TInv

(* A step of a run in flight that leaves the file alone: the invariant is  *)
(* kept if what the run knows is, and if a run that ends without writing   *)
(* left nothing overdue behind.                                            *)
LEMMA RunKeeps ==
  ASSUME IInv, TInv, TypeOK', hb.pc # "idle",
         UNCHANGED <<now, file, log, hold, cyc, lastHeartbeat, lastCycle>>,
         hb'.pc # "idle" => hb'.start = hb.start,
         Seen', Created',
         hb'.pc = "idle" /\ SignatureValid(file) /\ hold = NoHold
         => /\ file.state = "NORMAL" => Young(lastHeartbeat - file.ts)
            /\ file.source = "heartbeat_bootstrap"
               => lastHeartbeat - file.ts <= CyclePeriod + CycleTimeout
  PROVE  TInv'
<1>1. TimedTypeOK'
    BY DEF TInv, TimedTypeOK
<1>2. OnTime'
    BY DEF TInv, OnTime, Reported
<1>3. Latched' /\ Acknowledged'
    BY DEF TInv, Latched, Acknowledged
<1>4. Renewed'
    BY DEF TInv, Renewed, NextCyclePending, SignatureValid
<1>5. Promoted'
    BY DEF TInv, Promoted, NextCyclePending, SignatureValid
<1>. QED
    BY <1>1, <1>2, <1>3, <1>4, <1>5 DEF TInv

LEMMA HeartbeatVerifyKeeps ==
  IInv /\ TInv /\ TypeOK' /\ HeartbeatVerify /\ UNCHANGED <<lastHeartbeat, lastCycle>> => TInv'
<1> SUFFICES ASSUME IInv, TInv, TypeOK', HeartbeatVerify, UNCHANGED <<lastHeartbeat, lastCycle>>
             PROVE  TInv'
    OBVIOUS
<1> USE DEF history
<1>1. TypeOK /\ TimedTypeOK /\ Ordered
    BY DEF IInv, TInv
<1>a. /\ hb.pc = "checked" /\ UNCHANGED <<now, file, log, hold, cyc>>
      /\ file = Unverifiable => hb'.pc = "idle"
      /\ file # Unverifiable => /\ hb'.start = hb.start /\ hb'.seen = file /\ hb'.at = now
                                /\ hb'.pc = IF file = Missing THEN "bootstrap" ELSE "verified"
    BY <1>1 DEF HeartbeatVerify, HbIdle, TypeOK, HbType
<1>2. Seen'
    BY <1>a DEF Seen, SignatureValid, Missing
<1>3. Created'
    BY <1>a DEF TInv, Created, Missing, Unverifiable
<1>4. hb'.pc = "idle" => ~SignatureValid(file)
    BY <1>a DEF SignatureValid, Unverifiable
<1>5. hb'.pc # "idle" => hb'.start = hb.start
    BY <1>a
<1>. QED
    BY <1>a, <1>2, <1>3, <1>4, <1>5, RunKeeps

(* With every cycle on time, a record proves the cycle alive.              *)
LEMMA Alive ==
  ASSUME IInv, TInv, log # NoRecord
  PROVE  ScannerAlive(log, now)
<1>1. TypeOK /\ TimedTypeOK /\ Ordered
    BY DEF IInv, TInv
<1>2. log.kind = "record" /\ log.ts \in Nat /\ log.ts <= now /\ Reported = log.ts
    BY <1>1, TimesAre DEF Ordered, Record, Reported
<1>3. now - log.ts <= CyclePeriod + CycleTimeout
    BY <1>1, <1>2, TimesAre DEF TInv, OnTime
<1>. QED
    BY <1>1, <1>2, <1>3, TimesAre DEF ScannerAlive

LEMMA HeartbeatDecideKeeps ==
  IInv /\ TInv /\ TypeOK' /\ HeartbeatDecide /\ UNCHANGED <<lastHeartbeat, lastCycle>> => TInv'
<1> SUFFICES ASSUME IInv, TInv, TypeOK', HeartbeatDecide, UNCHANGED <<lastHeartbeat, lastCycle>>
             PROVE  TInv'
    OBVIOUS
<1> USE DEF history
<1>1. TypeOK /\ TimedTypeOK /\ Ordered
    BY DEF IInv, TInv
<1>a. /\ hb.pc = "verified" /\ UNCHANGED <<now, file, log, hold, cyc>>
      /\ hb'.pc \in {"promote", "renew", "idle"}
      /\ hb'.pc # "idle" => hb'.start = hb.start
      /\ hb'.pc = "idle" => ~Promotable(hb.seen) /\ ~Renewable(hb.seen, hb.at)
    BY <1>1 DEF HeartbeatDecide, HbIdle, TypeOK, HbType
<1>b. /\ now \in Nat /\ lastHeartbeat \in Int /\ lastCycle \in Int /\ hb.at \in Nat
      /\ lastHeartbeat <= hb.at /\ hb.at <= now
      /\ lastCycle <= now /\ now <= lastCycle + CyclePeriod
      /\ cyc.pc # "idle" => now <= lastCycle + CycleTimeout
    BY <1>1, <1>a, TimesAre DEF TInv, OnTime, Ordered
<1>2. Seen'
    BY <1>a DEF Seen
<1>3. Created'
    BY <1>a DEF TInv, Created
<1>4. ASSUME hb'.pc = "idle", SignatureValid(file), hold = NoHold
      PROVE  /\ file.state = "NORMAL" => Young(lastHeartbeat - file.ts)
             /\ file.source = "heartbeat_bootstrap"
                => lastHeartbeat - file.ts <= CyclePeriod + CycleTimeout
  <2>1. file.ts \in Nat
      BY <1>1, <1>4, TimesAre
  <2>2. hb.seen = file \/ lastHeartbeat <= file.ts
      BY <1>a, <1>b, <1>4, <2>1 DEF TInv, Seen
  <2>3. CASE lastHeartbeat <= file.ts
    <3>1. lastHeartbeat - file.ts <= CyclePeriod + CycleTimeout
        BY <2>1, <2>3, <1>b
    <3>. QED
        BY <3>1 DEF Young
  <2>4. CASE hb.seen = file /\ NextCyclePending(file.ts)
    <3>1. lastHeartbeat - file.ts <= CyclePeriod + CycleTimeout
        BY <2>1, <2>4, <1>b DEF NextCyclePending
    <3>. QED
        BY <3>1 DEF Young
  <2>5. CASE hb.seen = file /\ ~NextCyclePending(file.ts)
    <3>1. ASSUME file.state = "NORMAL" PROVE Young(lastHeartbeat - file.ts)
      <4>1. log # NoRecord
          BY <2>5, <3>1, <1>4 DEF TInv, Renewed, SignatureValid
      <4>2. Fresh(file, hb.at) /\ hb.at - file.ts < RenewAfter
          BY <4>1, <2>5, <3>1, <1>4, <1>a, Alive DEF Renewable
      <4>. QED
          BY <4>2, <1>b, <2>1 DEF Young
    <3>2. ASSUME file.source = "heartbeat_bootstrap" PROVE FALSE
      <4>1. CleanCycleVerified(log, file) /\ file.state = "NO_NEW_POSITIONS"
          BY <2>5, <3>2, <1>4 DEF TInv, Promoted, SignatureValid
      <4>2. log # NoRecord
          BY <4>1 DEF CleanCycleVerified, NoRecord
      <4>. QED
          BY <4>1, <4>2, <2>5, <3>2, <1>4, <1>a, Alive DEF Promotable
    <3>. QED
        BY <3>1, <3>2
  <2>. QED
      BY <2>2, <2>3, <2>4, <2>5
<1>. QED
    BY <1>a, <1>2, <1>3, <1>4, RunKeeps

LEMMA HeartbeatWriteKeeps ==
  IInv /\ TInv /\ TypeOK' /\ HeartbeatWrite /\ UNCHANGED <<lastHeartbeat, lastCycle>> => TInv'
<1> SUFFICES ASSUME IInv, TInv, TypeOK', HeartbeatWrite, UNCHANGED <<lastHeartbeat, lastCycle>>
             PROVE  TInv'
    OBVIOUS
<1>1. TypeOK /\ TimedTypeOK /\ Ordered
    BY DEF IInv, TInv
<1>a. /\ hb'.pc = "idle" /\ UNCHANGED <<now, log, hold, cyc>>
      /\ file'.ts = now /\ file'.kind = "signed" /\ SignatureValid(file') /\ file' # Missing
      /\ file'.source # "operator"
      /\ file'.source = "heartbeat_bootstrap" => file'.state = "NO_NEW_POSITIONS"
    BY Kinds DEF HeartbeatWrite, HbIdle
<1>b. /\ now \in Nat /\ lastHeartbeat \in Int /\ lastCycle \in Int
      /\ lastHeartbeat <= now /\ lastCycle <= now
      /\ cyc.pc # "idle" => cyc.start <= now /\ cyc.start \in Nat
    BY <1>1, TimesAre DEF TInv, OnTime, Ordered
<1>c. /\ lastHeartbeat - now <= CyclePeriod + CycleTimeout
      /\ lastCycle - now <= CyclePeriod
    BY <1>b
<1>d. Young(lastHeartbeat - now)
    BY <1>c DEF Young
<1>2. TimedTypeOK'
    BY <1>1 DEF TimedTypeOK
<1>3. OnTime'
    BY <1>a DEF TInv, OnTime, Reported
<1>4. Latched' /\ Acknowledged' /\ Seen' /\ Created'
    BY <1>a DEF TInv, Latched, Acknowledged, HoldReleased, Seen, Created
<1>5. NextCyclePending(now)'
    BY <1>a, <1>b, <1>c DEF NextCyclePending
<1>6. Renewed'
    BY <1>a, <1>d, <1>5 DEF Renewed
<1>7. Promoted'
    BY <1>a, <1>b, <1>c, <1>5 DEF Promoted
<1>. QED
    BY <1>2, <1>3, <1>4, <1>6, <1>7 DEF TInv

-----------------------------------------------------------------------------
LEMMA TimedStep == TypeOK /\ [TimedNext]_timedVars => [Next]_vars
  BY DEF TimedNext, timedVars, Next, CycleSteps, HeartbeatSteps, TimedTick, TimedCycleStart,
         TimedHeartbeatStart

LEMMA TimedNextInv == IInv /\ TInv /\ [TimedNext]_timedVars => IInv' /\ TInv'
<1> SUFFICES ASSUME IInv, TInv, [TimedNext]_timedVars PROVE IInv' /\ TInv'
    OBVIOUS
<1>1. IInv' /\ TypeOK'
    BY TimedStep, NextInv DEF IInv
<1>2. CASE TimedTick
    BY <1>1, <1>2, TickKeeps
<1>3. CASE TimedCycleStart
    BY <1>1, <1>3, CycleStartKeeps
<1>4. CASE TimedHeartbeatStart
    BY <1>1, <1>4, HeartbeatStartKeeps
<1>5. ASSUME UNCHANGED <<lastHeartbeat, lastCycle>>,
             \/ \E s \in OperatorStates : OperatorWrite(s)
             \/ CycleVerify
             \/ \E e \in Escalations : CycleTrade(e)
             \/ CycleRecord
             \/ HeartbeatVerify
             \/ HeartbeatDecide
             \/ HeartbeatWrite
      PROVE  TInv'
    BY <1>1, <1>5, OperatorWriteKeeps, CycleVerifyKeeps, CycleTradeKeeps, CycleRecordKeeps,
       HeartbeatVerifyKeeps, HeartbeatDecideKeeps, HeartbeatWriteKeeps
<1>6. CASE UNCHANGED timedVars
    BY <1>1, <1>6 DEF timedVars, vars, TInv, TimedTypeOK, TypeOK, OnTime, Reported, Latched,
                Acknowledged, Seen, Renewed, Created, Promoted, NextCyclePending
<1>7. TInv'
  <2>1. \/ TimedTick \/ TimedCycleStart \/ TimedHeartbeatStart \/ UNCHANGED timedVars
        \/ /\ UNCHANGED <<lastHeartbeat, lastCycle>>
           /\ \/ \E s \in OperatorStates : OperatorWrite(s)
              \/ CycleVerify
              \/ \E e \in Escalations : CycleTrade(e)
              \/ CycleRecord
              \/ HeartbeatVerify
              \/ HeartbeatDecide
              \/ HeartbeatWrite
      BY DEF TimedNext
  <2>. QED
      BY <2>1, <1>2, <1>3, <1>4, <1>5, <1>6
<1>. QED
    BY <1>1, <1>7

LEMMA TimedInductive == TimedSpec => [](IInv /\ TInv)
<1>1. TimedInit => IInv /\ TInv
    BY InitInv, TimedInitInv DEF TimedInit
<1>. QED
    BY <1>1, TimedNextInv, PTL DEF TimedSpec

-----------------------------------------------------------------------------
(* Every variable keeps its type, the timers' included.                    *)
THEOREM TimedTypeCorrect == TimedSpec => []TimedTypeOK
<1>1. TInv => TimedTypeOK
    BY DEF TInv
<1>. QED
    BY <1>1, TimedInductive, PTL

(* Every timed behaviour is one of Supervision: what is proved of that     *)
(* module holds on the healthy host too.                                   *)
THEOREM TimedImplements == TimedSpec => Spec
<1>1. TimedInit => Init
    BY DEF TimedInit
<1>2. IInv => TypeOK
    BY DEF IInv
<1>. QED
    BY <1>1, <1>2, TimedStep, TimedInductive, PTL DEF TimedSpec, Spec

(* A NORMAL in the file is never stale while no escalation waits, however  *)
(* the timers are phased (heartbeat.py, "a healthy cycle never sees a      *)
(* stale record").                                                         *)
THEOREM NeverLapses == TimedSpec => []NormalNeverLapses
<1>1. IInv /\ TInv => NormalNeverLapses
  <2> SUFFICES ASSUME IInv, TInv, file.kind = "signed", file.state = "NORMAL", hold = NoHold
               PROVE  now - file.ts <= MaxAge
      BY DEF NormalNeverLapses
  <2>1. TypeOK /\ TimedTypeOK /\ Ordered
      BY DEF IInv, TInv
  <2>2. /\ file.ts \in Nat /\ now \in Nat /\ lastHeartbeat \in Int
        /\ now <= lastHeartbeat + HeartbeatPeriod
        /\ hb.pc # "idle" => now <= lastHeartbeat + HeartbeatTimeout
      BY <2>1, TimesAre DEF TInv, OnTime, Ordered, SignatureValid
  <2>3. CASE hb.pc = "idle"
    <3>1. Young(lastHeartbeat - file.ts)
        BY <2>3 DEF TInv, Renewed
    <3>. QED
        BY <3>1, <2>2 DEF Young
  <2>4. CASE hb.pc # "idle"
    <3>1. Young(lastHeartbeat - HeartbeatPeriod - file.ts)
        BY <2>4 DEF TInv, Renewed
    <3>. QED
        BY <3>1, <2>2, <2>4 DEF Young
  <2>. QED
      BY <2>3, <2>4
<1>. QED
    BY <1>1, TimedInductive, PTL

(* What waits for another process does not wait longer than one run of     *)
(* each: a missing file and a bootstrap record for the heartbeat and a     *)
(* clean cycle, an acknowledged latch for the cycle that opens it.         *)
THEOREM WaitsAreBounded == TimedSpec => []WaitsEnd
<1>1. IInv /\ TInv => BootstrapIsPrompt
  <2> SUFFICES ASSUME IInv, TInv, hold = NoHold
               PROVE  /\ file = Missing => now <= HeartbeatPeriod + HeartbeatTimeout
                      /\ file.kind = "signed" /\ file.source = "heartbeat_bootstrap"
                         => now - file.ts <= CyclePeriod + CycleTimeout
                                             + HeartbeatPeriod + HeartbeatTimeout
      BY DEF BootstrapIsPrompt
  <2>1. TypeOK /\ TimedTypeOK /\ Ordered
      BY DEF IInv, TInv
  <2>2. /\ now \in Nat /\ lastHeartbeat \in Int
        /\ now <= lastHeartbeat + HeartbeatPeriod
        /\ hb.pc # "idle" => now <= lastHeartbeat + HeartbeatTimeout
      BY <2>1, TimesAre DEF TInv, OnTime, Ordered
  <2>3. ASSUME file = Missing PROVE now <= HeartbeatPeriod + HeartbeatTimeout
    <3>1. \/ lastHeartbeat = Never
          \/ hb.pc \in {"checked", "bootstrap"} /\ lastHeartbeat < HeartbeatPeriod
        BY <2>3 DEF TInv, Created
    <3>. QED
        BY <2>2, <3>1 DEF Never
  <2>4. ASSUME file.kind = "signed", file.source = "heartbeat_bootstrap"
        PROVE  now - file.ts <= CyclePeriod + CycleTimeout + HeartbeatPeriod + HeartbeatTimeout
    <3>1. file.ts \in Nat
        BY <2>1, <2>4, TimesAre DEF SignatureValid
    <3>2. /\ hb.pc = "idle" => lastHeartbeat - file.ts <= CyclePeriod + CycleTimeout
          /\ hb.pc # "idle" => lastHeartbeat - file.ts
                               <= CyclePeriod + CycleTimeout + HeartbeatPeriod
        BY <2>4 DEF TInv, Promoted
    <3>. QED
        BY <2>2, <3>1, <3>2
  <2>. QED
      BY <2>3, <2>4
<1>2. IInv /\ TInv => AcknowledgementIsSeen
  <2> SUFFICES ASSUME IInv, TInv, hold # NoHold, HoldReleased(hold, file)
               PROVE  now - file.ts <= CyclePeriod + CycleTimeout
      BY DEF AcknowledgementIsSeen, HoldReleased
  <2>1. TypeOK /\ TimedTypeOK /\ Ordered
      BY DEF IInv, TInv
  <2>2. /\ file.ts \in Nat /\ now \in Nat /\ lastCycle \in Int
        /\ now <= lastCycle + CyclePeriod
        /\ cyc.pc # "idle" => now <= lastCycle + CycleTimeout
      BY <2>1, TimesAre DEF TInv, OnTime, HoldReleased
  <2>3. IF cyc.pc = "started" THEN lastCycle - file.ts <= CyclePeriod
                              ELSE lastCycle <= file.ts
      BY DEF TInv, Acknowledged
  <2>. QED
      BY <2>2, <2>3
<1>3. IInv /\ TInv => WaitsEnd
    BY <1>1, <1>2 DEF WaitsEnd
<1>. QED
    BY <1>3, TimedInductive, PTL

-----------------------------------------------------------------------------
(* The safety of LiveSwitch for every cap, every size of the round trip,   *)
(* any number of commands and of faults.  LiveInv is the inductive         *)
(* invariant: who holds the lock, what the copy of the book in a running   *)
(* cycle is worth, which codes can still be used.                          *)

(* At most one live cycle runs: the round trip's only while it trades, the *)
(* timer's only while the round trip does not.  A cycle the round trip has *)
(* yet to judge has ended.                                                 *)
Exclusive ==
    /\ run["trip"].pc # "off" => trip.phase \in Trading
    /\ run["timer"].pc # "off" => trip.phase \notin Trading
    /\ trip.judge => run["trip"].pc = "off" /\ trip.phase \in Trading

(* A cycle may open what was signed when it began, or the trip's size.     *)
Limited == run["timer"].cap <= run["timer"].under /\ run["trip"].cap <= TripSize

(* A position that is not blind is in the saved book, or in the copy of a  *)
(* cycle that has traded; a cycle that runs has it in its copy.            *)
Told ==
    ~blind =>
        /\ position <= book \/ \E r \in Runners : run[r].pc = "traded"
        /\ \A r \in Runners : run[r].pc # "off" => position <= run[r].book

(* About to write, an operation has seen no position since its last look.  *)
LookedFlat == \A s \in Surfaces : op[s].pc = "write" => position = 0 \/ op[s].moved

(* Codes are given in order, and what is spent is neither waiting nor to   *)
(* be given by a request under way.                                        *)
CodesFresh ==
    /\ spent \subseteq 1..asked
    /\ pending.code \in 0..asked /\ pending.code \notin spent
    /\ op["bot"].pass = "ask" => op["bot"].code \in 0..asked /\ op["bot"].code \notin spent

LiveInv == LiveTypeOK /\ Exclusive /\ Limited /\ Told /\ LookedFlat /\ CodesFresh

-----------------------------------------------------------------------------
USE LiveAssumption

(* The operator's commands touch no position, no book and no cycle.        *)
LEMMA OperatorKeeps == Operator => UNCHANGED <<position, book, run, trip, blind>>
  BY DEF Operator, TerminalDisables, BotAsks, Confirm, Forgotten, BotRestarts, Typed,
         AskEnable, LookSwitch, LookBook, LookExchange, WriteSwitch, Refused

(* The values that variables are set to have their types.                  *)
LEMMA ValueTypes ==
  /\ NoRun \in Run /\ NoTrip \in Trip /\ NoOp \in Op /\ NoRequest \in Request
  /\ \A cap \in 0..MaxCap : SignedCap(cap) \in [exists : BOOLEAN, cap : 0..MaxCap]
  /\ Absent \in [exists : BOOLEAN, cap : 0..MaxCap]
  /\ Broken \in [exists : BOOLEAN, cap : 0..MaxCap]
  /\ Absent.cap = 0 /\ Broken.cap = 0
  BY DEF NoRun, Run, NoTrip, Trip, NoOp, Op, NoRequest, Request, SignedCap, Absent, Broken

LEMMA BegunType ==
  ASSUME LiveTypeOK, NEW cap \in 0..MaxCap
  PROVE  Begun(cap) \in Run
  BY DEF LiveTypeOK, Begun, Run

(* An operation that begins, in either pass.                               *)
LEMMA AskType ==
  ASSUME NEW cap \in 0..MaxCap, NEW code \in 0..MaxAsked
  PROVE  [NoOp EXCEPT !.pc = "switch", !.cap = cap, !.code = code] \in Op
  BY ValueTypes DEF Op

LEMMA DoType ==
  ASSUME NEW cap \in 0..MaxCap, NEW code \in 0..MaxAsked, NEW what \in {"enable", "disable"}
  PROVE  [NoOp EXCEPT !.pc = "switch", !.pass = "do", !.what = what,
                      !.cap = cap, !.code = code] \in Op
  BY ValueTypes DEF Op

LEMMA DisableType == [NoOp EXCEPT !.pc = "switch", !.pass = "do", !.what = "disable"] \in Op
  BY ValueTypes DEF Op

LEMMA OpTypes ==
  \A o \in Op : /\ [o EXCEPT !.moved = TRUE] \in Op
               /\ [o EXCEPT !.pc = "switch", !.pass = "do"] \in Op
  BY DEF Op

LEMMA LiveInitType == LiveInit => LiveTypeOK
<1> SUFFICES ASSUME LiveInit PROVE LiveTypeOK
    OBVIOUS
<1>1. run \in [Runners -> Run] /\ op \in [Surfaces -> Op]
    BY ValueTypes DEF LiveInit
<1>2. switch \in [exists : BOOLEAN, cap : 0..MaxCap] /\ switch.cap = 0
    BY ValueTypes DEF LiveInit, Absent
<1>3. trip \in Trip /\ pending \in Request
    BY ValueTypes DEF LiveInit
<1>4. blind \in BOOLEAN /\ spent \subseteq 1..MaxAsked
    BY DEF LiveInit
<1>5. position \in 0..MaxCap /\ book \in 0..MaxCap /\ asked \in 0..MaxAsked /\ faults \in 0..MaxFaults
    BY DEF LiveInit
<1>. QED
    BY <1>1, <1>2, <1>3, <1>4, <1>5 DEF LiveTypeOK

LEMMA LiveNextType == LiveTypeOK /\ Exclusive /\ [LiveNext]_liveVars => LiveTypeOK'
<1> SUFFICES ASSUME LiveTypeOK, Exclusive, [LiveNext]_liveVars PROVE LiveTypeOK'
    OBVIOUS
<1> USE DEF LiveTypeOK
<1>1. CASE Cycle
  <2>1. CASE TimerBegins
      BY <2>1, BegunType DEF TimerBegins, EntryCap, Runners
  <2>2. ASSUME NEW r \in Runners, Trade(r) PROVE LiveTypeOK'
    <3>1. PICK after, told \in 0..MaxCap :
            /\ position' = after
            /\ run' = [run EXCEPT ![r].pc = "traded", ![r].book = told]
        BY <2>2 DEF Trade
    <3>2. run[r] \in Run /\ [run[r] EXCEPT !.pc = "traded", !.book = told] \in Run
        BY DEF Run
    <3>3. run' = [run EXCEPT ![r] = [run[r] EXCEPT !.pc = "traded", !.book = told]]
        BY <3>1
    <3>4. \A s \in Surfaces : op[s] \in Op /\ [op[s] EXCEPT !.moved = TRUE] \in Op
        BY OpTypes
    <3>5. op' \in [Surfaces -> Op]
      <4>1. \E held \in 0..MaxCap :
              op' = [s \in Surfaces |-> IF op[s].pc = "write" /\ held > position
                                         THEN [op[s] EXCEPT !.moved = TRUE] ELSE op[s]]
          BY <2>2 DEF Trade
      <4>. QED
          BY <3>4, <4>1
    <3>6. run' \in [Runners -> Run]
        BY <3>2, <3>3
    <3>7. UNCHANGED <<switch, book, trip, pending, asked, faults, spent>> /\ blind' \in BOOLEAN
        BY <2>2 DEF Trade
    <3>. QED
        BY <3>1, <3>5, <3>6, <3>7
  <2>3. ASSUME NEW r \in Runners, Save(r) PROVE LiveTypeOK'
    <3>1. book' \in 0..MaxCap /\ run' \in [Runners -> Run] /\ blind' \in BOOLEAN
        BY <2>3, ValueTypes DEF Save, Run
    <3>2. trip' \in Trip
        BY <2>3 DEF Save, Judged, Trip
    <3>. QED
        BY <2>3, <3>1, <3>2 DEF Save
  <2>. QED
      BY <1>1, <2>1, <2>2, <2>3 DEF Cycle
<1>2. CASE RoundTrip
  <2>1. CASE TripStarts
      BY <2>1 DEF TripStarts, Trip
  <2>2. CASE TripLooks \/ TripLocks \/ TripRefused \/ TripStopped \/ TripIncomplete
      BY <2>2, ValueTypes DEF TripLooks, TripLocks, TripRefused, TripStopped, TripIncomplete, Trip,
         Trading
  <2>3. CASE TripBegins
      BY <2>3, BegunType DEF TripBegins, Runners
  <2>4. CASE TripJudges
    <3>1. PICK phase \in After(trip.phase, book) :
            trip' = IF phase = "off" THEN NoTrip ELSE [trip EXCEPT !.phase = phase, !.judge = FALSE]
        BY <2>4 DEF TripJudges
    <3>2. trip.phase \in Trading
        BY <2>4 DEF TripJudges, Exclusive
    <3>3. phase \in Trading \cup {"off"}
        BY <3>1, <3>2 DEF After, Trading
    <3>4. trip' \in Trip
        BY <3>1, <3>3, ValueTypes DEF Trip
    <3>. QED
        BY <2>4, <3>4 DEF TripJudges
  <2>. QED
      BY <1>2, <2>1, <2>2, <2>3, <2>4 DEF RoundTrip
<1>3. CASE Operator
  <2>1. CASE Typed
    <3>1. "terminal" \in Surfaces
        BY DEF Surfaces
    <3>2. [op["terminal"] EXCEPT !.pc = "switch", !.pass = "do"] \in Op
        BY <3>1, OpTypes
    <3>3. op' = [op EXCEPT !["terminal"] = [op["terminal"] EXCEPT !.pc = "switch", !.pass = "do"]]
        BY <2>1, <3>1 DEF Typed
    <3>. QED
        BY <2>1, <3>1, <3>2, <3>3 DEF Typed
  <2>2. CASE TerminalDisables
    <3>1. [NoOp EXCEPT !.pc = "switch", !.pass = "do", !.what = "disable"] \in Op
        BY DisableType
    <3>2. op' \in [Surfaces -> Op]
        BY <2>2, <3>1 DEF TerminalDisables
    <3>3. asked' \in 0..MaxAsked
        BY <2>2 DEF TerminalDisables, Asked
    <3>. QED
        BY <2>2, <3>2, <3>3 DEF TerminalDisables
  <2>3. CASE BotAsks
      BY <2>3 DEF BotAsks, Asked, Request
  <2>4. CASE Confirm
    <3>1. PICK code \in 1..asked :
            \/ UNCHANGED <<op, spent>>
            \/ /\ op' = [op EXCEPT !["bot"] =
                            [NoOp EXCEPT !.pc = "switch", !.pass = "do", !.what = pending.what,
                                         !.cap = pending.cap, !.code = code]]
               /\ pending.what \in {"enable", "disable"}
               /\ spent' = spent \cup {code}
        BY <2>4 DEF Confirm
    <3>2. pending.what \in {"enable", "disable"} =>
            [NoOp EXCEPT !.pc = "switch", !.pass = "do", !.what = pending.what,
                         !.cap = pending.cap, !.code = code] \in Op
      <4>1. pending.cap \in 0..MaxCap /\ code \in 0..MaxAsked
          BY DEF Request
      <4>. QED
          BY <4>1, DoType
    <3>3. op' \in [Surfaces -> Op] /\ spent' \subseteq 1..MaxAsked
        BY <3>1, <3>2
    <3>. QED
        BY <2>4, <3>3, ValueTypes DEF Confirm, PendingAfterConfirm
  <2>5. CASE Forgotten \/ BotRestarts
    <3>1. op' \in [Surfaces -> Op] /\ pending' = NoRequest
        BY <2>5, ValueTypes DEF Forgotten, BotRestarts
    <3>2. UNCHANGED <<switch, position, book, run, trip, asked, faults, spent, blind>>
        BY <2>5 DEF Forgotten, BotRestarts
    <3>. QED
        BY <3>1, <3>2, ValueTypes
  <2>6. ASSUME NEW s \in Surfaces, AskEnable(s) PROVE LiveTypeOK'
    <3>1. PICK cap \in Caps : op' = [op EXCEPT ![s] = [NoOp EXCEPT !.pc = "switch", !.cap = cap,
                                                                  !.code = asked + 1]]
        BY <2>6 DEF AskEnable
    <3>2. asked' = asked + 1 /\ asked' \in 0..MaxAsked
        BY <2>6 DEF AskEnable, Asked
    <3>3. [NoOp EXCEPT !.pc = "switch", !.cap = cap, !.code = asked'] \in Op
      <4>1. cap \in 0..MaxCap
          BY DEF Caps
      <4>. QED
          BY <3>2, <4>1, AskType
    <3>. QED
        BY <2>6, <3>1, <3>2, <3>3 DEF AskEnable
  <2>7. ASSUME NEW s \in Surfaces, LookSwitch(s) \/ LookBook(s) \/ Refused(s)
        PROVE  LiveTypeOK'
      BY <2>7, ValueTypes DEF LookSwitch, LookBook, Refused, To, Op
  <2>8. ASSUME NEW s \in Surfaces, LookExchange(s) PROVE LiveTypeOK'
    <3>1. op' \in [Surfaces -> Op]
        BY <2>8, ValueTypes DEF LookExchange, To, Op
    <3>2. op[s].cap \in 0..MaxCap /\ op[s].code \in 0..MaxAsked
        BY DEF Op
    <3>3. pending' \in Request
        BY <2>8, <3>2 DEF LookExchange, Request
    <3>. QED
        BY <2>8, <3>1, <3>3 DEF LookExchange
  <2>9. ASSUME NEW s \in Surfaces, WriteSwitch(s) PROVE LiveTypeOK'
    <3>1. op[s].cap \in 0..MaxCap
        BY DEF Op
    <3>2. switch' \in [exists : BOOLEAN, cap : 0..MaxCap] /\ (switch'.cap > 0 => switch'.exists)
        BY <2>9, <3>1 DEF WriteSwitch, SignedCap, Absent
    <3>. QED
        BY <2>9, <3>2, ValueTypes DEF WriteSwitch
  <2>. QED
      BY <1>3, <2>1, <2>2, <2>3, <2>4, <2>5, <2>6, <2>7, <2>8, <2>9 DEF Operator
<1>4. CASE World
  <2>1. CASE TripKilled
      BY <2>1, ValueTypes DEF TripKilled, Fault
  <2>2. CASE SwitchLost
    <3>1. switch' \in [exists : BOOLEAN, cap : 0..MaxCap] /\ switch'.cap = 0
        BY <2>2, ValueTypes DEF SwitchLost
    <3>. QED
        BY <2>2, <3>1 DEF SwitchLost, Fault
  <2>3. CASE BookLost
    <3>1. blind' \in BOOLEAN
        BY <2>3 DEF BookLost
    <3>. QED
        BY <2>3, <3>1 DEF BookLost, Fault
  <2>4. ASSUME NEW r \in Runners, Killed(r) \/ Crashed(r) PROVE LiveTypeOK'
    <3>1. trip' \in Trip
        BY <2>4, ValueTypes DEF Killed, Crashed, Judged, Trip
    <3>2. blind' \in BOOLEAN
        BY <2>4 DEF Killed, Crashed
    <3>3. run' \in [Runners -> Run] /\ faults' \in 0..MaxFaults
        BY <2>4, ValueTypes DEF Killed, Crashed, Fault
    <3>. QED
        BY <2>4, <3>1, <3>2, <3>3 DEF Killed, Crashed
  <2>. QED
      BY <1>4, <2>1, <2>2, <2>3, <2>4 DEF World
<1>5. CASE UNCHANGED liveVars
    BY <1>5 DEF liveVars
<1>. QED
    BY <1>1, <1>2, <1>3, <1>4, <1>5 DEF LiveNext
-----------------------------------------------------------------------------
LEMMA LiveInitInv == LiveInit => LiveInv
<1> SUFFICES ASSUME LiveInit PROVE LiveInv
    OBVIOUS
<1>1. LiveTypeOK
    BY LiveInitType
<1>2. Exclusive /\ Limited /\ Told
    BY DEF LiveInit, Exclusive, Limited, Told, Runners, NoRun, NoTrip
<1>3. LookedFlat /\ CodesFresh
    BY DEF LiveInit, LookedFlat, CodesFresh, Surfaces, NoOp, NoRequest
<1>. QED
    BY <1>1, <1>2, <1>3 DEF LiveInv

LEMMA NextExclusive == LiveTypeOK /\ Exclusive /\ [LiveNext]_liveVars => Exclusive'
<1> SUFFICES ASSUME LiveTypeOK, Exclusive, [LiveNext]_liveVars PROVE Exclusive'
    OBVIOUS
<1> USE DEF LiveTypeOK, Exclusive, Runners
<1>1. CASE Cycle
  <2>1. CASE TimerBegins
      BY <2>1 DEF TimerBegins, LockFree
  <2>2. ASSUME NEW r \in Runners, Trade(r) PROVE Exclusive'
      BY <2>2 DEF Trade
  <2>3. ASSUME NEW r \in Runners, Save(r) PROVE Exclusive'
      BY <2>3 DEF Save, Judged, NoRun, Trip
  <2>. QED
      BY <1>1, <2>1, <2>2, <2>3 DEF Cycle
<1>2. CASE RoundTrip
  <2>1. CASE TripStarts \/ TripLooks \/ TripLocks \/ TripRefused \/ TripStopped \/ TripIncomplete
      BY <2>1 DEF TripStarts, TripLooks, TripLocks, TripRefused, TripStopped, TripIncomplete, NoTrip,
         LockFree, Trip, Trading
  <2>2. CASE TripBegins
      BY <2>2 DEF TripBegins
  <2>3. CASE TripJudges
      BY <2>3 DEF TripJudges, After, NoTrip, Trip, Trading
  <2>. QED
      BY <1>2, <2>1, <2>2, <2>3 DEF RoundTrip
<1>3. CASE Operator
    BY <1>3, OperatorKeeps
<1>4. CASE World
  <2>1. CASE TripKilled \/ SwitchLost \/ BookLost
      BY <2>1 DEF TripKilled, SwitchLost, BookLost, NoTrip, Trading
  <2>2. ASSUME NEW r \in Runners, Killed(r) \/ Crashed(r) PROVE Exclusive'
      BY <2>2 DEF Killed, Crashed, Judged, NoRun, NoTrip, Trip, Trading
  <2>. QED
      BY <1>4, <2>1, <2>2 DEF World
<1>5. CASE UNCHANGED liveVars
    BY <1>5 DEF liveVars
<1>. QED
    BY <1>1, <1>2, <1>3, <1>4, <1>5 DEF LiveNext

LEMMA NextLimited == LiveTypeOK /\ Limited /\ [LiveNext]_liveVars => Limited'
<1> SUFFICES ASSUME LiveTypeOK, Limited, [LiveNext]_liveVars PROVE Limited'
    OBVIOUS
<1> USE DEF LiveTypeOK, Limited, Runners
<1>1. CASE Cycle
  <2>1. CASE TimerBegins
      BY <2>1 DEF TimerBegins, Begun, EntryCap
  <2>2. ASSUME NEW r \in Runners, Trade(r) PROVE Limited'
    <3>1. \A q \in Runners : run'[q].cap = run[q].cap /\ run'[q].under = run[q].under
        BY <2>2 DEF Trade, Run
    <3>. QED
        BY <3>1
  <2>3. ASSUME NEW r \in Runners, Save(r) PROVE Limited'
      BY <2>3 DEF Save, NoRun
  <2>. QED
      BY <1>1, <2>1, <2>2, <2>3 DEF Cycle
<1>2. CASE RoundTrip
  <2>1. CASE TripBegins
    <3>1. \E cap \in {TripSize, 0} : run' = [run EXCEPT !["trip"] = Begun(cap)]
        BY <2>1 DEF TripBegins
    <3>. QED
        BY <3>1 DEF Begun
  <2>. QED
      BY <1>2, <2>1 DEF RoundTrip, TripStarts, TripLooks, TripLocks, TripRefused, TripStopped,
         TripJudges, TripIncomplete
<1>3. CASE Operator
    BY <1>3, OperatorKeeps
<1>4. CASE World
    BY <1>4 DEF World, TripKilled, SwitchLost, BookLost, Killed, Crashed, NoRun
<1>5. CASE UNCHANGED liveVars
    BY <1>5 DEF liveVars
<1>. QED
    BY <1>1, <1>2, <1>3, <1>4, <1>5 DEF LiveNext

(* What a cycle trades is in its copy, but for what it has overlooked.     *)
LEMMA TradeTells ==
  ASSUME LiveTypeOK, Told, NEW r \in Runners, Trade(r), ~blind'
  PROVE  /\ run'[r].pc = "traded" /\ position' <= run'[r].book
         /\ \A q \in Runners : q # r => run'[q] = run[q]
<1>1. PICK after \in 0..MaxCap, told \in 0..MaxCap :
        /\ Outcome(r, after, told) \/ Overlooked(r, after, told)
        /\ blind' = (blind \/ Overlooked(r, after, told))
        /\ position' = after
        /\ run' = [run EXCEPT ![r].pc = "traded", ![r].book = told]
    BY DEF Trade
<1>2. ~blind /\ ~Overlooked(r, after, told) /\ Outcome(r, after, told)
    BY <1>1
<1>3. run[r].pc = "begun" /\ run[r] \in Run /\ run \in [Runners -> Run]
    BY DEF Trade, LiveTypeOK
<1>4. position <= run[r].book /\ run[r].book \in Nat /\ position \in Nat
    BY <1>2, <1>3 DEF Told, LiveTypeOK, Run
<1>5. after <= told
    BY <1>2, <1>4 DEF Outcome
<1>6. run'[r].pc = "traded" /\ run'[r].book = told /\ \A q \in Runners : q # r => run'[q] = run[q]
    BY <1>1, <1>3 DEF Run
<1>. QED
    BY <1>1, <1>5, <1>6

LEMMA NextTold == LiveTypeOK /\ Exclusive /\ Told /\ [LiveNext]_liveVars => Told'
<1> SUFFICES ASSUME LiveTypeOK, Exclusive, Told, [LiveNext]_liveVars, ~blind'
             PROVE  /\ position' <= book' \/ \E r \in Runners : run'[r].pc = "traded"
                    /\ \A r \in Runners : run'[r].pc # "off" => position' <= run'[r].book
    BY DEF Told
<1>0. position \in Nat /\ book \in Nat /\ run \in [Runners -> Run]
    BY DEF LiveTypeOK
<1> USE DEF Told
<1>1. CASE Cycle
  <2>1. CASE TimerBegins
      BY <1>0, <2>1 DEF TimerBegins, Begun, LockFree, Exclusive, Runners
  <2>2. ASSUME NEW r \in Runners, Trade(r) PROVE Told'
    <3>1. \A q \in Runners : q # r => run'[q].pc = "off"
        BY <2>2, TradeTells DEF Trade, Exclusive, Runners
    <3>. QED
        BY <2>2, <3>1, TradeTells
  <2>3. ASSUME NEW r \in Runners, Save(r) PROVE Told'
    <3>1. \A q \in Runners : run'[q].pc = "off"
        BY <1>0, <2>3 DEF Save, NoRun, Exclusive, Runners
    <3>2. book' = run[r].book /\ run[r].book \in Nat /\ position' = position
          /\ run[r].pc = "traded"
        BY <1>0, <2>3 DEF Save, Run
    <3>3. ~(blind /\ run[r].book < position)
        BY <2>3 DEF Save
    <3>4. position <= run[r].book
        BY <1>0, <3>2, <3>3
    <3>. QED
        BY <3>1, <3>2, <3>4
  <2>. QED
      BY <1>1, <2>1, <2>2, <2>3 DEF Cycle
<1>2. CASE RoundTrip
  <2>1. CASE TripBegins
      BY <1>0, <2>1 DEF TripBegins, Begun, Exclusive, Runners
  <2>. QED
      BY <1>2, <2>1 DEF RoundTrip, TripStarts, TripLooks, TripLocks, TripRefused, TripStopped,
         TripJudges, TripIncomplete
<1>3. CASE Operator
    BY <1>3, OperatorKeeps
<1>4. CASE World
  <2>1. ASSUME NEW r \in Runners, Killed(r) \/ Crashed(r) PROVE Told'
    <3>1. position' = position /\ book' = book /\ ~(book < position)
        BY <2>1 DEF Killed, Crashed, Untold
    <3>2. \A q \in Runners : run'[q].pc = "off"
        BY <1>0, <2>1 DEF Killed, Crashed, Exclusive, NoRun, Runners
    <3>3. position <= book
        BY <1>0, <3>1
    <3>. QED
        BY <3>1, <3>2, <3>3
  <2>2. CASE TripKilled \/ SwitchLost
      BY <2>2 DEF TripKilled, SwitchLost
  <2>3. CASE BookLost
    <3>1. ~blind /\ ~(position > 0) /\ position' = position /\ run' = run /\ book' = 0
        BY <2>3 DEF BookLost
    <3>. QED
        BY <1>0, <3>1
  <2>. QED
      BY <1>4, <2>1, <2>2, <2>3 DEF World
<1>5. CASE UNCHANGED liveVars
    BY <1>5 DEF liveVars
<1>. QED
    BY <1>1, <1>2, <1>3, <1>4, <1>5 DEF LiveNext

(* Only the last look leads to the write: any other step of the operator   *)
(* leaves an operation as it is, or somewhere else.                        *)
Elsewhere == \A s \in Surfaces : op'[s] = op[s] \/ op'[s].pc # "write"

LEMMA OperatorElsewhere ==
  ASSUME LiveTypeOK, Operator, \A s \in Surfaces : ~LookExchange(s)
  PROVE  Elsewhere
<1> USE DEF LiveTypeOK, Elsewhere
<1>1. NoOp.pc = "idle"
    BY DEF NoOp
<1>2. CASE TerminalDisables
  <2> DEFINE o == [NoOp EXCEPT !.pc = "switch", !.pass = "do", !.what = "disable"]
  <2>1. o.pc = "switch"
      BY ValueTypes DEF Op
  <2>2. op' = [op EXCEPT !["terminal"] = o]
      BY <1>2 DEF TerminalDisables
  <2> HIDE DEF o
  <2>. QED
      BY <2>1, <2>2
<1>3. CASE BotAsks \/ Forgotten
    BY <1>3 DEF BotAsks, Forgotten
<1>4. CASE Confirm
  <2> SUFFICES ASSUME NEW code \in 1..asked,
                      op' = [op EXCEPT !["bot"] =
                                [NoOp EXCEPT !.pc = "switch", !.pass = "do", !.what = pending.what,
                                             !.cap = pending.cap, !.code = code]]
               PROVE  Elsewhere
      BY <1>4 DEF Confirm
  <2>1. [NoOp EXCEPT !.pc = "switch", !.pass = "do", !.what = pending.what,
                     !.cap = pending.cap, !.code = code].pc = "switch"
      BY ValueTypes DEF Op
  <2>. QED
      BY <2>1
<1>5. CASE BotRestarts
    BY <1>5, <1>1 DEF BotRestarts
<1>6. CASE Typed
    BY <1>6 DEF Typed, Op, Surfaces
<1>7. ASSUME NEW s \in Surfaces, AskEnable(s) PROVE Elsewhere
    BY <1>7 DEF AskEnable, NoOp
<1>8. ASSUME NEW s \in Surfaces, LookSwitch(s) \/ LookBook(s) PROVE Elsewhere
    BY <1>8 DEF LookSwitch, LookBook, To, Op
<1>9. ASSUME NEW s \in Surfaces, WriteSwitch(s) \/ Refused(s) PROVE Elsewhere
    BY <1>9, <1>1 DEF WriteSwitch, Refused
<1>. QED
    BY <1>2, <1>3, <1>4, <1>5, <1>6, <1>7, <1>8, <1>9 DEF Operator

LEMMA NextLooked == LiveTypeOK /\ LookedFlat /\ [LiveNext]_liveVars => LookedFlat'
<1> SUFFICES ASSUME LiveTypeOK, LookedFlat, [LiveNext]_liveVars PROVE LookedFlat'
    OBVIOUS
<1> USE DEF LiveTypeOK, LookedFlat, Surfaces
<1>1. CASE Cycle
  <2>1. ASSUME NEW r \in Runners, Trade(r) PROVE LookedFlat'
      BY <2>1 DEF Trade, Op
  <2>. QED
      BY <1>1, <2>1 DEF Cycle, TimerBegins, Save
<1>2. CASE RoundTrip
    BY <1>2 DEF RoundTrip, TripStarts, TripLooks, TripLocks, TripRefused, TripStopped, TripBegins,
       TripJudges, TripIncomplete
<1>3. CASE Operator
  <2>1. CASE \A s \in Surfaces : ~LookExchange(s)
      BY <1>3, <2>1, OperatorElsewhere, OperatorKeeps DEF Elsewhere
  <2>2. ASSUME NEW s \in Surfaces, LookExchange(s) PROVE LookedFlat'
      BY <2>2 DEF LookExchange, FlatOnExchange, To, NoOp
  <2>. QED
      BY <2>1, <2>2
<1>4. CASE World
    BY <1>4 DEF World, TripKilled, SwitchLost, BookLost, Killed, Crashed
<1>5. CASE UNCHANGED liveVars
    BY <1>5 DEF liveVars
<1>. QED
    BY <1>1, <1>2, <1>3, <1>4, <1>5 DEF LiveNext

LEMMA NextCodes == LiveTypeOK /\ CodesFresh /\ [LiveNext]_liveVars => CodesFresh'
<1> SUFFICES ASSUME LiveTypeOK, CodesFresh, [LiveNext]_liveVars PROVE CodesFresh'
    OBVIOUS
<1> USE DEF LiveTypeOK, CodesFresh
<1>1. "bot" \in Surfaces /\ NoOp.pass = "ask" /\ NoOp.code = 0 /\ NoRequest.code = 0
    BY DEF Surfaces, NoOp, NoRequest
<1>2. CASE Cycle
  <2>1. ASSUME NEW r \in Runners, Trade(r) PROVE CodesFresh'
    <3>1. op'["bot"].pass = op["bot"].pass /\ op'["bot"].code = op["bot"].code
        BY <2>1, <1>1 DEF Trade, Op
    <3>. QED
        BY <2>1, <3>1 DEF Trade
  <2>. QED
      BY <1>2, <2>1 DEF Cycle, TimerBegins, Save
<1>3. CASE RoundTrip
    BY <1>3 DEF RoundTrip, TripStarts, TripLooks, TripLocks, TripRefused, TripStopped, TripBegins,
       TripJudges, TripIncomplete
<1>4. CASE Operator
  <2>1. CASE TerminalDisables \/ Typed
    <3>1. op'["bot"] = op["bot"] /\ asked' >= asked /\ asked' \in Nat
        BY <2>1, <1>1 DEF TerminalDisables, Typed, Asked
    <3>. QED
        BY <2>1, <3>1 DEF TerminalDisables, Typed
  <2>2. CASE BotAsks
    <3>1. asked' = asked + 1 /\ pending'.code = asked'
        BY <2>2 DEF BotAsks, Asked
    <3>2. op' = op /\ op["bot"] = NoOp /\ spent' = spent
        BY <2>2 DEF BotAsks
    <3>. QED
        BY <3>1, <3>2, <1>1
  <2>3. CASE Confirm
    <3>1. pending' = NoRequest /\ asked' = asked
        BY <2>3 DEF Confirm, PendingAfterConfirm
    <3>2. CASE UNCHANGED <<op, spent>>
        BY <3>1, <3>2, <1>1
    <3>3. ASSUME NEW code \in 1..asked,
                 op' = [op EXCEPT !["bot"] =
                           [NoOp EXCEPT !.pc = "switch", !.pass = "do", !.what = pending.what,
                                        !.cap = pending.cap, !.code = code]],
                 spent' = spent \cup {code}
          PROVE  CodesFresh'
      <4>1. op'["bot"].pass = "do"
          BY <3>3, <1>1, ValueTypes DEF Op
      <4>. QED
          BY <3>1, <3>3, <4>1, <1>1
    <3>. QED
        BY <2>3, <3>2, <3>3 DEF Confirm
  <2>4. CASE Forgotten \/ BotRestarts
    <3>1. UNCHANGED <<asked, spent>> /\ pending' = NoRequest
        BY <2>4 DEF Forgotten, BotRestarts
    <3>2. op'["bot"] \in {NoOp, op["bot"]}
        BY <2>4, <1>1 DEF Forgotten, BotRestarts
    <3>. QED
        BY <3>1, <3>2, <1>1
  <2>5. ASSUME NEW s \in Surfaces, AskEnable(s) PROVE CodesFresh'
      BY <2>5, <1>1 DEF AskEnable, Asked
  <2>6. ASSUME NEW s \in Surfaces, LookSwitch(s) \/ LookBook(s) PROVE CodesFresh'
    <3>1. op'["bot"].pass = op["bot"].pass /\ op'["bot"].code = op["bot"].code
        BY <2>6, <1>1 DEF LookSwitch, LookBook, To, Op
    <3>. QED
        BY <2>6, <3>1 DEF LookSwitch, LookBook
  <2>7. ASSUME NEW s \in Surfaces, LookExchange(s) PROVE CodesFresh'
    <3>1. UNCHANGED <<asked, spent>>
        BY <2>7 DEF LookExchange
    <3>2. CASE To(s, "write") /\ UNCHANGED pending
      <4>1. op'["bot"].pass = op["bot"].pass /\ op'["bot"].code = op["bot"].code
          BY <3>2, <1>1 DEF To, Op
      <4>. QED
          BY <3>1, <3>2, <4>1
    <3>3. CASE s = "terminal"
      <4>1. op'["bot"] = op["bot"] /\ UNCHANGED pending
          BY <2>7, <3>3, <1>1 DEF LookExchange, To, Surfaces
      <4>. QED
          BY <3>1, <4>1
    <3>4. CASE s = "bot" /\ op[s].pass = "ask"
      <4>1. pending'.code = op["bot"].code /\ op'["bot"] = NoOp
          BY <2>7, <3>4, <1>1 DEF LookExchange
      <4>. QED
          BY <3>1, <3>4, <4>1, <1>1
    <3>. QED
        BY <2>7, <3>2, <3>3, <3>4 DEF LookExchange, Op, Surfaces
  <2>8. ASSUME NEW s \in Surfaces, WriteSwitch(s) \/ Refused(s) PROVE CodesFresh'
    <3>1. UNCHANGED <<asked, spent, pending>>
        BY <2>8 DEF WriteSwitch, Refused
    <3>2. op'["bot"] \in {NoOp, op["bot"]}
        BY <2>8, <1>1 DEF WriteSwitch, Refused
    <3>. QED
        BY <3>1, <3>2, <1>1
  <2>. QED
      BY <1>4, <2>1, <2>2, <2>3, <2>4, <2>5, <2>6, <2>7, <2>8 DEF Operator
<1>5. CASE World
    BY <1>5 DEF World, TripKilled, SwitchLost, BookLost, Killed, Crashed
<1>6. CASE UNCHANGED liveVars
    BY <1>6 DEF liveVars
<1>. QED
    BY <1>2, <1>3, <1>4, <1>5, <1>6 DEF LiveNext

LEMMA LiveNextInv == LiveInv /\ [LiveNext]_liveVars => LiveInv'
  BY LiveNextType, NextExclusive, NextLimited, NextTold, NextLooked, NextCodes DEF LiveInv

LEMMA LiveInvariance == LiveSpec => []LiveInv
<1>. QED
    BY LiveInitInv, LiveNextInv, PTL DEF LiveSpec

-----------------------------------------------------------------------------
(* Files, processes and the position keep their shapes: carry/live.py,     *)
(* telegram_bot.py and the round trip write nothing their readers refuse.  *)
THEOREM LiveTypeCorrect == LiveSpec => []LiveTypeOK
<1>1. LiveInv => LiveTypeOK
    BY DEF LiveInv
<1>. QED
    BY <1>1, LiveInvariance, PTL

(* A position no cycle would look at is one the saved book has missed: its *)
(* run died before the save or overlooked an order, or the book was lost.  *)
(* The loss of the switch alone, whenever it comes, leaves the position to *)
(* the forced UNWIND of run_carry_cycle.py.                                *)
THEOREM PositionIsWatched == LiveSpec => []UnwatchedOnlyBlind
<1>1. LiveInv => UnwatchedOnlyBlind
    BY DEF LiveInv, LiveTypeOK, Exclusive, Told, UnwatchedOnlyBlind, Watched, RunsLive, Runners
<1>. QED
    BY <1>1, LiveInvariance, PTL

(* A position opens under a switch that was valid when its cycle began,    *)
(* within the cap signed in it, or within the round trip's limit.          *)
THEOREM OpensUnderSwitch == LiveSpec => OpenedUnderSwitch
<1> DEFINE Opens == position' > position =>
      \E r \in Runners : /\ run[r].pc = "begun" /\ run'[r].pc = "traded"
                         /\ position' <= IF r = "trip" THEN TripSize ELSE run[r].under
<1>1. LiveInv /\ [LiveNext]_liveVars => [Opens]_liveVars
  <2> SUFFICES ASSUME LiveInv, [LiveNext]_liveVars, position' > position PROVE Opens
      OBVIOUS
  <2> USE DEF LiveInv, LiveTypeOK
  <2>1. PICK r \in Runners : Trade(r)
    <3>1. ~Operator
        BY OperatorKeeps
    <3>2. position' # position
        OBVIOUS
    <3>3. ~RoundTrip /\ ~World /\ ~UNCHANGED liveVars
        BY <3>2 DEF RoundTrip, TripStarts, TripLooks, TripLocks, TripRefused, TripStopped, TripBegins,
               TripJudges, TripIncomplete, World, TripKilled, SwitchLost, BookLost, Killed, Crashed, liveVars
    <3>. QED
        BY <3>1, <3>2, <3>3 DEF LiveNext, Cycle, TimerBegins, Save
  <2>2. run[r].pc = "begun" /\ run'[r].pc = "traded" /\ position' <= run[r].cap
    <3>1. PICK after \in 0..MaxCap, told \in 0..MaxCap :
            /\ Outcome(r, after, told) \/ Overlooked(r, after, told)
            /\ position' = after
            /\ run' = [run EXCEPT ![r].pc = "traded", ![r].book = told]
        BY <2>1 DEF Trade
    <3>2. after > position
        BY <3>1
    <3>3. after <= run[r].cap
        BY <3>1, <3>2 DEF Outcome, Overlooked
    <3>4. run[r].pc = "begun" /\ run'[r].pc = "traded"
        BY <2>1, <3>1 DEF Trade, Run
    <3>. QED
        BY <3>1, <3>3, <3>4
  <2>3. run[r].cap \in Nat /\ run[r].under \in Nat /\ position' \in Nat
      BY <2>1 DEF Trade, Run
  <2>4. position' <= IF r = "trip" THEN TripSize ELSE run[r].under
      BY <2>2, <2>3 DEF Limited, Runners
  <2>. QED
      BY <2>2, <2>4
<1>. QED
    BY <1>1, LiveInvariance, PTL DEF LiveSpec, OpenedUnderSwitch

(* A code of the bot begins one operation at most, whatever is confirmed   *)
(* how often, and whenever the bot restarts.                               *)
THEOREM CodesAreUsedOnce == LiveSpec => CodeOnce
<1> DEFINE Once == \A code \in spent' :
      op["bot"] = NoOp /\ op'["bot"].pass = "do" /\ op'["bot"].code = code => code \notin spent
<1>1. LiveInv /\ [LiveNext]_liveVars => [Once]_liveVars
  <2> SUFFICES ASSUME LiveInv, [LiveNext]_liveVars, NEW code \in spent',
                      op["bot"] = NoOp, op'["bot"].pass = "do", op'["bot"].code = code
               PROVE  code \notin spent
      OBVIOUS
  <2> USE DEF LiveInv, LiveTypeOK
  <2>1. "bot" \in Surfaces /\ NoOp.pass = "ask" /\ NoOp.pc = "idle"
      BY DEF Surfaces, NoOp
  <2>2. Confirm
    <3>1. op'["bot"] # op["bot"]
        BY <2>1
    <3>2. ~Cycle
        BY <2>1, <3>1 DEF Cycle, TimerBegins, Trade, Save
    <3>3. ~RoundTrip /\ ~World /\ ~UNCHANGED liveVars
        BY <3>1 DEF RoundTrip, TripStarts, TripLooks, TripLocks, TripRefused, TripStopped, TripBegins,
               TripJudges, TripIncomplete, World, TripKilled, SwitchLost, BookLost, Killed, Crashed, liveVars
    <3>4. ASSUME NEW s \in Surfaces,
                 AskEnable(s) \/ LookSwitch(s) \/ LookBook(s) \/ LookExchange(s)
                   \/ WriteSwitch(s) \/ Refused(s)
          PROVE  FALSE
      <4>1. ~WriteSwitch(s) /\ ~Refused(s)
          BY <3>1, <2>1 DEF WriteSwitch, Refused
      <4>2. ASSUME AskEnable(s) PROVE FALSE
        <5>1. PICK cap \in Caps :
                op' = [op EXCEPT ![s] = [NoOp EXCEPT !.pc = "switch", !.cap = cap, !.code = asked + 1]]
            BY <4>2 DEF AskEnable
        <5>2. [NoOp EXCEPT !.pc = "switch", !.cap = cap, !.code = asked + 1].pass = "ask"
            BY DEF NoOp
        <5>3. op'["bot"] = op["bot"] \/ op'["bot"].pass = "ask"
            BY <5>1, <5>2
        <5>. QED
            BY <3>1, <5>3
      <4>3. ~LookSwitch(s) /\ ~LookBook(s)
          BY <2>1 DEF LookSwitch, LookBook, To
      <4>4. ~LookExchange(s)
          BY <2>1 DEF LookExchange, To
      <4>. QED
          BY <3>4, <4>1, <4>3, <4>4, <4>2
    <3>5. ~(TerminalDisables \/ BotAsks \/ Forgotten \/ BotRestarts \/ Typed)
        BY <3>1, <2>1 DEF TerminalDisables, BotAsks, Forgotten, BotRestarts, Typed
    <3>. QED
        BY <3>2, <3>3, <3>4, <3>5 DEF LiveNext, Operator
  <2>3. code = pending.code
    <3>1. PICK given \in 1..asked :
            /\ pending.code = given
            /\ op' = [op EXCEPT !["bot"] =
                         [NoOp EXCEPT !.pc = "switch", !.pass = "do", !.what = pending.what,
                                      !.cap = pending.cap, !.code = given]]
        BY <2>1, <2>2 DEF Confirm
    <3>. QED
        BY <2>1, <3>1 DEF NoOp
  <2>. QED
      BY <2>3 DEF CodesFresh
<1>. QED
    BY <1>1, LiveInvariance, PTL DEF LiveSpec, CodeOnce

(* The switch is written or removed, and the round trip returns, only with *)
(* nothing on the exchange, but for a position that came after the last    *)
(* look (the switch) or one that the saved book has missed (the round      *)
(* trip).                                                                  *)
THEOREM HandOverIsFlat == LiveSpec => HandsOverFlat
<1> DEFINE AtFlat == \A s \in Surfaces :
      op[s].pc = "write" /\ op'[s] = NoOp /\ switch' # switch => position = 0 \/ op[s].moved
<1> DEFINE Leaves == trip'.phase = "return" /\ trip.phase # "return" => position = 0 \/ blind
<1>1. LiveInv => AtFlat
    BY DEF LiveInv, LookedFlat
<1>2. LiveInv /\ [LiveNext]_liveVars => [Leaves]_liveVars
  <2> SUFFICES ASSUME LiveInv, [LiveNext]_liveVars, trip'.phase = "return", trip.phase # "return"
               PROVE  position = 0 \/ blind
      OBVIOUS
  <2> USE DEF LiveInv, LiveTypeOK
  <2>1. TripJudges
    <3>1. ~Operator
        BY OperatorKeeps
    <3>2. ~World /\ ~UNCHANGED liveVars
        BY DEF World, TripKilled, SwitchLost, BookLost, Killed, Crashed, Judged, NoTrip, Trip, liveVars
    <3>3. ~Cycle
        BY DEF Cycle, TimerBegins, Trade, Save, Judged, Trip
    <3>. QED
        BY <3>1, <3>2, <3>3 DEF LiveNext, RoundTrip, TripStarts, TripLooks, TripLocks, TripRefused,
           TripStopped, TripBegins, TripIncomplete, NoTrip, Trip
  <2>2. trip.judge /\ trip.phase \in Trading
      BY <2>1 DEF TripJudges, Exclusive
  <2>3. book = 0
      BY <2>1, <2>2 DEF TripJudges, After, NoTrip, Trip, Trading
  <2>4. \A r \in Runners : run[r].pc = "off"
      BY <2>2 DEF Exclusive, Runners
  <2>. QED
      BY <2>3, <2>4 DEF Told
<1>. QED
    BY <1>1, <1>2, LiveInvariance, PTL DEF LiveSpec, HandsOverFlat, SwitchedAtFlat, TripLeavesFlat
=============================================================================
