----------------------------- MODULE NotifierProofs -----------------------------
(***************************************************************************)
(* Proofs about Notifier, for any processes and channels, and any number   *)
(* of observations that make a change: the shape of its records, and when  *)
(* a problem is sent and when it is passed over.                           *)
(***************************************************************************)
EXTENDS Notifier, SequenceTheorems, TLAPS

(* A record waits for fewer observations than make a change, wherever a    *)
(* copy of it is.                                                          *)
Counts(r, c) == r.seen < Confirm[c] /\ (r.seen > 0 <=> r.pending # "none")
Waiting(data) == \A c \in Channels : Counts(data[c], c)
Copies ==
    /\ Waiting(file) /\ Waiting(noted)
    /\ tmp # NoFile => Waiting(tmp)
    /\ \A p \in Procs : Waiting(run[p].data)

(* What is noted as sent is what the operator was told, and as long ago.   *)
NotedIsTold ==
    \A c \in Channels : noted[c].sent # "never" =>
        told[c] = [cond |-> noted[c].cond, sent |-> noted[c].sent]

IInv == NotifierTypeOK /\ Copies /\ NotedIsTold

USE NotifierAssumption

-----------------------------------------------------------------------------
(* Records.                                                                *)

LEMMA NoRecordIs ==
  ASSUME NEW c \in Channels
  PROVE  NoRecord \in Record /\ Counts(NoRecord, c)
BY DEF NoRecord, Record, Conditions, Stamps, Counts

LEMMA BlankIs == Blank \in [Channels -> Record] /\ Waiting(Blank)
BY NoRecordIs DEF Blank, Waiting

LEMMA OffIs ==
  Off \in Run /\ Off.pc = "off" /\ Off.left = <<>> /\ Off.data = Blank
BY BlankIs, EmptySeq DEF Off, Run

LEMMA AgedIs ==
  ASSUME NEW c \in Channels, NEW r \in Record
  PROVE  /\ Aged(r) \in Record /\ (Counts(r, c) => Counts(Aged(r), c))
         /\ Aged(r).cond = r.cond /\ Aged(r).sent = IF r.sent = "recent" THEN "old" ELSE r.sent
BY DEF Aged, Record, Stamps, Counts

LEMMA AgedMessageIs ==
  ASSUME NEW r \in Message
  PROVE  /\ Aged(r) \in Message
         /\ Aged(r).cond = r.cond /\ Aged(r).sent = IF r.sent = "recent" THEN "old" ELSE r.sent
BY DEF Aged, Message, Stamps

LEMMA PendingIs ==
  ASSUME NEW c \in Channels, NEW r \in Record, NEW k \in Conditions \cup {"none"}, NEW n \in Nat,
         n < Confirm[c], IF k = "none" THEN n = 0 ELSE n > 0
  PROVE  /\ Pending(r, k, n) \in Record /\ Counts(Pending(r, k, n), c)
         /\ Pending(r, k, n).cond = r.cond /\ Pending(r, k, n).sent = r.sent
<1>1. /\ Pending(r, k, n) \in Record /\ Pending(r, k, n).pending = k /\ Pending(r, k, n).seen = n
      /\ Pending(r, k, n).cond = r.cond /\ Pending(r, k, n).sent = r.sent
    BY DEF Pending, Record
<1>. QED
    BY <1>1 DEF Counts

LEMMA SentIs ==
  ASSUME NEW c \in Channels, NEW k \in Conditions, NEW ok \in BOOLEAN
  PROVE  /\ Sent(k, ok) \in Record /\ Counts(Sent(k, ok), c) /\ Sent(k, ok).cond = k
         /\ Sent(k, ok).sent = IF k # "healthy" /\ ok THEN "recent" ELSE "never"
<1> DEFINE stamp == IF k # "healthy" /\ ok THEN "recent" ELSE "never"
<1>1. NoRecord \in Record /\ NoRecord.pending = "none" /\ NoRecord.seen = 0
    BY NoRecordIs DEF NoRecord
<1>2. stamp \in Stamps
    BY DEF Stamps
<1> HIDE DEF stamp
<1>3. ASSUME NEW r \in Record
      PROVE  LET s == [r EXCEPT !.cond = k, !.sent = stamp]
             IN /\ s \in Record /\ s.cond = k /\ s.sent = stamp
                /\ s.pending = r.pending /\ s.seen = r.seen
    BY <1>2 DEF Record
<1>4. Sent(k, ok) = [NoRecord EXCEPT !.cond = k, !.sent = stamp]
    BY DEF Sent, stamp
<1>5. /\ Sent(k, ok) \in Record /\ Sent(k, ok).cond = k /\ Sent(k, ok).sent = stamp
      /\ Sent(k, ok).pending = "none" /\ Sent(k, ok).seen = 0
    BY <1>1, <1>3, <1>4
<1>6. Counts(Sent(k, ok), c)
    BY <1>5 DEF Counts
<1>. QED
    BY <1>5, <1>6 DEF stamp

LEMMA WaitingChanged ==
  ASSUME NEW data \in [Channels -> Record], Waiting(data), NEW c \in Channels,
         NEW r \in Record, Counts(r, c)
  PROVE  [data EXCEPT ![c] = r] \in [Channels -> Record] /\ Waiting([data EXCEPT ![c] = r])
BY DEF Waiting

-----------------------------------------------------------------------------
(* The processes.                                                          *)

Sound(r) == r \in Run /\ (r.pc # "off" => r.left # <<>>) /\ Waiting(r.data)
Runs == run \in [Procs -> Run] /\ \A p \in Procs : Sound(run[p])
Shared ==
    /\ cond \in [Channels -> Conditions] /\ told \in [Channels -> Message] /\ faults \in 0..MaxFaults
    /\ file \in [Channels -> Record] /\ Waiting(file)
    /\ noted \in [Channels -> Record] /\ Waiting(noted)
    /\ tmp \in [Channels -> Record] \cup {NoFile} /\ (tmp # NoFile => Waiting(tmp))

LEMMA Parts == NotifierTypeOK /\ Copies <=> Runs /\ Shared
BY DEF NotifierTypeOK, Copies, Runs, Shared, Sound, Waiting, Counts

LEMMA RunsChanged ==
  ASSUME Runs, NEW p \in Procs, NEW r, Sound(r), run' = [run EXCEPT ![p] = r]
  PROVE  Runs'
BY DEF Runs, Sound

LEMMA AtWork ==
  ASSUME Runs, NEW p \in Procs, run[p].pc # "off"
  PROVE  /\ run[p] \in Run /\ Sound(run[p]) /\ run[p].left \in Seq(Channels) /\ run[p].left # <<>>
         /\ Now(p) \in Channels /\ Mine(p) \in Record /\ Counts(Mine(p), Now(p))
<1>1. run[p] \in Run /\ Sound(run[p])
    BY DEF Runs
<1>2. run[p].left \in Seq(Channels) /\ run[p].left # <<>> /\ run[p].data \in [Channels -> Record]
    BY <1>1 DEF Sound, Run
<1>3. Now(p) \in Channels
    BY <1>2, HeadTailProperties DEF Now
<1>. QED
    BY <1>1, <1>2, <1>3 DEF Mine, Sound, Waiting

LEMMA OnwardIs ==
  ASSUME NEW r \in Run, Sound(r), r.pc # "off"
  PROVE  Sound(Onward(r))
<1>1. r.left \in Seq(Channels) /\ r.left # <<>>
    BY DEF Sound, Run
<1>2. Tail(r.left) \in Seq(Channels) /\ Len(Tail(r.left)) = Len(r.left) - 1
    BY <1>1, HeadTailProperties
<1>3. Len(r.left) \in Nat /\ Len(<<>>) = 0
    BY <1>1, LenProperties, EmptySeq
<1>4. CASE Len(r.left) > 1
  <2>1. Onward(r) = [pc |-> "load", left |-> Tail(r.left), data |-> Blank]
      BY <1>4 DEF Onward, Run
  <2>2. Tail(r.left) # <<>>
    <3>1. ASSUME NEW t, Len(t) = Len(r.left) - 1 PROVE t # <<>>
        BY <1>3, <1>4, <3>1
    <3>. QED
        BY <1>2, <3>1
  <2>. QED
      BY <1>2, <2>1, <2>2, BlankIs DEF Sound, Run
<1>5. CASE ~(Len(r.left) > 1)
    BY <1>5, OffIs, BlankIs DEF Onward, Sound
<1>. QED
    BY <1>4, <1>5

LEMMA AfterIs ==
  ASSUME NEW r \in Run, Sound(r), r.pc # "off"
  PROVE  Sound(After(r))
<1>1. CASE r.pc \in {"drop", "dropped"}
    BY <1>1 DEF After, Sound, Run
<1>2. CASE r.pc \notin {"drop", "dropped"}
    BY <1>2, OnwardIs DEF After
<1>. QED
    BY <1>1, <1>2

LEMMA NoteIs ==
  ASSUME Runs, NEW p \in Procs, run[p].pc # "off",
         NEW pc \in {"load", "judge", "send", "write", "drop", "replace", "dropped"},
         NEW r \in Record, Counts(r, Now(p)), Note(p, pc, r)
  PROVE  Runs' /\ run'[p].pc = pc
<1>1. /\ run[p] \in Run /\ Sound(run[p]) /\ run[p].left # <<>> /\ Now(p) \in Channels
      /\ run[p].data \in [Channels -> Record] /\ Waiting(run[p].data) /\ run \in [Procs -> Run]
    BY AtWork DEF Sound, Run, Runs
<1> DEFINE data == [run[p].data EXCEPT ![Now(p)] = r]
           n == [run[p] EXCEPT !.pc = pc, !.data = data]
<1>2. run' = [run EXCEPT ![p] = n]
    BY <1>1 DEF Note
<1>3. data \in [Channels -> Record] /\ Waiting(data)
    BY <1>1, WaitingChanged
<1> HIDE DEF data
<1>4. n \in Run /\ n.pc = pc /\ n.left = run[p].left /\ n.data = data
    BY <1>1, <1>3 DEF Run
<1> HIDE DEF n
<1>5. Runs'
    BY <1>1, <1>2, <1>3, <1>4, RunsChanged DEF Sound
<1>6. run'[p].pc = pc
    BY <1>1, <1>2, <1>4
<1>. QED
    BY <1>5, <1>6

-----------------------------------------------------------------------------
(* The steps.                                                              *)

LEMMA InitIInv == Init => IInv
<1> SUFFICES ASSUME Init PROVE IInv
    OBVIOUS
<1>1. Runs
    BY OffIs, BlankIs DEF Init, Runs, Sound
<1>2. Shared
    BY BlankIs DEF Init, Shared, Conditions, Message, Stamps, Healthy
<1>3. NotedIsTold
    BY DEF Init, NotedIsTold, Blank, NoRecord
<1>. QED
    BY <1>1, <1>2, <1>3, Parts DEF IInv

FaultOr == faults' = faults \/ Fault
LEMMA FaultsIs == Shared /\ FaultOr => faults' \in 0..MaxFaults
BY DEF Shared, FaultOr, Fault

LEMMA NotePendingIs ==
  ASSUME Runs, Shared, NotedIsTold, NEW p \in Procs, run[p].pc = "judge",
         NEW pc \in {"drop", "write"}, NEW k \in Conditions \cup {"none"}, NEW n \in Nat,
         n < Confirm[Now(p)], IF k = "none" THEN n = 0 ELSE n > 0,
         NotePending(p, pc, k, n), UNCHANGED <<cond, file, tmp, told, faults>>
  PROVE  Runs' /\ Shared' /\ NotedIsTold' /\ run'[p].pc = pc
<1>1. Now(p) \in Channels /\ Mine(p) \in Record
    BY AtWork
<1> DEFINE m == Pending(Mine(p), k, n)
<1>2a. m \in Record /\ Counts(m, Now(p))
    BY <1>1, PendingIs
<1>2b. Note(p, pc, m)
    BY DEF NotePending
<1> HIDE DEF m
<1>2. Runs' /\ run'[p].pc = pc
    BY <1>1, <1>2a, <1>2b, NoteIs
<1> DEFINE old == noted[Now(p)]
           r == Pending(old, k, n)
<1>3. /\ r \in Record /\ Counts(r, Now(p))
      /\ r.cond = old.cond /\ r.sent = old.sent
  <2>1. old \in Record
      BY <1>1 DEF Shared
  <2> DEFINE c == Now(p)
  <2>2. c \in Channels /\ n < Confirm[c]
      BY <1>1
  <2> HIDE DEF old, c
  <2>3. Counts(Pending(old, k, n), c) /\ Pending(old, k, n) \in Record
      BY <2>1, <2>2, PendingIs
  <2>4. Pending(old, k, n).cond = old.cond /\ Pending(old, k, n).sent = old.sent
      BY <2>1 DEF Pending, Record
  <2>. QED
      BY <2>3, <2>4 DEF c
<1>4. noted' = [noted EXCEPT ![Now(p)] = r]
    BY DEF NotePending
<1> HIDE DEF r
<1>5. Shared'
    BY <1>1, <1>3, <1>4, WaitingChanged DEF Shared, Waiting
<1>6. NotedIsTold'
    BY <1>1, <1>3, <1>4 DEF NotedIsTold, Shared
<1>. QED
    BY <1>2, <1>5, <1>6

LEMMA JudgeKeeps ==
  ASSUME Runs, Shared, NotedIsTold, NEW p \in Procs, Judge(p)
  PROVE  Runs' /\ Shared' /\ NotedIsTold'
<1>1. /\ run[p].pc = "judge" /\ UNCHANGED <<cond, file, tmp, told, faults>>
      /\ Now(p) \in Channels /\ Mine(p) \in Record /\ Sound(run[p]) /\ run[p] \in Run
    BY AtWork DEF Judge
<1>2. CASE Reverted(p) /\ NotePending(p, "drop", "none", 0)
  <2>1. 0 < Confirm[Now(p)]
      BY <1>1
  <2>. QED
      BY <1>1, <1>2, <2>1, NotePendingIs
<1>3. CASE Waits(p) /\ NotePending(p, "write", cond[Now(p)], Seen(Mine(p), cond[Now(p)]))
  <2> DEFINE n == Seen(Mine(p), cond[Now(p)])
  <2>1. n \in Nat /\ n > 0
      BY <1>1 DEF Seen, Record
  <2>2. n < Confirm[Now(p)]
      BY <1>3 DEF Waits
  <2>3. cond[Now(p)] \in Conditions /\ cond[Now(p)] # "none"
      BY <1>1 DEF Shared, Conditions
  <2> HIDE DEF n
  <2>4. NotePending(p, "write", cond[Now(p)], n)
      BY <1>3 DEF n
  <2>. QED
      BY <1>1, <2>1, <2>2, <2>3, <2>4, NotePendingIs
<1>4. CASE run' = [run EXCEPT ![p] = Onward(@)] /\ UNCHANGED noted
  <2>1. Runs'
      BY <1>1, <1>4, OnwardIs, RunsChanged
  <2>. QED
      BY <1>1, <1>4, <2>1 DEF Shared, NotedIsTold
<1>5. CASE run' = [run EXCEPT ![p].pc = "send"] /\ UNCHANGED noted
  <2> DEFINE r == [run[p] EXCEPT !.pc = "send"]
  <2>1. Sound(r)
      BY <1>1 DEF Sound, Run
  <2>2. run' = [run EXCEPT ![p] = r]
      BY <1>5
  <2>3. Runs'
      BY <2>1, <2>2, RunsChanged
  <2>. QED
      BY <1>1, <1>5, <2>3 DEF Shared, NotedIsTold
<1>. QED
    BY <1>2, <1>3, <1>4, <1>5 DEF Judge

LEMMA SendKeeps ==
  ASSUME Runs, Shared, NotedIsTold, NEW p \in Procs, Send(p)
  PROVE  Runs' /\ Shared' /\ NotedIsTold'
<1> DEFINE c == Now(p)
           k == cond[c]
           message == [cond |-> k, sent |-> IF k = "healthy" THEN "never" ELSE "recent"]
<1>1. run[p].pc = "send" /\ c \in Channels /\ k \in Conditions /\ UNCHANGED <<cond, file, tmp>>
    BY AtWork DEF Send, Shared
<1>2. PICK ok \in BOOLEAN, delivered \in BOOLEAN :
         /\ ok => delivered
         /\ IF ok THEN UNCHANGED faults ELSE Fault
         /\ told' = IF delivered THEN [told EXCEPT ![c] = message] ELSE told
         /\ Note(p, "write", Sent(k, ok)) /\ noted' = [noted EXCEPT ![c] = Sent(k, ok)]
    BY DEF Send
<1>3. message \in Message
    BY <1>1 DEF Message, Stamps
<1> DEFINE r == Sent(k, ok)
<1>4. /\ r \in Record /\ Counts(r, c) /\ r.cond = k
      /\ r.sent = IF k # "healthy" /\ ok THEN "recent" ELSE "never"
    BY <1>1, SentIs
<1>5. message.cond = k /\ message.sent = IF k = "healthy" THEN "never" ELSE "recent"
    OBVIOUS
<1> HIDE DEF r, message, k
<1>6. Note(p, "write", r) /\ noted' = [noted EXCEPT ![c] = r]
    BY <1>2 DEF r, k
<1>7. Runs'
    BY <1>1, <1>4, <1>6, NoteIs
<1>8. faults' \in 0..MaxFaults
    BY <1>2, FaultsIs DEF FaultOr
<1>9. told' \in [Channels -> Message] /\ (ok => told'[c] = message)
      /\ \A d \in Channels \ {c} : told'[d] = told[d]
    BY <1>1, <1>2, <1>3 DEF Shared, message, k
<1>10. /\ noted' \in [Channels -> Record] /\ Waiting(noted') /\ noted'[c] = r
       /\ \A d \in Channels \ {c} : noted'[d] = noted[d]
    BY <1>1, <1>4, <1>6, WaitingChanged DEF Shared
<1>11. Shared'
    BY <1>1, <1>8, <1>9, <1>10 DEF Shared, Waiting
<1>12. ASSUME NEW d \in Channels, noted'[d].sent # "never"
       PROVE  told'[d] = [cond |-> noted'[d].cond, sent |-> noted'[d].sent]
  <2>1. CASE d = c
    <3>1. ok /\ k # "healthy" /\ r.sent = "recent"
        BY <1>4, <1>10, <1>12, <2>1
    <3>2. message = [cond |-> k, sent |-> "recent"]
        BY <3>1 DEF message
    <3>. QED
        BY <1>4, <1>9, <1>10, <2>1, <3>1, <3>2
  <2>2. CASE d # c
      BY <1>9, <1>10, <1>12, <2>2 DEF NotedIsTold
  <2>. QED
      BY <2>1, <2>2
<1>. QED
    BY <1>7, <1>11, <1>12 DEF NotedIsTold

\* The other steps of a run.
LEMMA StepKeeps ==
  ASSUME Runs, Shared, NotedIsTold, NEW p \in Procs,
         Begin(p) \/ Load(p) \/ Write(p) \/ WriteFails(p) \/ Replace(p) \/ Killed(p)
  PROVE  Runs' /\ Shared' /\ NotedIsTold'
<1>1. UNCHANGED <<cond, told, noted>> /\ FaultOr
    BY DEF Begin, Load, Write, WriteFails, Replace, Killed, FaultOr
<1>2. faults' \in 0..MaxFaults
    BY <1>1, FaultsIs
<1>3. run[p] \in Run /\ Sound(run[p]) /\ run \in [Procs -> Run]
    BY DEF Runs
<1>4. (file' = file /\ tmp' \in {tmp, NoFile, run[p].data}) \/ (tmp' = NoFile /\ file' \in {file, tmp}
         /\ (tmp = NoFile => file' = file))
    BY DEF Begin, Load, Write, WriteFails, Replace, Killed
<1>5. Shared'
    BY <1>1, <1>2, <1>3, <1>4 DEF Shared, Sound, Run, Waiting
<1>6. NotedIsTold'
    BY <1>1 DEF NotedIsTold
<1>7. CASE Begin(p)
  <2> DEFINE r == [Off EXCEPT !.pc = "load", !.left = Observes[p]]
  <2>1. Observes[p] \in Seq(Channels) /\ Observes[p] # <<>>
      OBVIOUS
  <2>2. r \in Run /\ r.left = Observes[p] /\ r.data = Blank
      BY <2>1, OffIs DEF Run
  <2>3. run' = [run EXCEPT ![p] = r]
      BY <1>7 DEF Begin
  <2> HIDE DEF r
  <2>. QED
      BY <1>5, <1>6, <2>1, <2>2, <2>3, BlankIs, RunsChanged DEF Sound
<1>8. CASE Load(p)
  <2> DEFINE r == [run[p] EXCEPT !.pc = "judge", !.data = file]
  <2>1. r \in Run /\ r.left = run[p].left /\ r.data = file
      BY <1>3 DEF Run, Shared
  <2>2. run[p].left # <<>>
      BY <1>3, <1>8 DEF Load, Sound
  <2>3. run' = [run EXCEPT ![p] = r]
      BY <1>3, <1>8 DEF Load
  <2> HIDE DEF r
  <2>. QED
      BY <1>5, <1>6, <2>1, <2>2, <2>3, RunsChanged DEF Sound, Shared
<1>9. CASE Write(p)
  <2> DEFINE r == [run[p] EXCEPT !.pc = Written[run[p].pc]]
  <2>1. run[p].pc \in {"write", "drop"} /\ Written[run[p].pc] \in {"replace", "dropped"}
      BY <1>9 DEF Write, Written
  <2>2. r \in Run /\ r.left = run[p].left /\ r.data = run[p].data
      BY <1>3, <2>1 DEF Run
  <2>3. run' = [run EXCEPT ![p] = r]
      BY <1>3, <1>9 DEF Write
  <2> HIDE DEF r
  <2>. QED
      BY <1>3, <1>5, <1>6, <2>1, <2>2, <2>3, RunsChanged DEF Sound
<1>10. CASE WriteFails(p) \/ Replace(p)
  <2>1. run' = [run EXCEPT ![p] = After(run[p])] /\ run[p].pc # "off"
      BY <1>10 DEF WriteFails, Replace, Written
  <2>. QED
      BY <1>3, <1>5, <1>6, <2>1, AfterIs, RunsChanged
<1>11. CASE Killed(p)
  <2>1. run' = [run EXCEPT ![p] = Off]
      BY <1>11 DEF Killed
  <2>. QED
      BY <1>5, <1>6, <2>1, OffIs, BlankIs, RunsChanged DEF Sound
<1>. QED
    BY <1>7, <1>8, <1>9, <1>10, <1>11

LEMMA AgedRecords ==
  ASSUME NEW data \in [Channels -> Record], Waiting(data), NEW c \in Channels
  PROVE  /\ [data EXCEPT ![c] = Aged(@)] \in [Channels -> Record]
         /\ Waiting([data EXCEPT ![c] = Aged(@)])
<1>1. Aged(data[c]) \in Record /\ Counts(Aged(data[c]), c)
    BY AgedIs DEF Waiting
<1>. QED
    BY <1>1, WaitingChanged

LEMMA RepeatKeeps ==
  ASSUME Runs, Shared, NotedIsTold, NEW c \in Channels, RepeatPasses(c)
  PROVE  Runs' /\ Shared' /\ NotedIsTold' /\ \A p \in Procs : run'[p].pc = run[p].pc
<1> DEFINE older(r) == [r EXCEPT !.data[c] = Aged(@)]
<1>1. ASSUME NEW p \in Procs PROVE Sound(older(run[p])) /\ older(run[p]).pc = run[p].pc
  <2>1. run[p] \in Run /\ Sound(run[p]) /\ run[p].data \in [Channels -> Record]
      BY DEF Runs, Run
  <2> DEFINE data == [run[p].data EXCEPT ![c] = Aged(@)]
             n == [run[p] EXCEPT !.data = data]
  <2>2. older(run[p]) = n
      BY <2>1 DEF Run
  <2>3. data \in [Channels -> Record] /\ Waiting(data)
      BY <2>1, AgedRecords DEF Sound
  <2> HIDE DEF data
  <2>4. n \in Run /\ n.pc = run[p].pc /\ n.left = run[p].left /\ n.data = data
      BY <2>1, <2>3 DEF Run
  <2>. QED
      BY <2>1, <2>2, <2>3, <2>4 DEF Sound
<1>2. run' = [p \in Procs |-> older(run[p])]
    BY DEF RepeatPasses
<1> HIDE DEF older
<1>3. Runs' /\ \A p \in Procs : run'[p].pc = run[p].pc
    BY <1>1, <1>2 DEF Runs, Sound
<1>4. /\ told' = [told EXCEPT ![c] = Aged(@)] /\ UNCHANGED <<cond, faults>>
      /\ file' = [file EXCEPT ![c] = Aged(@)] /\ noted' = [noted EXCEPT ![c] = Aged(@)]
      /\ tmp' = IF tmp = NoFile THEN tmp ELSE [tmp EXCEPT ![c] = Aged(@)]
    BY DEF RepeatPasses
<1>5. told' \in [Channels -> Message]
    BY <1>4, AgedMessageIs DEF Shared
<1>6. file' \in [Channels -> Record] /\ Waiting(file')
    BY <1>4, AgedRecords DEF Shared
<1>7. noted' \in [Channels -> Record] /\ Waiting(noted')
    BY <1>4, AgedRecords DEF Shared
<1>8. tmp' \in [Channels -> Record] \cup {NoFile} /\ (tmp' # NoFile => Waiting(tmp'))
    BY <1>4, AgedRecords DEF Shared
<1>9. Shared'
    BY <1>4, <1>5, <1>6, <1>7, <1>8 DEF Shared, Waiting
<1>10. NotedIsTold'
  <2> SUFFICES ASSUME NEW d \in Channels, noted'[d].sent # "never"
               PROVE  told'[d] = [cond |-> noted'[d].cond, sent |-> noted'[d].sent]
      BY DEF NotedIsTold
  <2>1. noted[d] \in Record /\ told[d] \in Message
      BY DEF Shared
  <2>2. CASE d # c
      BY <1>4, <2>2 DEF NotedIsTold, Shared
  <2>3. CASE d = c
    <3>1. noted'[d] = Aged(noted[d]) /\ told'[d] = Aged(told[d])
        BY <1>4, <2>3 DEF Shared
    <3>2. noted[d].sent # "never"
        BY <2>1, <3>1, AgedIs
    <3>3. told[d].cond = noted[d].cond /\ told[d].sent = noted[d].sent
      <4>1. told[d] = [cond |-> noted[d].cond, sent |-> noted[d].sent]
          BY <3>2 DEF NotedIsTold
      <4>. QED
          BY <4>1
    <3>4. told'[d].cond = noted'[d].cond /\ told'[d].sent = noted'[d].sent
        BY <2>1, <3>1, <3>3, AgedIs, AgedMessageIs
    <3>. QED
        BY <1>5, <3>4 DEF Message
  <2>. QED
      BY <2>2, <2>3
<1>. QED
    BY <1>3, <1>9, <1>10

LEMMA WorldKeeps ==
  ASSUME Runs, Shared, NotedIsTold, FileLost \/ \E c \in Channels : Changes(c)
  PROVE  Runs' /\ Shared' /\ NotedIsTold'
<1>1. CASE FileLost
  <2>1. file' = Blank /\ UNCHANGED <<cond, tmp, run, told, noted>> /\ FaultOr
      BY <1>1 DEF FileLost, FaultOr
  <2>2. faults' \in 0..MaxFaults
      BY <2>1, FaultsIs
  <2>. QED
      BY <2>1, <2>2, BlankIs DEF Runs, Shared, NotedIsTold, Waiting
<1>2. ASSUME NEW c \in Channels, Changes(c) PROVE Runs' /\ Shared' /\ NotedIsTold'
  <2>1. cond' \in [Channels -> Conditions] /\ UNCHANGED <<file, tmp, run, told, faults, noted>>
      BY <1>2 DEF Changes, Shared
  <2>. QED
      BY <2>1 DEF Runs, Shared, NotedIsTold, Waiting
<1>. QED
    BY <1>1, <1>2

LEMMA Invariance == Spec => []IInv
<1>1. IInv /\ Next => IInv'
  <2> SUFFICES ASSUME IInv, Next PROVE IInv'
      OBVIOUS
  <2>1. Runs /\ Shared /\ NotedIsTold
      BY Parts DEF IInv
  <2>2. Runs' /\ Shared' /\ NotedIsTold'
      BY <2>1, JudgeKeeps, SendKeeps, StepKeeps, RepeatKeeps, WorldKeeps DEF Next, World, Step
  <2>. QED
      BY <2>2, Parts DEF IInv, NotifierTypeOK, Copies, Runs, Shared, Sound, Waiting, Counts
<1>2. IInv /\ UNCHANGED vars => IInv'
    BY DEF IInv, NotifierTypeOK, Copies, Waiting, Counts, NotedIsTold, vars
<1>. QED
    BY <1>1, <1>2, InitIInv, PTL DEF Spec

(* Whatever is killed, lost, undelivered or written over, the file and     *)
(* every copy of it have whole records, no channel waits longer than it    *)
(* should, and a process at work has a channel to report.                  *)
THEOREM TypeCorrect == Spec => []NotifierTypeOK
<1>1. IInv => NotifierTypeOK
    BY DEF IInv
<1>. QED
    BY <1>1, Invariance, PTL

(* Unless the record of the last decision on its channel was lost, a       *)
(* problem is passed over only if the operator was told of it less than    *)
(* REPEAT_S ago, and sent again only if he was not, or may not have been.  *)
THEOREM NewsIsSent == Spec => SentIfNews
<1> DEFINE A == \A p \in Procs : Judges(p) /\ Kept(p) /\ cond[Now(p)] # "healthy" =>
        LET message == [cond |-> cond[Now(p)], sent |-> "recent"]
        IN /\ ~Reverted(p) /\ ~Waits(p) /\ run'[p].pc # "send" => told[Now(p)] = message
           /\ run'[p].pc = "send" => told[Now(p)] # message \/ Mine(p).sent = "never"
<1>1. IInv /\ [Next]_vars => [A]_vars
  <2> SUFFICES ASSUME IInv, Next, NEW p \in Procs, Judges(p), Kept(p), cond[Now(p)] # "healthy"
               PROVE  /\ ~Reverted(p) /\ ~Waits(p) /\ run'[p].pc # "send" =>
                            told[Now(p)] = [cond |-> cond[Now(p)], sent |-> "recent"]
                      /\ run'[p].pc = "send" =>
                            \/ told[Now(p)] # [cond |-> cond[Now(p)], sent |-> "recent"]
                            \/ Mine(p).sent = "never"
      OBVIOUS
  <2>1. Runs /\ Shared /\ NotedIsTold /\ run \in [Procs -> Run]
      BY Parts DEF IInv, Runs
  <2>2. Judge(p)
    <3>1. ASSUME NEW q \in Procs, q # p, Step(q) \/ WriteFails(q) PROVE FALSE
      <4>1. run'[p] = run[p]
          BY <2>1, <3>1 DEF Step, Begin, Load, Judge, NotePending, Note, Send, Write, Replace, WriteFails
      <4>. QED
          BY <4>1 DEF Judges
    <3>2. ~ \E c \in Channels : RepeatPasses(c)
        BY <2>1, RepeatKeeps DEF Judges
    <3>3. ~ \E q \in Procs : Killed(q)
        BY <2>1 DEF Killed, Fault, Judges, Shared
    <3>4. ~FileLost /\ ~ \E c \in Channels : Changes(c)
        BY DEF FileLost, Changes, Judges
    <3>5. Step(p) \/ WriteFails(p)
        BY <3>1, <3>2, <3>3, <3>4 DEF Next, World
    <3>. QED
        BY <3>5 DEF Step, Begin, Load, Send, Write, Replace, WriteFails, Written, Judges
  <2>3. /\ Now(p) \in Channels /\ Mine(p) \in Record /\ Mine(p) = noted[Now(p)]
        /\ run[p].pc = "judge" /\ Sound(run[p])
      BY <2>1, AtWork DEF Judges, Kept
  <2>4. Mine(p).sent # "never" => told[Now(p)] = [cond |-> Mine(p).cond, sent |-> Mine(p).sent]
      BY <2>1, <2>3 DEF NotedIsTold
  <2>5. ASSUME ~Reverted(p), ~Waits(p), run'[p].pc # "send"
        PROVE  told[Now(p)] = [cond |-> cond[Now(p)], sent |-> "recent"]
    <3>1. Quiet(p)
        BY <2>1, <2>2, <2>5 DEF Judge, Run
    <3>. QED
        BY <2>4, <3>1 DEF Quiet
  <2>6. ASSUME run'[p].pc = "send", Mine(p).sent # "never"
        PROVE  told[Now(p)] # [cond |-> cond[Now(p)], sent |-> "recent"]
    <3>1. ~Quiet(p)
      <4>1. ASSUME NEW k, NEW n PROVE ~NotePending(p, "drop", k, n) /\ ~NotePending(p, "write", k, n)
          BY <2>1, <2>6 DEF NotePending, Note, Run
      <4>2. run' # [run EXCEPT ![p] = Onward(run[p])]
        <5>1. Onward(run[p]).pc # "send"
            BY <2>1, OffIs DEF Onward, Run
        <5>. QED
            BY <2>1, <2>6, <5>1
      <4>. QED
          BY <2>2, <4>1, <4>2 DEF Judge
    <3>. QED
        BY <2>3, <2>4, <2>6, <3>1 DEF Quiet
  <2>. QED
      BY <2>5, <2>6
<1>. QED
    BY <1>1, Invariance, PTL DEF Spec, SentIfNews
=============================================================================
