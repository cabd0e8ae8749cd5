------------------------------- MODULE Notifier -------------------------------
(***************************************************************************)
(* notify.py: the Telegram sender of the cycles and the heartbeats, all of *)
(* which keep what they have sent in one file.  A process reports the      *)
(* condition of each of its channels once a run; observe() loads the file, *)
(* decides, sends (an HTTP request of up to ten seconds) and saves the     *)
(* whole file again, through one temporary file that all processes share   *)
(* and with no lock.  A channel has one process, whose runs do not         *)
(* overlap; the others only write back what they loaded of it.             *)
(***************************************************************************)
EXTENDS Naturals, Sequences

CONSTANTS
    Channels,   \* what is reported on
    Procs,      \* the processes that report
    Observes,   \* the channels of each process, in the order of its run
    Confirm,    \* observations in a row that make a change of the channel
    Problems,   \* the conditions that are not "healthy"
    MaxFaults   \* bound: kills, lost files, failed sends and saves

ASSUME NotifierAssumption ==
    /\ Observes \in [Procs -> Seq(Channels) \ {<<>>}]
    /\ Confirm \in [Channels -> Nat \ {0}]
    /\ Problems \cap {"healthy", "none"} = {} /\ MaxFaults \in Nat

VARIABLES
    cond,       \* what each channel's process will report
    file,       \* notify_state.json
    tmp,        \* notify_state.json.tmp
    run,        \* the processes
    told,       \* the operator: the last message of each channel
    faults,     \* how often something has failed
    noted       \* history: what each channel's process has last meant to be saved of it

vars == <<cond, file, tmp, run, told, faults, noted>>

Conditions == Problems \cup {"healthy"}
Stamps == {"never", "recent", "old"}    \* sent_at: 0, less than REPEAT_S ago, or not
Healthy == [cond |-> "healthy", sent |-> "never"]
Message == [cond : Conditions, sent : Stamps]
Record == [cond : Conditions, sent : Stamps,
           pending : Conditions \cup {"none"}, seen : Nat]
NoRecord == [cond |-> "healthy", sent |-> "never", pending |-> "none", seen |-> 0]
Blank == [c \in Channels |-> NoRecord]
NoFile == <<>>
Run == [pc : {"off", "load", "judge", "send", "write", "drop", "replace", "dropped"},
        left : Seq(Channels), data : [Channels -> Record]]
Off == [pc |-> "off", left |-> <<>>, data |-> Blank]

(* Records, messages and processes have the shape notify.py gives them, a  *)
(* record waits for fewer observations than make a change, and a process   *)
(* at work has a channel to report.                                        *)
NotifierTypeOK ==
    /\ cond \in [Channels -> Conditions]
    /\ file \in [Channels -> Record] /\ tmp \in [Channels -> Record] \cup {NoFile}
    /\ told \in [Channels -> Message] /\ noted \in [Channels -> Record]
    /\ faults \in 0..MaxFaults
    /\ run \in [Procs -> Run]
    /\ \A p \in Procs : run[p].pc # "off" => run[p].left # <<>>
    /\ \A c \in Channels : file[c].seen < Confirm[c] /\ (file[c].seen > 0 <=> file[c].pending # "none")

Init ==
    /\ cond = [c \in Channels |-> "healthy"]
    /\ file = Blank /\ tmp = NoFile /\ noted = Blank
    /\ run = [p \in Procs |-> Off]
    /\ told = [c \in Channels |-> Healthy]
    /\ faults = 0

Fault == faults < MaxFaults /\ faults' = faults + 1

-----------------------------------------------------------------------------
(* The world: conditions change, time passes, things fail.                 *)

Owner(c) == CHOOSE p \in Procs : \E i \in DOMAIN Observes[p] : Observes[p][i] = c

\* A run reports what its decision or cycle record says when it ends.
Changes(c) ==
    /\ run[Owner(c)].pc = "off"
    /\ \E k \in Conditions \ {cond[c]} : cond' = [cond EXCEPT ![c] = k]
    /\ UNCHANGED <<file, tmp, run, told, faults, noted>>

\* REPEAT_S passes, for every copy of the channel's stamp.
Aged(r) == IF r.sent = "recent" THEN [r EXCEPT !.sent = "old"] ELSE r
RepeatPasses(c) ==
    /\ told[c].sent = "recent" \/ file[c].sent = "recent"
    /\ told' = [told EXCEPT ![c] = Aged(@)]
    /\ file' = [file EXCEPT ![c] = Aged(@)] /\ noted' = [noted EXCEPT ![c] = Aged(@)]
    /\ tmp' = IF tmp = NoFile THEN tmp ELSE [tmp EXCEPT ![c] = Aged(@)]
    /\ run' = [p \in Procs |-> [run[p] EXCEPT !.data[c] = Aged(@)]]
    /\ UNCHANGED <<cond, faults>>

Killed(p) ==
    /\ Fault /\ run[p].pc # "off"
    /\ run' = [run EXCEPT ![p] = Off]
    /\ UNCHANGED <<cond, file, tmp, told, noted>>

\* Absent or not JSON, it is an empty one to who loads it.  So is a temporary
\* file that another process moves here while it is being written.
FileLost ==
    /\ Fault /\ file # Blank
    /\ file' = Blank
    /\ UNCHANGED <<cond, tmp, run, told, noted>>

-----------------------------------------------------------------------------
(* One run: observe() for each of the channels.                            *)

Now(p) == Head(run[p].left)
Mine(p) == run[p].data[Now(p)]

Begin(p) ==
    /\ run[p].pc = "off"
    /\ run' = [run EXCEPT ![p] = [Off EXCEPT !.pc = "load", !.left = Observes[p]]]
    /\ UNCHANGED <<cond, file, tmp, told, faults, noted>>

Load(p) ==
    /\ run[p].pc = "load"
    /\ run' = [run EXCEPT ![p].pc = "judge", ![p].data = file]
    /\ UNCHANGED <<cond, file, tmp, told, faults, noted>>

Onward(r) == IF Len(r.left) > 1 THEN [r EXCEPT !.pc = "load", !.left = Tail(@), !.data = Blank]
             ELSE Off

\* What the file is to say of the channel; a save follows.
Note(p, pc, r) == run' = [run EXCEPT ![p].pc = pc, ![p].data[Now(p)] = r]

Pending(r, k, n) == [r EXCEPT !.pending = k, !.seen = n]
NotePending(p, pc, k, n) ==
    /\ Note(p, pc, Pending(Mine(p), k, n))
    /\ noted' = [noted EXCEPT ![Now(p)] = Pending(@, k, n)]

\* A change waits until it has been seen Confirm times in a row.
Seen(r, k) == IF r.pending = k THEN r.seen + 1 ELSE 1
WaitsLonger(p) ==                                       \* mutant: seen <= confirm
    LET r == Mine(p)  k == cond[Now(p)]
    IN Confirm[Now(p)] > 1 /\ k # r.cond /\ Seen(r, k) <= Confirm[Now(p)]
Waits(p) ==
    LET r == Mine(p)  k == cond[Now(p)]
    IN Confirm[Now(p)] > 1 /\ k # r.cond /\ Seen(r, k) < Confirm[Now(p)]

\* A blip that reverts is forgotten.
Reverted(p) ==
    Confirm[Now(p)] > 1 /\ cond[Now(p)] = Mine(p).cond /\ Mine(p).pending # "none"

\* Nothing to say: healthy as before, or told less than REPEAT_S ago.
QuietEver(p) ==                                         \* mutant: no reminder
    cond[Now(p)] = Mine(p).cond /\ Mine(p).sent # "never"
Quiet(p) ==
    /\ cond[Now(p)] = Mine(p).cond
    /\ cond[Now(p)] = "healthy" \/ Mine(p).sent = "recent"

Judge(p) ==
    /\ run[p].pc = "judge"
    /\ \/ /\ Reverted(p)
          /\ NotePending(p, "drop", "none", 0)
       \/ /\ Waits(p)
          /\ NotePending(p, "write", cond[Now(p)], Seen(Mine(p), cond[Now(p)]))
       \/ /\ ~Reverted(p) /\ ~Waits(p) /\ Quiet(p)
          /\ run' = [run EXCEPT ![p] = Onward(@)] /\ UNCHANGED noted
       \/ /\ ~Reverted(p) /\ ~Waits(p) /\ ~Quiet(p)
          /\ run' = [run EXCEPT ![p].pc = "send"] /\ UNCHANGED noted
    /\ UNCHANGED <<cond, file, tmp, told, faults>>

\* After a send: a failed one is repeated by the next run, but not the
\* message that all is well again.
SentAnyway(k, ok) == [NoRecord EXCEPT !.cond = k,       \* mutant: a failed send counts
                         !.sent = IF k # "healthy" THEN "recent" ELSE "never"]
Sent(k, ok) == [NoRecord EXCEPT !.cond = k,
                   !.sent = IF k # "healthy" /\ ok THEN "recent" ELSE "never"]

\* Sent; failed; or delivered and the answer lost.
Send(p) ==
    /\ run[p].pc = "send"
    /\ LET c == Now(p)  k == cond[c]
           message == [cond |-> k, sent |-> IF k = "healthy" THEN "never" ELSE "recent"]
       IN \E ok \in BOOLEAN, delivered \in BOOLEAN :
             /\ ok => delivered
             /\ IF ok THEN UNCHANGED faults ELSE Fault
             /\ told' = IF delivered THEN [told EXCEPT ![c] = message] ELSE told
             /\ Note(p, "write", Sent(k, ok)) /\ noted' = [noted EXCEPT ![c] = Sent(k, ok)]
    /\ UNCHANGED <<cond, file, tmp>>

\* _save: write the temporary file, move it over the other.  With the
\* blip's save, observe() goes on to what it has to say.
Written == [write |-> "replace", drop |-> "dropped"]
After(r) == IF r.pc \in {"drop", "dropped"} THEN [r EXCEPT !.pc = "judge"] ELSE Onward(r)

Write(p) ==
    /\ run[p].pc \in DOMAIN Written
    /\ tmp' = run[p].data
    /\ run' = [run EXCEPT ![p].pc = Written[@]]
    /\ UNCHANGED <<cond, file, told, faults, noted>>

WriteFails(p) ==
    /\ Fault /\ run[p].pc \in DOMAIN Written
    /\ run' = [run EXCEPT ![p] = After(@)]
    /\ UNCHANGED <<cond, file, tmp, told, noted>>

\* Another process may have moved the temporary file away: then nothing.
Replace(p) ==
    /\ run[p].pc \in {"replace", "dropped"}
    /\ file' = IF tmp = NoFile THEN file ELSE tmp
    /\ tmp' = NoFile
    /\ run' = [run EXCEPT ![p] = After(@)]
    /\ UNCHANGED <<cond, told, faults, noted>>

-----------------------------------------------------------------------------
Step(p) == Begin(p) \/ Load(p) \/ Judge(p) \/ Send(p) \/ Write(p) \/ Replace(p)

World ==
    \/ FileLost
    \/ \E c \in Channels : Changes(c) \/ RepeatPasses(c)
    \/ \E p \in Procs : Killed(p) \/ WriteFails(p)

Next == World \/ \E p \in Procs : Step(p)

\* The timers start every process again, a process runs on, and time passes.
Fairness ==
    /\ \A p \in Procs : WF_vars(Step(p))
    /\ \A c \in Channels : WF_vars(RepeatPasses(c))

Spec == Init /\ [][Next]_vars /\ Fairness

-----------------------------------------------------------------------------
(* Properties.                                                             *)

Judges(p) == run[p].pc = "judge" /\ run'[p].pc # "judge" /\ faults' = faults

\* What the process has loaded is what it last meant the file to say.
Kept(p) == Mine(p) = noted[Now(p)]

(* A problem is passed over in silence only if the operator was told of it *)
(* last, less than REPEAT_S ago; and it is sent only if it is news, or     *)
(* REPEAT_S has passed, or the last send was not seen to succeed: unless   *)
(* the record of the last decision on the channel was lost, by a kill, a   *)
(* failed save, or another process that had loaded the file before.        *)
SentIfNews ==
    [][\A p \in Procs : Judges(p) /\ Kept(p) /\ cond[Now(p)] # "healthy" =>
        LET message == [cond |-> cond[Now(p)], sent |-> "recent"]
        IN /\ ~Reverted(p) /\ ~Waits(p) /\ run'[p].pc # "send" => told[Now(p)] = message
           /\ run'[p].pc = "send" => told[Now(p)] # message \/ Mine(p).sent = "never"]_vars

\* What has been moved over the file does not hold the channel's latest
\* record: another process wrote back what it had loaded, over the file or
\* over the owner's temporary one.
WrittenOver(c) ==
    \E p \in Procs : /\ run[p].pc \in {"replace", "dropped"} /\ faults' = faults
                     /\ run'[p].pc # run[p].pc
                     /\ p = Owner(c) \/ file[c] = noted[c]
                     /\ file'[c] # noted'[c]

(* A problem that stays is told in the end and stays told, whatever was    *)
(* lost and written over before; for a channel that waits for a second     *)
(* observation, if the processes stop writing over its first.              *)
ProblemIsTold ==
    \A c \in Channels, k \in Problems :
        /\ <>[](cond[c] = k)
        /\ Confirm[c] = 1 \/ <>[][~WrittenOver(c)]_vars
        => <>[](told[c].cond = k)
=============================================================================
