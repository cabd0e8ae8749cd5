------------------------------- MODULE LiveSwitch -------------------------------
(***************************************************************************)
(* Who may trade the carry account with real money.  The configuration     *)
(* says DRY_RUN for ever; a signed file, the live switch, turns a cycle of *)
(* the timer live (carry/live.py).  The operator writes and removes it     *)
(* over Telegram, with a confirmation (telegram_bot.py), or on a terminal  *)
(* (scripts/carry_live.py), behind the checks of carry/live_ops.py.  The   *)
(* supervised round trip (scripts/mainnet_roundtrip.py) runs live cycles   *)
(* of its own, without the switch.                                         *)
(*                                                                         *)
(* Each look at a file or at the exchange is a step.  A cycle is three:    *)
(* what it starts with, what it trades, the saved book.  What it trades is *)
(* the size of what is held, with the outcomes CarryCycle has for it.      *)
(* Paper cycles touch nothing that is here.                                *)
(***************************************************************************)
EXTENDS Naturals, FiniteSets

CONSTANTS
    MaxCap,         \* TOTAL_CAPITAL_CAP_USD, in units of money
    TripSize,       \* MAX_NOTIONAL_USD of the round trip
    MaxAsked,       \* bound: commands of the operator
    MaxFaults       \* bound: kills, crashes, lost files

ASSUME LiveAssumption ==
    /\ MaxCap \in Nat \ {0} /\ TripSize \in 1..MaxCap
    /\ MaxAsked \in Nat /\ MaxFaults \in Nat

VARIABLES
    switch,     \* carry_live.json: whether it exists, and its cap if it verifies
    position,   \* the exchange: what is held, in units of money
    book,       \* the saved live book: how much of it, to who loads it
    run,        \* the live cycle of the timer, and of the round trip
    trip,       \* the round trip
    op,         \* an operation on the switch: the bot's, the terminal's
    pending,    \* the bot: what /confirm would confirm
    asked,      \* the commands of the operator, and the codes given for them
    faults,
    spent,      \* history: codes whose confirmation began an operation
    blind       \* history: a position that has not come into a saved book, or
                \* has gone out of it, without having been closed

liveVars == <<switch, position, book, run, trip, op, pending, asked, faults, spent, blind>>

Caps == 1..MaxCap
Absent == [exists |-> FALSE, cap |-> 0]
Broken == [exists |-> TRUE, cap |-> 0]
(* Mutant: the cap is signed with room above it.                           *)
SignedLoosely(cap) == [exists |-> TRUE, cap |-> cap + 1]
SignedCap(cap) == [exists |-> TRUE, cap |-> cap]
Surfaces == {"bot", "terminal"}
Runners == {"timer", "trip"}

NoRun == [pc |-> "off", cap |-> 0, book |-> 0, under |-> 0]
Run == [pc : {"off", "begun", "traded"},
        cap : 0..MaxCap,        \* how much it may open
        book : 0..MaxCap,       \* its copy of the book
        under : 0..MaxCap]      \* history: the cap in force when it began

NoTrip == [phase |-> "off", judge |-> FALSE, finish |-> FALSE]
Trading == {"enter", "hold", "exit", "return"}
Trip == [phase : {"off", "look", "lock"} \cup Trading,
         judge : BOOLEAN,       \* a cycle has run, the next phase is open
         finish : BOOLEAN]      \* --finish

NoOp == [pc |-> "idle", pass |-> "ask", what |-> "enable", cap |-> 0, code |-> 0, moved |-> FALSE]
Op == [pc : {"idle", "switch", "book", "exchange", "code", "write"},
       pass : {"ask", "do"},    \* the checks for the request, or for the write
       what : {"enable", "disable"}, cap : 0..MaxCap, code : 0..MaxAsked,
       moved : BOOLEAN]         \* history: a position was opened since the look at the exchange

NoRequest == [what |-> "none", cap |-> 0, code |-> 0]
Request == [what : {"none", "enable", "disable", "other"}, cap : 0..MaxCap, code : 0..MaxAsked]

(* Files, processes and the position have the shapes their readers expect. *)
LiveTypeOK ==
    /\ switch \in [exists : BOOLEAN, cap : 0..MaxCap] /\ (switch.cap > 0 => switch.exists)
    /\ position \in 0..MaxCap /\ book \in 0..MaxCap
    /\ run \in [Runners -> Run] /\ trip \in Trip
    /\ op \in [Surfaces -> Op] /\ pending \in Request
    /\ asked \in 0..MaxAsked /\ faults \in 0..MaxFaults
    /\ spent \subseteq 1..MaxAsked /\ blind \in BOOLEAN

LiveInit ==
    /\ switch = Absent /\ position = 0 /\ book = 0
    /\ run = [r \in Runners |-> NoRun] /\ trip = NoTrip
    /\ op = [s \in Surfaces |-> NoOp] /\ pending = NoRequest
    /\ asked = 0 /\ faults = 0 /\ spent = {} /\ blind = FALSE

Fault == faults < MaxFaults /\ faults' = faults + 1

-----------------------------------------------------------------------------
(* What a cycle starts with.                                               *)

(* Mutant: without a valid switch, paper, whatever the live book holds.    *)
RunsLiveSwitched(held) == switch.cap > 0
(* A valid switch, or a live book that holds something.                    *)
RunsLive(held) == switch.cap > 0 \/ held > 0

(* Mutant: live without a switch is not held to UNWIND.                    *)
EntryCapUnforced == IF switch.cap > 0 THEN switch.cap ELSE MaxCap
(* The signed cap; without a valid switch, UNWIND: nothing.                *)
EntryCap == switch.cap

\* The flock on carry_cycle.lock.
LockFree == run["timer"].pc = "off" /\ trip.phase \notin Trading

Begun(cap) == [pc |-> "begun", cap |-> cap, book |-> book, under |-> switch.cap]

\* The timer's cycle.  The risk state and the latch may make it stricter: it
\* may always trade less than it may.
TimerBegins ==
    /\ LockFree /\ RunsLive(book)
    /\ run' = [run EXCEPT !["timer"] = Begun(EntryCap)]
    /\ UNCHANGED <<switch, position, book, trip, op, pending, asked, faults, spent, blind>>

-----------------------------------------------------------------------------
(* What it trades, and what its copy of the book then says.                *)

\* Nothing, a reduction or an exit, a book put right: it may hold more than is
\* left, of a close not all may have been seen.  What it does not hold, closed
\* as far as it is naked, or adopted.  An entry, from FLAT only.
Outcome(r, after, told) ==
    \/ run[r].book >= position /\ after <= position /\ told \in after..run[r].book
    \/ run[r].book < position /\ after <= position /\ told \in {run[r].book} \cup after..position
    \/ position = 0 /\ after <= run[r].cap /\ told \in after..run[r].cap

\* An entry with an order of unknown fate, or taken for refused, that is there
\* (one that fills later counts as filled now); a position that looks gone,
\* whose book had an order still to be looked up.
Overlooked(r, after, told) ==
    \/ position = 0 /\ after <= run[r].cap /\ told < after
    \/ position > 0 /\ run[r].book >= position /\ after = position /\ told = 0

Trade(r) ==
    /\ run[r].pc = "begun"
    /\ \E after, told \in 0..MaxCap :
        /\ Outcome(r, after, told) \/ Overlooked(r, after, told)
        /\ blind' = (blind \/ Overlooked(r, after, told))
        /\ position' = after
        /\ run' = [run EXCEPT ![r].pc = "traded", ![r].book = told]
        /\ op' = [s \in Surfaces |-> IF op[s].pc = "write" /\ after > position
                                     THEN [op[s] EXCEPT !.moved = TRUE] ELSE op[s]]
    /\ UNCHANGED <<switch, book, trip, pending, asked, faults, spent>>

Judged(r) == IF r = "trip" THEN [trip EXCEPT !.judge = TRUE] ELSE trip

Save(r) ==
    /\ run[r].pc = "traded"
    /\ book' = run[r].book
    /\ run' = [run EXCEPT ![r] = NoRun] /\ trip' = Judged(r)
    /\ blind' = (blind /\ run[r].book < position)
    /\ UNCHANGED <<switch, position, op, pending, asked, faults, spent>>

-----------------------------------------------------------------------------
(* The round trip.                                                         *)

\* The unit is active; the switch must not exist.  The timers are stopped, a
\* cycle of theirs may still run, or start by mistake.
TripStarts ==
    /\ trip.phase = "off" /\ ~switch.exists
    /\ \E finish \in BOOLEAN :
        trip' = [phase |-> IF finish THEN "lock" ELSE "look", judge |-> FALSE, finish |-> finish]
    /\ UNCHANGED <<switch, position, book, run, op, pending, asked, faults, spent, blind>>

\* FLAT by the book and by the exchange, and every other check passed.
TripLooks ==
    /\ trip.phase = "look" /\ book = 0 /\ position = 0
    /\ trip' = [trip EXCEPT !.phase = "lock"]
    /\ UNCHANGED <<switch, position, book, run, op, pending, asked, faults, spent, blind>>

TripLocks ==
    /\ trip.phase = "lock" /\ LockFree
    /\ trip' = [trip EXCEPT !.phase = IF trip.finish THEN "exit" ELSE "enter"]
    /\ UNCHANGED <<switch, position, book, run, op, pending, asked, faults, spent, blind>>

\* A check that fails, the lock that is held.
TripRefused ==
    /\ trip.phase \in {"look", "lock"}
    /\ trip' = NoTrip
    /\ UNCHANGED <<switch, position, book, run, op, pending, asked, faults, spent, blind>>

\* A production cycle: forced to UNWIND in the exit, to NO_NEW_POSITIONS after.
TripBegins ==
    /\ trip.phase \in Trading /\ ~trip.judge /\ run["trip"].pc = "off"
    /\ run' = [run EXCEPT !["trip"] = Begun(IF trip.phase \in {"enter", "hold"} THEN TripSize ELSE 0)]
    /\ UNCHANGED <<switch, position, book, trip, op, pending, asked, faults, spent, blind>>

(* The next phase, by what the saved book holds: blocking alerts, deadlines*)
(* and the settlement lead to the exit, only FLAT leads out of it.         *)
After(phase, held) ==
    CASE phase = "enter" -> IF held > 0 THEN {"hold"} ELSE {"enter", "exit"}
      [] phase = "hold" -> IF held > 0 THEN {"hold", "exit"} ELSE {"exit"}
      [] phase = "exit" -> IF held > 0 THEN {"exit"} ELSE {"return"}
      [] phase = "return" -> {"return", "off"}

TripJudges ==
    /\ trip.judge
    /\ \E phase \in After(trip.phase, book) :
        trip' = IF phase = "off" THEN NoTrip ELSE [trip EXCEPT !.phase = phase, !.judge = FALSE]
    /\ UNCHANGED <<switch, position, book, run, op, pending, asked, faults, spent, blind>>

\* A cycle that did not begin, its configuration being incomplete, ends the
\* round trip, whatever is open: the timer's cycles will find it in the book.
TripIncomplete ==
    /\ trip.phase \in Trading /\ ~trip.judge /\ run["trip"].pc = "off"
    /\ trip' = NoTrip
    /\ UNCHANGED <<switch, position, book, run, op, pending, asked, faults, spent, blind>>

\* systemctl stop, the limit of MAX_RUN_H, errors in a row.
TripStopped ==
    /\ trip.phase \in {"enter", "hold"} /\ ~trip.judge /\ run["trip"].pc = "off"
    /\ trip' = [trip EXCEPT !.phase = "exit"]
    /\ UNCHANGED <<switch, position, book, run, op, pending, asked, faults, spent, blind>>

-----------------------------------------------------------------------------
(* The operator's commands.                                                *)

Asked == asked < MaxAsked /\ asked' = asked + 1

\* /live enable, carry_live.py enable: the checks, for a code.
AskEnable(s) ==
    /\ op[s] = NoOp /\ Asked
    /\ \E cap \in Caps : op' = [op EXCEPT ![s] = [NoOp EXCEPT !.pc = "switch", !.cap = cap,
                                                               !.code = asked + 1]]
    /\ UNCHANGED <<switch, position, book, run, trip, pending, faults, spent, blind>>

\* carry_live.py disable asks for no code.
TerminalDisables ==
    /\ op["terminal"] = NoOp /\ Asked
    /\ op' = [op EXCEPT !["terminal"] = [NoOp EXCEPT !.pc = "switch", !.pass = "do",
                                                      !.what = "disable"]]
    /\ UNCHANGED <<switch, position, book, run, trip, pending, faults, spent, blind>>

\* /live disable, and /unwind, /resume, /adopt: a code at once.
BotAsks ==
    /\ op["bot"] = NoOp /\ Asked
    /\ \E what \in {"disable", "other"} :
        pending' = [what |-> what, cap |-> 0, code |-> asked + 1]
    /\ UNCHANGED <<switch, position, book, run, trip, op, faults, spent, blind>>

(* Mutant: a code stays good after it was used.                            *)
PendingReused == pending
(* One use, whatever happens.                                              *)
PendingAfterConfirm == NoRequest

\* /confirm with a code, right or old or of another request, and with the
\* phrase of a cap, or none.
Confirm ==
    /\ op["bot"] = NoOp /\ asked > 0
    /\ \E code \in 1..asked, phrase \in 0..MaxCap :
        /\ pending' = PendingAfterConfirm
        /\ IF /\ pending.code = code /\ pending.cap = phrase
              /\ pending.what \in {"enable", "disable"}
           THEN /\ op' = [op EXCEPT !["bot"] =
                            [NoOp EXCEPT !.pc = "switch", !.pass = "do", !.what = pending.what,
                                         !.cap = pending.cap, !.code = code]]
                /\ spent' = spent \cup {code}
           ELSE UNCHANGED <<op, spent>>
    /\ UNCHANGED <<switch, position, book, run, trip, asked, faults, blind>>

\* /cancel; CONFIRM_TTL_S or LIVE_TTL_S have passed.
Forgotten ==
    /\ op["bot"] = NoOp /\ pending # NoRequest
    /\ pending' = NoRequest
    /\ UNCHANGED <<switch, position, book, run, trip, op, asked, faults, spent, blind>>

\* The bot's request is in memory, and what was queued is discarded.
BotRestarts ==
    /\ op["bot"] # NoOp \/ pending # NoRequest
    /\ op' = [op EXCEPT !["bot"] = NoOp] /\ pending' = NoRequest
    /\ UNCHANGED <<switch, position, book, run, trip, asked, faults, spent, blind>>

-----------------------------------------------------------------------------
(* The checks and the writes.                                              *)

To(s, pc) == op' = [op EXCEPT ![s].pc = pc]

\* enable: no switch, of any kind, and no round trip; disable: a switch.
LookSwitch(s) ==
    /\ op[s].pc = "switch"
    /\ IF op[s].what = "enable" THEN ~switch.exists /\ trip.phase = "off" ELSE switch.exists
    /\ To(s, "book")
    /\ UNCHANGED <<switch, position, book, run, trip, pending, asked, faults, spent, blind>>

\* A book that cannot be read holds nothing: the exchange will tell.
LookBook(s) ==
    /\ op[s].pc = "book" /\ book = 0
    /\ To(s, "exchange")
    /\ UNCHANGED <<switch, position, book, run, trip, pending, asked, faults, spent, blind>>

(* Mutant: FLAT by the book is enough.                                     *)
FlatByBook == TRUE
(* Nothing on the exchange.                                                *)
FlatOnExchange == position = 0

\* The last check: then a code, or the write.
LookExchange(s) ==
    /\ op[s].pc = "exchange" /\ FlatOnExchange
    /\ IF op[s].pass = "do" THEN To(s, "write") /\ UNCHANGED pending
       ELSE IF s = "terminal" THEN To(s, "code") /\ UNCHANGED pending
       ELSE /\ pending' = [what |-> "enable", cap |-> op[s].cap, code |-> op[s].code]
            /\ op' = [op EXCEPT ![s] = NoOp]
    /\ UNCHANGED <<switch, position, book, run, trip, asked, faults, spent, blind>>

\* The code and the phrase, typed in time: the checks again.
Typed ==
    /\ op["terminal"].pc = "code"
    /\ op' = [op EXCEPT !["terminal"].pc = "switch", !["terminal"].pass = "do"]
    /\ UNCHANGED <<switch, position, book, run, trip, pending, asked, faults, spent, blind>>

\* os.replace, unlink.
WriteSwitch(s) ==
    /\ op[s].pc = "write"
    /\ switch' = IF op[s].what = "enable" THEN SignedCap(op[s].cap) ELSE Absent
    /\ op' = [op EXCEPT ![s] = NoOp]
    /\ UNCHANGED <<position, book, run, trip, pending, asked, faults, spent, blind>>

\* A check that fails, a read that does, a wrong or late code, Ctrl-C.
Refused(s) ==
    /\ op[s] # NoOp
    /\ op' = [op EXCEPT ![s] = NoOp]
    /\ UNCHANGED <<switch, position, book, run, trip, pending, asked, faults, spent, blind>>

-----------------------------------------------------------------------------
(* Faults.                                                                 *)

Untold == book < position

\* SIGKILL, a reboot, TimeoutStartSec.
Killed(r) ==
    /\ Fault /\ run[r].pc # "off"
    /\ run' = [run EXCEPT ![r] = NoRun]
    /\ trip' = IF r = "trip" THEN NoTrip ELSE trip
    /\ blind' = (blind \/ Untold)
    /\ UNCHANGED <<switch, position, book, op, pending, asked, spent>>

\* An exception before the save: the cycle ends with CYCLE_CRASH.
Crashed(r) ==
    /\ Fault /\ run[r].pc # "off"
    /\ run' = [run EXCEPT ![r] = NoRun] /\ trip' = Judged(r)
    /\ blind' = (blind \/ Untold)
    /\ UNCHANGED <<switch, position, book, op, pending, asked, spent>>

TripKilled ==
    /\ Fault /\ trip.phase # "off" /\ run["trip"].pc = "off"
    /\ trip' = NoTrip
    /\ UNCHANGED <<switch, position, book, run, op, pending, asked, spent, blind>>

SwitchLost ==
    /\ Fault /\ switch.cap > 0
    /\ switch' \in {Absent, Broken}
    /\ UNCHANGED <<position, book, run, trip, op, pending, asked, spent, blind>>

\* Absent or unreadable, it is an empty book to who loads it.
BookLost ==
    /\ Fault /\ book > 0
    /\ book' = 0 /\ blind' = (blind \/ position > 0)
    /\ UNCHANGED <<switch, position, run, trip, op, pending, asked, spent>>

-----------------------------------------------------------------------------
Cycle == TimerBegins \/ \E r \in Runners : Trade(r) \/ Save(r)
RoundTrip ==
    \/ TripStarts \/ TripLooks \/ TripLocks \/ TripRefused
    \/ TripBegins \/ TripJudges \/ TripIncomplete \/ TripStopped
Operator ==
    \/ TerminalDisables \/ BotAsks \/ Confirm \/ Forgotten \/ BotRestarts \/ Typed
    \/ \E s \in Surfaces :
        \/ AskEnable(s) \/ LookSwitch(s) \/ LookBook(s) \/ LookExchange(s)
        \/ WriteSwitch(s) \/ Refused(s)
World == TripKilled \/ SwitchLost \/ BookLost \/ \E r \in Runners : Killed(r) \/ Crashed(r)

LiveNext == Cycle \/ RoundTrip \/ Operator \/ World

LiveSpec == LiveInit /\ [][LiveNext]_liveVars

-----------------------------------------------------------------------------
(* Properties.                                                             *)

Watched == RunsLive(book) \/ trip.phase \in Trading \/ run["timer"].pc # "off"

(* A position that no cycle will look at - the next ones are paper - is    *)
(* one that the saved book has missed: the process died before the save,   *)
(* the book was lost, or the run itself overlooked an order.  A lost,      *)
(* broken or removed switch alone, at whatever moment, or a round trip     *)
(* that ended between two of its cycles, leaves a position to the forced   *)
(* UNWIND.                                                                 *)
UnwatchedOnlyBlind == position > 0 /\ ~Watched => blind

(* A cycle of the timer opens a position only if a valid switch was there  *)
(* when it began, and within the cap signed in that switch; the round trip *)
(* within its own limit.                                                   *)
OpenedUnderSwitch == [][position' > position =>
    \E r \in Runners : /\ run[r].pc = "begun" /\ run'[r].pc = "traded"
                       /\ position' <= IF r = "trip" THEN TripSize ELSE run[r].under]_liveVars

(* The operator's write or removal of the switch finds the carry FLAT,     *)
(* except for a position opened after the operation's last look at the     *)
(* exchange.                                                               *)
SwitchedAtFlat == [][\A s \in Surfaces :
    op[s].pc = "write" /\ op'[s] = NoOp /\ switch' # switch => position = 0 \/ op[s].moved]_liveVars

(* A code begins one operation at most: a confirmation that arrives twice  *)
(* cannot make the carry live again after it was taken back.               *)
CodeOnce == [][\A code \in spent' : op["bot"] = NoOp /\ op'["bot"].pass = "do" /\ op'["bot"].code = code
                    => code \notin spent]_liveVars

(* When a round trip calls the carry FLAT, it is, except for what the      *)
(* saved book has missed: it only looks at the book.                       *)
TripLeavesFlat == [][trip'.phase = "return" /\ trip.phase # "return" => position = 0 \/ blind]_liveVars

(* What is called FLAT before a hand-over, of the switch or by the round   *)
(* trip, is flat on the exchange, but for the exceptions above.            *)
HandsOverFlat == SwitchedAtFlat /\ TripLeavesFlat
=============================================================================
