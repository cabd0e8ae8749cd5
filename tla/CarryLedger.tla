------------------------------ MODULE CarryLedger ------------------------------
(***************************************************************************)
(* The books a carry cycle keeps of one symbol: which funding the ledger   *)
(* says was received and expected, which round trips it reports, and the   *)
(* check of one against the other (run_carry_cycle._cycle, ledger.py,      *)
(* risk.py).  A cycle reads the stamp of the last one, books what has been *)
(* settled since, trades, appends its rows to the ledger, and saves its    *)
(* book, the paper account in DRY_RUN, and the new stamp, in files of      *)
(* their own: it can be killed between any two, or while it appends.       *)
(* Time is counted in settlements of the funding, which pay a short or,    *)
(* at a negative rate, charge it.  The short is of one unit.               *)
(***************************************************************************)
EXTENDS Integers, Sequences, Sums

CONSTANTS
    Modes,          \* "live", "paper": the account the cycles trade on
    Rates,          \* the funding rates
    Marks,          \* the mark prices
    Day,            \* a day, in settlements
    Window,         \* UNDERPERFORMANCE_DAYS, in settlements
    Ratio,          \* UNDERPERFORMANCE_RATIO, in hundredths
    MaxSettled,     \* bound: settlements
    MaxOpened,      \* bound: positions
    MaxFaults       \* bound: kills, unreadable answers, lost stamps, unknown orders

\* Between a settlement and the cycle that books it the mark does not fall
\* to Ratio of what it was.
ASSUME LedgerAssumption ==
    /\ Modes \subseteq {"live", "paper"}
    /\ Rates \subseteq Int /\ Marks \subseteq Nat \ {0}
    /\ Day \in Nat \ {0} /\ Window \in Nat \ {0} /\ Ratio \in 1..100
    /\ \A m, n \in Marks : Ratio * m <= 100 * n
    /\ MaxSettled \in Nat /\ MaxOpened \in Nat /\ MaxFaults \in Nat

VARIABLES
    mode,           \* of all the cycles
    now,            \* the settlements so far
    short,          \* the position whose short is open on the exchange or paper, or 0
    opened,         \* the positions so far
    paid,           \* settlements that found a short
    rate,           \* of each settlement: its funding rate,
    mark,           \* and, if the exchange paid it, the mark price at it
    saved,          \* carry_paper.json: the short and last_ms
    book,           \* carry_book.json or carry_paper_book.json: the status
    stamp,          \* carry_cycle.json: last_ms
    funding,        \* the ledger: rows of each settlement,
    expected,
    received,       \* and the sum of their amounts
    due,
    orders,         \* the ledger: the rows of filled orders
    trips,          \* the ledger: round_trip rows
    cyc,            \* the cycle at work
    faults,
    missed,         \* history: paid, and not there when it was read
    again,          \* history: in the rows of a cycle killed before its stamp
    apart,          \* history: settlements that found another position than the
                    \* book shows to the cycle that books them
    unexpected,     \* history: booked by a cycle that read no market or no stamp
    drifted,        \* history: expected at another mark than they were paid at
    broken          \* history: positions with an order that the rows do not tell

prices == <<rate, mark>>
sums == <<received, due>>
signs == <<unexpected, drifted>>
venue == <<now, short, opened, paid, prices>>
files == <<saved, book, stamp, funding, expected, sums, orders, trips>>
history == <<missed, again, apart, signs, broken>>
vars == <<mode, venue, files, cyc, faults, history>>

None == -1
Settlements == 1..MaxSettled
Positions == 1..MaxOpened
Leg == [row : {"enter", "cover", "sell"}, of : Positions]
Trip == [of : Positions, legs : Seq(Leg)]
Statuses == {"FLAT", "OPEN"}
Cycle == [pc : {"off", "trade", "write", "book", "paper", "stamp"},
          at : 0..MaxSettled, mark : Marks \cup {0}, last : None..MaxSettled,
          from : Statuses, book : Statuses,
          funding : SUBSET Settlements, expected : SUBSET Settlements, orders : Seq(Leg)]
Idle == [pc |-> "off", at |-> 0, mark |-> 0, last |-> None, from |-> "FLAT", book |-> "FLAT",
         funding |-> {}, expected |-> {}, orders |-> <<>>]

Live == mode = "live"

(* Rows, records and stamps have the types the code gives them, and what   *)
(* is stamped has been settled.                                            *)
RecordsOK ==
    /\ mode \in Modes /\ now \in 0..MaxSettled
    /\ short \in 0..opened /\ opened \in 0..MaxOpened
    /\ paid \subseteq 1..now
    /\ saved \in [short : 0..opened, last : None..now] /\ stamp \in None..now
    /\ book \in Statuses
    /\ funding \in [Settlements -> Nat] /\ expected \in [Settlements -> Nat]
    /\ orders \in Seq(Leg) /\ trips \in Seq(Trip)
    /\ cyc \in Cycle /\ cyc.at <= now /\ cyc.last <= cyc.at
    /\ cyc.funding \cup cyc.expected \subseteq 1..cyc.at
    /\ faults \in 0..MaxFaults
    /\ missed \cup again \cup apart \subseteq 1..now /\ broken \subseteq Positions

AmountsOK ==
    /\ rate \in [Settlements -> Rates \cup {0}] /\ mark \in [Settlements -> Marks \cup {0}]
    /\ Live => \A t \in paid : mark[t] \in Marks
    /\ received \in [Settlements -> Int] /\ due \in [Settlements -> Int]
    /\ cyc.pc # "off" => cyc.mark \in Marks
    /\ unexpected \cup drifted \subseteq 1..now

LedgerTypeOK == RecordsOK /\ AmountsOK

Init ==
    /\ mode \in Modes /\ now = 0 /\ short = 0 /\ opened = 0
    /\ paid = {} /\ rate = [t \in Settlements |-> 0] /\ mark = rate
    /\ saved = [short |-> 0, last |-> None] /\ book = "FLAT" /\ stamp = None
    /\ funding = [t \in Settlements |-> 0] /\ expected = funding
    /\ received = funding /\ due = funding
    /\ orders = <<>> /\ trips = <<>> /\ cyc = Idle /\ faults = 0
    /\ missed = {} /\ again = {} /\ apart = {} /\ unexpected = {} /\ drifted = {} /\ broken = {}

Fault == faults < MaxFaults /\ faults' = faults + 1

-----------------------------------------------------------------------------
(* The exchange.                                                           *)

\* A settlement pays the short of the account.  Once a cycle has traded, it
\* finds what it would find after the cycle.
Settles ==
    /\ now < MaxSettled /\ now' = now + 1 /\ cyc.pc \in {"off", "trade"}
    /\ paid' = IF short # 0 THEN paid \cup {now'} ELSE paid
    /\ \E r \in Rates : rate' = [rate EXCEPT ![now'] = r]
    /\ IF Live /\ short # 0 THEN \E m \in Marks : mark' = [mark EXCEPT ![now'] = m]
                            ELSE UNCHANGED mark
    /\ apart' = IF cyc.pc # "off" \/ (book = "OPEN") # (short # 0)
                THEN apart \cup {now'} ELSE apart
    /\ UNCHANGED <<mode, short, opened, files, cyc, missed, again, signs, broken, faults>>

\* Liquidated, deleveraged, or closed by the operator.
ShortGoes ==
    /\ Live /\ Fault /\ short # 0 /\ cyc.pc = "off"
    /\ broken' = broken \cup {short} /\ short' = 0
    /\ UNCHANGED <<mode, now, opened, paid, prices, files, cyc, missed, again, apart, signs>>

\* carry_cycle.json is unreadable: no last cycle is known.
StampLost ==
    /\ Fault /\ stamp # None /\ cyc.pc = "off"
    /\ stamp' = None
    /\ UNCHANGED <<mode, venue, saved, book, funding, expected, sums, orders, trips, cyc, history>>

-----------------------------------------------------------------------------
(* One cycle.                                                              *)

SinceOverlapping(last, ts) ==               \* mutant: last <= t
    IF last = None THEN {} ELSE {t \in ts : last <= t}
Since(last, ts) == IF last = None THEN {} ELSE {t \in ts : last < t}

\* realized_funding_live reads the transaction log; paper.accrue takes every
\* settlement that finds a paper short.
BookedUntil == IF Live THEN stamp ELSE saved.last
Realized == IF Live THEN Since(BookedUntil, paid)
            ELSE IF short # 0 THEN Since(BookedUntil, 1..now) ELSE {}
Unbooked == IF BookedUntil = None THEN {t \in paid : funding[t] = 0}
            ELSE Since(BookedUntil, paid)

\* risk.expected_funding: the book's short, at each settlement of the market.
ExpectedFunding == IF book = "OPEN" THEN Since(stamp, 1..now) ELSE {}

\* The market may not be readable, nor some or all of the log: the cycle goes
\* on without.
Start ==
    /\ cyc.pc = "off"
    /\ \E got \in SUBSET Realized, exp \in {{}, ExpectedFunding}, m \in Marks :
          /\ IF got = Realized /\ exp = ExpectedFunding THEN UNCHANGED faults ELSE Fault
          /\ Live \/ (got = {} /\ exp = {}) \/ (got = Realized /\ exp = ExpectedFunding)
          /\ cyc' = [pc |-> "trade", at |-> now, mark |-> m, last |-> stamp,
                     from |-> book, book |-> book, funding |-> got, expected |-> exp, orders |-> <<>>]
          /\ missed' = missed \cup (Unbooked \ got)
          /\ unexpected' = IF stamp = None \/ exp # ExpectedFunding
                           THEN unexpected \cup got ELSE unexpected
          /\ drifted' = IF Live THEN drifted \cup {t \in exp \cap paid : mark[t] # m} ELSE drifted
    /\ UNCHANGED <<mode, venue, files, again, apart, broken>>

\* What execute_plan leaves of the orders of the cycle: their rows, the short
\* and the status of the book.
Traded(rows, n, status) ==
    /\ cyc' = [cyc EXCEPT !.pc = "write", !.orders = rows, !.book = status]
    /\ short' = n
    /\ UNCHANGED <<mode, now, paid, prices, files, missed, again, apart, signs>>

RowOf(row, n) == [row |-> row, of |-> n]

Nothing ==
    /\ cyc.pc = "trade"
    /\ Traded(<<>>, short, cyc.book)
    /\ UNCHANGED <<opened, faults, broken>>

CanEnter == cyc.pc = "trade" /\ cyc.book = "FLAT" /\ short = 0 /\ opened < MaxOpened

Enter ==
    /\ CanEnter /\ opened' = opened + 1
    /\ Traded(<<RowOf("enter", opened')>>, opened', "OPEN")
    /\ UNCHANGED <<faults, broken>>

\* The row of an order of unknown fate has no fill; a close with reduceOnly
\* covers both cases, and may itself stay unfilled.
EnterUnknown ==
    /\ Live /\ Fault /\ CanEnter /\ opened' = opened + 1
    /\ broken' = broken \cup {opened'}
    /\ \/ Traded(<<RowOf("cover", opened')>>, 0, "FLAT")
       \/ Traded(<<>>, 0, "FLAT")
       \/ \E n \in {0, opened'} : Traded(<<>>, n, "OPEN")

\* A short that a cycle killed too early left out of the book.
Adopt ==
    /\ cyc.pc = "trade" /\ cyc.book = "FLAT" /\ short # 0
    /\ Traded(<<>>, short, "OPEN")
    /\ UNCHANGED <<opened, faults, broken>>

\* Both legs; or, with no short left, the coins alone if there are any.
Exit ==
    /\ cyc.pc = "trade" /\ cyc.book = "OPEN"
    /\ LET sell == RowOf("sell", opened)
       IN \/ short # 0 /\ Traded(<<sell, RowOf("cover", short)>>, 0, "FLAT")
          \/ short = 0 /\ (Traded(<<sell>>, 0, "FLAT") \/ Traded(<<>>, 0, "FLAT"))
    /\ UNCHANGED <<opened, faults, broken>>

\* The coins are sold and the close fills in part or is not seen to end.
ExitIncomplete ==
    /\ Fault /\ cyc.pc = "trade" /\ cyc.book = "OPEN" /\ short # 0
    /\ \/ Traded(<<RowOf("sell", short), RowOf("cover", short)>>, short, "OPEN")
          /\ UNCHANGED broken
       \/ /\ Live /\ broken' = broken \cup {short}
          /\ \E n \in {0, short} : Traded(<<RowOf("sell", short)>>, n, "OPEN")
    /\ UNCHANGED opened

-----------------------------------------------------------------------------
(* The rows of the cycle, and what is made of them.                        *)

\* The amount of a row: the log has what the settlement paid; on paper, and
\* for what is expected, it is reckoned at the mark the cycle reads.
Amounts(marks) == [t \in Settlements |-> marks[t] * rate[t]]
CycleMark == [t \in Settlements |-> cyc.mark]
Paid == Amounts(IF Live THEN mark ELSE CycleMark)
Due == Amounts(CycleMark)

\* ledger.round_trip: the orders since the last entry.
FirstEnter(rows) == {i \in DOMAIN rows : rows[i].row = "enter"     \* mutant: starts[0]
                        /\ \A j \in 1 .. i - 1 : rows[j].row # "enter"}
LastEnter(rows) == {i \in DOMAIN rows : rows[i].row = "enter"
                       /\ \A j \in i + 1 .. Len(rows) : rows[j].row # "enter"}

RoundTrip ==
    LET rows == orders \o cyc.orders
    IN IF cyc.from = "OPEN" /\ cyc.book = "FLAT"
       THEN {[of |-> opened, legs |-> SubSeq(rows, e, Len(rows))] : e \in LastEnter(rows)}
       ELSE {}

Adds(count, ts) == [t \in Settlements |-> IF t \in ts THEN count[t] + 1 ELSE count[t]]
AddsUp(sum, ts, amount) ==
    [t \in Settlements |-> IF t \in ts THEN sum[t] + amount[t] ELSE sum[t]]

\* risk.underperformance: judged once an expected row of the LEDGER_LOOKBACK
\* (the window and a day) is within a day of the start of the window, or
\* older; over the amounts in the window, which begins between two
\* settlements as the cycle does.
AmountAfter(sum, start) ==
    Sum([t \in Settlements |-> IF t > start THEN sum[t] ELSE 0], MaxSettled)
Underperformance(exp, real, owed) ==
    LET start == cyc.at - Window
    IN /\ \E t \in Settlements \cap start - Day + 1 .. start + Day : exp[t] > 0
       /\ AmountAfter(owed, start) > 0
       /\ 100 * AmountAfter(real, start) < Ratio * AmountAfter(owed, start)

\* ledger.write appends the rows one by one; UNDERPERFORMANCE over them and
\* those before writes the hold.
Write(under) ==
    /\ cyc.pc = "write"
    /\ funding' = Adds(funding, cyc.funding)
    /\ expected' = Adds(expected, cyc.expected)
    /\ received' = AddsUp(received, cyc.funding, Paid)
    /\ due' = AddsUp(due, cyc.expected, Due)
    /\ orders' = orders \o cyc.orders
    /\ IF RoundTrip = {} THEN UNCHANGED trips ELSE \E trip \in RoundTrip : trips' = Append(trips, trip)
    /\ under = Underperformance(expected', received', due')
    /\ cyc' = [cyc EXCEPT !.pc = "book"]
    /\ UNCHANGED <<mode, venue, saved, book, stamp, faults, history>>

SaveBook ==
    /\ cyc.pc = "book"
    /\ book' = cyc.book
    /\ cyc' = [cyc EXCEPT !.pc = IF Live THEN "stamp" ELSE "paper"]
    /\ UNCHANGED <<mode, venue, saved, stamp, funding, expected, sums, orders, trips, faults, history>>

SavePaper ==
    /\ cyc.pc = "paper"
    /\ saved' = [short |-> short, last |-> cyc.at]
    /\ cyc' = [cyc EXCEPT !.pc = "stamp"]
    /\ UNCHANGED <<mode, venue, book, stamp, funding, expected, sums, orders, trips, faults, history>>

SaveStampNow ==                             \* mutant: the time it ends, not began
    /\ cyc.pc = "stamp"
    /\ stamp' = now /\ cyc' = Idle
    /\ UNCHANGED <<mode, venue, saved, book, funding, expected, sums, orders, trips, faults, history>>
SaveStampNext ==                            \* mutant: the next settlement's time
    /\ cyc.pc = "stamp"
    /\ stamp' = cyc.at + 1 /\ cyc' = Idle
    /\ UNCHANGED <<mode, venue, saved, book, funding, expected, sums, orders, trips, faults, history>>
SaveStamp ==
    /\ cyc.pc = "stamp"
    /\ stamp' = cyc.at /\ cyc' = Idle
    /\ UNCHANGED <<mode, venue, saved, book, funding, expected, sums, orders, trips, faults, history>>

\* Killed, or an exception: what is on the files stays, what was traded on
\* paper did not happen.
Crash ==
    /\ Fault /\ cyc.pc # "off"
    /\ cyc' = Idle
    /\ short' = IF Live THEN short ELSE saved.short
    /\ again' = IF cyc.pc \in {"write", "book", "paper", "stamp"}
                THEN again \cup cyc.funding \cup cyc.expected ELSE again
    /\ broken' = IF cyc.orders # <<>> /\ cyc.pc # "stamp" THEN broken \cup {opened} ELSE broken
    /\ \/ UNCHANGED <<funding, expected, sums, orders>>
       \/ /\ cyc.pc = "write"                   \* after some of the rows
          /\ \E t, u \in Settlements, n \in 0 .. Len(cyc.orders) :
                /\ u > 1 => cyc.funding \subseteq 1..t
                /\ n > 0 => cyc.expected \subseteq 1 .. u - 1
                /\ funding' = Adds(funding, cyc.funding \cap 1..t)
                /\ expected' = Adds(expected, cyc.expected \cap 1 .. u - 1)
                /\ received' = AddsUp(received, cyc.funding \cap 1..t, Paid)
                /\ due' = AddsUp(due, cyc.expected \cap 1 .. u - 1, Due)
                /\ orders' = orders \o SubSeq(cyc.orders, 1, n)
    /\ apart' = IF cyc.pc \in {"paper", "stamp"} /\ cyc.from = "FLAT" /\ cyc.book = "OPEN"
                THEN apart \cup Since(cyc.last, 1..now) ELSE apart
    /\ UNCHANGED <<mode, now, opened, paid, prices, saved, book, stamp, trips, missed, signs>>

Next ==
    \/ Settles \/ ShortGoes \/ StampLost \/ Crash
    \/ Start
    \/ Nothing \/ Enter \/ EnterUnknown \/ Adopt \/ Exit \/ ExitIncomplete
    \/ SaveBook \/ SavePaper \/ SaveStamp
    \/ \E under \in BOOLEAN : Write(under)

Spec == Init /\ [][Next]_vars

-----------------------------------------------------------------------------
(* Properties.                                                             *)

(* The ledger says once what was settled: a settlement is booked twice     *)
(* only if a cycle was killed between its first row and its stamp, and     *)
(* a funding that was paid is not lost by any crash, once a later cycle    *)
(* has its stamp; what could not be read at the time is lost.  No funding  *)
(* is made up: only the paper account credits a settlement that fell       *)
(* while a cycle was at work to the position after that cycle.             *)
FundingIsBookedOnce ==
    \A t \in Settlements :
        /\ funding[t] > 1 \/ expected[t] > 1 => t \in again
        /\ t \in paid \ missed /\ t <= stamp => funding[t] > 0
        /\ funding[t] > 0 => t \in paid \/ (~Live /\ t \in apart)

(* UNDERPERFORMANCE stops the entries until the operator acts.  While the  *)
(* settlements of its window pay (no rate is negative), it is not raised   *)
(* by rows written twice or in part, by a lost stamp, by an unread market  *)
(* or by a mark that has moved: one of these settlements was paid and not  *)
(* readable, or found another position than the book has (none yet, if the *)
(* cycle that entered was killed between its book and its stamp); or, on   *)
(* paper, was in the rows of a cycle killed there, which are expected      *)
(* twice and paid once.  Once a settlement of the window has charged, what *)
(* was expected may be as small as any error of it: then it is also enough *)
(* that one was in the rows of any killed cycle, was booked by a cycle     *)
(* that read no market or no stamp, or was expected at another mark.       *)
InWindow == {t \in 1..cyc.at : t > cyc.at - Window}
Unpaid == missed \cup apart \cup (IF Live THEN {} ELSE again)
Uneven == again \cup unexpected \cup drifted
AlarmHasCause ==
    [][Write(TRUE) =>
        \/ InWindow \cap Unpaid # {}
        \/ InWindow \cap Uneven # {} /\ \E t \in InWindow : rate[t] < 0]_vars

Whole(trip) ==
    LET legs == {trip.legs[j] : j \in DOMAIN trip.legs}
    IN /\ {l.of : l \in legs} = {trip.of}
       /\ {l.row : l \in legs} = {"enter", "cover", "sell"}

(* A round trip is reported of one position, the one just closed, with its *)
(* entry and both exits, and of each once; unless an order of unknown fate *)
(* or a short that went without an order of ours kept a leg from the rows, *)
(* or a cycle was killed between its orders and the last save of its book  *)
(* (on paper, of its account).                                             *)
TripIsWhole ==
    \A i \in DOMAIN trips : trips[i].of \notin broken =>
        Whole(trips[i]) /\ \A j \in 1 .. i - 1 : trips[j].of # trips[i].of
=============================================================================
