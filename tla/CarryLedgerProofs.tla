--------------------------- MODULE CarryLedgerProofs ---------------------------
(***************************************************************************)
(* Proofs about CarryLedger, for any number of settlements, positions and  *)
(* faults: the types, what the ledger says of the funding, and the cause   *)
(* of an UNDERPERFORMANCE.                                                 *)
(***************************************************************************)
EXTENDS CarryLedger, SumsProofs, SequenceTheorems

(* The files of the cycle at work: what it has read of them stays so until *)
(* it writes them.                                                         *)
Files ==
    /\ cyc.pc # "off" => cyc.last = stamp /\ stamp <= cyc.at /\ saved.last <= cyc.at
    /\ cyc.pc \in {"trade", "write", "book"} => cyc.from = book
    /\ cyc.pc = "trade" => cyc.book = book
    /\ cyc.pc \in {"paper", "stamp"} => cyc.book = book
    /\ cyc.pc = "paper" => ~Live
    /\ ~Live => /\ stamp <= saved.last
                /\ cyc.pc \in {"off", "trade", "stamp"} => short = saved.short
                /\ cyc.pc = "stamp" => saved.last = cyc.at

(* Who the settlements found: the paper account what is saved of it, the   *)
(* exchange what the book has; those of the time the cycle trades aside.   *)
Found ==
    /\ cyc.pc # "off" => cyc.at + 1 .. now \subseteq apart
    /\ ~Live => \A t \in Since(saved.last, 1..now) \ apart : t \in paid <=> saved.short # 0
    /\ book = "OPEN" /\ (cyc.pc \in {"paper", "stamp"} => cyc.from = "OPEN") =>
          Since(stamp, 1..now) \ apart \subseteq paid

(* What the cycle will write was settled after what is booked.             *)
Fresh ==
    /\ cyc.pc \in {"trade", "write"} =>
          /\ cyc.funding \subseteq Since(BookedUntil, 1..cyc.at)
          /\ cyc.expected \subseteq Since(stamp, 1..cyc.at)
          /\ \A t \in cyc.funding : t \in paid \/ (~Live /\ t \in apart)
          /\ \A t \in cyc.expected \ (missed \cup apart) :
                t \in cyc.funding \/ (~Live /\ funding[t] > 0)
    /\ \A t \in Settlements : funding[t] > 0 \/ expected[t] > 0 =>
          t <= now /\ (cyc.pc # "off" => t <= cyc.at)

Written == cyc.pc \in {"book", "paper", "stamp"}

(* Nothing is in the rows twice, or is in them and can be read again.      *)
Once ==
    \A t \in Settlements \ again :
        /\ funding[t] > 0 => funding[t] = 1 /\ (BookedUntil # None => t <= BookedUntil
                                                     \/ (Written /\ t \in cyc.funding))
        /\ expected[t] > 0 => expected[t] = 1 /\ (stamp # None => t <= stamp
                                                     \/ (Written /\ t \in cyc.expected))

(* What was paid and read is in the rows, or the cycle has yet to write it *)
Kept ==
    /\ \A t \in paid \ missed : t <= BookedUntil => funding[t] > 0
    /\ cyc.pc # "off" => \A t \in paid \ missed : t <= cyc.at =>
          funding[t] > 0 \/ (cyc.pc \in {"trade", "write"} /\ t \in cyc.funding)
    /\ \A t \in Settlements : funding[t] > 0 => t \in paid \/ (~Live /\ t \in apart)

(* What the files do not yet say was paid while the book was FLAT is one of *)
(* the exceptions, and no rows but those of the cycle are after the stamp. *)
Flat ==
    book = "FLAT" /\ (cyc.pc \in {"paper", "stamp"} => cyc.from = "FLAT") =>
        Since(BookedUntil, paid) \subseteq missed \cup apart \cup again
Stamped ==
    \A t \in Settlements \ again : funding[t] > 0 /\ stamp # None =>
        t <= stamp \/ (Written /\ t \in cyc.funding)

(* What the cycle will write is paid and expected alike, but of the causes. *)
Told ==
    cyc.pc \in {"trade", "write"} =>
        /\ cyc.funding \ cyc.expected \subseteq Unpaid \cup Uneven
        /\ Live => \A t \in (cyc.expected \cap paid) \ drifted : mark[t] = cyc.mark

(* The amounts of a settlement: without a cause the same; and no less than *)
(* the ratio if it pays, whatever the mark.                                *)
Ahead(t) == t > now \/ (cyc.pc # "off" /\ t > cyc.at)
Balanced ==
    \A t \in Settlements :
        /\ Ahead(t) => received[t] = 0 /\ due[t] = 0
        /\ t \notin Unpaid /\ rate[t] >= 0 => Ratio * due[t] <= 100 * received[t]
        /\ t \notin Unpaid \cup Uneven => received[t] = due[t]

(* A book is opened, and orders are made, with a position.                 *)
Opens == "OPEN" \in {book, cyc.book, cyc.from} \/ cyc.orders # <<>> => opened > 0

IInv == RecordsOK /\ Files /\ Opens /\ Found /\ Fresh /\ Once /\ Kept
AInv == AmountsOK /\ Flat /\ Stamped /\ Told /\ Balanced

-----------------------------------------------------------------------------
(* The types.                                                              *)

LEMMA Constants ==
  /\ Modes \subseteq {"live", "paper"} /\ Window \in Nat \ {0}
  /\ MaxSettled \in Nat /\ MaxOpened \in Nat /\ MaxFaults \in Nat
BY LedgerAssumption

USE Constants DEF None, Settlements

LEMMA InitIInv == Init => IInv
<1> SUFFICES ASSUME Init PROVE IInv
    OBVIOUS
<1> USE DEF Init
<1>1. cyc \in Cycle /\ cyc.pc = "off" /\ cyc.at = 0 /\ cyc.funding = {} /\ cyc.expected = {}
      /\ cyc.last = None /\ cyc.from = "FLAT" /\ cyc.book = "FLAT" /\ cyc.orders = <<>>
    BY DEF Idle, Cycle, Statuses
<1>2. RecordsOK
    BY <1>1 DEF RecordsOK, Statuses
<1>3. Files /\ Opens
    BY <1>1 DEF Files, Opens, Live
<1>4. Found /\ Fresh
    BY <1>1 DEF Found, Fresh, Since, Live
<1>5. Once /\ Kept
    BY <1>1 DEF Once, Kept
<1>. QED
    BY <1>2, <1>3, <1>4, <1>5 DEF IInv

LEMMA AddsType ==
  ASSUME NEW count \in [Settlements -> Nat], NEW ts
  PROVE  Adds(count, ts) \in [Settlements -> Nat]
BY DEF Adds

LEMMA SettlesType ==
  ASSUME RecordsOK, Settles
  PROVE  RecordsOK'
<1>1. now \in 0..MaxSettled /\ now' \in 0..MaxSettled /\ now' = now + 1
    BY DEF RecordsOK, Settles
<1>2. paid' \subseteq 1..now'
  <2>1. paid \cup {now'} \subseteq 1..now'
      BY <1>1 DEF RecordsOK
  <2>2. paid' \subseteq paid \cup {now'}
      BY DEF Settles
  <2>. QED
      BY <2>1, <2>2
<1>2a. missed' \cup again' \cup apart' \subseteq 1..now'
  <2>1. missed \cup again \cup apart \cup {now'} \subseteq 1..now'
      BY <1>1 DEF RecordsOK
  <2>. QED
      BY <2>1 DEF Settles
<1>3. saved' \in [short : 0..opened', last : None..now'] /\ stamp' \in None..now'
    BY <1>1 DEF RecordsOK, Settles, files
<1>4. cyc' \in Cycle /\ cyc'.at <= now' /\ cyc'.last <= cyc'.at
      /\ cyc'.funding \cup cyc'.expected \subseteq 1..cyc'.at
  <2>1. cyc.at \in Int
      BY DEF RecordsOK, Cycle
  <2>2. cyc \in Cycle /\ cyc.at <= now /\ cyc.last <= cyc.at
        /\ cyc.funding \cup cyc.expected \subseteq 1..cyc.at
      BY DEF RecordsOK
  <2>3. cyc' = cyc
      BY DEF Settles
  <2>4. cyc.at <= now'
      BY <1>1, <2>1, <2>2
  <2>. QED
      BY <2>2, <2>3, <2>4
<1>. QED
    BY <1>1, <1>2, <1>2a, <1>3, <1>4 DEF RecordsOK, Settles, files

LEMMA FaultType == RecordsOK /\ Fault => faults' \in 0..MaxFaults
BY DEF RecordsOK, Fault

LEMMA ShortGoesType ==
  ASSUME RecordsOK, ShortGoes
  PROVE  RecordsOK'
<1>1. faults' \in 0..MaxFaults
    BY FaultType DEF ShortGoes
<1>1a. short' \in 0..opened'
    BY DEF RecordsOK, ShortGoes
<1>2. broken' \subseteq Positions
    BY DEF RecordsOK, ShortGoes, Positions
<1>. QED
    BY <1>1, <1>1a, <1>2 DEF RecordsOK, ShortGoes, files

LEMMA StampLostType ==
  ASSUME RecordsOK, StampLost
  PROVE  RecordsOK'
<1>1. faults' \in 0..MaxFaults
    BY FaultType DEF StampLost
<1>2. stamp' \in None..now'
    BY DEF RecordsOK, StampLost, venue
<1>. QED
    BY <1>1, <1>2 DEF RecordsOK, StampLost, venue, history

LEMMA StartType ==
  ASSUME RecordsOK, Start
  PROVE  RecordsOK'
<1>1. faults' \in 0..MaxFaults
    BY FaultType DEF RecordsOK, Start
<1>2. PICK got \in SUBSET Realized, exp \in {{}, ExpectedFunding}, m \in Marks :
         /\ cyc' = [pc |-> "trade", at |-> now, mark |-> m, last |-> stamp, from |-> book, book |-> book,
                    funding |-> got, expected |-> exp, orders |-> <<>>]
         /\ missed' = missed \cup (Unbooked \ got)
    BY DEF Start
<1>3. got \subseteq 1..now /\ exp \subseteq 1..now /\ Unbooked \subseteq 1..now
    BY DEF RecordsOK, Realized, ExpectedFunding, Unbooked, Since
<1>4. cyc' \in Cycle /\ cyc'.at <= now' /\ cyc'.last <= cyc'.at
      /\ cyc'.funding \cup cyc'.expected \subseteq 1..cyc'.at
  <2>1. /\ now \in 0..MaxSettled /\ stamp \in None..now /\ book \in Statuses /\ now' = now
        /\ <<>> \in Seq(Leg)
      BY DEF RecordsOK, Start, venue
  <2>2. got \subseteq Settlements /\ exp \subseteq Settlements /\ stamp \in None..MaxSettled
      BY <1>3, <2>1
  <2>3. cyc' \in Cycle
      BY <1>2, <2>1, <2>2 DEF Cycle
  <2>. QED
      BY <1>2, <1>3, <2>1, <2>3
<1>5. missed' \cup again' \cup apart' \subseteq 1..now'
    BY <1>2, <1>3 DEF RecordsOK, Start, venue
<1>. QED
    BY <1>1, <1>4, <1>5 DEF RecordsOK, Start, venue, files

LEMMA RowsType ==
  ASSUME NEW row \in {"enter", "cover", "sell"}, NEW n \in Positions
  PROVE  RowOf(row, n) \in Leg
BY DEF RowOf, Leg

\* Of the cycle that trades.
LEMMA TradedCycle ==
  ASSUME RecordsOK, NEW rows \in Seq(Leg), NEW n, NEW status \in Statuses,
         Traded(rows, n, status)
  PROVE  /\ cyc' \in Cycle
         /\ cyc'.pc = "write" /\ cyc'.at = cyc.at /\ cyc'.last = cyc.last /\ cyc'.from = cyc.from
         /\ cyc'.funding = cyc.funding /\ cyc'.expected = cyc.expected
         /\ cyc'.orders = rows /\ cyc'.book = status
BY DEF RecordsOK, Traded, Cycle

\* What the orders of a cycle are told as, and of which position.
Trades(rows, n, status) ==
    /\ cyc.pc = "trade" /\ Traded(rows, n, status)
    /\ rows \in Seq(Leg) /\ n \in 0..opened' /\ status \in Statuses
    /\ status = "OPEN" \/ rows # <<>> => opened' > 0
    /\ opened' \in opened..MaxOpened /\ broken' \subseteq Positions /\ faults' \in 0..MaxFaults

LEMMA TradesType ==
  ASSUME RecordsOK, NEW rows, NEW n, NEW status, Trades(rows, n, status)
  PROVE  RecordsOK'
<1>1. /\ cyc' \in Cycle
      /\ cyc'.at = cyc.at /\ cyc'.last = cyc.last
      /\ cyc'.funding = cyc.funding /\ cyc'.expected = cyc.expected
    BY TradedCycle DEF Trades
<1>2. short' \in 0..opened' /\ opened' \in 0..MaxOpened
    BY DEF RecordsOK, Trades, Traded
<1>3. saved' \in [short : 0..opened', last : None..now']
  <2>1. saved' = saved /\ now' = now /\ opened' \in opened..MaxOpened
      BY DEF Trades, Traded, files
  <2>2. saved \in [short : 0..opened, last : None..now] /\ opened \in 0..MaxOpened
      BY DEF RecordsOK
  <2>3. 0..opened \subseteq 0..opened'
      BY <2>1, <2>2
  <2>. QED
      BY <2>1, <2>2, <2>3
<1>. QED
    BY <1>1, <1>2, <1>3 DEF RecordsOK, Trades, Traded, files

EachTrade == Nothing \/ Enter \/ EnterUnknown \/ Adopt \/ Exit \/ ExitIncomplete

LEMMA EachTradeTrades ==
  ASSUME RecordsOK, Opens, EachTrade
  PROVE  \E rows, n, status : Trades(rows, n, status)
<1> USE DEF Trades, Statuses
<1>1. /\ short \in 0..opened /\ opened \in 0..MaxOpened /\ faults \in 0..MaxFaults
      /\ cyc.book \in Statuses /\ broken \subseteq Positions /\ <<>> \in Seq(Leg)
    BY DEF RecordsOK, Cycle
<1>2. CASE Nothing
  <2>1. cyc.book = "OPEN" => opened > 0
      BY DEF Opens
  <2>2. Trades(<<>>, short, cyc.book)
      BY <1>1, <1>2, <2>1 DEF Nothing
  <2>. QED
      BY <2>2
<1>3. CASE Enter
  <2>1. opened' \in Positions /\ opened' = opened + 1
      BY <1>1, <1>3 DEF Enter, CanEnter, Positions
  <2>2. <<RowOf("enter", opened')>> \in Seq(Leg)
      BY <2>1, RowsType
  <2>3. Trades(<<RowOf("enter", opened')>>, opened', "OPEN")
      BY <1>1, <1>3, <2>1, <2>2 DEF Enter, CanEnter, Positions
  <2>. QED
      BY <2>3
<1>4. CASE EnterUnknown
  <2>1. opened' \in Positions /\ opened' = opened + 1
      BY <1>1, <1>4 DEF EnterUnknown, CanEnter, Positions
  <2>2. <<RowOf("cover", opened')>> \in Seq(Leg)
      BY <2>1, RowsType
  <2>3. faults' \in 0..MaxFaults
      BY <1>4, FaultType DEF EnterUnknown
  <2>4. broken' \subseteq Positions /\ cyc.pc = "trade" /\ opened' \in opened..MaxOpened
        /\ opened' > 0
      BY <1>1, <1>4, <2>1 DEF EnterUnknown, CanEnter, Positions
  <2>5. PICK rows \in {<<RowOf("cover", opened')>>, <<>>}, n \in {0, opened'}, status \in Statuses :
           Traded(rows, n, status)
      BY <1>4 DEF EnterUnknown
  <2>6. rows \in Seq(Leg)
      BY <1>1, <2>2
  <2>6a. n \in 0..opened'
      BY <1>1, <2>1
  <2>7. Trades(rows, n, status)
      BY <2>3, <2>4, <2>5, <2>6, <2>6a
  <2>. QED
      BY <2>7
<1>5. CASE Adopt
  <2>1. Trades(<<>>, short, "OPEN")
      BY <1>1, <1>5 DEF Adopt
  <2>. QED
      BY <2>1
<1>6. CASE Exit
  <2>1. opened \in Positions /\ (short # 0 => short \in Positions) /\ cyc.pc = "trade"
        /\ opened' = opened /\ faults' = faults /\ broken' = broken
      BY <1>1, <1>6 DEF Exit, Opens, Positions
  <2>2. <<RowOf("sell", opened)>> \in Seq(Leg)
        /\ (short # 0 => <<RowOf("sell", opened), RowOf("cover", short)>> \in Seq(Leg))
      BY <2>1, RowsType
  <2>3. PICK rows \in {<<>>, <<RowOf("sell", opened)>>,
                       <<RowOf("sell", opened), RowOf("cover", short)>>} :
           Traded(rows, 0, "FLAT") /\ rows \in Seq(Leg)
      BY <1>1, <1>6, <2>2 DEF Exit
  <2>4. Trades(rows, 0, "FLAT")
      BY <1>1, <2>1, <2>3 DEF Positions
  <2>. QED
      BY <2>4
<1>7. CASE ExitIncomplete
  <2>1. short \in Positions /\ opened > 0
      BY <1>1, <1>7 DEF ExitIncomplete, Positions
  <2>2. <<RowOf("sell", short)>> \in Seq(Leg)
        /\ <<RowOf("sell", short), RowOf("cover", short)>> \in Seq(Leg)
      BY <2>1, RowsType
  <2>3. faults' \in 0..MaxFaults
      BY <1>7, FaultType DEF ExitIncomplete
  <2>4. broken' \subseteq Positions /\ cyc.pc = "trade" /\ opened' = opened
      BY <1>1, <1>7, <2>1 DEF ExitIncomplete
  <2>5. PICK rows \in {<<RowOf("sell", short)>>, <<RowOf("sell", short), RowOf("cover", short)>>},
             n \in {0, short} : Traded(rows, n, "OPEN")
      BY <1>7 DEF ExitIncomplete
  <2>6. rows \in Seq(Leg)
      BY <2>2
  <2>6a. n \in 0..opened'
      BY <1>1, <2>1, <2>4
  <2>7. opened' \in opened..MaxOpened
      BY <1>1, <2>4
  <2>8. Trades(rows, n, "OPEN")
      BY <2>1, <2>3, <2>4, <2>5, <2>6, <2>6a, <2>7
  <2>. QED
      BY <2>8
<1>. QED
    BY <1>2, <1>3, <1>4, <1>5, <1>6, <1>7 DEF EachTrade

LEMMA RoundTripType ==
  ASSUME RecordsOK, Opens
  PROVE  RoundTrip \subseteq Trip
<1> DEFINE rows == orders \o cyc.orders
<1>1. rows \in Seq(Leg)
    BY ConcatProperties DEF RecordsOK, Cycle
<1>2. DOMAIN rows = 1..Len(rows) /\ Len(rows) \in Nat
    BY <1>1, LenProperties
<1> HIDE DEF rows
<1>3. ASSUME NEW e \in LastEnter(rows) PROVE SubSeq(rows, e, Len(rows)) \in Seq(Leg)
  <2>1. e \in 1..Len(rows)
      BY <1>2 DEF LastEnter
  <2>2. \A i \in e..Len(rows) : rows[i] \in Leg
      BY <1>1, <1>2, <2>1, ElementOfSeq
  <2>. QED
      BY <1>2, <2>1, <2>2, SubSeqProperties
<1>4. cyc.from = "OPEN" => opened \in Positions
    BY DEF RecordsOK, Opens, Positions
<1>5. ASSUME NEW trip \in RoundTrip PROVE trip \in Trip
  <2>1. cyc.from = "OPEN"
        /\ \E e \in LastEnter(rows) : trip = [of |-> opened, legs |-> SubSeq(rows, e, Len(rows))]
      BY DEF RoundTrip, rows
  <2>. QED
      BY <1>3, <1>4, <2>1 DEF Trip
<1>. QED
    BY <1>5

LEMMA WriteType ==
  ASSUME RecordsOK, Opens, NEW under, Write(under)
  PROVE  RecordsOK'
<1>1. /\ cyc' \in Cycle
      /\ cyc'.at = cyc.at /\ cyc'.last = cyc.last
      /\ cyc'.funding = cyc.funding /\ cyc'.expected = cyc.expected
    BY DEF RecordsOK, Write, Cycle
<1>2. funding' \in [Settlements -> Nat] /\ expected' \in [Settlements -> Nat]
    BY AddsType DEF RecordsOK, Write
<1>3. orders' \in Seq(Leg)
    BY ConcatProperties DEF RecordsOK, Write, Cycle
<1>4. trips' \in Seq(Trip)
  <2>1. trips' = trips \/ \E trip \in RoundTrip : trips' = Append(trips, trip)
      BY DEF Write
  <2>2. trips \in Seq(Trip)
      BY DEF RecordsOK
  <2>. QED
      BY <2>1, <2>2, RoundTripType, AppendProperties
<1>. QED
    BY <1>1, <1>2, <1>3, <1>4 DEF RecordsOK, Write, venue, history

LEMMA SaveBookType ==
  ASSUME RecordsOK, SaveBook
  PROVE  RecordsOK'
<1>1. /\ cyc' \in Cycle /\ book' \in Statuses
      /\ cyc'.at = cyc.at /\ cyc'.last = cyc.last
      /\ cyc'.funding = cyc.funding /\ cyc'.expected = cyc.expected
    BY DEF RecordsOK, SaveBook, Cycle
<1>. QED
    BY <1>1 DEF RecordsOK, SaveBook, venue, history

LEMMA SavePaperType ==
  ASSUME RecordsOK, SavePaper
  PROVE  RecordsOK'
<1>1. /\ cyc' \in Cycle
      /\ cyc'.at = cyc.at /\ cyc'.last = cyc.last
      /\ cyc'.funding = cyc.funding /\ cyc'.expected = cyc.expected
    BY DEF RecordsOK, SavePaper, Cycle
<1>2. saved' \in [short : 0..opened, last : None..now]
  <2>1. short \in 0..opened /\ cyc.at \in 0..MaxSettled /\ cyc.at <= now /\ now \in 0..MaxSettled
      BY DEF RecordsOK, Cycle
  <2>2. cyc.at \in None..now
      BY <2>1
  <2>. QED
      BY <2>1, <2>2 DEF SavePaper
<1>3. UNCHANGED <<mode, venue, book, stamp, funding, expected, orders, trips, faults, history>>
    BY DEF SavePaper
<1>. QED
    BY <1>1, <1>2, <1>3 DEF RecordsOK, venue, history

LEMMA IdleType ==
  /\ Idle \in Cycle /\ Idle.pc = "off" /\ Idle.at = 0 /\ Idle.last = None /\ Idle.from = "FLAT"
  /\ Idle.book = "FLAT" /\ Idle.funding = {} /\ Idle.expected = {} /\ Idle.orders = <<>>
BY DEF Idle, Cycle, Statuses

LEMMA SaveStampType ==
  ASSUME RecordsOK, SaveStamp
  PROVE  RecordsOK'
<1>1. /\ cyc' \in Cycle /\ cyc'.at = 0 /\ cyc'.last = None
      /\ cyc'.funding = {} /\ cyc'.expected = {}
    BY IdleType DEF SaveStamp
<1>2. /\ UNCHANGED <<mode, venue, saved, book, funding, expected, orders, trips, faults, history>>
      /\ stamp' = cyc.at /\ cyc.at \in 0..MaxSettled /\ cyc.at <= now /\ now \in 0..MaxSettled
    BY DEF RecordsOK, SaveStamp, Cycle
<1>3. stamp' \in None..now /\ cyc'.at <= now /\ cyc'.last <= cyc'.at
    BY <1>1, <1>2 DEF None
<1>4. cyc'.funding \cup cyc'.expected \subseteq 1..cyc'.at
    BY <1>1
<1>. QED
    BY <1>1, <1>2, <1>3, <1>4 DEF RecordsOK, venue, history

\* The rows of a cycle that was killed while it wrote them.
Torn ==
    \E t, u \in Settlements, n \in 0 .. Len(cyc.orders) :
        /\ u > 1 => cyc.funding \subseteq 1..t
        /\ n > 0 => cyc.expected \subseteq 1 .. u - 1
        /\ funding' = Adds(funding, cyc.funding \cap 1..t)
        /\ expected' = Adds(expected, cyc.expected \cap 1 .. u - 1)
        /\ received' = AddsUp(received, cyc.funding \cap 1..t, Paid)
        /\ due' = AddsUp(due, cyc.expected \cap 1 .. u - 1, Due)
        /\ orders' = orders \o SubSeq(cyc.orders, 1, n)

LEMMA CrashRows ==
  ASSUME Crash
  PROVE  UNCHANGED <<funding, expected, sums, orders>> \/ (cyc.pc = "write" /\ Torn)
BY DEF Crash, Torn

LEMMA CrashType ==
  ASSUME RecordsOK, Opens, Crash
  PROVE  RecordsOK'
<1>1. /\ cyc' \in Cycle /\ cyc'.at = 0 /\ cyc'.last = None
      /\ cyc'.funding = {} /\ cyc'.expected = {}
    BY IdleType DEF Crash
<1>2. funding' \in [Settlements -> Nat] /\ expected' \in [Settlements -> Nat]
  <2>1. funding \in [Settlements -> Nat] /\ expected \in [Settlements -> Nat]
      BY DEF RecordsOK
  <2>2. funding' = funding \/ \E ts : funding' = Adds(funding, ts)
      BY CrashRows DEF Torn
  <2>3. expected' = expected \/ \E ts : expected' = Adds(expected, ts)
      BY CrashRows DEF Torn
  <2>. QED
      BY <2>1, <2>2, <2>3, AddsType
<1>3. orders' \in Seq(Leg)
  <2>1. CASE orders' = orders
      BY <2>1 DEF RecordsOK
  <2>2. CASE Torn
    <3>1. PICK n \in 0 .. Len(cyc.orders) : orders' = orders \o SubSeq(cyc.orders, 1, n)
        BY <2>2 DEF Torn
    <3>2. cyc.orders \in Seq(Leg) /\ orders \in Seq(Leg) /\ Len(cyc.orders) \in Nat
        BY LenProperties DEF RecordsOK, Cycle
    <3>3. \A i \in 1..n : cyc.orders[i] \in Leg
        BY <3>2, ElementOfSeq
    <3>4. SubSeq(cyc.orders, 1, n) \in Seq(Leg)
        BY <3>2, <3>3, SubSeqProperties
    <3>. QED
        BY <3>1, <3>2, <3>4, ConcatProperties
  <2>. QED
      BY <2>1, <2>2, CrashRows
<1>4. short' \in 0..opened /\ faults' \in 0..MaxFaults
  <2>1. short' \in 0..opened
      BY DEF RecordsOK, Crash
  <2>2. faults' \in 0..MaxFaults
      BY FaultType DEF Crash
  <2>. QED
      BY <2>1, <2>2
<1>5. again' \cup apart' \subseteq 1..now
  <2>1. cyc.funding \cup cyc.expected \subseteq 1..now
      BY DEF RecordsOK, Cycle
  <2>2. Since(cyc.last, 1..now) \subseteq 1..now
      BY DEF Since
  <2>. QED
      BY <2>1, <2>2 DEF RecordsOK, Crash
<1>6. broken' \subseteq Positions
  <2>1. cyc.orders # <<>> => opened > 0
      BY DEF Opens
  <2>. QED
      BY <2>1 DEF RecordsOK, Crash, Positions
<1>7. UNCHANGED <<mode, now, opened, paid, saved, book, stamp, trips, missed>>
    BY DEF Crash
<1>8. /\ mode' \in Modes /\ now' \in 0..MaxSettled /\ opened' \in 0..MaxOpened /\ paid' \subseteq 1..now'
      /\ saved' \in [short : 0..opened', last : None..now'] /\ stamp' \in None..now'
      /\ book' \in Statuses /\ trips' \in Seq(Trip) /\ missed' \subseteq 1..now'
    BY <1>7 DEF RecordsOK
<1>9. cyc'.at <= now' /\ cyc'.last <= cyc'.at /\ cyc'.funding \cup cyc'.expected \subseteq 1..cyc'.at
    BY <1>1, <1>8
<1>. QED
    BY <1>1, <1>2, <1>3, <1>4, <1>5, <1>6, <1>7, <1>8, <1>9 DEF RecordsOK

LEMMA NextTypes ==
  ASSUME RecordsOK, Opens, Next
  PROVE  RecordsOK'
<1>1. CASE EachTrade
    BY <1>1, EachTradeTrades, TradesType
<1>2. CASE \E under \in BOOLEAN : Write(under)
    BY <1>2, WriteType
<1>. QED
    BY <1>1, <1>2, SettlesType, ShortGoesType, StampLostType, StartType, CrashType, SaveBookType,
       SavePaperType, SaveStampType DEF Next, EachTrade

-----------------------------------------------------------------------------
(* The files.                                                              *)

LEMMA TradesFields ==
  ASSUME RecordsOK, NEW rows, NEW n, NEW status, Trades(rows, n, status)
  PROVE  /\ cyc.pc = "trade" /\ cyc'.pc = "write"
         /\ cyc'.at = cyc.at /\ cyc'.last = cyc.last /\ cyc'.from = cyc.from
         /\ cyc'.funding = cyc.funding /\ cyc'.expected = cyc.expected
         /\ cyc'.orders = rows /\ cyc'.book = status
         /\ (status = "OPEN" \/ rows # <<>> => opened' > 0) /\ opened' \in opened..MaxOpened
         /\ UNCHANGED <<mode, now, paid, files, missed, again, apart>>
BY TradedCycle DEF Trades, Traded

\* The cycle that writes its files; every other field of it stays.
LEMMA StageFields ==
  ASSUME RecordsOK, NEW pc, cyc' = [cyc EXCEPT !.pc = pc]
  PROVE  /\ cyc'.pc = pc
         /\ cyc'.at = cyc.at /\ cyc'.last = cyc.last /\ cyc'.from = cyc.from /\ cyc'.book = cyc.book
         /\ cyc'.funding = cyc.funding /\ cyc'.expected = cyc.expected /\ cyc'.orders = cyc.orders
BY DEF RecordsOK, Cycle

LEMMA Numbers ==
  ASSUME RecordsOK
  PROVE  /\ now \in 0..MaxSettled /\ opened \in 0..MaxOpened /\ short \in 0..opened
         /\ stamp \in None..now /\ saved.last \in None..now /\ saved.short \in 0..opened
         /\ cyc.at \in 0..now /\ cyc.last \in None..cyc.at
         /\ {now, opened, short, stamp, saved.last, cyc.at, cyc.last} \subseteq Int
BY DEF RecordsOK, Cycle

LEMMA NextOpens ==
  ASSUME RecordsOK, Opens, Next
  PROVE  Opens'
<1>1. opened \in Int
    BY Numbers
<1>2. CASE EachTrade
  <2>1. PICK rows, n, status : Trades(rows, n, status)
      BY <1>2, EachTradeTrades
  <2>2. \/ "OPEN" \in {book, cyc.from} \/ status = "OPEN" \/ rows # <<>>
        \/ ~("OPEN" \in {book', cyc'.book, cyc'.from} \/ cyc'.orders # <<>>)
      BY <2>1, TradesFields DEF files
  <2>3. opened' > 0 \/ ~("OPEN" \in {book, cyc.from})
      BY <1>1, <2>1, TradesFields DEF Opens
  <2>. QED
      BY <2>1, <2>2, <2>3, TradesFields DEF Opens
<1>3. CASE (\E under \in BOOLEAN : Write(under)) \/ SaveBook \/ SavePaper
  <2>1. \E pc : cyc' = [cyc EXCEPT !.pc = pc]
      BY <1>3 DEF Write, SaveBook, SavePaper
  <2>2. opened' = opened /\ book' \in {book, cyc.book}
      BY <1>3 DEF Write, SaveBook, SavePaper, venue
  <2>. QED
      BY <2>1, <2>2, StageFields DEF Opens
<1>4. CASE SaveStamp \/ Crash
    BY <1>4, IdleType DEF Opens, SaveStamp, Crash, venue
<1>5. CASE Start
    BY <1>5 DEF Opens, Start, venue, files
<1>6. CASE Settles \/ ShortGoes \/ StampLost
    BY <1>6 DEF Opens, Settles, ShortGoes, StampLost, venue, files
<1>. QED
    BY <1>2, <1>3, <1>4, <1>5, <1>6 DEF Next, EachTrade

LEMMA NextFiles ==
  ASSUME RecordsOK, Files, Opens, Next
  PROVE  Files'
<1> USE Numbers
<1>1. CASE EachTrade
  <2>1. PICK rows, n, status : Trades(rows, n, status)
      BY <1>1, EachTradeTrades
  <2>. QED
      BY <2>1, TradesFields DEF Files, files, Live
<1>2. CASE \E under \in BOOLEAN : Write(under)
    BY <1>2, StageFields DEF Files, Write, venue, Live
<1>3. CASE SaveBook
    BY <1>3, StageFields DEF Files, SaveBook, venue, Live
<1>4. CASE SavePaper
    BY <1>4, StageFields DEF Files, SavePaper, venue, Live
<1>5. CASE SaveStamp
    BY <1>5, IdleType DEF Files, SaveStamp, venue, Live
<1>6. CASE Crash
    BY <1>6, IdleType DEF Files, Crash, venue, Live
<1>7. CASE Start
    BY <1>7 DEF Files, Start, venue, files, Live
<1>8. CASE Settles
    BY <1>8 DEF Files, Settles, files, Live
<1>9. CASE ShortGoes
    BY <1>9 DEF Files, ShortGoes, files, Live
<1>10. CASE StampLost
    BY <1>10 DEF Files, StampLost, venue, Live
<1>. QED
    BY <1>1, <1>2, <1>3, <1>4, <1>5, <1>6, <1>7, <1>8, <1>9, <1>10 DEF Next, EachTrade

-----------------------------------------------------------------------------
(* The funding.                                                            *)

LEMMA SinceIs ==
  ASSUME NEW last, NEW ts, NEW t
  PROVE  t \in Since(last, ts) <=> last # None /\ t \in ts /\ last < t
BY DEF Since

\* What no trade touches.
LEMMA TradeKeeps ==
  ASSUME RecordsOK, EachTrade
  PROVE  /\ cyc.pc = "trade" /\ cyc'.pc = "write" /\ cyc'.at = cyc.at
         /\ cyc'.funding = cyc.funding /\ cyc'.expected = cyc.expected
         /\ UNCHANGED <<mode, now, paid, files, missed, again, apart>>
<1>1. PICK rows, n, status : cyc.pc = "trade" /\ Traded(rows, n, status)
    BY DEF EachTrade, Nothing, Enter, EnterUnknown, CanEnter, Adopt, Exit, ExitIncomplete
<1>. QED
    BY <1>1 DEF RecordsOK, Traded, Cycle

LEMMA NextFound ==
  ASSUME RecordsOK, Files, Found, Next
  PROVE  Found'
<1> USE Numbers
<1>1. CASE EachTrade
    BY <1>1, TradeKeeps DEF Found, files, Live
<1>2. CASE \E under \in BOOLEAN : Write(under)
    BY <1>2, StageFields DEF Found, Write, venue, history, Live
<1>3. CASE SaveBook
    BY <1>3, StageFields DEF Found, Files, SaveBook, venue, history, Live
<1>4. CASE SavePaper
  <2>1. /\ cyc.pc = "paper" /\ cyc'.pc = "stamp" /\ cyc'.at = cyc.at /\ cyc'.from = cyc.from
        /\ saved'.last = cyc.at /\ UNCHANGED <<now, paid, book, stamp, apart>>
      BY <1>4, StageFields DEF SavePaper, venue, history
  <2>2. cyc.at + 1 .. now \subseteq apart
      BY <2>1 DEF Found
  <2>3. Since(saved'.last, 1..now) \subseteq cyc.at + 1 .. now
      BY <2>1, SinceIs
  <2>. QED
      BY <2>1, <2>2, <2>3 DEF Found
<1>5. CASE SaveStamp
    BY <1>5, IdleType, SinceIs DEF Found, Files, SaveStamp, venue, history, Live
<1>6. CASE Crash
  <2>1. /\ cyc'.pc = "off" /\ apart \subseteq apart'
        /\ UNCHANGED <<mode, now, paid, saved, book, stamp>>
      BY <1>6, IdleType DEF Crash
  <2>2. ~Live' => \A t \in Since(saved'.last, 1..now') \ apart' : t \in paid' <=> saved'.short # 0
      BY <2>1 DEF Found, Live
  <2>3. book = "OPEN" => Since(stamp, 1..now) \ apart' \subseteq paid
    <3>1. CASE cyc.pc \in {"paper", "stamp"} /\ cyc.from # "OPEN" /\ book = "OPEN"
      <4>1. cyc.book = "OPEN" /\ cyc.from = "FLAT" /\ cyc.last = stamp
          BY <3>1 DEF Files, RecordsOK, Cycle, Statuses
      <4>2. Since(stamp, 1..now) \subseteq apart'
          BY <1>6, <3>1, <4>1 DEF Crash
      <4>. QED
          BY <4>2
    <3>2. CASE cyc.pc \in {"paper", "stamp"} => cyc.from = "OPEN"
        BY <2>1, <3>2 DEF Found
    <3>. QED
        BY <3>1, <3>2
  <2>. QED
      BY <2>1, <2>2, <2>3 DEF Found
<1>7. CASE Start
    BY <1>7 DEF Found, Start, venue, files, Live
<1>8. CASE Settles
  <2>1. /\ now' = now + 1 /\ cyc.pc \in {"off", "trade"}
        /\ paid' = IF short # 0 THEN paid \cup {now'} ELSE paid
        /\ apart' = IF cyc.pc # "off" \/ (book = "OPEN") # (short # 0)
                    THEN apart \cup {now'} ELSE apart
        /\ UNCHANGED <<mode, short, cyc, saved, book, stamp>>
      BY <1>8 DEF Settles, files
  <2>2. paid \subseteq 1..now
      BY DEF RecordsOK
  <2>3. \A last : Since(last, 1..now') \subseteq Since(last, 1..now) \cup {now'}
      BY <2>1, SinceIs
  <2>4. cyc'.pc # "off" => cyc'.at + 1 .. now' \subseteq apart'
      BY <2>1 DEF Found
  <2>5. ASSUME ~Live, NEW t \in Since(saved.last, 1..now') \ apart'
        PROVE  t \in paid' <=> saved.short # 0
    <3>1. CASE t = now'
        BY <2>1, <2>2, <2>5, <3>1 DEF Files
    <3>2. CASE t \in Since(saved.last, 1..now) /\ t # now'
        BY <2>1, <2>5, <3>2 DEF Found
    <3>. QED
        BY <2>3, <2>5, <3>1, <3>2
  <2>6. ASSUME book = "OPEN", NEW t \in Since(stamp, 1..now') \ apart'
        PROVE  t \in paid'
    <3>1. CASE t = now'
        BY <2>1, <2>6, <3>1
    <3>2. CASE t \in Since(stamp, 1..now) /\ t # now'
        BY <2>1, <2>6, <3>2 DEF Found
    <3>. QED
        BY <2>3, <2>6, <3>1, <3>2
  <2>. QED
      BY <2>1, <2>4, <2>5, <2>6 DEF Found, Live
<1>9. CASE ShortGoes
    BY <1>9 DEF Found, ShortGoes, files, Live
<1>10. CASE StampLost
    BY <1>10, SinceIs DEF Found, StampLost, venue, history, Live
<1>. QED
    BY <1>1, <1>2, <1>3, <1>4, <1>5, <1>6, <1>7, <1>8, <1>9, <1>10 DEF Next, EachTrade

LEMMA NextFresh ==
  ASSUME RecordsOK, Files, Found, Fresh, Kept, Next
  PROVE  Fresh'
<1> USE Numbers
<1>1. CASE EachTrade
    BY <1>1, TradeKeeps DEF Fresh, files, Live, BookedUntil
<1>2. CASE \E under \in BOOLEAN : Write(under)
  <2>1. /\ cyc.pc = "write" /\ cyc'.pc = "book" /\ cyc'.at = cyc.at /\ now' = now
        /\ funding' = Adds(funding, cyc.funding) /\ expected' = Adds(expected, cyc.expected)
      BY <1>2, StageFields DEF Write, venue
  <2>2. cyc.funding \cup cyc.expected \subseteq 1..cyc.at
      BY DEF RecordsOK
  <2>. QED
      BY <2>1, <2>2 DEF Fresh, Adds
<1>3. CASE SaveBook
    BY <1>3, StageFields DEF Fresh, SaveBook, venue
<1>4. CASE SavePaper
    BY <1>4, StageFields DEF Fresh, SavePaper, venue
<1>5. CASE SaveStamp
    BY <1>5, IdleType DEF Fresh, SaveStamp, venue
<1>6. CASE Crash
  <2>1. cyc'.pc = "off" /\ now' = now
      BY <1>6, IdleType DEF Crash
  <2>2. cyc.funding \cup cyc.expected \subseteq 1..now
    <3>1. cyc.funding \cup cyc.expected \subseteq 1..cyc.at
        BY DEF RecordsOK
    <3>. QED
        BY <3>1
  <2>3. \A t \in Settlements : /\ funding'[t] > 0 => funding[t] > 0 \/ t \in cyc.funding
                               /\ expected'[t] > 0 => expected[t] > 0 \/ t \in cyc.expected
      BY <1>6, CrashRows DEF Torn, Adds
  <2>. QED
      BY <2>1, <2>2, <2>3 DEF Fresh
<1>7. CASE Start
  <2>1. PICK got \in SUBSET Realized, exp \in {{}, ExpectedFunding}, m \in Marks :
           /\ Live \/ (got = {} /\ exp = {}) \/ (got = Realized /\ exp = ExpectedFunding)
           /\ cyc' = [pc |-> "trade", at |-> now, mark |-> m, last |-> stamp, from |-> book, book |-> book,
                      funding |-> got, expected |-> exp, orders |-> <<>>]
           /\ missed' = missed \cup (Unbooked \ got)
      BY <1>7 DEF Start
  <2>2. cyc.pc = "off" /\ UNCHANGED <<mode, venue, files, again, apart, broken>>
      BY <1>7 DEF Start
  <2>3. paid \subseteq 1..now
      BY DEF RecordsOK
  <2>4. got \subseteq Since(BookedUntil, 1..now) /\ exp \subseteq Since(stamp, 1..now)
      BY <2>3, SinceIs DEF Realized, ExpectedFunding
  <2>5. ASSUME NEW t \in got PROVE t \in paid \/ (~Live /\ t \in apart)
    <3>1. CASE Live
        BY <3>1, SinceIs DEF Realized
    <3>2. CASE ~Live
        BY <2>2, <3>2 DEF Realized, Found, Files, BookedUntil
    <3>. QED
        BY <3>1, <3>2
  <2>6. ASSUME NEW t \in exp \ (missed' \cup apart) PROVE t \in got \/ (~Live /\ funding[t] > 0)
    <3>1. t \in Since(stamp, 1..now) /\ book = "OPEN" /\ t \in 1..now /\ stamp # None /\ stamp < t
        BY <2>6, SinceIs DEF ExpectedFunding
    <3>2. t \in paid
        BY <2>2, <2>6, <3>1 DEF Found
    <3>3. t \in Unbooked => t \in got
        BY <2>1, <2>6
    <3>4. CASE Live
        BY <3>1, <3>2, <3>3, <3>4, SinceIs DEF Unbooked, BookedUntil
    <3>5. CASE ~Live /\ t <= saved.last
        BY <2>1, <2>6, <3>2, <3>5 DEF Kept, BookedUntil
    <3>6. CASE ~Live /\ ~(t <= saved.last)
      <4>1. saved.last # None /\ saved.last < t
          BY <3>1, <3>6 DEF Files
      <4>. QED
          BY <3>2, <3>3, <3>6, <4>1, SinceIs DEF Unbooked, BookedUntil
    <3>. QED
        BY <3>4, <3>5, <3>6
  <2>7. cyc'.at = now /\ cyc'.funding = got /\ cyc'.expected = exp
      BY <2>1
  <2>8. UNCHANGED <<mode, now, paid, saved, stamp, funding, expected, apart>>
      BY <2>2 DEF venue, files
  <2>. QED
      BY <2>4, <2>5, <2>6, <2>7, <2>8 DEF Fresh, BookedUntil, Live
<1>8. CASE Settles
  <2>1. now' = now + 1 /\ paid \subseteq paid' /\ apart \subseteq apart'
        /\ UNCHANGED <<mode, cyc, saved, stamp, funding, expected, missed>>
      BY <1>8 DEF Settles, files
  <2>2. BookedUntil' = BookedUntil /\ Live' = Live
      BY <2>1 DEF BookedUntil, Live
  <2>3. \A t \in Settlements : funding'[t] > 0 \/ expected'[t] > 0 =>
            t <= now' /\ (cyc'.pc # "off" => t <= cyc'.at)
      BY <2>1 DEF Fresh
  <2>. QED
      BY <2>1, <2>2, <2>3 DEF Fresh, Since
<1>9. CASE ShortGoes
    BY <1>9 DEF Fresh, ShortGoes, files, Live, BookedUntil
<1>10. CASE StampLost
    BY <1>10 DEF Fresh, StampLost, venue, history, Live, BookedUntil
<1>. QED
    BY <1>1, <1>2, <1>3, <1>4, <1>5, <1>6, <1>7, <1>8, <1>9, <1>10 DEF Next, EachTrade

\* What a start reads: the rows of the files stay.
LEMMA StartReads ==
  ASSUME Start
  PROVE  \E got \in SUBSET Realized :
            /\ cyc.pc = "off" /\ cyc'.pc = "trade" /\ cyc'.at = now /\ cyc'.funding = got
            /\ missed' = missed \cup (Unbooked \ got)
            /\ UNCHANGED <<mode, now, paid, saved, stamp, funding, expected, again, apart>>
BY DEF Start, venue, files

LEMMA NextOnce ==
  ASSUME RecordsOK, Files, Fresh, Once, Next
  PROVE  Once'
<1> USE Numbers
<1>1. CASE EachTrade
    BY <1>1, TradeKeeps DEF Once, Written, files, Live, BookedUntil
<1>2. CASE \E under \in BOOLEAN : Write(under)
  <2>1. /\ cyc.pc = "write" /\ cyc'.pc = "book"
        /\ cyc'.funding = cyc.funding /\ cyc'.expected = cyc.expected
        /\ funding' = Adds(funding, cyc.funding) /\ expected' = Adds(expected, cyc.expected)
        /\ UNCHANGED <<mode, saved, stamp, again>>
      BY <1>2, StageFields DEF Write, history
  <2>2. ASSUME NEW t \in Settlements \ again, funding'[t] > 0
        PROVE  funding'[t] = 1 /\ (BookedUntil # None => t <= BookedUntil \/ t \in cyc.funding)
    <3>1. CASE t \in cyc.funding
      <4>1. BookedUntil # None /\ ~(t <= BookedUntil)
          BY <2>1, <3>1, SinceIs DEF Fresh, BookedUntil
      <4>2. funding[t] = 0
          BY <2>1, <4>1 DEF Once, Written, RecordsOK
      <4>. QED
          BY <2>1, <3>1, <4>2 DEF Adds
    <3>2. CASE t \notin cyc.funding
        BY <2>1, <2>2, <3>2 DEF Adds, Once, Written
    <3>. QED
        BY <3>1, <3>2
  <2>3. ASSUME NEW t \in Settlements \ again, expected'[t] > 0
        PROVE  expected'[t] = 1 /\ (stamp # None => t <= stamp \/ t \in cyc.expected)
    <3>1. CASE t \in cyc.expected
      <4>1. stamp # None /\ ~(t <= stamp)
          BY <2>1, <3>1, SinceIs DEF Fresh
      <4>2. expected[t] = 0
          BY <2>1, <4>1 DEF Once, Written, RecordsOK
      <4>. QED
          BY <2>1, <3>1, <4>2 DEF Adds
    <3>2. CASE t \notin cyc.expected
        BY <2>1, <2>3, <3>2 DEF Adds, Once, Written
    <3>. QED
        BY <3>1, <3>2
  <2>. QED
      BY <2>1, <2>2, <2>3 DEF Once, Written, BookedUntil, Live
<1>3. CASE SaveBook
    BY <1>3, StageFields DEF Once, Written, SaveBook, history, BookedUntil, Live
<1>4. CASE SavePaper
  <2>1. /\ cyc.pc = "paper" /\ cyc'.pc = "stamp" /\ cyc'.expected = cyc.expected
        /\ saved'.last = cyc.at /\ UNCHANGED <<mode, stamp, funding, expected, again>>
      BY <1>4, StageFields DEF SavePaper, history
  <2>2. ~Live /\ \A t \in Settlements : funding[t] > 0 => t <= cyc.at
      BY <2>1 DEF Files, Fresh
  <2>. QED
      BY <2>1, <2>2 DEF Once, Written, BookedUntil, Live
<1>5. CASE SaveStamp
  <2>1. /\ cyc.pc = "stamp" /\ cyc'.pc = "off" /\ stamp' = cyc.at
        /\ UNCHANGED <<mode, saved, funding, expected, again>>
      BY <1>5, IdleType DEF SaveStamp, history
  <2>2. \A t \in Settlements : funding[t] > 0 \/ expected[t] > 0 => t <= cyc.at
      BY <2>1 DEF Fresh
  <2>3. ~Live => saved.last = cyc.at
      BY <2>1 DEF Files
  <2>. QED
      BY <2>1, <2>2, <2>3 DEF Once, Written, BookedUntil, Live
<1>6. CASE Crash
  <2>1. /\ cyc'.pc = "off" /\ UNCHANGED <<mode, saved, stamp>> /\ again \subseteq again'
        /\ Written \/ cyc.pc = "write" => cyc.funding \cup cyc.expected \subseteq again'
      BY <1>6, IdleType DEF Crash, Written
  <2>2. \A t \in Settlements : /\ funding'[t] = funding[t] \/ t \in again'
                               /\ expected'[t] = expected[t] \/ t \in again'
      BY <1>6, <2>1, CrashRows DEF Torn, Adds
  <2>. QED
      BY <2>1, <2>2 DEF Once, BookedUntil, Live
<1>7. CASE Start
    BY <1>7, StartReads DEF Once, Written, BookedUntil, Live
<1>8. CASE Settles
    BY <1>8 DEF Once, Written, Settles, files, BookedUntil, Live
<1>9. CASE ShortGoes
    BY <1>9 DEF Once, Written, ShortGoes, files, BookedUntil, Live
<1>10. CASE StampLost
    BY <1>10 DEF Once, Written, StampLost, history, BookedUntil, Live
<1>. QED
    BY <1>1, <1>2, <1>3, <1>4, <1>5, <1>6, <1>7, <1>8, <1>9, <1>10 DEF Next, EachTrade

LEMMA NextKept ==
  ASSUME RecordsOK, Files, Fresh, Kept, Next
  PROVE  Kept'
<1> USE Numbers
<1>1. CASE EachTrade
    BY <1>1, TradeKeeps DEF Kept, files, Live, BookedUntil
<1>2. CASE \E under \in BOOLEAN : Write(under)
  <2>1. /\ cyc.pc = "write" /\ cyc'.pc = "book" /\ cyc'.at = cyc.at
        /\ funding' = Adds(funding, cyc.funding)
        /\ UNCHANGED <<mode, paid, saved, stamp, missed, apart>>
      BY <1>2, StageFields DEF Write, venue, history
  <2>2. \A t \in Settlements : /\ funding[t] \in Nat
                               /\ funding'[t] > 0 <=> funding[t] > 0 \/ t \in cyc.funding
    <3>1. \A t \in Settlements : funding[t] \in Nat
        BY DEF RecordsOK
    <3>2. \A t \in Settlements : funding'[t] = IF t \in cyc.funding THEN funding[t] + 1 ELSE funding[t]
        BY <2>1 DEF Adds
    <3>. QED
        BY <3>1, <3>2
  <2>3. paid \subseteq Settlements
      BY DEF RecordsOK
  <2>4. \A t \in cyc.funding : t \in paid \/ (~Live /\ t \in apart)
      BY <2>1 DEF Fresh
  <2>. QED
      BY <2>1, <2>2, <2>3, <2>4 DEF Kept, BookedUntil, Live
<1>3. CASE SaveBook
    BY <1>3, StageFields DEF Kept, SaveBook, venue, history, BookedUntil, Live
<1>4. CASE SavePaper
    BY <1>4, StageFields DEF Kept, Files, SavePaper, venue, history, BookedUntil, Live
<1>5. CASE SaveStamp
    BY <1>5, IdleType DEF Kept, Files, SaveStamp, venue, history, BookedUntil, Live
<1>6. CASE Crash
  <2>1. /\ cyc'.pc = "off" /\ UNCHANGED <<mode, paid, saved, stamp, missed>>
        /\ apart \subseteq apart'
      BY <1>6, IdleType DEF Crash
  <2>2. \A t \in Settlements : /\ funding[t] \in Nat
                               /\ funding[t] > 0 => funding'[t] > 0
                               /\ funding'[t] > 0 => funding[t] > 0 \/ (cyc.pc = "write" /\ t \in cyc.funding)
    <3>1. funding \in [Settlements -> Nat]
        BY DEF RecordsOK
    <3>2. CASE funding' = funding
        BY <3>1, <3>2
    <3>3. CASE cyc.pc = "write" /\ Torn
        BY <3>1, <3>3 DEF Torn, Adds
    <3>. QED
        BY <1>6, <3>2, <3>3, CrashRows
  <2>3. paid \subseteq Settlements
      BY DEF RecordsOK
  <2>. QED
      BY <2>1, <2>2, <2>3 DEF Kept, Fresh, BookedUntil, Live
<1>7. CASE Start
  <2>1. PICK got \in SUBSET Realized :
            /\ cyc.pc = "off" /\ cyc'.pc = "trade" /\ cyc'.at = now /\ cyc'.funding = got
            /\ missed' = missed \cup (Unbooked \ got)
            /\ UNCHANGED <<mode, now, paid, saved, stamp, funding, expected, again, apart>>
      BY <1>7, StartReads
  <2>2. ASSUME NEW t \in paid \ missed' PROVE funding[t] > 0 \/ t \in got
    <3>1. t \in Settlements /\ funding[t] \in Nat
        BY DEF RecordsOK
    <3>2. CASE t <= BookedUntil
        BY <2>1, <2>2, <3>2 DEF Kept
    <3>3. CASE ~(t <= BookedUntil)
        BY <2>1, <2>2, <3>1, <3>3, SinceIs DEF Unbooked, BookedUntil
    <3>. QED
        BY <3>2, <3>3
  <2>. QED
      BY <2>1, <2>2 DEF Kept, BookedUntil, Live
<1>8. CASE Settles
  <2>1. now' = now + 1 /\ paid \subseteq paid' /\ paid' \subseteq paid \cup {now'}
        /\ apart \subseteq apart' /\ UNCHANGED <<mode, cyc, saved, stamp, funding, missed>>
      BY <1>8 DEF Settles, files
  <2>. QED
      BY <2>1 DEF Kept, BookedUntil, Live
<1>9. CASE ShortGoes
    BY <1>9 DEF Kept, ShortGoes, files, BookedUntil, Live
<1>10. CASE StampLost
  <2>1. \A t \in paid : ~(t <= None)
      BY DEF RecordsOK
  <2>2. /\ cyc.pc = "off" /\ stamp' = None
        /\ UNCHANGED <<mode, cyc, paid, saved, funding, missed, apart>>
      BY <1>10 DEF StampLost, venue, history
  <2>. QED
      BY <2>1, <2>2 DEF Kept, BookedUntil, Live
<1>. QED
    BY <1>1, <1>2, <1>3, <1>4, <1>5, <1>6, <1>7, <1>8, <1>9, <1>10 DEF Next, EachTrade

-----------------------------------------------------------------------------
(* The amounts.                                                            *)

LEMMA InitAInv == Init => AInv
<1> SUFFICES ASSUME Init PROVE AInv
    OBVIOUS
<1> USE DEF Init
<1>1. cyc.pc = "off" /\ cyc.mark = 0 /\ paid = {} /\ now = 0
    BY DEF Idle
<1>2. AmountsOK
    BY <1>1 DEF AmountsOK
<1>3. Flat /\ Stamped /\ Told
    BY <1>1 DEF Flat, Stamped, Told, Since
<1>4. Balanced
    BY LedgerAssumption DEF Balanced
<1>. QED
    BY <1>2, <1>3, <1>4 DEF AInv

\* What a trade and a step of the files leave of the amounts.
LEMMA AmountsStay ==
  ASSUME RecordsOK, EachTrade \/ SaveBook \/ SavePaper
  PROVE  /\ cyc.pc # "off" /\ cyc'.mark = cyc.mark /\ cyc'.pc # "off" /\ cyc'.at = cyc.at
         /\ UNCHANGED <<mode, paid, prices, sums, now, history>> \/ EachTrade
         /\ UNCHANGED <<mode, paid, prices, sums, now, missed, again, apart, signs>>
<1>1. CASE EachTrade
  <2>1. PICK rows, n, status : cyc.pc = "trade" /\ Traded(rows, n, status)
      BY <1>1 DEF EachTrade, Nothing, Enter, EnterUnknown, CanEnter, Adopt, Exit, ExitIncomplete
  <2>. QED
      BY <1>1, <2>1 DEF RecordsOK, Traded, Cycle, files
<1>2. CASE SaveBook \/ SavePaper
    BY <1>2 DEF RecordsOK, SaveBook, SavePaper, Cycle, venue, history
<1>. QED
    BY <1>1, <1>2

LEMMA Prices == Rates \subseteq Int /\ Marks \subseteq Nat \ {0} /\ Ratio \in 1..100
BY LedgerAssumption

LEMMA PricesInt == Rates \cup {0} \subseteq Int /\ Marks \cup {0} \subseteq Int
<1>1. Rates \subseteq Int /\ Marks \subseteq Int
  <2>1. Nat \ {0} \subseteq Int
      OBVIOUS
  <2>. QED
      BY <2>1, Prices, Zenon
<1>. QED
    BY <1>1

LEMMA PaidType ==
  ASSUME RecordsOK, AmountsOK
  PROVE  Paid \in [Settlements -> Int] /\ Due \in [Settlements -> Int]
<1>1. \A t \in Settlements : rate[t] \in Int /\ mark[t] \in Int
  <2>1. \A t \in Settlements : rate[t] \in Rates \cup {0} /\ mark[t] \in Marks \cup {0}
      BY DEF AmountsOK
  <2>. QED
      BY <2>1, PricesInt, Zenon
<1>2. cyc.mark \in Int
  <2>1. cyc.mark \in Marks \cup {0}
      BY DEF RecordsOK, Cycle
  <2>. QED
      BY <2>1, PricesInt, Zenon
<1>. QED
    BY <1>1, <1>2 DEF Paid, Due, Amounts, CycleMark

LEMMA AddsUpType ==
  ASSUME NEW sum \in [Settlements -> Int], NEW amount \in [Settlements -> Int], NEW ts
  PROVE  AddsUp(sum, ts, amount) \in [Settlements -> Int]
BY DEF AddsUp

LEMMA NextAmounts ==
  ASSUME RecordsOK, AmountsOK, Next
  PROVE  AmountsOK'
<1>1. CASE EachTrade \/ SaveBook \/ SavePaper
    BY <1>1, AmountsStay DEF AmountsOK, prices, sums, signs, Live
<1>2. CASE \E under \in BOOLEAN : Write(under)
  <2>1. received' \in [Settlements -> Int] /\ due' \in [Settlements -> Int]
    <3>1. received' = AddsUp(received, cyc.funding, Paid) /\ due' = AddsUp(due, cyc.expected, Due)
        BY <1>2 DEF Write
    <3>. QED
        BY <3>1, PaidType, AddsUpType, Zenon DEF AmountsOK
  <2>2. cyc'.mark = cyc.mark /\ cyc.pc # "off"
        /\ UNCHANGED <<mode, paid, now, rate, mark, unexpected, drifted>>
      BY <1>2 DEF RecordsOK, Write, Cycle, venue, history, prices, signs
  <2>. QED
      BY <2>1, <2>2 DEF AmountsOK, Live
<1>3. CASE SaveStamp
    BY <1>3, IdleType DEF AmountsOK, SaveStamp, venue, history, prices, sums, signs, Live
<1>4. CASE Crash
  <2>1. received' \in [Settlements -> Int] /\ due' \in [Settlements -> Int]
    <3>1. received' = received \/ \E ts : received' = AddsUp(received, ts, Paid)
        BY <1>4, CrashRows DEF Torn, sums
    <3>2. due' = due \/ \E ts : due' = AddsUp(due, ts, Due)
        BY <1>4, CrashRows DEF Torn, sums
    <3>3. received \in [Settlements -> Int] /\ due \in [Settlements -> Int]
        BY DEF AmountsOK
    <3>4. received' \in [Settlements -> Int]
      <4>1. \A ts : AddsUp(received, ts, Paid) \in [Settlements -> Int]
          BY <3>3, PaidType, AddsUpType
      <4>. QED
          BY <3>1, <3>3, <4>1
    <3>5. due' \in [Settlements -> Int]
      <4>1. \A ts : AddsUp(due, ts, Due) \in [Settlements -> Int]
          BY <3>3, PaidType, AddsUpType
      <4>. QED
          BY <3>2, <3>3, <4>1
    <3>. QED
        BY <3>4, <3>5
  <2>2. cyc'.pc = "off" /\ UNCHANGED <<mode, paid, now, rate, mark, unexpected, drifted>>
      BY <1>4, IdleType DEF Crash, prices, signs
  <2>. QED
      BY <2>1, <2>2 DEF AmountsOK, Live
<1>5. CASE Start
  <2>1. /\ cyc'.mark \in Marks /\ unexpected' \subseteq unexpected \cup Realized
        /\ drifted' \subseteq drifted \cup paid
        /\ UNCHANGED <<mode, paid, now, rate, mark, received, due>>
      BY <1>5 DEF Start, venue, files, prices, sums
  <2>2. Realized \subseteq 1..now /\ paid \subseteq 1..now
      BY DEF RecordsOK, Realized, Since
  <2>. QED
      BY <2>1, <2>2 DEF AmountsOK, Live
<1>6. CASE Settles
  <2>1. /\ now' = now + 1 /\ now < MaxSettled
        /\ \E n \in Rates : rate' = [rate EXCEPT ![now'] = n]
        /\ paid' = IF short # 0 THEN paid \cup {now'} ELSE paid
        /\ IF Live /\ short # 0 THEN \E m \in Marks : mark' = [mark EXCEPT ![now'] = m]
                                ELSE UNCHANGED mark
        /\ UNCHANGED <<mode, cyc, received, due, unexpected, drifted>>
      BY <1>6 DEF Settles, files, sums, signs
  <2>1a. now' \in Settlements
      BY <2>1, Numbers
  <2>2. rate' \in [Settlements -> Rates \cup {0}] /\ mark' \in [Settlements -> Marks \cup {0}]
      BY <2>1 DEF AmountsOK
  <2>3. Live' => \A t \in paid' : mark'[t] \in Marks
    <3>1. paid \subseteq Settlements /\ mark \in [Settlements -> Marks \cup {0}] /\ Live' = Live
          /\ (Live => \A t \in paid : mark[t] \in Marks)
      <4>1. paid \subseteq 1..now /\ now \in 0..MaxSettled
          BY DEF RecordsOK
      <4>2. paid \subseteq Settlements
          BY <4>1
      <4>. QED
          BY <2>1, <4>2 DEF AmountsOK, Live
    <3>2. CASE Live /\ short # 0
        BY <2>1, <2>1a, <3>1, <3>2
    <3>3. CASE ~(Live /\ short # 0)
        BY <2>1, <3>1, <3>3
    <3>. QED
        BY <3>2, <3>3
  <2>4. unexpected' \cup drifted' \subseteq 1..now'
    <3>1. 1..now \subseteq 1..now'
        BY <2>1, Numbers
    <3>. QED
        BY <2>1, <3>1 DEF AmountsOK
  <2>. QED
      BY <2>1, <2>2, <2>3, <2>4 DEF AmountsOK
<1>7. CASE ShortGoes \/ StampLost
    BY <1>7 DEF AmountsOK, ShortGoes, StampLost, venue, files, history, prices, sums, signs, Live
<1>. QED
    BY <1>1, <1>2, <1>3, <1>4, <1>5, <1>6, <1>7 DEF Next, EachTrade

\* What a cycle that is killed has written is in `again`; what was read
\* before is after no stamp.
LEMMA ReadAgain ==
  ASSUME RecordsOK, Once, Kept, Crash, Written,
         NEW t \in paid, t <= cyc.at, BookedUntil # None, BookedUntil < t
  PROVE  t \in missed' \cup again'
<1>1. t \in Settlements /\ funding[t] \in Nat /\ BookedUntil \in Int
    BY Numbers DEF RecordsOK, BookedUntil
<1>2. missed' = missed /\ again \subseteq again' /\ cyc.funding \subseteq again'
    BY DEF Crash, Written
<1>3. CASE t \notin missed
  <2>1. funding[t] > 0
      BY <1>3 DEF Kept, Written
  <2>2. t \in again \/ t \in cyc.funding
      BY <1>1, <2>1, Numbers DEF Once
  <2>. QED
      BY <1>2, <2>2
<1>. QED
    BY <1>2, <1>3

LEMMA NextFlat ==
  ASSUME RecordsOK, Files, Found, Once, Kept, Flat, Next
  PROVE  Flat'
<1> USE Numbers
<1>1. CASE EachTrade
    BY <1>1, TradeKeeps DEF Flat, files, Live, BookedUntil
<1>2. CASE \E under \in BOOLEAN : Write(under)
    BY <1>2, StageFields DEF Flat, Write, venue, history, Live, BookedUntil
<1>3. CASE SaveBook
  <2>1. /\ cyc.pc = "book" /\ cyc'.pc \in {"paper", "stamp"} /\ cyc'.from = cyc.from
        /\ cyc.from = book
        /\ UNCHANGED <<mode, paid, saved, stamp, missed, apart, again>>
      BY <1>3, StageFields DEF SaveBook, venue, history, Files
  <2>. QED
      BY <2>1 DEF Flat, Live, BookedUntil
<1>4. CASE SavePaper \/ SaveStamp
  <2>1. /\ cyc.pc # "off" /\ BookedUntil' = cyc.at
        /\ UNCHANGED <<paid, missed, apart, again>>
      BY <1>4 DEF SavePaper, SaveStamp, Files, BookedUntil, Live, venue, history
  <2>2. Since(cyc.at, paid) \subseteq cyc.at + 1 .. now
    <3>1. paid \subseteq 1..now
        BY DEF RecordsOK
    <3>2. \A t \in Since(cyc.at, paid) : t \in 1..now /\ cyc.at < t
        BY <3>1, SinceIs
    <3>. QED
        BY <3>2
  <2>3. Since(BookedUntil', paid') \subseteq apart'
      BY <2>1, <2>2 DEF Found
  <2>. QED
      BY <2>3 DEF Flat
<1>5. CASE Crash
  <2>1. /\ cyc'.pc = "off" /\ apart \subseteq apart' /\ again \subseteq again'
        /\ UNCHANGED <<mode, paid, saved, book, stamp, missed>>
      BY <1>5, IdleType DEF Crash
  <2>2. BookedUntil' = BookedUntil
      BY <2>1 DEF BookedUntil, Live
  <2>3. ASSUME cyc.pc \in {"paper", "stamp"}, NEW t \in Since(BookedUntil, paid)
        PROVE  t \in missed' \cup apart' \cup again'
    <3>1. t \in paid /\ BookedUntil # None /\ BookedUntil < t /\ t \in 1..now
        BY <2>3, SinceIs DEF RecordsOK
    <3>2. CASE t <= cyc.at
        BY <1>5, <2>3, <3>1, <3>2, ReadAgain DEF Written
    <3>3. CASE ~(t <= cyc.at)
        BY <2>1, <2>3, <3>1, <3>3 DEF Found
    <3>. QED
        BY <3>2, <3>3
  <2>4. cyc.pc \in {"paper", "stamp"} =>
            Since(BookedUntil, paid) \subseteq missed' \cup apart' \cup again'
      BY <2>3
  <2>. QED
      BY <2>1, <2>2, <2>4 DEF Flat
<1>6. CASE Start
    BY <1>6, StartReads DEF Flat, Start, files, Live, BookedUntil
<1>7. CASE Settles
  <2>1. /\ cyc' = cyc /\ cyc.pc \in {"off", "trade"}
        /\ paid' \subseteq paid \cup (IF short # 0 THEN {now'} ELSE {})
        /\ apart \subseteq apart' /\ (book = "FLAT" /\ short # 0 => now' \in apart')
        /\ BookedUntil' = BookedUntil /\ UNCHANGED <<book, missed, again>>
      BY <1>7 DEF Settles, files, BookedUntil, Live
  <2>2. \A t \in Since(BookedUntil, paid') : t \in Since(BookedUntil, paid) \/ (short # 0 /\ t = now')
      BY <2>1, SinceIs
  <2>. QED
      BY <2>1, <2>2 DEF Flat
<1>8. CASE ShortGoes
    BY <1>8 DEF Flat, ShortGoes, files, Live, BookedUntil
<1>9. CASE StampLost
    BY <1>9 DEF Flat, StampLost, venue, history, Live, BookedUntil, Since
<1>. QED
    BY <1>1, <1>2, <1>3, <1>4, <1>5, <1>6, <1>7, <1>8, <1>9 DEF Next, EachTrade

LEMMA NextStamped ==
  ASSUME RecordsOK, Files, Fresh, Stamped, Next
  PROVE  Stamped'
<1> USE Numbers
<1>1. CASE EachTrade
    BY <1>1, TradeKeeps DEF Stamped, Written, files
<1>2. CASE \E under \in BOOLEAN : Write(under)
    BY <1>2, StageFields DEF Stamped, Written, Write, history, Adds
<1>3. CASE SaveBook \/ SavePaper
    BY <1>3, StageFields DEF Stamped, Written, SaveBook, SavePaper, history
<1>4. CASE SaveStamp
  <2>1. \A t \in Settlements : funding[t] > 0 => t <= cyc.at
      BY <1>4 DEF Fresh, SaveStamp
  <2>. QED
      BY <1>4, <2>1 DEF Stamped, SaveStamp, history
<1>5. CASE Crash
  <2>1. /\ stamp' = stamp /\ again \subseteq again'
        /\ Written \/ cyc.pc = "write" => cyc.funding \subseteq again'
      BY <1>5 DEF Crash, Written
  <2>2. \A t \in Settlements : funding'[t] = funding[t] \/ t \in again'
      BY <1>5, <2>1, CrashRows DEF Torn, Adds
  <2>. QED
      BY <2>1, <2>2 DEF Stamped
<1>6. CASE Start
    BY <1>6, StartReads DEF Stamped, Written
<1>7. CASE Settles \/ ShortGoes \/ StampLost
    BY <1>7 DEF Stamped, Written, Settles, ShortGoes, StampLost, files, history
<1>. QED
    BY <1>1, <1>2, <1>3, <1>4, <1>5, <1>6, <1>7 DEF Next, EachTrade

LEMMA NextTold ==
  ASSUME RecordsOK, AmountsOK, Files, Found, Flat, Told, Next
  PROVE  Told'
<1> USE Numbers DEF Unpaid, Uneven
<1>1. CASE EachTrade
    BY <1>1, TradeKeeps, AmountsStay DEF Told, prices, signs, Live
<1>2. CASE Start
  <2>1. PICK got \in SUBSET Realized, exp \in {{}, ExpectedFunding}, m \in Marks :
           /\ cyc' = [pc |-> "trade", at |-> now, mark |-> m, last |-> stamp, from |-> book, book |-> book,
                      funding |-> got, expected |-> exp, orders |-> <<>>]
           /\ missed' = missed \cup (Unbooked \ got)
           /\ unexpected' = IF stamp = None \/ exp # ExpectedFunding
                            THEN unexpected \cup got ELSE unexpected
           /\ drifted' = IF Live THEN drifted \cup {t \in exp \cap paid : mark[t] # m} ELSE drifted
      BY <1>2 DEF Start
  <2>2. /\ cyc.pc = "off" /\ UNCHANGED <<mode, paid, rate, mark, apart, again>>
      BY <1>2 DEF Start, venue, prices
  <2>3. cyc'.funding = got /\ cyc'.expected = exp /\ cyc'.mark = m
      BY <2>1
  <2>4. ASSUME NEW t \in got \ exp PROVE t \in missed' \cup apart \cup again \cup unexpected'
    <3>1. CASE stamp = None \/ exp # ExpectedFunding
        BY <2>1, <3>1
    <3>2. CASE stamp # None /\ exp = ExpectedFunding
      <4>1. t \in Since(BookedUntil, 1..now) /\ (t \in paid \/ t \in apart)
        <5>1. CASE Live
            BY <5>1, SinceIs DEF Realized, RecordsOK
        <5>2. CASE ~Live
            BY <2>2, <5>2 DEF Realized, Found, Files, BookedUntil
        <5>. QED
            BY <5>1, <5>2
      <4>2. BookedUntil # None /\ BookedUntil < t /\ t \in 1..now /\ stamp < t
          BY <4>1, SinceIs DEF BookedUntil, Files
      <4>3. book # "OPEN"
          BY <2>4, <3>2, <4>2, SinceIs DEF ExpectedFunding
      <4>4. book = "FLAT"
          BY <4>3 DEF RecordsOK, Statuses
      <4>5. CASE t \in paid
          BY <2>1, <2>2, <4>2, <4>4, <4>5, SinceIs DEF Flat
      <4>. QED
          BY <4>1, <4>5
    <3>. QED
        BY <3>1, <3>2
  <2>5. Live' => \A t \in (exp \cap paid) \ drifted' : mark[t] = m
      BY <2>1, <2>2 DEF Live
  <2>. QED
      BY <2>2, <2>3, <2>4, <2>5 DEF Told
<1>3. CASE Settles
  <2>1. /\ cyc' = cyc /\ apart \subseteq apart' /\ now' = now + 1
        /\ paid' \subseteq paid \cup {now'} /\ mode' = mode
        /\ mark' = mark \/ \E m \in Marks : mark' = [mark EXCEPT ![now'] = m]
        /\ UNCHANGED <<missed, again, unexpected, drifted>>
      BY <1>3 DEF Settles, signs
  <2>1a. \A t \in Settlements : t # now' => mark'[t] = mark[t]
      BY <2>1 DEF AmountsOK
  <2>2. cyc.expected \subseteq 1..now /\ paid \subseteq 1..now
    <3>1. cyc.expected \subseteq 1..cyc.at /\ paid \subseteq 1..now
        BY DEF RecordsOK
    <3>. QED
        BY <3>1
  <2>3. \A t \in cyc.expected \cap paid' : t \in paid /\ t # now' /\ t \in Settlements
      BY <2>1, <2>2
  <2>. QED
      BY <2>1, <2>1a, <2>3 DEF Told, Live
<1>4. CASE (\E under \in BOOLEAN : Write(under)) \/ SaveBook \/ SavePaper
    BY <1>4, StageFields DEF Told, Write, SaveBook, SavePaper
<1>5. CASE SaveStamp \/ Crash
    BY <1>5, IdleType DEF Told, SaveStamp, Crash
<1>6. CASE ShortGoes \/ StampLost
    BY <1>6 DEF Told, ShortGoes, StampLost
<1>. QED
    BY <1>1, <1>2, <1>3, <1>4, <1>5, <1>6 DEF Next, EachTrade

LEMMA Scales ==
  ASSUME NEW n \in Nat, NEW m \in Nat, NEW r \in Int, Ratio * m <= 100 * n
  PROVE  /\ n * r \in Int /\ m * r \in Int
         /\ r >= 0 => 0 <= n * r /\ Ratio * (m * r) <= 100 * (n * r)
<1>1. PICK d \in Nat : 100 * n = Ratio * m + d
  <2>1. 100 * n - Ratio * m \in Nat
      BY Prices
  <2>. QED
      BY <2>1, Prices
<1>2. n * r \in Int /\ m * r \in Int /\ d * r \in Int /\ Ratio \in Int
    BY Prices
<1>3. 100 * (n * r) = (100 * n) * r /\ Ratio * (m * r) = (Ratio * m) * r
    BY Prices
<1>4. (Ratio * m + d) * r = (Ratio * m) * r + d * r
    BY Prices
<1>5. r >= 0 => 0 <= n * r /\ 0 <= d * r
    OBVIOUS
<1>6. 100 * (n * r) = Ratio * (m * r) + d * r
    BY <1>1, <1>3, <1>4
<1>7. Ratio * (m * r) \in Int
    BY <1>2
<1>. QED
    BY <1>2, <1>5, <1>6, <1>7

\* The amounts of the rows a cycle writes.
LEMMA RowAmounts ==
  ASSUME RecordsOK, AmountsOK, Fresh, Stamped, Told, cyc.pc = "write",
         NEW t \in cyc.funding \cup cyc.expected
  PROVE  /\ t \in Settlements /\ t <= now /\ t <= cyc.at
         /\ t \in cyc.expected \ Unpaid => t \in cyc.funding
         /\ t \in cyc.funding \ (Unpaid \cup Uneven) => t \in cyc.expected
         /\ t \in cyc.funding /\ rate[t] >= 0 => 0 <= Paid[t] /\ Ratio * Due[t] <= 100 * Paid[t]
         /\ t \in (cyc.funding \cap cyc.expected) \ drifted => Paid[t] = Due[t]
<1>1. t \in 1..cyc.at /\ cyc.at \in 0..now /\ now \in 0..MaxSettled /\ cyc.mark \in Marks
    BY Numbers DEF RecordsOK, AmountsOK
<1>2. t \in Settlements /\ t <= now /\ t <= cyc.at
    BY <1>1
<1>3. t \in cyc.expected \ Unpaid => t \in cyc.funding
  <2> SUFFICES ASSUME t \in cyc.expected \ Unpaid, t \notin cyc.funding PROVE FALSE
      OBVIOUS
  <2>1. ~Live /\ funding[t] > 0
      BY DEF Fresh, Unpaid
  <2>2. t \notin again
      BY <2>1 DEF Unpaid
  <2>3. stamp # None /\ stamp < t
      BY SinceIs DEF Fresh
  <2>. QED
      BY <1>2, <2>1, <2>2, <2>3, Numbers DEF Stamped, Written
<1>4. t \in cyc.funding \ (Unpaid \cup Uneven) => t \in cyc.expected
    BY DEF Told
<1>5. t \in cyc.funding => IF Live THEN t \in paid /\ mark[t] \in Marks ELSE TRUE
    BY DEF Fresh, AmountsOK
<1> DEFINE n == IF Live THEN mark[t] ELSE cyc.mark
<1>6. Paid[t] = n * rate[t] /\ Due[t] = cyc.mark * rate[t]
    BY <1>2 DEF Paid, Due, Amounts, CycleMark
<1>7. t \in cyc.funding => n \in Marks
    BY <1>1, <1>5
<1>8. rate[t] \in Int
  <2>1. rate[t] \in Rates \cup {0}
      BY <1>2 DEF AmountsOK
  <2>. QED
      BY <2>1, PricesInt, Zenon
<1> HIDE DEF n
<1>9. t \in cyc.funding /\ rate[t] >= 0 => 0 <= Paid[t] /\ Ratio * Due[t] <= 100 * Paid[t]
  <2> SUFFICES ASSUME t \in cyc.funding, rate[t] >= 0
               PROVE  0 <= Paid[t] /\ Ratio * Due[t] <= 100 * Paid[t]
      OBVIOUS
  <2>1. n \in Nat /\ cyc.mark \in Nat
    <3>1. Nat \ {0} \subseteq Nat
        OBVIOUS
    <3>. QED
        BY ONLY <1>1, <1>7, <3>1, Prices, t \in cyc.funding, Zenon
  <2>2. Ratio * cyc.mark <= 100 * n
      BY ONLY <1>1, <1>7, LedgerAssumption, t \in cyc.funding, Zenon
  <2>3. 0 <= n * rate[t] /\ Ratio * (cyc.mark * rate[t]) <= 100 * (n * rate[t])
      BY ONLY <1>8, <2>1, <2>2, Scales, rate[t] >= 0, Zenon
  <2>. QED
      BY ONLY <1>6, <2>3, Zenon
<1>10. t \in (cyc.funding \cap cyc.expected) \ drifted => Paid[t] = Due[t]
    BY <1>5, <1>6 DEF Told, n
<1>. QED
    BY <1>2, <1>3, <1>4, <1>9, <1>10

LEMMA StillBalanced ==
  ASSUME NEW e \in Int, NEW f \in Int, NEW d \in Int, NEW p \in Int,
         Ratio * e <= 100 * f
  PROVE  /\ Ratio * d <= 100 * p => Ratio * (e + d) <= 100 * (f + p)
         /\ 0 <= p => Ratio * e <= 100 * (f + p)
<1>1. Ratio * (e + d) = Ratio * e + Ratio * d /\ Ratio * e \in Int /\ Ratio * d \in Int
    BY Prices
<1>. QED
    BY <1>1

LEMMA NextBalanced ==
  ASSUME RecordsOK, AmountsOK, Fresh, Stamped, Told, Balanced, Next
  PROVE  Balanced'
<1>0. /\ received \in [Settlements -> Int] /\ due \in [Settlements -> Int]
      /\ Paid \in [Settlements -> Int] /\ Due \in [Settlements -> Int]
    BY PaidType DEF AmountsOK
<1>1. CASE EachTrade \/ SaveBook \/ SavePaper
    BY <1>1, AmountsStay DEF Balanced, Ahead, Unpaid, Uneven, prices, sums, signs, Live
<1>2. CASE \E under \in BOOLEAN : Write(under)
  <2>1. /\ cyc.pc = "write"
        /\ received' = AddsUp(received, cyc.funding, Paid) /\ due' = AddsUp(due, cyc.expected, Due)
        /\ UNCHANGED <<now, rate>> /\ Unpaid' = Unpaid /\ Uneven' = Uneven
      BY <1>2 DEF Write, venue, prices, history, signs, Unpaid, Uneven, Live
  <2>2. ASSUME NEW t \in Settlements
        PROVE  /\ Ahead(t)' => received'[t] = 0 /\ due'[t] = 0
               /\ t \notin Unpaid' /\ rate'[t] >= 0 => Ratio * due'[t] <= 100 * received'[t]
               /\ t \notin Unpaid' \cup Uneven' => received'[t] = due'[t]
    <3>1. /\ received'[t] = IF t \in cyc.funding THEN received[t] + Paid[t] ELSE received[t]
          /\ due'[t] = IF t \in cyc.expected THEN due[t] + Due[t] ELSE due[t]
        BY <2>1 DEF AddsUp
    <3>2. Ahead(t) => t \notin cyc.funding \cup cyc.expected
        BY <2>1, RowAmounts, Numbers DEF Ahead
    <3>3. Ahead(t)' => received'[t] = 0 /\ due'[t] = 0
      <4>1. Ahead(t)' => Ahead(t)
          BY <1>2, <2>1, StageFields DEF Ahead, Write
      <4>. QED
          BY <3>1, <3>2, <4>1 DEF Balanced
    <3>4. /\ t \in cyc.expected \ Unpaid => t \in cyc.funding
          /\ t \in cyc.funding \ (Unpaid \cup Uneven) => t \in cyc.expected
          /\ t \in cyc.funding /\ rate[t] >= 0 => 0 <= Paid[t] /\ Ratio * Due[t] <= 100 * Paid[t]
          /\ t \in (cyc.funding \cap cyc.expected) \ drifted => Paid[t] = Due[t]
        BY <2>1, RowAmounts
    <3>5. ASSUME t \notin Unpaid, rate[t] >= 0 PROVE Ratio * due'[t] <= 100 * received'[t]
      <4>1. /\ received[t] \in Int /\ due[t] \in Int /\ Paid[t] \in Int /\ Due[t] \in Int
            /\ Ratio * due[t] <= 100 * received[t]
          BY <1>0, <3>5 DEF Balanced
      <4>2. /\ Ratio * Due[t] <= 100 * Paid[t] =>
                   Ratio * (due[t] + Due[t]) <= 100 * (received[t] + Paid[t])
            /\ 0 <= Paid[t] => Ratio * due[t] <= 100 * (received[t] + Paid[t])
          BY <4>1, StillBalanced
      <4>3. CASE t \in cyc.funding /\ t \in cyc.expected
          BY ONLY <3>1, <3>4, <3>5, <4>2, <4>3, Zenon
      <4>4. CASE t \in cyc.funding /\ t \notin cyc.expected
          BY ONLY <3>1, <3>4, <3>5, <4>2, <4>4, Zenon
      <4>5. CASE t \notin cyc.funding
          BY ONLY <3>1, <3>4, <3>5, <4>1, <4>5, Zenon
      <4>. QED
          BY <4>3, <4>4, <4>5
    <3>6. ASSUME t \notin Unpaid \cup Uneven PROVE received'[t] = due'[t]
      <4>1. received[t] = due[t] /\ t \notin drifted
          BY <3>6 DEF Balanced, Uneven
      <4>. QED
          BY ONLY <3>1, <3>4, <3>6, <4>1, Zenon
    <3>. QED
        BY ONLY <2>1, <3>3, <3>5, <3>6, Zenon
  <2>. QED
      BY ONLY <2>2, Zenon DEF Balanced
<1>3. CASE SaveStamp
    BY <1>3, IdleType DEF Balanced, Ahead, SaveStamp, Unpaid, Uneven, venue, prices, sums, history, signs, Live
<1>4. CASE Crash
  <2>0. \A t \in Settlements : Ahead(t)' => Ahead(t)
      BY <1>4, IdleType DEF Crash, Ahead
  <2>1. /\ UNCHANGED <<now, rate, mode, missed, unexpected, drifted>>
        /\ apart \subseteq apart' /\ again \subseteq again'
        /\ cyc.pc = "write" => cyc.funding \cup cyc.expected \subseteq again'
      BY <1>4 DEF Crash, prices, signs
  <2>2. Unpaid \subseteq Unpaid' /\ Uneven \subseteq Uneven' /\ again' \subseteq Uneven'
      BY <2>1 DEF Unpaid, Uneven, Live
  <2>3. CASE received' = received /\ due' = due
    <3>1. \A t \in Settlements : /\ t \notin Unpaid' => t \notin Unpaid
                                 /\ t \notin Unpaid' \cup Uneven' => t \notin Unpaid \cup Uneven
        BY <2>2
    <3>. QED
        BY ONLY <2>0, <2>1, <2>3, <3>1, Balanced, Zenon DEF Balanced
  <2>4. CASE cyc.pc = "write" /\ Torn
    <3>1. PICK v \in Settlements, u \in Settlements :
             /\ u > 1 => cyc.funding \subseteq 1..v
             /\ received' = AddsUp(received, cyc.funding \cap 1..v, Paid)
             /\ due' = AddsUp(due, cyc.expected \cap 1 .. u - 1, Due)
        BY <2>4 DEF Torn
    <3>2. ASSUME NEW t \in Settlements
          PROVE  /\ Ahead(t)' => received'[t] = 0 /\ due'[t] = 0
                 /\ t \notin Unpaid' /\ rate'[t] >= 0 => Ratio * due'[t] <= 100 * received'[t]
                 /\ t \notin Unpaid' \cup Uneven' => received'[t] = due'[t]
      <4>1. /\ received'[t] = IF t \in cyc.funding \cap 1..v THEN received[t] + Paid[t] ELSE received[t]
            /\ due'[t] = IF t \in cyc.expected \cap 1 .. u - 1 THEN due[t] + Due[t] ELSE due[t]
          BY <3>1 DEF AddsUp
      <4>2. Ahead(t) => t \notin cyc.funding \cup cyc.expected
          BY <2>4, RowAmounts, Numbers DEF Ahead
      <4>3. Ahead(t)' => received'[t] = 0 /\ due'[t] = 0
          BY <2>0, <4>1, <4>2 DEF Balanced
      <4>4. /\ t \in cyc.expected \ Unpaid => t \in cyc.funding
            /\ t \in cyc.funding /\ rate[t] >= 0 => 0 <= Paid[t] /\ Ratio * Due[t] <= 100 * Paid[t]
          BY <2>4, RowAmounts
      <4>5. ASSUME t \notin Unpaid', rate[t] >= 0 PROVE Ratio * due'[t] <= 100 * received'[t]
        <5>0. t \notin Unpaid
            BY <2>2, <4>5
        <5>1. /\ received[t] \in Int /\ due[t] \in Int /\ Paid[t] \in Int /\ Due[t] \in Int
              /\ Ratio * due[t] <= 100 * received[t]
            BY <1>0, <4>5, <5>0 DEF Balanced
        <5>2. /\ Ratio * Due[t] <= 100 * Paid[t] =>
                     Ratio * (due[t] + Due[t]) <= 100 * (received[t] + Paid[t])
              /\ 0 <= Paid[t] => Ratio * due[t] <= 100 * (received[t] + Paid[t])
            BY <5>1, StillBalanced
        <5>3. t \in cyc.expected \cap 1 .. u - 1 => t \in cyc.funding \cap 1..v
          <6>1. t \in 1 .. u - 1 => u > 1
              OBVIOUS
          <6>. QED
              BY <3>1, <4>4, <5>0, <6>1
        <5>4. CASE t \in cyc.funding \cap 1..v /\ t \in cyc.expected \cap 1 .. u - 1
            BY ONLY <4>1, <4>4, <4>5, <5>2, <5>4, Zenon
        <5>5. CASE t \in cyc.funding \cap 1..v /\ t \notin cyc.expected \cap 1 .. u - 1
            BY ONLY <4>1, <4>4, <4>5, <5>2, <5>5, Zenon
        <5>6. CASE t \notin cyc.funding \cap 1..v
            BY ONLY <4>1, <5>1, <5>3, <5>6, Zenon
        <5>. QED
            BY <5>4, <5>5, <5>6
      <4>6. ASSUME t \notin Unpaid' \cup Uneven' PROVE received'[t] = due'[t]
        <5>1. t \notin Unpaid \cup Uneven /\ t \notin cyc.funding \cup cyc.expected
            BY <2>1, <2>2, <2>4, <4>6
        <5>2. received[t] = due[t]
            BY <5>1 DEF Balanced
        <5>. QED
            BY ONLY <4>1, <5>1, <5>2, Zenon
      <4>. QED
          BY ONLY <2>1, <4>3, <4>5, <4>6, Zenon
    <3>. QED
        BY ONLY <3>2, Zenon DEF Balanced
  <2>. QED
      BY <1>4, <2>3, <2>4, CrashRows DEF sums
<1>5. CASE Start
  <2>1. /\ UNCHANGED <<now, rate, mode, apart, again, received, due>> /\ missed \subseteq missed'
        /\ unexpected \subseteq unexpected' /\ drifted \subseteq drifted'
      BY <1>5 DEF Start, venue, files, prices, sums
  <2>2. Unpaid \subseteq Unpaid' /\ Uneven \subseteq Uneven'
      BY <2>1 DEF Unpaid, Uneven, Live
  <2>2a. \A t \in Settlements : Ahead(t)' => Ahead(t)
      BY <1>5, StartReads DEF Ahead
  <2>3. \A t \in Settlements : /\ t \notin Unpaid' => t \notin Unpaid
                               /\ t \notin Unpaid' \cup Uneven' => t \notin Unpaid \cup Uneven
      BY <2>2
  <2>. QED
      BY ONLY <2>1, <2>2a, <2>3, Balanced, Zenon DEF Balanced
<1>6. CASE Settles
  <2>1. /\ now' = now + 1 /\ \E n \in Rates : rate' = [rate EXCEPT ![now'] = n]
        /\ apart \subseteq apart'
        /\ UNCHANGED <<mode, cyc, received, due, missed, again, unexpected, drifted>>
      BY <1>6 DEF Settles, files, sums, signs
  <2>2. Unpaid \subseteq Unpaid' /\ Uneven \subseteq Uneven'
      BY <2>1 DEF Unpaid, Uneven, Live
  <2>3. now \in Nat /\ \A t \in Settlements : t # now' => rate'[t] = rate[t]
      BY <2>1, Numbers DEF AmountsOK
  <2>4. ASSUME NEW t \in Settlements
        PROVE  /\ Ahead(t)' => received'[t] = 0 /\ due'[t] = 0
               /\ t \notin Unpaid' /\ rate'[t] >= 0 => Ratio * due'[t] <= 100 * received'[t]
               /\ t \notin Unpaid' \cup Uneven' => received'[t] = due'[t]
    <3>1. CASE t > now
      <4>1. received'[t] = 0 /\ due'[t] = 0
          BY <2>1, <3>1 DEF Balanced, Ahead
      <4>. QED
          BY <4>1, Prices
    <3>2. CASE ~(t > now)
      <4>1. (Ahead(t)' => Ahead(t)) /\ rate'[t] = rate[t]
          BY <2>1, <2>3, <3>2 DEF Ahead
      <4>2. (t \notin Unpaid' => t \notin Unpaid)
            /\ (t \notin Unpaid' \cup Uneven' => t \notin Unpaid \cup Uneven)
          BY <2>2
      <4>. QED
          BY ONLY <2>1, <4>1, <4>2, Balanced, t \in Settlements, Zenon DEF Balanced
    <3>. QED
        BY <3>1, <3>2
  <2>. QED
      BY ONLY <2>4, Zenon DEF Balanced
<1>7. CASE ShortGoes \/ StampLost
    BY <1>7 DEF Balanced, Ahead, ShortGoes, StampLost, Unpaid, Uneven, venue, files, prices, sums, history,
                signs, Live
<1>. QED
    BY <1>1, <1>2, <1>3, <1>4, <1>5, <1>6, <1>7 DEF Next, EachTrade

-----------------------------------------------------------------------------
(* The theorems.                                                           *)

LEMMA Invariance == Spec => [](IInv /\ AInv)
<1>1. Init => IInv /\ AInv
    BY InitIInv, InitAInv
<1>2. IInv /\ AInv /\ Next => IInv'
    BY NextTypes, NextOpens, NextFiles, NextFound, NextFresh, NextOnce, NextKept DEF IInv
<1>3. IInv /\ AInv /\ Next => AInv'
    BY NextAmounts, NextFlat, NextStamped, NextTold, NextBalanced DEF IInv, AInv
<1>4. IInv /\ AInv /\ UNCHANGED vars => IInv' /\ AInv'
  <2> SUFFICES ASSUME IInv, AInv, UNCHANGED vars PROVE IInv' /\ AInv'
      OBVIOUS
  <2> USE DEF vars, venue, files, history, prices, sums, signs
  <2>1. RecordsOK' /\ Files' /\ Opens'
      BY DEF IInv, RecordsOK, Files, Opens, Live
  <2>2. Found' /\ Fresh'
      BY DEF IInv, Found, Fresh, BookedUntil, Live
  <2>3. Once' /\ Kept'
      BY DEF IInv, Once, Written, Kept, BookedUntil, Live
  <2>4. AmountsOK' /\ Flat' /\ Stamped' /\ Told'
      BY DEF AInv, AmountsOK, Flat, Stamped, Told, Written, Unpaid, Uneven, BookedUntil, Live
  <2>5. Balanced'
      BY DEF AInv, Balanced, Ahead, Unpaid, Uneven, Live
  <2>. QED
      BY <2>1, <2>2, <2>3, <2>4, <2>5 DEF IInv, AInv
<1>. QED
    BY <1>1, <1>2, <1>3, <1>4, PTL DEF Spec

(* Whatever is killed, lost or unreadable, in any order and at any time,   *)
(* the books, rows and stamps keep their types, and no stamp is ahead of   *)
(* the settlements.                                                        *)
THEOREM TypeCorrect == Spec => []LedgerTypeOK
<1>1. IInv /\ AInv => LedgerTypeOK
    BY DEF IInv, AInv, LedgerTypeOK
<1>. QED
    BY <1>1, Invariance, PTL

(* A settlement is in the ledger twice only if a cycle was killed between  *)
(* its rows and its stamp; one that was paid and read is in it once there  *)
(* is a stamp after it; and none is in it that was not paid, but of paper  *)
(* for a settlement while a cycle traded.                                  *)
THEOREM FundingOnce == Spec => []FundingIsBookedOnce
<1>1. IInv => FundingIsBookedOnce
  <2> SUFFICES ASSUME IInv, NEW t \in Settlements
               PROVE  /\ funding[t] > 1 \/ expected[t] > 1 => t \in again
                      /\ t \in paid \ missed /\ t <= stamp => funding[t] > 0
                      /\ funding[t] > 0 => t \in paid \/ (~Live /\ t \in apart)
      BY DEF FundingIsBookedOnce
  <2>1. funding[t] \in Nat /\ expected[t] \in Nat
      BY DEF IInv, RecordsOK
  <2>2. funding[t] > 1 \/ expected[t] > 1 => t \in again
      BY <2>1 DEF IInv, Once
  <2>3. stamp <= BookedUntil /\ stamp \in Int /\ BookedUntil \in Int
      BY Numbers DEF IInv, Files, BookedUntil
  <2>4. t \in paid \ missed /\ t <= stamp => funding[t] > 0
      BY <2>3 DEF IInv, Kept
  <2>. QED
      BY <2>2, <2>4 DEF IInv, Kept
<1>. QED
    BY <1>1, Invariance, PTL

LEMMA NoAlarm ==
  ASSUME NEW e \in Int, NEW f \in Int, e > 0, e = f \/ Ratio * e <= 100 * f
  PROVE  ~(100 * f < Ratio * e)
<1>1. Ratio * e \in Int /\ Ratio * e <= 100 * e
    BY Prices
<1>. QED
    BY <1>1

(* An UNDERPERFORMANCE always has its cause in the window.  While every    *)
(* settlement of it pays, whatever the marks: one that was paid and could  *)
(* not be read, or that found another position than the book has, or, on   *)
(* paper, one a killed cycle has expected twice.  Otherwise also any that  *)
(* a killed cycle wrote, that was booked and not expected, or that was     *)
(* expected at another mark.                                               *)
THEOREM AlarmsHaveCauses == Spec => AlarmHasCause
<1> DEFINE A == Write(TRUE) =>
        \/ InWindow \cap Unpaid # {}
        \/ InWindow \cap Uneven # {} /\ \E t \in InWindow : rate[t] < 0
<1>1. IInv /\ AInv /\ [Next]_vars => [A]_vars
  <2> SUFFICES ASSUME IInv, AInv, Write(TRUE), InWindow \cap Unpaid = {},
                      InWindow \cap Uneven = {} \/ ~ \E t \in InWindow : rate[t] < 0
               PROVE  FALSE
      OBVIOUS
  <2> DEFINE start == cyc.at - Window
             f == [t \in Settlements |-> IF t > start THEN received'[t] ELSE 0]
             e == [t \in Settlements |-> IF t > start THEN due'[t] ELSE 0]
  <2>0. Next
      BY DEF Next
  <2>1. Balanced' /\ AmountsOK' /\ Fresh'
      BY <2>0, NextBalanced, NextAmounts, NextFresh DEF IInv, AInv
  <2>2. /\ UNCHANGED <<mode, now, rate, missed, apart, again, unexpected, drifted>>
        /\ cyc.pc = "write" /\ cyc.at \in Int /\ now \in Int /\ Window \in Int
      BY Numbers DEF Write, venue, prices, history, signs, IInv
  <2>3. Unpaid' = Unpaid /\ Uneven' = Uneven
      BY <2>2 DEF Unpaid, Uneven, Live
  <2>4. \A t \in Settlements : f[t] \in Int /\ e[t] \in Int /\ rate[t] \in Int
    <3>1. \A t \in Settlements : received'[t] \in Int /\ due'[t] \in Int
        BY <2>1 DEF AmountsOK
    <3>2. \A t \in Settlements : rate[t] \in Rates \cup {0}
        BY DEF AInv, AmountsOK
    <3>3. \A t \in Settlements : rate[t] \in Int
        BY <3>2, PricesInt, Zenon
    <3>. QED
        BY <3>1, <3>3
  <2>5. \A t \in Settlements : t > start => t \in InWindow \/ (received'[t] = 0 /\ due'[t] = 0)
    <3>1. \A t \in Settlements : Ahead(t)' => received'[t] = 0 /\ due'[t] = 0
        BY <2>1 DEF Balanced
    <3>2. cyc'.at = cyc.at /\ cyc'.pc # "off"
        BY StageFields DEF Write, IInv
    <3>. QED
        BY <2>2, <3>1, <3>2 DEF Ahead, InWindow
  <2>6. Underperformance(expected', received', due')
      BY DEF Write
  <2>7. /\ AmountAfter(received', start) = Sum(f, MaxSettled)
        /\ AmountAfter(due', start) = Sum(e, MaxSettled)
      BY DEF AmountAfter
  <2> HIDE DEF f, e
  <2>8. Sum(f, MaxSettled) \in Int /\ Sum(e, MaxSettled) \in Int
      BY <2>4, SumInt
  <2>9. Sum(e, MaxSettled) > 0 /\ 100 * Sum(f, MaxSettled) < Ratio * Sum(e, MaxSettled)
      BY <2>6, <2>7 DEF Underperformance
  <2>10. CASE \E t \in InWindow : rate[t] < 0
    <3>1. \A t \in InWindow : t \in Settlements => received'[t] = due'[t]
        BY <2>1, <2>3, <2>10 DEF Balanced
    <3>2. \A t \in Settlements : f[t] = e[t]
        BY <2>5, <3>1 DEF f, e
    <3>3. Sum(f, MaxSettled) = Sum(e, MaxSettled)
        BY <2>4, <3>2, SumSame
    <3>. QED
        BY <2>8, <2>9, <3>3, NoAlarm
  <2>11. CASE ~ \E t \in InWindow : rate[t] < 0
    <3>1. ASSUME NEW t \in Settlements PROVE Ratio * e[t] <= 100 * f[t]
      <4>1. CASE t > start /\ t \in InWindow
        <5>1. rate'[t] >= 0 /\ t \notin Unpaid'
            BY <2>2, <2>3, <2>4, <2>11, <4>1
        <5>2. Ratio * due'[t] <= 100 * received'[t]
            BY ONLY <2>1, <3>1, <5>1, t \in Settlements, Zenon DEF Balanced
        <5>. QED
            BY <4>1, <5>2 DEF e, f
      <4>2. CASE ~(t > start /\ t \in InWindow)
        <5>1. e[t] = 0 /\ f[t] = 0
            BY <2>5, <4>2 DEF e, f
        <5>. QED
            BY <5>1, Prices
      <4>. QED
          BY <4>1, <4>2
    <3>2. Ratio * Sum(e, MaxSettled) <= 100 * Sum(f, MaxSettled)
        BY <2>4, <3>1, SumRatio, Prices
    <3>. QED
        BY <2>8, <2>9, <3>2, NoAlarm
  <2>. QED
      BY <2>10, <2>11
<1>. QED
    BY <1>1, Invariance, PTL DEF Spec, AlarmHasCause

-----------------------------------------------------------------------------
(* The round trips.                                                        *)

Shown == IF cyc.pc = "off" THEN book ELSE cyc.book

(* There is a short if and only if the book shows it, but of the positions *)
(* that TripIsWhole excepts; a cycle without orders changes neither.       *)
Held ==
    /\ short \in {0, opened} /\ (~Live => saved.short \in {0, opened})
    /\ opened \notin broken =>
          /\ Shown = "OPEN" <=> short # 0
          /\ cyc.pc # "off" /\ cyc.orders = <<>> => cyc.book = cyc.from
    /\ ~Live /\ cyc.pc # "off" /\ cyc.orders = <<>> => short = saved.short

Rows == IF cyc.pc = "write" THEN orders \o cyc.orders ELSE orders
AllOf(rows, p) == \E e \in LastEnter(rows) : \A i \in e .. Len(rows) : rows[i].of = p

(* Of a position that is open, or is closed by the cycle at work, the rows *)
(* begin with the last entry, and no trip is told yet.                     *)
Untold ==
    opened \notin broken =>
        /\ Shown = "OPEN" \/ (cyc.pc # "off" /\ cyc.from = "OPEN") => AllOf(Rows, opened)
        /\ cyc.pc = "write" /\ cyc.from = "OPEN" /\ cyc.book = "FLAT" =>
              cyc.orders = <<RowOf("sell", opened), RowOf("cover", opened)>>
        /\ Shown = "OPEN" \/ (cyc.pc \in {"trade", "write"} /\ cyc.from = "OPEN") =>
              \A j \in DOMAIN trips : trips[j].of # opened

TripsOfOpened == \A j \in DOMAIN trips : trips[j].of <= opened

TInv == Held /\ Untold /\ TripsOfOpened /\ TripIsWhole

LEMMA OneLastEnter ==
  ASSUME NEW rows \in Seq(Leg), NEW d \in LastEnter(rows), NEW e \in LastEnter(rows)
  PROVE  d = e
<1>1. Len(rows) \in Nat /\ DOMAIN rows = 1..Len(rows)
    BY LenProperties
<1>. QED
    BY <1>1 DEF LastEnter

LEMMA AllOfGrows ==
  ASSUME NEW rows \in Seq(Leg), NEW more \in Seq(Leg), NEW p, AllOf(rows, p),
         \A i \in 1..Len(more) : more[i].of = p /\ more[i].row # "enter"
  PROVE  AllOf(rows \o more, p)
<1> DEFINE all == rows \o more
<1>1. /\ all \in Seq(Leg) /\ Len(all) = Len(rows) + Len(more)
      /\ \A i \in 1 .. Len(rows) + Len(more) :
            all[i] = IF i <= Len(rows) THEN rows[i] ELSE more[i - Len(rows)]
    BY ConcatProperties
<1>2. Len(rows) \in Nat /\ DOMAIN rows = 1..Len(rows) /\ Len(more) \in Nat /\ DOMAIN all = 1..Len(all)
    BY <1>1, LenProperties
<1> HIDE DEF all
<1>3. PICK e \in LastEnter(rows) : \A i \in e .. Len(rows) : rows[i].of = p
    BY DEF AllOf
<1>4. e \in 1..Len(rows) /\ rows[e].row = "enter"
      /\ \A j \in e + 1 .. Len(rows) : rows[j].row # "enter"
    BY <1>2, <1>3 DEF LastEnter
<1>5. \A i \in e .. Len(all) : all[i].of = p /\ (i > e => all[i].row # "enter")
  <2> TAKE i \in e .. Len(all)
  <2>1. CASE i <= Len(rows)
      BY <1>1, <1>2, <1>3, <1>4, <2>1
  <2>2. CASE i > Len(rows)
    <3>1. i - Len(rows) \in 1..Len(more) /\ all[i] = more[i - Len(rows)]
        BY <1>1, <1>2, <1>4, <2>2
    <3>. QED
        BY <3>1
  <2>. QED
      BY <1>1, <1>2, <1>4, <2>1, <2>2
<1>6. e \in LastEnter(all)
  <2>1. e \in 1..Len(all) /\ all[e].row = "enter"
      BY <1>1, <1>2, <1>4
  <2>2. \A j \in e + 1 .. Len(all) : all[j].row # "enter"
      BY <1>2, <1>5, <2>1
  <2>. QED
      BY <1>2, <2>1, <2>2 DEF LastEnter
<1>. QED
    BY <1>5, <1>6 DEF AllOf, all

LEMMA AllOfEntered ==
  ASSUME NEW rows \in Seq(Leg), NEW p \in Positions
  PROVE  AllOf(rows \o <<RowOf("enter", p)>>, p)
<1> DEFINE more == <<RowOf("enter", p)>>
           all == rows \o more
<1>1. more \in Seq(Leg) /\ Len(more) = 1 /\ more[1].row = "enter" /\ more[1].of = p
    BY RowsType DEF RowOf
<1> HIDE DEF more
<1>2. /\ all \in Seq(Leg) /\ Len(all) = Len(rows) + Len(more)
      /\ \A i \in 1 .. Len(rows) + Len(more) :
            all[i] = IF i <= Len(rows) THEN rows[i] ELSE more[i - Len(rows)]
    BY <1>1, ConcatProperties, SMTT(30)
<1>3. Len(rows) \in Nat /\ DOMAIN all = 1..Len(all)
    BY <1>2, LenProperties
<1> HIDE DEF all
<1>4. Len(all) \in 1..Len(all) /\ all[Len(all)] = more[1]
  <2>1. Len(all) = Len(rows) + 1 /\ Len(all) - Len(rows) = 1 /\ ~(Len(all) <= Len(rows))
      BY <1>1, <1>2, <1>3
  <2>2. Len(all) \in 1 .. Len(rows) + Len(more)
      BY <1>1, <1>3, <2>1
  <2>3. all[Len(all)] = more[Len(all) - Len(rows)]
      BY <1>2, <2>1, <2>2
  <2>. QED
      BY <1>3, <2>1, <2>3
<1>5. Len(all) \in LastEnter(all)
    BY <1>1, <1>3, <1>4 DEF LastEnter
<1>6. \A i \in Len(all) .. Len(all) : all[i].of = p
    BY <1>1, <1>3, <1>4
<1>. QED
    BY <1>5, <1>6 DEF AllOf, all, more

\* A trip from the last entry of a position to its two exits.
LEMMA WholeTrip ==
  ASSUME NEW rows \in Seq(Leg), NEW p, NEW e \in LastEnter(rows), AllOf(rows, p),
         Len(rows) > 1, rows[Len(rows) - 1].row = "sell", rows[Len(rows)].row = "cover",
         NEW trip, trip.of = p, trip.legs = SubSeq(rows, e, Len(rows))
  PROVE  Whole(trip)
<1> DEFINE n == Len(rows)
           legs == {trip.legs[j] : j \in DOMAIN trip.legs}
<1>1. n \in Nat /\ DOMAIN rows = 1..n
    BY LenProperties
<1>2. e \in 1..n /\ rows[e].row = "enter"
    BY <1>1 DEF LastEnter
<1>3. e <= n - 2
    BY <1>1, <1>2
<1>4. \A i \in e..n : rows[i].of = p /\ rows[i] \in Leg
    BY <1>1, <1>2, OneLastEnter, ElementOfSeq DEF AllOf
<1>5. /\ trip.legs \in Seq(Leg) /\ Len(trip.legs) = n - e + 1
      /\ \A j \in 1 .. n - e + 1 : trip.legs[j] = rows[e + j - 1]
    BY <1>1, <1>2, <1>4, SubSeqProperties
<1> HIDE DEF n
<1>6. DOMAIN trip.legs = 1 .. n - e + 1
    BY <1>5, LenProperties
<1>7. legs = {rows[i] : i \in e..n}
  <2>1. \A j \in 1 .. n - e + 1 : e + j - 1 \in e..n
      BY <1>1, <1>2
  <2>2. \A i \in e..n : i - e + 1 \in 1 .. n - e + 1 /\ e + (i - e + 1) - 1 = i
      BY <1>1, <1>2
  <2>3. \A l \in legs : l \in {rows[i] : i \in e..n}
      BY <1>5, <1>6, <2>1
  <2>4. ASSUME NEW i \in e..n PROVE rows[i] \in legs
    <3>1. trip.legs[i - e + 1] = rows[i]
        BY <1>5, <2>2
    <3>. QED
        BY <1>6, <2>2, <3>1
  <2>. QED
      BY <2>3, <2>4
<1> HIDE DEF legs
<1>8. {e, n - 1, n} \subseteq e..n
    BY <1>1, <1>2, <1>3
<1>9. \A i \in e..n : rows[i].row \in {"enter", "cover", "sell"}
    BY <1>4 DEF Leg
<1>10. rows[n - 1].row = "sell" /\ rows[n].row = "cover"
    BY DEF n
<1>11. {l.of : l \in legs} = {p}
    BY <1>4, <1>7, <1>8
<1>12. {l.row : l \in legs} = {"enter", "cover", "sell"}
    BY <1>2, <1>7, <1>8, <1>9, <1>10
<1>. QED
    BY <1>11, <1>12 DEF Whole, legs

\* Each trade, as far as the position is concerned.
LEMMA TradeOf ==
  ASSUME RecordsOK, Opens, Files, Held, EachTrade, opened' \notin broken'
  PROVE  /\ opened \notin broken \/ opened' = opened + 1
         /\ \/ /\ opened' = opened /\ short' = short
               /\ cyc'.orders = <<>> /\ cyc'.book = cyc.book
            \/ /\ opened' = opened + 1 /\ short = 0 /\ short' = opened' /\ cyc.book = "FLAT"
               /\ cyc'.orders = <<RowOf("enter", opened')>> /\ cyc'.book = "OPEN"
            \/ /\ opened' = opened /\ short = opened /\ short # 0 /\ cyc.book = "OPEN"
               /\ cyc'.orders = <<RowOf("sell", opened), RowOf("cover", opened)>>
               /\ (cyc'.book = "FLAT" /\ short' = 0) \/ (cyc'.book = "OPEN" /\ short' = short)
<1> USE Numbers
<1>1. \A rows, n, status : Traded(rows, n, status) =>
         cyc'.orders = rows /\ short' = n /\ cyc'.book = status
    BY DEF RecordsOK, Traded, Cycle
<1>2. cyc.pc = "trade" /\ Shown = cyc.book /\ cyc.book \in Statuses
    BY TradeKeeps DEF Shown, RecordsOK, Cycle
<1>3. CASE Nothing
    BY <1>1, <1>3 DEF Nothing
<1>4. CASE Enter
    BY <1>1, <1>4 DEF Enter, CanEnter
<1>5. CASE EnterUnknown
    BY <1>5 DEF EnterUnknown
<1>6. CASE Adopt
    BY <1>2, <1>6 DEF Adopt, Held
<1>7. CASE Exit
  <2>1. short # 0 /\ short = opened
      BY <1>2, <1>7 DEF Exit, Held
  <2>. QED
      BY <1>1, <1>7, <2>1 DEF Exit
<1>8. CASE ExitIncomplete
  <2>1. short # 0 /\ short = opened /\ opened' = opened /\ cyc.book = "OPEN"
      BY <1>8 DEF ExitIncomplete, Held
  <2>2. Traded(<<RowOf("sell", short), RowOf("cover", short)>>, short, "OPEN") /\ UNCHANGED broken
      BY <1>8, <2>1 DEF ExitIncomplete
  <2>. QED
      BY <1>1, <2>1, <2>2
<1>. QED
    BY <1>3, <1>4, <1>5, <1>6, <1>7, <1>8 DEF EachTrade

LEMMA TradeShort ==
  ASSUME RecordsOK, Held, EachTrade
  PROVE  /\ short' \in {0, opened'} /\ opened' \in {opened, opened + 1} /\ broken \subseteq broken'
         /\ opened' # opened => short = 0
         /\ ~Live /\ cyc'.orders = <<>> => short' = short
<1> USE Numbers
<1>1. \A rows, n, status : Traded(rows, n, status) => cyc'.orders = rows /\ short' = n
    BY DEF RecordsOK, Traded, Cycle
<1>2. short \in {0, opened}
    BY DEF Held
<1>3. CASE Nothing
    BY <1>1, <1>2, <1>3 DEF Nothing
<1>4. CASE Enter
  <2>1. /\ opened' = opened + 1 /\ short = 0 /\ broken' = broken
        /\ \E rows : rows # <<>> /\ Traded(rows, opened', "OPEN")
      BY <1>4 DEF Enter, CanEnter
  <2>. QED
      BY <1>1, <2>1
<1>5. CASE EnterUnknown
  <2>1. /\ opened' = opened + 1 /\ short = 0 /\ Live /\ broken' = broken \cup {opened'}
        /\ \E rows, status : \E n \in {0, opened'} : Traded(rows, n, status)
      BY <1>5 DEF EnterUnknown, CanEnter
  <2>. QED
      BY <1>1, <2>1
<1>6. CASE Adopt
    BY <1>1, <1>2, <1>6 DEF Adopt
<1>7. CASE Exit
  <2>1. /\ opened' = opened /\ broken' = broken
        /\ \E rows : (short # 0 => rows # <<>>) /\ Traded(rows, 0, "FLAT")
      BY <1>7 DEF Exit
  <2>. QED
      BY <1>1, <2>1
<1>8. CASE ExitIncomplete
  <2>1. /\ opened' = opened /\ broken \subseteq broken'
        /\ \E rows : \E n \in {0, short} : rows # <<>> /\ Traded(rows, n, "OPEN")
      BY <1>8 DEF ExitIncomplete
  <2>. QED
      BY <1>1, <1>2, <2>1
<1>. QED
    BY <1>3, <1>4, <1>5, <1>6, <1>7, <1>8 DEF EachTrade

\* What the steps that write the files leave of the position.
LEMMA WritesKeep ==
  ASSUME RecordsOK, (\E under \in BOOLEAN : Write(under)) \/ SaveBook \/ SavePaper
  PROVE  /\ cyc.pc # "off" /\ cyc'.pc # "off" /\ cyc'.book = cyc.book /\ cyc'.from = cyc.from
         /\ cyc'.orders = cyc.orders /\ UNCHANGED <<mode, short, opened, broken>>
<1>1. CASE \E under \in BOOLEAN : Write(under)
    BY <1>1, StageFields DEF Write, venue, history
<1>2. CASE SaveBook
    BY <1>2, StageFields DEF SaveBook, venue, history
<1>3. CASE SavePaper
    BY <1>3, StageFields DEF SavePaper, venue, history
<1>. QED
    BY <1>1, <1>2, <1>3

LEMMA CrashKeeps ==
  ASSUME RecordsOK, Crash
  PROVE  /\ cyc.pc # "off" /\ cyc'.pc = "off" /\ short' = (IF Live THEN short ELSE saved.short)
         /\ UNCHANGED <<mode, opened, saved, book, stamp, trips>> /\ broken \subseteq broken'
         /\ opened \notin broken' => cyc.orders = <<>> \/ cyc.pc = "stamp"
BY IdleType DEF Crash

LEMMA NextHeld ==
  ASSUME RecordsOK, Opens, Files, Held, Next
  PROVE  Held'
<1> USE Numbers
<1>1. CASE EachTrade
  <2>1. /\ cyc'.pc = "write" /\ cyc.pc = "trade" /\ UNCHANGED <<mode, saved>>
        /\ cyc'.from = cyc.from /\ cyc.from = cyc.book
    <3>1. PICK rows, n, status : Trades(rows, n, status)
        BY <1>1, EachTradeTrades
    <3>. QED
        BY <3>1, TradesFields DEF files, Files
  <2>2. short' \in {0, opened'} /\ (~Live' => saved'.short \in {0, opened'})
      BY <1>1, <2>1, TradeShort DEF Held, Files, Live
  <2>3. ~Live' /\ cyc'.orders = <<>> => short' = saved'.short
      BY <1>1, <2>1, TradeShort DEF Files, Live
  <2>4. ASSUME opened' \notin broken'
        PROVE  /\ Shown' = "OPEN" <=> short' # 0
               /\ cyc'.orders = <<>> => cyc'.book = cyc'.from
    <3>1. CASE opened' = opened /\ short' = short /\ cyc'.orders = <<>> /\ cyc'.book = cyc.book
      <4>1. opened \notin broken /\ cyc.book = book
          BY <1>1, <2>1, <2>4, <3>1, TradeShort DEF Files
      <4>2. cyc.book = "OPEN" <=> short # 0
          BY <2>1, <4>1 DEF Held, Shown
      <4>. QED
          BY <2>1, <3>1, <4>1, <4>2 DEF Shown
    <3>2. CASE opened' = opened + 1 /\ short' = opened' /\ cyc'.book = "OPEN" /\ cyc'.orders # <<>>
        BY <2>1, <3>2 DEF Shown
    <3>3. CASE cyc'.orders # <<>> /\ (\/ cyc'.book = "FLAT" /\ short' = 0
                                      \/ cyc'.book = "OPEN" /\ short' = short /\ short # 0)
        BY <2>1, <3>3 DEF Shown
    <3>4. \A a, b : <<a>> # <<>> /\ <<a, b>> # <<>>
        OBVIOUS
    <3>. QED
        BY <1>1, <2>4, <3>1, <3>2, <3>3, <3>4, TradeOf
  <2>. QED
      BY <2>1, <2>2, <2>3, <2>4 DEF Held
<1>2. CASE (\E under \in BOOLEAN : Write(under)) \/ SaveBook
  <2>1. saved' = saved
      BY <1>2 DEF Write, SaveBook
  <2>. QED
      BY <1>2, <2>1, WritesKeep DEF Held, Shown, Live
<1>3. CASE SavePaper
  <2>1. saved'.short = short
      BY <1>3 DEF SavePaper
  <2>. QED
      BY <1>3, <2>1, WritesKeep DEF Held, Shown, Live
<1>4. CASE SaveStamp
    BY <1>4, IdleType DEF Held, Shown, Files, SaveStamp, venue, history, Live
<1>5. CASE Crash
  <2>1. short' \in {0, opened}
      BY <1>5, CrashKeeps DEF Held
  <2>2. ASSUME opened \notin broken' PROVE book = "OPEN" <=> short' # 0
    <3>1. cyc.book = "OPEN" <=> short # 0
        BY <1>5, <2>2, CrashKeeps DEF Held, Shown
    <3>2. CASE cyc.pc = "stamp"
        BY <1>5, <3>1, <3>2, CrashKeeps DEF Files
    <3>3. CASE cyc.orders = <<>>
      <4>1. cyc.book = cyc.from
          BY <1>5, <2>2, <3>3, CrashKeeps DEF Held
      <4>2. book = cyc.book
          BY <1>5, <4>1, CrashKeeps DEF Files, RecordsOK, Cycle
      <4>3. short' = short
          BY <1>5, <3>3, CrashKeeps DEF Held
      <4>. QED
          BY <3>1, <4>2, <4>3
    <3>. QED
        BY <1>5, <2>2, <3>2, <3>3, CrashKeeps
  <2>. QED
      BY <1>5, <2>1, <2>2, CrashKeeps DEF Held, Shown, Live
<1>6. CASE Start
    BY <1>6 DEF Held, Shown, Files, Start, venue, files, Live
<1>7. CASE Settles
    BY <1>7 DEF Held, Shown, Settles, files, Live
<1>8. CASE ShortGoes
    BY <1>8 DEF Held, Shown, ShortGoes, files, Live
<1>9. CASE StampLost
    BY <1>9 DEF Held, Shown, StampLost, venue, history, Live
<1>. QED
    BY <1>1, <1>2, <1>3, <1>4, <1>5, <1>6, <1>7, <1>8, <1>9 DEF Next, EachTrade

LEMMA TripsAre ==
  ASSUME RecordsOK
  PROVE  \A j \in DOMAIN trips : trips[j].of \in Int
<1>1. trips \in Seq(Trip)
    BY DEF RecordsOK
<1>2. \A j \in DOMAIN trips : trips[j] \in Trip
    BY <1>1, ElementOfSeq, LenProperties
<1>. QED
    BY <1>2 DEF Trip, Positions

LEMMA NoOrders == RecordsOK => orders \o <<>> = orders
BY ConcatEmptySeq DEF RecordsOK

\* The rows and trips a step leaves alone.
LEMMA RowsKept ==
  ASSUME RecordsOK,
         Settles \/ ShortGoes \/ StampLost \/ Start \/ SaveBook \/ SavePaper \/ SaveStamp
  PROVE  /\ cyc.pc # "write" /\ cyc'.pc # "write" /\ cyc'.orders \in {cyc.orders, <<>>}
         /\ UNCHANGED <<orders, trips, opened>> /\ broken \subseteq broken'
<1>1. CASE SaveBook \/ SavePaper
    BY <1>1, StageFields DEF SaveBook, SavePaper, venue, history
<1>2. CASE SaveStamp
    BY <1>2, IdleType DEF SaveStamp, venue, history
<1>3. CASE Start
    BY <1>3 DEF Start, venue, files
<1>4. CASE Settles
    BY <1>4 DEF Settles, files
<1>5. CASE ShortGoes \/ StampLost
    BY <1>5 DEF ShortGoes, StampLost, files, venue, history
<1>. QED
    BY <1>1, <1>2, <1>3, <1>4, <1>5

\* No position shown that was not, and none more being closed.
LEMMA UntoldKept ==
  ASSUME RecordsOK, Untold, opened' = opened, broken \subseteq broken',
         opened \notin broken' =>
            /\ Rows' = Rows /\ trips' = trips /\ cyc'.pc # "write"
            /\ Shown' = "OPEN" => Shown = "OPEN"
            /\ cyc'.pc # "off" /\ cyc'.from = "OPEN" =>
                  Shown = "OPEN" \/ (cyc.pc # "off" /\ cyc.from = "OPEN" /\ cyc'.pc # "trade")
                                 \/ (cyc.pc = "trade" /\ cyc.from = "OPEN")
  PROVE  Untold'
BY DEF Untold

LEMMA NextUntold ==
  ASSUME RecordsOK, Opens, Files, Held, Untold, TripsOfOpened, Next
  PROVE  Untold'
<1> USE Numbers
<1>0. orders \in Seq(Leg) /\ cyc.orders \in Seq(Leg)
    BY DEF RecordsOK, Cycle
<1>1. CASE EachTrade
  <2> SUFFICES ASSUME opened' \notin broken'
               PROVE  /\ cyc'.book = "OPEN" \/ cyc'.from = "OPEN" =>
                            /\ AllOf(orders \o cyc'.orders, opened')
                            /\ \A j \in DOMAIN trips : trips[j].of # opened'
                      /\ cyc'.from = "OPEN" /\ cyc'.book = "FLAT" =>
                            cyc'.orders = <<RowOf("sell", opened'), RowOf("cover", opened')>>
      BY <1>1, TradeKeeps DEF Untold, Rows, Shown, files
  <2>1. /\ cyc'.from = cyc.from /\ cyc.from = cyc.book
    <3>1. PICK rows, n, status : Trades(rows, n, status)
        BY <1>1, EachTradeTrades
    <3>. QED
        BY <3>1, TradesFields DEF Files
  <2>2. cyc.pc = "trade" /\ Shown = cyc.book /\ Rows = orders /\ broken \subseteq broken'
      BY <1>1, TradeKeeps, TradeShort DEF Shown, Rows
  <2>3. opened \notin broken /\ cyc.book = "OPEN" =>
           AllOf(orders, opened) /\ \A j \in DOMAIN trips : trips[j].of # opened
      BY <2>1, <2>2 DEF Untold
  <2>4. CASE opened' = opened /\ cyc'.orders = <<>> /\ cyc'.book = cyc.book
      BY <2>1, <2>2, <2>3, <2>4, NoOrders
  <2>5. CASE /\ opened' = opened + 1 /\ short = 0 /\ cyc.book = "FLAT"
             /\ cyc'.orders = <<RowOf("enter", opened')>> /\ cyc'.book = "OPEN"
    <3>1. opened' \in Positions
      <4>1. RecordsOK'
          BY <1>1, NextTypes DEF Next, EachTrade
      <4>2. opened' \in 0..MaxOpened
          BY <4>1 DEF RecordsOK
      <4>. QED
          BY <2>5, <4>2 DEF Positions
    <3>2. \A j \in DOMAIN trips : trips[j].of # opened'
      <4>1. \A j \in DOMAIN trips : trips[j].of \in Int /\ trips[j].of <= opened
          BY TripsAre DEF TripsOfOpened
      <4>. QED
          BY <2>5, <4>1
    <3>. QED
        BY <1>0, <2>1, <2>5, <3>1, <3>2, AllOfEntered
  <2>6. CASE /\ opened' = opened /\ short = opened /\ short # 0 /\ cyc.book = "OPEN"
             /\ cyc'.orders = <<RowOf("sell", opened), RowOf("cover", opened)>>
    <3> DEFINE more == <<RowOf("sell", opened), RowOf("cover", opened)>>
    <3>1. opened \in Positions
        BY <2>6 DEF Positions
    <3>2. more \in Seq(Leg)
        BY <3>1, RowsType
    <3>3. \A i \in 1..Len(more) : more[i].of = opened /\ more[i].row # "enter"
        BY DEF RowOf
    <3>4. AllOf(orders, opened) /\ \A j \in DOMAIN trips : trips[j].of # opened
        BY <2>2, <2>3, <2>6
    <3>5. AllOf(orders \o more, opened)
        BY <1>0, <3>2, <3>3, <3>4, AllOfGrows
    <3>. QED
        BY <2>6, <3>4, <3>5
  <2>. QED
      BY <1>1, <2>4, <2>5, <2>6, TradeOf
<1>2. CASE \E under \in BOOLEAN : Write(under)
  <2>1. /\ cyc.pc = "write" /\ cyc'.pc = "book" /\ cyc'.from = cyc.from /\ cyc'.book = cyc.book
        /\ orders' = orders \o cyc.orders /\ UNCHANGED <<opened, broken>>
        /\ cyc.book = "OPEN" => trips' = trips
      BY <1>2, StageFields DEF Write, venue, history, RoundTrip
  <2>. QED
      BY <2>1 DEF Untold, Rows, Shown
<1>3. CASE SaveBook \/ SavePaper
  <2>1. Shown' = Shown /\ Rows' = Rows /\ cyc.pc \notin {"off", "trade"}
        /\ cyc'.from = cyc.from /\ cyc'.pc \notin {"off", "trade", "write"}
      BY <1>3, RowsKept, StageFields DEF SaveBook, SavePaper, Shown, Rows
  <2>. QED
      BY <1>3, <2>1, RowsKept, UntoldKept
<1>4. CASE SaveStamp
  <2>1. cyc.pc = "stamp" /\ cyc'.pc = "off" /\ book' = book /\ cyc.book = book
      BY <1>4, IdleType DEF SaveStamp, Files
  <2>. QED
      BY <1>4, <2>1, RowsKept, UntoldKept DEF Shown, Rows
<1>5. CASE Crash
  <2>1. cyc'.pc = "off" /\ book' = book
      BY <1>5, CrashKeeps
  <2>2. ASSUME opened \notin broken' PROVE orders' = Rows /\ Shown = book
    <3>1. CASE cyc.pc = "stamp"
        BY <1>5, <3>1, CrashRows DEF Rows, Shown, Files
    <3>2. CASE cyc.orders = <<>>
      <4>1. cyc.book = cyc.from
          BY <1>5, <2>2, <3>2, CrashKeeps DEF Held
      <4>2. book = cyc.book
          BY <1>5, <4>1, CrashKeeps DEF Files, RecordsOK, Cycle
      <4>3. Rows = orders
          BY <3>2, NoOrders DEF Rows
      <4>4. ASSUME NEW n \in 0 .. Len(<<>>) PROVE SubSeq(<<>>, 1, n) = <<>>
          BY SubSeqEmpty
      <4>5. orders' = orders
          BY <1>5, <3>2, <4>4, CrashRows, NoOrders DEF Torn
      <4>. QED
          BY <1>5, <4>2, <4>3, <4>5, CrashKeeps DEF Shown
    <3>. QED
        BY <1>5, <2>2, <3>1, <3>2, CrashKeeps
  <2>. QED
      BY <1>5, <2>1, <2>2, CrashKeeps, UntoldKept DEF Rows, Shown
<1>6. CASE Start
  <2>1. cyc.pc = "off" /\ cyc'.pc = "trade" /\ cyc'.from = book /\ cyc'.book = book /\ book' = book
      BY <1>6 DEF Start, files
  <2>. QED
      BY <1>6, <2>1, RowsKept, UntoldKept DEF Shown, Rows
<1>7. CASE Settles \/ ShortGoes \/ StampLost
  <2>1. cyc' = cyc /\ book' = book
      BY <1>7 DEF Settles, ShortGoes, StampLost, files
  <2>. QED
      BY <1>7, <2>1, RowsKept, UntoldKept DEF Shown, Rows
<1>. QED
    BY <1>1, <1>2, <1>3, <1>4, <1>5, <1>6, <1>7 DEF Next, EachTrade

LEMMA TripsKept ==
  ASSUME RecordsOK, Held, Next, ~ \E under \in BOOLEAN : Write(under)
  PROVE  trips' = trips /\ opened' \in {opened, opened + 1} /\ broken \subseteq broken'
<1>1. CASE EachTrade
    BY <1>1, TradeKeeps, TradeShort DEF files
<1>2. CASE Crash
    BY <1>2, CrashKeeps
<1>. QED
    BY <1>1, <1>2, RowsKept DEF Next, EachTrade

LEMMA WriteTrip ==
  ASSUME RecordsOK, Opens, NEW under, Write(under)
  PROVE  /\ UNCHANGED <<opened, broken>>
         /\ \/ trips' = trips
            \/ \E e \in LastEnter(Rows), trip \in Trip :
                  /\ cyc.pc = "write" /\ cyc.from = "OPEN" /\ cyc.book = "FLAT"
                  /\ trip = [of |-> opened, legs |-> SubSeq(Rows, e, Len(Rows))]
                  /\ trips' = Append(trips, trip)
BY RoundTripType DEF Write, RoundTrip, Rows, venue, history

LEMMA NextTrips ==
  ASSUME RecordsOK, Opens, Held, Untold, TripsOfOpened, TripIsWhole, Next
  PROVE  TripsOfOpened' /\ TripIsWhole'
<1> USE Numbers
<1>1. CASE trips' = trips /\ opened' \in {opened, opened + 1} /\ broken \subseteq broken'
    BY <1>1, TripsAre DEF TripsOfOpened, TripIsWhole
<1>2. ASSUME NEW e \in LastEnter(Rows), NEW trip \in Trip, UNCHANGED <<opened, broken>>,
             cyc.pc = "write", cyc.from = "OPEN", cyc.book = "FLAT",
             trip = [of |-> opened, legs |-> SubSeq(Rows, e, Len(Rows))],
             trips' = Append(trips, trip)
      PROVE  TripsOfOpened' /\ TripIsWhole'
  <2> DEFINE n == Len(trips)
  <2>1. trips \in Seq(Trip) /\ n \in Nat /\ DOMAIN trips = 1..n
      BY LenProperties DEF RecordsOK
  <2>2. /\ trips' \in Seq(Trip) /\ Len(trips') = n + 1 /\ trips'[n + 1] = trip
        /\ \A i \in 1..n : trips'[i] = trips[i]
      BY <1>2, <2>1, AppendProperties
  <2>3. DOMAIN trips' = 1 .. n + 1
      BY <2>2, LenProperties
  <2> HIDE DEF n
  <2>4. TripsOfOpened'
      BY <1>2, <2>1, <2>2, <2>3 DEF TripsOfOpened
  <2>5. ASSUME opened \notin broken
        PROVE  Whole(trip) /\ \A j \in 1..n : trips[j].of # opened
    <3> DEFINE exits == <<RowOf("sell", opened), RowOf("cover", opened)>>
    <3>1. cyc.orders = exits /\ AllOf(Rows, opened) /\ \A j \in 1..n : trips[j].of # opened
        BY <1>2, <2>1, <2>5 DEF Untold
    <3>2. Rows = orders \o exits /\ orders \in Seq(Leg) /\ exits \in Seq(Leg)
        BY <1>2, <3>1 DEF Rows, RecordsOK, Cycle
    <3>3. Len(exits) = 2 /\ exits[1].row = "sell" /\ exits[2].row = "cover"
        BY DEF RowOf
    <3> HIDE DEF exits
    <3>4. /\ Rows \in Seq(Leg) /\ Len(Rows) = Len(orders) + Len(exits)
          /\ \A i \in 1 .. Len(orders) + Len(exits) :
                Rows[i] = IF i <= Len(orders) THEN orders[i] ELSE exits[i - Len(orders)]
        BY <3>2, ConcatProperties
    <3>5. Len(orders) \in Nat
        BY <3>2, LenProperties
    <3>6. Len(Rows) > 1 /\ Rows[Len(Rows) - 1] = exits[1] /\ Rows[Len(Rows)] = exits[2]
      <4> DEFINE k == Len(orders)
      <4>1. k \in Nat /\ Len(Rows) = k + 2
          BY <3>3, <3>4, <3>5
      <4>2. \A i \in 1 .. k + 2 : Rows[i] = IF i <= k THEN orders[i] ELSE exits[i - k]
          BY <3>3, <3>4
      <4> HIDE DEF k
      <4>3. Rows[k + 1] = exits[1]
        <5>1. k + 1 \in 1 .. k + 2 /\ ~(k + 1 <= k) /\ (k + 1) - k = 1
            BY <4>1
        <5>. QED
            BY <4>2, <5>1
      <4>4. Rows[k + 2] = exits[2]
        <5>1. k + 2 \in 1 .. k + 2 /\ ~(k + 2 <= k) /\ (k + 2) - k = 2
            BY <4>1
        <5>. QED
            BY <4>2, <5>1
      <4>5. (k + 2) - 1 = k + 1 /\ k + 2 > 1
          BY <4>1
      <4>. QED
          BY <4>1, <4>3, <4>4, <4>5
    <3>7. trip.of = opened /\ trip.legs = SubSeq(Rows, e, Len(Rows))
        BY <1>2
    <3>8. Rows[Len(Rows) - 1].row = "sell" /\ Rows[Len(Rows)].row = "cover"
        BY <3>3, <3>6
    <3>9. Whole(trip)
        BY <1>2, <3>1, <3>4, <3>6, <3>7, <3>8, WholeTrip
    <3>. QED
        BY <3>1, <3>9
  <2>6. ASSUME NEW i \in DOMAIN trips', trips'[i].of \notin broken'
        PROVE  Whole(trips'[i]) /\ \A j \in 1 .. i - 1 : trips'[j].of # trips'[i].of
    <3>1. CASE i = n + 1
      <4>1. trips'[i] = trip /\ trip.of = opened /\ opened \notin broken
          BY <1>2, <2>2, <2>6, <3>1
      <4>. QED
          BY <2>1, <2>2, <2>5, <3>1, <4>1
    <3>2. CASE i \in 1..n
      <4>1. trips'[i] = trips[i] /\ trips[i].of \notin broken /\ \A j \in 1 .. i - 1 : trips'[j] = trips[j]
          BY <1>2, <2>1, <2>2, <2>6, <3>2
      <4>. QED
          BY <2>1, <3>2, <4>1 DEF TripIsWhole
    <3>. QED
        BY <2>1, <2>3, <3>1, <3>2
  <2>. QED
      BY <2>4, <2>6 DEF TripIsWhole
<1>. QED
    BY <1>1, <1>2, TripsKept, WriteTrip

(* A round trip is told of one position, from its entry to both exits, and *)
(* once, whenever cycles are killed, but of the positions the rows cannot  *)
(* tell: an order of unknown fate, a short gone without one, or a cycle    *)
(* killed between its orders and its stamp.                                *)
THEOREM TripsAreWhole == Spec => []TripIsWhole
<1>1. Init => TInv
    BY DEF Init, TInv, Held, Untold, Shown, TripsOfOpened, TripIsWhole, Idle
<1>2. IInv /\ TInv /\ Next => TInv'
    BY NextHeld, NextUntold, NextTrips DEF IInv, TInv
<1>3. TInv /\ UNCHANGED vars => TInv'
  <2> SUFFICES ASSUME TInv, UNCHANGED vars PROVE TInv'
      OBVIOUS
  <2> USE DEF vars, venue, files, history
  <2>1. Held'
      BY DEF TInv, Held, Shown, Live
  <2>2. Untold'
    <3>1. Rows' = Rows /\ Shown' = Shown
        BY DEF Rows, Shown
    <3>. QED
        BY <3>1 DEF TInv, Untold
  <2>3. TripsOfOpened' /\ TripIsWhole'
      BY DEF TInv, TripsOfOpened, TripIsWhole
  <2>. QED
      BY <2>1, <2>2, <2>3 DEF TInv
<1>4. TInv => TripIsWhole
    BY DEF TInv
<1>. QED
    BY <1>1, <1>2, <1>3, <1>4, Invariance, PTL DEF Spec
=============================================================================
