# A verification of the Bybit yield rotation and funding carry

TLA+ models of the programs in this repository, the TLC configurations that
check them on small instances, and the theorems about them that TLAPS proves
for every value of the constants. `PROJECT.json` lists components, runs,
mutants (a plausible bug per property, which the run must catch), the source
lines of every definition, hazards, findings and theorems.

Check a module with `tlc -config MCSupervision.cfg Supervision`, prove with
`tlapm SupervisionProofs.tla` (each `*Proofs` module is checked on its own; the
longest, `CarryCycleProofs`, `CarryExecProofs` and `SupervisionProofs`, take a
few minutes).

## 1. The system

Two programs trade one Bybit account each, on timers, with no daemon but the
Telegram bot. Neither locks the files it shares with the others; each write is
atomic (a temporary file, then `os.replace`), a read-decide-write is not.

| Part | State it keeps | Operations | Talks to |
|---|---|---|---|
| Risk state (`risk_state.py`, `signing.py`, `carry/state.py`) | a signed file per system: state, source, time | write, verify, derive the effective state | read by both cycles and the heartbeats; written by the operator (bot, CLI) and the heartbeat |
| Heartbeat (`heartbeat.py`) | none | every 5 minutes: blocking codes of the newest cycle record, verify, bootstrap / promote / renew | the record log, the risk-state file |
| Carry cycle (`run_carry_cycle.py`, `carry/plan.py`, `book.py`, `adopt.py`) | signed book per symbol, hold latch, last-cycle file, adopt request | every 5 minutes, one at a time (`flock`): risk state, latch, book, pending orders, snapshot, plan, execute, ledger, latch, save | the exchange, the record log |
| Carry execution (`carry/execute.py`) | book updates of one run | entry, exit, trim, rebalance, order by order with lookup and resend | the exchange |
| Funding decision (`carry/decide.py`) | none | enter / exit / hold from rates | the plan |
| Snapshot, client, exposure, preflight, config | none | read and parse the exchange | plan, execution, live switch |
| Live switch (`carry/live.py`, `live_ops.py`) | a signed switch file | enable, disable, the cap; forces UNWIND when broken | the carry cycle, the bot |
| Yield rotation (`run_yield_cycle.py`, `executor.py`) | the record log | every 10 minutes: collect, LLM, gates, amounts, place Earn orders | the exchange, the LLM |
| Operator bot (`telegram_bot.py`) | pending confirmations | commands, confirm once within 120 s | risk state, live switch, adopt request |
| Notifier (`notify.py`), summary | a state file of alerts, shared by all processes of a host | per channel: confirm, deduplicate, send, remind | Telegram; called by cycles and heartbeats |
| Supervised round trip (`scripts/mainnet_roundtrip.py`) | its phase, the cycle lock | runs live cycles of its own: enter, hold, exit, return | the carry cycle |
| Paper exchange, ledger (`carry/paper.py`, `ledger.py`, `risk.py`) | paper account, ledger rows | simulate; book funding received and expected, report round trips, raise UNDERPERFORMANCE | the carry cycle |
| Calibration tools, deployment | recorded data, units | offline; timers and time-outs | systemd |

What is hard about it: the operator, the cycle and the heartbeat interleave on
files without a lock; a cycle may be killed at any point, orders sent and the
book not saved; an order may be refused, accepted unheard, filled in part,
shown late or not at all; the exchange may take the position away; the wallet
holds coins that are not ours; Earn orders take hours, and the USDT they bring
is shared by all symbols. For each part, what makes it correct:

* risk state and heartbeat: nothing but the operator or a live, clean cycle
  opens the door; a dead part closes it; a stop is not lost; a healthy system
  does not lock itself out;
* hold latch: opens on the operator's word only;
* execution: hedged or escalated; what was traded is in the book; no order
  traded twice; coins of others untouched; over by its deadline;
* plan and cycle: the same over many cycles with crashes, lost books and
  unreadable answers; a stop ends flat;
* funds: no entry the wallet does not cover; no redeem lost; idle USDT goes back;
* ledger: funding booked once, a round trip whole, no alarm without a cause;
* notifier: a problem is told, not told again and again, and never silenced;
* yield: caps hold over orders of unknown or slow fate; a stop is obeyed;
* bot, live switch: confirmed once, by the one who asked; never live unseen.

## 2. The modules

| Module | Models | Kind |
|---|---|---|
| `RiskState` | the file and what its readers derive | operators |
| `Warrant` | what the supervision promises | abstract specification |
| `Supervision` | operator, cycle, heartbeat and faults on file, log and latch | state machine, implements `Warrant` |
| `SupervisionTimed` | the same under the timers of `deploy/` | state machine |
| `CarryBook` | the book of a symbol and the arithmetic plan and execution share | operators |
| `CarryExec` | one run of `carry/execute.py` against a faulty exchange | state machine |
| `CarryCycle` | a symbol over many cycles: book, plan, legs, kills | state machine |
| `CarryFunds` | the USDT of the carry between wallet, positions and Earn, several symbols | state machine |
| `CarryLedger` | ledger, book, paper account and stamp of a cycle over kills | state machine |
| `YieldCycle` | the yield rotation over Bybit's slow Earn orders | state machine |
| `LiveSwitch` | who trades with real money: switch, bot, terminal, timer, round trip | state machine |
| `Notifier` | the alerts of processes that share one file | state machine |
| `Sums` | the sum of a function over `1..n`, as a recursive function | operator |
| `MCCarryFunds`, `MCNotifier`, `MCCarryLedger` | values of the constants that are sequences, functions or negative | model instances |
| `SupervisionProofs` | theorems of `Supervision`, `SupervisionTimed` and `LiveSwitch`, the operator's two latches, in three parts | proofs |
| `CarryExecProofs`, `CarryCycleProofs`, `CarryFundsProofs`, `CarryLedgerProofs`, `YieldCycleProofs`, `NotifierProofs` | theorems of the module of that name | proofs |
| `SumsProofs` | what `Sum` is, for every length | proofs |

### Supervision

`file`, `log`, `hold` are the three shared files, `cyc` and `hb` the local
variables of a running cycle and heartbeat, `ack` and `boot` history for the
properties. One action is one read or write of a shared file with the
computation around it: `CycleStart`, `CycleVerify` (file, then latch),
`CycleTrade` (the latch is set), `CycleRecord`; `HeartbeatStart` (blocking codes),
`HeartbeatVerify`, `HeartbeatDecide` (the log again), `HeartbeatWrite`. A cycle
also fails with a blocking record (`CycleFails`) or is killed with none
(`CycleKilled`), a heartbeat is killed, the file is lost or damaged. The
clock is bounded; no run outlives its unit's `TimeoutStartSec`.

A record is stamped with the time its cycle *started*, as is a latch; the
file with the time it is written. Both matter: the second finding of section 3.

`SupervisionTimed` adds when the timers fire, takes the faults away and states
liveness as bounded response, which is what a system with expiring records has
to promise: *within* `MaxAge`, not *eventually*. That it does rests on how the
periods and time-outs relate: `HealthyAssumption` is the conjunction of three
inequalities, each the reason a lapse cannot happen:

* `CyclePeriod + CycleTimeout < Window`: a record of the cycle is never too old
  to be evidence;
* `RenewAfter + HeartbeatPeriod + HeartbeatTimeout <= MaxAge`: a renewal that is
  due one moment after a heartbeat looked comes with the next one, in time;
* `CyclePeriod + CycleTimeout + HeartbeatPeriod + HeartbeatTimeout <= MaxAge`: a
  bootstrap lives long enough to see a cycle and be promoted.

The deployed minutes satisfy them: the carry's cycle every 5 with a time-out of
4:40, the yield rotation's every 10 with 9, heartbeats every 5 with 2, `Window` 30,
`RenewAfter` 15, `MaxAge` 30. The run scales them to ticks of 5 minutes.

### CarryExec

One symbol, one action of the plan, the run of it order by order: `submit`
(`Send`, `Look`, `Resend`, `Poll`), the entry (`Enter`, `EntryAnswered`, `Buy`,
`BuyAnswered`, `Reconcile`), the reductions (`SpotLeg`, `PerpLeg`, `LegsDone`),
`Close`, `Sell`. The exchange accepts or refuses, answers or not, fills any
part (`Match`), shows an order or not, deleverages (`Deleverage`). An order that
was sent without an answer and is not shown is sent again under its link; the
exchange then refuses the second one, as a duplicate or with any other code (rate
limit, timestamp, balance), and with any other code `submit` returns "rejected",
whatever became of the first: `Disown` moves the order to `strays`, which fills on
(`MatchStray`) and of which neither run nor book will ever hear. What the properties
except is `strays`, no more: what was *filled* of such orders, in `EndsHedged` of the
entry's one perp order, in `BookTells` also of buys and sales. `book` is the
run's copy of the symbol's entry. `run` is the Python stack: which loop, which
order, what it has moved.

Assumptions, each from the code or the units: a request that was not answered
has arrived by the time the run gives up on it, or never arrives (the HTTP
time-out is longer than the exchange's receive window); a *request* that
is refused with a code placed nothing itself; a link is accepted once; the position
is never long (the plan closes a long as "never ours"); the fee of a buy is at most
`FeeMax` and the fill, also where Bybit does not say its coin and the code takes
the whole `cumExecFee` as coins (`slack` is what that overstates). Prices, ticks
and the minimum notional are left out: an IOC order fills any part.

### CarryCycle

The same symbol over any number of cycles: what the system remembers
(`stored`, the signed book) against what the exchange holds (`short`, `wallet`,
and in `fates` what the journaled orders of unknown fate really traded).
`Begin` loads the book and runs `resolve_pending`; `Plan` takes a snapshot (each
part read or not), runs `plan_cycle` for the symbol (`PlanOf`: unreadable
position, lost book, adoption, orphans, reconciliation, exits, reductions,
entry); `EnterPerp`, `BuySpot`, `CutPerp`, `PerpLeg`, `SpotLeg` are the legs, one
step each, with what was really traded and what the run saw of it; `Save`
writes the book. `Killed` may come anywhere and loses the cycle. A leg's
outcomes are those `CarryExec` shows order by order, also those of an order that stood
and was taken for refused (`Disowned`): an entry that ends unsaid over its short,
coins bought or sold that no book and no journal knows, a close that closes more than
it was to.

What journaled orders still owe the book is a sum over `fates`
(`Traded`, from `Sums`).

Between the steps the world interferes, at most `MaxFaults` times: foreign coins
arrive, the exchange deleverages, the book is lost, the process is killed, the
operator adopts, an order that stood is taken for refused. Orders of unknown fate
and unreadable values are not limited (but one journaled order at a time,
`MaxPending`). A reason to trade (rates, margin, an instrument out of trading) is
any value at any time. History variables say which coins are not ours (`foreign`),
whether a sale escaped the book (`blind`: of unknown fate, taken for refused, or
killed after the sale, `sold`, and before the save), whether an adoption counted
dust twice (`doubled`), and what hedge there was when the book was lost (`lost`,
`adopted`). Of a cycle, `known` says that it read the account and that nothing it
cannot know of has changed it since.

`PositionIsHedged` has three parts: `OnePosition` (no second entry on top of one
the book does not show), `NakedShortIsHeld`, `NoNakedSpot`. An entry taken for refused
leaves a naked short its own cycle does not know of; the next cycle that reads the
account must end it or say so. Two of their bounds are
those the proof for all constants needs, and larger than the instance of the
runs would suggest: a short may exceed its spot by `2 * DriftPct` percent, as a trim
halves the position and keeps the drift, which is then twice as large a part of
it; a spot without a short may be as large as a step of the perp when that
exceeds `2 * SpotMin`, as a partial entry below that step is kept.

Left out: Earn and several symbols (CarryFunds), capital room, the hold latch
(Supervision's; here `escalate` says it is set, and the next risk state is any).

### CarryFunds

What CarryCycle leaves out: money. `wallet`, `staked`, `staking` and `order` (the
redeems, by link) are Bybit's side; `open` are the symbols with a position, which
here is both legs or none and costs `Cost`. `book` is the saved book: FLAT,
REDEEMING with the link of its order and its age, or OPEN. A cycle (`cyc`) reads
positions and wallet (`ReadAccount`), then Earn, and plans (`ReadEarnAndPlan`):
`Plan` is `plan_cycle` as a recursive function over the symbols that threads the USDT not yet
spent, the notional, the actions and the next book. Then its orders go out one
by one (`Enter`, `Exit`, `Redeem`, `Return`) and `Save` writes the book. `Killed` may
come anywhere. A redeem that Earn did not take is in the book all the same; one
it took before a kill is in no book.

`Says` is what `decide_symbol` may return, by what its callers tell apart: enter,
inside the settlement window, stay out or exit, no market to decide on. The
rates behind it are free; `gone` is the point from which nothing is entered.
`hidden` records that a cycle planned while a position was neither in the book
nor readable. Links are reused once nothing names them. The age of a redeem is
in cycles. That the buffer is at most a cost is an assumption (`carry.yaml`: 15
and 80): with a larger one an entry needs less than it leaves behind.

What it shows of the code, beyond the properties: within one plan the buffer is
set aside for all entries, across plans it is spent (finding `buffer_spent`); each
redeem of a plan is held against all that is staked, so that the second may be
refused, and then waits until its timeout, as does one whose request failed; a
redeem that waits is abandoned when Earn cannot be read for one cycle (no
layer A, so STAY_OUT); a redeem that is paid between the reads of wallet and Earn
is redeemed again; one unfinished Earn order keeps all idle USDT in the wallet.

### CarryLedger

One symbol, live or on paper. `orders` are the rows of filled orders (each with the
position it is of), `trips` the round-trip rows. Time is counted in settlements.
Each has a funding `rate`, which pays the short or charges it, and, if the exchange
paid it, the `mark` price it was paid at; the short is of one unit. `funding` and
`expected` count the rows of each settlement, `received` and `due` sum their
amounts: the log's as paid, those of the paper account and all that is expected at
the mark the cycle reads (`Paid`, `Due`). A cycle reads the stamp of the last one
and books what was settled since (`Start`: `Realized` from the transaction log or
the paper account, `ExpectedFunding` from the saved book), trades, appends its rows
(`Write`, with the round trip and the UNDERPERFORMANCE check: signed sums over the
window, once an expected row is near its start), then saves the book, the paper
account and the stamp, in this order and in files of their own. `Crash` comes
between any two, or between two rows. On paper it undoes what was traded. Six
history variables name the excuses: `missed` (paid and not read in time), `again`
(booked by a cycle killed before its stamp), `apart` (a settlement that found
another position than the book shows), `unexpected` (booked by a cycle that read no
market or no stamp), `drifted` (expected at another mark than it was paid at),
`broken` (a position some order of which left no row). One assumption is about the
market: between a settlement and the cycle that books it, minutes later, the mark
does not fall to `Ratio` of what it was (`LedgerAssumption`; half, as shipped).
Without it a moved mark alone raises the alarm.

`AlarmHasCause` has two cases. While the window's settlements all pay, an alarm
needs one that was missed, apart, or (on paper) written again: rows that are only in
one of the two sums, half-written, written twice or reckoned at another mark cannot
raise it. Once a settlement of the window has *charged*, what was expected may be as
small as any error of it, and then each of `again`, `unexpected` and `drifted` alone is enough:
a charge that was booked but, the market being unread that cycle, not expected is the
simplest. In both cases the cause is in the window.

What it shows of the code: a cycle killed between the save of the book and the
stamp, right after an entry, makes the next one expect funding that was never
paid, and a false UNDERPERFORMANCE (a hold the operator must release) is
possible; on paper a kill between `paper.save` and the stamp has the same
effect by expecting a settlement twice; a position without an ENTER row (adopted,
or of unknown fate) is closed with the legs of the one before it; a transaction
log that is unreadable in one cycle loses its settlements for good; rows written
before a kill are written again.

### Notifier

`file` and `tmp` are `notify_state.json` and its one temporary file, `run` the
processes: `Load`, `Judge` (the confirmation counter, the blip that reverts, the
silence of `REPEAT_S`), `Send`, `Write`, `Replace`, for one channel after the other.
Each channel has one process that reports on it; the others load and write back what
they found. A process reports on at least one channel, and no problem has the text
of "healthy" (assumed: `NotifierAssumption`). `told` is what the operator has seen
last, `noted` what the channel's process last meant to be in the file. A stamp is
never, recent or older than `REPEAT_S`. A send may succeed, fail, or be delivered
unheard. `write_text` empties the shared temporary file before it fills it, and
another process may move it in between: to who loads it then, it is an empty file,
which is `FileLost`; the rest of the write lands in it, which is that process's
`Replace`.

What it shows of the code: the message that a problem is over is not repeated
when its send fails; a write-back by another process can undo a
confirmation counter or silence a problem that recurs, for at most `REPEAT_S`.

### YieldCycle

One coin, its products, any number of cycles of `run_yield_cycle.py`. Bybit's
side is `wallet`, `position`, `stakes` and `redeems`: a stake order is open, then
a success, then credited to the position, each at any time; it leaves the
wallet when it is accepted or only when it succeeds. A cycle reads the balance
(`Begin`), the positions (`ReadPositions`), the orders (`Decide`), and sends what it
planned one by one (`Send`). `Decide` is the whole middle of `_cycle`: what the
list of orders says (`Counted`, `Blocked`, `Redeeming`), any answer of the
language model that validation lets through (`Answers`), the gates (`Gated`) and
`build_plan` as a recursive function over the decisions (`BuildPlan`). The orders are the last
read and `build_plan` is pure, so how long the model takes does not matter.

What is read once and nothing else depends on is no variable: the risk-state
file, the product list, foreign orders are whatever the read picks. A send may
be refused, or accepted; an answer that is lost is an acceptance the cycle does
not hear of, which changes nothing, as it acts on no answer. A redemption may
show a status the code does not know; then it does not block a second one, which
Bybit refuses. A request that timed out is not accepted later than its receive
window, so not after the next cycle's reads.

`Prompt` are the products whose stakes Bybit shows in the position within
`RECENT_STAKE_WINDOW_MS`; `slid` records that a stake left the wallet between a
cycle's reads of the balance and of the orders. Both name assumptions the code
makes without a way to check them: without the first, the cap is exceeded,
without the second, the reserve is spent (the runs' properties fail at once when
the condition is dropped). Nobody else stakes or withdraws.

### LiveSwitch

The files are `switch`, `book`, the lock (held by the timer's `run` or a trading
`trip`), the exchange is `position`, the size of one hedge. `run` is a live cycle
of either runner: begun (`live.effective`, the loaded book), traded, saved. `trip`
is the round trip: its checks, the lock, its phases; after each of its cycles it
judges by the saved book (`After`). `op` is an operation on the switch per
surface, one look per step: the switch and the round trip, the book, the
exchange; first for a code, then, confirmed, for the write. `pending` is the
bot's request. Telegram's queue is not a variable: a message that waits is one
sent later, and `Confirm` may carry any code ever given and any phrase.

A cycle's trade (`Outcome`) is CarryCycle's at a coarser grain: nothing, a
reduction, a book put right, an orphan closed or adopted, an entry from FLAT. So are
the trades the run itself does not see (`Overlooked`): an entry of unknown fate that
is closed, saved as FLAT and there or filled later, an entry taken for refused, and a
position that looks gone whose book still had an order to be looked up. `blind`
says that the saved book has missed a position in such a trade, by a kill or crash before
the save, or by being lost, and it ends when a later cycle has put all of it in the
book. A round trip whose cycle finds its configuration incomplete ends at once, in
any phase (`TripIncomplete`): what is open is in the book. An
unreadable book loads as an empty one, so it *is* one here. Any check may refuse
for a reason that is not modelled (risk state, latch, margin mode, an unreadable
section); codes are distinct; time-to-live is `Forgotten`, at any time.

## 3. The runs

| Run | Question | Bounds |
|---|---|---|
| `sup_safety` | every interleaving of operator, cycle, heartbeat, faults: who opens the door | ages and time-outs 1, clock to 3: every age is fresh, on the edge and stale; two cycles and two heartbeats overlap |
| `sup_timed` | healthy host: nothing lapses, bootstrap ends, an acknowledgement is seen | one tick is 5 minutes, real ratios (age 6, renewal 3, window 6, periods 1), clock to 10: more than one life of a record |
| `operator_stop` | *violation*: README and `heartbeat.py` say the heartbeat never overwrites an operator's state | as `sup_safety` |
| `carry_exec` | one trade: hedged, tracked or escalated, and over by its deadlines | two perp steps of two spot steps, fee 0..1, dust below a minimum of 2, two foreign coins, two tries a leg and the final one: partial fills, remainders below either step, and every answer at every try |
| `carry_cycle` | many cycles: one position, no naked leg, lost hedges and foreign coins kept | a position of one perp step of two spot steps, fee 0..1, dust below 2, two interferences in any order at any point (orders taken for refused are such), exit after two unreadable cycles |
| `carry_calm` | a position of two perp steps (partial fills, trims, drift): a stop ends flat | no interference; from any idle state on, UNWIND with everything readable and filled |
| `yield_cycle` | what may be staked, and that every exit ends | two products with room for a unit each, three units, one of them the reserve, so that a cap or the reserve could be overspent by one unit; two stake orders, two decisions, one fault |
| `carry_funds` | is an entry ever sent without funds, does idle USDT come home | two symbols, an entry of 2, a buffer of 1, stock 6 (two entries, the buffer and a redeem in vain), three links, a timeout of two cycles, any two faults |
| `buffer_spent` | *violation*: the configuration says the buffer stays while a position is open | as `carry_funds`, no fault |
| `carry_ledger` | is funding booked once, a round trip whole, an alarm justified | two settlements, both in the window, that pay or charge, at two marks, the shipped ratio of a half, two positions, any one fault, live and paper: a sum of the window can be positive with a charge in it, and each excuse is needed (dropping any, TLC finds an alarm) |
| `notifier` | is a problem told, and told only when it is news | a cycle whose channel waits for two observations, a heartbeat whose channel does not, one fault: the two overlap in every way |
| `live_switch` | who opens a position with real money, and who closes it | caps 1 and 2, a round trip of 1, two commands of the operator on either surface, two faults anywhere, any number of overlooked orders |

`carry_exec` does not check deadlock: a run ends. Larger instances were checked
by hand, without a violation: `yield_cycle` with one product, funds 5 and a cap
of 3 (partial amounts), `live_switch` with three commands (8.5 million states),
`carry_funds` with four links, a slack, stock 7 and one fault, `carry_ledger`
with any two faults, with two positions at one rate and mark (1.9 million
states) and with one position (17 million).

Several properties are conjunctions of named parts, each defined with its own
comment: `EndsHedged`, `TradesWithinPlan`, `BookTells` (CarryExec),
`PositionIsHedged` (CarryCycle), `ExitsEnd` (YieldCycle), `HandsOverFlat`
(LiveSwitch), `WaitsEnd` (SupervisionTimed).

Fairness. Supervision's safety needs none, and `SupervisionTimed` states time
bounds instead. `CarryExec` assumes that the run goes on until it is over and that
the deadline passes, nothing of the exchange: a process that is scheduled, and a
monotonic clock. One of the run's steps or the clock is enabled in every state
before the end, so this is their weak fairness (the run was also checked with `WF`
in its place, with the same result). If the process is killed instead, the next
cycle takes over: `CarryCycle`, whose liveness assumes weak fairness of the
cycle's steps (the timer fires again, a started cycle runs on) and claims
something only from a point on at which reads and orders stop failing.
`YieldCycle` assumes weak fairness of the cycle's steps together and of Bybit
ending each order it accepted; kills, unread positions and refused redemptions
are finitely many (`MaxFaults`), but unreadable orders and foreign ones may last
for ever. `CarryFunds` assumes that a cycle takes steps again and again and that
Bybit ends each Earn order; some step of a cycle is enabled in every state, so
`[]<><<TRUE>>_cyc` is their weak fairness. Its liveness is claimed from the point
on at which nothing is worth entering. `Notifier` assumes that every process is
started again and runs on (timers), and that time passes. `CarryLedger` claims
safety only.

### Findings

Two are runs of the project. The others are shown by the configurations named,
which TLC finds violated within seconds.

* `operator_stop`: `heartbeat._decide` verifies, decides and writes with no
  second look. An operator's UNWIND in between is overwritten with what the heartbeat
  had decided before: in the run, the file is missing, the heartbeat decides to bootstrap,
  the operator writes UNWIND, and the bootstrap's NO_NEW_POSITIONS replaces it; a
  renewal or a promotion does the same with a NORMAL.
  `StopLostOnlyToRunInFlight` says exactly how far this goes: one run in flight.
* `MCRefusedResend.cfg` (CarryExec): a refusal of the second send of an order is taken to say that the
  first was not placed either. An entry then ends as rejected, unsaid, over the short
  of its first send. `EndsHedged` and `BookTells` say how far this goes (what such orders
  filled), `PositionIsHedged` that the next cycle that reads the account ends or tells it.
* `buffer_spent`: a second position is entered with the buffer of the first. What
  is needed includes the buffer only while nothing is open, what is held
  against it is the whole wallet. `FundsKept` says what remains true: with one
  position open the buffer is there, and the wallet is never overdrawn. The
  deployed configuration has one symbol.
* `MCHoldRelease.cfg` (Supervision): the latch carries the start time of its
  cycle, so a command given while the cycle was still trading, before the reason
  existed, releases it. `HoldNeedsOperator` says what remains true.
* `MCForeignSold.cfg` (CarryCycle): what is sold is `min(wallet, book)`. Killed
  between the sale and the save, the cycle sells the same quantity again, and
  what is in the wallet then is foreign. `ForeignSoldOnlyBlind` says this needs a
  sale that did not reach the book (killed like this, of unknown fate, or taken for
  refused), or dust an adoption has counted twice.
* `MCUnknownOrder.cfg` (CarryCycle): a position that looks gone resets the
  symbol's book, with it the journal of an order that could not be looked up;
  the same plan may enter.
* `MCAdoptedHedge.cfg` (CarryCycle): an adoption with an unreadable wallet puts
  the short in the book without its spot; the next cycle closes the short.
  `LostHedgeKept` says that without an adoption the hedge stays.

Seen while modelling and not claimed by a run: `/adopt` leaves `dust_qty` as it
is, so dust that is in the wallet is then in the book twice; dust may reach
the spot minimum, as a spot leg of exactly the minimum counts as dust when the
position is gone, and adds to what was there (`NoNakedSpot` bounds it); a
rebalancing that floors to nothing takes the cycle's place of an exit. The
repository's README line 37 lets "nothing" be sent in a coin with a pending order; the code
and HANDOFF.md block stakes only, and redemptions are sent, which is what lets
an UNWIND end. `carry/live.py` line 22 says that a lost switch "never leaves a real position
unmanaged": `UnwatchedOnlyBlind` names the ways it does, all by a position that the saved
book has missed: a process that died between its orders and the save, a lost book,
an entry of unknown fate or taken for refused that was saved as FLAT, an order
dropped with a book that looked gone. The round trip needs no lost switch for that,
as it has none; it calls such a position FLAT, as it looks at the book alone.
`enable` and the start of a round trip may pass each other's checks; the lock
still keeps their cycles apart.

## 4. What is proved

All for every value of the constants (any ages, periods, quantities, numbers of
processes, faults, clock bounds), under the assumptions named in the modules,
which TLC evaluates on every run. Each proof has an inductive invariant, which
TLC checked on the instance of the run before it was proved.

**`SupervisionProofs`** (`AgesAssumption`, `SupervisionAssumption`: naturals):

* `TypeCorrect`;
* `EntryWarranted`, `DeadManSwitch`: from the inductive invariant `IInv`, which
  adds to the types: no time lies ahead of the clock except the operator's
  record found at the start (`Ordered`); an automatic NORMAL in the file, or one the
  heartbeat is about to write, rests on a record within the window plus the
  heartbeat's time-out (`Evidenced`); what the heartbeat has verified is what
  the file holds, or was replaced since (`StopSeen`). The window alone is not
  inductive: the heartbeat reads the record, and writes later, which is why
  the time-out enters the bound;
* `StopLost`, `TimeOnlyCloses`, `PromotionSound`, `HoldKept`: action
  properties, from `IInv` and, for the last two, an invariant of their own on
  the history (`Waiting`, `Ack`). `HoldKept` assumes `Ahead = 0`: with a record dated
  ahead of the clock the operator's *old* word releases a later latch;
* `WarrantImplemented`: every step of the supervision is a step of `Warrant`, or a
  stutter. `TimeOnlyCloses` (`TimeNeverRelaxes`: a record never grows laxer as it
  ages) is not a property of a run.

**`SupervisionProofs`, second part** (SupervisionTimed; and `HealthyAssumption`, the
three inequalities of section 2): `NeverLapses` and `WaitsAreBounded` are the bounded responses: a
healthy host never loses its NORMAL, ends its bootstrap, and sees an
acknowledgement. `TInv` says how far the run has come that each thing waits
for: a timer is never overdue (`OnTime`); a blocking cycle has set the latch
(`Latched`), the operator's word waits for the cycle after it (`Acknowledged`), a
NORMAL for its renewal (`Renewed`), a bootstrap for its creation and promotion
(`Created`, `Promoted`), with the run in flight knowing the file it replaces
(`Seen`). `TimedImplements` makes every timed behaviour one of `Supervision`, so
that the theorems above hold of it.

**`CarryCycleProofs`**: `NoLegAlone` (`PositionIsHedged`), `LostHedgeStays`,
`ForeignIsSafe`, with orders taken for refused among the interferences, for every
perp step, spot minimum, fee, drift and quantity, any number of interferences and of
orders of unknown fate. `IInv` has ten parts: where a cycle can be and with what
(`Phases`); a FLAT book is empty (`FlatIsEmpty`); one position (`OnePosition`); the
hedge of a lost book is beyond what any cycle closes (`LostKept`); what the books
claim, with what journaled orders have bought, and the foreign coins are in the
wallet (`Owned`); dust is less than a sale and used up by an entry (`DustIsSmall`,
`DustIsUsed`); and, where the cycle could read the account, that what is left to be
done ends in a short the coins bear (`OnTheWay`), and in either a short or no spot
(`Settling`). The last two are why the end states are right: they speak of the legs
still to run, not of the present. What `plan_cycle` returns is one lemma,
`PlanIsSound`, by the nine cases of `PlanOf` (`PlanIs`). Proving for all constants
corrected two bounds that the runs' instance had hidden (section 2, CarryCycle).

**`CarryExecProofs`**: `RunEndsHedged` (`EndsHedged`), `RunTradesWithinPlan`
(`TradesWithinPlan`), `RunTellsTheBook` (`BookTells`), for any steps, minimum, fee,
quantity, foreign coins and tries, however often an order is refused, resent, shown
late, filled in part or of unknown fate. All three are read off `IInv`. Its root is
where an order can be whose fate the run has not read (`Placed`): in the loop that
asks for it, or left behind in a way the run knows of, by an entry to be closed, a
journaled order or an escalation; and there is one of a tag at most. `Astray` says
the same of an order that was taken for refused: its loop is told so, or has ended
over it, and short and coins bear what it may still fill. With both an order's
possible fills can be counted, in what each loop has moved and may still move
(`Moving`, against the quantity asked for), in our coins (`Counted`: those in the
book, with what the run has yet to put there and the fills it has not read), in what
an entry ends with (`InPlan`) and in the short (`EntryShort`, `LegShort`: what is
closed comes off what there was). `Frame`, `Answers` and `InBook` say which loop
runs in which action, what an answer can say, and what of the trade the book has
already. `Ended` is what a run that is done has made of it. One lemma per action
(`...Keeps`), over a common part per kind of step: asking (`AskKeeps`), again
(`AgainKeeps`), a loop's end (`EntryEnds`, `LegEnds`).

**`CarryLedgerProofs`**: `FundingOnce` (a settlement is booked twice only by a cycle
killed before its stamp, none that was readable is lost, and none is made up, save
that the paper account credits a settlement that fell while a cycle was at work),
`AlarmsHaveCauses` (for any window, ratio, day, signed rates and marks within
`LedgerAssumption`), and `TripsAreWhole` with an invariant of its own (`Held`,
`Untold`, `TripsOfOpened`, `TripIsWhole`). `IInv` ties the three files to the cycle
that will replace them (`Files`, `Found`), says that what it will write is newer
than what is booked (`Fresh`), and then counts (`Once`, `Kept`). For the amounts
`AInv` adds what each count of rows is worth (`Flat`, `Stamped`, `Told`) and that,
but for the causes, no settlement that pays has received less than `Ratio` of what
is due, and with none received and due are the same (`Balanced`); the sums over the
window follow by `SumRatio`.

**`SupervisionProofs`, third part** (LiveSwitch): `PositionIsWatched`,
`OpensUnderSwitch`, `CodesAreUsedOnce`, `HandOverIsFlat`. `LiveInv`: live cycles
exclude each other (`Exclusive`), run under a cap that was signed (`Limited`), have
every position in the book or in their copy of it (`Told`); an operation about to
write has looked (`LookedFlat`); codes are fresh (`CodesFresh`).

**`NotifierProofs`**: `NewsIsSent` (`SentIfNews`), for any processes and channels.
`IInv`: no copy of a record waits for more observations than a change takes
(`Copies`), and what is noted as sent is what the operator was told
(`NotedIsTold`).

**`YieldCycleProofs`** (`YieldAssumption`): `CapsAreKept` (`CapKept`), `ReserveIsKept`
(`ReserveKeptUnlessSlid`), `OnlyOneCycleStakes` (`OneCycleStakes`), for any products,
funds, cap, reserve and floor, any number of orders, any answer of the language
model, any limits, and whatever Bybit does with its orders in whatever order. What
the cycle knows is older than what it does, and the orders it sends change it,
so the properties are not inductive. `IInv` adds: no coin is made, and none is
spent twice (`Whole`, a sum over orders and products; `Covered`); what an order's
status says of the wallet and the position (`StakesSane`); what half a cycle's
reads are still worth (`Known`: the balance can only have grown, but for a stake
that slid through; a prompt position only by what is listed as credited); and that
the plan *with what is left of it to send* fits (`Fits`: one stake per product,
within the cap on top of all that is on its way, in sum within the reserve, and
nothing of an earlier cycle open). `CountedIs` ties the code's sum of committed stakes to
the true exposure; `PlanIsSound` says that `build_plan` makes such a plan of *any* list of
decisions, from `ConsideredKeeps` for one decision.

**`CarryFundsProofs`** (`FundsAssumption`): `FundsAreKept` (`FundsKept`), for any symbols,
cost, buffer, slack, timeout, stock and number of faults: no entry is sent that
the wallet does not cover, by any cycle, whenever Earn pays and whatever is
killed; while one position is open the buffer is there. `IInv` adds that no USDT is
made (`Conserved`, a sum over the redeems); that the wallet holds at
least what a cycle read (`Known`); and `Covered` of *what is left to do*: the wallet
pays all planned entries, with the buffer if nothing is open yet, each of a symbol
of its own that is not open; a return is the only action of its cycle and
leaves the buffer. `hidden` excuses a return only, not an entry: the buffer
is promised for the first position, and a symbol that could not be read is never
entered. `PlanSymbolSound` is one symbol of `plan_cycle`, by
the branches of the code; `EntriesAreSound` all of them; `PlanIs` adds the return.

**`SumsProofs`**: `Sum(f, n)` exists, is the sum, is monotone, takes its first or
last term apart, adds, scales (`SumTimes`), compares (`SumRatio`), and changes by
what one of its terms does. The prover has no induction over an operator; the
induction is over the *set* of lengths for which the claim holds, by its least
counterexample (`LeastNat`, `UpTo`). The recursive functions of `YieldCycle` and
`CarryFunds` are treated in the same way (`FoldExists`).

Only model-checked:

* liveness under fairness: `RunEnds`, `StopEndsFlat`, `IdleReturns`, `ExitsEnd`,
  `ProblemIsTold`;
* `Supervision`'s findings, which are violations.

## 5. The plan

Done: all modules of section 2. Next, in this order:

1. The damage of the latch file in `Supervision`, with its proofs.
2. The funding decision's windows, the deployment's refusals.

## 6. Not modelled

JSON, HMAC, HTTP and parsing (a value is readable or not, a signature valid or
not); prices, margin rates and capital room; the arithmetic of the funding
decision (any decision) and the LLM (any answer); the matching of paper orders;
wording of alerts and the summary; `Notifier.event`, which keeps no state;
statistics and back-tests; the installation and preflight scripts. A torn line of
the record log and disk damage of the latch file are not modelled.
