---------------------------- MODULE LiveExecutor ----------------------------
(***************************************************************************)
(* One trading day of the execution ticks (app/broker/executor.py): a tick *)
(* is a process, started by the schedule every fifteen minutes or by the   *)
(* operator, that opens one broker session per pending live intent, checks *)
(* the session's report against the ledger and appends a line to           *)
(* executions.jsonl.  Task Scheduler kills a tick that exceeds its limit.  *)
(*                                                                         *)
(* The broker, and the agent session that reviews, places and records one  *)
(* order, are outside the repository: their steps follow the runbook the   *)
(* executor hands them (docs/execution/EXECUTOR.md) and the packet and     *)
(* ledger checks they run into.  The review worker (app/reason/worker.py)  *)
(* appears with the transactions that hand over its intents.               *)
(***************************************************************************)
EXTENDS Integers, Sequences, FiniteSets

CONSTANTS
  Intent,         \* live order intents of the day
  Buy,            \* those that buy; the others are sales
  SaleOf,         \* the sale that funds a swap's buy
  Process,        \* executor processes that may run at once
  MaxIntents,     \* --max-intents
  MaxAttempts,    \* --max-attempts
  RetryInterval,  \* --min-retry-minutes
  CloseAt,        \* the session's close
  Horizon,        \* bound: the last instant of a day
  Scene,          \* bound: which intents come, how many orders may be placed
                  \* for one, which processes may be killed at any moment, and
                  \* when the day ends
  MaxLines        \* bound: lines written for one intent

ASSUME ConstantsAssumption ==
  /\ Buy \subseteq Intent
  /\ SaleOf \in [DOMAIN SaleOf -> Intent \ Buy] /\ DOMAIN SaleOf \subseteq Buy
  /\ MaxIntents \in Nat
  /\ MaxAttempts \in Nat \ {0}
  /\ RetryInterval \in Nat
  /\ CloseAt \in Nat
  /\ Horizon \in Nat
  /\ MaxLines \in Nat
  /\ Scene \subseteq [intents : SUBSET Intent, orders : 1..2, mayDie : SUBSET Process,
                     end : 0..Horizon]

VARIABLES
  scene,     \* the day's scene
  clock,     \* time since the open
  intents,   \* order_intents of the day, by created_at
  paired,    \* swap_pairs: the buys with a row
  orders,    \* orders[i]: what the broker did with each order of intent i
  ledger,    \* ledger[i]: the latest status of i's execution record, if any
  marks,     \* execution_sessions: <<intent, attempted_at>>
  lines,     \* lines[i]: the lines of executions.jsonl that name intent i
  tick       \* tick[p]: the state of process p

vars == <<scene, clock, intents, paired, orders, ledger, marks, lines, tick>>

OrderStatus == {"open", "part", "filled", "cut", "dead"}
Filled == {"PARTIALLY_FILLED", "FILLED"}
LedgerStatus == {"none", "REVIEWED", "SUBMITTED", "CANCELED"} \cup Filled
Placed == {"submitted", "partially_filled", "filled"}
Outcome == Placed \cup {"canceled", "blocked", "too_slow", "no_report"}
Line == [at : 0..Horizon, problem : BOOLEAN]
Phase == {"idle", "next", "check", "review", "record", "submit", "settle", "report"}

Tick ==
  [phase : Phase, started : 0..Horizon, todo : SUBSET Intent,
   seen : [Intent -> SUBSET (1..MaxLines)], attempts : 0..(MaxAttempts - 1),
   rerun : BOOLEAN, outcome : Outcome]

(* Every row, line and process record is well formed, and no session runs  *)
(* with its attempts used up.                                              *)
TypeOK ==
  /\ scene \in Scene
  /\ clock \in 0..Horizon
  /\ intents \in Seq(Intent)
  /\ paired \subseteq DOMAIN SaleOf
  /\ orders \in [Intent -> Seq(OrderStatus)]
  /\ ledger \in [Intent -> LedgerStatus]
  /\ marks \subseteq Intent \X (0..Horizon)
  /\ lines \in [Intent -> Seq(Line)]
  /\ tick \in [Process -> Tick]

Idle ==
  [phase |-> "idle", started |-> 0, todo |-> {},
   seen |-> [i \in Intent |-> {}], attempts |-> 0, rerun |-> FALSE,
   outcome |-> "no_report"]

Init ==
  /\ scene \in Scene
  /\ clock = 0
  /\ intents = << >>
  /\ paired = {}
  /\ orders = [i \in Intent |-> << >>]
  /\ ledger = [i \in Intent |-> "none"]
  /\ marks = {}
  /\ lines = [i \in Intent |-> << >>]
  /\ tick = [p \in Process |-> Idle]

-----------------------------------------------------------------------------
(* The review worker hands over intents.                                   *)

Submitted == {intents[k] : k \in DOMAIN intents}

(* A decision's intent is committed; a swap's buy follows its sale.        *)
SubmitIntent(i) ==
  /\ i \in scene.intents \ Submitted
  /\ i \in DOMAIN SaleOf => SaleOf[i] \in Submitted
  /\ intents' = Append(intents, i)
  /\ UNCHANGED <<scene, clock, paired, orders, ledger, marks, lines, tick>>

(* The next transaction pairs it with that sale, if the worker gets to it. *)
PairSwap(b) ==
  /\ b \in Submitted \ paired
  /\ paired' = paired \cup {b}
  /\ UNCHANGED <<scene, clock, intents, orders, ledger, marks, lines, tick>>

-----------------------------------------------------------------------------
(* A tick.                                                                 *)

(* pending_live_intents(): no execution record yet.                        *)
Pending == {i \in Submitted : ledger[i] = "none"}

(* Of the intents created in this order, sales go first, then the older.   *)
Position(order, i) == CHOOSE k \in DOMAIN order : order[k] = i

Precedes(order, i, j) ==
  \/ i \notin Buy /\ j \in Buy
  \/ (i \in Buy <=> j \in Buy) /\ Position(order, i) < Position(order, j)

First(order, m) == CHOOSE i \in m : \A j \in m \ {i} : Precedes(order, i, j)

(* Only buys are cut to MaxIntents. *)
FirstBuys(pending) ==
  LET buys == pending \cap Buy
  IN  {b \in buys : Cardinality({c \in buys : Precedes(intents, c, b)}) < MaxIntents}

Queue(pending) == (pending \ Buy) \cup FirstBuys(pending)

(* attempt_history() since the close of the last completed session, as     *)
(* places in lines; lines of earlier days are left out of the model.       *)
Boundary == IF CloseAt <= clock THEN CloseAt ELSE 0

History(i) == {k \in DOMAIN lines[i] : lines[i][k].at >= Boundary}

Start(p) ==
  /\ tick[p].phase = "idle"
  /\ tick' = [tick EXCEPT ![p] =
       [Idle EXCEPT !.phase = "next", !.started = clock, !.todo = Queue(Pending),
                    !.seen = [i \in Intent |-> History(i)]]]
  /\ UNCHANGED <<scene, clock, intents, paired, orders, ledger, marks, lines>>

Capped(p, i) == Cardinality(tick[p].seen[i]) >= MaxAttempts

BackingOffNever(p, i) == FALSE

BackingOff(p, i) ==
  \E k \in tick[p].seen[i] : tick[p].started - lines[i][k].at < RetryInterval

AwaitingSaleUntilSubmitted(i) ==
  i \in paired /\ ledger[SaleOf[i]] \notin Filled \cup {"SUBMITTED"}

AwaitingSale(i) == i \in paired /\ ledger[SaleOf[i]] \notin Filled

Held(p, i) == Capped(p, i) \/ BackingOff(p, i) \/ AwaitingSale(i)

(* The intent process p is at. *)
Current(p) == First(intents, tick[p].todo)

Working(p) == tick[p].phase \notin {"idle", "next"}

Skip(p) ==
  /\ tick[p].phase = "next"
  /\ tick[p].todo # {} /\ Held(p, Current(p))
  /\ tick' = [tick EXCEPT ![p].todo = @ \ {Current(p)}]
  /\ UNCHANGED <<scene, clock, intents, paired, orders, ledger, marks, lines>>

(* The mark is committed, and a session is launched with the count of      *)
(* attempts known to this tick.                                            *)
OpenSession(p) ==
  /\ tick[p].phase = "next"
  /\ tick[p].todo # {} /\ ~Held(p, Current(p))
  /\ marks' = marks \cup {<<Current(p), tick[p].started>>}
  /\ tick' = [tick EXCEPT ![p].phase = "check",
                          ![p].attempts = Cardinality(tick[p].seen[Current(p)]),
                          ![p].rerun = FALSE]
  /\ UNCHANGED <<scene, clock, intents, paired, orders, ledger, lines>>

(* verify_report(), or the problem named for a session without a report.   *)
ProblemIfSilent(p) == tick[p].outcome = "no_report"

Problem(p) ==
  LET recorded == ledger[Current(p)] # "none" IN
  \/ tick[p].outcome = "no_report"
  \/ tick[p].outcome \in Placed /\ ~recorded
  \/ tick[p].outcome \notin Placed /\ recorded

(* A session that was only too slow is followed by one more at once.       *)
AgainBeyondCap(p) == ~tick[p].rerun /\ tick[p].outcome = "too_slow"

AgainForEver(p) == tick[p].outcome = "too_slow"

Again(p) ==
  /\ ~tick[p].rerun
  /\ tick[p].attempts + 1 < MaxAttempts
  /\ tick[p].outcome = "too_slow"

WriteLine(p) ==
  LET t == tick[p]
      i == Current(p)
  IN
  /\ t.phase = "report"
  /\ Len(lines[i]) < MaxLines
  /\ lines' = [lines EXCEPT ![i] =
       Append(@, [at |-> t.started, problem |-> Problem(p)])]
  /\ tick' = [tick EXCEPT ![p] =
       IF Again(p)
       THEN [t EXCEPT !.phase = "check", !.attempts = t.attempts + 1, !.rerun = TRUE]
       ELSE [t EXCEPT !.phase = "next", !.todo = t.todo \ {i}]]
  /\ UNCHANGED <<scene, clock, intents, paired, orders, ledger, marks>>

EndTick(p) ==
  /\ tick[p].phase = "next" /\ tick[p].todo = {}
  /\ tick' = [tick EXCEPT ![p] = Idle]
  /\ UNCHANGED <<scene, clock, intents, paired, orders, ledger, marks, lines>>

(* The task limit, a reboot: the process and its session are gone.         *)
Kill(p) ==
  /\ p \in scene.mayDie
  /\ tick[p].phase # "idle"
  /\ tick' = [tick EXCEPT ![p] = Idle]
  /\ UNCHANGED <<scene, clock, intents, paired, orders, ledger, marks, lines>>

-----------------------------------------------------------------------------
(* The session of process p, and the broker.                               *)

Reports(p, outcome) ==
  tick' = [tick EXCEPT ![p].phase = "report", ![p].outcome = outcome]

GoesTo(p, phase) == tick' = [tick EXCEPT ![p].phase = phase]

(* execution_prompt(): a session told of earlier attempts first looks for  *)
(* an order in the broker's history, and reports one it finds.             *)
WarnedNever(p) == FALSE

Warned(p) == tick[p].attempts > 0

CheckHistory(p) ==
  /\ tick[p].phase = "check"
  /\ IF Warned(p) /\ orders[Current(p)] # << >>
     THEN Reports(p, "submitted")
     ELSE GoesTo(p, "review")
  /\ UNCHANGED <<scene, clock, intents, paired, orders, ledger, marks, lines>>

(* The packet is refused, the review rejected, the price has moved, or the *)
(* session was too slow for its quote.                                     *)
Stop(p) ==
  /\ tick[p].phase = "review"
  /\ \E outcome \in {"blocked", "too_slow"} : Reports(p, outcome)
  /\ UNCHANGED <<scene, clock, intents, paired, orders, ledger, marks, lines>>

(* build_execution_packet() sizes the order to reach the target weight, so *)
(* nothing is left to order once an order of the intent was filled.        *)
NothingLeft(i) == \E k \in DOMAIN orders[i] : orders[i][k] = "filled"

PlaceOrder(p) ==
  LET i == Current(p) IN
  /\ tick[p].phase = "review"
  /\ clock < CloseAt
  /\ ~NothingLeft(i)
  /\ Len(orders[i]) < scene.orders
  /\ orders' = [orders EXCEPT ![i] = Append(@, "open")]
  /\ GoesTo(p, "record")
  /\ UNCHANGED <<scene, clock, intents, paired, ledger, marks, lines>>

(* The record is saved once per intent; a session whose record is refused  *)
(* still reports what it placed.                                           *)
RecordOrder(p) ==
  LET i == Current(p) IN
  /\ tick[p].phase = "record"
  /\ \/ /\ ledger[i] = "none"
        /\ ledger' = [ledger EXCEPT ![i] = "REVIEWED"]
        /\ GoesTo(p, "submit")
     \/ Reports(p, "submitted") /\ UNCHANGED ledger
  /\ UNCHANGED <<scene, clock, intents, paired, orders, marks, lines>>

AppendSubmitted(p) ==
  /\ tick[p].phase = "submit"
  /\ ledger' = [ledger EXCEPT ![Current(p)] = "SUBMITTED"]
  /\ GoesTo(p, "settle")
  /\ UNCHANGED <<scene, clock, intents, paired, orders, marks, lines>>

(* The broker's last word on the order, as the ledger and the report say it. *)
Settled(status) ==
  CASE status = "filled" -> [ledger |-> "FILLED", outcome |-> "filled"]
    [] status = "part" -> [ledger |-> "PARTIALLY_FILLED", outcome |-> "partially_filled"]
    [] status = "dead" -> [ledger |-> "CANCELED", outcome |-> "canceled"]
    [] status = "cut" -> [ledger |-> "CANCELED", outcome |-> "canceled"]
    [] OTHER -> [ledger |-> "SUBMITTED", outcome |-> "submitted"]

Settle(p) ==
  LET i == Current(p)
      settled == Settled(orders[i][Len(orders[i])])
  IN
  /\ tick[p].phase = "settle"
  /\ ledger' = [ledger EXCEPT ![i] = settled.ledger]
  /\ Reports(p, settled.outcome)
  /\ UNCHANGED <<scene, clock, intents, paired, orders, marks, lines>>

(* A timeout, a crash or an invalid report of the session. *)
SessionFails(p) ==
  /\ Working(p) /\ tick[p].phase # "report"
  /\ Reports(p, "no_report")
  /\ UNCHANGED <<scene, clock, intents, paired, orders, ledger, marks, lines>>

BrokerMoves(i) ==
  /\ \E k \in DOMAIN orders[i], status \in OrderStatus \ {"open"} :
       /\ \/ orders[i][k] = "open" /\ status # "cut"
          \/ orders[i][k] = "part" /\ status \in {"filled", "cut"}
       /\ orders' = [orders EXCEPT ![i][k] = status]
  /\ UNCHANGED <<scene, clock, intents, paired, ledger, marks, lines, tick>>

Pass ==
  /\ clock < scene.end
  /\ clock' = clock + 1
  /\ UNCHANGED <<scene, intents, paired, orders, ledger, marks, lines, tick>>

(* What process p does on its own, once started. *)
Step(p) ==
  \/ Skip(p) \/ OpenSession(p) \/ WriteLine(p) \/ EndTick(p)
  \/ CheckHistory(p) \/ Stop(p) \/ PlaceOrder(p) \/ RecordOrder(p)
  \/ AppendSubmitted(p) \/ Settle(p) \/ SessionFails(p)

Next ==
  \/ \E p \in Process : Start(p) \/ Step(p) \/ Kill(p)
  \/ \E i \in Intent : SubmitIntent(i) \/ BrokerMoves(i)
  \/ \E b \in DOMAIN SaleOf : PairSwap(b)
  \/ Pass

Spec == Init /\ [][Next]_vars

(* A running process keeps running, and a session ends within its timeout. *)
FairSpec == Spec /\ \A p \in Process : WF_vars(Step(p))

-----------------------------------------------------------------------------
(* Properties.                                                             *)

(* An intent is never ordered twice: a later session is told to look for   *)
(* the order of an earlier one.                                            *)
OneOrderPerIntent == \A i \in Intent : Len(orders[i]) <= 1

(* However sessions fail or time out, as long as no tick is killed.        *)
UnlessKilled == scene.mayDie = {} => OneOrderPerIntent

(* An order the ledger does not know is never silent: once no session is   *)
(* at work on its intent, and no tick was killed, some line of that intent *)
(* names a problem.                                                        *)
UnrecordedIsLoud ==
  scene.mayDie = {} =>
    \A i \in Intent :
      /\ orders[i] # << >>
      /\ ledger[i] = "none"
      /\ \A p \in Process : Working(p) => Current(p) # i
      => \E k \in DOMAIN lines[i] : lines[i][k].problem

(* Attempts are counted from the close of the last session on, which at an *)
(* early close moves while the ticks of the day go on.                     *)
SamePeriod(s, t) == s >= CloseAt <=> t >= CloseAt

(* Between two closes no intent gets more than MaxAttempts sessions,       *)
(* immediate second sessions included.                                     *)
AttemptsCapped ==
  \A i \in Intent : \A j \in DOMAIN lines[i] :
    Cardinality({k \in DOMAIN lines[i] : SamePeriod(lines[i][j].at, lines[i][k].at)})
      <= MaxAttempts

(* Two ticks between two closes that tried the same intent started         *)
(* RetryInterval apart.                                                    *)
RetriesSpaced ==
  \A i \in Intent : \A j, k \in DOMAIN lines[i] :
    /\ SamePeriod(lines[i][j].at, lines[i][k].at)
    /\ lines[i][j].at < lines[i][k].at
    => lines[i][k].at - lines[i][j].at >= RetryInterval

(* Both hold whatever the ticks and the close do, killed ticks included.   *)
RetriesPaced == AttemptsCapped /\ RetriesSpaced

SoldSome(i) ==
  \E k \in DOMAIN orders[i] : orders[i][k] \in {"part", "filled", "cut"}

(* A session for a buy that is paired with a sale opens only after the     *)
(* broker filled some of that sale.                                        *)
PairedBuyFollowsSale ==
  [][\A b \in paired : \A p \in Process :
       OpenSession(p) /\ Current(p) = b => SoldSome(SaleOf[b])]_vars

(* A swap's buy is sent only once its sale has filled.                     *)
SwapBuyFollowsSale ==
  \A b \in DOMAIN SaleOf : (\E m \in marks : m[1] = b) => SoldSome(SaleOf[b])

(* Every tick that is not killed ends.                                     *)
TickEnds == \A p \in Process : tick[p].phase # "idle" ~> tick[p].phase = "idle"
=============================================================================
