------------------------- MODULE LiveExecutor_proofs -------------------------
(***************************************************************************)
(* Proofs about the execution ticks, for any intents, limits and scenes.   *)
(* What concerns one tick holds for any number of executors; the rest is   *)
(* for one at a time, which Alone says.                                    *)
(***************************************************************************)
EXTENDS LiveExecutor, FiniteSetTheorems, SequenceTheorems, WellFoundedInduction, TLAPS

-----------------------------------------------------------------------------
(* The order in which a tick takes its intents.                            *)

In(order) == {order[k] : k \in DOMAIN order}

Distinct(order) == \A j, k \in DOMAIN order : order[j] = order[k] => j = k

LEMMA PositionIs ==
  ASSUME NEW order \in Seq(Intent), NEW i \in In(order)
  PROVE  /\ Position(order, i) \in DOMAIN order
         /\ order[Position(order, i)] = i
         /\ Position(order, i) \in Nat
  <1>1. \E k \in DOMAIN order : order[k] = i
    BY DEF In
  <1>2. Position(order, i) \in DOMAIN order /\ order[Position(order, i)] = i
    BY <1>1 DEF Position
  <1>3. DOMAIN order \subseteq Nat
    BY LenProperties
  <1>4. QED
    BY <1>2, <1>3

(* Of some intents, one has the least position. *)
LEMMA OldestExists ==
  ASSUME NEW order \in Seq(Intent), NEW m \in SUBSET In(order), m # {}
  PROVE  \E i \in m : \A j \in m : Position(order, i) <= Position(order, j)
  <1> DEFINE Places == {Position(order, i) : i \in m}
  <1>1. \A i \in m : Position(order, i) \in Nat
    BY PositionIs
  <1>2. Places \subseteq Nat /\ Places # {}
    BY <1>1
  <1>3. PICK i \in m : Position(order, i) \in Places
    OBVIOUS
  <1>4. PICK n \in Places : \A k \in Places : ~(<<k, n>> \in OpToRel(<, Nat))
    BY <1>2, <1>3, WFMin, NatLessThanWellFounded, Zenon
  <1>5. \A k \in Places : ~(k < n)
    BY <1>2, <1>4, Zenon DEF OpToRel
  <1>6. PICK o \in m : Position(order, o) = n
    OBVIOUS
  <1>7. \A j \in m : Position(order, j) \in Places
    OBVIOUS
  <1> HIDE DEF Places
  <1>8. \A j \in m : n <= Position(order, j)
    BY <1>1, <1>2, <1>5, <1>7
  <1>9. QED
    BY <1>6, <1>8

Leads(order, m, i) == \A j \in m \ {i} : Precedes(order, i, j)

LEMMA FirstExists ==
  ASSUME NEW order \in Seq(Intent), Distinct(order),
         NEW m \in SUBSET In(order), m # {}
  PROVE  \E i \in m : Leads(order, m, i)
  <1>1. \A i \in m : /\ Position(order, i) \in Nat
                     /\ order[Position(order, i)] = i
    BY PositionIs
  <1>2. \A i, j \in m : Position(order, i) = Position(order, j) => i = j
    BY <1>1
  <1>3. CASE m \ Buy # {}
    <2>1. PICK i \in m \ Buy : \A j \in m \ Buy : Position(order, i) <= Position(order, j)
      BY <1>3, OldestExists
    <2>2. Leads(order, m, i)
      BY <2>1, <1>1, <1>2 DEF Leads, Precedes
    <2>3. QED
      BY <2>1, <2>2
  <1>4. CASE m \subseteq Buy
    <2>1. PICK i \in m : \A j \in m : Position(order, i) <= Position(order, j)
      BY OldestExists
    <2>2. Leads(order, m, i)
      BY <2>1, <1>1, <1>2, <1>4 DEF Leads, Precedes
    <2>3. QED
      BY <2>2
  <1>5. QED
    BY <1>3, <1>4

LEMMA FirstIs ==
  ASSUME NEW order \in Seq(Intent), Distinct(order),
         NEW m \in SUBSET In(order), m # {}
  PROVE  First(order, m) \in m /\ Leads(order, m, First(order, m))
  BY FirstExists DEF First, Leads

LEMMA OnlyOneLeads ==
  ASSUME NEW order \in Seq(Intent), NEW m \in SUBSET In(order),
         NEW i \in m, NEW j \in m, Leads(order, m, i), Leads(order, m, j)
  PROVE  i = j
  <1>1. Position(order, i) \in Nat /\ Position(order, j) \in Nat
    BY PositionIs
  <1>2. QED
    BY <1>1 DEF Leads, Precedes

(* A later intent changes nothing for those before it. *)
LEMMA FirstStays ==
  ASSUME NEW order \in Seq(Intent), Distinct(order),
         NEW m \in SUBSET In(order), m # {}, NEW i \in Intent \ In(order)
  PROVE  /\ Distinct(Append(order, i))
         /\ In(Append(order, i)) = In(order) \cup {i}
         /\ First(Append(order, i), m) = First(order, m)
  <1> DEFINE next == Append(order, i)
  <1>1. /\ next \in Seq(Intent) /\ Len(next) = Len(order) + 1
        /\ \A k \in 1..Len(order) : next[k] = order[k]
        /\ next[Len(order) + 1] = i
    BY AppendProperties
  <1>2. DOMAIN order = 1..Len(order) /\ DOMAIN next = 1..Len(next) /\ Len(order) \in Nat
    BY <1>1, LenProperties
  <1> HIDE DEF next
  <1>3. \A k \in 1..Len(order) : order[k] # i
    BY <1>2 DEF In
  <1>4. Distinct(next)
    BY <1>1, <1>2, <1>3 DEF Distinct
  <1>5. In(next) = In(order) \cup {i}
    BY <1>1, <1>2 DEF In
  <1>6. \A j \in m : Position(next, j) = Position(order, j)
    <2> TAKE j \in m
    <2>1. Position(order, j) \in DOMAIN order /\ order[Position(order, j)] = j
      BY PositionIs
    <2>2. Position(next, j) \in DOMAIN next /\ next[Position(next, j)] = j
      BY <1>1, <1>5, PositionIs
    <2>3. QED
      BY <2>1, <2>2, <1>1, <1>2, <1>4 DEF Distinct
  <1>7. \A j \in m : Leads(next, m, j) <=> Leads(order, m, j)
    BY <1>6 DEF Leads, Precedes
  <1>8. First(order, m) \in m /\ Leads(order, m, First(order, m))
    BY FirstIs
  <1>9. First(next, m) \in m /\ Leads(next, m, First(next, m))
    BY <1>1, <1>4, <1>5, FirstIs
  <1>10. First(next, m) = First(order, m)
    BY <1>7, <1>8, <1>9, OnlyOneLeads
  <1>11. QED
    BY <1>4, <1>5, <1>10 DEF next

-----------------------------------------------------------------------------
(* What the steps of a tick do to it.                                      *)

(* Only process p moves. *)
Only(p) ==
  /\ tick' \in [Process -> Tick]
  /\ \A q \in Process \ {p} : tick'[q] = tick[q]

Keeps(p) ==
  /\ tick'[p].started = tick[p].started
  /\ tick'[p].todo = tick[p].todo
  /\ tick'[p].seen = tick[p].seen
  /\ tick'[p].attempts = tick[p].attempts
  /\ tick'[p].rerun = tick[p].rerun

Rests(p) == tick'[p].phase = "idle" /\ tick'[p].todo = {}

LEMMA ReportsDoes ==
  ASSUME TypeOK, NEW p \in Process, NEW outcome \in Outcome, Reports(p, outcome)
  PROVE  Only(p) /\ Keeps(p) /\ tick'[p].phase = "report" /\ tick'[p].outcome = outcome
  BY DEF TypeOK, Reports, Only, Keeps, Tick, Phase

LEMMA GoesToDoes ==
  ASSUME TypeOK, NEW p \in Process, NEW phase \in Phase, GoesTo(p, phase)
  PROVE  Only(p) /\ Keeps(p) /\ tick'[p].phase = phase
  BY DEF TypeOK, GoesTo, Only, Keeps, Tick, Phase

LEMMA IdleIs ==
  /\ Idle \in Tick
  /\ Idle.phase = "idle" /\ Idle.todo = {}
  BY ConstantsAssumption DEF Idle, Tick, Phase, Outcome, Placed

LEMMA EndsDoes ==
  ASSUME TypeOK, NEW p \in Process, EndTick(p) \/ Kill(p)
  PROVE  Only(p) /\ Rests(p)
  <1>1. tick' = [tick EXCEPT ![p] = Idle]
    BY DEF EndTick, Kill
  <1>2. QED
    BY <1>1, IdleIs DEF TypeOK, Only, Rests

LEMMA PendingSubmitted ==
  Queue(Pending) \in SUBSET Submitted
  BY DEF Queue, FirstBuys, Pending

LEMMA StartDoes ==
  ASSUME TypeOK, \A i \in Intent : Len(lines[i]) <= MaxLines,
         NEW p \in Process, Start(p)
  PROVE  /\ Only(p)
         /\ tick'[p].phase = "next"
         /\ tick'[p].started = clock
         /\ tick'[p].todo = Queue(Pending)
         /\ tick'[p].seen = [i \in Intent |-> History(i)]
         /\ tick'[p].rerun = FALSE
  <1> DEFINE new == [Idle EXCEPT !.phase = "next", !.started = clock, !.todo = Queue(Pending),
                                 !.seen = [i \in Intent |-> History(i)]]
  <1>1. tick' = [tick EXCEPT ![p] = new]
    BY DEF Start
  <1>2. \A i \in Intent : History(i) \subseteq 1..MaxLines
    <2> TAKE i \in Intent
    <2>1. lines[i] \in Seq(Line) /\ Len(lines[i]) <= MaxLines
      BY DEF TypeOK
    <2>2. DOMAIN lines[i] = 1..Len(lines[i]) /\ Len(lines[i]) \in Nat
      BY <2>1, LenProperties
    <2>3. QED
      BY <2>1, <2>2, ConstantsAssumption DEF History
  <1>3. Submitted \subseteq Intent
    <2>1. intents \in Seq(Intent)
      BY DEF TypeOK
    <2>2. QED
      BY <2>1, ElementOfSeq, LenProperties DEF Submitted
  <1>4. /\ new.phase = "next" /\ new.started = clock /\ new.todo = Queue(Pending)
        /\ new.seen = [i \in Intent |-> History(i)] /\ new.rerun = FALSE
    BY DEF Idle
  <1>5. new \in Tick
    <2>1. [i \in Intent |-> History(i)] \in [Intent -> SUBSET (1..MaxLines)]
      BY <1>2
    <2>2. Queue(Pending) \in SUBSET Intent
      BY <1>3, PendingSubmitted
    <2>3. clock \in 0..Horizon
      BY DEF TypeOK
    <2> DEFINE history == [i \in Intent |-> History(i)]
               queue == Queue(Pending)
    <2>4. history \in [Intent -> SUBSET (1..MaxLines)] /\ queue \in SUBSET Intent
      BY <2>1, <2>2
    <2> HIDE DEF history, queue
    <2>5. [Idle EXCEPT !.phase = "next", !.started = clock, !.todo = queue, !.seen = history]
            \in Tick
      BY <2>3, <2>4, IdleIs DEF Tick, Phase
    <2>6. QED
      BY <2>5 DEF history, queue
  <1> HIDE DEF new
  <1>6. QED
    BY <1>1, <1>4, <1>5 DEF TypeOK, Only

(* Going on to the next intent, without another word on this one. *)
Leaves(p) ==
  /\ tick'[p].phase = "next"
  /\ tick'[p].started = tick[p].started
  /\ tick'[p].todo = tick[p].todo \ {Current(p)}
  /\ tick'[p].seen = tick[p].seen

LEMMA SkipDoes ==
  ASSUME TypeOK, NEW p \in Process, Skip(p)
  PROVE  Only(p) /\ Leaves(p)
  BY DEF TypeOK, Skip, Only, Leaves, Tick

LEMMA OpenSessionDoes ==
  ASSUME TypeOK, NEW p \in Process, OpenSession(p), Current(p) \in Intent
  PROVE  /\ Only(p)
         /\ tick'[p].phase = "check"
         /\ tick'[p].started = tick[p].started
         /\ tick'[p].todo = tick[p].todo
         /\ tick'[p].seen = tick[p].seen
         /\ tick'[p].attempts = Cardinality(tick[p].seen[Current(p)])
         /\ tick'[p].rerun = FALSE
  <1> DEFINE seen == tick[p].seen[Current(p)]
             count == Cardinality(seen)
  <1>1. seen \subseteq 1..MaxLines
    BY DEF TypeOK, Tick
  <1>2. IsFiniteSet(seen)
    <2>1. IsFiniteSet(1..MaxLines)
      <3>1. 1 \in Int /\ MaxLines \in Int
        BY ConstantsAssumption
      <3>2. QED
        BY <3>1, FS_Interval, Zenon
    <2>2. QED
      BY <1>1, <2>1, FS_Subset
  <1>3. count \in Nat
    BY <1>2, FS_CardinalityType
  <1>4. count < MaxAttempts
    BY <1>3, ConstantsAssumption DEF OpenSession, Held, Capped
  <1>5. count \in 0..(MaxAttempts - 1)
    BY <1>3, <1>4, ConstantsAssumption
  <1>6. tick' = [tick EXCEPT ![p].phase = "check", ![p].attempts = count, ![p].rerun = FALSE]
    BY DEF OpenSession
  <1>7. PICK n \in 0..(MaxAttempts - 1) : n = count
    BY <1>5
  <1> HIDE DEF count, seen
  <1>8. tick' = [tick EXCEPT ![p] =
                   [tick[p] EXCEPT !.phase = "check", !.attempts = n, !.rerun = FALSE]]
    BY <1>6, <1>7
  <1>9. [tick[p] EXCEPT !.phase = "check", !.attempts = n, !.rerun = FALSE] \in Tick
    BY DEF TypeOK, Tick, Phase
  <1>10. Only(p)
    BY <1>8, <1>9 DEF TypeOK, Only
  <1>11. tick'[p] = [tick[p] EXCEPT !.phase = "check", !.attempts = n, !.rerun = FALSE]
    BY <1>8 DEF TypeOK
  <1>12. tick[p] \in Tick
    BY DEF TypeOK
  <1>13. QED
    BY <1>7, <1>10, <1>11, <1>12 DEF Tick, count, seen

LEMMA WriteLineDoes ==
  ASSUME TypeOK, NEW p \in Process, WriteLine(p)
  PROVE  /\ Only(p)
         /\ \/ ~Again(p) /\ Leaves(p)
            \/ /\ Again(p)
               /\ tick'[p].phase = "check"
               /\ tick'[p].started = tick[p].started
               /\ tick'[p].todo = tick[p].todo
               /\ tick'[p].seen = tick[p].seen
               /\ tick'[p].attempts = tick[p].attempts + 1
               /\ tick'[p].rerun = TRUE
  <1>1. CASE Again(p)
    <2>1. tick' = [tick EXCEPT ![p] =
                     [tick[p] EXCEPT !.phase = "check", !.attempts = tick[p].attempts + 1,
                                     !.rerun = TRUE]]
      BY <1>1 DEF WriteLine
    <2>2. tick[p].attempts + 1 \in 0..(MaxAttempts - 1)
      BY <1>1, ConstantsAssumption DEF Again, TypeOK, Tick
    <2>3. QED
      BY <1>1, <2>1, <2>2 DEF TypeOK, Only, Tick, Phase
  <1>2. CASE ~Again(p)
    <2>1. tick' = [tick EXCEPT ![p] =
                     [tick[p] EXCEPT !.phase = "next", !.todo = tick[p].todo \ {Current(p)}]]
      BY <1>2 DEF WriteLine
    <2>2. QED
      BY <1>2, <2>1 DEF TypeOK, Only, Leaves, Tick, Phase
  <1>3. QED
    BY <1>1, <1>2

-----------------------------------------------------------------------------
(* The invariant of any number of ticks.                                   *)

LinesBounded == \A i \in Intent : Len(lines[i]) <= MaxLines

(* A session works on an intent that was handed over, and settles or       *)
(* records an order that exists.                                           *)
Linked ==
  \A p \in Process :
    /\ tick[p].todo \subseteq Submitted
    /\ Working(p) => tick[p].todo # {}
    /\ tick[p].phase \in {"record", "submit", "settle"} => orders[Current(p)] # << >>

(* The ledger calls an order filled only when the broker has filled some.  *)
SaidIsSold == \A i \in Intent : ledger[i] \in Filled => SoldSome(i)

Told(i) == \E k \in DOMAIN lines[i] : lines[i][k].problem

(* The session of p placed an order of i and its line will say so, unless  *)
(* the ledger does.                                                        *)
Telling(p, i) ==
  /\ Working(p) /\ Current(p) = i
  /\ \/ tick[p].phase = "record"
     \/ tick[p].phase = "report" /\ tick[p].outcome \in Placed \cup {"no_report"}

Heard ==
  scene.mayDie = {} =>
    \A i \in Intent :
      orders[i] # << >> /\ ledger[i] = "none" => Told(i) \/ \E p \in Process : Telling(p, i)

IInv ==
  /\ TypeOK /\ Distinct(intents) /\ LinesBounded
  /\ Linked /\ SaidIsSold /\ Heard

(* The intent at which a session is at work is one of those left to do.    *)
LEMMA CurrentIs ==
  ASSUME TypeOK, Distinct(intents), Linked, NEW p \in Process, tick[p].todo # {}
  PROVE  Current(p) \in tick[p].todo /\ Current(p) \in Submitted /\ Current(p) \in Intent
  <1>1. intents \in Seq(Intent) /\ tick[p].todo \in SUBSET Intent
    BY DEF TypeOK, Tick
  <1>2. tick[p].todo \subseteq Submitted
    BY DEF Linked
  <1>3. Submitted = In(intents)
    BY DEF Submitted, In
  <1>4. First(intents, tick[p].todo) \in tick[p].todo
    BY <1>1, <1>2, <1>3, FirstIs
  <1>5. QED
    BY <1>1, <1>2, <1>4 DEF Current

(* The steps of a session that only move it. *)
Session(p) ==
  CheckHistory(p) \/ Stop(p) \/ PlaceOrder(p) \/ RecordOrder(p)
  \/ AppendSubmitted(p) \/ Settle(p) \/ SessionFails(p)

LEMMA SettledIs ==
  ASSUME NEW status
  PROVE  Settled(status).outcome \in Outcome /\ Settled(status).ledger \in LedgerStatus \ {"none"}
  BY DEF Settled, Outcome, Placed, LedgerStatus, Filled

LEMMA SessionDoes ==
  ASSUME TypeOK, NEW p \in Process, Session(p)
  PROVE  Only(p) /\ Keeps(p) /\ Working(p) /\ Working(p)'
  <1> USE DEF Working
  <1>1. CASE CheckHistory(p)
    <2>1. Reports(p, "submitted") \/ GoesTo(p, "review")
      BY <1>1 DEF CheckHistory
    <2>2. QED
      BY <1>1, <2>1, ReportsDoes, GoesToDoes DEF CheckHistory, Phase, Outcome, Placed
  <1>2. CASE Stop(p)
    BY <1>2, ReportsDoes DEF Stop, Phase, Outcome, Placed
  <1>3. CASE PlaceOrder(p)
    BY <1>3, GoesToDoes DEF PlaceOrder, Phase, Outcome, Placed
  <1>4. CASE RecordOrder(p)
    BY <1>4, ReportsDoes, GoesToDoes DEF RecordOrder, Phase, Outcome, Placed
  <1>5. CASE AppendSubmitted(p)
    BY <1>5, GoesToDoes DEF AppendSubmitted, Phase, Outcome, Placed
  <1>6. CASE Settle(p)
    <2>1. PICK outcome \in Outcome : Reports(p, outcome)
      BY <1>6, SettledIs DEF Settle
    <2>2. QED
      BY <1>6, <2>1, ReportsDoes DEF Settle
  <1>7. CASE SessionFails(p)
    BY <1>7, ReportsDoes DEF SessionFails, Phase, Outcome, Placed
  <1>8. QED
    BY <1>1, <1>2, <1>3, <1>4, <1>5, <1>6, <1>7 DEF Session

LEMMA ProcessStep ==
  ASSUME IInv, NEW p \in Process, Start(p) \/ Step(p) \/ Kill(p)
  PROVE  Only(p) /\ UNCHANGED <<scene, clock, intents, paired>>
  <1>1. TypeOK /\ (\A i \in Intent : Len(lines[i]) <= MaxLines)
    BY DEF IInv, LinesBounded
  <1>2. CASE Start(p)
    BY <1>1, <1>2, StartDoes DEF Start
  <1>3. CASE Skip(p)
    BY <1>1, <1>3, SkipDoes DEF Skip
  <1>4. CASE OpenSession(p)
    BY <1>1, <1>4, OpenSessionDoes, CurrentIs DEF OpenSession, IInv
  <1>5. CASE WriteLine(p)
    BY <1>1, <1>5, WriteLineDoes DEF WriteLine
  <1>6. CASE EndTick(p) \/ Kill(p)
    BY <1>1, <1>6, EndsDoes DEF EndTick, Kill
  <1>7. CASE Session(p)
    BY <1>1, <1>7, SessionDoes
       DEF Session, CheckHistory, Stop, PlaceOrder, RecordOrder, AppendSubmitted, Settle,
           SessionFails
  <1>8. QED
    BY <1>2, <1>3, <1>4, <1>5, <1>6, <1>7 DEF Step, Session

(* Orders appear and fill; none goes, and none gives back what it sold.    *)
OrdersGrow ==
  /\ orders' \in [Intent -> Seq(OrderStatus)]
  /\ \A i \in Intent : orders[i] # << >> => orders'[i] # << >>
  /\ \A i \in Intent : SoldSome(i) => SoldSome(i)'

LEMMA OrdersStep ==
  ASSUME IInv, Next
  PROVE  OrdersGrow
  <1> USE DEF OrdersGrow
  <1>1. orders \in [Intent -> Seq(OrderStatus)]
    BY DEF IInv, TypeOK
  <1>2. CASE UNCHANGED orders
    BY <1>1, <1>2 DEF SoldSome
  <1>3. ASSUME NEW p \in Process, PlaceOrder(p)
        PROVE  OrdersGrow
    <2> DEFINE c == Current(p)
    <2>1. tick[p].todo # {}
      BY <1>3 DEF IInv, Linked, Working, PlaceOrder
    <2>2. c \in Intent
      BY <2>1, CurrentIs DEF IInv
    <2>3. orders' = [orders EXCEPT ![c] = Append(orders[c], "open")]
      BY <1>3 DEF PlaceOrder
    <2> HIDE DEF c
    <2>4. "open" \in OrderStatus /\ orders[c] \in Seq(OrderStatus)
      BY <1>1, <2>2 DEF OrderStatus
    <2>5. /\ Append(orders[c], "open") \in Seq(OrderStatus)
          /\ Append(orders[c], "open") # << >>
          /\ \A k \in 1..Len(orders[c]) : Append(orders[c], "open")[k] = orders[c][k]
          /\ Len(Append(orders[c], "open")) = Len(orders[c]) + 1
      BY <2>4, AppendProperties
    <2>6. /\ \A i \in Intent \ {c} : orders'[i] = orders[i]
          /\ orders'[c] = Append(orders[c], "open")
      BY <1>1, <2>2, <2>3
    <2>7. orders' \in [Intent -> Seq(OrderStatus)]
      BY <1>1, <2>3, <2>5
    <2>8. DOMAIN orders[c] \subseteq DOMAIN orders'[c] /\ DOMAIN orders[c] = 1..Len(orders[c])
      BY <2>4, <2>5, <2>6, LenProperties
    <2>9. QED
      BY <2>5, <2>6, <2>7, <2>8 DEF SoldSome
  <1>4. ASSUME NEW i \in Intent, BrokerMoves(i)
        PROVE  OrdersGrow
    <2>1. PICK k \in DOMAIN orders[i], status \in OrderStatus \ {"open"} :
            /\ \/ orders[i][k] = "open" /\ status # "cut"
               \/ orders[i][k] = "part" /\ status \in {"filled", "cut"}
            /\ orders' = [orders EXCEPT ![i][k] = status]
      BY <1>4 DEF BrokerMoves
    <2> DEFINE row == [orders[i] EXCEPT ![k] = status]
    <2>2. orders[i] \in Seq(OrderStatus)
      BY <1>1
    <2>3. /\ row \in Seq(OrderStatus)
          /\ DOMAIN row = DOMAIN orders[i] /\ row # << >>
          /\ row[k] = status
          /\ \A j \in DOMAIN orders[i] \ {k} : row[j] = orders[i][j]
      BY <2>1, <2>2, ExceptSeq, LenProperties
    <2>4. /\ orders'[i] = row
          /\ \A j \in Intent \ {i} : orders'[j] = orders[j]
          /\ DOMAIN orders' = Intent
      BY <1>1, <2>1
    <2> HIDE DEF row
    <2>5. orders' \in [Intent -> Seq(OrderStatus)]
      BY <1>1, <2>1, <2>3 DEF row
    <2>6. SoldSome(i) => SoldSome(i)'
      BY <2>1, <2>3, <2>4 DEF SoldSome
    <2>7. \A j \in Intent \ {i} : SoldSome(j) => SoldSome(j)'
      BY <2>4 DEF SoldSome
    <2>8. \A j \in Intent : orders[j] # << >> => orders'[j] # << >>
      BY <2>3, <2>4
    <2>9. QED
      BY <2>5, <2>6, <2>7, <2>8
  <1>5. ASSUME NEW p \in Process, Start(p) \/ Step(p) \/ Kill(p), ~PlaceOrder(p)
        PROVE  UNCHANGED orders
    BY <1>5 DEF Start, Step, Kill, Skip, OpenSession, WriteLine, EndTick, CheckHistory, Stop,
                RecordOrder, AppendSubmitted, Settle, SessionFails
  <1>6. QED
    BY <1>2, <1>3, <1>4, <1>5 DEF Next, SubmitIntent, PairSwap, Pass

(* The ledger forgets no intent, and says of none that it was filled which *)
(* the broker has not filled.                                              *)
LedgerGrows ==
  /\ ledger' \in [Intent -> LedgerStatus]
  /\ \A i \in Intent : ledger[i] # "none" => ledger'[i] # "none"
  /\ \A i \in Intent : ledger'[i] \in Filled => ledger[i] \in Filled \/ SoldSome(i)

LEMMA LedgerStep ==
  ASSUME IInv, Next
  PROVE  LedgerGrows
  <1>1. /\ ledger \in [Intent -> LedgerStatus]
        /\ orders \in [Intent -> Seq(OrderStatus)]
    BY DEF IInv, TypeOK
  <1>2. CASE UNCHANGED ledger
    BY <1>1, <1>2 DEF LedgerGrows
  <1>3. ASSUME NEW p \in Process, RecordOrder(p) \/ AppendSubmitted(p) \/ Settle(p)
        PROVE  LedgerGrows
    <2> DEFINE c == Current(p)
               last == orders[c][Len(orders[c])]
    <2>1. tick[p].todo # {} /\ (Settle(p) => orders[c] # << >>)
      BY <1>3 DEF IInv, Linked, Working, RecordOrder, AppendSubmitted, Settle
    <2>2. c \in Intent
      BY <2>1, CurrentIs DEF IInv
    <2>3. CASE RecordOrder(p)
      BY <1>1, <2>2, <2>3 DEF RecordOrder, LedgerGrows, LedgerStatus, Filled
    <2>4. CASE AppendSubmitted(p)
      BY <1>1, <2>2, <2>4 DEF AppendSubmitted, LedgerGrows, LedgerStatus, Filled
    <2>5. CASE Settle(p)
      <3>1. ledger' = [ledger EXCEPT ![c] = Settled(last).ledger]
        BY <2>5 DEF Settle
      <3>2. Len(orders[c]) \in DOMAIN orders[c]
        BY <1>1, <2>1, <2>2, <2>5, LenProperties, EmptySeq
      <3>3. Settled(last).ledger \in Filled => SoldSome(c)
        BY <3>2 DEF Settled, Filled, SoldSome
      <3>4. Settled(last).ledger \in LedgerStatus \ {"none"}
        BY SettledIs
      <3> HIDE DEF last, c
      <3>5. QED
        BY <1>1, <2>2, <3>1, <3>3, <3>4 DEF LedgerGrows
    <2>6. QED
      BY <1>3, <2>3, <2>4, <2>5
  <1>4. ASSUME NEW p \in Process, Start(p) \/ Step(p) \/ Kill(p),
               ~(RecordOrder(p) \/ AppendSubmitted(p) \/ Settle(p))
        PROVE  UNCHANGED ledger
    BY <1>4 DEF Start, Step, Kill, Skip, OpenSession, WriteLine, EndTick, CheckHistory, Stop,
                PlaceOrder, SessionFails
  <1>5. QED
    BY <1>2, <1>3, <1>4 DEF Next, SubmitIntent, PairSwap, Pass, BrokerMoves

(* A line is appended and none changes.                                    *)
LinesGrow ==
  /\ lines' \in [Intent -> Seq(Line)]
  /\ LinesBounded'
  /\ \A i \in Intent : Told(i) => Told(i)'

(* The line of process p. *)
LEMMA WriteLineSays ==
  ASSUME TypeOK, NEW p \in Process, WriteLine(p), NEW i \in Intent, i = Current(p)
  PROVE  /\ lines' \in [Intent -> Seq(Line)]
         /\ Len(lines'[i]) = Len(lines[i]) + 1
         /\ Len(lines'[i]) <= MaxLines
         /\ DOMAIN lines[i] = 1..Len(lines[i])
         /\ DOMAIN lines'[i] = 1..(Len(lines[i]) + 1)
         /\ Len(lines[i]) \in Nat
         /\ \A k \in DOMAIN lines[i] : lines'[i][k] = lines[i][k]
         /\ lines'[i][Len(lines[i]) + 1].at = tick[p].started
         /\ lines'[i][Len(lines[i]) + 1].problem = Problem(p)
         /\ \A j \in Intent \ {i} : lines'[j] = lines[j]
  <1> DEFINE line == [at |-> tick[p].started, problem |-> Problem(p)]
             old == lines[i]
             new == Append(old, line)
  <1>1. lines \in [Intent -> Seq(Line)] /\ tick[p].started \in 0..Horizon
    BY DEF TypeOK, Tick
  <1>2. Problem(p) \in BOOLEAN
    BY DEF Problem
  <1>3. line \in Line /\ line.at = tick[p].started /\ line.problem = Problem(p)
    BY <1>1, <1>2, Zenon DEF Line
  <1>4. lines' = [lines EXCEPT ![i] = new] /\ Len(old) < MaxLines
    BY DEF WriteLine
  <1>5. old \in Seq(Line)
    BY <1>1
  <1> HIDE DEF line
  <1>6. /\ new \in Seq(Line) /\ Len(new) = Len(old) + 1 /\ new[Len(old) + 1] = line
        /\ \A k \in 1..Len(old) : new[k] = old[k]
    BY <1>3, <1>5, AppendProperties
  <1>7. /\ Len(old) \in Nat /\ DOMAIN old = 1..Len(old) /\ DOMAIN new = 1..Len(new)
    BY <1>5, <1>6, LenProperties
  <1> HIDE DEF new
  <1>8. /\ lines' \in [Intent -> Seq(Line)] /\ lines'[i] = new
        /\ \A j \in Intent \ {i} : lines'[j] = lines[j]
    BY <1>1, <1>4, <1>6
  <1>9. MaxLines \in Nat
    BY ConstantsAssumption
  <1>10. QED
    BY <1>3, <1>4, <1>6, <1>7, <1>8, <1>9

LEMMA LinesStep ==
  ASSUME IInv, Next
  PROVE  LinesGrow
  <1>1. TypeOK /\ LinesBounded /\ lines \in [Intent -> Seq(Line)]
    BY DEF IInv, TypeOK
  <1>2. CASE UNCHANGED lines
    BY <1>1, <1>2 DEF LinesGrow, LinesBounded, Told
  <1>3. ASSUME NEW p \in Process, WriteLine(p)
        PROVE  LinesGrow
    <2>1. tick[p].todo # {}
      BY <1>3 DEF IInv, Linked, Working, WriteLine
    <2>2. Current(p) \in Intent
      BY <2>1, CurrentIs DEF IInv
    <2> DEFINE c == Current(p)
    <2> HIDE DEF c
    <2>3. /\ lines' \in [Intent -> Seq(Line)]
          /\ Len(lines'[c]) <= MaxLines
          /\ DOMAIN lines[c] \subseteq DOMAIN lines'[c]
          /\ \A k \in DOMAIN lines[c] : lines'[c][k] = lines[c][k]
          /\ \A j \in Intent \ {c} : lines'[j] = lines[j]
      BY <1>1, <1>3, <2>2, WriteLineSays DEF c
    <2>4. LinesBounded'
      BY <1>1, <2>3 DEF LinesBounded
    <2>5. \A i \in Intent : Told(i) => Told(i)'
      BY <2>3 DEF Told
    <2>6. QED
      BY <2>3, <2>4, <2>5 DEF LinesGrow
  <1>4. ASSUME NEW p \in Process, Start(p) \/ Step(p) \/ Kill(p), ~WriteLine(p)
        PROVE  UNCHANGED lines
    BY <1>4 DEF Start, Step, Kill, Skip, OpenSession, EndTick, CheckHistory, Stop,
                PlaceOrder, RecordOrder, AppendSubmitted, Settle, SessionFails
  <1>5. QED
    BY <1>2, <1>3, <1>4 DEF Next, SubmitIntent, PairSwap, Pass, BrokerMoves

-----------------------------------------------------------------------------
(* The invariant holds.                                                    *)

(* What is left to do of an intent's place among the others. *)
LEMMA IntentsStep ==
  ASSUME IInv, Next
  PROVE  /\ intents' \in Seq(Intent) /\ Distinct(intents)' /\ Submitted \subseteq Submitted'
         /\ \A m \in SUBSET Submitted : m # {} => First(intents', m) = First(intents, m)
  <1>1. intents \in Seq(Intent) /\ Distinct(intents) /\ Submitted = In(intents)
    BY DEF IInv, TypeOK, Submitted, In
  <1>2. ASSUME NEW i \in Intent, SubmitIntent(i)
        PROVE  /\ intents' \in Seq(Intent) /\ Distinct(intents)' /\ Submitted \subseteq Submitted'
               /\ \A m \in SUBSET Submitted : m # {} => First(intents', m) = First(intents, m)
    <2>1. intents' = Append(intents, i) /\ i \in Intent \ In(intents)
      BY <1>1, <1>2 DEF SubmitIntent
    <2>2. intents' \in Seq(Intent)
      BY <1>1, <2>1, AppendProperties
    <2>3. Submitted' = In(intents')
      BY DEF Submitted, In
    <2>4. ASSUME NEW m \in SUBSET In(intents), m # {}
          PROVE  /\ Distinct(Append(intents, i))
                 /\ In(Append(intents, i)) = In(intents) \cup {i}
                 /\ First(Append(intents, i), m) = First(intents, m)
      BY <1>1, <2>1, <2>4, FirstStays
    <2>5. CASE In(intents) # {}
      BY <1>1, <2>1, <2>2, <2>3, <2>4, <2>5
    <2>6. CASE In(intents) = {}
      <3>1. intents = << >>
        BY <1>1, <2>6, LenProperties, EmptySeq DEF In
      <3>2. intents' = <<i>>
        BY <2>1, <3>1
      <3>3. QED
        BY <1>1, <2>2, <2>6, <3>2 DEF Distinct
    <2>7. QED
      BY <2>5, <2>6
  <1>3. CASE UNCHANGED intents
    BY <1>1, <1>3 DEF Distinct, Submitted
  <1>4. ASSUME NEW p \in Process, Start(p) \/ Step(p) \/ Kill(p)
        PROVE  UNCHANGED intents
    BY <1>4, ProcessStep
  <1>5. QED
    BY <1>2, <1>3, <1>4 DEF Next, PairSwap, Pass, BrokerMoves

LEMMA TypeStep ==
  ASSUME IInv, Next
  PROVE  TypeOK'
  <1>1. TypeOK
    BY DEF IInv
  <1>2. orders' \in [Intent -> Seq(OrderStatus)]
    BY OrdersStep DEF OrdersGrow
  <1>3. ledger' \in [Intent -> LedgerStatus]
    BY LedgerStep DEF LedgerGrows
  <1>4. lines' \in [Intent -> Seq(Line)]
    BY LinesStep DEF LinesGrow
  <1>5. intents' \in Seq(Intent)
    BY IntentsStep
  <1>6. ASSUME NEW p \in Process, Start(p) \/ Step(p) \/ Kill(p)
        PROVE  TypeOK'
    <2>1. tick' \in [Process -> Tick] /\ UNCHANGED <<scene, clock, paired>>
      BY <1>6, ProcessStep DEF Only
    <2>2. marks' \subseteq Intent \X (0..Horizon)
      <3>1. CASE OpenSession(p)
        <4>1. Current(p) \in Intent
          BY <3>1, CurrentIs DEF OpenSession, IInv
        <4>2. QED
          BY <1>1, <3>1, <4>1 DEF OpenSession, TypeOK, Tick
      <3>2. CASE ~OpenSession(p)
        <4>1. UNCHANGED marks
          BY <1>6, <3>2 DEF Start, Step, Kill, Skip, WriteLine, EndTick, CheckHistory, Stop,
                            PlaceOrder, RecordOrder, AppendSubmitted, Settle, SessionFails
        <4>2. QED
          BY <1>1, <4>1 DEF TypeOK
      <3>3. QED
        BY <3>1, <3>2
    <2>3. QED
      BY <1>1, <1>2, <1>3, <1>4, <1>5, <2>1, <2>2 DEF TypeOK
  <1>7. ASSUME NEW b \in DOMAIN SaleOf, PairSwap(b)
        PROVE  TypeOK'
    BY <1>1, <1>2, <1>3, <1>4, <1>5, <1>7 DEF TypeOK, PairSwap
  <1>8. CASE Pass
    <2>1. scene.end \in 0..Horizon /\ Horizon \in Nat
      BY <1>1, ConstantsAssumption DEF TypeOK
    <2>2. clock' \in 0..Horizon
      BY <1>1, <1>8, <2>1 DEF TypeOK, Pass
    <2>3. QED
      BY <1>1, <1>2, <1>3, <1>4, <1>5, <1>8, <2>2 DEF TypeOK, Pass
  <1>9. ASSUME NEW i \in Intent, SubmitIntent(i) \/ BrokerMoves(i)
        PROVE  TypeOK'
    BY <1>1, <1>2, <1>3, <1>4, <1>5, <1>9 DEF TypeOK, SubmitIntent, BrokerMoves
  <1>10. QED
    BY <1>6, <1>7, <1>8, <1>9 DEF Next

(* What Linked asks of process p in the next state. *)
LinkedNext(p) ==
  /\ tick'[p].todo \subseteq Submitted
  /\ Working(p)' => tick'[p].todo # {}
  /\ tick'[p].phase \in {"record", "submit", "settle"} =>
       orders'[First(intents, tick'[p].todo)] # << >>

LEMMA LinkedNextIs ==
  ASSUME IInv, NEW p \in Process, Start(p) \/ Step(p) \/ Kill(p), OrdersGrow
  PROVE  LinkedNext(p)
  <1>1. TypeOK /\ (\A i \in Intent : Len(lines[i]) <= MaxLines)
    BY DEF IInv, LinesBounded
  <1>2. /\ tick[p].todo \subseteq Submitted
        /\ Working(p) => tick[p].todo # {}
        /\ tick[p].phase \in {"record", "submit", "settle"} => orders[Current(p)] # << >>
    BY DEF IInv, Linked
  <1>3. tick[p].todo # {} => Current(p) \in Intent
    BY CurrentIs DEF IInv
  <1>4. CASE Start(p)
    BY <1>1, <1>4, StartDoes, PendingSubmitted DEF LinkedNext, Working
  <1>5. CASE Skip(p)
    BY <1>1, <1>2, <1>5, SkipDoes DEF LinkedNext, Working, Leaves
  <1>6. CASE OpenSession(p)
    BY <1>1, <1>2, <1>3, <1>6, OpenSessionDoes DEF LinkedNext, Working, OpenSession
  <1>7. CASE WriteLine(p)
    BY <1>1, <1>2, <1>7, WriteLineDoes DEF LinkedNext, Working, WriteLine, Leaves
  <1>8. CASE EndTick(p) \/ Kill(p)
    BY <1>1, <1>8, EndsDoes DEF LinkedNext, Working, Rests
  <1>9. CASE Session(p)
    <2>1. tick'[p].todo = tick[p].todo /\ Working(p)
      BY <1>1, <1>9, SessionDoes DEF Keeps
    <2>2. tick[p].todo # {} /\ Current(p) \in Intent
      BY <1>2, <1>3, <2>1
    <2>3. First(intents, tick'[p].todo) = Current(p)
      BY <2>1 DEF Current
    <2>4. orders[Current(p)] # << >> => orders'[Current(p)] # << >>
      BY <2>2 DEF OrdersGrow
    <2>5. tick'[p].phase \in {"record", "submit", "settle"} => orders'[Current(p)] # << >>
      <3>1. CASE CheckHistory(p)
        <4>1. Reports(p, "submitted") \/ GoesTo(p, "review")
          BY <3>1 DEF CheckHistory
        <4>2. tick'[p].phase \in {"report", "review"}
          BY <1>1, <4>1, ReportsDoes, GoesToDoes DEF Phase, Outcome, Placed
        <4>3. QED
          BY <4>2
      <3>2. CASE Stop(p)
        BY <1>1, <3>2, ReportsDoes DEF Stop, Outcome, Placed
      <3>3. CASE PlaceOrder(p)
        <4>1. orders[Current(p)] \in Seq(OrderStatus) /\ "open" \in OrderStatus
          BY <1>1, <2>2 DEF TypeOK, OrderStatus
        <4>2. Append(orders[Current(p)], "open") # << >>
          BY <4>1, AppendProperties
        <4>3. QED
          BY <1>1, <2>2, <3>3, <4>2 DEF PlaceOrder, TypeOK
      <3>4. CASE RecordOrder(p) \/ AppendSubmitted(p)
        BY <1>2, <2>4, <3>4 DEF RecordOrder, AppendSubmitted
      <3>5. CASE Settle(p)
        BY <1>2, <2>4, <3>5 DEF Settle
      <3>6. CASE SessionFails(p)
        BY <1>1, <3>6, ReportsDoes DEF SessionFails, Outcome, Placed
      <3>7. QED
        BY <1>9, <3>1, <3>2, <3>3, <3>4, <3>5, <3>6 DEF Session
    <2>6. QED
      BY <1>2, <2>1, <2>2, <2>3, <2>5 DEF LinkedNext
  <1>10. QED
    BY <1>4, <1>5, <1>6, <1>7, <1>8, <1>9 DEF Step, Session

LEMMA LinkedStep ==
  ASSUME IInv, Next
  PROVE  Linked'
  <1>1. OrdersGrow /\ Submitted \subseteq Submitted'
    BY OrdersStep, IntentsStep
  <1>2. \A m \in SUBSET Submitted : m # {} => First(intents', m) = First(intents, m)
    BY IntentsStep
  <1>3. ASSUME NEW q \in Process, tick'[q] = tick[q]
        PROVE  /\ tick'[q].todo \subseteq Submitted'
               /\ Working(q)' => tick'[q].todo # {}
               /\ tick'[q].phase \in {"record", "submit", "settle"} =>
                    orders'[Current(q)'] # << >>
    <2>1. /\ tick[q].todo \subseteq Submitted
          /\ Working(q) => tick[q].todo # {}
          /\ tick[q].phase \in {"record", "submit", "settle"} => orders[Current(q)] # << >>
      BY DEF IInv, Linked
    <2>2. tick[q].todo # {} => Current(q)' = Current(q) /\ Current(q) \in Intent
      BY <1>2, <1>3, <2>1, CurrentIs DEF Current, IInv
    <2>3. Working(q)' = Working(q)
      BY <1>3, Zenon DEF Working
    <2>4. tick[q].phase \in {"record", "submit", "settle"} => Working(q)
      BY DEF Working
    <2>5. tick[q].todo # {} /\ orders[Current(q)] # << >> => orders'[Current(q)] # << >>
      BY <1>1, <2>2 DEF OrdersGrow
    <2>6. QED
      BY <1>1, <1>3, <2>1, <2>2, <2>3, <2>4, <2>5
  <1>4. ASSUME NEW p \in Process, Start(p) \/ Step(p) \/ Kill(p)
        PROVE  Linked'
    <2>1. Only(p) /\ intents' = intents
      BY <1>4, ProcessStep
    <2>2. LinkedNext(p)
      BY <1>1, <1>4, LinkedNextIs
    <2>3. Current(p)' = First(intents, tick'[p].todo)
      BY <2>1 DEF Current
    <2>4. QED
      BY <1>1, <1>3, <2>1, <2>2, <2>3 DEF Linked, LinkedNext, Only
  <1>5. CASE UNCHANGED tick
    BY <1>3, <1>5 DEF Linked
  <1>6. QED
    BY <1>4, <1>5 DEF Next, SubmitIntent, BrokerMoves, PairSwap, Pass

LEMMA SaidIsSoldStep ==
  ASSUME IInv, Next
  PROVE  SaidIsSold'
  <1>1. SaidIsSold
    BY DEF IInv
  <1>2. OrdersGrow /\ LedgerGrows
    BY OrdersStep, LedgerStep
  <1>3. QED
    BY <1>1, <1>2 DEF SaidIsSold, OrdersGrow, LedgerGrows

(* A session that placed an order keeps telling, until its line is written *)
(* or the ledger knows.                                                    *)
LEMMA TellingStep ==
  ASSUME IInv, OrdersGrow, scene.mayDie = {},
         NEW p \in Process, Start(p) \/ Step(p) \/ Kill(p),
         NEW i \in Intent, Telling(p, i), ledger[i] = "none", ledger'[i] = "none"
  PROVE  Told(i)' \/ Telling(p, i)'
  <1>1. TypeOK
    BY DEF IInv
  <1>2. /\ Working(p) /\ Current(p) = i
        /\ tick[p].phase \in {"record", "report"}
        /\ tick[p].phase = "report" => tick[p].outcome \in Placed \cup {"no_report"}
    BY DEF Telling
  <1>3. tick[p].todo # {}
    BY <1>2 DEF IInv, Linked
  <1>4. ASSUME Keeps(p), tick'[p].phase = "report",
               tick'[p].outcome \in Placed \cup {"no_report"}
        PROVE  Telling(p, i)'
    <2>1. intents' = intents
      BY ProcessStep
    <2>2. Current(p)' = i
      BY <1>2, <1>4, <2>1 DEF Current, Keeps
    <2>3. QED
      BY <1>4, <2>2 DEF Telling, Working
  <1>5. CASE RecordOrder(p)
    <2>1. CASE Reports(p, "submitted")
      BY <1>1, <1>4, <2>1, ReportsDoes DEF Outcome, Placed
    <2>2. CASE ~Reports(p, "submitted")
      <3>1. ledger' = [ledger EXCEPT ![i] = "REVIEWED"]
        BY <1>2, <1>5, <2>2 DEF RecordOrder
      <3>2. ledger'[i] = "REVIEWED"
        BY <1>1, <3>1 DEF TypeOK
      <3>3. QED
        BY <3>2
    <2>3. QED
      BY <2>1, <2>2
  <1>6. CASE SessionFails(p)
    BY <1>1, <1>4, <1>6, ReportsDoes DEF SessionFails, Outcome, Placed
  <1>7. CASE WriteLine(p)
    <2> DEFINE n == Len(lines[i]) + 1
    <2>1. n \in DOMAIN lines'[i] /\ lines'[i][n].problem = Problem(p)
      BY <1>1, <1>2, <1>7, WriteLineSays
    <2>2. tick[p].phase = "report"
      BY <1>7 DEF WriteLine
    <2>3. Problem(p)
      BY <1>2, <2>2 DEF Problem
    <2>4. Told(i)'
      BY <2>1, <2>3 DEF Told
    <2>5. QED
      BY <2>4
  <1>8. QED
    BY <1>2, <1>5, <1>6, <1>7
       DEF Start, Step, Kill, Skip, OpenSession, EndTick, CheckHistory, Stop, PlaceOrder,
           AppendSubmitted, Settle, Working

LEMMA HeardStep ==
  ASSUME IInv, Next
  PROVE  Heard'
  <1>1. TypeOK /\ Linked
    BY DEF IInv
  <1>2. OrdersGrow /\ LedgerGrows /\ LinesGrow
    BY OrdersStep, LedgerStep, LinesStep
  <1>3. scene' = scene
    BY ProcessStep DEF Next, SubmitIntent, BrokerMoves, PairSwap, Pass
  <1>4. SUFFICES ASSUME scene.mayDie = {}, NEW i \in Intent,
                        orders'[i] # << >>, ledger'[i] = "none"
                 PROVE  Told(i)' \/ \E p \in Process : Telling(p, i)'
    BY <1>3 DEF Heard
  <1>5. ledger[i] = "none"
    BY <1>2, <1>4 DEF LedgerGrows
  <1>6. CASE orders[i] = << >>
    <2>1. \/ \E p \in Process : PlaceOrder(p)
          \/ \E j \in Intent : BrokerMoves(j)
      BY <1>4, <1>6 DEF Next, SubmitIntent, PairSwap, Pass, Start, Step, Kill, Skip, OpenSession,
            WriteLine, EndTick, CheckHistory, Stop, RecordOrder, AppendSubmitted, Settle,
            SessionFails
    <2>2. ASSUME NEW j \in Intent, BrokerMoves(j)
          PROVE  FALSE
      <3>1. PICK k \in DOMAIN orders[j], status \in OrderStatus \ {"open"} :
              orders' = [orders EXCEPT ![j][k] = status]
        BY <2>2 DEF BrokerMoves
      <3>2. j # i
        <4>1. DOMAIN orders[i] = {}
          BY <1>6
        <4>2. QED
          BY <3>1, <4>1
      <3>3. orders'[i] = orders[i]
        BY <1>1, <3>1, <3>2 DEF TypeOK
      <3>4. QED
        BY <1>4, <1>6, <3>3
    <2>3. ASSUME NEW p \in Process, PlaceOrder(p)
          PROVE  Telling(p, i)'
      <3>1. tick[p].todo # {}
        BY <1>1, <2>3 DEF Linked, Working, PlaceOrder
      <3>2. Current(p) = i
        BY <1>1, <1>4, <1>6, <2>3 DEF TypeOK, PlaceOrder
      <3>3. Keeps(p) /\ tick'[p].phase = "record" /\ intents' = intents
        BY <1>1, <2>3, GoesToDoes DEF PlaceOrder, Phase
      <3>4. QED
        BY <3>2, <3>3 DEF Telling, Working, Current, Keeps
    <2>4. QED
      BY <2>1, <2>2, <2>3
  <1>7. CASE orders[i] # << >>
    <2>1. CASE Told(i)
      BY <1>2, <2>1 DEF LinesGrow
    <2>2. ASSUME NEW p \in Process, Telling(p, i)
          PROVE  Told(i)' \/ Telling(p, i)'
      <3>1. tick[p].todo # {} /\ tick[p].todo \in SUBSET Submitted
        BY <1>1, <2>2 DEF Linked, Telling
      <3>2. First(intents', tick[p].todo) = First(intents, tick[p].todo)
        BY <3>1, IntentsStep
      <3>3. CASE tick'[p] = tick[p]
        BY <2>2, <3>2, <3>3 DEF Telling, Working, Current
      <3>4. CASE Start(p) \/ Step(p) \/ Kill(p)
        BY <1>2, <1>4, <1>5, <2>2, <3>4, TellingStep
      <3>5. ASSUME NEW q \in Process \ {p}, Start(q) \/ Step(q) \/ Kill(q)
            PROVE  tick'[p] = tick[p]
        BY <3>5, ProcessStep DEF Only
      <3>6. QED
        BY <3>3, <3>4, <3>5 DEF Next, SubmitIntent, BrokerMoves, PairSwap, Pass
    <2>3. QED
      BY <1>4, <1>5, <1>7, <2>1, <2>2 DEF IInv, Heard
  <1>8. QED
    BY <1>6, <1>7

LEMMA IInvInit ==
  ASSUME Init
  PROVE  IInv
  <1>1. /\ tick = [p \in Process |-> Idle] /\ intents = << >>
        /\ orders = [i \in Intent |-> << >>] /\ ledger = [i \in Intent |-> "none"]
        /\ lines = [i \in Intent |-> << >>]
    BY DEF Init
  <1>2. TypeOK
    BY <1>1, IdleIs, ConstantsAssumption, EmptySeq
       DEF Init, TypeOK, LedgerStatus, Filled
  <1>3. Distinct(intents)
    BY <1>1 DEF Distinct
  <1>4. LinesBounded
    BY <1>1, ConstantsAssumption, EmptySeq DEF LinesBounded
  <1>5. Linked
    BY <1>1, IdleIs DEF Linked, Working
  <1>6. SaidIsSold
    BY <1>1 DEF SaidIsSold, Filled
  <1>7. Heard
    BY <1>1 DEF Heard
  <1>8. QED
    BY <1>2, <1>3, <1>4, <1>5, <1>6, <1>7 DEF IInv

LEMMA IInvStep ==
  ASSUME IInv, [Next]_vars
  PROVE  IInv'
  <1>1. CASE Next
    BY <1>1, TypeStep, IntentsStep, LinesStep, LinkedStep, SaidIsSoldStep, HeardStep
       DEF IInv, LinesGrow
  <1>2. CASE UNCHANGED vars
    <2> USE <1>2 DEF vars
    <2>1. TypeOK' <=> TypeOK
      BY DEF TypeOK
    <2>2. (Distinct(intents)' <=> Distinct(intents)) /\ (LinesBounded' <=> LinesBounded)
      BY DEF Distinct, LinesBounded
    <2>3. Linked' <=> Linked
      BY DEF Linked, Working, Current, Submitted
    <2>4. SaidIsSold' <=> SaidIsSold
      BY DEF SaidIsSold, SoldSome
    <2>5. Heard' <=> Heard
      BY DEF Heard, Told, Telling, Working, Current
    <2>6. QED
      BY <2>1, <2>2, <2>3, <2>4, <2>5, Zenon DEF IInv
  <1>3. QED
    BY <1>1, <1>2

(* IInv holds in every reachable state.                                    *)
THEOREM ExecutorInvariant == Spec => []IInv
  <1>1. QED
    BY IInvInit, IInvStep, PTL DEF Spec

(* Every row, line and process record is well formed, for any number of    *)
(* executors, and no session runs with its attempts used up.               *)
THEOREM ExecutorTypes == Spec => []TypeOK
  <1>1. IInv => TypeOK
    BY DEF IInv
  <1>2. QED
    BY <1>1, ExecutorInvariant, PTL

(* Once no session is at work on an intent, and if no tick is killed, an   *)
(* order the ledger does not know stands in a line with a problem: however *)
(* many executors there are.                                               *)
THEOREM OrdersAreHeard == Spec => []UnrecordedIsLoud
  <1>1. IInv => UnrecordedIsLoud
    BY DEF IInv, Heard, UnrecordedIsLoud, Told, Telling
  <1>2. QED
    BY <1>1, ExecutorInvariant, PTL

(* A session for a paired buy opens only after the broker filled some of   *)
(* its sale, however many executors there are.                             *)
THEOREM SaleBeforeBuy == Spec => PairedBuyFollowsSale
  <1> DEFINE Follows ==
        \A b \in paired : \A p \in Process :
          OpenSession(p) /\ Current(p) = b => SoldSome(SaleOf[b])
  <1>1. IInv => Follows
    <2> SUFFICES ASSUME IInv, NEW b \in paired, NEW p \in Process,
                        OpenSession(p), Current(p) = b
                 PROVE  SoldSome(SaleOf[b])
      OBVIOUS
    <2>1. b \in DOMAIN SaleOf /\ SaleOf[b] \in Intent
      BY ConstantsAssumption DEF IInv, TypeOK
    <2>2. ledger[SaleOf[b]] \in Filled
      BY DEF OpenSession, Held, AwaitingSale
    <2>3. QED
      BY <2>1, <2>2 DEF IInv, SaidIsSold
  <1>2. QED
    BY <1>1, ExecutorInvariant, PTL DEF PairedBuyFollowsSale

-----------------------------------------------------------------------------
(* Attempts, with one executor at a time.                                  *)

(* A tick and an executor started by hand beside it read the same history, *)
(* so what follows is about one at a time, as Task Scheduler starts them.  *)
Alone == \A p, q \in Process : p = q

(* The lines of an intent that count in the period of an instant. *)
Counting(i, t) == {k \in DOMAIN lines[i] : SamePeriod(t, lines[i][k].at)}

(* What a tick knows of an intent it has not come to is all there is, the  *)
(* session at work is the next attempt, and those before it are of this    *)
(* tick or RetryInterval ago.                                              *)
TickPaced(p) ==
  /\ tick[p].started <= clock
  /\ \A i \in Intent : \A k \in DOMAIN lines[i] : lines[i][k].at <= tick[p].started
  /\ \A i \in tick[p].todo :
       tick[p].phase = "next" \/ i # Current(p) =>
         tick[p].seen[i] = Counting(i, tick[p].started)
  /\ Working(p) =>
       LET counting == Counting(Current(p), tick[p].started) IN
       /\ tick[p].attempts = Cardinality(counting)
       /\ \A k \in counting :
            \/ lines[Current(p)][k].at = tick[p].started
            \/ tick[p].started - lines[Current(p)][k].at >= RetryInterval

LinesPast == \A i \in Intent : \A k \in DOMAIN lines[i] : lines[i][k].at <= clock

Capping == \A i \in Intent : \A t \in 0..Horizon : Cardinality(Counting(i, t)) <= MaxAttempts

PacedInv ==
  /\ LinesPast /\ Capping /\ RetriesSpaced
  /\ \A p \in Process : tick[p].phase # "idle" => TickPaced(p)

LEMMA CountingFinite ==
  ASSUME TypeOK, NEW i \in Intent, NEW t
  PROVE  /\ IsFiniteSet(Counting(i, t)) /\ Cardinality(Counting(i, t)) \in Nat
         /\ Counting(i, t) \subseteq 1..Len(lines[i]) /\ Len(lines[i]) \in Nat
         /\ DOMAIN lines[i] = 1..Len(lines[i])
         /\ \A k \in DOMAIN lines[i] : lines[i][k].at \in 0..Horizon
  <1>1. lines[i] \in Seq(Line)
    BY DEF TypeOK
  <1>2. DOMAIN lines[i] = 1..Len(lines[i]) /\ Len(lines[i]) \in Nat
    BY <1>1, LenProperties
  <1>3. 1 \in Int /\ Len(lines[i]) \in Int
    BY <1>2
  <1>4. IsFiniteSet(1..Len(lines[i]))
    BY <1>3, FS_Interval, Zenon
  <1>5. Counting(i, t) \subseteq 1..Len(lines[i])
    BY <1>2 DEF Counting
  <1>6. IsFiniteSet(Counting(i, t))
    BY <1>4, <1>5, FS_Subset
  <1>7. \A k \in DOMAIN lines[i] : lines[i][k] \in Line
    BY <1>1, <1>2, ElementOfSeq
  <1>8. QED
    BY <1>2, <1>5, <1>6, <1>7, FS_CardinalityType DEF Line

LEMMA PeriodsAgree ==
  ASSUME TypeOK, NEW i \in Intent, NEW s \in 0..Horizon, NEW t \in 0..Horizon, SamePeriod(s, t)
  PROVE  Counting(i, s) = Counting(i, t)
  BY DEF Counting, SamePeriod

(* The history since the last close is what counts in the period. *)
LEMMA HistoryCounts ==
  ASSUME TypeOK, LinesPast, NEW i \in Intent
  PROVE  History(i) = Counting(i, clock)
  <1>1. \A k \in DOMAIN lines[i] : lines[i][k].at \in 0..Horizon /\ lines[i][k].at <= clock
    BY CountingFinite DEF LinesPast
  <1>2. clock \in 0..Horizon /\ CloseAt \in Nat /\ Horizon \in Nat
    BY ConstantsAssumption DEF TypeOK
  <1>3. \A k \in DOMAIN lines[i] :
          lines[i][k].at >= Boundary <=> SamePeriod(clock, lines[i][k].at)
    BY <1>1, <1>2 DEF Boundary, SamePeriod
  <1>4. QED
    BY <1>3 DEF History, Counting

(* A line more in its period. *)
LEMMA LineCounts ==
  ASSUME TypeOK, NEW p \in Process, WriteLine(p), NEW i \in Intent, i = Current(p),
         NEW t \in 0..Horizon
  PROVE  /\ SamePeriod(t, tick[p].started) =>
              /\ Counting(i, t)' = Counting(i, t) \cup {Len(lines[i]) + 1}
              /\ Cardinality(Counting(i, t)') = Cardinality(Counting(i, t)) + 1
         /\ ~SamePeriod(t, tick[p].started) => Counting(i, t)' = Counting(i, t)
         /\ \A j \in Intent \ {i} : Counting(j, t)' = Counting(j, t)
  <1> DEFINE n == Len(lines[i]) + 1
  <1>1. /\ DOMAIN lines[i] = 1..Len(lines[i]) /\ DOMAIN lines'[i] = 1..n
        /\ Len(lines[i]) \in Nat
        /\ \A k \in DOMAIN lines[i] : lines'[i][k] = lines[i][k]
        /\ lines'[i][n].at = tick[p].started
        /\ \A j \in Intent \ {i} : lines'[j] = lines[j]
    BY WriteLineSays
  <1>2. IsFiniteSet(Counting(i, t)) /\ Counting(i, t) \subseteq 1..Len(lines[i])
    BY CountingFinite
  <1>3. n \notin Counting(i, t)
    BY <1>1, <1>2
  <1>4. Counting(i, t)' = {k \in DOMAIN lines'[i] : SamePeriod(t, lines'[i][k].at)}
    BY DEF Counting, SamePeriod
  <1>5. SamePeriod(t, tick[p].started) => Counting(i, t)' = Counting(i, t) \cup {n}
    BY <1>1, <1>4 DEF Counting
  <1>6. ~SamePeriod(t, tick[p].started) => Counting(i, t)' = Counting(i, t)
    BY <1>1, <1>4 DEF Counting
  <1>7. Cardinality(Counting(i, t) \cup {n}) = Cardinality(Counting(i, t)) + 1
    BY <1>2, <1>3, FS_AddElement
  <1>8. \A j \in Intent \ {i} : Counting(j, t)' = Counting(j, t)
    BY <1>1 DEF Counting, SamePeriod
  <1>9. QED
    BY <1>5, <1>6, <1>7, <1>8

(* Lines, time and history stay as they are for a tick that is not about   *)
(* to leave its intent.                                                    *)
LEMMA TickPacedKeeps ==
  ASSUME IInv, Next, NEW p \in Process, TickPaced(p), tick[p].phase # "idle",
         lines' = lines, clock <= clock', Keeps(p),
         tick'[p].phase = tick[p].phase \/ (Working(p) /\ Working(p)')
  PROVE  TickPaced(p)'
  <1>1. TypeOK /\ TypeOK'
    BY TypeStep DEF IInv
  <1>2. /\ tick[p].started \in 0..Horizon /\ clock \in 0..Horizon /\ clock' \in 0..Horizon
        /\ Horizon \in Nat
    BY <1>1, ConstantsAssumption DEF TypeOK, Tick
  <1>3. tick[p].todo # {} => Current(p)' = Current(p)
    <2>1. tick[p].todo \in SUBSET Submitted
      BY DEF IInv, Linked
    <2>2. QED
      BY <2>1, IntentsStep DEF Current, Keeps
  <1>4. \A i \in Intent, t \in 0..Horizon : Counting(i, t)' = Counting(i, t)
    BY DEF Counting, SamePeriod
  <1>5. Working(p)' <=> Working(p)
    BY DEF Working
  <1>6. Working(p) => tick[p].todo # {} /\ Current(p) \in Intent
    BY CurrentIs DEF IInv, Linked
  <1>7. tick[p].todo \subseteq Intent
    BY <1>1 DEF TypeOK, Tick
  <1>8. tick'[p].started <= clock'
    BY <1>2 DEF TickPaced, Keeps
  <1>9. \A i \in Intent : \A k \in DOMAIN lines'[i] : lines'[i][k].at <= tick'[p].started
    BY DEF TickPaced, Keeps
  <1>10. ASSUME NEW i \in tick'[p].todo, tick'[p].phase = "next" \/ i # Current(p)'
         PROVE  tick'[p].seen[i] = Counting(i, tick[p].started)'
    <2>1. i \in tick[p].todo /\ Current(p)' = Current(p)
      BY <1>3, <1>10 DEF Keeps
    <2>2. tick[p].phase = "next" \/ i # Current(p)
      BY <1>10, <2>1 DEF Working
    <2>3. QED
      BY <1>2, <1>4, <1>7, <2>1, <2>2 DEF TickPaced, Keeps
  <1>11. CASE Working(p)
    <2> DEFINE counting == Counting(Current(p), tick[p].started)
    <2>1. Current(p)' = Current(p) /\ Current(p) \in Intent
      BY <1>3, <1>6, <1>11
    <2>2. Counting(Current(p), tick[p].started)' = counting
      BY <2>1 DEF Counting, SamePeriod, Keeps
    <2>3. /\ tick[p].attempts = Cardinality(counting)
          /\ \A k \in counting :
               \/ lines[Current(p)][k].at = tick[p].started
               \/ tick[p].started - lines[Current(p)][k].at >= RetryInterval
      BY <1>11 DEF TickPaced
    <2>4. tick'[p].started = tick[p].started /\ tick'[p].attempts = tick[p].attempts
      BY DEF Keeps
    <2>5. QED
      BY <1>8, <1>9, <1>10, <2>1, <2>2, <2>3, <2>4 DEF TickPaced
  <1>12. CASE ~Working(p)
    <2>1. tick'[p].started = tick[p].started
      BY DEF Keeps
    <2>2. QED
      BY <1>5, <1>8, <1>9, <1>10, <1>12, <2>1 DEF TickPaced
  <1>13. QED
    BY <1>11, <1>12

LEMMA TickPacedOpens ==
  ASSUME IInv, PacedInv, NEW p \in Process, OpenSession(p)
  PROVE  TickPaced(p)'
  <1>1. TypeOK /\ TickPaced(p) /\ tick[p].todo # {}
    BY DEF IInv, PacedInv, OpenSession
  <1>2. PICK c \in Intent : c = Current(p) /\ c \in tick[p].todo
    BY <1>1, CurrentIs DEF IInv
  <1>15. PICK s \in 0..Horizon : s = tick[p].started
    BY <1>1 DEF TypeOK, Tick
  <1>3. /\ tick'[p].phase = "check" /\ tick'[p].started = s /\ tick'[p].todo = tick[p].todo
        /\ tick'[p].seen = tick[p].seen
        /\ tick'[p].attempts = Cardinality(tick[p].seen[c])
    BY <1>1, <1>2, <1>15, OpenSessionDoes
  <1>4. UNCHANGED <<clock, lines, intents>> /\ tick[p].phase = "next" /\ ~BackingOff(p, c)
    BY <1>2 DEF OpenSession, Held
  <1>5. Current(p)' = c
    BY <1>2, <1>3, <1>4 DEF Current
  <1>7. s \in 0..Horizon /\ Horizon \in Nat /\ RetryInterval \in Nat /\ tick[p].todo \subseteq Intent
    BY <1>1, ConstantsAssumption DEF TypeOK, Tick
  <1>8. \A i \in tick[p].todo : tick[p].seen[i] = Counting(i, s)
    BY <1>1, <1>4, <1>15 DEF TickPaced
  <1>9. \A k \in Counting(c, s) : s - lines[c][k].at >= RetryInterval
    <2> TAKE k \in Counting(c, s)
    <2>1. ~(s - lines[c][k].at < RetryInterval)
      BY <1>2, <1>4, <1>8, <1>15 DEF BackingOff
    <2>2. lines[c][k].at \in 0..Horizon
      BY <1>1, <1>2, CountingFinite DEF Counting
    <2>3. QED
      BY <1>7, <2>1, <2>2
  <1>10. \A i \in Intent : Counting(i, tick[p].started)' = Counting(i, s)
    BY <1>3, <1>4 DEF Counting, SamePeriod
  <1>6. Counting(Current(p), tick[p].started)' = Counting(c, s)
    BY <1>3, <1>4, <1>5 DEF Counting, SamePeriod
  <1>11. /\ tick'[p].started <= clock'
         /\ \A i \in Intent : \A k \in DOMAIN lines'[i] : lines'[i][k].at <= tick'[p].started
    BY <1>1, <1>3, <1>4, <1>15 DEF TickPaced
  <1>12. \A i \in tick'[p].todo : tick'[p].seen[i] = Counting(i, tick[p].started)'
    BY <1>3, <1>7, <1>8, <1>10
  <1>13. /\ tick'[p].attempts = Cardinality(Counting(c, s))
         /\ \A k \in Counting(c, s) : tick'[p].started - lines'[c][k].at >= RetryInterval
    BY <1>2, <1>3, <1>4, <1>8, <1>9
  <1>14. QED
    BY <1>5, <1>6, <1>11, <1>12, <1>13 DEF TickPaced

LEMMA TickPacedSkips ==
  ASSUME IInv, PacedInv, NEW p \in Process, Skip(p)
  PROVE  TickPaced(p)'
  <1>1. TypeOK /\ TickPaced(p)
    BY DEF IInv, PacedInv, Skip
  <1>2. Leaves(p) /\ UNCHANGED <<clock, lines>> /\ tick[p].phase = "next"
    BY <1>1, SkipDoes DEF Skip
  <1>3. \A i \in Intent : Counting(i, tick[p].started)' = Counting(i, tick[p].started)
    BY <1>2 DEF Counting, SamePeriod, Leaves
  <1>4. tick[p].todo \subseteq Intent
    BY <1>1 DEF TypeOK, Tick
  <1>5. /\ tick'[p].started <= clock'
        /\ \A i \in Intent : \A k \in DOMAIN lines'[i] : lines'[i][k].at <= tick'[p].started
    BY <1>1, <1>2 DEF TickPaced, Leaves
  <1>6. \A i \in tick'[p].todo : tick'[p].seen[i] = Counting(i, tick[p].started)'
    BY <1>1, <1>2, <1>3, <1>4 DEF TickPaced, Leaves
  <1>7. ~Working(p)'
    BY <1>2 DEF Working, Leaves
  <1>8. QED
    BY <1>5, <1>6, <1>7 DEF TickPaced

LEMMA TickPacedStarts ==
  ASSUME IInv, PacedInv, NEW p \in Process, Start(p)
  PROVE  TickPaced(p)'
  <1>1. TypeOK /\ LinesPast /\ (\A i \in Intent : Len(lines[i]) <= MaxLines)
    BY DEF IInv, PacedInv, LinesBounded
  <1>2. /\ tick'[p].phase = "next" /\ tick'[p].started = clock
        /\ tick'[p].todo = Queue(Pending)
        /\ tick'[p].seen = [i \in Intent |-> History(i)]
    BY <1>1, StartDoes
  <1>3. UNCHANGED <<clock, lines>>
    BY DEF Start
  <1>4. \A i \in Intent : Counting(i, tick[p].started)' = Counting(i, clock)
    BY <1>2, <1>3 DEF Counting, SamePeriod
  <1>5. \A i \in Intent : tick'[p].seen[i] = Counting(i, tick[p].started)'
    BY <1>1, <1>2, <1>4, HistoryCounts
  <1>6. tick'[p].todo \subseteq Intent
    <2>1. intents \in Seq(Intent)
      BY <1>1 DEF TypeOK
    <2>2. Submitted \subseteq Intent
      BY <2>1, ElementOfSeq, LenProperties DEF Submitted
    <2>3. QED
      BY <1>2, <2>2, PendingSubmitted
  <1>7. clock <= clock
    BY <1>1 DEF TypeOK
  <1>8. QED
    BY <1>1, <1>2, <1>3, <1>5, <1>6, <1>7 DEF TickPaced, LinesPast, Working

(* The line of the session at work is the attempt it was counted as. *)
LEMMA WriteLinePaced ==
  ASSUME IInv, PacedInv, Alone, NEW p \in Process, WriteLine(p)
  PROVE  PacedInv'
  <1>1. TypeOK /\ TickPaced(p) /\ tick[p].todo # {} /\ Working(p)
    BY DEF IInv, PacedInv, Linked, WriteLine, Working
  <1>2. PICK c \in Intent : c = Current(p) /\ c \in tick[p].todo
    BY <1>1, CurrentIs DEF IInv
  <1>3. PICK s \in 0..Horizon : s = tick[p].started
    BY <1>1 DEF TypeOK, Tick
  <1> DEFINE n == Len(lines[c]) + 1
             counting == Counting(c, s)
  <1>4. /\ DOMAIN lines[c] = 1..Len(lines[c]) /\ DOMAIN lines'[c] = 1..n
        /\ Len(lines[c]) \in Nat
        /\ \A k \in DOMAIN lines[c] : lines'[c][k] = lines[c][k]
        /\ lines'[c][n].at = s
        /\ \A j \in Intent \ {c} : lines'[j] = lines[j]
    BY <1>1, <1>2, <1>3, WriteLineSays
  <1>5. \A t \in 0..Horizon :
          /\ SamePeriod(t, s) =>
               /\ Counting(c, t)' = Counting(c, t) \cup {n}
               /\ Cardinality(Counting(c, t)') = Cardinality(Counting(c, t)) + 1
          /\ ~SamePeriod(t, s) => Counting(c, t)' = Counting(c, t)
          /\ \A j \in Intent \ {c} : Counting(j, t)' = Counting(j, t)
    BY <1>1, <1>2, <1>3, LineCounts
  <1>6. /\ tick[p].attempts = Cardinality(counting)
        /\ \A k \in counting : lines[c][k].at = s \/ s - lines[c][k].at >= RetryInterval
        /\ \A i \in Intent : \A k \in DOMAIN lines[i] : lines[i][k].at <= s
        /\ s <= clock
    BY <1>1, <1>2, <1>3 DEF TickPaced
  <1>7. /\ tick[p].attempts \in 0..(MaxAttempts - 1) /\ MaxAttempts \in Nat
        /\ Horizon \in Nat /\ RetryInterval \in Nat /\ CloseAt \in Nat
        /\ tick[p].todo \subseteq Intent
    BY <1>1, ConstantsAssumption DEF TypeOK, Tick
  <1>8. UNCHANGED <<clock, intents>>
    BY DEF WriteLine
  <1>9. SamePeriod(s, s)
    BY DEF SamePeriod
  <1>10. \A i \in Intent : \A k \in DOMAIN lines[i] : lines[i][k].at \in 0..Horizon
    BY <1>1, CountingFinite
  <1>11. \A i \in Intent : \A k \in DOMAIN lines'[i] : lines'[i][k].at <= s
    BY <1>3, <1>4, <1>6
  <1>12. LinesPast'
    BY <1>4, <1>6, <1>8 DEF LinesPast, PacedInv
  <1>13. Capping'
    <2> SUFFICES ASSUME NEW i \in Intent, NEW t \in 0..Horizon
                 PROVE  Cardinality(Counting(i, t)') <= MaxAttempts
      BY DEF Capping
    <2>1. Cardinality(Counting(i, t)) <= MaxAttempts
      BY DEF PacedInv, Capping
    <2>2. CASE i = c /\ SamePeriod(t, s)
      <3>1. Counting(c, t) = counting
        BY <1>1, <2>2, PeriodsAgree
      <3>2. Cardinality(Counting(c, t)') = tick[p].attempts + 1
        BY <1>5, <1>6, <2>2, <3>1
      <3>3. QED
        BY <1>7, <2>2, <3>2
    <2>3. CASE ~(i = c /\ SamePeriod(t, s))
      <3>1. Counting(i, t)' = Counting(i, t)
        BY <1>5, <2>3
      <3>2. QED
        BY <2>1, <3>1
    <2>4. QED
      BY <2>2, <2>3
  <1>14. RetriesSpaced'
    <2>1. ASSUME NEW i \in Intent, NEW j \in DOMAIN lines'[i], NEW k \in DOMAIN lines'[i],
                 SamePeriod(lines'[i][j].at, lines'[i][k].at),
                 lines'[i][j].at < lines'[i][k].at
          PROVE  lines'[i][k].at - lines'[i][j].at >= RetryInterval
      <3>1. RetriesSpaced
        BY DEF PacedInv
      <3>2. CASE i # c
        BY <1>4, <2>1, <3>1, <3>2 DEF RetriesSpaced
      <3>3. CASE i = c /\ j # n /\ k # n
        <4>1. j \in DOMAIN lines[c] /\ k \in DOMAIN lines[c]
          BY <1>4, <2>1, <3>3
        <4>2. QED
          BY <1>4, <2>1, <3>1, <3>3, <4>1 DEF RetriesSpaced
      <3>4. CASE i = c /\ j # n /\ k = n
        <4>1. j \in DOMAIN lines[c]
          BY <1>4, <2>1, <3>4
        <4>2. lines[c][j].at < s /\ SamePeriod(lines[c][j].at, s)
          BY <1>4, <2>1, <3>4, <4>1
        <4>3. j \in counting
          BY <4>1, <4>2 DEF Counting, SamePeriod
        <4>4. lines[c][j].at \in 0..Horizon
          BY <1>10, <4>1
        <4>5. s - lines[c][j].at >= RetryInterval
          BY <1>6, <4>2, <4>3, <4>4
        <4>6. QED
          BY <1>4, <3>4, <4>1, <4>5
      <3>5. CASE i = c /\ j = n
        <4>1. s < lines'[c][k].at /\ lines'[c][k].at <= s
          BY <1>4, <1>11, <2>1, <3>5
        <4>2. lines'[c][k].at \in 0..Horizon
          BY <1>4, <1>10, <2>1, <3>5
        <4>3. QED
          BY <4>1, <4>2
      <3>6. QED
        BY <3>2, <3>3, <3>4, <3>5
    <2>2. QED
      BY <2>1 DEF RetriesSpaced, SamePeriod
  <1>15. tick'[p].started = s /\ tick'[p].seen = tick[p].seen
    BY <1>1, <1>3, WriteLineDoes DEF Leaves
  <1>16. \A i \in Intent : Counting(i, tick[p].started)' = Counting(i, s)'
    BY <1>15 DEF Counting, SamePeriod
  <1>17. \A i \in tick[p].todo \ {c} : tick'[p].seen[i] = Counting(i, tick[p].started)'
    <2> TAKE i \in tick[p].todo \ {c}
    <2>1. tick[p].seen[i] = Counting(i, s)
      BY <1>1, <1>2, <1>3 DEF TickPaced
    <2>2. Counting(i, s)' = Counting(i, s)
      BY <1>5, <1>7
    <2>3. QED
      BY <1>7, <1>15, <1>16, <2>1, <2>2
  <1>18. TickPaced(p)'
    <2>1. tick'[p].started <= clock'
      BY <1>6, <1>8, <1>15
    <2>2. CASE ~Again(p)
      <3>1. tick'[p].phase = "next" /\ tick'[p].todo = tick[p].todo \ {c}
        BY <1>1, <1>2, <2>2, WriteLineDoes DEF Leaves
      <3>2. QED
        BY <1>11, <1>15, <1>17, <2>1, <3>1 DEF TickPaced, Working
    <2>3. CASE Again(p)
      <3>1. /\ tick'[p].phase = "check" /\ tick'[p].todo = tick[p].todo
            /\ tick'[p].attempts = tick[p].attempts + 1
        BY <1>1, <2>3, WriteLineDoes DEF Leaves
      <3>2. Current(p)' = c
        BY <1>2, <1>8, <3>1 DEF Current
      <3>3. Counting(Current(p), tick[p].started)' = Counting(c, s)'
        BY <1>15, <3>2 DEF Counting, SamePeriod
      <3>4. tick'[p].attempts = Cardinality(Counting(c, s)')
        BY <1>5, <1>6, <1>9, <3>1
      <3>5. \A k \in Counting(c, s)' :
              lines'[c][k].at = s \/ s - lines'[c][k].at >= RetryInterval
        <4> TAKE k \in Counting(c, s)'
        <4>1. k \in counting \/ k = n
          BY <1>5, <1>9
        <4>2. counting \subseteq DOMAIN lines[c]
          BY DEF Counting
        <4>3. QED
          BY <1>4, <1>6, <4>1, <4>2
      <3>6. QED
        BY <1>11, <1>15, <1>17, <2>1, <3>1, <3>2, <3>3, <3>4, <3>5 DEF TickPaced
    <2>4. QED
      BY <2>2, <2>3
  <1>19. \A q \in Process : q = p
    BY DEF Alone
  <1>20. QED
    BY <1>12, <1>13, <1>14, <1>18, <1>19 DEF PacedInv

LEMMA PacedStep ==
  ASSUME IInv, PacedInv, Alone, [Next]_vars
  PROVE  PacedInv'
  <1>1. TypeOK
    BY DEF IInv
  <1>2. ASSUME UNCHANGED lines, clock <= clock',
               \A p \in Process : tick'[p].phase # "idle" => TickPaced(p)'
        PROVE  PacedInv'
    <2>1. \A i \in Intent, t \in 0..Horizon : Counting(i, t)' = Counting(i, t)
      BY <1>2 DEF Counting, SamePeriod
    <2>2. Capping'
      BY <2>1 DEF PacedInv, Capping
    <2>3. RetriesSpaced'
      BY <1>2 DEF PacedInv, RetriesSpaced, SamePeriod
    <2>4. ASSUME NEW i \in Intent, NEW k \in DOMAIN lines'[i]
          PROVE  lines'[i][k].at <= clock'
      <3>1. lines[i][k].at \in 0..Horizon /\ lines[i][k].at <= clock
        BY <1>1, <1>2, <2>4, CountingFinite DEF PacedInv, LinesPast
      <3>2. clock \in 0..Horizon /\ Horizon \in Nat /\ clock' \in Int
        <4>1. clock \in 0..Horizon /\ Horizon \in Nat
          BY <1>1, ConstantsAssumption DEF TypeOK
        <4>2. clock' = clock \/ clock' = clock + 1
          BY ProcessStep DEF Next, vars, SubmitIntent, PairSwap, BrokerMoves, Pass
        <4>3. QED
          BY <4>1, <4>2
      <3>3. QED
        BY <1>2, <3>1, <3>2
    <2>5. LinesPast'
      BY <2>4 DEF LinesPast
    <2>6. QED
      BY <1>2, <2>2, <2>3, <2>5 DEF PacedInv
  <1>3. clock <= clock
    BY <1>1 DEF TypeOK
  <1>4. CASE UNCHANGED vars
    <2>1. \A p \in Process : TickPaced(p)' <=> TickPaced(p)
      BY <1>4 DEF vars, TickPaced, Counting, SamePeriod, Current, Working
    <2>2. QED
      BY <1>2, <1>3, <1>4, <2>1 DEF vars, PacedInv
  <1>5. ASSUME Next, UNCHANGED <<tick, lines>>, clock <= clock'
        PROVE  PacedInv'
    <2>1. \A p \in Process : Keeps(p) /\ tick'[p].phase = tick[p].phase
      BY <1>5 DEF Keeps
    <2>2. \A p \in Process : tick[p].phase # "idle" => TickPaced(p)'
      BY <1>5, <2>1, TickPacedKeeps DEF PacedInv
    <2>3. QED
      BY <1>2, <1>5, <2>1, <2>2
  <1>6. ASSUME NEW p \in Process, Start(p) \/ Step(p) \/ Kill(p)
        PROVE  PacedInv'
    <2>1. \A q \in Process : q = p
      BY DEF Alone
    <2>2. ASSUME UNCHANGED <<lines, clock>>, tick'[p].phase # "idle" => TickPaced(p)'
          PROVE  PacedInv'
      BY <1>2, <1>3, <2>1, <2>2
    <2>3. CASE Start(p)
      BY <2>2, <2>3, TickPacedStarts DEF Start
    <2>4. CASE Skip(p)
      BY <2>2, <2>4, TickPacedSkips DEF Skip
    <2>5. CASE OpenSession(p)
      BY <2>2, <2>5, TickPacedOpens DEF OpenSession
    <2>6. CASE WriteLine(p)
      BY <2>6, WriteLinePaced
    <2>7. CASE EndTick(p) \/ Kill(p)
      BY <1>1, <2>2, <2>7, EndsDoes DEF EndTick, Kill, Rests
    <2>8. CASE Session(p)
      <3>1. UNCHANGED <<lines, clock>>
        BY <2>8 DEF Session, CheckHistory, Stop, PlaceOrder, RecordOrder, AppendSubmitted, Settle,
             SessionFails
      <3>2. Keeps(p) /\ Working(p) /\ Working(p)'
        BY <1>1, <2>8, SessionDoes
      <3>3. Next
        BY <1>6 DEF Next
      <3>4. TickPaced(p) /\ tick[p].phase # "idle"
        BY <3>2 DEF PacedInv, Working
      <3>5. TickPaced(p)'
        BY <1>3, <3>1, <3>2, <3>3, <3>4, TickPacedKeeps
      <3>6. QED
        BY <2>2, <3>1, <3>5
    <2>9. QED
      BY <1>6, <2>3, <2>4, <2>5, <2>6, <2>7, <2>8 DEF Step, Session
  <1>7. CASE Pass
    <2>1. Next
      BY <1>7 DEF Next
    <2>2. clock <= clock' /\ UNCHANGED <<tick, lines>>
      BY <1>1, <1>7, ConstantsAssumption DEF Pass, TypeOK
    <2>3. QED
      BY <1>5, <2>1, <2>2
  <1>8. ASSUME NEW i \in Intent, SubmitIntent(i) \/ BrokerMoves(i)
        PROVE  PacedInv'
    <2>1. Next /\ UNCHANGED <<tick, lines, clock>>
      BY <1>8 DEF Next, SubmitIntent, BrokerMoves
    <2>2. QED
      BY <1>3, <1>5, <2>1
  <1>9. ASSUME NEW b \in DOMAIN SaleOf, PairSwap(b)
        PROVE  PacedInv'
    <2>1. Next /\ UNCHANGED <<tick, lines, clock>>
      BY <1>9 DEF Next, PairSwap
    <2>2. QED
      BY <1>3, <1>5, <2>1
  <1>10. QED
    BY <1>4, <1>6, <1>7, <1>8, <1>9 DEF Next

LEMMA PacedInit ==
  ASSUME Init
  PROVE  PacedInv
  <1>1. /\ tick = [p \in Process |-> Idle]
        /\ lines = [i \in Intent |-> << >>]
    BY DEF Init
  <1>2. \A i \in Intent : DOMAIN lines[i] = {}
    BY <1>1
  <1>3. \A i \in Intent : \A t \in 0..Horizon : Counting(i, t) = {}
    BY <1>2 DEF Counting
  <1>4. Cardinality({}) = 0 /\ MaxAttempts \in Nat
    BY FS_EmptySet, ConstantsAssumption
  <1>5. Capping
    BY <1>3, <1>4 DEF Capping
  <1>6. \A p \in Process : tick[p].phase = "idle"
    BY <1>1, IdleIs
  <1>7. QED
    BY <1>2, <1>5, <1>6 DEF PacedInv, LinesPast, RetriesSpaced

LEMMA PacedMeans ==
  ASSUME IInv, PacedInv
  PROVE  RetriesPaced
  <1>1. \A i \in Intent : \A j \in DOMAIN lines[i] : lines[i][j].at \in 0..Horizon
    BY CountingFinite DEF IInv
  <1>2. AttemptsCapped
    BY <1>1 DEF PacedInv, Capping, Counting, AttemptsCapped
  <1>3. QED
    BY <1>2 DEF PacedInv, RetriesPaced

(* With one executor at a time, no intent gets more than MaxAttempts       *)
(* sessions between two closes, and ticks that tried the same intent       *)
(* started RetryInterval apart, killed ticks included.                     *)
THEOREM AttemptsPaced ==
  ASSUME Alone
  PROVE  Spec => []RetriesPaced
  <1>1. Init => PacedInv
    BY PacedInit
  <1>2. IInv /\ PacedInv /\ [Next]_vars => PacedInv'
    BY PacedStep
  <1>3. IInv /\ PacedInv => RetriesPaced
    BY PacedMeans
  <1>4. QED
    BY <1>1, <1>2, <1>3, ExecutorInvariant, PTL DEF Spec

-----------------------------------------------------------------------------
(* One order, with one executor at a time and none killed.                 *)

(* Until the close, a session that is not told to look for an order has    *)
(* none to look for, and so has every intent the tick thinks untried.      *)
TickUnwarned(p) ==
  clock < CloseAt =>
    /\ tick[p].phase = "review" => orders[Current(p)] = << >>
    /\ tick[p].phase = "check" /\ ~Warned(p) => orders[Current(p)] = << >>
    /\ \A i \in tick[p].todo :
         (tick[p].phase = "next" \/ i # Current(p)) /\ tick[p].seen[i] = {}
         => orders[i] = << >>

OnceInv ==
  scene.mayDie = {} =>
    /\ OneOrderPerIntent
    /\ \A p \in Process : tick[p].phase # "idle" => TickUnwarned(p)

(* Only PlaceOrder adds an order. *)
LEMMA SameOrders ==
  ASSUME IInv, Next, \A p \in Process : ~PlaceOrder(p), NEW i \in Intent
  PROVE  Len(orders'[i]) = Len(orders[i]) /\ (orders[i] = << >> => orders'[i] = << >>)
  <1>1. orders \in [Intent -> Seq(OrderStatus)]
    BY DEF IInv, TypeOK
  <1>2. CASE orders' = orders
    BY <1>2
  <1>3. ASSUME NEW j \in Intent, BrokerMoves(j)
        PROVE  Len(orders'[i]) = Len(orders[i]) /\ (orders[i] = << >> => orders'[i] = << >>)
    <2>1. PICK k \in DOMAIN orders[j], status \in OrderStatus \ {"open"} :
            orders' = [orders EXCEPT ![j][k] = status]
      BY <1>3 DEF BrokerMoves
    <2>2. orders[j] \in Seq(OrderStatus) /\ DOMAIN orders[j] = 1..Len(orders[j])
      BY <1>1, LenProperties
    <2>3. Len([orders[j] EXCEPT ![k] = status]) = Len(orders[j])
      BY <2>2, ExceptSeq
    <2>4. CASE i = j
      <3>1. orders'[i] = [orders[j] EXCEPT ![k] = status]
        BY <1>1, <2>1, <2>4
      <3>2. orders[i] # << >>
        <4>1. CASE orders[i] = << >>
          <5>1. DOMAIN orders[i] = {}
            BY <4>1
          <5>2. QED
            BY <2>4, <5>1
        <4>2. QED
          BY <4>1
      <3>3. QED
        BY <2>3, <2>4, <3>1, <3>2
    <2>5. CASE i # j
      BY <1>1, <2>1, <2>5
    <2>6. QED
      BY <2>4, <2>5
  <1>4. ASSUME NEW p \in Process, Start(p) \/ Step(p) \/ Kill(p)
        PROVE  UNCHANGED orders
    BY <1>4 DEF Start, Step, Kill, Skip, OpenSession, WriteLine, EndTick, CheckHistory, Stop,
                RecordOrder, AppendSubmitted, Settle, SessionFails
  <1>5. QED
    BY <1>2, <1>3, <1>4 DEF Next, SubmitIntent, PairSwap, Pass

(* What a tick reads when it starts says of each pending intent with an    *)
(* order that it was tried.                                                *)
LEMMA StartUnwarned ==
  ASSUME IInv, PacedInv, Alone, scene.mayDie = {}, NEW p \in Process, Start(p)
  PROVE  TickUnwarned(p)'
  <1>1. TypeOK /\ (\A i \in Intent : Len(lines[i]) <= MaxLines)
    BY DEF IInv, LinesBounded
  <1>2. /\ tick'[p].phase = "next" /\ tick'[p].todo = Queue(Pending)
        /\ tick'[p].seen = [i \in Intent |-> History(i)]
    BY <1>1, StartDoes
  <1>3. UNCHANGED <<clock, orders, intents>> /\ tick[p].phase = "idle"
    BY DEF Start
  <1>4. \A q \in Process : ~Working(q)
    BY <1>3 DEF Alone, Working
  <1>5. ASSUME NEW i \in Queue(Pending), orders[i] # << >>, clock < CloseAt
        PROVE  i \in Intent /\ History(i) # {}
    <2>1. i \in Submitted /\ ledger[i] = "none"
      BY <1>5 DEF Queue, FirstBuys, Pending
    <2>2. i \in Intent
      <3>1. intents \in Seq(Intent)
        BY <1>1 DEF TypeOK
      <3>2. QED
        BY <2>1, <3>1, ElementOfSeq, LenProperties DEF Submitted
    <2>3. Told(i)
      BY <1>4, <1>5, <2>1, <2>2 DEF IInv, Heard, Telling
    <2>4. PICK k \in DOMAIN lines[i] : TRUE
      BY <2>3 DEF Told
    <2>5. lines[i][k].at \in 0..Horizon
      BY <1>1, <2>2, CountingFinite
    <2>6. Boundary = 0
      BY <1>1, <1>5, ConstantsAssumption DEF Boundary, TypeOK
    <2>7. k \in History(i)
      BY <2>5, <2>6, ConstantsAssumption DEF History
    <2>8. QED
      BY <2>2, <2>7
  <1>6. ASSUME NEW i \in tick'[p].todo, tick'[p].seen[i] = {}, clock' < CloseAt
        PROVE  orders'[i] = << >>
    <2>1. i \in Queue(Pending)
      BY <1>2, <1>6
    <2>2. CASE orders[i] # << >>
      <3>1. i \in Intent /\ History(i) # {}
        BY <1>3, <1>5, <1>6, <2>1, <2>2
      <3>2. QED
        BY <1>2, <1>6, <3>1
    <2>3. QED
      BY <1>3, <2>2
  <1>7. QED
    BY <1>2, <1>6 DEF TickUnwarned

(* A step that places no order keeps a tick unwarned of none. *)
LEMMA UnwarnedStep ==
  ASSUME IInv, NEW p \in Process, TickUnwarned(p), tick[p].phase # "idle",
         Step(p), ~PlaceOrder(p), tick'[p].phase # "idle"
  PROVE  TickUnwarned(p)'
  <1>1. TypeOK
    BY DEF IInv
  <1>2. UNCHANGED <<orders, clock, intents>>
    BY DEF Step, Skip, OpenSession, WriteLine, EndTick, CheckHistory, Stop,
           RecordOrder, AppendSubmitted, Settle, SessionFails
  <1>3. SUFFICES ASSUME clock < CloseAt
                 PROVE  /\ tick'[p].phase = "review" => orders[Current(p)'] = << >>
                        /\ tick'[p].phase = "check" /\ ~(tick'[p].attempts > 0)
                             => orders[Current(p)'] = << >>
                        /\ \A i \in tick'[p].todo :
                             /\ tick'[p].phase = "next" \/ i # Current(p)'
                             /\ tick'[p].seen[i] = {}
                             => orders[i] = << >>
    BY <1>2 DEF TickUnwarned, Warned
  <1>4. /\ tick[p].phase = "review" => orders[Current(p)] = << >>
        /\ tick[p].phase = "check" /\ ~(tick[p].attempts > 0) => orders[Current(p)] = << >>
        /\ \A i \in tick[p].todo :
             (tick[p].phase = "next" \/ i # Current(p)) /\ tick[p].seen[i] = {}
             => orders[i] = << >>
    BY <1>3 DEF TickUnwarned, Warned
  <1>5. tick'[p].todo = tick[p].todo => Current(p)' = Current(p)
    BY <1>2 DEF Current
  <1>6. CASE Skip(p)
    BY <1>1, <1>4, <1>6, SkipDoes DEF Leaves, Skip
  <1>7. CASE OpenSession(p)
    <2>1. tick[p].todo # {} /\ tick[p].phase = "next"
      BY <1>7 DEF OpenSession
    <2>2. Current(p) \in tick[p].todo /\ Current(p) \in Intent
      BY <2>1, CurrentIs DEF IInv
    <2>3. /\ tick'[p].phase = "check" /\ tick'[p].todo = tick[p].todo
          /\ tick'[p].seen = tick[p].seen
          /\ tick'[p].attempts = Cardinality(tick[p].seen[Current(p)])
      BY <1>1, <1>7, <2>2, OpenSessionDoes
    <2>4. ~(tick'[p].attempts > 0) => tick[p].seen[Current(p)] = {}
      <3> DEFINE seen == tick[p].seen[Current(p)]
      <3>1. seen \subseteq 1..MaxLines
        BY <1>1, <2>2 DEF TypeOK, Tick
      <3>2. IsFiniteSet(seen)
        <4>1. 1 \in Int /\ MaxLines \in Int
          BY ConstantsAssumption
        <4>2. IsFiniteSet(1..MaxLines)
          BY <4>1, FS_Interval, Zenon
        <4>3. QED
          BY <3>1, <4>2, FS_Subset
      <3>3. Cardinality(seen) \in Nat /\ (Cardinality(seen) = 0 <=> seen = {})
        BY <3>2, FS_CardinalityType, FS_EmptySet
      <3>4. QED
        BY <2>3, <3>3
    <2>5. QED
      BY <1>4, <1>5, <2>1, <2>2, <2>3, <2>4
  <1>8. CASE WriteLine(p)
    <2>1. CASE ~Again(p)
      BY <1>1, <1>4, <1>8, <2>1, WriteLineDoes DEF Leaves
    <2>2. CASE Again(p)
      <3>1. /\ tick'[p].phase = "check" /\ tick'[p].todo = tick[p].todo
            /\ tick'[p].seen = tick[p].seen
            /\ tick'[p].attempts = tick[p].attempts + 1
        BY <1>1, <1>8, <2>2, WriteLineDoes DEF Leaves
      <3>2. tick[p].attempts \in Nat
        BY <1>1, ConstantsAssumption DEF TypeOK, Tick
      <3>3. QED
        BY <1>4, <1>5, <3>1, <3>2
    <2>3. QED
      BY <2>1, <2>2
  <1>9. CASE EndTick(p)
    BY <1>1, <1>9, EndsDoes DEF Rests
  <1>10. CASE Session(p)
    <2>1. Keeps(p) /\ Working(p) /\ Working(p)'
      BY <1>1, <1>10, SessionDoes
    <2>2. Current(p)' = Current(p) /\ tick'[p].phase # "next" /\ tick[p].phase # "next"
      BY <1>5, <2>1 DEF Keeps, Working
    <2>3. tick'[p].phase # "check" /\ (tick'[p].phase = "review" => orders[Current(p)] = << >>)
      <3>1. CASE CheckHistory(p)
        <4>1. CASE Warned(p) /\ orders[Current(p)] # << >>
          BY <1>1, <3>1, <4>1, ReportsDoes DEF CheckHistory, Outcome, Placed
        <4>2. CASE ~(Warned(p) /\ orders[Current(p)] # << >>)
          <5>1. orders[Current(p)] = << >>
            BY <1>4, <3>1, <4>2 DEF CheckHistory, Warned
          <5>2. GoesTo(p, "review")
            BY <3>1, <4>2 DEF CheckHistory
          <5>3. QED
            BY <1>1, <5>1, <5>2, GoesToDoes DEF Phase
        <4>3. QED
          BY <4>1, <4>2
      <3>2. CASE Stop(p)
        BY <1>1, <3>2, ReportsDoes DEF Stop, Outcome, Placed
      <3>3. CASE RecordOrder(p)
        BY <1>1, <3>3, ReportsDoes, GoesToDoes DEF RecordOrder, Outcome, Placed, Phase
      <3>4. CASE AppendSubmitted(p)
        BY <1>1, <3>4, GoesToDoes DEF AppendSubmitted, Phase
      <3>5. CASE Settle(p)
        BY <1>1, <3>5, ReportsDoes, SettledIs DEF Settle
      <3>6. CASE SessionFails(p)
        BY <1>1, <3>6, ReportsDoes DEF SessionFails, Outcome, Placed
      <3>7. QED
        BY <1>10, <3>1, <3>2, <3>3, <3>4, <3>5, <3>6 DEF Session
    <2>4. QED
      BY <1>4, <2>1, <2>2, <2>3 DEF Keeps
  <1>11. QED
    BY <1>6, <1>7, <1>8, <1>9, <1>10 DEF Step, Session

LEMMA PlaceOnce ==
  ASSUME IInv, OnceInv, scene.mayDie = {}, NEW p \in Process, PlaceOrder(p)
  PROVE  OneOrderPerIntent' /\ TickUnwarned(p)'
  <1>1. TypeOK /\ OneOrderPerIntent /\ TickUnwarned(p)
    BY DEF IInv, OnceInv, PlaceOrder
  <1>2. PICK c \in Intent : c = Current(p) /\ c \in tick[p].todo
    <2>1. tick[p].todo # {}
      BY DEF IInv, Linked, Working, PlaceOrder
    <2>2. QED
      BY <2>1, CurrentIs DEF IInv
  <1>3. /\ clock < CloseAt /\ tick[p].phase = "review"
        /\ orders' = [orders EXCEPT ![c] = Append(orders[c], "open")]
        /\ UNCHANGED <<clock, intents>>
    BY <1>2 DEF PlaceOrder
  <1>4. orders[c] = << >>
    BY <1>1, <1>2, <1>3 DEF TickUnwarned
  <1>5. /\ Len(orders'[c]) = 1
        /\ \A i \in Intent \ {c} : orders'[i] = orders[i]
    BY <1>1, <1>2, <1>3, <1>4 DEF TypeOK
  <1>6. OneOrderPerIntent'
    <2> SUFFICES ASSUME NEW i \in Intent
                 PROVE  Len(orders'[i]) <= 1
      BY DEF OneOrderPerIntent
    <2>1. CASE i = c
      <3>1. Len(orders'[i]) = 1
        BY <1>5, <2>1, Zenon
      <3>2. QED
        BY <3>1
    <2>2. CASE i # c
      BY <1>1, <1>5, <2>2 DEF OneOrderPerIntent
    <2>3. QED
      BY <2>1, <2>2
  <1>7. Keeps(p) /\ tick'[p].phase = "record"
    BY <1>1, GoesToDoes DEF PlaceOrder, Phase
  <1>8. Current(p)' = c
    BY <1>2, <1>3, <1>7 DEF Current, Keeps
  <1>9. tick[p].todo \subseteq Intent
    BY <1>1 DEF TypeOK, Tick
  <1>10. ASSUME NEW i \in tick'[p].todo, i # c, tick'[p].seen[i] = {}
         PROVE  orders'[i] = << >>
    <2>1. i \in tick[p].todo /\ tick[p].seen[i] = {}
      BY <1>7, <1>10 DEF Keeps
    <2>2. orders[i] = << >>
      BY <1>1, <1>2, <1>3, <1>10, <2>1 DEF TickUnwarned
    <2>3. QED
      BY <1>5, <1>9, <1>10, <2>1, <2>2
  <1>11. QED
    BY <1>6, <1>7, <1>8, <1>10 DEF TickUnwarned

LEMMA OnceStep ==
  ASSUME IInv, PacedInv, OnceInv, Alone, [Next]_vars
  PROVE  OnceInv'
  <1>1. TypeOK
    BY DEF IInv
  <1>2. scene' = scene
    BY ProcessStep DEF Next, vars, SubmitIntent, BrokerMoves, PairSwap, Pass
  <1>3. SUFFICES ASSUME scene.mayDie = {}
                 PROVE  /\ OneOrderPerIntent'
                        /\ \A p \in Process : tick'[p].phase # "idle" => TickUnwarned(p)'
    BY <1>2 DEF OnceInv
  <1>4. OneOrderPerIntent /\ \A p \in Process : tick[p].phase # "idle" => TickUnwarned(p)
    BY <1>3 DEF OnceInv
  <1>5. CASE UNCHANGED vars
    BY <1>4, <1>5 DEF vars, OneOrderPerIntent, TickUnwarned, Current, Warned
  <1>6. ASSUME Next, \A p \in Process : ~PlaceOrder(p)
        PROVE  OneOrderPerIntent'
    <2> SUFFICES ASSUME NEW i \in Intent
                 PROVE  Len(orders'[i]) <= 1
      BY DEF OneOrderPerIntent
    <2>1. Len(orders'[i]) = Len(orders[i])
      BY <1>6, SameOrders
    <2>2. QED
      BY <1>4, <2>1 DEF OneOrderPerIntent
  <1>7. ASSUME NEW p \in Process, Start(p) \/ Step(p) \/ Kill(p)
        PROVE  /\ OneOrderPerIntent'
               /\ \A q \in Process : tick'[q].phase # "idle" => TickUnwarned(q)'
    <2>1. \A q \in Process : q = p
      BY DEF Alone
    <2>2. CASE PlaceOrder(p)
      BY <1>3, <2>1, <2>2, PlaceOnce
    <2>3. CASE ~PlaceOrder(p)
      <3>1. Next
        BY <1>7 DEF Next
      <3>2. OneOrderPerIntent'
        BY <1>6, <2>1, <2>3, <3>1
      <3>3. CASE Start(p)
        BY <1>3, <2>1, <3>2, <3>3, StartUnwarned
      <3>4. CASE Step(p)
        <4>1. tick[p].phase # "idle"
          BY <3>4 DEF Step, Skip, OpenSession, WriteLine, EndTick, CheckHistory, Stop,
                PlaceOrder, RecordOrder, AppendSubmitted, Settle, SessionFails, Working
        <4>2. TickUnwarned(p)
          BY <1>4, <4>1
        <4>3. tick'[p].phase # "idle" => TickUnwarned(p)'
          BY <2>3, <3>4, <4>1, <4>2, UnwarnedStep
        <4>4. QED
          BY <2>1, <3>2, <4>3
      <3>5. CASE Kill(p)
        BY <1>3, <3>5 DEF Kill
      <3>6. QED
        BY <1>7, <3>3, <3>4, <3>5
    <2>4. QED
      BY <2>2, <2>3
  <1>8. ASSUME Next, tick' = tick, clock' < CloseAt => clock < CloseAt
        PROVE  /\ OneOrderPerIntent'
               /\ \A q \in Process : tick'[q].phase # "idle" => TickUnwarned(q)'
    <2>1. \A p \in Process : ~PlaceOrder(p)
      <3> SUFFICES ASSUME NEW p \in Process, PlaceOrder(p)
                   PROVE  FALSE
        OBVIOUS
      <3>1. tick'[p].phase = "record" /\ tick[p].phase = "review"
        BY <1>1, GoesToDoes DEF PlaceOrder, Phase
      <3>2. QED
        BY <1>8, <3>1
    <2>2. ASSUME NEW q \in Process, tick'[q].phase # "idle"
          PROVE  TickUnwarned(q)'
      <3>1. TickUnwarned(q)
        BY <1>4, <1>8, <2>2
      <3>2. tick[q].todo \in SUBSET Submitted /\ tick[q].todo \subseteq Intent
        BY <1>1 DEF IInv, Linked, TypeOK, Tick
      <3>3. tick[q].todo # {} => Current(q)' = Current(q) /\ Current(q) \in Intent
        BY <1>8, <3>2, IntentsStep, CurrentIs DEF Current, IInv
      <3>4. tick[q].phase \in {"review", "check"} => tick[q].todo # {}
        BY DEF IInv, Linked, Working
      <3>5. \A i \in Intent : orders[i] = << >> => orders'[i] = << >>
        BY <1>8, <2>1, SameOrders
      <3>6. QED
        BY <1>8, <3>1, <3>2, <3>3, <3>4, <3>5 DEF TickUnwarned, Warned
    <2>3. QED
      BY <1>6, <1>8, <2>1, <2>2
  <1>9. CASE Pass
    <2>1. Next /\ tick' = tick
      BY <1>9 DEF Next, Pass
    <2>2. clock' < CloseAt => clock < CloseAt
      BY <1>1, <1>9, ConstantsAssumption DEF Pass, TypeOK
    <2>3. QED
      BY <1>8, <2>1, <2>2
  <1>10. ASSUME NEW i \in Intent, SubmitIntent(i) \/ BrokerMoves(i)
         PROVE  /\ OneOrderPerIntent'
                /\ \A q \in Process : tick'[q].phase # "idle" => TickUnwarned(q)'
    <2>1. Next /\ tick' = tick /\ clock' = clock
      BY <1>10 DEF Next, SubmitIntent, BrokerMoves
    <2>2. QED
      BY <1>8, <2>1
  <1>11. ASSUME NEW b \in DOMAIN SaleOf, PairSwap(b)
         PROVE  /\ OneOrderPerIntent'
                /\ \A q \in Process : tick'[q].phase # "idle" => TickUnwarned(q)'
    <2>1. Next /\ tick' = tick /\ clock' = clock
      BY <1>11 DEF Next, PairSwap
    <2>2. QED
      BY <1>8, <2>1
  <1>12. QED
    BY <1>5, <1>7, <1>9, <1>10, <1>11 DEF Next

(* With one executor at a time and no tick killed, an intent is ordered    *)
(* once, however its sessions fail, stop or report.                        *)
THEOREM OrderedOnce ==
  ASSUME Alone
  PROVE  Spec => []UnlessKilled
  <1>1. Init => PacedInv /\ OnceInv
    <2>1. ASSUME Init
          PROVE  OnceInv
      <3>1. \A i \in Intent : Len(orders[i]) <= 1
        BY <2>1, EmptySeq DEF Init
      <3>2. \A p \in Process : tick[p].phase = "idle"
        BY <2>1, IdleIs DEF Init
      <3>3. QED
        BY <3>1, <3>2 DEF OnceInv, OneOrderPerIntent
    <2>2. QED
      BY <2>1, PacedInit
  <1>2. IInv /\ PacedInv /\ OnceInv /\ [Next]_vars => (PacedInv /\ OnceInv)'
    BY PacedStep, OnceStep
  <1>3. OnceInv => UnlessKilled
    BY DEF OnceInv, UnlessKilled
  <1>4. QED
    BY <1>1, <1>2, <1>3, ExecutorInvariant, PTL DEF Spec
=============================================================================
