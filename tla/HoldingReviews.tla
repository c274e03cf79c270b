---------------------------- MODULE HoldingReviews ----------------------------
(***************************************************************************)
(* When a holding is due a thesis review, and what becomes of it           *)
(* (app/storage/holding_reviews.py, app/reason/events.py, the checks and   *)
(* the records of app/reason/worker.py, app/triggers/).                    *)
(*                                                                         *)
(* One significant holding of a live account, over days of six instants:   *)
(* the night, the morning review, a valuation tick, the midday review, the *)
(* afternoon with its ticks and the pre-close review, and the time after   *)
(* the close, when a review may run that trades nothing.  Every instant    *)
(* begins with a snapshot of the account.  A review is prepared at one     *)
(* instant and may end at a later one, and two runs may wait for the one   *)
(* lease of the account: the scheduled one and one that an event started.  *)
(***************************************************************************)
EXTENDS Integers, FiniteSets

CONSTANTS
  CooldownDays,  \* TRIGGER_COOLDOWN
  MaxEvents,     \* EVENT_REVIEWS_PER_DAY
  MaxSales,      \* bound: sales of the holding that did not fail
  Price,         \* of the holding, in percent of its cost
  RangeName,     \* what a review may state, by name
  Bounds,        \* of each: [low, high, floor]
  NoRange,       \* a holding bought before ranges existed
  Scene,         \* bound: the stretches of days that are looked at
  Nil

Verdict == {"none", "intact", "invalidated"}

Answers == [verdict : Verdict, range : RangeName, evidence : BOOLEAN, exit : BOOLEAN,
            triage : {"none", "same", "changes"},
            other : BOOLEAN]  \* what the other checks found is a gap

(* A scene gives its first and last day, counted from a Monday, the slots  *)
(* of a day that a schedule prepares a review for, the range it begins     *)
(* with, the days on which the company reports and on which volume may     *)
(* spike, the instants at which a headline may come, the prices that       *)
(* snapshots may bring, by instant, and what the model may answer.  The    *)
(* cooldown is three days; one of less than two would be shorter than what *)
(* the review points allow anyway.                                         *)
ASSUME HoldingsAssumption ==
  /\ {CooldownDays, MaxEvents, MaxSales} \subseteq Nat /\ CooldownDays >= 2
  /\ Price \subseteq Nat \ {0} /\ 100 \in Price
  /\ Bounds \in [RangeName -> [low : Nat, high : Nat, floor : Nat]] /\ NoRange \notin RangeName
  /\ \A s \in Scene :
       /\ {s.first, s.last} \subseteq Nat /\ s.slots \subseteq 1..5 /\ s.range \in RangeName \cup {NoRange}
       /\ s.earnings \cup s.spikes \cup s.headlines \subseteq Int
       /\ \A t \in DOMAIN s.quotes : s.quotes[t] \subseteq Price
       /\ s.answers \subseteq Answers

VARIABLES
  scene,
  clock,
  price,    \* at the last snapshot
  close,    \* at the last close before today
  crossed,  \* since when it is past each limit
  moved,    \* since when it is 5 % off that close today
  fired,    \* the price_move and volume_spike triggers, with their days
  news,     \* when a headline came that no review triaged
  held,     \* the position is open
  sales,    \* its order intents
  review,   \* its last review
  run,      \* the prepared run of each kind
  busy,     \* whose attempt runs
  asked,    \* this instant's scheduled run was prepared
  causes,   \* of today's event reviews
  midday,   \* history: a review that was prepared since today's noon was clean
  healthy   \* history: so it was every day before

market == <<price, close, crossed, moved, fired, news>>
account == <<held, sales, review>>
work == <<run, busy, asked, causes>>
history == <<midday, healthy>>
vars == <<scene, clock, market, account, work, history>>

PerDay == 6
Day(t) == t \div PerDay
Part(t) == t % PerDay
Instant(d, part) == PerDay * d + part
InSession(t) == Day(t) % 7 < 5 /\ Part(t) \in 1..4
SessionOpen(t) == Instant(Day(t), 1)
Close(d) == Instant(d, 5)
Start == Instant(scene.first, 0)

Never == -1000
Opened == Start

Kind == {"scheduled", "event"}
Loss == {"loss15", "loss40"}
Limit == Loss \cup RangeName
Stage == {"pending", "placed", "filled"}

TriggerReasons == {"price_move", "volume_spike", "earnings_reported", "x_digest",
                   "down_15_percent_from_cost", "realization_reached", "moved_since_review"}
MandatoryReasons == {"down_40_percent_from_cost", "invalidated_without_exit",
                     "above_realization_range", "below_invalidation_price", "range_missing"}
UrgentReasons == MandatoryReasons \ {"range_missing"}
Reason == TriggerReasons \cup MandatoryReasons \cup {"scheduled_review"}

Time == Int
Run == [at : Time, price : Price, named : SUBSET Reason, headline : BOOLEAN, since : Time,
        range : RangeName \cup {NoRange}, claimed : Time]

(* Nil is no run and no kind of one. *)
ASSUME NilAssumption == Nil \notin Run /\ Nil \notin Kind

(* The holding's state is well formed, and what runs was prepared.         *)
TypeOK ==
  /\ scene \in Scene /\ clock \in Time /\ price \in Price /\ close \in Price
  /\ crossed \in [Limit -> Time] /\ moved \in [{"up", "down"} -> Time]
  /\ fired \subseteq {"price_move", "volume_spike"} \X Int /\ news \in Time
  /\ {held, asked, midday, healthy} \subseteq BOOLEAN
  /\ sales \subseteq [at : Time, stage : Stage] /\ Cardinality(sales) <= MaxSales
  /\ review \in [at : Time, verdict : Verdict, range : RangeName \cup {NoRange},
                 price : Price, triggered : Time]
  /\ run \in [Kind -> Run \cup {Nil}]
  /\ busy \in Kind \cup {Nil} /\ (busy # Nil => run[busy] # Nil)
  /\ Cardinality(causes) <= MaxEvents

-----------------------------------------------------------------------------
(* What a snapshot shows.                                                  *)

LossPercent == [loss15 |-> 15, loss40 |-> 40]

Past(l, p) == IF l \in RangeName THEN p >= Bounds[l].low ELSE p <= 100 - LossPercent[l]

(* _stretch_start(), carried along: when the latest unbroken stretch past  *)
(* a limit began.                                                          *)
StretchStart(start, past) == IF ~past THEN Never ELSE IF start = Never THEN clock' ELSE start

Up(p, q) == 20 * (p - q) >= q
Down(p, q) == 20 * (q - p) >= q
MovedFrom(p, q) == Up(p, q) \/ Down(p, q)

(* A day's close is final when the next day begins. *)
Observe(p) ==
  LET newDay == Part(clock') = 0
      base == IF newDay THEN price ELSE close
      from(w) == IF newDay THEN Never ELSE moved[w]
  IN /\ price' = p
     /\ close' = base
     /\ crossed' = [l \in Limit |-> StretchStart(crossed[l], Past(l, p))]
     /\ moved' = [w \in {"up", "down"} |->
                    StretchStart(from(w), Part(clock') # 0 /\ (IF w = "up" THEN Up(p, base) ELSE Down(p, base)))]

(* evaluate_triggers() of a day, as its close review is prepared: a move   *)
(* between two closes, or a volume out of line with the days before.       *)
Evaluate(p, spike) ==
  fired' = fired \cup {<<r, Day(clock')>> : r \in
             {e \in {"price_move", "volume_spike"} :
                /\ Part(clock') = 5 /\ Day(clock') % 7 < 5
                /\ IF e = "volume_spike" THEN spike ELSE MovedFrom(p, close)}}

-----------------------------------------------------------------------------
(* holdings_due()                                                          *)

(* The weekdays of REVIEW_POINTS, from a Monday, at noon. *)
PointDays == {0, 2, 4}

(* With the two loops swapped: the latest of the first weekday. *)
LatestOfTheFirst(t) ==
  LET points == {Instant(d, 3) : d \in {e \in (Day(t) - 7)..Day(t) : e % 7 = 0}}
  IN CHOOSE p \in points : p <= t /\ \A q \in points : q <= t => q <= p

LatestPoint(t) ==
  LET points == {Instant(d, 3) : d \in {e \in (Day(t) - 7)..Day(t) : e % 7 \in PointDays}}
  IN CHOOSE p \in points : p <= t /\ \A q \in points : q <= t => q <= p

Since == IF review.at = Never THEN Opened ELSE review.at

(* A review of the 12 hours before the point covers it. *)
CoversPoint(t) == review.at # Never /\ review.at >= LatestPoint(t) - 3

Scheduled(t) == IF CoversPoint(t) THEN {} ELSE {"scheduled_review"}

(* Triggers of a close, and what today's snapshots show. *)
Moves(t) ==
  {f[1] : f \in {g \in fired : Since < Close(g[2]) /\ Close(g[2]) <= t}}
    \cup {r \in {"price_move"} : \E w \in {"up", "down"} : moved[w] > Since}

Reported(t) == {r \in {"earnings_reported"} : \E d \in scene.earnings : Day(Since) <= d /\ d < Day(t)}

Losses == {r \in {"down_15_percent_from_cost"} : crossed["loss15"] > Since}
            \cup {r \in {"down_40_percent_from_cost"} : crossed["loss40"] > Since}

Beyond(p, range) ==
  {r \in {"above_realization_range"} : p >= Bounds[range].high}
    \cup {r \in {"below_invalidation_price"} : p <= Bounds[range].floor}

Ranged ==
  IF review.range = NoRange THEN {"range_missing"}
  ELSE {r \in {"realization_reached"} : crossed[review.range] > Since} \cup Beyond(price, review.range)

Invalidated == {r \in {"invalidated_without_exit"} : review.verdict = "invalidated"}

AllReasons(t) ==
  Scheduled(t) \cup Moves(t) \cup Reported(t) \cup Losses \cup Ranged \cup Invalidated

Cooldown == CooldownDays * PerDay

InCooldown(t) == review.triggered # Never /\ t < review.triggered + Cooldown

KeptOfLosses == {"down_40_percent_from_cost", "range_missing"}

KeptWithMoves == MandatoryReasons \cup {"price_move", "volume_spike"}

KeptInCooldown == MandatoryReasons

(* The cooldown stops one move from calling a review again, not a new one. *)
NewMove == MovedFrom(price, review.price)

Reasons(t) ==
  IF ~InCooldown(t) THEN AllReasons(t)
  ELSE (AllReasons(t) \cap KeptInCooldown)
         \cup {r \in {"moved_since_review"} : NewMove}

Listed(t) == news > Since /\ (InCooldown(t) => NewMove)

(* _sold_since(): a sale that filled, or that still can. *)
SoldSince(since, open) ==
  \E s \in sales : /\ s.at >= since
                   /\ s.stage \in {"placed", "filled"} \/ (s.stage = "pending" /\ s.at >= open)

LiftedBySale == {"above_realization_range", "below_invalidation_price", "invalidated_without_exit"}

(* Sales are looked up whenever the reasons of a run are, the rest of what *)
(* they rest on is older than the run.                                     *)
Standing(named, since, at) ==
  IF SoldSince(since, SessionOpen(at)) THEN named \ LiftedBySale ELSE named

NewRun ==
  [at |-> clock, price |-> price, named |-> Reasons(clock), headline |-> Listed(clock),
   since |-> Since, range |-> review.range, claimed |-> Never]

-----------------------------------------------------------------------------
(* Runs: those of the schedule, and those that an event starts.            *)

(* When, the schedules decide, which are settings: three reviews in        *)
(* session, and none or one after the close.                               *)
Prepare ==
  /\ held
  /\ Day(clock) % 7 < 5 /\ Part(clock) \in scene.slots
  /\ ~asked /\ run["scheduled"] = Nil
  /\ run' = [run EXCEPT !["scheduled"] = NewRun]
  /\ asked' = TRUE
  /\ UNCHANGED <<scene, clock, market, account, busy, causes, history>>

(* event_review_cause() tries them in this order. *)
Cause == <<"crisis", "down_40_percent_from_cost", "above_realization_range",
           "below_invalidation_price", "invalidated_without_exit">>

Causes(crisis) ==
  {c \in {"crisis"} : crisis} \cup (UrgentReasons \cap Standing(Reasons(clock), Since, clock))

First(new) == Cause[CHOOSE i \in 1..5 : Cause[i] \in new /\ \A j \in 1..(i - 1) : Cause[j] \notin new]

AnyEvents == TRUE

EventsLeft == Cardinality(causes) < MaxEvents

(* The check of a tick away from the scheduled slots.  The cause counts    *)
(* from now on, whatever becomes of its review.                            *)
CheckEvents ==
  /\ held
  /\ Day(clock) % 7 < 5 /\ Part(clock) \in {2, 4}
  /\ busy = Nil /\ run["event"] = Nil
  /\ EventsLeft
  /\ \E crisis \in BOOLEAN :
       LET new == Causes(crisis) \ causes
       IN new # {} /\ causes' = causes \cup {First(new)}
  /\ run' = [run EXCEPT !["event"] = NewRun]
  /\ UNCHANGED <<scene, clock, market, account, busy, asked, history>>

ClaimRun(k) ==
  /\ busy = Nil
  /\ run[k] # Nil
  /\ run' = [run EXCEPT ![k].claimed = clock]
  /\ busy' = k
  /\ UNCHANGED <<scene, clock, market, account, asked, causes, history>>

(* A scheduled run that failed can be tried again, one of an event is lost. *)
FailRun(k) ==
  /\ busy = k
  /\ run' = [run EXCEPT ![k] = IF k = "event" THEN Nil ELSE @]
  /\ busy' = Nil
  /\ UNCHANGED <<scene, clock, market, account, asked, causes, history>>

-----------------------------------------------------------------------------
(* What an accepted answer leaves behind.                                  *)

Open(r) == InSession(r.claimed)

(* Triaged by another review, it is no longer listed. *)
ToTriage(r) == r.headline /\ news # Never /\ news <= r.at

Loosened(old, new) ==
  /\ old # NoRange
  /\ \/ Bounds[new].low > Bounds[old].low \/ Bounds[new].high > Bounds[old].high
     \/ Bounds[new].floor < Bounds[old].floor

(* unreviewed_holdings() *)
Unreviewed(r, a) ==
  LET named == Standing(r.named, r.since, r.at) IN
  \/ ToTriage(r) /\ a.triage = "none"
  \/ /\ named \ {"invalidated_without_exit"} # {} \/ (ToTriage(r) /\ a.triage = "changes")
     /\ a.verdict = "none"
  \/ Open(r) /\ ~a.exit /\ ("invalidated_without_exit" \in named \/ a.verdict = "invalidated")
  \/ a.verdict # "none" /\ Loosened(r.range, a.range) /\ ~a.evidence
  \/ a.verdict # "none" /\ Open(r) /\ ~a.exit /\ Beyond(r.price, a.range) # {}

Gap(r, a) == Unreviewed(r, a) \/ a.other

(* The reasons the saved review goes under. *)
Grounds(r, a) ==
  Standing(r.named, r.since, r.at)
    \cup {x \in {"x_digest"} : ToTriage(r) /\ a.triage = "changes"}

Saved(r, a) ==
  IF a.verdict = "none" THEN review
  ELSE [at |-> clock, verdict |-> a.verdict, range |-> a.range, price |-> price,
        triggered |-> IF Grounds(r, a) \cap TriggerReasons # {} THEN clock ELSE review.triggered]

(* No order is authored for a closed market. *)
Possible(r, a) == a.exit => Open(r)

FinishRun(k, a) ==
  LET r == run[k] IN
  /\ busy = k
  /\ Possible(r, a)
  /\ review' = Saved(r, a)
  /\ \E accepted \in BOOLEAN :
       /\ accepted => a.exit /\ Cardinality(sales) < MaxSales
       /\ sales' = IF accepted THEN sales \cup {[at |-> clock, stage |-> "pending"]} ELSE sales
  /\ news' = IF ToTriage(r) /\ a.triage # "none" THEN Never ELSE news
  /\ run' = [run EXCEPT ![k] = Nil] /\ busy' = Nil
  /\ midday' = (midday \/ (~Gap(r, a) /\ r.at >= Instant(Day(clock), 3)))
  /\ UNCHANGED <<scene, clock, price, close, crossed, moved, fired, held, asked, causes, healthy>>

-----------------------------------------------------------------------------
(* The executor, the market and the days.                                  *)

(* A sale that failed counts no more.  A trim leaves the position open. *)
AdvanceSale(s) ==
  /\ \/ /\ s.stage = "pending" /\ InSession(clock) /\ Day(s.at) = Day(clock)
        /\ sales' = (sales \ {s}) \cup {[s EXCEPT !.stage = "placed"]}
        /\ UNCHANGED held
     \/ /\ s.stage = "placed"
        /\ sales' = (sales \ {s}) \cup {[s EXCEPT !.stage = "filled"]}
        /\ held' \in BOOLEAN
     \/ s.stage # "filled" /\ sales' = sales \ {s} /\ UNCHANGED held
  /\ UNCHANGED <<scene, clock, market, review, work, history>>

(* The next instant, with the account's snapshot.  A run that was not      *)
(* claimed by then is missed.                                              *)
Pass ==
  LET next == clock + 1
      quotes == IF next \in DOMAIN scene.quotes THEN scene.quotes[next] ELSE {price}
  IN
  /\ held /\ Day(next) <= scene.last
  /\ busy # Nil => run[busy].claimed = clock
  /\ clock' = next
  /\ \E p \in quotes, spike \in {FALSE, Day(next) \in scene.spikes} :
       Observe(p) /\ Evaluate(p, spike)
  /\ news' \in {news} \cup {n \in {next} : n \in scene.headlines /\ news = Never}
  /\ run' = [k \in Kind |-> IF run[k] # Nil /\ k # busy /\ run[k].at < clock THEN Nil ELSE run[k]]
  /\ causes' = IF Part(next) = 0 THEN {} ELSE causes
  /\ asked' = FALSE
  /\ midday' = (midday /\ Part(next) # 0)
  /\ healthy' = (healthy /\ (Part(clock) = 4 /\ Day(clock) % 7 < 5 => midday))
  /\ UNCHANGED <<scene, account, busy>>

Init ==
  /\ scene \in Scene /\ clock = Start
  /\ price = 100 /\ close = 100
  /\ crossed = [l \in Limit |-> IF Past(l, 100) THEN Start ELSE Never]
  /\ moved = [w \in {"up", "down"} |-> Never]
  /\ fired = {} /\ news = Never
  /\ held = TRUE /\ sales = {}
  /\ review \in [at : {Never}, verdict : {"none"}, range : {scene.range},
                 price : {100}, triggered : {Never}]
  /\ run = [k \in Kind |-> Nil] /\ busy = Nil /\ asked = FALSE /\ causes = {}
  /\ midday = FALSE /\ healthy = TRUE

Next ==
  \/ Pass \/ Prepare \/ CheckEvents
  \/ \E k \in Kind : ClaimRun(k) \/ FailRun(k)
  \/ \E k \in Kind, a \in scene.answers : FinishRun(k, a)
  \/ \E s \in sales : AdvanceSale(s)

Spec == Init /\ [][Next]_vars

-----------------------------------------------------------------------------
(* Properties.                                                             *)

(* No answer passes as clean in session that leaves the holding beyond     *)
(* what is stated of it, without a sale: a price beyond that always calls  *)
(* a review, in a cooldown as well, which has to restate it or sell.       *)
Settled ==
  \A k \in Kind : busy = k /\ Open(run[k]) => \A a \in Answers :
    /\ ~a.exit /\ ~Gap(run[k], a) /\ ~SoldSince(run[k].since, SessionOpen(run[k].at))
    => LET stated == IF a.verdict = "none" THEN run[k].range ELSE a.range
       IN stated # NoRange /\ Beyond(run[k].price, stated) = {}

(* Two reviews that triggers caused are a cooldown apart, unless the price *)
(* moved 5 % since the last one or the second was prepared before it.      *)
TriggersAreSpaced ==
  [][review'.triggered # review.triggered /\ InCooldown(clock) =>
       \E k \in Kind : /\ busy = k /\ run'[k] = Nil
                       /\ run[k].at <= review.at \/ MovedFrom(run[k].price, review.price)]_vars

(* The longest from one review to the next: one that a trigger called at   *)
(* the last tick of a Tuesday keeps the holding, for three days, from the  *)
(* reviews of Wednesday and Friday noon, and the next is on Monday.        *)
LongestGap == (CooldownDays + 3) * PerDay

(* While every midday review is clean, cooldowns and weekends do not add   *)
(* up: no holding is left without a review for longer than that.           *)
Fresh == healthy /\ held => clock - Since <= LongestGap
=============================================================================
