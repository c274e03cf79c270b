----------------------------- MODULE Publication -----------------------------
(***************************************************************************)
(* Publication (app/public/): a watcher, and an operator by hand, copy     *)
(* what may be public from the private database into a separate store,     *)
(* incrementally from the checkpoint of the store to the change counters   *)
(* of the source.  An operator revokes decisions in the store; readers     *)
(* page through its feed.                                                  *)
(***************************************************************************)
EXTENDS PublicSource

CONSTANT Scene  \* bound: the source to start from, what happens, and how often

ASSUME SceneAssumption ==
  \A x \in Scene : /\ x.publishers \subseteq {"watch", "hand"} /\ "watch" \in x.publishers
                   /\ x.left \in Nat /\ x.does \subseteq STRING /\ SourceOK(x.from)

VARIABLES
  scene,
  left,       \* bound: events that are still to come
  src,        \* the private database
  day,        \* the accounting clock
  config,     \* whether the live profile is among those to be published
  pub,        \* the public store
  publisher,  \* what each publisher is at
  alone,      \* history: no two publishers were at work at once
  reader      \* a reader paging through the live feed

vars == <<scene, left, src, day, config, pub, publisher, alone, reader>>

PublicRow ==
  [content : Contents, run : Item \cup {Nil}, created : Nat, sequence : Nat \ {0},
   revoked : BOOLEAN, withdrawn : BOOLEAN]

PublicItem == [id : Item, content : Activities]

Checkpoints ==
  [clock : Nat, identity : BOOLEAN, details : Nat, performance : Nat, activity : Nat]

ASSUME NilAssumption ==
  /\ Nil \notin Nat /\ Nil \notin Item
  /\ Nil \notin Activities /\ Nil \notin PublicRow /\ Nil \notin PublicItem

EmptyStore ==
  [row |-> [d \in Decision |-> Nil], sequence |-> 0, revision |-> 0,
   item |-> [i \in Item |-> Nil], ids |-> [i \in Item |-> Nil], board |-> Nil,
   counts |-> [x \in Scope |-> Nil], book |-> [x \in Scope |-> Nil], checkpoint |-> Nil]

Happens(name) == name \in scene.does /\ left > 0 /\ left' = left - 1

-----------------------------------------------------------------------------
(* The rows that readers see.                                              *)

ShownIn(rows, d) == rows[d] # Nil /\ ~rows[d].revoked /\ ~rows[d].withdrawn

Shown(d) == ShownIn(pub.row, d)

(* Stored with a portfolio, for its overview. *)
CountsOf(rows, scope, today) ==
  LET counted == {d \in Decision : ShownIn(rows, d) /\ Kind[d].scope = scope}
  IN [policy |-> [p \in Outcome |-> Cardinality({d \in counted : Kind[d].policy = p})],
      date |-> today,
      today |-> Cardinality({d \in counted : rows[d].created = today})]

Recount(counts, rows, today) ==
  [x \in Scope |-> IF counts[x] = Nil THEN Nil ELSE CountsOf(rows, x, today)]

(* revoke() *)
RevokedRows(d) == [pub.row EXCEPT ![d].revoked = TRUE]

CountsNotRedone(rows, x) == pub.counts

(* Those of its scope. *)
CountsAfterRevoke(rows, x) ==
  [pub.counts EXCEPT ![x] = IF @ = Nil THEN Nil ELSE CountsOf(rows, x, day)]

Revoke(d) ==
  /\ Happens("revoke")
  /\ pub.row[d] # Nil /\ ~pub.row[d].revoked
  /\ pub' = [pub EXCEPT !.row = RevokedRows(d), !.counts = CountsAfterRevoke(RevokedRows(d), Kind[d].scope),
                        !.revision = @ + 1]
  /\ UNCHANGED <<scene, src, day, config, publisher, alone, reader>>

-----------------------------------------------------------------------------
(* publish(): the source is a snapshot, the checkpoint of the store is     *)
(* read before its write lock is held, and all is written in one           *)
(* transaction.                                                            *)

Checkpoint(s, c, today) ==
  [clock |-> today, identity |-> c, details |-> s.count.details,
   performance |-> s.count.performance, activity |-> s.count.activity]

Open(p) ==
  /\ p \in scene.publishers /\ publisher[p] = Nil
  /\ IF p = "hand" THEN Happens("hand") ELSE UNCHANGED left
  /\ publisher' = [publisher EXCEPT ![p] =
       [at |-> "opened", s |-> src, day |-> day, config |-> config, previous |-> Nil]]
  /\ alone' = (alone /\ \A q \in scene.publishers : publisher[q] = Nil)
  /\ UNCHANGED <<scene, src, day, config, pub, reader>>

SameChanges(was, now) ==
  was # Nil /\ [was EXCEPT !.clock = 0] = [now EXCEPT !.clock = 0]

NothingToDo(was, now) == was = now

Compare(p, rebuild) ==
  LET me == publisher[p]
      previous == IF rebuild THEN Nil ELSE pub.checkpoint
  IN /\ me # Nil /\ me.at = "opened"
     /\ IF rebuild THEN Happens("rebuild") ELSE UNCHANGED left
     /\ publisher' = [publisher EXCEPT ![p] =
          IF NothingToDo(previous, Checkpoint(me.s, me.config, me.day)) THEN Nil
          ELSE [me EXCEPT !.at = "compared", !.previous = previous]]
     /\ UNCHANGED <<scene, src, day, config, pub, alone, reader>>

(* same_configuration *)
Continues(was, now) ==
  /\ was # Nil
  /\ was.identity = now.identity
  /\ was.details <= now.details
  /\ was.performance <= now.performance
  /\ was.activity <= now.activity

(* partial_details *)
Partial(was, now, s) == Continues(was, now) /\ s.rebuilt <= was.details

PerformanceChanged(was, now) ==
  ~Continues(was, now) \/ was.performance # now.performance \/ was.clock # now.clock

OnlyActivity(was, now) ==
  was # Nil /\ [now EXCEPT !.activity = 0] = [was EXCEPT !.activity = 0]

-----------------------------------------------------------------------------
(* publish_activity()                                                      *)

Touched(s, was, now) ==
  IF Continues(was, now) THEN {i \in Item : s.dirty[i] > was.activity} ELSE Item

Materialized(s, c, was, now) == {i \in Touched(s, was, now) : Activity(s, i, c) # Nil}

LegacyOf(i) == <<"legacy", i[2]>>

(* An item keeps the id it was first given; a runtime run takes over that  *)
(* of the reasoning run it wraps.                                          *)
IdOf(ids, i) ==
  IF ids[i] # Nil THEN ids[i]
  ELSE IF i[1] = "runtime" /\ ids[LegacyOf(i)] # Nil THEN ids[LegacyOf(i)]
  ELSE i

PublishedIds(s, c, was, now) ==
  [i \in Item |-> IF i \in Materialized(s, c, was, now) THEN IdOf(pub.ids, i) ELSE pub.ids[i]]

NoneSuperseded(written) == {}

(* The row of a reasoning run goes when the run that wraps it is written. *)
Superseded(written) == {LegacyOf(i) : i \in {j \in written : j[1] = "runtime"}}

PublishedItems(s, c, was, now) ==
  LET written == Materialized(s, c, was, now)
  IN [i \in Item |->
        IF i \in written THEN [id |-> IdOf(pub.ids, i), content |-> Activity(s, i, c)]
        ELSE IF i \in Superseded(written) \cup Touched(s, was, now) THEN Nil
        ELSE pub.item[i]]

(* public_runtime, written by every publication. *)
Board(s, items) ==
  [schedule |-> s.schedule,
   active |-> {i \in Item : items[i] # Nil /\ items[i].content.status = "running"}]

-----------------------------------------------------------------------------
(* The decisions, their counts, and the portfolios.                        *)

Selected(s, was, now) ==
  IF Partial(was, now, s) THEN {d \in Decision : s.changed[d] > was.details} ELSE Decision

Seen(s, c, was, now) == {d \in Selected(s, was, now) : Eligible(s, d, c)}

(* The run of a decision is linked by the id that its activity has. *)
RunLink(s, ids, d) ==
  IF ~Live(d) THEN Nil
  ELSE IF d \in s.attempted THEN ids[<<"runtime", Kind[d].run>>]
  ELSE ids[<<"legacy", Kind[d].run>>]

Same(row, s, ids, d) ==
  row.content = Content(s, d) /\ row.run = RunLink(s, ids, d) /\ ~row.withdrawn

Reinstated(row, s, ids, d) ==
  [row EXCEPT !.content = Content(s, d), !.run = RunLink(s, ids, d),
              !.withdrawn = FALSE, !.revoked = FALSE]

(* A revocation outlives every publication, a withdrawal does not. *)
Rewritten(row, s, ids, d) ==
  [row EXCEPT !.content = Content(s, d), !.run = RunLink(s, ids, d), !.withdrawn = FALSE]

Inserted(s, c, was, now) == {d \in Seen(s, c, was, now) : pub.row[d] = Nil}

Updated(s, c, was, now, ids) ==
  {d \in Seen(s, c, was, now) : pub.row[d] # Nil /\ ~Same(pub.row[d], s, ids, d)}

(* Those that were looked at and are not eligible. *)
Withdrawn(s, c, was, now) ==
  {d \in Selected(s, was, now) \ Seen(s, c, was, now) : pub.row[d] # Nil /\ ~pub.row[d].withdrawn}

(* The rows inserted by one publication are not told apart by sequence. *)
PublishedRows(s, c, was, now, ids) ==
  [d \in Decision |->
     IF d \in Inserted(s, c, was, now)
     THEN [content |-> Content(s, d), run |-> RunLink(s, ids, d), created |-> s.decided[d],
           sequence |-> pub.sequence + 1, revoked |-> FALSE, withdrawn |-> FALSE]
     ELSE IF d \in Updated(s, c, was, now, ids) THEN Rewritten(pub.row[d], s, ids, d)
     ELSE IF d \in Withdrawn(s, c, was, now) THEN [pub.row[d] EXCEPT !.withdrawn = TRUE]
     ELSE pub.row[d]]

RevisedByWithdrawals(s, c, was, now, ids) == Withdrawn(s, c, was, now) # {}

(* Cursors are good for a revision: insertions do not end it. *)
Revised(s, c, was, now, ids) ==
  Updated(s, c, was, now, ids) # {} \/ Withdrawn(s, c, was, now) # {}

Details(s, c, was, now, today, ids, items) ==
  LET rows == PublishedRows(s, c, was, now, ids)
  IN [pub EXCEPT
        !.row = rows,
        !.sequence = IF Inserted(s, c, was, now) = {} THEN @ ELSE @ + 1,
        !.revision = IF Revised(s, c, was, now, ids) THEN @ + 1 ELSE @,
        !.counts = Recount(@, rows, today),
        !.ids = ids, !.item = items, !.board = Board(s, items), !.checkpoint = now]

(* The portfolios, returns and policy pages of both scopes. *)
Portfolios(store, s, c, today) ==
  [store EXCEPT
     !.counts = [x \in Scope |-> CountsOf(store.row, x, today)],
     !.book = [x \in Scope |-> Book(s, x, c, today)]]

Published(s, c, was, today) ==
  LET now == Checkpoint(s, c, today)
      ids == PublishedIds(s, c, was, now)
      items == PublishedItems(s, c, was, now)
      details == Details(s, c, was, now, today, ids, items)
  IN IF OnlyActivity(was, now)
     THEN [pub EXCEPT !.ids = ids, !.item = items, !.board = Board(s, items), !.checkpoint = now]
     ELSE IF PerformanceChanged(was, now) THEN Portfolios(details, s, c, today) ELSE details

(* UNIQUE(public_id): a row whose id another one has is refused, and the   *)
(* publication with it.                                                    *)
Refused(s, c, was, now) ==
  LET written == Materialized(s, c, was, now)
      ids == PublishedIds(s, c, was, now)
      present == written \cup ({j \in Item : pub.item[j] # Nil} \ Superseded(written))
  IN \E i \in written, j \in present : i # j /\ ids[i] = ids[j]

RefusedNow(me) == Refused(me.s, me.config, me.previous, Checkpoint(me.s, me.config, me.day))

Commit(p) ==
  LET me == publisher[p] IN
  /\ me # Nil /\ me.at = "compared"
  /\ pub' = IF RefusedNow(me) THEN pub ELSE Published(me.s, me.config, me.previous, me.day)
  /\ publisher' = [publisher EXCEPT ![p] = Nil]
  /\ UNCHANGED <<scene, left, src, day, config, alone, reader>>

(* A publisher that dies leaves nothing of its transaction. *)
Die(p) ==
  /\ Happens("die")
  /\ publisher[p] # Nil
  /\ publisher' = [publisher EXCEPT ![p] = Nil]
  /\ UNCHANGED <<scene, src, day, config, pub, alone, reader>>

-----------------------------------------------------------------------------
(* Readers.                                                                *)

(* The live feed, newest first; of decisions of one instant the order of   *)
(* the ids decides, which is their order here.                             *)
Newer(rows, d, e) ==
  rows[d].created > rows[e].created \/ (rows[d].created = rows[e].created /\ d > e)

Feed(rows, high) ==
  {d \in Decision : ShownIn(rows, d) /\ Live(d) /\ rows[d].sequence <= high}

Beyond(rows, high, after) ==
  {d \in Feed(rows, high) : after = Nil \/ Newer(rows, after, d)}

(* feed(): pages of one, under the cursor of the first. *)
Next1(rows, from) == CHOOSE d \in from : \A e \in from : e = d \/ Newer(rows, d, e)

HighWater == pub.sequence

FirstPage ==
  LET rows == Feed(pub.row, HighWater) IN
  /\ "read" \in scene.does
  /\ reader = Nil /\ rows # {}
  /\ LET d == Next1(pub.row, rows) IN
       reader' = [revision |-> pub.revision, high |-> HighWater, after |-> d,
                  got |-> {<<d, pub.row[d].content>>},
                  first |-> {<<e, pub.row[e].content>> : e \in rows}]
  /\ UNCHANGED <<scene, left, src, day, config, pub, publisher, alone>>

NextPage ==
  LET rows == Beyond(pub.row, reader.high, reader.after) IN
  /\ reader # Nil /\ reader.revision = pub.revision /\ rows # {}
  /\ LET d == Next1(pub.row, rows) IN
       reader' = [reader EXCEPT !.after = d, !.got = @ \cup {<<d, pub.row[d].content>>}]
  /\ UNCHANGED <<scene, left, src, day, config, pub, publisher, alone>>

(* The last page was read, or a cursor of an older revision is refused. *)
EndOfPages ==
  /\ reader # Nil
  /\ reader.revision # pub.revision \/ Beyond(pub.row, reader.high, reader.after) = {}
  /\ reader' = Nil
  /\ UNCHANGED <<scene, left, src, day, config, pub, publisher, alone>>

(* portfolio() refreshes the link of a position when it is read, and       *)
(* policy_catalog() that of a rule to the last decision it refused.        *)
Newest(from) == IF from = {} THEN {} ELSE {Next1(pub.row, from)}

PositionLink(x, ticker) ==
  Newest({d \in Decision : Shown(d) /\ Kind[d].scope = x /\ Kind[d].ticker = ticker})

RuleLink(x) ==
  Newest({d \in Decision : Shown(d) /\ Kind[d].scope = x /\ Kind[d].policy = "rejected"})

(* What readers find of a decision: detail() answers that it is retracted. *)
Surfaces ==
  {d \in Decision : Shown(d)}
    \cup (UNION {PositionLink(x, t) : x \in Scope, t \in {Kind[d].ticker : d \in Decision}})
    \cup (UNION {RuleLink(x) : x \in Scope})

-----------------------------------------------------------------------------
(* The source, the day and the configuration of the publishers.            *)

Write(name, s) ==
  /\ Happens(name)
  /\ src' = s
  /\ UNCHANGED <<scene, day, config, pub, publisher, alone, reader>>

Trade ==
  \/ \E d \in Decision : CanDecide(src, d) /\ Write("decide", Decide(src, d, day))
  \/ \E d \in Decision : CanStart(src, d) /\ Write("session", StartSession(src, d))
  \/ \E d \in Decision : CanRecord(src, d) /\ Write("broker", Record(src, d))
  \/ \E d \in Decision, later \in 0..1 : CanReport(src, d) /\ Write("broker", Report(src, d, later))
  \/ \E d \in Decision : CanFill(src, d) /\ Write("fill", Fill(src, d))

Author ==
  \/ \E f \in Ref : Write("evidence", Revise(src, f))
  \/ Write("note", Stamp(src))
  \/ Write("value", Observe(src))
  \/ Write("value", Price(src))
  \/ Write("value", SaveThesis(src))

Runs ==
  \/ \E r \in Run \ src.prepared : Write("run", Prepare(src, r))
  \/ \E r \in Run : CanWrap(src, r) /\ Write("run", Wrap(src, r))
  \/ \E r \in src.wrapped : src.attempt[r] = "none" /\ Write("run", Claim(src, r))
  \/ \E r \in src.wrapped : src.attempt[r] = "running" /\ Write("run", Beat(src, r))
  \/ \E r \in src.wrapped : src.attempt[r] = "running" /\ ~src.weighed[r] /\ Write("run", Weigh(src, r))
  \/ \E r \in src.wrapped : src.attempt[r] = "running" /\ Write("run", End(src, r))
  \/ \E r \in src.prepared \ (src.wrapped \cup src.completed) : Write("run", Complete(src, r))

Schedule ==
  \/ \E o \in Occurrence : src.occurrence[o] = "none" /\ Write("schedule", Poll(src, o))
  \/ \E o \in Occurrence : src.occurrence[o] = "waiting" /\ Write("schedule", Skip(src, o))

NextDay ==
  /\ Happens("day")
  /\ day' = day + 1
  /\ UNCHANGED <<scene, src, config, pub, publisher, alone, reader>>

(* The operator starts the publishers anew with other profiles. *)
Reconfigure ==
  /\ Happens("profile")
  /\ \A p \in DOMAIN publisher : publisher[p] = Nil
  /\ config' = ~config
  /\ UNCHANGED <<scene, src, day, pub, publisher, alone, reader>>

Init ==
  /\ scene \in Scene /\ left = scene.left
  /\ src = scene.from /\ day = 1 /\ config = TRUE
  /\ pub = EmptyStore
  /\ publisher = [p \in {"watch", "hand"} |-> Nil]
  /\ alone = TRUE /\ reader = Nil

Next ==
  \/ \E p \in scene.publishers : Open(p) \/ Commit(p) \/ Die(p) \/ \E b \in BOOLEAN : Compare(p, b)
  \/ \E d \in Decision : Revoke(d)
  \/ FirstPage \/ NextPage \/ EndOfPages
  \/ Trade \/ Author \/ Runs \/ Schedule
  \/ NextDay \/ Reconfigure

Spec == Init /\ [][Next]_vars

(* Its supervisor keeps the watcher running. *)
WatchFairness ==
  WF_vars(Open("watch")) /\ WF_vars(Compare("watch", FALSE)) /\ WF_vars(Commit("watch"))

FairSpec == Spec /\ WatchFairness

-----------------------------------------------------------------------------
(* Properties.                                                             *)

(* The store and the publishers are well formed, and no two items of the   *)
(* activity share the id that leads to them: a wrapped run and the         *)
(* reasoning run it took the id of are never both there.  UNIQUE sees to   *)
(* that when two publishers overlap; of one at a time it refuses none, so  *)
(* that the public site never gets stuck on it.                            *)
TypeOK ==
  /\ scene \in Scene /\ left \in 0..scene.left /\ day \in Nat /\ config \in BOOLEAN
  /\ pub.row \in [Decision -> PublicRow \cup {Nil}]
  /\ pub.item \in [Item -> PublicItem \cup {Nil}]
  /\ pub.ids \in [Item -> Item \cup {Nil}] /\ pub.checkpoint \in Checkpoints \cup {Nil}
  /\ \A d \in Decision : pub.row[d] # Nil => /\ pub.row[d].sequence \in 1..pub.sequence
                                            /\ src.decided[d] = pub.row[d].created
  /\ \A i, j \in Item : i # j /\ pub.item[i] # Nil /\ pub.item[j] # Nil =>
       pub.item[i].id # pub.item[j].id
  /\ \A p \in DOMAIN publisher : publisher[p] # Nil =>
       /\ publisher[p].at \in {"opened", "compared"} /\ SourceOK(publisher[p].s)
       /\ alone /\ publisher[p].at = "compared" => ~RefusedNow(publisher[p])

Checked == pub.checkpoint

(* What a running attempt has weighed is published when it ends. *)
Settled(content) ==
  IF content = Nil \/ content.status # "running" THEN content ELSE [content EXCEPT !.weighed = Nil]

(* The models behind a decision are read from tables without triggers: a   *)
(* session that leaves neither packet nor record, or a digest that is      *)
(* stamped late, is published with the next change of the decision or of   *)
(* all of them, and no counter tells that it is due.                       *)
Untraced(content) == [content EXCEPT !.models = Nil]

HonestDecision(d) ==
  src.changed[d] <= Checked.details /\ src.rebuilt <= Checked.details =>
    IF Eligible(src, d, Checked.identity)
    THEN /\ pub.row[d] # Nil /\ ~pub.row[d].withdrawn
         /\ Untraced(pub.row[d].content) = Untraced(Content(src, d))
         /\ pub.row[d].run # Nil => \E i \in Item : pub.item[i] # Nil /\ pub.item[i].id = pub.row[d].run
    ELSE pub.row[d] = Nil \/ pub.row[d].withdrawn

HonestItem(i) ==
  src.dirty[i] <= Checked.activity /\ (i[1] = "legacy" => src.dirty[<<"runtime", i[2]>>] <= Checked.activity) =>
    LET content == Activity(src, i, Checked.identity)
    IN IF content = Nil THEN pub.item[i] = Nil
       ELSE pub.item[i] # Nil /\ Settled(pub.item[i].content) = Settled(content)

HonestBook ==
  src.count.performance = Checked.performance =>
    \A x \in Scope : pub.book[x] = Book(src, x, Checked.identity, Checked.clock)

(* Whatever the counters of the checkpoint cover is in the store as it is  *)
(* in the source: no decision, activity or portfolio is left behind by an  *)
(* incremental publication, whatever triggers fired, and whoever died.     *)
(* What no counter covers is left out: the models behind a decision, and   *)
(* what a running review has weighed.  (Of one publisher at a time: two of *)
(* them may lose an update.)                                               *)
CheckpointIsHonest ==
  alone /\ Checked # Nil =>
    /\ \A d \in Decision : HonestDecision(d)
    /\ \A i \in Item : HonestItem(i)
    /\ HonestBook
    /\ src.count.activity = Checked.activity => pub.board = Board(src, pub.item)

(* The counts of an overview are those of its feed, for whatever mix of    *)
(* publications and revocations: also of two publishers at once.           *)
CountsMatchFeed ==
  \A x \in Scope : pub.counts[x] # Nil =>
    pub.counts[x] = CountsOf(pub.row, x, pub.counts[x].date)

(* A revoked decision is never found again, whatever publication, rebuild  *)
(* or change of profiles comes next.                                       *)
RevokedStaysGone ==
  [][\A d \in Decision : pub.row[d] # Nil /\ pub.row[d].revoked => d \notin Surfaces']_vars

(* A reader who is never told to start again reads, page by page, exactly  *)
(* the feed of its first page.                                             *)
PagesAreOneSnapshot ==
  reader # Nil /\ reader.revision = pub.revision =>
    IF Beyond(pub.row, reader.high, reader.after) = {} THEN reader.got = reader.first
    ELSE reader.got \subseteq reader.first

(* Once the source is quiet the store gets to its counters, day and        *)
(* profiles, and stays there.                                              *)
CatchesUp == <>[](pub.checkpoint = Checkpoint(src, config, day))
=============================================================================
