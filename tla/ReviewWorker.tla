---------------------------- MODULE ReviewWorker ----------------------------
(***************************************************************************)
(* One attempt of a review worker (app/reason/worker.py) from its claim to *)
(* its end, in real time: the snapshots it collects, the model it runs     *)
(* (app/reason/codex_runner.py), the second pass, what it holds back, and  *)
(* the transactions in which it publishes.  Its lease is a deadline that   *)
(* heartbeats move; RuntimeLease has the tables behind it.                 *)
(*                                                                         *)
(* The worker is one thread.  A step that waits for another process or     *)
(* computes takes at most the time the code lets it, or any time up to a   *)
(* constant: the clock stops until the worker goes on.  Every failure, an  *)
(* exception or a lost lease, is one action, and so is a kill.             *)
(***************************************************************************)
EXTENDS Integers, FiniteSets

CONSTANTS
  Lease,         \* what a claim or a heartbeat extends the lease to
  Stretch,       \* what it is extended to before a snapshot is collected
  Refresh,       \* the longest a collection takes: two broker sessions
  Pulse,         \* the longest between two heartbeats of a model at work
  Cleanup,       \* the longest it takes to end the model's processes
  Work,          \* assumed: the longest the worker itself works without a heartbeat
  Budget,        \* timeout_seconds
  CrisisBudget,  \* CRISIS_TIMEOUT_SECONDS
  MinRetry,      \* _MIN_RETRY_SECONDS
  Holding,       \* what an answer may review
  Answer,        \* what a model may answer
  Horizon        \* bound: the last instant

Decision == {"exit", "funding", "buy", "add", "watch"}
Sales == {"exit", "funding"}  \* a sale of its own, and one that only funds the buy
Authored == Decision \ {"watch"}

ASSUME WorkerAssumption ==
  /\ {Lease, Stretch, Refresh, Pulse, Cleanup, Work, Budget, CrisisBudget, MinRetry, Horizon}
       \subseteq Nat
  /\ Pulse > 0 /\ MinRetry > 0
  /\ Answer \subseteq [shortfall : BOOLEAN, gaps : BOOLEAN,
                       decisions : SUBSET Authored, reviews : SUBSET Holding]

(* What the lease's two lengths have to cover.  The code has 120 seconds   *)
(* for 10, 30 and its own work, and 720 for twice 300 and its own work.    *)
ASSUME TimingAssumption ==
  /\ Lease > Pulse + Cleanup + Work
  /\ Stretch > Refresh + Work

VARIABLES
  time,
  status,    \* of the attempt
  expires,   \* of its lease
  step,      \* where the worker is
  since,     \* when it began what it does now
  started,   \* when it claimed
  deadline,  \* when the model's time is up
  kind,      \* what it knows of its run: live, and in crisis mode
  stale,     \* the account could not be refreshed
  pass,      \* how often the model was asked
  answer,    \* its last answer, and from then on the accepted one
  todo,      \* decisions still to be saved
  owed,      \* rows that complete the last decision, still to be saved
  rows,      \* what the attempt saved
  reviewed   \* the holdings it saved a review of

lease == <<status, expires>>
local == <<started, kind, pass>>
workerVars == <<time, lease, step, since, local, deadline, stale, answer, todo, owed, rows, reviewed>>

Step == {"idle", "starting", "snapshot", "briefing", "authoring", "stopping", "judging",
         "validating", "reopening", "resnapshot", "submitting", "reviewing", "ended", "killed"}
Working == Step \ {"idle", "ended", "killed"}
Status == {"none", "running", "done", "failed", "canceled", "expired"}
Mark == {"held", "pair"}

(* Before the first answer there is none that would do. *)
NoAnswer == [shortfall |-> TRUE, gaps |-> TRUE, decisions |-> {}, reviews |-> {}]

(* The worker's variables are well formed, and no model is ever given a    *)
(* time limit that is already over (run_codex() would refuse it).          *)
WorkerTypeOK ==
  /\ time \in Nat /\ expires \in Nat /\ since \in Nat /\ started \in Nat /\ deadline \in Nat
  /\ step = "authoring" => time <= deadline
  /\ status \in Status
  /\ step \in Step
  /\ kind \in [live : BOOLEAN, crisis : BOOLEAN] /\ (kind.crisis => kind.live)
  /\ stale \in BOOLEAN
  /\ pass \in {1, 2}
  /\ answer \in Answer \cup {NoAnswer}
  /\ todo \subseteq Decision
  /\ owed \subseteq Mark
  /\ rows \subseteq Decision \cup Mark \cup {"ledger"}
  /\ reviewed \subseteq Holding

WorkerInit ==
  /\ time = 0 /\ expires = 0 /\ since = 0 /\ started = 0 /\ deadline = 0
  /\ status = "none" /\ step = "idle"
  /\ kind = [live |-> FALSE, crisis |-> FALSE] /\ stale = FALSE
  /\ pass = 1 /\ answer = NoAnswer
  /\ todo = {} /\ owed = {} /\ rows = {} /\ reviewed = {}

-----------------------------------------------------------------------------
(* Time and the lease.                                                     *)

(* validate_fence() *)
Valid == status = "running" /\ time < expires

Beat(length) == Valid /\ expires' = time + length /\ UNCHANGED status

(* The worker begins something new. *)
Now(next) == step' = next /\ since' = time

(* It goes on within the same time. *)
Then(next) == step' = next /\ UNCHANGED since

Longest(s) ==
  CASE s \in {"snapshot", "resnapshot"} -> Refresh
    [] s = "authoring" -> Pulse
    [] s = "stopping" -> Cleanup
    [] OTHER -> Work

(* Time passes unless the worker is due to go on; before the claim, and    *)
(* once the attempt is over, nothing depends on it any more.               *)
TimePasses ==
  /\ time < Horizon
  /\ step \in Working \/ (status = "running" /\ time < expires)
  /\ step \in Working => time < since + Longest(step)
  /\ step = "authoring" => time < deadline
  /\ time' = time + 1
  /\ UNCHANGED <<lease, step, since, local, deadline, stale, answer, todo, owed, rows, reviewed>>

-----------------------------------------------------------------------------
(* From the claim to the answer.                                           *)

(* claim(), by a worker of a live or paper run; whether the market is in   *)
(* crisis is read next.                                                    *)
Claim ==
  /\ step = "idle"
  /\ status' = "running" /\ expires' = time + Lease
  /\ \E live, crisis \in BOOLEAN :
       /\ crisis => live
       /\ kind' = [live |-> live, crisis |-> crisis]
  /\ Now("starting") /\ started' = time
  /\ UNCHANGED <<time, deadline, stale, pass, answer, todo, owed, rows, reviewed>>

SnapshotLeaseOrdinary == Lease

SnapshotLease == Stretch

(* _refresh_snapshot() begins with keep_alive() *)
Snapshot ==
  /\ kind.live
  /\ \/ step = "starting" /\ Now("snapshot")
     \/ step = "reopening" /\ Now("resnapshot")
  /\ Beat(SnapshotLease)
  /\ UNCHANGED <<time, local, deadline, stale, answer, todo, owed, rows, reviewed>>

(* A paper run has no account to refresh. *)
SkipSnapshot ==
  /\ step = "starting" /\ ~kind.live
  /\ Then("briefing")
  /\ UNCHANGED <<time, lease, local, deadline, stale, answer, todo, owed, rows, reviewed>>

SubmittableStale(decisions, old) == decisions

(* On a stale account, which only a crisis allows, nothing but sales. *)
Submittable(decisions, old) == IF old THEN decisions \cap Sales ELSE decisions

(* The collection ends.  In a crisis a failed one does not end the review. *)
Collected ==
  /\ \/ step = "snapshot" /\ Now("briefing")
     \/ step = "resnapshot" /\ Now("submitting")
  /\ \E failed \in BOOLEAN :
       /\ failed => kind.crisis
       /\ stale' = (stale \/ failed)
       /\ todo' = Submittable(todo, stale \/ failed)
  /\ UNCHANGED <<time, lease, local, deadline, answer, owed, rows, reviewed>>

TimeLimit == IF kind.crisis /\ CrisisBudget > Budget THEN CrisisBudget ELSE Budget

(* Readiness and intake are checked, and the model is asked. *)
Author ==
  /\ step = "briefing"
  /\ Beat(Lease)
  /\ Now("authoring") /\ deadline' = time + TimeLimit
  /\ UNCHANGED <<time, local, stale, answer, todo, owed, rows, reviewed>>

(* pulse(), by the loop of run_codex() *)
Pulsed ==
  /\ step = "authoring" /\ time = since + Pulse
  /\ Beat(Lease)
  /\ Now("authoring")
  /\ UNCHANGED <<time, local, deadline, stale, answer, todo, owed, rows, reviewed>>

(* The model has ended, or is ended, and its processes with it. *)
Stop ==
  /\ \/ step = "authoring" /\ Now("stopping")
     \/ step = "stopping" /\ Now("judging")
  /\ UNCHANGED <<time, lease, local, deadline, stale, answer, todo, owed, rows, reviewed>>

-----------------------------------------------------------------------------
(* From the answer to what is submitted.                                   *)

Clean(a) == ~a.shortfall /\ ~a.gaps

(* What is left of the time limit, counted from the claim. *)
Remaining == started + TimeLimit - time

TimeForAnother == Remaining >= MinRetry

RunAgainUntilNewLimit == time + TimeLimit

RunAgainUntil == time + Remaining

(* A second pass, told what was missing. *)
AskAgain ==
  /\ step = "judging" /\ pass = 1
  /\ TimeForAnother
  /\ \E a \in Answer : ~Clean(a) /\ answer' = a
  /\ pass' = 2
  /\ Beat(Lease)
  /\ Now("authoring") /\ deadline' = RunAgainUntil
  /\ UNCHANGED <<time, started, kind, stale, todo, owed, rows, reviewed>>

(* The first answer stands if only the second lacks what is required. *)
Kept(first, second) == IF second.shortfall /\ ~first.shortfall THEN first ELSE second

HeldBackButAdds(a) ==
  IF a.gaps /\ "buy" \in a.decisions THEN (a.decisions \ {"buy", "funding"}) \cup {"watch"}
  ELSE a.decisions

(* With a gap no new money goes in: a buy becomes a watchlist entry, and   *)
(* goes with the sale that only funded it.                                 *)
HeldBack(a) ==
  IF a.gaps /\ a.decisions \cap {"buy", "add"} # {}
  THEN (a.decisions \cap {"exit"}) \cup (IF "buy" \in a.decisions THEN {"watch"} ELSE {})
  ELSE a.decisions

(* The answer, or the one kept, is accepted. *)
Accept ==
  /\ step = "judging"
  /\ \E a \in Answer :
       /\ pass = 1 => Clean(a) \/ ~TimeForAnother
       /\ ~Kept(answer, a).shortfall
       /\ answer' = Kept(answer, a)
       /\ todo' = HeldBack(Kept(answer, a))
  /\ Beat(Lease)
  /\ Now("validating")
  /\ UNCHANGED <<time, local, deadline, stale, owed, rows, reviewed>>

(* A live run with decisions refreshes the account again. *)
StartSubmitting ==
  /\ step = "validating"
  /\ Beat(Lease)
  /\ IF kind.live /\ todo # {} THEN Now("reopening") ELSE Now("submitting")
  /\ UNCHANGED <<time, local, deadline, stale, answer, todo, owed, rows, reviewed>>

-----------------------------------------------------------------------------
(* Each of these is a transaction under the fence.                         *)

SalesFirst(d) == d \in Sales \/ todo \cap Sales = {}

(* submit_decision().  A buy that was given an intent owes its pair if its *)
(* sale was, a buy that was held back the row that says so.                *)
Submit(d) ==
  /\ step = "submitting" /\ Valid
  /\ d \in todo /\ owed = {} /\ SalesFirst(d)
  /\ rows' = rows \cup {d} /\ todo' = todo \ {d}
  /\ CASE d = "watch" -> owed' = {"held"}
       [] d = "buy" /\ kind.live /\ "funding" \in rows -> owed' \in {{}, {"pair"}}
       [] OTHER -> owed' = {}
  /\ Then("submitting")
  /\ UNCHANGED <<time, lease, local, deadline, stale, answer, reviewed>>

Complete ==
  /\ step = "submitting" /\ Valid
  /\ owed # {}
  /\ rows' = rows \cup owed /\ owed' = {}
  /\ Then("submitting")
  /\ UNCHANGED <<time, lease, local, deadline, stale, answer, todo, reviewed>>

SalesSubmitted == todo \cap Sales = {} /\ owed = {}

AllSubmitted == todo = {} /\ owed = {}

(* The ledger of what the review weighed, and what goes with it. *)
WriteLedger ==
  /\ step = "submitting" /\ Valid
  /\ AllSubmitted
  /\ rows' = rows \cup {"ledger"}
  /\ Then("reviewing")
  /\ UNCHANGED <<time, lease, local, deadline, stale, answer, todo, owed, reviewed>>

SaveReview(h) ==
  /\ step = "reviewing" /\ Valid
  /\ h \in answer.reviews \ reviewed
  /\ reviewed' = reviewed \cup {h}
  /\ Then("reviewing")
  /\ UNCHANGED <<time, lease, local, deadline, stale, answer, todo, owed, rows>>

(* completed or no_action *)
Finish ==
  /\ step = "reviewing" /\ Valid
  /\ answer.reviews \subseteq reviewed
  /\ status' = "done"
  /\ Then("ended")
  /\ UNCHANGED <<time, expires, local, deadline, stale, answer, todo, owed, rows, reviewed>>

-----------------------------------------------------------------------------
(* The other ends.                                                         *)

(* An exception of the step, a lost lease among them.  Expired leases are  *)
(* swept first, the worker's own with them.                                *)
Fail ==
  /\ step \in Working
  /\ status' = IF status # "running" THEN status
               ELSE IF time >= expires THEN "expired" ELSE "failed"
  /\ Then("ended")
  /\ UNCHANGED <<time, expires, local, deadline, stale, answer, todo, owed, rows, reviewed>>

(* The task's time limit, or the machine. *)
Kill ==
  /\ step \in Working
  /\ Then("killed")
  /\ UNCHANGED <<time, lease, local, deadline, stale, answer, todo, owed, rows, reviewed>>

(* An operator finishes the attempt, or any process sweeps its lease. *)
EndFromOutside ==
  /\ status = "running"
  /\ status' = IF time < expires THEN "canceled" ELSE "expired"
  /\ UNCHANGED <<time, expires, step, since, local, deadline, stale, answer, todo, owed, rows, reviewed>>

Progress ==
  \/ Snapshot \/ SkipSnapshot \/ Collected \/ Author \/ Pulsed \/ Stop
  \/ AskAgain \/ Accept \/ StartSubmitting
  \/ \E d \in Decision : Submit(d)
  \/ Complete \/ WriteLedger
  \/ \E h \in Holding : SaveReview(h)
  \/ Finish \/ Fail

WorkerNext == TimePasses \/ Claim \/ Progress \/ Kill \/ EndFromOutside

WorkerSpec == WorkerInit /\ [][WorkerNext]_workerVars

-----------------------------------------------------------------------------
(* Properties.                                                             *)

(* While its worker is at work an attempt never loses its lease by time    *)
(* alone, however long its snapshots, its model and the end of the model's *)
(* processes take: whoever ends it did so on purpose.                      *)
LeaseOutlivesSteps ==
  step \in Working /\ status = "running" => time < expires

(* What is saved comes from an answer that showed all that is required;    *)
(* money only goes in on one without gaps and a fresh account.  A sale     *)
(* that would only fund a buy is kept with it.                             *)
BuysAreEarned ==
  /\ rows # {} => ~answer.shortfall
  /\ rows \cap {"buy", "add"} # {} => ~answer.gaps /\ ~stale
  /\ "funding" \in rows /\ "buy" \in answer.decisions => ~answer.gaps

(* However an attempt ends, its ledger says that all its decisions are     *)
(* saved, each with the row it owes, a pair or what was held back; its     *)
(* reviews follow the ledger, and an attempt that is done has both.        *)
LedgerIsComplete ==
  /\ "ledger" \in rows => /\ Submittable(HeldBack(answer), stale) \subseteq rows
                          /\ owed = {} /\ ("watch" \in rows => "held" \in rows)
  /\ reviewed # {} => "ledger" \in rows
  /\ status = "done" => "ledger" \in rows /\ answer.reviews \subseteq reviewed

(* What may follow the model's time: its end, what is held back, another   *)
(* snapshot and the submissions.                                           *)
AfterTheModel == Cleanup + Refresh + 4 * Work

(* An attempt takes no longer than its time limit and what follows it;     *)
(* what came before the model counts only against a second pass, which     *)
(* both passes share their time limit for.                                 *)
EndsInTime ==
  step \in Working =>
    time <= started + TimeLimit + AfterTheModel + (IF pass = 1 THEN Refresh + 2 * Work ELSE 0)
=============================================================================
