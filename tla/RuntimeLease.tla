---------------------------- MODULE RuntimeLease ----------------------------
(***************************************************************************)
(* The account lease that serialises reasoning attempts                    *)
(* (app/storage/runtime.py, with the fenced and unfenced entry points of   *)
(* submit_decision in app/reason/run.py and the completion of a prepared   *)
(* run in app/storage/records.py).                                         *)
(*                                                                         *)
(* Every operation but one is a BEGIN IMMEDIATE transaction, so it is one  *)
(* action here; a failing transaction rolls back (its sweep of expired     *)
(* leases included) and is no step.  The exception is `complete-live`,     *)
(* which reads and then updates in autocommit: it is two actions, and      *)
(* anything may commit between them.  Workers, the operator's CLI and a    *)
(* worker that outlived its lease are not distinguished: whoever holds an  *)
(* attempt id may call any operation on it at any moment, or never again.  *)
(*                                                                         *)
(* A caller reads its clock before it waits for the write lock, so the     *)
(* time an operation works with may be behind the clock by up to MaxLag.   *)
(***************************************************************************)
EXTENDS Integers, Sequences, FiniteSets

CONSTANTS
  Scope,          \* lease keys, "<mode>/<account>"
  Run,            \* prepared runtime runs
  Attempt,        \* attempt ids (uuid4: never reused)
  NoAttempt,      \* the NULL of runtime_leases.attempt_id
  ScopeOf,        \* the scope a run belongs to
  SessionOf,      \* the session day a run was prepared for
  Live,           \* the runs that wrap a prepared reasoning run
  LeaseSeconds,   \* the lease lengths callers ask for
  DayLength,      \* ticks in a day
  MaxLag,         \* how stale a caller's clock reading may be
  Horizon,        \* bound: last instant of the clock
  MaxWrites,      \* bound: decisions written in all
  MaxCommands     \* bound: `complete-live` commands at work at once

ASSUME ConstantsAssumption ==
  /\ NoAttempt \notin Attempt
  /\ ScopeOf \in [Run -> Scope]
  /\ SessionOf \in [Run -> Nat]
  /\ Live \subseteq Run
  /\ LeaseSeconds \subseteq Nat \ {0}
  /\ DayLength \in Nat \ {0}
  /\ MaxLag \in Nat
  /\ Horizon \in Nat
  /\ MaxWrites \in Nat
  /\ MaxCommands \in Nat

VARIABLES
  clock,      \* real time
  saved,      \* runtime_runs: the runs saved, with their prepared_at
  legacy,     \* legacy[r]: reasoning_runs.result of the run r wraps
  completing, \* the `complete-live` commands that have read, not updated
  byHand,     \* the live runs completed with `complete-live`
  overtaken,  \* history: the runs given a decision by hand while a
              \* `complete-live` that read no links was about to update
  attempts,   \* runtime_attempts, by attempt id
  lease,      \* runtime_leases, by scope
  decisions,  \* decision_records of attempts in rowid order: the attempt
  linked      \* the live runs with a decision submitted by hand

vars ==
  <<clock, saved, legacy, completing, byHand, overtaken, attempts, lease, decisions, linked>>

(* The variables that only work by hand changes. *)
manual == <<completing, byHand, overtaken, linked>>

(* "failed" stands for failed, blocked, timed_out and canceled, which the  *)
(* tables treat alike.                                                     *)
Succeeded == {"completed", "no_action"}
Terminal == Succeeded \cup {"failed"}
Status == Terminal \cup {"running", "expired"}

AttemptRow ==
  [run : Run, number : Nat \ {0}, fence : Nat \ {0}, status : Status,
   heartbeat : Nat]

LeaseRow ==
  [fence : Nat, attempt : Attempt \cup {NoAttempt}, expires : Nat]

LegacyResult == {"PREPARED", "NO_ACTION", "DECISIONS_AUTHORED", "FAILED"}

(* Every row has the columns of its table; numbers and fences count from 1. *)
TypeOK ==
  /\ clock \in 0..Horizon
  /\ DOMAIN saved \subseteq Run /\ \A r \in DOMAIN saved : saved[r] \in Nat
  /\ legacy \in [Live -> LegacyResult]
  /\ completing \subseteq [run : Live, result : LegacyResult \ {"PREPARED"}]
  /\ byHand \subseteq Live
  /\ overtaken \subseteq Live
  /\ DOMAIN attempts \subseteq Attempt
  /\ \A a \in DOMAIN attempts : attempts[a] \in AttemptRow
  /\ lease \in [Scope -> LeaseRow]
  /\ decisions \in Seq(DOMAIN attempts)
  /\ linked \subseteq Live

Init ==
  /\ clock = 0
  /\ saved = << >>
  /\ legacy = [r \in Live |-> "PREPARED"]
  /\ completing = {}
  /\ byHand = {}
  /\ overtaken = {}
  /\ attempts = << >>
  /\ lease = [s \in Scope |-> [fence |-> 0, attempt |-> NoAttempt, expires |-> 0]]
  /\ decisions = << >>
  /\ linked = {}

-----------------------------------------------------------------------------
(* Readings of the tables.                                                 *)

Day(t) == t \div DayLength

(* The times a caller may have read before its transaction began. *)
Sampled == {t \in 0..clock : clock - t <= MaxLag}

AttemptsOf(r) == {a \in DOMAIN attempts : attempts[a].run = r}

ScopeOfAttempt(a) == ScopeOf[attempts[a].run]

(* The latest attempt of r, if there is one. *)
IsPrior(a, r) ==
  /\ a \in AttemptsOf(r)
  /\ \A b \in AttemptsOf(r) : attempts[b].number <= attempts[a].number

DecisionsOf(a) == {i \in DOMAIN decisions : decisions[i] = a}

(* reasoning_run_decisions has a row for r. *)
HasLinks(r) ==
  r \in linked \/ \E i \in DOMAIN decisions : attempts[decisions[i]].run = r

(* The slips a change to this code could make, each used by one of the     *)
(* project's mutation runs, stand before the definition they replace.      *)

(* expire(): the scopes whose lease ran out at now, and both tables with   *)
(* those leases swept.                                                     *)
Elapsed(now) ==
  {s \in Scope : lease[s].attempt # NoAttempt /\ lease[s].expires <= now}

SweptAttemptsForgotten(now) == attempts

SweptAttempts(now) ==
  [a \in DOMAIN attempts |->
     IF /\ attempts[a].status = "running"
        /\ \E s \in Elapsed(now) : lease[s].attempt = a
     THEN [attempts[a] EXCEPT !.status = "expired"]
     ELSE attempts[a]]

ReleasedKeepingAttempt(row) == [row EXCEPT !.expires = 0]

Released(row) == [row EXCEPT !.attempt = NoAttempt, !.expires = 0]

SweptLeases(now) ==
  [s \in Scope |-> IF s \in Elapsed(now) THEN Released(lease[s]) ELSE lease[s]]

ValidFenceOfAnyLease(a, now) ==
  \E s \in Scope : lease[s].attempt # NoAttempt /\ lease[s].expires > now

(* validate_fence(): the caller's token is still the one the lease knows.  *)
ValidFence(a, now) ==
  /\ attempts[a].status = "running"
  /\ \E s \in Scope :
       /\ lease[s].attempt = a
       /\ lease[s].fence = attempts[a].fence
       /\ lease[s].expires > now

(* UPDATE runtime_leases SET expires_at = expires WHERE attempt_id = a *)
Extended(a, expires) ==
  [s \in Scope |-> IF lease[s].attempt = a
                   THEN [lease[s] EXCEPT !.expires = expires] ELSE lease[s]]

-----------------------------------------------------------------------------
(* Operations.                                                             *)

Tick ==
  /\ clock < Horizon
  /\ clock' = clock + 1
  /\ UNCHANGED <<saved, legacy, attempts, lease, decisions, manual>>

(* save_run(): prepared today, and never around a run completed by hand.   *)
SaveRun(r, prepared) ==
  /\ r \notin DOMAIN saved
  /\ Day(prepared) = SessionOf[r]
  /\ r \in Live => legacy[r] = "PREPARED"
  /\ saved' = [q \in DOMAIN saved \cup {r} |-> IF q = r THEN prepared ELSE saved[q]]
  /\ UNCHANGED <<clock, legacy, attempts, lease, decisions, manual>>

(* claim(): a first attempt of r, or an explicit retry of one that did not *)
(* succeed.  What the schedules refuse in addition is any claim not taken. *)
FirstClaim(r) ==
  /\ AttemptsOf(r) = {}
  /\ r \in Live => legacy[r] = "PREPARED"

RetryClaimAnyPrior(r, prior, now) == IsPrior(prior, r)

RetryClaim(r, prior, now) ==
  /\ IsPrior(prior, r)
  /\ SweptAttempts(now)[prior].status \notin Succeeded

NextNumber(r) ==
  IF AttemptsOf(r) = {} THEN 1
  ELSE attempts[CHOOSE a \in DOMAIN attempts : IsPrior(a, r)].number + 1

NewAttemptStaleFence(r, now) ==
  [run |-> r, number |-> NextNumber(r), fence |-> lease[ScopeOf[r]].fence,
   status |-> "running", heartbeat |-> now]

NewAttemptFencedByNumber(r, now) ==
  [run |-> r, number |-> NextNumber(r), fence |-> NextNumber(r),
   status |-> "running", heartbeat |-> now]

NewAttempt(r, now) ==
  [run |-> r, number |-> NextNumber(r), fence |-> lease[ScopeOf[r]].fence + 1,
   status |-> "running", heartbeat |-> now]

Claim(a, r, now, ttl) ==
  LET s == ScopeOf[r] IN
  /\ a \in Attempt \ DOMAIN attempts
  /\ r \in DOMAIN saved
  /\ saved[r] <= now
  /\ Day(now) = SessionOf[r]
  /\ SweptLeases(now)[s].attempt = NoAttempt
  /\ FirstClaim(r) \/ \E prior \in DOMAIN attempts : RetryClaim(r, prior, now)
  /\ attempts' = [b \in DOMAIN attempts \cup {a} |->
                    IF b = a THEN NewAttempt(r, now) ELSE SweptAttempts(now)[b]]
  /\ lease' = [SweptLeases(now) EXCEPT
                 ![s] = [fence |-> lease[s].fence + 1, attempt |-> a,
                         expires |-> now + ttl]]
  /\ UNCHANGED <<clock, saved, legacy, decisions, manual>>

(* heartbeat() *)
Heartbeat(a, now, ttl) ==
  /\ ValidFence(a, now)
  /\ attempts[a].heartbeat <= now
  /\ attempts' = [attempts EXCEPT ![a].heartbeat = now]
  /\ lease' = Extended(a, now + ttl)
  /\ UNCHANGED <<clock, saved, legacy, decisions, manual>>

(* submit_decision() with an attempt and a fence: the decision, its intent *)
(* and its link are one transaction with the fence check.                  *)
Submit(a, now) ==
  /\ Len(decisions) < MaxWrites
  /\ ValidFence(a, now)
  /\ Day(now) = SessionOf[attempts[a].run]
  /\ decisions' = Append(decisions, a)
  /\ UNCHANGED <<clock, saved, legacy, attempts, lease, manual>>

(* submit_decision() without a fence, for a run worked by hand. *)
SubmitByHand(r, now) ==
  /\ r \in Live
  /\ legacy[r] = "PREPARED"
  /\ Day(now) = SessionOf[r]
  /\ linked' = linked \cup {r}
  /\ overtaken' = overtaken \cup {c.run : c \in {d \in completing : d.run = r /\ d.result = "NO_ACTION"}}
  /\ UNCHANGED <<clock, saved, legacy, completing, byHand, attempts, lease, decisions>>

(* complete_reasoning_run() from the `complete-live` command, in           *)
(* autocommit.  It reads the result and the links and checks that the file *)
(* agrees with them (a result that is still PREPARED when the links are    *)
(* read was so before, so the reads are one step) ...                      *)
ReadByHandOfResult(r, result) ==
  /\ Cardinality(completing) < MaxCommands
  /\ r \in Live
  /\ legacy[r] = "PREPARED"
  /\ result # "PREPARED"
  /\ completing' = completing \cup {[run |-> r, result |-> result]}
  /\ UNCHANGED <<clock, saved, legacy, byHand, overtaken, attempts, lease, decisions, linked>>

ReadByHand(r, result) ==
  /\ Cardinality(completing) < MaxCommands
  /\ r \in Live
  /\ legacy[r] = "PREPARED"
  /\ result # "PREPARED"
  /\ result = "NO_ACTION" => ~HasLinks(r)
  /\ result = "DECISIONS_AUTHORED" => HasLinks(r)
  /\ completing' = completing \cup {[run |-> r, result |-> result]}
  /\ UNCHANGED <<clock, saved, legacy, byHand, overtaken, attempts, lease, decisions, linked>>

(* ... and then updates the run if its result is PREPARED still, whatever  *)
(* was linked to it meanwhile; a command too late reports success as well. *)
CompleteByHand(c) ==
  LET first == legacy[c.run] = "PREPARED" IN
  /\ legacy' = IF first THEN [legacy EXCEPT ![c.run] = c.result] ELSE legacy
  /\ byHand' = IF first THEN byHand \cup {c.run} ELSE byHand
  /\ completing' = completing \ {c}
  /\ UNCHANGED <<clock, saved, overtaken, attempts, lease, decisions, linked>>

(* finish(), also the operator's cancel: closes the attempt, frees the     *)
(* lease, and settles the wrapped run unless an earlier outcome stands.    *)
OutcomeByStatus(r, status) ==
  IF status \notin Succeeded THEN "FAILED"
  ELSE IF status = "completed" THEN "DECISIONS_AUTHORED" ELSE "NO_ACTION"

Outcome(r, status) ==
  IF status \notin Succeeded THEN "FAILED"
  ELSE IF HasLinks(r) THEN "DECISIONS_AUTHORED" ELSE "NO_ACTION"

Finish(a, now, status) ==
  LET r == attempts[a].run IN
  /\ ValidFence(a, now)
  /\ attempts[a].heartbeat <= now
  /\ status = "no_action" => DecisionsOf(a) = {}
  /\ legacy' = [q \in Live |-> IF q = r /\ legacy[q] = "PREPARED"
                               THEN Outcome(r, status) ELSE legacy[q]]
  /\ attempts' = [attempts EXCEPT ![a].status = status]
  /\ lease' = [s \in Scope |-> IF lease[s].attempt = a
                               THEN Released(lease[s]) ELSE lease[s]]
  /\ UNCHANGED <<clock, saved, decisions, manual>>

(* expire() on its own: `reconcile`, and a worker that lost its lease. *)
Reconcile(now) ==
  /\ Elapsed(now) # {}
  /\ attempts' = SweptAttempts(now)
  /\ lease' = SweptLeases(now)
  /\ UNCHANGED <<clock, saved, legacy, decisions, manual>>

Next ==
  \/ Tick
  \/ \E now \in Sampled :
       \/ \E r \in Run :
            \/ SaveRun(r, now)
            \/ SubmitByHand(r, now)
            \/ \E a \in Attempt, ttl \in LeaseSeconds : Claim(a, r, now, ttl)
       \/ \E a \in DOMAIN attempts :
            \/ \E ttl \in LeaseSeconds : Heartbeat(a, now, ttl)
            \/ Submit(a, now)
            \/ \E status \in Terminal : Finish(a, now, status)
       \/ Reconcile(now)
  \/ \E r \in Run, result \in LegacyResult : ReadByHand(r, result)
  \/ \E c \in completing : CompleteByHand(c)

Spec == Init /\ [][Next]_vars

-----------------------------------------------------------------------------
(* Properties.                                                             *)

(* The two tables agree: a lease points at the running attempt that holds  *)
(* its current fence, and every running attempt is pointed at.             *)
LeaseMatchesAttempt ==
  /\ \A s \in Scope : lease[s].attempt # NoAttempt =>
       /\ lease[s].attempt \in DOMAIN attempts
       /\ ScopeOfAttempt(lease[s].attempt) = s
       /\ attempts[lease[s].attempt].status = "running"
       /\ attempts[lease[s].attempt].fence = lease[s].fence
  /\ \A a \in DOMAIN attempts : attempts[a].status = "running" =>
       lease[ScopeOfAttempt(a)].attempt = a

(* An account never has two attempts at work (claim's "overlap").          *)
OneRunningPerScope ==
  \A a, b \in DOMAIN attempts :
    /\ attempts[a].status = "running" /\ attempts[b].status = "running"
    /\ ScopeOfAttempt(a) = ScopeOfAttempt(b)
    => a = b

(* A fence names one attempt of its scope, and no fence is ahead of the    *)
(* lease that hands them out.                                              *)
FencesUnique ==
  /\ \A a \in DOMAIN attempts :
       attempts[a].fence <= lease[ScopeOfAttempt(a)].fence
  /\ \A a, b \in DOMAIN attempts :
       /\ ScopeOfAttempt(a) = ScopeOfAttempt(b)
       /\ attempts[a].fence = attempts[b].fence
       => a = b

(* What attempts and leases say of each other, in every combination of     *)
(* claims, expiries, finishes and late writes.                             *)
TablesAgree == LeaseMatchesAttempt /\ FencesUnique

(* Among an account's saved decisions, none of an older attempt comes      *)
(* after one of a newer attempt: an expired lease fences out late writes.  *)
WritesFollowFences ==
  \A i, j \in DOMAIN decisions :
    /\ i < j
    /\ ScopeOfAttempt(decisions[i]) = ScopeOfAttempt(decisions[j])
    => attempts[decisions[i]].fence <= attempts[decisions[j]].fence

(* The attempts of a run are numbered apart, and the one at work is the    *)
(* latest.                                                                 *)
NumbersUnique ==
  \A a, b \in DOMAIN attempts :
    /\ attempts[a].run = attempts[b].run
    /\ attempts[a].number = attempts[b].number
    => a = b

RunningIsLatest ==
  \A a, b \in DOMAIN attempts :
    attempts[a].status = "running" /\ attempts[a].run = attempts[b].run
    => attempts[b].number <= attempts[a].number

(* A run succeeds at most once, and nothing is retried after it did.       *)
SuccessIsLast ==
  \A a, b \in DOMAIN attempts :
    /\ attempts[a].run = attempts[b].run
    /\ attempts[a].status \in Succeeded
    => attempts[b].number <= attempts[a].number

(* An attempt reported as no_action has no saved decision, now or later.   *)
NoActionIsEmpty ==
  \A a \in DOMAIN attempts :
    attempts[a].status = "no_action" => DecisionsOf(a) = {}

(* The outcome of an attempt, and of the run it wraps, tells whether       *)
(* decisions are linked to it: one that tells of decisions has some, and   *)
(* one that tells of none has none, unless the operator completed the run  *)
(* by hand under a runtime attempt, or submitted a decision by hand        *)
(* between the read and the update of that completion.                     *)
OutcomeMatchesLinks ==
  /\ NoActionIsEmpty
  /\ \A r \in Live :
       /\ legacy[r] = "DECISIONS_AUTHORED" => HasLinks(r)
       /\ legacy[r] = "NO_ACTION" /\ HasLinks(r) =>
            r \in byHand /\ (AttemptsOf(r) # {} \/ r \in overtaken)

(* In whatever order claims, expiries, retries, finishes and late writes    *)
(* come: the tables agree and fences never repeat; an account's decisions  *)
(* are in the order of their fences; the running attempt of a run is its   *)
(* latest, and a run that succeeded is not attempted again; no_action      *)
(* stays true.  It is inductive, and entails OneRunningPerScope            *)
(* (RuntimeLease_proofs).                                                  *)
IInv ==
  /\ TypeOK
  /\ LeaseMatchesAttempt
  /\ FencesUnique
  /\ WritesFollowFences
  /\ NumbersUnique
  /\ RunningIsLatest
  /\ SuccessIsLast
  /\ NoActionIsEmpty

(* A finished attempt is history: its row never changes and it saves no    *)
(* further decision, whoever still holds its id.                           *)
HistoryKept ==
  \A a \in DOMAIN attempts : attempts[a].status # "running" =>
    /\ attempts'[a] = attempts[a]
    /\ \A i \in DOMAIN decisions' : decisions'[i] = a => i \in DOMAIN decisions

FinishedStaysFinished == [][HistoryKept]_vars

-----------------------------------------------------------------------------
(* The tables implement the abstract fenced writer: the holder of a scope  *)
(* is the attempt its lease names, and every saved decision carries the    *)
(* fence of its attempt.                                                   *)
Fenced == INSTANCE FencedWriter WITH
  Holder <- Attempt, NoHolder <- NoAttempt,
  holder <- [s \in Scope |-> lease[s].attempt],
  token <- [s \in Scope |-> lease[s].fence],
  spent <- DOMAIN attempts,
  log <- [i \in DOMAIN decisions |->
            [scope |-> ScopeOfAttempt(decisions[i]),
             token |-> attempts[decisions[i]].fence]]

FencedSpec == Fenced!Spec
=============================================================================
