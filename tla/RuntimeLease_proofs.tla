------------------------ MODULE RuntimeLease_proofs ------------------------
(***************************************************************************)
(* Proofs about the account lease, for any scopes, runs, attempts, lease   *)
(* lengths, clock lags and bounds: type correctness, mutual exclusion,     *)
(* fencing of late writes, at most one success of a run, immutability of   *)
(* finished attempts, outcomes that match the decisions, and that the      *)
(* tables implement FencedWriter.                                          *)
(***************************************************************************)
EXTENDS RuntimeLease, TLAPS

(* A sweep keeps every row and changes nothing but a status from running   *)
(* to expired, and only of an attempt whose lease elapsed.                 *)
LEMMA SweepRows ==
  ASSUME IInv, NEW now \in Nat
  PROVE  /\ DOMAIN SweptAttempts(now) = DOMAIN attempts
         /\ \A a \in DOMAIN attempts :
              /\ SweptAttempts(now)[a] \in AttemptRow
              /\ SweptAttempts(now)[a].run = attempts[a].run
              /\ SweptAttempts(now)[a].number = attempts[a].number
              /\ SweptAttempts(now)[a].fence = attempts[a].fence
              /\ \/ SweptAttempts(now)[a] = attempts[a]
                 \/ /\ attempts[a].status = "running"
                    /\ SweptAttempts(now)[a].status = "expired"
  <1>1. DOMAIN SweptAttempts(now) = DOMAIN attempts
    BY DEF SweptAttempts
  <1>2. SUFFICES ASSUME NEW a \in DOMAIN attempts
                 PROVE  /\ SweptAttempts(now)[a] \in AttemptRow
                        /\ SweptAttempts(now)[a].run = attempts[a].run
                        /\ SweptAttempts(now)[a].number = attempts[a].number
                        /\ SweptAttempts(now)[a].fence = attempts[a].fence
                        /\ \/ SweptAttempts(now)[a] = attempts[a]
                           \/ /\ attempts[a].status = "running"
                              /\ SweptAttempts(now)[a].status = "expired"
    BY <1>1
  <1>3. attempts[a] \in AttemptRow
    BY DEF IInv, TypeOK
  <1>4. CASE SweptAttempts(now)[a] = attempts[a]
    BY <1>3, <1>4
  <1>5. CASE /\ attempts[a].status = "running"
             /\ SweptAttempts(now)[a] = [attempts[a] EXCEPT !.status = "expired"]
    BY <1>3, <1>5 DEF AttemptRow, Status
  <1>6. QED
    BY <1>4, <1>5 DEF SweptAttempts

(* A sweep keeps every fence, and frees exactly the scopes that elapsed.   *)
LEMMA SweepLeaseRows ==
  ASSUME IInv, NEW now \in Nat
  PROVE  /\ SweptLeases(now) \in [Scope -> LeaseRow]
         /\ \A s \in Scope :
              /\ SweptLeases(now)[s].fence = lease[s].fence
              /\ \/ s \notin Elapsed(now) /\ SweptLeases(now)[s] = lease[s]
                 \/ s \in Elapsed(now) /\ SweptLeases(now)[s].attempt = NoAttempt
  BY DEF IInv, TypeOK, SweptLeases, Released, LeaseRow

(* After a sweep the tables still agree about who is at work.              *)
LEMMA SweepAgrees ==
  ASSUME IInv, NEW now \in Nat
  PROVE  /\ \A s \in Scope :
              LET a == SweptLeases(now)[s].attempt IN
              a # NoAttempt =>
                /\ a \in DOMAIN attempts
                /\ ScopeOfAttempt(a) = s
                /\ SweptAttempts(now)[a].status = "running"
                /\ SweptAttempts(now)[a].fence = SweptLeases(now)[s].fence
         /\ \A a \in DOMAIN attempts :
              SweptAttempts(now)[a].status = "running" =>
                SweptLeases(now)[ScopeOfAttempt(a)].attempt = a
  <1>1. ASSUME NEW s \in Scope, SweptLeases(now)[s].attempt # NoAttempt
        PROVE  LET a == SweptLeases(now)[s].attempt IN
                /\ a \in DOMAIN attempts
                /\ ScopeOfAttempt(a) = s
                /\ SweptAttempts(now)[a].status = "running"
                /\ SweptAttempts(now)[a].fence = SweptLeases(now)[s].fence
    <2>1. s \notin Elapsed(now) /\ SweptLeases(now)[s] = lease[s]
      BY <1>1, SweepLeaseRows
    <2> DEFINE a == lease[s].attempt
    <2>2. /\ a \in DOMAIN attempts /\ ScopeOfAttempt(a) = s
          /\ attempts[a].status = "running" /\ attempts[a].fence = lease[s].fence
      BY <1>1, <2>1 DEF IInv, LeaseMatchesAttempt
    <2>3. \A q \in Elapsed(now) : lease[q].attempt # a
      BY <2>1, <2>2 DEF Elapsed, IInv, LeaseMatchesAttempt
    <2>4. SweptAttempts(now)[a] = attempts[a]
      BY <2>2, <2>3 DEF SweptAttempts
    <2>5. QED
      BY <2>1, <2>2, <2>4
  <1>2. ASSUME NEW a \in DOMAIN attempts, SweptAttempts(now)[a].status = "running"
        PROVE  SweptLeases(now)[ScopeOfAttempt(a)].attempt = a
    <2>1. attempts[a].status = "running"
      BY <1>2, SweepRows
    <2>2. ScopeOfAttempt(a) \in Scope
      BY ConstantsAssumption DEF IInv, TypeOK, AttemptRow, ScopeOfAttempt
    <2>3. lease[ScopeOfAttempt(a)].attempt = a
      BY <2>1 DEF IInv, LeaseMatchesAttempt
    <2>4. ScopeOfAttempt(a) \notin Elapsed(now)
      BY <1>2, <2>1, <2>2, <2>3 DEF SweptAttempts
    <2>5. QED
      BY <2>2, <2>3, <2>4, SweepLeaseRows
  <1>3. QED
    BY <1>1, <1>2

(* An operation that neither adds an attempt, nor moves a fence, nor saves *)
(* a decision keeps the parts of the invariant about identities.           *)
LEMMA IdentitiesKept ==
  ASSUME IInv,
         DOMAIN attempts' = DOMAIN attempts,
         \A a \in DOMAIN attempts :
           /\ attempts'[a].run = attempts[a].run
           /\ attempts'[a].number = attempts[a].number
           /\ attempts'[a].fence = attempts[a].fence,
         \A s \in Scope : lease'[s].fence = lease[s].fence,
         decisions' = decisions
  PROVE  /\ FencesUnique'
         /\ WritesFollowFences'
         /\ NumbersUnique'
  <1>1. \A a \in DOMAIN attempts : ScopeOfAttempt(a)' = ScopeOfAttempt(a)
    BY DEF ScopeOfAttempt
  <1>2. \A a \in DOMAIN attempts : ScopeOfAttempt(a) \in Scope
    BY ConstantsAssumption DEF IInv, TypeOK, AttemptRow, ScopeOfAttempt
  <1>3. FencesUnique'
    BY <1>1, <1>2 DEF IInv, FencesUnique
  <1>4. \A i \in DOMAIN decisions : decisions[i] \in DOMAIN attempts
    BY DEF IInv, TypeOK
  <1>5. WritesFollowFences'
    BY <1>1, <1>4 DEF IInv, WritesFollowFences
  <1>6. NumbersUnique'
    BY DEF IInv, NumbersUnique
  <1>7. QED
    BY <1>3, <1>5, <1>6

-----------------------------------------------------------------------------
(* The invariant is inductive: one lemma per group of operations.          *)

LEMMA InitInvariant == Init => IInv
  BY ConstantsAssumption
  DEF Init, IInv, TypeOK, LeaseRow, LegacyResult, LeaseMatchesAttempt, FencesUnique,
      WritesFollowFences, NumbersUnique, RunningIsLatest, SuccessIsLast, NoActionIsEmpty

(* Steps that leave attempts, leases and decisions alone. *)
LEMMA QuietStep ==
  ASSUME IInv, UNCHANGED <<attempts, lease, decisions>>, TypeOK'
  PROVE  IInv'
  <1>1. LeaseMatchesAttempt'
    BY DEF IInv, LeaseMatchesAttempt, ScopeOfAttempt
  <1>2. RunningIsLatest' /\ SuccessIsLast'
    BY DEF IInv, RunningIsLatest, SuccessIsLast
  <1>3. NoActionIsEmpty'
    BY DEF IInv, NoActionIsEmpty, DecisionsOf
  <1>4. QED
    BY <1>1, <1>2, <1>3, IdentitiesKept DEF IInv

LEMMA ReconcileStep ==
  ASSUME IInv, NEW now \in Sampled, Reconcile(now)
  PROVE  IInv'
  <1>1. now \in Nat
    BY DEF Sampled
  <1>2. TypeOK'
    <2>1. \A a \in DOMAIN attempts' : attempts'[a] \in AttemptRow
      BY <1>1, SweepRows DEF Reconcile
    <2>2. lease' \in [Scope -> LeaseRow]
      BY <1>1, SweepLeaseRows DEF Reconcile
    <2>3. DOMAIN attempts' = DOMAIN attempts
      BY <1>1, SweepRows DEF Reconcile
    <2>4. QED
      BY <2>1, <2>2, <2>3 DEF IInv, TypeOK, Reconcile, manual
  <1>3. LeaseMatchesAttempt'
    BY <1>1, SweepAgrees, SweepRows DEF Reconcile, LeaseMatchesAttempt, ScopeOfAttempt
  <1>4. FencesUnique' /\ WritesFollowFences' /\ NumbersUnique'
    BY <1>1, SweepRows, SweepLeaseRows, IdentitiesKept DEF Reconcile
  <1>5. RunningIsLatest'
    BY <1>1, SweepRows DEF IInv, Reconcile, RunningIsLatest
  <1>6. SuccessIsLast'
    BY <1>1, SweepRows DEF IInv, Reconcile, SuccessIsLast, Succeeded
  <1>7. NoActionIsEmpty'
    BY <1>1, SweepRows DEF IInv, Reconcile, NoActionIsEmpty, DecisionsOf
  <1>8. QED
    BY <1>2, <1>3, <1>4, <1>5, <1>6, <1>7 DEF IInv

LEMMA HeartbeatStep ==
  ASSUME IInv, NEW a \in DOMAIN attempts, NEW now \in Sampled,
         NEW ttl \in LeaseSeconds, Heartbeat(a, now, ttl)
  PROVE  IInv'
  <1>1. now \in Nat /\ now + ttl \in Nat
    BY ConstantsAssumption DEF Sampled
  <1>2. /\ DOMAIN attempts' = DOMAIN attempts
        /\ \A b \in DOMAIN attempts :
             /\ attempts'[b] \in AttemptRow
             /\ attempts'[b].run = attempts[b].run
             /\ attempts'[b].number = attempts[b].number
             /\ attempts'[b].fence = attempts[b].fence
             /\ attempts'[b].status = attempts[b].status
    BY <1>1 DEF Heartbeat, IInv, TypeOK, AttemptRow
  <1>3. /\ lease' \in [Scope -> LeaseRow]
        /\ \A s \in Scope :
             lease'[s].fence = lease[s].fence /\ lease'[s].attempt = lease[s].attempt
    BY <1>1 DEF Heartbeat, Extended, IInv, TypeOK, LeaseRow
  <1>4. TypeOK'
    BY <1>2, <1>3 DEF Heartbeat, manual, IInv, TypeOK
  <1>5. LeaseMatchesAttempt'
    <2>1. \A b \in DOMAIN attempts : ScopeOfAttempt(b) \in Scope
      BY ConstantsAssumption DEF IInv, TypeOK, AttemptRow, ScopeOfAttempt
    <2>2. QED
      BY <1>2, <1>3, <2>1 DEF IInv, LeaseMatchesAttempt, ScopeOfAttempt
  <1>6. FencesUnique' /\ WritesFollowFences' /\ NumbersUnique'
    BY <1>2, <1>3, IdentitiesKept DEF Heartbeat
  <1>7. RunningIsLatest' /\ SuccessIsLast'
    BY <1>2 DEF IInv, RunningIsLatest, SuccessIsLast
  <1>8. NoActionIsEmpty'
    BY <1>2 DEF IInv, Heartbeat, NoActionIsEmpty, DecisionsOf
  <1>9. QED
    BY <1>4, <1>5, <1>6, <1>7, <1>8 DEF IInv

(* The caller of a fenced operation is the attempt its lease names. *)
LEMMA FenceMeansHolder ==
  ASSUME IInv, NEW a \in DOMAIN attempts, NEW now \in Nat, ValidFence(a, now)
  PROVE  /\ attempts[a].status = "running"
         /\ ScopeOfAttempt(a) \in Scope
         /\ lease[ScopeOfAttempt(a)].attempt = a
         /\ lease[ScopeOfAttempt(a)].fence = attempts[a].fence
         /\ \A s \in Scope : lease[s].attempt = a => s = ScopeOfAttempt(a)
  <1>1. a # NoAttempt
    BY ConstantsAssumption DEF IInv, TypeOK
  <1>2. ScopeOfAttempt(a) \in Scope
    BY ConstantsAssumption DEF IInv, TypeOK, AttemptRow, ScopeOfAttempt
  <1>3. QED
    BY <1>1, <1>2 DEF IInv, LeaseMatchesAttempt, ValidFence

LEMMA SubmitStep ==
  ASSUME IInv, NEW a \in DOMAIN attempts, NEW now \in Sampled, Submit(a, now)
  PROVE  IInv'
  <1>1. now \in Nat
    BY DEF Sampled
  <1>2. ValidFence(a, now) /\ decisions' = Append(decisions, a)
    BY DEF Submit
  <1>3. /\ decisions \in Seq(DOMAIN attempts)
        /\ decisions' \in Seq(DOMAIN attempts)
        /\ Len(decisions') = Len(decisions) + 1
        /\ DOMAIN decisions = 1..Len(decisions)
        /\ DOMAIN decisions' = 1..(Len(decisions) + 1)
        /\ \A i \in 1..Len(decisions) : decisions'[i] = decisions[i]
        /\ decisions'[Len(decisions) + 1] = a
    BY <1>2 DEF IInv, TypeOK
  <1>4. TypeOK'
    BY <1>3 DEF IInv, TypeOK, Submit, manual
  <1>5. LeaseMatchesAttempt' /\ FencesUnique'
    BY DEF IInv, Submit, LeaseMatchesAttempt, FencesUnique, ScopeOfAttempt
  <1>6. NumbersUnique' /\ RunningIsLatest' /\ SuccessIsLast'
    BY DEF IInv, Submit, NumbersUnique, RunningIsLatest, SuccessIsLast
  <1>7. WritesFollowFences'
    <2>1. \A b \in DOMAIN attempts :
            /\ ScopeOfAttempt(b)' = ScopeOfAttempt(b)
            /\ attempts'[b].fence = attempts[b].fence
      BY DEF Submit, ScopeOfAttempt
    <2>2. \A b \in DOMAIN attempts :
            ScopeOfAttempt(b) = ScopeOfAttempt(a) => attempts[b].fence <= attempts[a].fence
      BY <1>1, <1>2, FenceMeansHolder DEF IInv, FencesUnique
    <2>3. SUFFICES ASSUME NEW i \in DOMAIN decisions', NEW j \in DOMAIN decisions',
                          i < j,
                          ScopeOfAttempt(decisions'[i]) = ScopeOfAttempt(decisions'[j])
                   PROVE  attempts[decisions'[i]].fence <= attempts[decisions'[j]].fence
      BY <1>3, <2>1 DEF WritesFollowFences
    <2>4. CASE j \in DOMAIN decisions
      BY <1>3, <2>3, <2>4 DEF IInv, WritesFollowFences
    <2>5. CASE j = Len(decisions) + 1
      BY <1>3, <2>2, <2>3, <2>5
    <2>6. QED
      BY <1>3, <2>3, <2>4, <2>5
  <1>8. NoActionIsEmpty'
    BY <1>1, <1>2, <1>3, FenceMeansHolder DEF IInv, Submit, NoActionIsEmpty, DecisionsOf
  <1>9. QED
    BY <1>4, <1>5, <1>6, <1>7, <1>8 DEF IInv

LEMMA FinishStep ==
  ASSUME IInv, NEW a \in DOMAIN attempts, NEW now \in Sampled,
         NEW status \in Terminal, Finish(a, now, status)
  PROVE  IInv'
  <1>1. now \in Nat /\ ValidFence(a, now)
    BY DEF Sampled, Finish
  <1>2. /\ DOMAIN attempts' = DOMAIN attempts
        /\ \A b \in DOMAIN attempts :
             /\ attempts'[b] \in AttemptRow
             /\ attempts'[b].run = attempts[b].run
             /\ attempts'[b].number = attempts[b].number
             /\ attempts'[b].fence = attempts[b].fence
             /\ b # a => attempts'[b] = attempts[b]
        /\ attempts'[a].status = status
    BY DEF Finish, IInv, TypeOK, AttemptRow, Status
  <1>3. /\ lease' \in [Scope -> LeaseRow]
        /\ \A s \in Scope : lease'[s].fence = lease[s].fence
        /\ \A s \in Scope : lease[s].attempt = a => lease'[s].attempt = NoAttempt
        /\ \A s \in Scope : lease[s].attempt # a => lease'[s] = lease[s]
    BY DEF Finish, Released, IInv, TypeOK, LeaseRow
  <1>4. TypeOK'
    <2>1. legacy' \in [Live -> LegacyResult]
      BY DEF Finish, Outcome, LegacyResult, IInv, TypeOK
    <2>2. QED
      BY <1>2, <1>3, <2>1 DEF Finish, manual, IInv, TypeOK
  <1>5. status # "running"
    BY DEF Terminal, Succeeded
  <1>6. LeaseMatchesAttempt'
    <2>1. \A b \in DOMAIN attempts : ScopeOfAttempt(b) \in Scope
                                     /\ ScopeOfAttempt(b)' = ScopeOfAttempt(b)
      BY <1>2, ConstantsAssumption DEF IInv, TypeOK, AttemptRow, ScopeOfAttempt
    <2>2. QED
      BY <1>2, <1>3, <1>5, <2>1 DEF IInv, LeaseMatchesAttempt
  <1>7. FencesUnique' /\ WritesFollowFences' /\ NumbersUnique'
    BY <1>2, <1>3, IdentitiesKept DEF Finish
  <1>8. attempts[a].status = "running"
    BY <1>1, FenceMeansHolder
  <1>9. RunningIsLatest'
    BY <1>2, <1>5 DEF IInv, RunningIsLatest
  <1>10. SuccessIsLast'
    BY <1>2, <1>8 DEF IInv, RunningIsLatest, SuccessIsLast
  <1>11. NoActionIsEmpty'
    BY <1>2 DEF Finish, IInv, NoActionIsEmpty, DecisionsOf
  <1>12. QED
    BY <1>4, <1>6, <1>7, <1>9, <1>10, <1>11 DEF IInv

(* A claim numbers its attempt after every earlier attempt of the run. *)
LEMMA ClaimNumber ==
  ASSUME IInv, NEW r \in Run, NEW now \in Nat,
         FirstClaim(r) \/ \E prior \in DOMAIN attempts : RetryClaim(r, prior, now)
  PROVE  /\ NextNumber(r) \in Nat \ {0}
         /\ \A b \in AttemptsOf(r) : attempts[b].number < NextNumber(r)
  <1>1. CASE AttemptsOf(r) = {}
    BY <1>1 DEF NextNumber
  <1>2. CASE AttemptsOf(r) # {}
    <2>1. PICK prior \in DOMAIN attempts : IsPrior(prior, r)
      BY <1>2 DEF FirstClaim, RetryClaim
    <2> DEFINE last == CHOOSE b \in DOMAIN attempts : IsPrior(b, r)
    <2>2. last \in DOMAIN attempts /\ IsPrior(last, r)
      BY <2>1
    <2>3. NextNumber(r) = attempts[last].number + 1
      BY <1>2 DEF NextNumber
    <2>4. \A b \in AttemptsOf(r) : b \in DOMAIN attempts /\ attempts[b].number \in Nat \ {0}
      BY DEF AttemptsOf, IInv, TypeOK, AttemptRow
    <2> HIDE DEF last
    <2>5. QED
      BY <2>2, <2>3, <2>4 DEF IsPrior
  <1>3. QED
    BY <1>1, <1>2

(* A run can only be claimed again if none of its attempts succeeded. *)
LEMMA ClaimAfterFailure ==
  ASSUME IInv, NEW r \in Run, NEW now \in Nat,
         FirstClaim(r) \/ \E prior \in DOMAIN attempts : RetryClaim(r, prior, now)
  PROVE  \A b \in AttemptsOf(r) : attempts[b].status \notin Succeeded
  <1>1. SUFFICES ASSUME NEW b \in AttemptsOf(r), attempts[b].status \in Succeeded
                 PROVE  FALSE
    OBVIOUS
  <1>2. b \in DOMAIN attempts /\ attempts[b].run = r
    BY <1>1 DEF AttemptsOf
  <1>3. PICK prior \in DOMAIN attempts : RetryClaim(r, prior, now)
    BY <1>1 DEF FirstClaim
  <1>4. prior \in AttemptsOf(r) /\ attempts[b].number <= attempts[prior].number
    BY <1>1, <1>3 DEF RetryClaim, IsPrior
  <1>5. attempts[prior].run = r /\ attempts[prior].number <= attempts[b].number
    BY <1>1, <1>2, <1>4 DEF AttemptsOf, IInv, SuccessIsLast
  <1>6. attempts[prior].number = attempts[b].number
    BY <1>2, <1>3, <1>4, <1>5 DEF IInv, TypeOK, AttemptRow
  <1>7. prior = b
    BY <1>2, <1>3, <1>5, <1>6 DEF IInv, NumbersUnique
  <1>8. SweptAttempts(now)[b].status = attempts[b].status
    BY <1>1, <1>2, SweepRows DEF Succeeded
  <1>9. QED
    BY <1>1, <1>3, <1>7, <1>8 DEF RetryClaim

LEMMA ClaimStep ==
  ASSUME IInv, NEW a \in Attempt, NEW r \in Run, NEW now \in Sampled,
         NEW ttl \in LeaseSeconds, Claim(a, r, now, ttl)
  PROVE  IInv'
  <1> DEFINE s == ScopeOf[r]
             swept == SweptAttempts(now)
             freed == SweptLeases(now)
             new == NewAttempt(r, now)
  <1>1. /\ now \in Nat /\ now + ttl \in Nat /\ s \in Scope
        /\ a \notin DOMAIN attempts /\ a # NoAttempt /\ freed[s].attempt = NoAttempt
        /\ lease[s].fence \in Nat
    BY ConstantsAssumption DEF Sampled, Claim, IInv, TypeOK, LeaseRow
  <1>2. /\ new \in AttemptRow /\ new.run = r /\ new.status = "running"
        /\ new.fence = lease[s].fence + 1 /\ new.number = NextNumber(r)
    BY <1>1, ClaimNumber DEF Claim, NewAttempt, AttemptRow, Status
  <1>3. /\ DOMAIN attempts' = DOMAIN attempts \cup {a}
        /\ attempts'[a] = new
        /\ \A b \in DOMAIN attempts : attempts'[b] = swept[b]
    BY <1>1 DEF Claim
  <1>4. /\ lease'[s] = [fence |-> lease[s].fence + 1, attempt |-> a, expires |-> now + ttl]
        /\ \A q \in Scope : q # s => lease'[q] = freed[q]
        /\ lease' \in [Scope -> LeaseRow]
    BY <1>1, SweepLeaseRows DEF Claim, LeaseRow
  <1>5. \A b \in DOMAIN attempts :
          /\ b # a /\ b # NoAttempt /\ b \in DOMAIN attempts'
          /\ ScopeOfAttempt(b) \in Scope
          /\ attempts[b].fence \in Nat /\ attempts[b].number \in Nat
    BY <1>1, <1>3, ConstantsAssumption DEF IInv, TypeOK, AttemptRow, ScopeOfAttempt
  <1>6. ScopeOfAttempt(a)' = s
    BY <1>2, <1>3 DEF ScopeOfAttempt
  <1> HIDE DEF s, swept, freed, new
  <1>7. /\ \A b \in DOMAIN attempts :
             /\ swept[b] \in AttemptRow /\ swept[b].run = attempts[b].run
             /\ swept[b].number = attempts[b].number /\ swept[b].fence = attempts[b].fence
             /\ \/ swept[b].status = attempts[b].status
                \/ attempts[b].status = "running" /\ swept[b].status = "expired"
        /\ \A b \in DOMAIN attempts : swept[b].status = "running" =>
             freed[ScopeOfAttempt(b)].attempt = b
        /\ \A q \in Scope : freed[q].attempt # NoAttempt =>
             /\ freed[q].attempt \in DOMAIN attempts
             /\ ScopeOfAttempt(freed[q].attempt) = q
             /\ swept[freed[q].attempt].status = "running"
             /\ swept[freed[q].attempt].fence = freed[q].fence
        /\ \A q \in Scope : freed[q].fence = lease[q].fence
    <2>1. \A b \in DOMAIN attempts :
             /\ swept[b] \in AttemptRow /\ swept[b].run = attempts[b].run
             /\ swept[b].number = attempts[b].number /\ swept[b].fence = attempts[b].fence
             /\ \/ swept[b].status = attempts[b].status
                \/ attempts[b].status = "running" /\ swept[b].status = "expired"
      BY <1>1, SweepRows DEF swept
    <2>2. \A q \in Scope : freed[q].fence = lease[q].fence
      BY <1>1, SweepLeaseRows DEF freed
    <2>3. QED
      BY <1>1, <2>1, <2>2, SweepAgrees DEF swept, freed
  <1>71. \A b \in DOMAIN attempts :
          /\ attempts'[b].run = attempts[b].run
          /\ attempts'[b].number = attempts[b].number
          /\ attempts'[b].fence = attempts[b].fence
          /\ ScopeOfAttempt(b)' = ScopeOfAttempt(b)
    BY <1>3, <1>7 DEF ScopeOfAttempt
  <1>8. TypeOK'
    <2>1. \A b \in DOMAIN attempts' : attempts'[b] \in AttemptRow
      BY <1>2, <1>3, <1>7
    <2>2. DOMAIN attempts' \subseteq Attempt
      BY <1>3 DEF IInv, TypeOK
    <2>3. decisions' \in Seq(DOMAIN attempts')
      BY <1>3 DEF Claim, IInv, TypeOK
    <2>4. QED
      BY <1>4, <2>1, <2>2, <2>3 DEF Claim, manual, IInv, TypeOK
  <1>9. \A b \in DOMAIN attempts : swept[b].status = "running" => ScopeOfAttempt(b) # s
    BY <1>1, <1>5, <1>7
  <1>10. LeaseMatchesAttempt'
    <2>1. ASSUME NEW q \in Scope, lease'[q].attempt # NoAttempt
          PROVE  /\ lease'[q].attempt \in DOMAIN attempts'
                 /\ ScopeOf[attempts'[lease'[q].attempt].run] = q
                 /\ attempts'[lease'[q].attempt].status = "running"
                 /\ attempts'[lease'[q].attempt].fence = lease'[q].fence
      <3>1. CASE q = s
        <4>1. lease'[q].attempt = a /\ lease'[q].fence = lease[s].fence + 1
          BY <1>4, <3>1
        <4>2. QED
          BY <1>2, <1>3, <3>1, <4>1 DEF s
      <3>2. CASE q # s
        BY <1>3, <1>4, <1>5, <1>7, <1>71, <2>1, <3>2 DEF ScopeOfAttempt
      <3>3. QED
        BY <3>1, <3>2
    <2>2. ASSUME NEW b \in DOMAIN attempts', attempts'[b].status = "running"
          PROVE  lease'[ScopeOf[attempts'[b].run]].attempt = b
      <3>1. CASE b = a
        BY <1>2, <1>3, <1>4, <3>1 DEF s
      <3>2. CASE b # a
        BY <1>3, <1>4, <1>5, <1>7, <1>71, <1>9, <2>2, <3>2 DEF ScopeOfAttempt
      <3>3. QED
        BY <3>1, <3>2
    <2>3. QED
      BY <2>1, <2>2 DEF LeaseMatchesAttempt, ScopeOfAttempt
  <1>11. \A b \in DOMAIN attempts :
           ScopeOfAttempt(b) = s => attempts[b].fence < lease[s].fence + 1
    BY <1>1 DEF IInv, FencesUnique, TypeOK, AttemptRow
  <1>12. FencesUnique'
    <2>1. ASSUME NEW b \in DOMAIN attempts'
          PROVE  attempts'[b].fence <= lease'[ScopeOfAttempt(b)'].fence
      <3>1. CASE b = a
        BY <1>1, <1>2, <1>3, <1>4, <1>6, <3>1
      <3>2. CASE b # a /\ ScopeOfAttempt(b) = s
        BY <1>1, <1>3, <1>4, <1>5, <1>71, <1>11, <3>2
      <3>3. CASE b # a /\ ScopeOfAttempt(b) # s
        BY <1>3, <1>4, <1>5, <1>7, <1>71, <3>3 DEF IInv, FencesUnique
      <3>4. QED
        BY <3>1, <3>2, <3>3
    <2>2. ASSUME NEW b \in DOMAIN attempts', NEW c \in DOMAIN attempts',
                 ScopeOfAttempt(b)' = ScopeOfAttempt(c)', attempts'[b].fence = attempts'[c].fence
          PROVE  b = c
      <3>1. \A d \in DOMAIN attempts : ScopeOfAttempt(d) = s => attempts'[d].fence # attempts'[a].fence
        BY <1>1, <1>2, <1>3, <1>5, <1>71, <1>11
      <3>2. CASE b \in DOMAIN attempts /\ c \in DOMAIN attempts
        BY <1>5, <1>71, <2>2, <3>2 DEF IInv, FencesUnique
      <3>3. CASE b = a \/ c = a
        BY <1>3, <1>5, <1>6, <1>71, <2>2, <3>1, <3>3
      <3>4. QED
        BY <1>3, <3>2, <3>3
    <2>3. QED
      BY <2>1, <2>2 DEF FencesUnique, ScopeOfAttempt
  <1>13. WritesFollowFences'
    <2>1. decisions' = decisions /\ \A i \in DOMAIN decisions : decisions[i] \in DOMAIN attempts
      BY DEF Claim, IInv, TypeOK
    <2>2. QED
      BY <1>5, <1>71, <2>1 DEF IInv, WritesFollowFences
  <1>14. \A b \in DOMAIN attempts : attempts[b].run = r =>
            attempts[b].number < new.number /\ attempts[b].status \notin Succeeded
    BY <1>1, <1>2, ClaimNumber, ClaimAfterFailure DEF Claim, AttemptsOf
  <1>15. NumbersUnique'
    BY <1>2, <1>3, <1>5, <1>71, <1>14 DEF IInv, NumbersUnique
  <1>16. \A b \in DOMAIN attempts : swept[b].status = "running" => attempts[b].run # r
    BY <1>9 DEF s, ScopeOfAttempt
  <1>17. RunningIsLatest'
    BY <1>2, <1>3, <1>5, <1>7, <1>71, <1>14, <1>16 DEF IInv, AttemptRow, RunningIsLatest
  <1>18. SuccessIsLast'
    BY <1>2, <1>3, <1>7, <1>14 DEF IInv, SuccessIsLast, Succeeded
  <1>19. NoActionIsEmpty'
    <2>1. DecisionsOf(a)' = {} /\ \A b \in DOMAIN attempts : DecisionsOf(b)' = DecisionsOf(b)
      BY <1>1 DEF Claim, DecisionsOf, IInv, TypeOK
    <2>2. QED
      BY <1>2, <1>3, <1>7, <2>1 DEF IInv, NoActionIsEmpty
  <1>20. QED
    BY <1>8, <1>10, <1>12, <1>13, <1>15, <1>17, <1>18, <1>19 DEF IInv

LEMMA NextInvariant == IInv /\ [Next]_vars => IInv'
  <1> SUFFICES ASSUME IInv, [Next]_vars PROVE IInv'
    OBVIOUS
  <1>2. CASE Tick
    <2>1. TypeOK'
      BY <1>2, ConstantsAssumption DEF Tick, manual, IInv, TypeOK
    <2>2. QED
      BY <1>2, <2>1, QuietStep DEF Tick
  <1>3. ASSUME NEW now \in Sampled, NEW r \in Run, SaveRun(r, now)
        PROVE  IInv'
    <2>1. TypeOK'
      BY <1>3 DEF SaveRun, manual, Sampled, IInv, TypeOK
    <2>2. QED
      BY <1>3, <2>1, QuietStep DEF SaveRun
  <1>4. ASSUME NEW now \in Sampled, NEW r \in Run, SubmitByHand(r, now)
        PROVE  IInv'
    <2>1. TypeOK'
      BY <1>4 DEF SubmitByHand, IInv, TypeOK
    <2>2. QED
      BY <1>4, <2>1, QuietStep DEF SubmitByHand
  <1>5. ASSUME NEW r \in Run, NEW result \in LegacyResult, ReadByHand(r, result)
        PROVE  IInv'
    <2>1. TypeOK'
      BY <1>5 DEF ReadByHand, IInv, TypeOK
    <2>2. QED
      BY <1>5, <2>1, QuietStep DEF ReadByHand
  <1>51. ASSUME NEW c \in completing, CompleteByHand(c)
         PROVE  IInv'
    <2>1. TypeOK'
      BY <1>51 DEF CompleteByHand, IInv, TypeOK
    <2>2. QED
      BY <1>51, <2>1, QuietStep DEF CompleteByHand
  <1>6. CASE UNCHANGED vars
    <2>1. TypeOK'
      BY <1>6 DEF vars, IInv, TypeOK
    <2>2. QED
      BY <1>6, <2>1, QuietStep DEF vars
  <1>7. QED
    BY <1>2, <1>3, <1>4, <1>5, <1>51, <1>6, ClaimStep, HeartbeatStep, SubmitStep,
       FinishStep, ReconcileStep DEF Next

-----------------------------------------------------------------------------
(* The invariant holds in every reachable state. *)
THEOREM Invariant == Spec => []IInv
  BY InitInvariant, NextInvariant, PTL DEF Spec

(* The tables keep their types, whatever the interleaving of callers. *)
THEOREM TypeCorrect == Spec => []TypeOK
  <1>1. IInv => TypeOK
    BY DEF IInv
  <1>2. QED
    BY <1>1, Invariant, PTL

(* Leases and attempts agree on who runs and with which fence, and no two  *)
(* attempts of an account ever had the same one.                           *)
THEOREM Agreement == Spec => []TablesAgree
  <1>1. IInv => TablesAgree
    BY DEF IInv, TablesAgree
  <1>2. QED
    BY <1>1, Invariant, PTL

(* Mutual exclusion: an account never has two attempts at work, although a *)
(* worker whose lease ran out is not told.                                 *)
THEOREM MutualExclusion == Spec => []OneRunningPerScope
  <1>1. IInv => OneRunningPerScope
    BY DEF IInv, LeaseMatchesAttempt, OneRunningPerScope
  <1>2. QED
    BY <1>1, Invariant, PTL

(* Fencing: a decision of a superseded attempt is never saved after one of *)
(* its successor.                                                          *)
THEOREM Fencing == Spec => []WritesFollowFences
  <1>1. IInv => WritesFollowFences
    BY DEF IInv
  <1>2. QED
    BY <1>1, Invariant, PTL

(* A run succeeds at most once and is never worked on afterwards. *)
THEOREM AtMostOneSuccess == Spec => []SuccessIsLast
  <1>1. IInv => SuccessIsLast
    BY DEF IInv
  <1>2. QED
    BY <1>1, Invariant, PTL

(* What was reported as no_action has no decisions, however late a worker  *)
(* that still holds the attempt id writes.                                 *)
THEOREM NoActionHolds == Spec => []NoActionIsEmpty
  <1>1. IInv => NoActionIsEmpty
    BY DEF IInv
  <1>2. QED
    BY <1>1, Invariant, PTL

-----------------------------------------------------------------------------
(* No step touches the row of a finished attempt or adds a decision to it. *)
LEMMA NextKeepsHistory == IInv /\ [Next]_vars => HistoryKept
  <1> SUFFICES ASSUME IInv, [Next]_vars,
                      NEW a \in DOMAIN attempts, attempts[a].status # "running"
               PROVE  /\ attempts'[a] = attempts[a]
                      /\ \A i \in DOMAIN decisions' :
                           decisions'[i] = a => i \in DOMAIN decisions
    BY DEF HistoryKept
  <1>1. \A now \in Sampled : now \in Nat /\ SweptAttempts(now)[a] = attempts[a]
    BY SweepRows DEF Sampled
  <1>2. CASE UNCHANGED <<attempts, decisions>>
    BY <1>2
  <1>3. ASSUME NEW now \in Sampled, Reconcile(now)
        PROVE  attempts'[a] = attempts[a] /\ decisions' = decisions
    BY <1>1, <1>3 DEF Reconcile
  <1>4. ASSUME NEW now \in Sampled, NEW b \in Attempt, NEW r \in Run,
               NEW ttl \in LeaseSeconds, Claim(b, r, now, ttl)
        PROVE  attempts'[a] = attempts[a] /\ decisions' = decisions
    BY <1>1, <1>4 DEF Claim
  <1>5. ASSUME NEW now \in Sampled, NEW b \in DOMAIN attempts, ValidFence(b, now)
        PROVE  b # a
    BY <1>1, <1>5, FenceMeansHolder
  <1>6. ASSUME NEW now \in Sampled, NEW b \in DOMAIN attempts,
               \/ \E ttl \in LeaseSeconds : Heartbeat(b, now, ttl)
               \/ \E status \in Terminal : Finish(b, now, status)
        PROVE  attempts'[a] = attempts[a] /\ decisions' = decisions
    BY <1>5, <1>6 DEF Heartbeat, Finish
  <1>7. ASSUME NEW now \in Sampled, NEW b \in DOMAIN attempts, Submit(b, now)
        PROVE  /\ attempts'[a] = attempts[a]
               /\ \A i \in DOMAIN decisions' :
                    decisions'[i] = a => i \in DOMAIN decisions
    <2>1. decisions \in Seq(DOMAIN attempts) /\ b # a
      BY <1>5, <1>7 DEF Submit, IInv, TypeOK
    <2>2. QED
      BY <1>7, <2>1 DEF Submit
  <1>8. QED
    BY <1>2, <1>3, <1>4, <1>6, <1>7
    DEF Next, vars, Tick, SaveRun, SubmitByHand, ReadByHand, CompleteByHand

(* A finished attempt is history, for every later caller. *)
THEOREM FinishedIsFinal == Spec => FinishedStaysFinished
  <1>1. IInv /\ [Next]_vars => [HistoryKept]_vars
    BY NextKeepsHistory
  <1>2. QED
    BY <1>1, Invariant, PTL DEF Spec, FinishedStaysFinished

-----------------------------------------------------------------------------
(* The outcome of a run: an outcome that tells of decisions was written by *)
(* hand, or by an attempt that succeeded and after which none follows.     *)
Told(r) == legacy[r] \in {"NO_ACTION", "DECISIONS_AUTHORED"}

Succeeds(r) == \E a \in AttemptsOf(r) : attempts[a].status \in Succeeded

Excused(r) == AttemptsOf(r) # {} \/ r \in overtaken

Agrees(r) ==
  /\ legacy[r] = "DECISIONS_AUTHORED" => HasLinks(r)
  /\ legacy[r] = "NO_ACTION" /\ HasLinks(r) => r \in byHand /\ Excused(r)

(* What a command has read and is about to write. *)
ReadAgrees(c) ==
  /\ c.result = "DECISIONS_AUTHORED" => HasLinks(c.run)
  /\ c.result = "NO_ACTION" /\ HasLinks(c.run) => Excused(c.run)

RunsAgree == \A r \in Live : (Told(r) => r \in byHand \/ Succeeds(r)) /\ Agrees(r)

ReadsAgree == \A c \in completing : ReadAgrees(c)

OutcomeInv == RunsAgree /\ ReadsAgree

(* No attempt is at work on a run of which one succeeded.                  *)
LEMMA NoneAfterSuccess ==
  ASSUME IInv, NEW a \in DOMAIN attempts, attempts[a].status = "running"
  PROVE  \A b \in AttemptsOf(attempts[a].run) : attempts[b].status \notin Succeeded
  <1>1. SUFFICES ASSUME NEW b \in AttemptsOf(attempts[a].run), attempts[b].status \in Succeeded
                 PROVE  FALSE
    OBVIOUS
  <1>2. b \in DOMAIN attempts /\ attempts[b].run = attempts[a].run
    BY <1>1 DEF AttemptsOf
  <1>3. attempts[a].number \in Nat /\ attempts[b].number \in Nat
    BY <1>2 DEF IInv, TypeOK, AttemptRow
  <1>4. attempts[a].number = attempts[b].number
    BY <1>1, <1>2, <1>3 DEF IInv, RunningIsLatest, SuccessIsLast
  <1>5. a = b
    BY <1>2, <1>4 DEF IInv, NumbersUnique
  <1>6. QED
    BY <1>1, <1>5 DEF Succeeded

(* Links are kept by a step that saves no decision and no attempt's run.   *)
LEMMA LinksKept ==
  ASSUME IInv, decisions' = decisions, linked' = linked,
         \A a \in DOMAIN attempts : a \in DOMAIN attempts' /\ attempts'[a].run = attempts[a].run
  PROVE  \A r : HasLinks(r)' = HasLinks(r)
  <1>1. \A i \in DOMAIN decisions : decisions[i] \in DOMAIN attempts
    BY DEF IInv, TypeOK
  <1>2. QED
    BY <1>1 DEF HasLinks

(* A step of the tables alone leaves outcomes as they are: rows keep their *)
(* runs and their success.                                                 *)
LEMMA TableStepKeepsOutcomes ==
  ASSUME IInv, OutcomeInv, UNCHANGED <<decisions, legacy, manual>>,
         \A a \in DOMAIN attempts :
           /\ a \in DOMAIN attempts'
           /\ attempts'[a].run = attempts[a].run
           /\ attempts[a].status \in Succeeded => attempts'[a].status \in Succeeded
  PROVE  OutcomeInv'
  <1>1. UNCHANGED <<completing, byHand, overtaken, linked>>
    BY DEF manual
  <1>2. \A r : HasLinks(r)' = HasLinks(r)
    BY <1>1, LinksKept
  <1>3. \A r : /\ Excused(r) => Excused(r)'
               /\ Succeeds(r) => Succeeds(r)'
    BY <1>1 DEF AttemptsOf, Excused, Succeeds
  <1>4. RunsAgree'
    BY <1>1, <1>2, <1>3 DEF OutcomeInv, RunsAgree, Told, Agrees
  <1>5. ReadsAgree'
    BY <1>1, <1>2, <1>3 DEF OutcomeInv, ReadsAgree, ReadAgrees
  <1>6. QED
    BY <1>4, <1>5 DEF OutcomeInv

LEMMA SubmitKeepsOutcomes ==
  ASSUME IInv, OutcomeInv, NEW a \in DOMAIN attempts, NEW now \in Sampled, Submit(a, now)
  PROVE  OutcomeInv'
  <1> DEFINE mine == attempts[a].run
  <1>1. /\ decisions' = Append(decisions, a)
        /\ UNCHANGED <<attempts, legacy, completing, byHand, overtaken, linked>>
    BY DEF Submit, manual
  <1>2. attempts[a].status = "running"
    BY DEF Submit, ValidFence
  <1>3. decisions \in Seq(DOMAIN attempts)
    BY DEF IInv, TypeOK
  <1>4. /\ DOMAIN decisions' = DOMAIN decisions \cup {Len(decisions) + 1}
        /\ \A i \in DOMAIN decisions' :
             decisions'[i] = IF i \in DOMAIN decisions THEN decisions[i] ELSE a
    BY <1>1, <1>3
  <1>5. \A r : /\ HasLinks(r) => HasLinks(r)'
               /\ r # mine => HasLinks(r)' = HasLinks(r)
    BY <1>1, <1>4 DEF HasLinks
  <1>6. \A r : /\ Excused(r) => Excused(r)'
               /\ Succeeds(r)' = Succeeds(r)
    BY <1>1 DEF AttemptsOf, Excused, Succeeds
  <1>7. Excused(mine)' /\ ~Succeeds(mine)
    BY <1>1, <1>2, NoneAfterSuccess DEF AttemptsOf, Excused, Succeeds
  <1>8. ASSUME NEW r \in Live
        PROVE  (Told(r) => r \in byHand \/ Succeeds(r))' /\ Agrees(r)'
    <2>1. Told(r) => r \in byHand \/ Succeeds(r)
      BY DEF OutcomeInv, RunsAgree
    <2>2. CASE r = mine
      BY <1>1, <1>5, <1>6, <1>7, <2>1, <2>2 DEF OutcomeInv, RunsAgree, Agrees, Told
    <2>3. CASE r # mine
      BY <1>1, <1>5, <1>6, <2>1, <2>3 DEF OutcomeInv, RunsAgree, Agrees, Told
    <2>4. QED
      BY <2>2, <2>3
  <1>9. ASSUME NEW c \in completing
        PROVE  ReadAgrees(c)'
    <2>1. CASE c.run = mine
      BY <1>1, <1>5, <1>7, <2>1 DEF OutcomeInv, ReadsAgree, ReadAgrees
    <2>2. CASE c.run # mine
      BY <1>5, <1>6, <2>2 DEF OutcomeInv, ReadsAgree, ReadAgrees
    <2>3. QED
      BY <2>1, <2>2
  <1>10. QED
    BY <1>1, <1>8, <1>9 DEF OutcomeInv, RunsAgree, ReadsAgree

LEMMA FinishKeepsOutcomes ==
  ASSUME IInv, OutcomeInv, NEW a \in DOMAIN attempts, NEW now \in Sampled,
         NEW status \in Terminal, Finish(a, now, status)
  PROVE  OutcomeInv'
  <1> DEFINE mine == attempts[a].run
  <1>1. /\ legacy' = [q \in Live |-> IF q = mine /\ legacy[q] = "PREPARED"
                                     THEN Outcome(mine, status) ELSE legacy[q]]
        /\ attempts' = [attempts EXCEPT ![a].status = status]
        /\ UNCHANGED <<completing, byHand, overtaken, decisions, linked>>
    BY DEF Finish, manual
  <1>2. attempts[a].status = "running"
    BY DEF Finish, ValidFence
  <1>3. attempts[a] \in AttemptRow
    BY DEF IInv, TypeOK
  <1>4. /\ DOMAIN attempts' = DOMAIN attempts
        /\ attempts'[a].run = mine /\ attempts'[a].status = status
        /\ \A b \in DOMAIN attempts : b # a => attempts'[b] = attempts[b]
    BY <1>1, <1>3 DEF AttemptRow
  <1>5. \A b \in DOMAIN attempts :
          /\ attempts'[b].run = attempts[b].run
          /\ attempts[b].status \in Succeeded => attempts'[b].status \in Succeeded
    BY <1>2, <1>4 DEF Succeeded
  <1>6. \A r : HasLinks(r)' = HasLinks(r)
    BY <1>1, <1>4, <1>5, LinksKept
  <1>7. \A r : /\ Excused(r) => Excused(r)'
               /\ Succeeds(r) => Succeeds(r)'
    BY <1>1, <1>4, <1>5 DEF AttemptsOf, Excused, Succeeds
  <1>8. status \in Succeeded => Succeeds(mine)'
    BY <1>4 DEF AttemptsOf, Succeeds
  <1>9. ASSUME NEW r \in Live
        PROVE  (Told(r) => r \in byHand \/ Succeeds(r))' /\ Agrees(r)'
    <2>1. CASE legacy'[r] = legacy[r]
      BY <1>1, <1>6, <1>7, <2>1 DEF OutcomeInv, RunsAgree, Told, Agrees
    <2>2. CASE r = mine /\ legacy'[r] = Outcome(mine, status) /\ status \in Succeeded
      BY <1>4, <1>6, <1>8, <2>2 DEF Agrees, Outcome
    <2>3. CASE r = mine /\ legacy'[r] = Outcome(mine, status) /\ status \notin Succeeded
      BY <2>3 DEF Told, Agrees, Outcome
    <2>4. QED
      BY <1>1, <2>1, <2>2, <2>3
  <1>10. ReadsAgree'
    BY <1>1, <1>6, <1>7 DEF OutcomeInv, ReadsAgree, ReadAgrees
  <1>11. QED
    BY <1>9, <1>10 DEF OutcomeInv, RunsAgree

(* A submission by hand is of a PREPARED run; it overtakes the commands    *)
(* that read no links of that run.                                         *)
LEMMA SubmitByHandKeepsOutcomes ==
  ASSUME IInv, OutcomeInv, NEW r \in Run, NEW now \in Sampled, SubmitByHand(r, now)
  PROVE  OutcomeInv'
  <1>1. /\ r \in Live /\ legacy[r] = "PREPARED" /\ linked' = linked \cup {r}
        /\ UNCHANGED <<attempts, decisions, legacy, completing, byHand>>
        /\ \A q \in overtaken : q \in overtaken'
        /\ \A c \in completing : c.run = r /\ c.result = "NO_ACTION" => r \in overtaken'
    BY DEF SubmitByHand
  <1>2. \A q : /\ HasLinks(q) => HasLinks(q)'
               /\ q # r => HasLinks(q)' = HasLinks(q)
    BY <1>1 DEF HasLinks
  <1>3. \A q : /\ Excused(q) => Excused(q)'
               /\ Succeeds(q)' = Succeeds(q)
    BY <1>1 DEF AttemptsOf, Excused, Succeeds
  <1>4. ASSUME NEW q \in Live
        PROVE  (Told(q) => q \in byHand \/ Succeeds(q))' /\ Agrees(q)'
    <2>1. CASE q = r
      BY <1>1, <2>1 DEF Told, Agrees
    <2>2. CASE q # r
      BY <1>1, <1>2, <1>3, <2>2 DEF OutcomeInv, RunsAgree, Told, Agrees
    <2>3. QED
      BY <2>1, <2>2
  <1>5. ASSUME NEW c \in completing
        PROVE  ReadAgrees(c)'
    <2>1. CASE c.run = r
      BY <1>1, <1>2, <2>1 DEF OutcomeInv, ReadsAgree, ReadAgrees, Excused
    <2>2. CASE c.run # r
      BY <1>2, <1>3, <2>2 DEF OutcomeInv, ReadsAgree, ReadAgrees
    <2>3. QED
      BY <2>1, <2>2
  <1>6. QED
    BY <1>1, <1>4, <1>5 DEF OutcomeInv, RunsAgree, ReadsAgree

(* A `complete-live` command reads what agrees and writes what it read.    *)
LEMMA CompletingKeepsOutcomes ==
  ASSUME IInv, OutcomeInv,
         \/ \E r \in Run, result \in LegacyResult : ReadByHand(r, result)
         \/ \E c \in completing : CompleteByHand(c)
  PROVE  OutcomeInv'
  <1>1. UNCHANGED <<attempts, decisions, overtaken, linked>>
    BY DEF ReadByHand, CompleteByHand
  <1>2. \A q : /\ HasLinks(q)' = HasLinks(q)
               /\ Excused(q)' = Excused(q)
               /\ Succeeds(q)' = Succeeds(q)
    BY <1>1 DEF HasLinks, AttemptsOf, Excused, Succeeds
  <1>3. ASSUME NEW r \in Run, NEW result \in LegacyResult, ReadByHand(r, result)
        PROVE  OutcomeInv'
    <2>1. RunsAgree'
      BY <1>2, <1>3 DEF ReadByHand, OutcomeInv, RunsAgree, Told, Agrees
    <2>2. ReadsAgree'
      BY <1>2, <1>3 DEF ReadByHand, OutcomeInv, ReadsAgree, ReadAgrees
    <2>3. QED
      BY <2>1, <2>2 DEF OutcomeInv
  <1>4. ASSUME NEW c \in completing, CompleteByHand(c)
        PROVE  OutcomeInv'
    <2>1. ReadsAgree'
      BY <1>2, <1>4 DEF CompleteByHand, OutcomeInv, ReadsAgree, ReadAgrees
    <2>2. ASSUME NEW q \in Live
          PROVE  (Told(q) => q \in byHand \/ Succeeds(q))' /\ Agrees(q)'
      <3>1. legacy \in [Live -> LegacyResult] /\ c.run \in Live /\ ReadAgrees(c)
        BY <1>4 DEF IInv, TypeOK, OutcomeInv, ReadsAgree
      <3>2. CASE q = c.run /\ legacy[q] = "PREPARED"
        BY <1>2, <1>4, <3>1, <3>2 DEF CompleteByHand, ReadAgrees, Agrees
      <3>3. CASE legacy'[q] = legacy[q] /\ byHand \subseteq byHand'
        BY <1>2, <3>3 DEF OutcomeInv, RunsAgree, Told, Agrees
      <3>4. QED
        BY <1>4, <3>1, <3>2, <3>3 DEF CompleteByHand
    <2>3. QED
      BY <2>1, <2>2 DEF OutcomeInv, RunsAgree
  <1>5. QED
    BY <1>3, <1>4

LEMMA NextKeepsOutcomes == IInv /\ OutcomeInv /\ [Next]_vars => OutcomeInv'
  <1> SUFFICES ASSUME IInv, OutcomeInv, [Next]_vars PROVE OutcomeInv'
    OBVIOUS
  <1>1. CASE UNCHANGED <<attempts, legacy, decisions, manual>>
    BY <1>1, TableStepKeepsOutcomes
  <1>2. ASSUME NEW now \in Sampled, Reconcile(now)
        PROVE  OutcomeInv'
    <2>1. now \in Nat /\ attempts' = SweptAttempts(now)
      BY <1>2 DEF Sampled, Reconcile
    <2>2. \A a \in DOMAIN attempts :
            /\ a \in DOMAIN attempts'
            /\ attempts'[a].run = attempts[a].run
            /\ attempts[a].status \in Succeeded => attempts'[a].status \in Succeeded
      BY <2>1, SweepRows DEF Succeeded
    <2>3. QED
      BY <1>2, <2>2, TableStepKeepsOutcomes DEF Reconcile
  <1>3. ASSUME NEW now \in Sampled, NEW a \in Attempt, NEW r \in Run, NEW ttl \in LeaseSeconds,
               Claim(a, r, now, ttl)
        PROVE  OutcomeInv'
    <2>1. now \in Nat /\ a \notin DOMAIN attempts
      BY <1>3 DEF Sampled, Claim
    <2>2. \A b \in DOMAIN attempts : b \in DOMAIN attempts' /\ attempts'[b] = SweptAttempts(now)[b]
      BY <1>3, <2>1 DEF Claim
    <2>3. \A b \in DOMAIN attempts :
            /\ b \in DOMAIN attempts'
            /\ attempts'[b].run = attempts[b].run
            /\ attempts[b].status \in Succeeded => attempts'[b].status \in Succeeded
      BY <2>1, <2>2, SweepRows DEF Succeeded
    <2>4. QED
      BY <1>3, <2>3, TableStepKeepsOutcomes DEF Claim
  <1>4. ASSUME NEW now \in Sampled, NEW a \in DOMAIN attempts, NEW ttl \in LeaseSeconds,
               Heartbeat(a, now, ttl)
        PROVE  OutcomeInv'
    <2>1. attempts' = [attempts EXCEPT ![a].heartbeat = now] /\ attempts[a] \in AttemptRow
      BY <1>4 DEF Heartbeat, IInv, TypeOK
    <2>2. \A b \in DOMAIN attempts :
            /\ b \in DOMAIN attempts'
            /\ attempts'[b].run = attempts[b].run
            /\ attempts[b].status \in Succeeded => attempts'[b].status \in Succeeded
      BY <2>1 DEF AttemptRow
    <2>3. QED
      BY <1>4, <2>2, TableStepKeepsOutcomes DEF Heartbeat
  <1>5. QED
    BY <1>1, <1>2, <1>3, <1>4, SubmitKeepsOutcomes, FinishKeepsOutcomes,
       SubmitByHandKeepsOutcomes, CompletingKeepsOutcomes
    DEF Next, vars, manual, Tick, SaveRun

(* What the outcome of a run says of its decisions stays true, for every   *)
(* interleaving of attempts, submissions by hand and late writes, of any   *)
(* number of them.                                                         *)
THEOREM OutcomesHold == Spec => []OutcomeMatchesLinks
  <1>1. Init => OutcomeInv
    BY DEF Init, OutcomeInv, RunsAgree, ReadsAgree, Told, Agrees
  <1>2. IInv /\ OutcomeInv => OutcomeMatchesLinks
    BY DEF IInv, OutcomeInv, RunsAgree, OutcomeMatchesLinks, Agrees, Excused
  <1>3. QED
    BY <1>1, <1>2, Invariant, NextKeepsOutcomes, PTL DEF Spec

-----------------------------------------------------------------------------
(* Refinement: each operation is an evict, acquire, write or stutter of    *)
(* the abstract fenced writer.                                             *)

(* The logged tokens do not change when attempts keep their run and fence. *)
LEMMA LogKept ==
  ASSUME IInv, decisions' = decisions,
         \A a \in DOMAIN attempts :
           attempts'[a].run = attempts[a].run /\ attempts'[a].fence = attempts[a].fence
  PROVE  [i \in DOMAIN decisions |->
            [scope |-> ScopeOfAttempt(decisions[i]), token |-> attempts[decisions[i]].fence]]'
         = [i \in DOMAIN decisions |->
            [scope |-> ScopeOfAttempt(decisions[i]), token |-> attempts[decisions[i]].fence]]
  <1>1. \A i \in DOMAIN decisions : decisions[i] \in DOMAIN attempts
    BY DEF IInv, TypeOK
  <1>2. QED
    BY <1>1 DEF ScopeOfAttempt

LEMMA InitRefines == Init => Fenced!Init
  BY DEF Init, Fenced!Init

LEMMA NextRefines == IInv /\ [Next]_vars => [Fenced!Next]_(Fenced!vars)
  <1> SUFFICES ASSUME IInv, [Next]_vars PROVE [Fenced!Next]_(Fenced!vars)
    OBVIOUS
  <1>1. CASE UNCHANGED <<attempts, lease, decisions>>
    <2>1. QED
      BY <1>1, LogKept DEF Fenced!vars
  <1>2. ASSUME NEW now \in Sampled, Reconcile(now)
        PROVE  Fenced!Release(Elapsed(now))
    <2>1. now \in Nat
      BY DEF Sampled
    <2>2. /\ DOMAIN attempts' = DOMAIN attempts /\ decisions' = decisions
          /\ \A a \in DOMAIN attempts :
               attempts'[a].run = attempts[a].run /\ attempts'[a].fence = attempts[a].fence
      BY <1>2, <2>1, SweepRows DEF Reconcile
    <2>3. \A s \in Scope :
            /\ lease'[s].fence = lease[s].fence
            /\ s \in Elapsed(now) => lease'[s].attempt = NoAttempt
            /\ s \notin Elapsed(now) => lease'[s].attempt = lease[s].attempt
      BY <1>2, <2>1, SweepLeaseRows DEF Reconcile
    <2>4. QED
      BY <2>2, <2>3, LogKept DEF Fenced!Release, Fenced!Freed
  <1>3. ASSUME NEW now \in Sampled, NEW a \in Attempt, NEW r \in Run,
               NEW ttl \in LeaseSeconds, Claim(a, r, now, ttl)
        PROVE  Fenced!Acquire(Elapsed(now), ScopeOf[r], a)
    <2>1. now \in Nat /\ ScopeOf[r] \in Scope
      BY ConstantsAssumption DEF Sampled
    <2>2. /\ DOMAIN attempts' = DOMAIN attempts \cup {a} /\ decisions' = decisions
          /\ a \notin DOMAIN attempts
          /\ \A b \in DOMAIN attempts :
               attempts'[b].run = attempts[b].run /\ attempts'[b].fence = attempts[b].fence
      BY <1>3, <2>1, SweepRows DEF Claim
    <2>3. \A s \in Scope :
            /\ s \in Elapsed(now) => SweptLeases(now)[s].attempt = NoAttempt
            /\ s \notin Elapsed(now) => SweptLeases(now)[s].attempt = lease[s].attempt
      BY <2>1, SweepLeaseRows
    <2>4. /\ SweptLeases(now)[ScopeOf[r]].attempt = NoAttempt
          /\ lease'[ScopeOf[r]].attempt = a
          /\ lease'[ScopeOf[r]].fence = lease[ScopeOf[r]].fence + 1
          /\ \A s \in Scope \ {ScopeOf[r]} : lease'[s] = SweptLeases(now)[s]
      BY <1>3, <2>1, SweepLeaseRows DEF Claim
    <2>5. \A s \in Scope \ {ScopeOf[r]} : lease'[s].fence = lease[s].fence
      BY <2>1, <2>4, SweepLeaseRows
    <2>6. UNCHANGED [i \in DOMAIN decisions |->
            [scope |-> ScopeOfAttempt(decisions[i]), token |-> attempts[decisions[i]].fence]]
      BY <2>2, LogKept
    <2>7. QED
      BY <2>1, <2>2, <2>3, <2>4, <2>5, <2>6 DEF Fenced!Acquire, Fenced!Freed
  <1>4. ASSUME NEW now \in Sampled, NEW a \in DOMAIN attempts, NEW ttl \in LeaseSeconds,
               Heartbeat(a, now, ttl)
        PROVE  UNCHANGED Fenced!vars
    <2>1. /\ DOMAIN attempts' = DOMAIN attempts /\ decisions' = decisions
          /\ \A b \in DOMAIN attempts :
               attempts'[b].run = attempts[b].run /\ attempts'[b].fence = attempts[b].fence
      BY <1>4 DEF Heartbeat, IInv, TypeOK, AttemptRow
    <2>2. \A s \in Scope :
            lease'[s].fence = lease[s].fence /\ lease'[s].attempt = lease[s].attempt
      BY <1>4 DEF Heartbeat, Extended, IInv, TypeOK, LeaseRow
    <2>3. QED
      BY <2>1, <2>2, LogKept DEF Fenced!vars
  <1>5. ASSUME NEW now \in Sampled, NEW a \in DOMAIN attempts, NEW status \in Terminal,
               Finish(a, now, status)
        PROVE  Fenced!Release({ScopeOfAttempt(a)})
    <2>1. /\ DOMAIN attempts' = DOMAIN attempts /\ decisions' = decisions
          /\ \A b \in DOMAIN attempts :
               attempts'[b].run = attempts[b].run /\ attempts'[b].fence = attempts[b].fence
      BY <1>5 DEF Finish, IInv, TypeOK, AttemptRow
    <2>2. now \in Nat /\ ValidFence(a, now)
      BY <1>5 DEF Finish, Sampled
    <2>3. \A s \in Scope : lease[s].attempt = a <=> s = ScopeOfAttempt(a)
      BY <2>2, FenceMeansHolder
    <2>4. \A s \in Scope :
            /\ lease'[s].fence = lease[s].fence
            /\ s = ScopeOfAttempt(a) => lease'[s].attempt = NoAttempt
            /\ s # ScopeOfAttempt(a) => lease'[s].attempt = lease[s].attempt
      BY <1>5, <2>3 DEF Finish, Released, IInv, TypeOK, LeaseRow
    <2>5. QED
      BY <2>1, <2>4, LogKept DEF Fenced!Release, Fenced!Freed
  <1>6. ASSUME NEW now \in Sampled, NEW a \in DOMAIN attempts, Submit(a, now)
        PROVE  Fenced!Accept(ScopeOfAttempt(a))
    <2>1. now \in Nat /\ ValidFence(a, now)
      BY <1>6 DEF Submit, Sampled
    <2>2. /\ ScopeOfAttempt(a) \in Scope
          /\ lease[ScopeOfAttempt(a)].attempt = a /\ a # NoAttempt
          /\ lease[ScopeOfAttempt(a)].fence = attempts[a].fence
      BY <2>1, FenceMeansHolder, ConstantsAssumption DEF IInv, TypeOK
    <2>3. decisions \in Seq(DOMAIN attempts) /\ UNCHANGED <<attempts, lease>>
          /\ decisions' = Append(decisions, a)
      BY <1>6 DEF Submit, IInv, TypeOK
    <2> DEFINE entry(b) == [scope |-> ScopeOfAttempt(b), token |-> attempts[b].fence]
               logged == [i \in DOMAIN decisions |-> entry(decisions[i])]
    <2>4. logged' = Append(logged, entry(a))
      <3>1. logged' = [i \in DOMAIN decisions' |-> entry(decisions'[i])]
        BY <2>3 DEF ScopeOfAttempt
      <3>2. DOMAIN decisions = 1..Len(decisions) /\ Len(decisions) \in Nat
        BY <2>3
      <3>3. /\ DOMAIN decisions' = 1..(Len(decisions) + 1)
            /\ \A i \in 1..Len(decisions) : decisions'[i] = decisions[i]
            /\ decisions'[Len(decisions) + 1] = a
        BY <2>3, <3>2
      <3> HIDE DEF entry
      <3>4. logged \in Seq({entry(b) : b \in DOMAIN attempts}) /\ Len(logged) = Len(decisions)
        BY <2>3, <3>2
      <3>5. QED
        BY <3>1, <3>2, <3>3, <3>4
    <2>5. QED
      BY <2>2, <2>3, <2>4 DEF Fenced!Accept
  <1>7. ASSUME NEW now \in Sampled, NEW a \in DOMAIN attempts
        PROVE  a \in Attempt /\ ScopeOfAttempt(a) \in Scope /\ Elapsed(now) \in SUBSET Scope
    BY ConstantsAssumption DEF IInv, TypeOK, AttemptRow, ScopeOfAttempt, Elapsed
  <1>8. CASE \E now \in Sampled : Reconcile(now)
    <2>1. PICK now \in Sampled : Reconcile(now)
      BY <1>8
    <2>2. PICK R \in SUBSET Scope : R = Elapsed(now)
      BY DEF Elapsed
    <2>3. Fenced!Release(R)
      BY <1>2, <2>1, <2>2 DEF Fenced!Release, Fenced!Freed
    <2>4. QED
      BY <2>3 DEF Fenced!Next
  <1>9. CASE \E now \in Sampled, r \in Run, a \in Attempt, ttl \in LeaseSeconds :
               Claim(a, r, now, ttl)
    <2>1. \A r \in Run : ScopeOf[r] \in Scope
      BY ConstantsAssumption
    <2>2. \A now \in Sampled : Elapsed(now) \in SUBSET Scope
      BY DEF Elapsed
    <2>3. QED
      BY <1>3, <1>9, <2>1, <2>2 DEF Fenced!Next
  <1>10. CASE \E now \in Sampled, a \in DOMAIN attempts, ttl \in LeaseSeconds :
                Heartbeat(a, now, ttl)
    BY <1>4, <1>10
  <1>11. CASE \E now \in Sampled, a \in DOMAIN attempts, status \in Terminal :
                Finish(a, now, status)
    <2>1. PICK now \in Sampled, a \in DOMAIN attempts :
            \E status \in Terminal : Finish(a, now, status)
      BY <1>11
    <2>2. PICK R \in SUBSET Scope : R = {ScopeOfAttempt(a)}
      BY <1>7, <2>1
    <2>3. Fenced!Release(R)
      BY <1>5, <2>1, <2>2 DEF Fenced!Release, Fenced!Freed
    <2>4. QED
      BY <2>3 DEF Fenced!Next
  <1>12. CASE \E now \in Sampled, a \in DOMAIN attempts : Submit(a, now)
    <2>1. PICK now \in Sampled, a \in DOMAIN attempts : Submit(a, now)
      BY <1>12
    <2>2. PICK s \in Scope : s = ScopeOfAttempt(a)
      BY <1>7, <2>1
    <2>3. Fenced!Accept(s)
      BY <1>6, <2>1, <2>2 DEF Fenced!Accept
    <2>4. QED
      BY <2>3 DEF Fenced!Next
  <1>13. QED
    BY <1>1, <1>8, <1>9, <1>10, <1>11, <1>12
    DEF Next, vars, Tick, SaveRun, SubmitByHand, ReadByHand, CompleteByHand

(* The lease tables implement the fenced writer: clocks, heartbeats, crashes *)
(* and retries add no behaviour the abstract specification lacks.            *)
THEOREM Refinement == Spec => FencedSpec
  BY InitRefines, NextRefines, Invariant, PTL DEF Spec, FencedSpec, Fenced!Spec
=============================================================================
