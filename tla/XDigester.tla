------------------------------ MODULE XDigester ------------------------------
(***************************************************************************)
(* The digester of X posts (app/x/): a session per slot of the day fetches *)
(* the posts of the roster within a monthly budget of reads, exports those *)
(* that no run has judged, routes the judgments of its model and renders   *)
(* the digest of the day, which the reviews of that day wait for.  A fetch *)
(* may fail at any account, and a session may die at any step.             *)
(***************************************************************************)
EXTENDS Integers, FiniteSets, Sequences

CONSTANTS
  Account,      \* handles
  Day,          \* the days looked at, counted from a Monday
  Holidays,     \* those on which the exchange is closed
  HalfDays,     \* those on which it closes early
  Window,       \* _RECOVERY_WINDOW, in days
  Floor,        \* _BUDGET_FLOOR
  MaxReads,     \* MAX_MONTHLY_POST_READS
  PageSize,     \* posts of one answer of X
  MaxPosts,     \* bound: posts of one account
  Scene,        \* bound: what happens in the weeks that are looked at
  Nil

(* A post may reply to one post and quote another, and X bills both.       *)
MostReferenced == 2

References == 0..(MostReferenced * PageSize)

(* A fetch starts above the floor and reads one page of posts, each with   *)
(* the posts it refers to.                                                 *)
MostReads == MaxReads - Floor - 1 + (1 + MostReferenced) * PageSize

Scenes ==
  [slots : SUBSET (Day \X (1..5)), cycles : Nat, reads : 0..MostReads,
   posts : [Account -> Seq([day : Nat, from : Nat, link : BOOLEAN])],
   routes : SUBSET {"digest", "skip"}, rosters : SUBSET SUBSET Account,
   labels : SUBSET (Account \X (1..MaxPosts)), rehydrate : BOOLEAN,
   usage : SUBSET Nat]

(* The ids of posts grow with the time at which X has them.                *)
ASSUME ConstantsAssumption ==
  /\ {Window, Floor, MaxReads, MaxPosts} \subseteq Nat
  /\ PageSize \in Nat \ {0}
  /\ Day \subseteq Nat /\ Holidays \cup HalfDays \subseteq Day
  /\ Scene \subseteq Scenes
  /\ \A s \in Scene, a \in Account :
       /\ Len(s.posts[a]) <= MaxPosts
       /\ \A i, j \in DOMAIN s.posts[a] : i < j => s.posts[a][i].from <= s.posts[a][j].from

(* A scene gives the slots at which the machine is on, how often a cycle   *)
(* is started, the posts of each account with their day and the cycle from *)
(* which on X has them, the reads of the month so far, the judgments of    *)
(* the model, and what people do: rosters, reviews, reads of older posts,  *)
(* and the counts of X that they may set the reads to.                     *)

(* run_slots() *)
Slot == <<"morning", "midday", "afternoon", "close", "weekly">>

IsSession(d) == d % 7 < 5 /\ d \notin Holidays

RunSlots(d) ==
  IF d % 7 = 6 THEN {5}
  ELSE IF ~IsSession(d) THEN {}
  ELSE IF d \in HalfDays THEN {1, 4} ELSE 1..4

Runs == {r \in Day \X (1..5) : r[2] \in RunSlots(r[1])}

Weekly(r) == Slot[r[2]] = "weekly"

Before(q, r) == q[1] < r[1] \/ (q[1] = r[1] /\ q[2] < r[2])

(* The day of the latest of some runs.                                     *)
TodayOf(runs) == IF runs = {} THEN 0 ELSE (CHOOSE r \in runs : \A q \in runs : q = r \/ Before(q, r))[1]

Post == Account \X (1..MaxPosts)

Never == 0

(* Where a fetch of an account starts: after a post, from a day on, and    *)
(* below the last one it got.                                              *)
Place == [since : 0..MaxPosts, start : Int, token : 0..MaxPosts]

Status == {"none", "started", "failed", "exported", "routed", "digested"}
Stage == {"fetch", "export", "judge", "render", "mark", "verify"}

Session == [run : Runs, stage : Stage, left : SUBSET Account]

Routed == [run : Runs, route : {"article_queue", "digest", "skip"}]

ASSUME NilAssumption == Nil \notin Place /\ Nil \notin Runs /\ Nil \notin Session /\ Nil \notin Routed

VARIABLES
  scene,
  clock,       \* cycles that were started
  roster,      \* the active accounts
  stored,      \* by post, when it was fetched
  checkpoint,  \* x_fetch_checkpoints
  reads,       \* of this month
  labelled,    \* posts a person has reviewed
  run,         \* x_runs
  finished,    \* the runs with a finished_at, by it
  route,       \* x_route_decisions
  digest,      \* by day, the posts in its digest file
  session,     \* the session at work
  offered,     \* history: posts some run exported
  by,          \* history: the run that fetched a post
  dayOf,       \* history: the day on which
  killed,      \* history: runs whose session died while they were started
  covered      \* history: no run finished without an export over posts another had left

fetching == <<scene, clock, roster, stored, checkpoint, reads, by, dayOf>>
judging == <<labelled, run, finished, route, digest, offered, killed, covered>>
vars == <<fetching, judging, session>>

OnX(a) == {i \in DOMAIN scene.posts[a] : scene.posts[a][i].from <= clock}

(* What the guards of the budget bound is the count as X set it last.      *)
ReadsInBudget == reads \in Nat /\ (reads <= MostReads \/ reads \in scene.usage)

(* The tables are well formed, the reads go past the floor by one page at  *)
(* most, a session works on a run that has started, and what was fetched   *)
(* had been posted.                                                        *)
TypeOK ==
  /\ scene \in Scene /\ clock \in 0..scene.cycles /\ roster \subseteq Account
  /\ stored \in [Post -> 0..clock]
  /\ \A p \in Post : stored[p] # Never => p[2] \in OnX(p[1])
  /\ checkpoint \in [Account -> Place \cup {Nil}]
  /\ ReadsInBudget /\ labelled \subseteq Post
  /\ run \in [Runs -> [status : Status, started : 0..clock, batch : SUBSET Post]]
  /\ finished \in Seq(Runs)
  /\ \A i, j \in DOMAIN finished : finished[i] = finished[j] => i = j
  /\ route \in [Post -> Routed \cup {Nil}]
  /\ \A p \in Post : route[p] # Nil => p \in offered \/ route[p].route = "article_queue"
  /\ session \in Session \cup {Nil}
  /\ session # Nil => run[session.run].status # "none"

-----------------------------------------------------------------------------
(* The world: posts, the maintainer's roster and reviews of posts.         *)

Started == {r \in Runs : run[r].status # "none"}

Today == TodayOf(Started)

(* seed_from_manual_readme(): approved handles are active, others parked. *)
Seed(approved) ==
  /\ session = Nil
  /\ approved # roster
  /\ roster' = approved
  /\ UNCHANGED <<scene, clock, stored, checkpoint, reads, by, dayOf, judging, session>>

(* mark_reviewed(), by hand or with a captured signal. *)
MarkReviewed(p) == p \notin labelled /\ labelled' = labelled \cup {p}

Review(p) ==
  /\ session = Nil
  /\ stored[p] # Never
  /\ MarkReviewed(p)
  /\ UNCHANGED <<fetching, run, finished, route, digest, offered, killed, covered, session>>

Remaining == MaxReads - reads

AffordableAtFloor == Remaining >= Floor

Affordable == Remaining > Floor

(* What X bills for an answer: its posts, and the posts they refer to,     *)
(* which it includes.                                                      *)
Billed(answered, referenced) == answered + referenced

(* One batch of older posts is read again by id: the guard counts the ids. *)
(* X leaves out those it no longer has, and bills the rest as ever.        *)
Rehydrate(asked, answered, referenced) ==
  /\ session = Nil /\ scene.rehydrate
  /\ Remaining > asked + Floor
  /\ asked <= Cardinality({p \in Post : stored[p] # Never} \ labelled)
  /\ answered <= asked /\ referenced <= MostReferenced * answered
  /\ reads' = reads + Billed(answered, referenced)
  /\ UNCHANGED <<scene, clock, roster, stored, checkpoint, by, dayOf, judging, session>>

(* _cmd_usage_sync(): the count of X, which knows of answers that a dead   *)
(* session did not record, replaces the one kept here.                     *)
SyncUsage(n) ==
  /\ session = Nil
  /\ reads' = n
  /\ UNCHANGED <<scene, clock, roster, stored, checkpoint, by, dayOf, judging, session>>

-----------------------------------------------------------------------------
(* cycle()                                                                 *)

StartAnew(r) == clock + 1

StartOf(r) == IF run[r].status = "failed" THEN run[r].started ELSE clock + 1

(* The list without r, which is in it once at most. *)
Unfinish(r, list) ==
  IF \E k \in DOMAIN list : list[k] = r
  THEN LET k == CHOOSE k \in DOMAIN list : list[k] = r
       IN [i \in 1..(Len(list) - 1) |-> list[IF i < k THEN i ELSE i + 1]]
  ELSE list

Finish(r, list) == Append(Unfinish(r, list), r)

(* Posts that no run has offered to its model, and a person has not seen. *)
Waiting == {p \in Post : stored[p] # Never /\ p \notin labelled /\ p \notin offered /\ route[p] = Nil}

Covers(r) == \A p \in Waiting : by[p] = r

ActiveAccounts == roster

(* A slot starts once, unless the machine is off; a run that failed may be *)
(* started again.  The weekly run fetches nothing.                         *)
Start(r) ==
  /\ session = Nil /\ clock < scene.cycles /\ r \in scene.slots
  /\ \/ run[r].status = "none" /\ \A q \in Started : Before(q, r)
     \/ run[r].status = "failed"
  /\ clock' = clock + 1
  /\ run' = [run EXCEPT ![r].status = IF Weekly(r) THEN "routed" ELSE "started",
                        ![r].started = StartOf(r)]
  /\ finished' = IF Weekly(r) THEN Finish(r, finished) ELSE Unfinish(r, finished)
  /\ session' = [run |-> r, stage |-> IF Weekly(r) THEN "render" ELSE "fetch",
                 left |-> IF Weekly(r) THEN {} ELSE ActiveAccounts]
  /\ covered' = (covered /\ (Weekly(r) => Covers(r)))
  /\ UNCHANGED <<scene, roster, stored, checkpoint, reads, by, dayOf,
                 labelled, route, digest, offered, killed>>

Stored(a) == {i \in 1..MaxPosts : stored[<<a, i>>] # Never}

Newest(a) == IF Stored(a) = {} THEN 0 ELSE CHOOSE i \in Stored(a) : \A j \in Stored(a) : j <= i

(* From the newest post on, or from the start of the window if that is     *)
(* older.  A page that was left open is taken up where it was.             *)
FreshFrom(a) ==
  LET recent == Newest(a) # 0 /\ scene.posts[a][Newest(a)].day >= Today - Window
  IN [since |-> IF recent THEN Newest(a) ELSE 0,
      start |-> IF recent THEN -Window ELSE Today - Window,
      token |-> 0]

FromNewest(a) == FreshFrom(a)

From(a) == IF checkpoint[a] = Nil THEN FreshFrom(a) ELSE checkpoint[a]

(* X answers the newest first, and with a token for what it left out. *)
Matching(a, from) ==
  {i \in OnX(a) : /\ i > from.since
                  /\ scene.posts[a][i].day >= from.start
                  /\ from.token # 0 => i < from.token}

Page(m) == {i \in m : Cardinality({j \in m : j > i}) < PageSize}

Insert(a, page) ==
  [p \in Post |-> IF p[1] = a /\ p[2] \in page /\ stored[p] = Never THEN clock ELSE stored[p]]

Least(m) == CHOOSE i \in m : \A j \in m : i <= j

(* _cmd_fetch() for one account, in commits of their own: where it reads   *)
(* from, what X bills, the posts, and what remains.  The session may die   *)
(* after each of them.                                                     *)
FetchPage(a, referenced) ==
  LET from == From(a)
      matching == Matching(a, from)
      page == Page(matching)
  IN /\ session # Nil /\ session.stage = "fetch"
     /\ a \in session.left /\ Affordable
     /\ referenced <= MostReferenced * Cardinality(page)
     /\ \E commits \in 1..4 :
          /\ reads' = IF commits >= 2 THEN reads + Billed(Cardinality(page), referenced) ELSE reads
          /\ stored' = Insert(a, IF commits >= 3 THEN page ELSE {})
          /\ checkpoint' = [checkpoint EXCEPT ![a] =
               IF commits < 4 THEN from
               ELSE IF page = matching THEN Nil ELSE [from EXCEPT !.token = Least(page)]]
          /\ session' = IF commits < 4 THEN Nil ELSE [session EXCEPT !.left = @ \ {a}]
          /\ killed' = IF commits < 4 THEN killed \cup {session.run} ELSE killed
     /\ by' = [p \in Post |-> IF stored'[p] # stored[p] THEN session.run ELSE by[p]]
     /\ dayOf' = [p \in Post |-> IF stored'[p] # stored[p] THEN Today ELSE dayOf[p]]
     /\ UNCHANGED <<scene, clock, roster, labelled, run, finished, route, digest, offered, covered>>

FetchFails(a) ==
  LET r == session.run IN
  /\ session # Nil /\ session.stage = "fetch"
  /\ a \in session.left /\ Affordable
  /\ checkpoint' = [checkpoint EXCEPT ![a] = From(a)]
  /\ run' = [run EXCEPT ![r].status = "failed"]
  /\ finished' = Finish(r, finished)
  /\ covered' = (covered /\ Covers(r))
  /\ session' = Nil
  /\ UNCHANGED <<scene, clock, roster, stored, reads, by, dayOf,
                 labelled, route, digest, offered, killed>>

Fetched ==
  /\ session # Nil /\ session.stage = "fetch"
  /\ session.left = {} \/ ~Affordable
  /\ session' = [session EXCEPT !.stage = "export"]
  /\ UNCHANGED <<fetching, judging>>

(* From the start of the run that finished last.  The first run goes back  *)
(* for 24 hours: to some instant after all that was fetched two days ago,  *)
(* and before what was fetched today.                                      *)
DayAgo ==
  {n \in 1..clock : \A p \in Post : stored[p] # Never =>
     /\ dayOf[p] = Today => n <= stored[p]
     /\ dayOf[p] < Today - 1 => stored[p] < n}

Cutoffs(r) ==
  LET others == Unfinish(r, finished)
  IN IF others = <<>> THEN DayAgo ELSE {run[others[Len(others)]].started}

LinkOnly(r) ==
  {p \in Post : stored[p] >= run[r].started /\ p \notin labelled /\ scene.posts[p[1]][p[2]].link}

Exported(r, cutoff) ==
  {p \in Post : stored[p] # Never /\ stored[p] >= cutoff /\ p \notin labelled /\ route[p] = Nil}

(* A post that is only a link goes to the queue of articles, the others    *)
(* that no run has routed to a batch for the model.                        *)
Export ==
  LET r == session.run IN
  /\ session # Nil /\ session.stage = "export"
  /\ \A p \in LinkOnly(r) : route[p] = Nil
  /\ route' = [p \in Post |-> IF p \in LinkOnly(r) THEN [run |-> r, route |-> "article_queue"]
                              ELSE route[p]]
  /\ \E cutoff \in Cutoffs(r) :
       LET batch == Exported(r, cutoff) \ LinkOnly(r)
       IN /\ run' = [run EXCEPT ![r].status = "exported", ![r].batch = batch]
          /\ offered' = offered \cup batch
          /\ covered' = (covered /\ (finished = <<>> => Waiting \subseteq batch \cup LinkOnly(r)))
  /\ finished' = Finish(r, finished)
  /\ session' = [session EXCEPT !.stage = "judge"]
  /\ UNCHANGED <<fetching, labelled, digest, killed>>

(* A link that has its decision already breaks the insert: the run stays   *)
(* started.                                                                *)
ExportBreaks ==
  /\ session # Nil /\ session.stage = "export"
  /\ \E p \in LinkOnly(session.run) : route[p] # Nil
  /\ session' = Nil
  /\ UNCHANGED <<fetching, judging>>

-----------------------------------------------------------------------------
(* Judgment, the digest, and the check of the wrapper.                     *)

(* A run left with its export is taken up by a later session, one that     *)
(* was routed may be routed again.                                         *)
Resume(r) ==
  /\ session = Nil
  /\ run[r].status \in {"exported", "routed", "digested"} /\ ~Weekly(r)
  /\ session' = [run |-> r, stage |-> "judge", left |-> {}]
  /\ UNCHANGED <<fetching, judging>>

StatusKept(r) == IF run[r].status = "digested" THEN "digested" ELSE "routed"

StatusOfRouted(r) == "routed"

(* route_predictions(): of the posts the model judged, none of another run. *)
Route(judgment) ==
  LET r == session.run IN
  /\ \A p \in DOMAIN judgment : route[p] # Nil => route[p].run = r
  /\ route' = [p \in Post |-> IF p \in DOMAIN judgment THEN [run |-> r, route |-> judgment[p]]
                              ELSE route[p]]
  /\ run' = [run EXCEPT ![r].status = StatusOfRouted(r)]
  /\ finished' = Finish(r, finished)
  /\ session' = [session EXCEPT !.stage = "render"]
  /\ UNCHANGED <<fetching, labelled, digest, offered, killed, covered>>

Judge ==
  /\ session # Nil /\ session.stage = "judge"
  /\ \E judged \in SUBSET run[session.run].batch :
       \E judgment \in [judged -> scene.routes] : Route(judgment)

Digested(d) == {p \in Post : route[p] # Nil /\ route[p].route = "digest" /\ route[p].run[1] = d}

(* render_digest(): its file, and then its statuses. *)
Render ==
  LET d == session.run[1] IN
  /\ session # Nil /\ session.stage = "render" /\ ~Weekly(session.run)
  /\ digest' = [digest EXCEPT ![d] = Digested(d)]
  /\ session' = [session EXCEPT !.stage = "mark"]
  /\ UNCHANGED <<fetching, labelled, run, finished, route, offered, killed, covered>>

Mark ==
  /\ session # Nil /\ session.stage = "mark"
  /\ run' = [q \in Runs |-> IF q[1] = session.run[1] /\ run[q].status = "routed"
                            THEN [run[q] EXCEPT !.status = "digested"] ELSE run[q]]
  /\ session' = [session EXCEPT !.stage = "verify"]
  /\ UNCHANGED <<fetching, labelled, finished, route, digest, offered, killed, covered>>

RenderWeekly ==
  /\ session # Nil /\ session.stage = "render" /\ Weekly(session.run)
  /\ run' = [run EXCEPT ![session.run].status = "digested"]
  /\ session' = [session EXCEPT !.stage = "verify"]
  /\ UNCHANGED <<fetching, labelled, finished, route, digest, offered, killed, covered>>

(* _cmd_verify(): the wrapper renders what the session has only routed. *)
Verify ==
  /\ session # Nil /\ session.stage \in {"judge", "render", "verify"}
  /\ IF run[session.run].status = "routed" /\ ~Weekly(session.run)
     THEN session' = [session EXCEPT !.stage = "render"]
     ELSE session' = Nil
  /\ UNCHANGED <<fetching, judging>>

Kill ==
  /\ session # Nil
  /\ killed' = IF run[session.run].status = "started" THEN killed \cup {session.run} ELSE killed
  /\ session' = Nil
  /\ UNCHANGED <<fetching, labelled, run, finished, route, digest, offered, covered>>

Init ==
  /\ scene \in Scene /\ clock = 0 /\ roster = Account
  /\ stored = [p \in Post |-> Never] /\ by = [p \in Post |-> Nil] /\ dayOf = [p \in Post |-> 0]
  /\ checkpoint = [a \in Account |-> Nil] /\ reads = scene.reads
  /\ labelled = {}
  /\ run = [r \in Runs |-> [status |-> "none", started |-> Never, batch |-> {}]]
  /\ finished = <<>>
  /\ route = [p \in Post |-> Nil] /\ digest = [d \in Day |-> {}]
  /\ session = Nil
  /\ offered = {} /\ killed = {} /\ covered = TRUE

Next ==
  \/ \E approved \in scene.rosters : Seed(approved)
  \/ \E p \in scene.labels : Review(p)
  \/ \E asked \in 1..PageSize, answered \in 0..PageSize, referenced \in References :
       Rehydrate(asked, answered, referenced)
  \/ \E n \in scene.usage : SyncUsage(n)
  \/ \E r \in Runs : Start(r) \/ Resume(r)
  \/ \E a \in Account : FetchFails(a) \/ \E referenced \in References : FetchPage(a, referenced)
  \/ Fetched \/ Export \/ ExportBreaks
  \/ Judge \/ Render \/ RenderWeekly \/ Mark \/ Verify \/ Kill

Spec == Init /\ [][Next]_vars

-----------------------------------------------------------------------------
(* Properties.                                                             *)

(* An account with no page left open has every post up to its newest one,  *)
(* but those older than the window when the newer ones were read: whether  *)
(* X failed, the session died or the budget ended between two pages.       *)
NoGap ==
  \A a \in Account : checkpoint[a] = Nil =>
    \A i \in 1..Newest(a) : stored[<<a, i>>] = Never =>
      \E j \in Stored(a) : j > i /\ scene.posts[a][i].day < dayOf[<<a, j>>] - Window

(* A post that was stored is offered to a model by the next run, whatever  *)
(* becomes of the run that stored it: unless two runs in a row end without *)
(* an export, one does before the weekly run, or a day passes before the   *)
(* first run has ended.                                                    *)
NothingIsLost ==
  covered => \A p \in Waiting : finished # <<>> => stored[p] >= run[finished[Len(finished)]].started

(* The reviews of a day start from its digest only when every run that did *)
(* not fail is in it (_completed_digest_runs): then the file shows all     *)
(* that is routed, also when a run was routed again or a session died.     *)
Ready(d) ==
  /\ \A r \in Started : r[1] = d => run[r].status \in {"digested", "failed"}
  /\ \E r \in Started : r[1] = d /\ run[r].status = "digested"

DigestIsCurrent == \A d \in Day : Ready(d) => digest[d] = Digested(d)

(* "A failed digester run can be rerun by starting its task manually;      *)
(* `cycle` resumes a failed run and refuses to duplicate a completed one." *)
FailedRunsResume ==
  \A r \in Runs : run[r].status = "started" =>
    r \in killed \/ (session # Nil /\ session.run = r)
=============================================================================
