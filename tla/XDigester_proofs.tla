-------------------------- MODULE XDigester_proofs --------------------------
(***************************************************************************)
(* Proofs about the digester, for any accounts, posts, days, budgets and   *)
(* pages: no gap in what is stored of an account, no stored post that the  *)
(* next run forgets, and no digest a review may rely on that lacks a post. *)
(***************************************************************************)
EXTENDS XDigester, FiniteSetTheorems, SequenceTheorems, WellFoundedInduction, TLAPS

-----------------------------------------------------------------------------
(* Numbers: a set of them has a least one, and below a bound a greatest.   *)

LEMMA LeastExists ==
  ASSUME NEW m \in SUBSET Nat, m # {}
  PROVE  \E i \in m : \A j \in m : i <= j
  <1>1. PICK x \in m : TRUE
    OBVIOUS
  <1>2. PICK n \in m : \A k \in m : ~(<<k, n>> \in OpToRel(<, Nat))
    BY <1>1, WFMin, NatLessThanWellFounded, Zenon
  <1>3. \A k \in m : ~(k < n)
    BY <1>2, Zenon DEF OpToRel
  <1>4. n \in Nat /\ \A k \in m : k \in Nat
    OBVIOUS
  <1>5. QED
    BY <1>3, <1>4

LEMMA GreatestExists ==
  ASSUME NEW n \in Nat, NEW m \in SUBSET (0..n), m # {}
  PROVE  \E i \in m : \A j \in m : j <= i
  <1> DEFINE Below == {n - i : i \in m}
  <1>0. \A i \in m : i \in 0..n /\ n - i \in Nat
    OBVIOUS
  <1>1. Below \in SUBSET Nat /\ Below # {}
    BY <1>0, Zenon
  <1>2. PICK k \in Below : \A j \in Below : k <= j
    BY <1>1, LeastExists
  <1>3. PICK i \in m : k = n - i
    OBVIOUS
  <1>4. \A j \in m : k <= n - j
    BY <1>2
  <1> HIDE DEF Below
  <1>5. \A j \in m : j <= i
    BY <1>0, <1>3, <1>4
  <1>6. QED
    BY <1>5

(* What Least and Newest choose.                                           *)
LEMMA LeastIs ==
  ASSUME NEW m \in SUBSET Nat, m # {}
  PROVE  Least(m) \in m /\ \A j \in m : Least(m) <= j
  BY LeastExists DEF Least

(* A page is the upper part of what matches, is not empty unless nothing   *)
(* does, and has no more than PageSize posts.                              *)
LEMMA PageIsUpper ==
  ASSUME NEW m \in SUBSET (1..MaxPosts), NEW i \in Page(m), NEW j \in m, j > i
  PROVE  j \in Page(m)
  <1> DEFINE Over(k) == {l \in m : l > k}
  <1>1. /\ MaxPosts \in Nat /\ PageSize \in Nat
    BY ConstantsAssumption
  <1>2. 1 \in Int /\ MaxPosts \in Int
    BY <1>1
  <1>3. IsFiniteSet(1..MaxPosts)
    BY <1>2, FS_Interval, Zenon
  <1>4. Over(i) \subseteq 1..MaxPosts
    OBVIOUS
  <1>5. IsFiniteSet(Over(i))
    BY <1>3, <1>4, FS_Subset, Zenon
  <1>6. i \in Nat /\ j \in Nat /\ \A l \in m : l \in Nat
    <2>1. i \in m /\ \A l \in m : l \in 1..MaxPosts
      BY DEF Page
    <2>2. QED
      BY <1>1, <2>1
  <1>7. Over(j) \subseteq Over(i)
    <2>1. \A l \in m : l > j => l > i
      BY <1>6
    <2>2. QED
      BY <2>1, Zenon
  <1>8. IsFiniteSet(Over(j)) /\ Cardinality(Over(j)) <= Cardinality(Over(i))
    BY <1>5, <1>7, FS_Subset, Zenon
  <1>9. Cardinality(Over(j)) \in Nat /\ Cardinality(Over(i)) \in Nat
    BY <1>5, <1>8, FS_CardinalityType, Zenon
  <1>10. Cardinality(Over(i)) < PageSize
    BY DEF Page
  <1> HIDE DEF Over
  <1>11. Cardinality(Over(j)) < PageSize
    BY <1>1, <1>8, <1>9, <1>10
  <1>12. QED
    BY <1>11 DEF Page, Over

LEMMA PageNotEmpty ==
  ASSUME NEW m \in SUBSET (1..MaxPosts), m # {}
  PROVE  Page(m) # {}
  <1>1. MaxPosts \in Nat /\ PageSize \in Nat \ {0}
    BY ConstantsAssumption
  <1>2. m \in SUBSET (0..MaxPosts)
    BY <1>1
  <1>3. PICK i \in m : \A j \in m : j <= i
    BY <1>1, <1>2, GreatestExists
  <1>4. {l \in m : l > i} = {}
    <2>1. i \in Nat /\ \A l \in m : l \in 1..MaxPosts
      BY <1>1
    <2>2. \A l \in m : ~(l > i)
      BY <1>1, <1>3, <2>1
    <2>3. QED
      BY <2>2, Zenon
  <1>5. Cardinality({l \in m : l > i}) = 0
    BY <1>4, FS_EmptySet, Zenon
  <1>6. i \in Page(m)
    BY <1>1, <1>5 DEF Page
  <1>7. QED
    BY <1>6

LEMMA PageFits ==
  ASSUME NEW m \in SUBSET (1..MaxPosts)
  PROVE  /\ Page(m) \subseteq m
         /\ Cardinality(Page(m)) \in 0..PageSize
  <1>1. MaxPosts \in Nat /\ PageSize \in Nat \ {0}
    BY ConstantsAssumption
  <1>2. Page(m) \subseteq m
    BY DEF Page
  <1>3. CASE Page(m) = {}
    <2>1. Cardinality(Page(m)) = 0
      BY <1>3, FS_EmptySet, Zenon
    <2>2. QED
      BY <1>1, <1>2, <2>1
  <1>4. CASE Page(m) # {}
    <2> DEFINE Rest(k) == Page(m) \ {k}
               Over(k) == {l \in m : l > k}
    <2>1. Page(m) \in SUBSET Nat
      <3>1. \A l \in m : l \in 1..MaxPosts
        OBVIOUS
      <3>2. \A l \in m : l \in Nat
        BY <1>1, <3>1
      <3>3. QED
        BY <1>2, <3>2, Zenon
    <2>2. PICK k \in Page(m) : \A j \in Page(m) : k <= j
      BY <1>4, <2>1, LeastExists
    <2>3. k \in Nat /\ \A j \in Page(m) : j \in Nat
      BY <2>1
    <2>4. Rest(k) \subseteq Over(k)
      <3>1. \A l \in Page(m) : l # k => l > k
        BY <2>2, <2>3
      <3>2. QED
        BY <1>2, <3>1, Zenon
    <2>5. Cardinality(Over(k)) < PageSize
      BY DEF Page
    <2>6. 1 \in Int /\ MaxPosts \in Int
      BY <1>1
    <2>7. IsFiniteSet(1..MaxPosts)
      BY <2>6, FS_Interval, Zenon
    <2>8. Over(k) \subseteq 1..MaxPosts /\ Page(m) \subseteq 1..MaxPosts
      BY <1>2
    <2>9. IsFiniteSet(Over(k)) /\ IsFiniteSet(Page(m))
      BY <2>7, <2>8, FS_Subset, Zenon
    <2>10. IsFiniteSet(Rest(k)) /\ Cardinality(Rest(k)) = Cardinality(Page(m)) - 1
      BY <2>2, <2>9, FS_RemoveElement, Zenon
    <2>11. Cardinality(Rest(k)) <= Cardinality(Over(k))
      BY <2>4, <2>9, FS_Subset, Zenon
    <2>12. Cardinality(Over(k)) \in Nat /\ Cardinality(Page(m)) \in Nat /\ Cardinality(Rest(k)) \in Nat
      BY <2>9, <2>10, FS_CardinalityType, Zenon
    <2> HIDE DEF Rest, Over
    <2>13. Cardinality(Page(m)) <= PageSize
      BY <1>1, <2>5, <2>10, <2>11, <2>12
    <2>14. QED
      BY <1>2, <2>12, <2>13, <1>1
  <1>5. QED
    BY <1>3, <1>4

-----------------------------------------------------------------------------
(* The list of finished runs.                                              *)

In(list) == {list[k] : k \in DOMAIN list}

Once(list) == \A i, j \in DOMAIN list : list[i] = list[j] => i = j

LEMMA UnfinishLeaves ==
  ASSUME NEW list \in Seq(Runs), Once(list), NEW r
  PROVE  /\ Unfinish(r, list) \in Seq(Runs)
         /\ Once(Unfinish(r, list))
         /\ In(Unfinish(r, list)) = In(list) \ {r}
         /\ r \notin In(list) => Unfinish(r, list) = list
  <1> DEFINE n == Len(list)
             short == Unfinish(r, list)
  <1>1. n \in Nat /\ DOMAIN list = 1..n /\ list \in [1..n -> Runs]
    BY LenProperties, SMT
  <1>2. CASE ~\E k \in DOMAIN list : list[k] = r
    <2>1. Unfinish(r, list) = list
      BY <1>2 DEF Unfinish
    <2>2. r \notin In(list)
      BY <1>2 DEF In
    <2>3. QED
      BY <2>1, <2>2
  <1>3. CASE \E k \in DOMAIN list : list[k] = r
    <2>1. PICK k \in DOMAIN list : /\ list[k] = r
                                   /\ short = [i \in 1..(n - 1) |-> list[IF i < k THEN i ELSE i + 1]]
      BY <1>3 DEF Unfinish
    <2>2. k \in 1..n /\ n - 1 \in Nat
      BY <1>1, <2>1
    <2>3. r \in In(list)
      BY <2>1 DEF In
    <2> DEFINE at(i) == IF i < k THEN i ELSE i + 1
    <2>4. \A i \in 1..(n - 1) : at(i) \in 1..n /\ at(i) # k
      BY <1>1, <2>2
    <2>5. \A i, j \in 1..(n - 1) : at(i) = at(j) => i = j
      BY <1>1, <2>2
    <2>6. \A j \in 1..n : j # k => \E i \in 1..(n - 1) : at(i) = j
      <3> SUFFICES ASSUME NEW j \in 1..n, j # k
                   PROVE  \E i \in 1..(n - 1) : at(i) = j
        OBVIOUS
      <3>1. CASE j < k
        <4>1. j \in 1..(n - 1) /\ at(j) = j
          BY <1>1, <2>2, <3>1
        <4>2. QED
          BY <4>1, Zenon
      <3>2. CASE j > k
        <4>1. j - 1 \in 1..(n - 1) /\ at(j - 1) = j
          BY <1>1, <2>2, <3>2
        <4>2. QED
          BY <4>1, Zenon
      <3>3. QED
        BY <1>1, <2>2, <3>1, <3>2
    <2>7. /\ DOMAIN short = 1..(n - 1)
          /\ \A i \in 1..(n - 1) : short[i] = list[at(i)]
      BY <2>1
    <2> HIDE DEF at, short, n
    <2>8. short \in [1..(n - 1) -> Runs]
      <3>1. short = [i \in 1..(n - 1) |-> list[at(i)]]
        BY <2>1 DEF at
      <3>2. \A i \in 1..(n - 1) : list[at(i)] \in Runs
        BY <1>1, <2>4
      <3>3. QED
        BY <3>1, <3>2
    <2>9. short \in Seq(Runs)
      BY <2>2, <2>8
    <2>10. Once(short)
      <3>1. \A i, j \in 1..(n - 1) : short[i] = short[j] => i = j
        BY <1>1, <2>4, <2>5, <2>7 DEF Once
      <3>2. QED
        BY <2>7, <3>1 DEF Once
    <2>11. In(short) \subseteq In(list) \ {r}
      BY <1>1, <2>1, <2>2, <2>4, <2>7 DEF In, Once
    <2>12. In(list) \ {r} \subseteq In(short)
      <3> SUFFICES ASSUME NEW q \in In(list), q # r
                   PROVE  q \in In(short)
        OBVIOUS
      <3>1. PICK j \in 1..n : list[j] = q
        BY <1>1 DEF In
      <3>2. j # k
        BY <2>1, <3>1
      <3>3. PICK i \in 1..(n - 1) : at(i) = j
        BY <2>6, <3>2
      <3>4. short[i] = q
        BY <2>7, <3>1, <3>3
      <3>5. QED
        BY <2>7, <3>4 DEF In
    <2>13. QED
      BY <2>3, <2>9, <2>10, <2>11, <2>12 DEF short
  <1>4. QED
    BY <1>2, <1>3

LEMMA FinishPuts ==
  ASSUME NEW list \in Seq(Runs), Once(list), NEW r \in Runs
  PROVE  /\ Finish(r, list) \in Seq(Runs)
         /\ Once(Finish(r, list))
         /\ In(Finish(r, list)) = In(list) \cup {r}
  <1> DEFINE short == Unfinish(r, list)
             n == Len(short)
             long == Append(short, r)
  <1>1. short \in Seq(Runs) /\ Once(short) /\ In(short) = In(list) \ {r}
    BY UnfinishLeaves
  <1>2. Finish(r, list) = long
    BY DEF Finish
  <1> HIDE DEF short
  <1>3. n \in Nat /\ DOMAIN short = 1..n
    BY <1>1, LenProperties, SMT
  <1>4. /\ long \in Seq(Runs)
        /\ Len(long) = n + 1
        /\ \A i \in 1..n : long[i] = short[i]
        /\ long[n + 1] = r
    BY <1>1, AppendProperties
  <1>5. DOMAIN long = 1..(n + 1)
    BY <1>3, <1>4, LenProperties, SMT
  <1>6. \A i \in 1..n : short[i] # r
    BY <1>1, <1>3 DEF In
  <1> HIDE DEF n, long
  <1>7. \A i \in 1..(n + 1) : i \in 1..n \/ i = n + 1
    BY <1>3
  <1>8. Once(long)
    BY <1>1, <1>3, <1>4, <1>5, <1>6, <1>7 DEF Once
  <1>9. In(long) = In(short) \cup {r}
    <2>1. 1..n \subseteq 1..(n + 1) /\ n + 1 \in 1..(n + 1)
      BY <1>3
    <2>2. In(long) \subseteq In(short) \cup {r}
      BY <1>3, <1>4, <1>5, <1>7 DEF In
    <2>3. In(short) \subseteq In(long)
      BY <1>3, <1>4, <1>5, <2>1 DEF In
    <2>4. r \in In(long)
      BY <1>4, <1>5, <2>1 DEF In
    <2>5. QED
      BY <2>2, <2>3, <2>4
  <1>10. QED
    BY <1>1, <1>2, <1>4, <1>8, <1>9

(* The last of a list is in it.                                            *)
LEMMA LastIsIn ==
  ASSUME NEW list \in Seq(Runs), list # <<>>
  PROVE  list[Len(list)] \in In(list)
  <1>1. Len(list) \in Nat /\ DOMAIN list = 1..Len(list)
    BY LenProperties, SMT
  <1>2. Len(list) # 0
    BY EmptySeq
  <1>3. Len(list) \in DOMAIN list
    BY <1>1, <1>2
  <1>4. QED
    BY <1>3 DEF In
-----------------------------------------------------------------------------
(* Today is the day of the latest run that was started.                    *)

LatestOf(runs, r) == r \in runs /\ \A q \in runs : q = r \/ Before(q, r)

Dated(runs) == runs # {} => \E r \in runs : LatestOf(runs, r)

LEMMA RunFacts ==
  ASSUME NEW r \in Runs
  PROVE  r[1] \in Day /\ r[1] \in Nat /\ r[2] \in 1..5 /\ r[2] \in Nat
  <1>1. r \in Day \X (1..5)
    BY DEF Runs
  <1>2. r[1] \in Day /\ r[2] \in 1..5
    BY <1>1
  <1>3. Day \subseteq Nat /\ 1..5 \subseteq Nat
    BY ConstantsAssumption
  <1>4. QED
    BY <1>2, <1>3, Zenon

LEMMA TodayOfLatest ==
  ASSUME NEW runs \in SUBSET Runs, NEW r, LatestOf(runs, r)
  PROVE  TodayOf(runs) = r[1]
  <1> DEFINE Last(c) == \A q \in runs : q = c \/ Before(q, c)
             c == CHOOSE c \in runs : Last(c)
  <1>1. r \in runs /\ Last(r)
    BY DEF LatestOf
  <1>2. c \in runs /\ Last(c)
    BY <1>1
  <1>3. TodayOf(runs) = c[1]
    BY <1>1 DEF TodayOf
  <1> HIDE DEF c
  <1>4. c = r \/ (Before(c, r) /\ Before(r, c))
    BY <1>1, <1>2
  <1>5. {c[1], c[2], r[1], r[2]} \subseteq Nat
    BY <1>1, <1>2, RunFacts
  <1>6. QED
    BY <1>3, <1>4, <1>5 DEF Before

LEMMA TodayIsNat ==
  ASSUME NEW runs \in SUBSET Runs, Dated(runs)
  PROVE  TodayOf(runs) \in Nat
  <1>1. CASE runs = {}
    BY <1>1 DEF TodayOf
  <1>2. CASE runs # {}
    <2>1. PICK r \in runs : LatestOf(runs, r)
      BY <1>2 DEF Dated
    <2>2. TodayOf(runs) = r[1]
      BY <2>1, TodayOfLatest
    <2>3. QED
      BY <2>2, RunFacts
  <1>3. QED
    BY <1>1, <1>2

(* A new run is later than all before it.                                  *)
LEMMA TodayGrows ==
  ASSUME NEW runs \in SUBSET Runs, Dated(runs),
         NEW r \in Runs, \A q \in runs : Before(q, r)
  PROVE  /\ Dated(runs \cup {r})
         /\ TodayOf(runs) <= TodayOf(runs \cup {r})
  <1> DEFINE more == runs \cup {r}
  <1>1. LatestOf(more, r)
    BY DEF LatestOf
  <1>2. TodayOf(more) = r[1]
    BY <1>1, TodayOfLatest
  <1>3. CASE runs = {}
    BY <1>1, <1>2, <1>3, RunFacts DEF TodayOf, Dated
  <1>4. CASE runs # {}
    <2>1. PICK q \in runs : LatestOf(runs, q)
      BY <1>4 DEF Dated
    <2>2. TodayOf(runs) = q[1]
      BY <2>1, TodayOfLatest
    <2>3. Before(q, r)
      OBVIOUS
    <2>4. q[1] \in Nat /\ r[1] \in Nat
      BY RunFacts
    <2>5. q[1] <= r[1]
      BY <2>3, <2>4 DEF Before
    <2>6. QED
      BY <1>1, <1>2, <2>2, <2>5 DEF Dated
  <1>5. QED
    BY <1>3, <1>4
-----------------------------------------------------------------------------
(* The tables.  What is fetched changes apart from what is judged.         *)

PostsInv ==
  /\ scene \in Scene /\ clock \in 0..scene.cycles /\ roster \subseteq Account
  /\ stored \in [Post -> 0..clock]
  /\ by \in [Post -> Runs \cup {Nil}] /\ dayOf \in [Post -> Nat]
  /\ \A p \in Post : stored[p] # Never => p[2] \in OnX(p[1]) /\ by[p] \in Runs
  /\ checkpoint \in [Account -> Place \cup {Nil}]
  /\ ReadsInBudget

Row == [status : Status, started : 0..clock, batch : SUBSET Post]

(* A run is in the list of the finished ones by its status, and what it    *)
(* gave to its model is known to be offered.                               *)
RunsInv ==
  /\ run \in [Runs -> Row]
  /\ finished \in Seq(Runs) /\ Once(finished)
  /\ \A r \in Runs : /\ r \in In(finished) <=> run[r].status \notin {"none", "started"}
                     /\ run[r].batch \subseteq offered
  /\ Dated(Started) /\ (Started # {} => clock > 0)

RoutesInv ==
  /\ labelled \subseteq Post /\ offered \subseteq Post
  /\ route \in [Post -> Routed \cup {Nil}]
  /\ \A p \in Post : route[p] # Nil => p \in offered \/ route[p].route = "article_queue"

(* Until its export a session's run is started, and the weekly run is only *)
(* rendered.                                                               *)
SessionInv ==
  session # Nil =>
    /\ session \in Session
    /\ clock > 0
    /\ run[session.run].status # "none"
    /\ run[session.run].status = "started" <=> session.stage \in {"fetch", "export"}
    /\ session.stage \in {"fetch", "export", "judge", "mark"} => ~Weekly(session.run)

TablesInv == PostsInv /\ RunsInv /\ RoutesInv /\ SessionInv

LEMMA TablesAreTyped == TablesInv => TypeOK
  BY DEF TablesInv, PostsInv, RunsInv, RoutesInv, SessionInv, TypeOK, Row, Once

LEMMA SceneFacts ==
  ASSUME PostsInv
  PROVE  /\ scene.cycles \in Nat /\ scene.reads \in 0..MostReads /\ scene.usage \subseteq Nat
         /\ scene.posts \in [Account -> Seq([day : Nat, from : Nat, link : BOOLEAN])]
         /\ scene.rosters \subseteq SUBSET Account /\ scene.routes \subseteq {"digest", "skip"}
         /\ scene.labels \subseteq Post /\ scene.slots \subseteq Day \X (1..5)
         /\ \A a \in Account : Len(scene.posts[a]) <= MaxPosts
  <1>1. scene \in Scene /\ scene \in Scenes
    BY ConstantsAssumption DEF PostsInv
  <1>2. QED
    BY <1>1, ConstantsAssumption DEF Scenes, Post

LEMMA OnXFacts ==
  ASSUME PostsInv, NEW a \in Account
  PROVE  /\ OnX(a) \subseteq 1..MaxPosts
         /\ DOMAIN scene.posts[a] = 1..Len(scene.posts[a])
         /\ \A i \in DOMAIN scene.posts[a] : /\ scene.posts[a][i].from \in Nat
                                            /\ scene.posts[a][i].day \in Nat
  <1> DEFINE P == [day : Nat, from : Nat, link : BOOLEAN]
             list == scene.posts[a]
  <1>1. list \in Seq(P) /\ Len(list) <= MaxPosts
    BY SceneFacts
  <1> HIDE DEF P, list
  <1>2. Len(list) \in Nat /\ DOMAIN list = 1..Len(list) /\ list \in [1..Len(list) -> P]
    BY <1>1, LenProperties, SMT
  <1>3. \A i \in DOMAIN list : list[i] \in P
    BY <1>2
  <1>4. \A i \in DOMAIN list : list[i].from \in Nat /\ list[i].day \in Nat
    BY <1>3 DEF P
  <1>5. DOMAIN list \subseteq 1..MaxPosts
    BY <1>1, <1>2, ConstantsAssumption
  <1>6. OnX(a) \subseteq DOMAIN list
    BY DEF OnX, list
  <1>7. QED
    BY <1>2, <1>4, <1>5, <1>6 DEF list

LEMMA InitTables ==
  ASSUME Init
  PROVE  TablesInv
  <1>1. scene \in Scenes /\ scene \in Scene
    BY ConstantsAssumption DEF Init
  <1>2. scene.cycles \in Nat /\ scene.reads \in 0..MostReads
    BY <1>1 DEF Scenes
  <1>21. ReadsInBudget
    BY <1>2 DEF Init, ReadsInBudget
  <1>3. PostsInv
    BY <1>1, <1>2, <1>21 DEF Init, PostsInv, Never
  <1>4. Started = {}
    BY DEF Init, Started
  <1>5. RunsInv
    <2>1. run \in [Runs -> Row]
      BY <1>2 DEF Init, Row, Status, Never
    <2>2. finished \in Seq(Runs) /\ Once(finished) /\ In(finished) = {}
      <3>1. finished = <<>> /\ finished \in Seq(Runs) /\ Len(finished) = 0
        BY EmptySeq DEF Init
      <3>2. DOMAIN finished = {}
        BY <3>1
      <3>3. QED
        BY <3>1, <3>2 DEF Once, In
    <2>3. QED
      BY <1>4, <2>1, <2>2 DEF Init, RunsInv, Dated
  <1>6. RoutesInv /\ SessionInv
    BY DEF Init, RoutesInv, SessionInv
  <1>7. QED
    BY <1>3, <1>5, <1>6 DEF TablesInv
-----------------------------------------------------------------------------
(* How the runs change.                                                    *)

LEMMA RowKept ==
  ASSUME RunsInv, NEW r \in Runs
  PROVE  /\ run[r] \in Row /\ run[r].status \in Status
         /\ run[r].started \in 0..clock /\ run[r].batch \in SUBSET Post
  BY DEF RunsInv, Row

(* The status of one run.                                                  *)
LEMMA StatusStep ==
  ASSUME RunsInv, NEW r \in Runs, NEW s \in Status, s \notin {"none", "started"},
         run[r].status # "none",
         run' = [run EXCEPT ![r].status = s],
         \/ finished' = Finish(r, finished)
         \/ finished' = finished /\ run[r].status # "started",
         clock' = clock, offered' = offered
  PROVE  RunsInv' /\ Started' = Started
  <1>1. \A q \in Runs : /\ run[q] \in Row
                        /\ run'[q] = IF q = r THEN [run[q] EXCEPT !.status = s] ELSE run[q]
    BY DEF RunsInv
  <1>2. Row' = Row
    BY DEF Row
  <1>3. \A q \in Runs : /\ run'[q] \in Row
                        /\ run'[q].status = IF q = r THEN s ELSE run[q].status
                        /\ run'[q].batch = run[q].batch
    <2>1. ASSUME NEW q \in Runs, q # r
          PROVE  run'[q] = run[q] /\ run'[q] \in Row
      BY <1>1, <2>1
    <2>2. run'[r] = [run[r] EXCEPT !.status = s] /\ run[r] \in Row
      BY <1>1
    <2>3. run'[r] \in Row /\ run'[r].status = s /\ run'[r].batch = run[r].batch
      BY <2>2 DEF Row
    <2>4. QED
      BY <2>1, <2>3
  <1>4. run' \in [Runs -> Row]
    BY <1>3 DEF RunsInv
  <1>5. Started' = Started
    BY <1>3 DEF Started
  <1>6. finished' \in Seq(Runs) /\ Once(finished') /\ In(finished') = In(finished) \cup {r}
    <2>1. CASE finished' = Finish(r, finished)
      BY <2>1, FinishPuts DEF RunsInv
    <2>2. CASE finished' = finished /\ run[r].status # "started"
      BY <2>2 DEF RunsInv
    <2>3. QED
      BY <2>1, <2>2
  <1>7. \A q \in Runs : /\ q \in In(finished') <=> run'[q].status \notin {"none", "started"}
                        /\ run'[q].batch \subseteq offered'
    BY <1>3, <1>6 DEF RunsInv
  <1>8. QED
    BY <1>2, <1>4, <1>5, <1>6, <1>7 DEF RunsInv

LEMMA StartRuns ==
  ASSUME TablesInv, NEW r \in Runs, Start(r)
  PROVE  /\ RunsInv'
         /\ Started' = Started \cup {r} /\ Dated(Started)
         /\ r \notin Started => \A q \in Started : Before(q, r)
         /\ In(finished') = IF Weekly(r) THEN In(finished) \cup {r} ELSE In(finished) \ {r}
         /\ \A q \in Runs \ {r} : run'[q] = run[q]
         /\ run'[r].status = IF Weekly(r) THEN "routed" ELSE "started"
         /\ run'[r].started = IF run[r].status = "failed" THEN run[r].started ELSE clock + 1
  <1> DEFINE s == IF Weekly(r) THEN "routed" ELSE "started"
             t == StartOf(r)
  <1>1. RunsInv /\ clock \in Nat /\ clock' = clock + 1 /\ offered' = offered
    BY SceneFacts DEF TablesInv, PostsInv, Start
  <1>2. run' = [run EXCEPT ![r].status = s, ![r].started = t]
    BY DEF Start
  <1>3. s \in Status /\ s \in {"routed", "started"} /\ t \in 0..(clock + 1)
    BY <1>1, RowKept DEF Status, StartOf
  <1>4. \A q \in Runs : run[q] \in Row
    BY <1>1 DEF RunsInv
  <1>5. /\ \A q \in Runs \ {r} : run'[q] = run[q]
        /\ run'[r] = [run[r] EXCEPT !.status = s, !.started = t]
        /\ DOMAIN run' = Runs /\ run' = [q \in Runs |-> run'[q]]
    BY <1>1, <1>2 DEF RunsInv
  <1> HIDE DEF s, t
  <1>6. Row \subseteq Row' /\ \A x \in Row : x.batch \in SUBSET Post
    BY <1>1 DEF Row
  <1>7. /\ run'[r] \in Row' /\ run'[r].status = s /\ run'[r].started = t
        /\ run'[r].batch = run[r].batch
    BY <1>1, <1>3, <1>4, <1>5 DEF Row
  <1>8. run' \in [Runs -> Row']
    <2>1. \A q \in Runs : run'[q] \in Row'
      BY <1>4, <1>5, <1>6, <1>7
    <2>2. QED
      BY <1>5, <2>1
  <1>9. Started' = Started \cup {r}
    BY <1>3, <1>5, <1>7 DEF Started
  <1>10. Dated(Started) /\ Started \in SUBSET Runs
    BY <1>1 DEF RunsInv, Started
  <1>11. r \notin Started => \A q \in Started : Before(q, r)
    BY DEF Start, Started
  <1>12. Dated(Started')
    <2>1. CASE r \in Started
      <3>1. Started' = Started
        BY <1>9, <2>1
      <3>2. QED
        BY <1>10, <3>1
    <2>2. CASE r \notin Started
      BY <1>9, <1>10, <1>11, <2>2, TodayGrows
    <2>3. QED
      BY <2>1, <2>2
  <1>13. /\ finished' \in Seq(Runs) /\ Once(finished')
         /\ In(finished') = IF Weekly(r) THEN In(finished) \cup {r} ELSE In(finished) \ {r}
    BY <1>1, FinishPuts, UnfinishLeaves DEF RunsInv, Start
  <1>14. \A q \in Runs : /\ q \in In(finished') <=> run'[q].status \notin {"none", "started"}
                         /\ run'[q].batch \subseteq offered'
    <2>1. ASSUME NEW q \in Runs, q # r
          PROVE  /\ q \in In(finished') <=> q \in In(finished)
                 /\ run'[q] = run[q]
      BY <1>5, <1>13, <2>1, Zenon
    <2>2. r \in In(finished') <=> Weekly(r)
      BY <1>13, Zenon
    <2>3. s \notin {"none", "started"} <=> Weekly(r)
      BY DEF s
    <2>4. \A q \in Runs : /\ q \in In(finished) <=> run[q].status \notin {"none", "started"}
                          /\ run[q].batch \subseteq offered
      BY <1>1 DEF RunsInv
    <2>5. QED
      BY <1>1, <1>7, <2>1, <2>2, <2>3, <2>4, Zenon
  <1>15. RunsInv'
    BY <1>1, <1>8, <1>12, <1>13, <1>14 DEF RunsInv
  <1>16. QED
    BY <1>5, <1>7, <1>9, <1>10, <1>11, <1>13, <1>15 DEF s, t, StartOf
LEMMA SessionFacts ==
  ASSUME SessionInv, session # Nil
  PROVE  /\ session.run \in Runs /\ session.stage \in Stage /\ session.left \subseteq Account
         /\ session \in Session
         /\ run[session.run].status # "none" /\ clock > 0
         /\ run[session.run].status = "started" <=> session.stage \in {"fetch", "export"}
         /\ session.stage \in {"fetch", "export", "judge", "mark"} => ~Weekly(session.run)
  BY DEF SessionInv, Session

LEMMA ExportRuns ==
  ASSUME TablesInv, Export
  PROVE  /\ RunsInv' /\ Started' = Started
         /\ \A q \in Runs : run'[q].started = run[q].started
         /\ \A q \in Runs \ {session.run} : run'[q] = run[q]
         /\ run'[session.run].status = "exported"
         /\ In(finished') = In(finished) \cup {session.run}
         /\ \E cutoff \in Cutoffs(session.run) :
              LET batch == Exported(session.run, cutoff) \ LinkOnly(session.run)
              IN /\ offered' = offered \cup batch
                 /\ covered' = (covered /\ (finished = <<>> => Waiting \subseteq batch \cup LinkOnly(session.run)))
  <1> DEFINE r == session.run
  <1>1. RunsInv /\ clock' = clock /\ session # Nil /\ session.stage = "export"
    BY DEF TablesInv, Export, fetching
  <1>2. r \in Runs /\ run[r].status = "started"
    BY <1>1, SessionFacts DEF TablesInv
  <1>3. PICK cutoff \in Cutoffs(r) :
          LET batch == Exported(r, cutoff) \ LinkOnly(r)
          IN /\ run' = [run EXCEPT ![r].status = "exported", ![r].batch = batch]
             /\ offered' = offered \cup batch
             /\ covered' = (covered /\ (finished = <<>> => Waiting \subseteq batch \cup LinkOnly(r)))
    BY DEF Export
  <1> DEFINE b == Exported(r, cutoff) \ LinkOnly(r)
  <1>4. run' = [run EXCEPT ![r].status = "exported", ![r].batch = b] /\ offered' = offered \cup b
    BY <1>3
  <1>5. b \in SUBSET Post
    BY DEF Exported
  <1>6. \A q \in Runs : run[q] \in Row
    BY <1>1 DEF RunsInv
  <1> HIDE DEF r, b
  <1>7. /\ \A q \in Runs \ {r} : run'[q] = run[q]
        /\ run'[r] = [run[r] EXCEPT !.status = "exported", !.batch = b]
        /\ DOMAIN run' = Runs /\ run' = [q \in Runs |-> run'[q]]
    BY <1>1, <1>2, <1>4 DEF RunsInv
  <1>8. /\ run'[r] \in Row /\ run'[r].status = "exported" /\ run'[r].batch = b
        /\ run'[r].started = run[r].started
    BY <1>2, <1>5, <1>6, <1>7 DEF Row, Status
  <1>9. Row' = Row
    BY <1>1 DEF Row
  <1>10. run' \in [Runs -> Row]
    <2>1. \A q \in Runs : run'[q] \in Row
      BY <1>6, <1>7, <1>8
    <2>2. QED
      BY <1>7, <2>1
  <1>11. Started' = Started
    <2>1. \A q \in Runs : run'[q].status # "none" <=> run[q].status # "none"
      BY <1>2, <1>7, <1>8
    <2>2. QED
      BY <2>1, Zenon DEF Started
  <1>12. finished' \in Seq(Runs) /\ Once(finished') /\ In(finished') = In(finished) \cup {r}
    BY <1>1, <1>2, FinishPuts DEF RunsInv, Export, r
  <1>13. \A q \in Runs : /\ q \in In(finished') <=> run'[q].status \notin {"none", "started"}
                         /\ run'[q].batch \subseteq offered'
    <2>1. \A q \in Runs \ {r} : q \in In(finished') <=> q \in In(finished)
      BY <1>12
    <2>2. QED
      BY <1>1, <1>4, <1>7, <1>8, <1>12, <2>1 DEF RunsInv
  <1>14. RunsInv'
    BY <1>1, <1>9, <1>10, <1>11, <1>12, <1>13 DEF RunsInv
  <1>15. \A q \in Runs : run'[q].started = run[q].started
    BY <1>7, <1>8
  <1>16. QED
    BY <1>3, <1>7, <1>8, <1>11, <1>12, <1>14, <1>15 DEF r

LEMMA MarkRuns ==
  ASSUME TablesInv, Mark
  PROVE  /\ RunsInv' /\ Started' = Started
         /\ \A q \in Runs : run'[q].started = run[q].started
         /\ \A q \in Runs : \/ run'[q].status = run[q].status
                            \/ q[1] = session.run[1] /\ run[q].status = "routed"
                               /\ run'[q].status = "digested"
  <1> DEFINE met(q) == q[1] = session.run[1] /\ run[q].status = "routed"
  <1>1. RunsInv /\ clock' = clock /\ offered' = offered /\ finished' = finished
    BY DEF TablesInv, Mark, fetching
  <1>2. run' = [q \in Runs |-> IF met(q) THEN [run[q] EXCEPT !.status = "digested"] ELSE run[q]]
    BY DEF Mark
  <1>3. \A q \in Runs : run[q] \in Row
    BY <1>1 DEF RunsInv
  <1>4. \A q \in Runs : run'[q] = IF met(q) THEN [run[q] EXCEPT !.status = "digested"] ELSE run[q]
    BY <1>2
  <1>5. Row' = Row
    BY <1>1 DEF Row
  <1>6. \A q \in Runs : /\ run'[q] \in Row
                        /\ run'[q].batch = run[q].batch
                        /\ run'[q].started = run[q].started
                        /\ run'[q].status = IF met(q) THEN "digested" ELSE run[q].status
    <2> SUFFICES ASSUME NEW q \in Runs
                 PROVE  /\ run'[q] \in Row
                        /\ run'[q].batch = run[q].batch
                        /\ run'[q].started = run[q].started
                        /\ run'[q].status = IF met(q) THEN "digested" ELSE run[q].status
      OBVIOUS
    <2>1. run[q] \in Row
      BY <1>3
    <2>2. CASE met(q)
      <3>1. run'[q] = [run[q] EXCEPT !.status = "digested"]
        BY <1>4, <2>2
      <3> HIDE DEF met
      <3>2. QED
        BY <2>1, <2>2, <3>1 DEF Row, Status
    <2>3. CASE ~met(q)
      BY <1>4, <2>1, <2>3
    <2>4. QED
      BY <2>2, <2>3
  <1>7. run' \in [Runs -> Row]
    BY <1>2, <1>6
  <1>8. Started' = Started
    BY <1>6 DEF Started
  <1>9. \A q \in Runs : /\ q \in In(finished') <=> run'[q].status \notin {"none", "started"}
                        /\ run'[q].batch \subseteq offered'
    BY <1>1, <1>6 DEF RunsInv
  <1>10. RunsInv'
    BY <1>1, <1>5, <1>7, <1>8, <1>9 DEF RunsInv
  <1>11. QED
    BY <1>6, <1>8, <1>10
-----------------------------------------------------------------------------
(* A fetch: where it starts and what it gets.                              *)

LEMMA NewestIs ==
  ASSUME NEW a \in Account
  PROVE  /\ Stored(a) \subseteq 1..MaxPosts
         /\ Newest(a) \in 0..MaxPosts
         /\ Stored(a) = {} => Newest(a) = 0
         /\ Stored(a) # {} => Newest(a) \in Stored(a) /\ \A j \in Stored(a) : j <= Newest(a)
  <1>1. MaxPosts \in Nat /\ Stored(a) \subseteq 1..MaxPosts
    BY ConstantsAssumption DEF Stored
  <1>2. CASE Stored(a) = {}
    BY <1>1, <1>2 DEF Newest
  <1>3. CASE Stored(a) # {}
    <2>1. Stored(a) \in SUBSET (0..MaxPosts)
      BY <1>1
    <2>2. \E i \in Stored(a) : \A j \in Stored(a) : j <= i
      BY <1>1, <1>3, <2>1, GreatestExists
    <2>3. Newest(a) \in Stored(a) /\ \A j \in Stored(a) : j <= Newest(a)
      BY <1>3, <2>2 DEF Newest
    <2>4. QED
      BY <1>1, <1>3, <2>1, <2>3
  <1>4. QED
    BY <1>2, <1>3

LEMMA TodayFacts ==
  ASSUME RunsInv
  PROVE  Today \in Nat
  BY TodayIsNat DEF RunsInv, Started, Today

LEMMA FromFacts ==
  ASSUME PostsInv, RunsInv, NEW a \in Account
  PROVE  /\ FreshFrom(a) \in Place /\ From(a) \in Place
         /\ FreshFrom(a).token = 0
         /\ FreshFrom(a).since \in {0, Newest(a)}
         /\ FreshFrom(a).start <= Today - Window
         /\ FreshFrom(a).since = 0 => FreshFrom(a).start = Today - Window
         /\ FreshFrom(a).since # 0 => FreshFrom(a).start = -Window
         /\ checkpoint[a] # Nil => From(a) = checkpoint[a]
         /\ checkpoint[a] = Nil => From(a) = FreshFrom(a)
  <1> DEFINE recent == Newest(a) # 0 /\ scene.posts[a][Newest(a)].day >= Today - Window
             n == IF recent THEN Newest(a) ELSE 0
             d == IF recent THEN -Window ELSE Today - Window
  <1>1. Today \in Nat /\ Window \in Nat /\ MaxPosts \in Nat
    BY TodayFacts, ConstantsAssumption
  <1>2. FreshFrom(a) = [since |-> n, start |-> d, token |-> 0]
    BY DEF FreshFrom
  <1>3. Newest(a) \in 0..MaxPosts
    BY NewestIs
  <1>4. n \in 0..MaxPosts /\ d \in Int /\ d <= Today - Window /\ n \in {0, Newest(a)}
    BY <1>1, <1>3
  <1>5. (n = 0 => d = Today - Window) /\ (n # 0 => d = -Window)
    BY <1>1, <1>3
  <1> HIDE DEF n, d
  <1>6. FreshFrom(a) \in Place
    BY <1>1, <1>2, <1>4 DEF Place
  <1>7. checkpoint[a] \in Place \cup {Nil}
    BY DEF PostsInv
  <1>8. From(a) \in Place
    BY <1>6, <1>7 DEF From
  <1>9. /\ FreshFrom(a).since = n /\ FreshFrom(a).start = d /\ FreshFrom(a).token = 0
    BY <1>2
  <1>10. QED
    BY <1>4, <1>5, <1>6, <1>8, <1>9 DEF From

LEMMA MatchingFacts ==
  ASSUME PostsInv, NEW a \in Account, NEW from
  PROVE  /\ Matching(a, from) \subseteq OnX(a) /\ Matching(a, from) \in SUBSET (1..MaxPosts)
         /\ Page(Matching(a, from)) \subseteq OnX(a)
         /\ Page(Matching(a, from)) \subseteq Matching(a, from)
         /\ Cardinality(Page(Matching(a, from))) \in 0..PageSize
  <1>1. Matching(a, from) \subseteq OnX(a)
    BY DEF Matching
  <1>2. Matching(a, from) \in SUBSET (1..MaxPosts)
    BY <1>1, OnXFacts
  <1>3. QED
    BY <1>1, <1>2, PageFits

(* What remains to be fetched after a page.                                *)
Rest(m, from) == IF Page(m) = m THEN Nil ELSE [from EXCEPT !.token = Least(Page(m))]

LEMMA RestIs ==
  ASSUME NEW m \in SUBSET (1..MaxPosts), NEW from \in Place, Page(m) # m
  PROVE  /\ Rest(m, from) \in Place /\ Rest(m, from) # Nil
         /\ Rest(m, from).since = from.since /\ Rest(m, from).start = from.start
         /\ Rest(m, from).token = Least(Page(m))
         /\ Least(Page(m)) \in Page(m) /\ Least(Page(m)) # 0
         /\ \A i \in m \ Page(m) : i < Least(Page(m))
  <1> DEFINE t == Least(Page(m))
  <1>1. MaxPosts \in Nat
    BY ConstantsAssumption
  <1>2. Page(m) \subseteq m
    BY PageFits
  <1>3. Page(m) # {}
    BY <1>2, PageNotEmpty
  <1>4. \A i \in m : i \in 1..MaxPosts /\ i \in Nat
    BY <1>1
  <1>5. Page(m) \in SUBSET Nat
    BY <1>2, <1>4
  <1>6. t \in Page(m)
    BY <1>3, <1>5, LeastIs
  <1>7. t \in 1..MaxPosts /\ t \in Nat
    BY <1>2, <1>4, <1>6
  <1>8. \A i \in m \ Page(m) : i < t
    <2> SUFFICES ASSUME NEW i \in m, i \notin Page(m)
                 PROVE  i < t
      OBVIOUS
    <2>1. ~(i > t)
      BY <1>6, PageIsUpper
    <2>2. i # t /\ i \in Nat
      BY <1>4, <1>6
    <2> HIDE DEF t
    <2>3. QED
      BY <1>7, <2>1, <2>2
  <1> HIDE DEF t
  <1>9. Rest(m, from) = [from EXCEPT !.token = t]
    BY DEF Rest, t
  <1>10. /\ [from EXCEPT !.token = t] \in Place
         /\ [from EXCEPT !.token = t].since = from.since
         /\ [from EXCEPT !.token = t].start = from.start
         /\ [from EXCEPT !.token = t].token = t
    BY <1>1, <1>7 DEF Place
  <1>11. t # 0
    BY <1>7
  <1>12. QED
    BY <1>6, <1>8, <1>9, <1>10, <1>11, NilAssumption DEF t
(* The posts that a fetch adds.                                            *)
Fresh(a, got, p) == p[1] = a /\ p[2] \in got /\ stored[p] = Never

Adds(a, got) ==
  \A p \in Post :
    /\ stored'[p] = IF Fresh(a, got, p) THEN clock ELSE stored[p]
    /\ by'[p] = IF Fresh(a, got, p) THEN session.run ELSE by[p]
    /\ dayOf'[p] = IF Fresh(a, got, p) THEN Today ELSE dayOf[p]

LEMMA FetchIs ==
  ASSUME TablesInv, NEW a \in Account, NEW referenced \in References, FetchPage(a, referenced)
  PROVE  \E got, place :
           /\ Adds(a, got)
           /\ checkpoint' = [checkpoint EXCEPT ![a] = place]
           /\ \/ place = From(a) /\ got \in {{}, Page(Matching(a, From(a)))}
              \/ place = Rest(Matching(a, From(a)), From(a)) /\ got = Page(Matching(a, From(a)))
           /\ session' = Nil \/ session' = [session EXCEPT !.left = @ \ {a}]
           /\ stored' = [p \in Post |-> stored'[p]]
           /\ by' = [p \in Post |-> by'[p]]
           /\ dayOf' = [p \in Post |-> dayOf'[p]]
  <1> DEFINE m == Matching(a, From(a))
  <1>1. PostsInv /\ clock \in Nat /\ clock > 0 /\ session # Nil
    BY SceneFacts, SessionFacts DEF TablesInv, PostsInv, FetchPage
  <1>2. PICK commits \in 1..4 :
          /\ stored' = Insert(a, IF commits >= 3 THEN Page(m) ELSE {})
          /\ checkpoint' = [checkpoint EXCEPT ![a] = IF commits < 4 THEN From(a) ELSE Rest(m, From(a))]
          /\ session' = IF commits < 4 THEN Nil ELSE [session EXCEPT !.left = @ \ {a}]
    BY DEF FetchPage, Rest
  <1>3. /\ by' = [p \in Post |-> IF stored'[p] # stored[p] THEN session.run ELSE by[p]]
        /\ dayOf' = [p \in Post |-> IF stored'[p] # stored[p] THEN Today ELSE dayOf[p]]
    BY DEF FetchPage
  <1> DEFINE got == IF commits >= 3 THEN Page(m) ELSE {}
             place == IF commits < 4 THEN From(a) ELSE Rest(m, From(a))
  <1>4. got \in {{}, Page(m)} /\ (commits < 4 => place = From(a))
        /\ (~(commits < 4) => place = Rest(m, From(a)) /\ got = Page(m))
    BY <1>2
  <1>5. stored' = [p \in Post |-> IF Fresh(a, got, p) THEN clock ELSE stored[p]]
    BY <1>2 DEF Insert, Fresh
  <1>6. checkpoint' = [checkpoint EXCEPT ![a] = place]
    BY <1>2
  <1>7. session' = Nil \/ session' = [session EXCEPT !.left = @ \ {a}]
    BY <1>2
  <1> HIDE DEF got, place, m
  <1>8. \A p \in Post : stored'[p] # stored[p] <=> Fresh(a, got, p)
    BY <1>1, <1>5 DEF Fresh, Never
  <1>9. Adds(a, got)
    <2> SUFFICES ASSUME NEW p \in Post
                 PROVE  /\ stored'[p] = IF Fresh(a, got, p) THEN clock ELSE stored[p]
                        /\ by'[p] = IF Fresh(a, got, p) THEN session.run ELSE by[p]
                        /\ dayOf'[p] = IF Fresh(a, got, p) THEN Today ELSE dayOf[p]
      BY DEF Adds
    <2>1. stored'[p] = IF Fresh(a, got, p) THEN clock ELSE stored[p]
      BY <1>5
    <2>2. by'[p] = IF stored'[p] # stored[p] THEN session.run ELSE by[p]
      BY <1>3
    <2>3. dayOf'[p] = IF stored'[p] # stored[p] THEN Today ELSE dayOf[p]
      BY <1>3
    <2>4. QED
      BY <1>8, <2>1, <2>2, <2>3
  <1>10. /\ stored' = [p \in Post |-> stored'[p]]
         /\ by' = [p \in Post |-> by'[p]]
         /\ dayOf' = [p \in Post |-> dayOf'[p]]
    BY <1>3, <1>5
  <1>11. \/ place = From(a) /\ got \in {{}, Page(m)}
         \/ place = Rest(m, From(a)) /\ got = Page(m)
    BY <1>4
  <1>12. QED
    BY <1>6, <1>7, <1>9, <1>10, <1>11 DEF m

LEMMA FetchTables ==
  ASSUME TablesInv, NEW a \in Account, NEW referenced \in References, FetchPage(a, referenced)
  PROVE  TablesInv'
  <1> DEFINE m == Matching(a, From(a))
  <1>1. /\ PostsInv /\ RunsInv /\ RoutesInv /\ SessionInv
        /\ session # Nil /\ session.stage = "fetch" /\ a \in session.left /\ Affordable
        /\ UNCHANGED <<scene, clock, roster, labelled, run, finished, route, digest, offered, covered>>
    BY DEF TablesInv, FetchPage
  <1>2. clock \in Nat /\ clock > 0 /\ session.run \in Runs
    BY <1>1, SceneFacts, SessionFacts DEF PostsInv
  <1>3. PICK got, place :
           /\ Adds(a, got)
           /\ checkpoint' = [checkpoint EXCEPT ![a] = place]
           /\ \/ place = From(a) /\ got \in {{}, Page(m)}
              \/ place = Rest(m, From(a)) /\ got = Page(m)
           /\ session' = Nil \/ session' = [session EXCEPT !.left = @ \ {a}]
           /\ stored' = [p \in Post |-> stored'[p]]
           /\ by' = [p \in Post |-> by'[p]]
           /\ dayOf' = [p \in Post |-> dayOf'[p]]
    BY FetchIs
  <1>4. /\ m \in SUBSET (1..MaxPosts) /\ Page(m) \subseteq OnX(a)
        /\ Cardinality(Page(m)) \in 0..PageSize
    BY <1>1, MatchingFacts
  <1>5. From(a) \in Place /\ Today \in Nat
    BY <1>1, FromFacts, TodayFacts
  <1> HIDE DEF m
  <1>6. place \in Place \cup {Nil}
    BY <1>3, <1>4, <1>5, RestIs DEF Rest
  <1>7. got \subseteq OnX(a)
    BY <1>3, <1>4
  <1>8. PostsInv'
    <2>1. stored' \in [Post -> 0..clock]
      <3>1. \A p \in Post : stored'[p] \in 0..clock
        BY <1>1, <1>2, <1>3 DEF PostsInv, Adds
      <3>2. QED
        BY <1>3, <3>1
    <2>2. by' \in [Post -> Runs \cup {Nil}]
      <3>1. \A p \in Post : by'[p] \in Runs \cup {Nil}
        BY <1>1, <1>2, <1>3 DEF PostsInv, Adds
      <3>2. QED
        BY <1>3, <3>1
    <2>3. dayOf' \in [Post -> Nat]
      <3>1. \A p \in Post : dayOf'[p] \in Nat
        BY <1>1, <1>5, <1>3 DEF PostsInv, Adds
      <3>2. QED
        BY <1>3, <3>1
    <2>4. \A b : OnX(b)' = OnX(b)
      BY <1>1 DEF OnX
    <2>5. \A p \in Post : stored'[p] # Never => p[2] \in OnX(p[1]) /\ by'[p] \in Runs
      BY <1>1, <1>2, <1>3, <1>7 DEF PostsInv, Adds, Fresh
    <2>6. checkpoint' \in [Account -> Place \cup {Nil}]
      BY <1>1, <1>3, <1>6 DEF PostsInv
    <2>7. ReadsInBudget'
      <3> DEFINE k == Cardinality(Page(m))
      <3>0. /\ referenced <= MostReferenced * k
            /\ \E commits \in 1..4 : reads' = IF commits >= 2 THEN reads + Billed(k, referenced) ELSE reads
        BY DEF FetchPage, m
      <3>1. (reads' = reads \/ reads' = reads + (k + referenced)) /\ referenced <= 2 * k /\ referenced \in Nat
        BY <3>0, ConstantsAssumption DEF Billed, References, MostReferenced
      <3>2. /\ reads \in Nat /\ reads < MaxReads - Floor /\ scene' = scene
            /\ reads <= MostReads \/ reads \in scene.usage
        BY <1>1, ConstantsAssumption DEF PostsInv, ReadsInBudget, Affordable, Remaining, MostReads
      <3>3. QED
        BY <1>4, <3>1, <3>2, ConstantsAssumption DEF ReadsInBudget, MostReads, MostReferenced
    <2>8. QED
      BY <1>1, <2>1, <2>2, <2>3, <2>4, <2>5, <2>6, <2>7 DEF PostsInv
  <1>9. RunsInv'
    BY <1>1 DEF RunsInv, Row, Started
  <1>10. RoutesInv'
    BY <1>1 DEF RoutesInv
  <1>11. SessionInv'
    BY <1>1, <1>3 DEF SessionInv, Session
  <1>12. QED
    BY <1>8, <1>9, <1>10, <1>11 DEF TablesInv
-----------------------------------------------------------------------------
(* The other steps keep the tables.                                        *)

(* Steps that do not touch the posts.                                      *)
LEMMA PostsStay ==
  ASSUME PostsInv, UNCHANGED fetching
  PROVE  PostsInv'
  BY DEF PostsInv, ReadsInBudget, fetching, OnX

LEMMA RunsStay ==
  ASSUME RunsInv, UNCHANGED <<clock, run, finished, offered>>
  PROVE  RunsInv' /\ Started' = Started
  BY DEF RunsInv, Row, Started

LEMMA RoutesStay ==
  ASSUME RoutesInv, UNCHANGED <<labelled, route, offered>>
  PROVE  RoutesInv'
  BY DEF RoutesInv

LEMMA WorldTables ==
  ASSUME TablesInv,
         \/ \E approved \in scene.rosters : Seed(approved)
         \/ \E p \in scene.labels : Review(p)
         \/ \E asked \in 1..PageSize, answered \in 0..PageSize, referenced \in References :
                  Rehydrate(asked, answered, referenced)
         \/ \E n \in scene.usage : SyncUsage(n)
  PROVE  TablesInv'
  <1>1. PostsInv /\ RunsInv /\ RoutesInv /\ SessionInv
    BY DEF TablesInv
  <1>2. CASE \E approved \in scene.rosters : Seed(approved)
    <2>1. PICK approved \in scene.rosters : Seed(approved)
      BY <1>2
    <2>2. UNCHANGED <<scene, clock, stored, checkpoint, reads, by, dayOf>> /\ UNCHANGED judging
          /\ UNCHANGED session /\ roster' = approved /\ approved \subseteq Account
      BY <1>1, <2>1, SceneFacts DEF Seed
    <2>3. PostsInv'
      BY <1>1, <2>2 DEF PostsInv, ReadsInBudget, OnX
    <2>4. RunsInv' /\ RoutesInv' /\ SessionInv'
      BY <1>1, <2>2, RunsStay, RoutesStay DEF judging, SessionInv
    <2>5. QED
      BY <2>3, <2>4 DEF TablesInv
  <1>3. CASE \E p \in scene.labels : Review(p)
    <2>1. PICK p \in scene.labels : Review(p)
      BY <1>3
    <2>2. p \in Post /\ labelled' = labelled \cup {p} /\ UNCHANGED fetching
          /\ UNCHANGED <<run, finished, route, digest, offered, killed, covered, session>>
      BY <1>1, <2>1, SceneFacts DEF Review, MarkReviewed
    <2>3. RoutesInv'
      BY <1>1, <2>2 DEF RoutesInv
    <2>4. PostsInv' /\ RunsInv' /\ SessionInv'
      BY <1>1, <2>2, PostsStay, RunsStay DEF fetching, SessionInv
    <2>5. QED
      BY <2>3, <2>4 DEF TablesInv
  <1>4. CASE \E asked \in 1..PageSize, answered \in 0..PageSize, referenced \in References :
               Rehydrate(asked, answered, referenced)
    <2>1. PICK asked \in 1..PageSize, answered \in 0..PageSize, referenced \in References :
            Rehydrate(asked, answered, referenced)
      BY <1>4
    <2>2. UNCHANGED <<scene, clock, roster, stored, checkpoint, by, dayOf>> /\ UNCHANGED judging
          /\ UNCHANGED session
      BY <2>1 DEF Rehydrate
    <2>3. ReadsInBudget'
      <3>1. /\ reads' = reads + (answered + referenced) /\ reads \in Nat
            /\ MaxReads - reads > asked + Floor
            /\ answered <= asked /\ referenced <= 2 * answered
        BY <1>1, <2>1 DEF Rehydrate, Remaining, PostsInv, ReadsInBudget, Billed, MostReferenced
      <3>2. referenced \in Nat
        BY ConstantsAssumption DEF References, MostReferenced
      <3>3. QED
        BY <3>1, <3>2, ConstantsAssumption DEF ReadsInBudget, MostReads, MostReferenced
    <2>4. PostsInv'
      BY <1>1, <2>2, <2>3 DEF PostsInv, OnX
    <2>5. RunsInv' /\ RoutesInv' /\ SessionInv'
      BY <1>1, <2>2, RunsStay, RoutesStay DEF judging, SessionInv
    <2>6. QED
      BY <2>4, <2>5 DEF TablesInv
  <1>5. CASE \E n \in scene.usage : SyncUsage(n)
    <2>1. PICK n \in scene.usage : SyncUsage(n)
      BY <1>5
    <2>2. UNCHANGED <<scene, clock, roster, stored, checkpoint, by, dayOf>> /\ UNCHANGED judging
          /\ UNCHANGED session /\ reads' = n
      BY <2>1 DEF SyncUsage
    <2>3. ReadsInBudget'
      BY <1>1, <2>2, SceneFacts DEF ReadsInBudget
    <2>4. PostsInv'
      BY <1>1, <2>2, <2>3 DEF PostsInv, OnX
    <2>5. RunsInv' /\ RoutesInv' /\ SessionInv'
      BY <1>1, <2>2, RunsStay, RoutesStay DEF judging, SessionInv
    <2>6. QED
      BY <2>4, <2>5 DEF TablesInv
  <1>6. QED
    BY <1>2, <1>3, <1>4, <1>5

LEMMA StartTables ==
  ASSUME TablesInv, NEW r \in Runs, Start(r)
  PROVE  TablesInv'
  <1>1. PostsInv /\ RunsInv /\ RoutesInv
    BY DEF TablesInv
  <1>2. /\ clock \in Nat /\ clock' = clock + 1 /\ clock < scene.cycles /\ scene.cycles \in Nat
        /\ UNCHANGED <<scene, roster, stored, checkpoint, reads, by, dayOf>>
        /\ UNCHANGED <<labelled, route, offered>>
    BY <1>1, SceneFacts DEF PostsInv, Start
  <1>3. PostsInv'
    <2>1. clock' \in 0..scene.cycles /\ 0..clock \subseteq 0..clock'
      BY <1>2
    <2>2. stored' \in [Post -> 0..clock']
      BY <1>1, <1>2, <2>1 DEF PostsInv
    <2>3. \A p \in Post : stored'[p] # Never => p[2] \in OnX(p[1])' /\ by'[p] \in Runs
      <3> SUFFICES ASSUME NEW p \in Post, stored[p] # Never
                   PROVE  p[2] \in OnX(p[1])' /\ by[p] \in Runs
        BY <1>2
      <3>1. p[2] \in OnX(p[1]) /\ by[p] \in Runs /\ p[1] \in Account
        BY <1>1 DEF PostsInv, Post
      <3>2. scene.posts[p[1]][p[2]].from \in Nat /\ p[2] \in DOMAIN scene.posts[p[1]]
        BY <1>1, <3>1, OnXFacts DEF OnX
      <3>3. scene.posts[p[1]][p[2]].from <= clock
        BY <3>1 DEF OnX
      <3>4. scene.posts[p[1]][p[2]].from <= clock'
        BY <1>2, <3>2, <3>3
      <3>5. QED
        BY <1>2, <3>1, <3>2, <3>4 DEF OnX
    <2>4. QED
      BY <1>1, <1>2, <2>1, <2>2, <2>3 DEF PostsInv, ReadsInBudget
  <1>4. RunsInv' /\ run'[r].status = IF Weekly(r) THEN "routed" ELSE "started"
    BY StartRuns
  <1>5. RoutesInv'
    BY <1>1, <1>2, RoutesStay
  <1>6. SessionInv'
    <2>1. session' = [run |-> r, stage |-> IF Weekly(r) THEN "render" ELSE "fetch",
                      left |-> IF Weekly(r) THEN {} ELSE roster]
      BY DEF Start, ActiveAccounts
    <2>2. roster \subseteq Account
      BY <1>1 DEF PostsInv
    <2>3. session' \in Session /\ session'.run = r
          /\ session'.stage = IF Weekly(r) THEN "render" ELSE "fetch"
      BY <2>1, <2>2 DEF Session, Stage
    <2>4. clock' > 0
      BY <1>2
    <2>5. QED
      BY <1>4, <2>3, <2>4 DEF SessionInv
  <1>7. QED
    BY <1>3, <1>4, <1>5, <1>6 DEF TablesInv
(* Steps in which only the session moves.                                  *)
LEMMA MoveTables ==
  ASSUME TablesInv, \/ \E r \in Runs : Resume(r)
                    \/ Fetched \/ ExportBreaks \/ Render \/ Verify \/ Kill
  PROVE  TablesInv'
  <1>1. PostsInv /\ RunsInv /\ RoutesInv /\ SessionInv
    BY DEF TablesInv
  <1>2. UNCHANGED fetching /\ UNCHANGED <<labelled, run, finished, route, offered>>
    BY DEF Resume, Fetched, ExportBreaks, Render, Verify, Kill, judging
  <1>3. PostsInv' /\ RunsInv' /\ RoutesInv' /\ clock' = clock /\ clock \in Nat
    BY <1>1, <1>2, PostsStay, RunsStay, RoutesStay, SceneFacts DEF fetching, PostsInv
  <1>4. SessionInv'
    <2>1. ASSUME NEW r \in Runs, Resume(r)
          PROVE  SessionInv'
      <3>1. session' = [run |-> r, stage |-> "judge", left |-> {}]
        BY <2>1 DEF Resume
      <3>2. session' \in Session /\ session'.run = r /\ session'.stage = "judge"
        BY <3>1 DEF Session, Stage
      <3>3. r \in Started /\ run[r].status \notin {"none", "started"} /\ ~Weekly(r)
        BY <2>1 DEF Resume, Started
      <3>4. clock > 0
        BY <1>1, <3>3 DEF RunsInv
      <3>5. QED
        BY <1>2, <1>3, <3>2, <3>3, <3>4 DEF SessionInv
    <2>2. CASE session' = Nil
      BY <2>2 DEF SessionInv
    <2>3. ASSUME session # Nil, NEW s \in Stage, session' = [session EXCEPT !.stage = s],
                 s \in {"fetch", "export"} <=> session.stage \in {"fetch", "export"},
                 s \in {"fetch", "export", "judge", "mark"} => ~Weekly(session.run)
          PROVE  SessionInv'
      <3>1. session \in Session
        BY <1>1, <2>3, SessionFacts
      <3>2. session' \in Session /\ session'.run = session.run /\ session'.stage = s
        BY <2>3, <3>1 DEF Session
      <3>3. QED
        BY <1>1, <1>2, <1>3, <2>3, <3>2, SessionFacts DEF SessionInv
    <2>4. CASE Fetched
      BY <1>1, <2>3, <2>4, SessionFacts DEF Fetched, Stage
    <2>5. CASE ExportBreaks \/ Kill
      BY <2>2, <2>5 DEF ExportBreaks, Kill
    <2>6. CASE Render
      BY <1>1, <2>3, <2>6, SessionFacts DEF Render, Stage
    <2>7. CASE Verify
      <3>1. CASE session' = Nil
        BY <2>2, <3>1
      <3>2. CASE session' # Nil
        BY <1>1, <2>3, <2>7, <3>2, SessionFacts DEF Verify, Stage
      <3>3. QED
        BY <3>1, <3>2
    <2>8. QED
      BY <2>1, <2>4, <2>5, <2>6, <2>7
  <1>5. QED
    BY <1>3, <1>4 DEF TablesInv
LEMMA FetchFailsRuns ==
  ASSUME TablesInv, NEW a, FetchFails(a)
  PROVE  /\ RunsInv' /\ Started' = Started
         /\ session.run \in Runs
         /\ run' = [run EXCEPT ![session.run].status = "failed"]
         /\ In(finished') = In(finished) \cup {session.run}
  <1>1. RunsInv /\ session.run \in Runs /\ run[session.run].status # "none"
    BY SessionFacts DEF TablesInv, FetchFails
  <1>2. /\ run' = [run EXCEPT ![session.run].status = "failed"]
        /\ finished' = Finish(session.run, finished) /\ clock' = clock /\ offered' = offered
    BY DEF FetchFails
  <1>3. RunsInv' /\ Started' = Started
    BY <1>1, <1>2, StatusStep DEF Status
  <1>4. In(finished') = In(finished) \cup {session.run}
    BY <1>1, <1>2, FinishPuts DEF RunsInv
  <1>5. QED
    BY <1>1, <1>2, <1>3, <1>4

LEMMA FetchFailsTables ==
  ASSUME TablesInv, NEW a \in Account, FetchFails(a)
  PROVE  TablesInv'
  <1>1. PostsInv /\ RunsInv /\ RoutesInv
    BY DEF TablesInv
  <1>2. /\ checkpoint' = [checkpoint EXCEPT ![a] = From(a)]
        /\ session' = Nil
        /\ UNCHANGED <<scene, clock, roster, stored, reads, by, dayOf, labelled, route, offered>>
    BY DEF FetchFails
  <1>3. From(a) \in Place
    BY <1>1, FromFacts
  <1>4. checkpoint' \in [Account -> Place \cup {Nil}]
    BY <1>1, <1>2, <1>3 DEF PostsInv
  <1>5. PostsInv'
    BY <1>1, <1>2, <1>4 DEF PostsInv, ReadsInBudget, OnX
  <1>6. RunsInv' /\ RoutesInv' /\ SessionInv'
    BY <1>1, <1>2, FetchFailsRuns, RoutesStay DEF SessionInv
  <1>7. QED
    BY <1>5, <1>6 DEF TablesInv

LEMMA ExportTables ==
  ASSUME TablesInv, Export
  PROVE  TablesInv'
  <1>1. PostsInv /\ RunsInv /\ RoutesInv /\ SessionInv /\ UNCHANGED fetching
        /\ session # Nil /\ session.stage = "export" /\ UNCHANGED labelled
    BY DEF TablesInv, Export
  <1>2. PostsInv' /\ RunsInv' /\ clock' = clock
    BY <1>1, PostsStay, ExportRuns DEF fetching
  <1> DEFINE r == session.run
             links == LinkOnly(r)
  <1>3. r \in Runs /\ ~Weekly(r) /\ clock > 0 /\ session \in Session
    BY <1>1, SessionFacts
  <1>4. PICK cutoff \in Cutoffs(r) : offered' = offered \cup (Exported(r, cutoff) \ links)
    BY ExportRuns
  <1>5. offered' \subseteq Post /\ offered \subseteq offered'
    BY <1>1, <1>4 DEF Exported, RoutesInv
  <1>6. route' = [p \in Post |-> IF p \in links THEN [run |-> r, route |-> "article_queue"] ELSE route[p]]
    BY DEF Export
  <1>7. RoutesInv'
    <2> DEFINE x == [run |-> r, route |-> "article_queue"]
    <2> HIDE DEF links, r
    <2>1. x \in Routed /\ x.route = "article_queue"
      BY <1>3 DEF Routed
    <2> HIDE DEF x
    <2>2. \A p \in Post : route'[p] = IF p \in links THEN x ELSE route[p]
      BY <1>6 DEF x
    <2>3. \A p \in Post : route'[p] \in Routed \cup {Nil}
      BY <1>1, <2>1, <2>2 DEF RoutesInv
    <2>4. \A p \in Post : route'[p] # Nil => p \in offered' \/ route'[p].route = "article_queue"
      BY <1>1, <1>5, <2>1, <2>2 DEF RoutesInv
    <2>5. route' \in [Post -> Routed \cup {Nil}]
      BY <1>6, <2>3
    <2>6. QED
      BY <1>1, <1>5, <2>4, <2>5 DEF RoutesInv
  <1>8. SessionInv'
    <2>1. session' = [session EXCEPT !.stage = "judge"]
      BY DEF Export
    <2>2. session' \in Session /\ session'.run = r /\ session'.stage = "judge"
      BY <1>3, <2>1 DEF Session, Stage
    <2>3. run'[r].status = "exported"
      BY ExportRuns
    <2>4. QED
      BY <1>2, <1>3, <2>2, <2>3 DEF SessionInv
  <1>9. QED
    BY <1>2, <1>7, <1>8 DEF TablesInv

(* A judgment is of posts in the run's batch, and of none another run has  *)
(* routed.                                                                 *)
LEMMA JudgeIs ==
  ASSUME TablesInv, Judge
  PROVE  /\ session # Nil /\ session.stage = "judge"
         /\ session.run \in Runs /\ ~Weekly(session.run)
         /\ RunsInv' /\ Started' = Started
         /\ run' = [run EXCEPT ![session.run].status = "routed"]
         /\ In(finished') = In(finished)
         /\ session' = [session EXCEPT !.stage = "render"]
         /\ UNCHANGED fetching /\ UNCHANGED <<labelled, digest, offered, covered>>
         /\ \E judged \in SUBSET run[session.run].batch :
              \E judgment \in [judged -> scene.routes] :
                /\ \A p \in judged : route[p] # Nil => route[p].run = session.run
                /\ route' = [p \in Post |-> IF p \in judged THEN [run |-> session.run, route |-> judgment[p]]
                                            ELSE route[p]]
  <1> DEFINE r == session.run
  <1>1. RunsInv /\ session # Nil /\ session.stage = "judge" /\ r \in Runs /\ ~Weekly(r)
        /\ run[r].status \notin {"none", "started"}
    BY SessionFacts DEF TablesInv, Judge
  <1>2. PICK judged \in SUBSET run[r].batch : \E judgment \in [judged -> scene.routes] : Route(judgment)
    BY DEF Judge
  <1>3. PICK judgment \in [judged -> scene.routes] : Route(judgment)
    BY <1>2
  <1>4. DOMAIN judgment = judged
    OBVIOUS
  <1>5. /\ \A p \in judged : route[p] # Nil => route[p].run = r
        /\ route' = [p \in Post |-> IF p \in judged THEN [run |-> r, route |-> judgment[p]] ELSE route[p]]
        /\ run' = [run EXCEPT ![r].status = "routed"]
        /\ finished' = Finish(r, finished)
        /\ session' = [session EXCEPT !.stage = "render"]
        /\ UNCHANGED fetching /\ UNCHANGED <<labelled, digest, offered, covered>>
    BY <1>3, <1>4 DEF Route, StatusOfRouted
  <1>6. clock' = clock
    BY <1>5 DEF fetching
  <1>7. RunsInv' /\ Started' = Started
    BY <1>1, <1>5, <1>6, StatusStep DEF Status
  <1>8. In(finished') = In(finished)
    <2>1. r \in In(finished) /\ finished \in Seq(Runs) /\ Once(finished)
      BY <1>1 DEF RunsInv
    <2>2. In(finished') = In(finished) \cup {r}
      BY <1>1, <1>5, <2>1, FinishPuts
    <2>3. QED
      BY <2>1, <2>2, Zenon
  <1>9. QED
    BY <1>1, <1>5, <1>7, <1>8

LEMMA JudgeTables ==
  ASSUME TablesInv, Judge
  PROVE  TablesInv'
  <1> DEFINE r == session.run
  <1>1. PostsInv /\ RunsInv /\ RoutesInv /\ SessionInv
    BY DEF TablesInv
  <1>2. /\ session # Nil /\ session.stage = "judge" /\ r \in Runs /\ ~Weekly(r)
        /\ RunsInv' /\ UNCHANGED fetching /\ UNCHANGED <<labelled, offered>>
        /\ run' = [run EXCEPT ![r].status = "routed"]
        /\ session' = [session EXCEPT !.stage = "render"]
    BY JudgeIs
  <1>3a. PICK judged \in SUBSET run[r].batch :
          \E judgment \in [judged -> scene.routes] :
            route' = [p \in Post |-> IF p \in judged THEN [run |-> r, route |-> judgment[p]] ELSE route[p]]
    BY JudgeIs
  <1>3. PICK judgment \in [judged -> scene.routes] :
          route' = [p \in Post |-> IF p \in judged THEN [run |-> r, route |-> judgment[p]] ELSE route[p]]
    BY <1>3a
  <1>4. PostsInv' /\ clock' = clock
    BY <1>1, <1>2, PostsStay DEF fetching
  <1> HIDE DEF r
  <1>5. judged \subseteq offered
    BY <1>1, <1>2, <1>3 DEF RunsInv
  <1>6. \A p \in judged : judgment[p] \in {"digest", "skip"}
    BY <1>1, <1>3, SceneFacts
  <1>7. \A p \in Post : route'[p] = IF p \in judged THEN [run |-> r, route |-> judgment[p]] ELSE route[p]
    BY <1>3
  <1>8. \A p \in Post : route'[p] \in Routed \cup {Nil}
    <2>1. \A p \in judged : [run |-> r, route |-> judgment[p]] \in Routed
      BY <1>2, <1>6 DEF Routed, r
    <2>2. \A p \in Post : route[p] \in Routed \cup {Nil}
      BY <1>1 DEF RoutesInv
    <2>3. QED
      BY <1>7, <2>1, <2>2
  <1>9. \A p \in Post : route'[p] # Nil => p \in offered' \/ route'[p].route = "article_queue"
    BY <1>1, <1>2, <1>5, <1>7 DEF RoutesInv
  <1>10. route' \in [Post -> Routed \cup {Nil}]
    BY <1>3, <1>8
  <1>11. RoutesInv'
    BY <1>1, <1>2, <1>9, <1>10 DEF RoutesInv
  <1>12. SessionInv'
    <2>1. session \in Session /\ session.run = r /\ clock > 0
      BY <1>1, <1>2, SessionFacts DEF r
    <2>2. session' \in Session /\ session'.run = r /\ session'.stage = "render"
      BY <1>2, <2>1 DEF Session, Stage
    <2>3. run[r] \in Row /\ run'[r] = [run[r] EXCEPT !.status = "routed"]
      BY <1>1, <1>2 DEF RunsInv
    <2>4. run'[r].status = "routed"
      BY <2>3 DEF Row
    <2>5. QED
      BY <1>4, <2>1, <2>2, <2>4 DEF SessionInv
  <1>13. QED
    BY <1>2, <1>4, <1>11, <1>12 DEF TablesInv

LEMMA RenderWeeklyIs ==
  ASSUME TablesInv, RenderWeekly
  PROVE  /\ session # Nil /\ session.stage = "render"
         /\ session.run \in Runs /\ Weekly(session.run)
         /\ RunsInv' /\ Started' = Started
         /\ run' = [run EXCEPT ![session.run].status = "digested"]
         /\ UNCHANGED fetching /\ UNCHANGED <<labelled, finished, route, digest, offered, covered>>
         /\ session' = [session EXCEPT !.stage = "verify"]
  <1> DEFINE r == session.run
  <1>1. RunsInv /\ session # Nil /\ session.stage = "render" /\ r \in Runs /\ Weekly(r)
        /\ run[r].status \notin {"none", "started"}
    BY SessionFacts DEF TablesInv, RenderWeekly
  <1>2. /\ run' = [run EXCEPT ![session.run].status = "digested"]
        /\ UNCHANGED fetching /\ UNCHANGED <<labelled, finished, route, digest, offered, covered>>
        /\ session' = [session EXCEPT !.stage = "verify"]
    BY DEF RenderWeekly
  <1>3. clock' = clock /\ finished' = finished /\ offered' = offered
    BY <1>2 DEF fetching
  <1>4. RunsInv' /\ Started' = Started
    BY <1>1, <1>2, <1>3, StatusStep DEF Status
  <1>5. QED
    BY <1>1, <1>2, <1>4

LEMMA RenderedTables ==
  ASSUME TablesInv, RenderWeekly \/ Mark
  PROVE  TablesInv'
  <1> DEFINE r == session.run
  <1>1. PostsInv /\ RunsInv /\ RoutesInv /\ SessionInv /\ session # Nil
        /\ session.stage \in {"render", "mark"}
    BY DEF TablesInv, RenderWeekly, Mark
  <1>2. /\ RunsInv' /\ UNCHANGED fetching /\ UNCHANGED <<labelled, route, offered>>
        /\ session' = [session EXCEPT !.stage = "verify"]
    BY MarkRuns, RenderWeeklyIs DEF Mark
  <1>3. PostsInv' /\ RoutesInv' /\ clock' = clock
    BY <1>1, <1>2, PostsStay, RoutesStay DEF fetching
  <1>4. session \in Session /\ r \in Runs /\ clock > 0 /\ run[r].status \notin {"none", "started"}
    BY <1>1, SessionFacts
  <1>5. session' \in Session /\ session'.run = r /\ session'.stage = "verify"
    BY <1>2, <1>4 DEF Session, Stage
  <1>6. run'[r].status \notin {"none", "started"}
    <2>1. CASE RenderWeekly
      <3>1. run[r] \in Row /\ run'[r] = [run[r] EXCEPT !.status = "digested"]
        BY <1>1, <1>4, <2>1, RenderWeeklyIs DEF RunsInv
      <3>2. QED
        BY <3>1 DEF Row
    <2>2. CASE Mark
      BY <1>4, <2>2, MarkRuns
    <2>3. QED
      BY <2>1, <2>2
  <1>7. SessionInv'
    BY <1>3, <1>4, <1>5, <1>6 DEF SessionInv
  <1>8. QED
    BY <1>2, <1>3, <1>7 DEF TablesInv
LEMMA NextTables ==
  ASSUME TablesInv, Next
  PROVE  TablesInv'
  <1>1. ASSUME NEW r \in Runs, Start(r)
        PROVE  TablesInv'
    BY <1>1, StartTables
  <1>2. ASSUME NEW a \in Account, FetchFails(a)
        PROVE  TablesInv'
    BY <1>2, FetchFailsTables
  <1>3. ASSUME NEW a \in Account, NEW referenced \in References, FetchPage(a, referenced)
        PROVE  TablesInv'
    BY <1>3, FetchTables
  <1>4. QED
    BY <1>1, <1>2, <1>3, WorldTables, MoveTables, ExportTables, JudgeTables, RenderedTables DEF Next

LEMMA TablesHold == Spec => []TablesInv
  <1>1. Init => TablesInv
    BY InitTables
  <1>2. TablesInv /\ [Next]_vars => TablesInv'
    <2>1. ASSUME TablesInv, UNCHANGED vars
          PROVE  TablesInv'
      <3>1. PostsInv' /\ RunsInv' /\ RoutesInv'
        BY <2>1, PostsStay, RunsStay, RoutesStay DEF TablesInv, vars, fetching, judging
      <3>2. SessionInv'
        BY <2>1 DEF TablesInv, SessionInv, vars, fetching, judging
      <3>3. QED
        BY <3>1, <3>2 DEF TablesInv
    <2>2. QED
      BY <2>1, NextTables
  <1>3. QED
    BY <1>1, <1>2, PTL DEF Spec

(* The tables are always well formed: runs, their list, routes and the     *)
(* reads of the month, whatever fails or dies.                             *)
THEOREM DigesterTypes == Spec => []TypeOK
  BY TablesHold, TablesAreTyped, PTL

-----------------------------------------------------------------------------
(* The digest of a day is current, or a run of the day is still to be      *)
(* rendered; what the session at work has rendered is current.             *)

Outstanding(d) == \E r \in Runs : r[1] = d /\ ~Weekly(r) /\ run[r].status = "routed"

DigestInv ==
  /\ digest \in [Day -> SUBSET Post]
  /\ \A d \in Day : digest[d] = Digested(d) \/ Outstanding(d)
  /\ session # Nil /\ session.stage = "mark" => digest[session.run[1]] = Digested(session.run[1])

LEMMA DigestsCurrent ==
  ASSUME TablesInv, DigestInv
  PROVE  DigestIsCurrent
  <1> SUFFICES ASSUME NEW d \in Day, Ready(d), ~(digest[d] = Digested(d))
               PROVE  FALSE
    BY DEF DigestIsCurrent
  <1>1. PICK r \in Runs : r[1] = d /\ run[r].status = "routed"
    BY DEF DigestInv, Outstanding
  <1>2. r \in Started
    BY <1>1 DEF Started
  <1>3. QED
    BY <1>1, <1>2 DEF Ready

LEMMA InitDigest ==
  ASSUME Init
  PROVE  DigestInv
  <1>1. \A d \in Day : Digested(d) = {} /\ digest[d] = {}
    BY DEF Init, Digested
  <1>2. QED
    BY <1>1 DEF Init, DigestInv

(* Steps that neither route nor render.                                    *)
LEMMA DigestStays ==
  ASSUME DigestInv, UNCHANGED digest,
         \A d : Digested(d)' = Digested(d),
         \A d \in Day : Outstanding(d) => Outstanding(d)',
         session' # Nil => session'.stage # "mark"
  PROVE  DigestInv'
  BY DEF DigestInv

LEMMA NextDigest ==
  ASSUME TablesInv, DigestInv, Next
  PROVE  DigestInv'
  <1>1. PostsInv /\ RunsInv /\ RoutesInv /\ SessionInv
    BY DEF TablesInv
  <1>2. ASSUME UNCHANGED <<route, run, digest>>, session' = Nil \/ session'.stage # "mark"
        PROVE  DigestInv'
    BY <1>2, DigestStays DEF Digested, Outstanding
  <1>3. ASSUME UNCHANGED <<route, run, digest, session>>
        PROVE  DigestInv'
    BY <1>3 DEF DigestInv, Digested, Outstanding
  <1>4. CASE \/ \E approved \in scene.rosters : Seed(approved)
             \/ \E p \in scene.labels : Review(p)
             \/ \E asked \in 1..PageSize, answered \in 0..PageSize, referenced \in References :
                  Rehydrate(asked, answered, referenced)
             \/ \E n \in scene.usage : SyncUsage(n)
    BY <1>3, <1>4 DEF Seed, Review, Rehydrate, SyncUsage, judging
  <1>5. CASE \/ \E r \in Runs : Resume(r)
             \/ Fetched \/ ExportBreaks \/ Verify \/ Kill
    <2>1. UNCHANGED <<route, run, digest>>
      BY <1>5 DEF Resume, Fetched, ExportBreaks, Verify, Kill, judging
    <2>2. ASSUME session # Nil, NEW s, s # "mark", session' = [session EXCEPT !.stage = s]
          PROVE  session'.stage # "mark"
      BY <1>1, <2>2, SessionFacts DEF Session
    <2>3. session' = Nil \/ session'.stage # "mark"
      BY <1>5, <2>2 DEF Resume, Fetched, ExportBreaks, Verify, Kill
    <2>4. QED
      BY <1>2, <2>1, <2>3
  <1>6. ASSUME NEW a \in Account, NEW referenced \in References, FetchPage(a, referenced)
        PROVE  DigestInv'
    <2>1. session # Nil /\ session.stage = "fetch" /\ UNCHANGED <<route, run, digest>>
      BY <1>6 DEF FetchPage
    <2>2. session' = Nil \/ session' = [session EXCEPT !.left = @ \ {a}]
      BY <1>6, FetchIs
    <2>3. session' = Nil \/ session'.stage # "mark"
      BY <1>1, <2>1, <2>2, SessionFacts DEF Session
    <2>4. QED
      BY <1>2, <2>1, <2>3
  <1>7. ASSUME NEW a \in Account, FetchFails(a)
        PROVE  DigestInv'
    <2>1. UNCHANGED <<route, digest>> /\ session' = Nil
      BY <1>7 DEF FetchFails
    <2>2. session.run \in Runs /\ run[session.run].status = "started"
          /\ run' = [run EXCEPT ![session.run].status = "failed"]
      BY <1>1, <1>7, SessionFacts DEF FetchFails
    <2>3. \A r \in Runs : run[r].status = "routed" => run'[r] = run[r]
      BY <1>1, <2>2 DEF RunsInv
    <2>4. \A d \in Day : Outstanding(d) => Outstanding(d)'
      BY <2>3 DEF Outstanding
    <2>5. QED
      BY <2>1, <2>4, DigestStays DEF Digested
  <1>8. ASSUME NEW r \in Runs, Start(r)
        PROVE  DigestInv'
    <2>1. UNCHANGED <<route, digest>> /\ session'.stage # "mark" /\ run[r].status \in {"none", "failed"}
      BY <1>8 DEF Start
    <2>2. \A q \in Runs : run[q].status = "routed" => run'[q] = run[q]
      BY <1>8, <2>1, StartRuns
    <2>3. \A d \in Day : Outstanding(d) => Outstanding(d)'
      BY <2>2 DEF Outstanding
    <2>4. QED
      BY <2>1, <2>3, DigestStays DEF Digested
  <1>9. CASE Export
    <2> DEFINE r == session.run
               links == LinkOnly(r)
               x == [run |-> r, route |-> "article_queue"]
    <2>1. /\ session # Nil /\ session.stage = "export" /\ UNCHANGED digest
          /\ \A p \in links : route[p] = Nil
          /\ route' = [p \in Post |-> IF p \in links THEN x ELSE route[p]]
          /\ session' = [session EXCEPT !.stage = "judge"]
      BY <1>9 DEF Export
    <2>2. session'.stage # "mark" /\ r \in Runs /\ run[r].status = "started"
      BY <1>1, <2>1, SessionFacts DEF Session
    <2>3. \A q \in Runs : run[q].status = "routed" => run'[q] = run[q]
      BY <1>9, <2>2, ExportRuns
    <2>4. \A d \in Day : Outstanding(d) => Outstanding(d)'
      BY <2>3 DEF Outstanding
    <2>5. x.route # "digest"
      OBVIOUS
    <2> HIDE DEF links, x
    <2>6. \A d : Digested(d)' = Digested(d)
      BY <2>1, <2>5 DEF Digested
    <2>7. QED
      BY <2>1, <2>2, <2>4, <2>6, DigestStays
  <1>10. CASE Judge
    <2> DEFINE r == session.run
    <2>1. /\ session # Nil /\ session.stage = "judge" /\ r \in Runs /\ ~Weekly(r)
          /\ run' = [run EXCEPT ![r].status = "routed"]
          /\ session' = [session EXCEPT !.stage = "render"] /\ UNCHANGED digest
      BY <1>10, JudgeIs
    <2>2. PICK judged \in SUBSET run[r].batch : \E judgment \in [judged -> scene.routes] :
            /\ \A p \in judged : route[p] # Nil => route[p].run = r
            /\ route' = [p \in Post |-> IF p \in judged THEN [run |-> r, route |-> judgment[p]] ELSE route[p]]
      BY <1>10, JudgeIs
    <2>3. PICK judgment \in [judged -> scene.routes] :
            /\ \A p \in judged : route[p] # Nil => route[p].run = r
            /\ route' = [p \in Post |-> IF p \in judged THEN [run |-> r, route |-> judgment[p]] ELSE route[p]]
      BY <2>2
    <2>4. session'.stage # "mark"
      BY <1>1, <2>1, SessionFacts DEF Session
    <2> HIDE DEF r
    <2>5. \A q \in Runs : /\ q # r => run'[q] = run[q]
                          /\ q = r => run'[q].status = "routed"
      BY <1>1, <2>1 DEF RunsInv, Row
    <2>6. \A d \in Day : Outstanding(d) => Outstanding(d)'
      BY <2>1, <2>5 DEF Outstanding
    <2>7. \A d \in Day : d = r[1] => Outstanding(d)'
      BY <2>1, <2>5 DEF Outstanding
    <2>8. \A d \in Day : d # r[1] => Digested(d)' = Digested(d)
      <3>1. \A p \in Post : p \in judged => route'[p].run = r /\ route'[p] # Nil
        <4> SUFFICES ASSUME NEW p \in Post, p \in judged
                     PROVE  route'[p].run = r /\ route'[p] # Nil
          OBVIOUS
        <4>1. route'[p] = [run |-> r, route |-> judgment[p]]
          BY <2>3
        <4>2. judgment[p] \in {"digest", "skip"}
          BY <1>1, <2>3, SceneFacts
        <4>3. route'[p] \in Routed
          BY <2>1, <4>1, <4>2 DEF Routed
        <4>4. QED
          BY <4>1, <4>3, NilAssumption
      <3>2. \A p \in Post : p \notin judged => route'[p] = route[p]
        BY <2>3
      <3>3. QED
        BY <2>3, <3>1, <3>2 DEF Digested
    <2>9. QED
      BY <2>1, <2>4, <2>6, <2>7, <2>8 DEF DigestInv
  <1>11. CASE Render
    <2>1. /\ session # Nil /\ session.run \in Runs /\ UNCHANGED <<route, run>>
          /\ digest' = [digest EXCEPT ![session.run[1]] = Digested(session.run[1])]
          /\ session' = [session EXCEPT !.stage = "mark"]
      BY <1>1, <1>11, SessionFacts DEF Render
    <2>2. \A e : Digested(e)' = Digested(e) /\ (Outstanding(e)' <=> Outstanding(e))
      BY <2>1 DEF Digested, Outstanding
    <2>3. PICK d \in Day : d = session.run[1]
      BY <2>1, RunFacts
    <2>4. session'.run[1] = d
      BY <1>1, <2>1, <2>3, SessionFacts DEF Session
    <2>5. Digested(d) \subseteq Post
      BY DEF Digested
    <2>6. /\ digest' \in [Day -> SUBSET Post]
          /\ \A e \in Day : digest'[e] = IF e = d THEN Digested(d) ELSE digest[e]
      BY <2>1, <2>3, <2>5 DEF DigestInv
    <2>7. digest'[d] = Digested(d)'
      BY <2>2, <2>6
    <2>8. \A e \in Day : digest'[e] = Digested(e)' \/ Outstanding(e)'
      BY <2>2, <2>6 DEF DigestInv
    <2>9. (digest[session.run[1]] = Digested(session.run[1]))'
      BY <2>4, <2>7 DEF Digested
    <2>10. QED
      BY <2>6, <2>8, <2>9 DEF DigestInv
  <1>12. CASE RenderWeekly
    <2>1. /\ session # Nil /\ session.run \in Runs /\ Weekly(session.run)
          /\ run' = [run EXCEPT ![session.run].status = "digested"]
          /\ UNCHANGED <<route, digest>>
          /\ session' = [session EXCEPT !.stage = "verify"]
      BY <1>12, RenderWeeklyIs
    <2>2. session'.stage # "mark"
      BY <1>1, <2>1, SessionFacts DEF Session
    <2>3. \A q \in Runs : q # session.run => run'[q] = run[q]
      BY <1>1, <2>1 DEF RunsInv
    <2>4. \A d \in Day : Outstanding(d) => Outstanding(d)'
      BY <2>1, <2>3 DEF Outstanding
    <2>5. QED
      BY <2>1, <2>2, <2>4, DigestStays DEF Digested
  <1>13. CASE Mark
    <2> DEFINE d == session.run[1]
    <2>1. /\ session # Nil /\ session.stage = "mark" /\ UNCHANGED <<route, digest>>
          /\ session' = [session EXCEPT !.stage = "verify"]
      BY <1>13 DEF Mark
    <2>2. session'.stage # "mark" /\ d \in Day
      BY <1>1, <2>1, SessionFacts, RunFacts DEF Session
    <2>3. digest[d] = Digested(d)
      BY <2>1 DEF DigestInv
    <2>4. \A e : Digested(e)' = Digested(e)
      BY <2>1 DEF Digested
    <2>5. \A q \in Runs : q[1] # d => run'[q].status = run[q].status
      BY <1>13, MarkRuns
    <2>6. \A e \in Day : e # d /\ Outstanding(e) => Outstanding(e)'
      BY <2>5 DEF Outstanding
    <2>7. QED
      BY <2>1, <2>2, <2>3, <2>4, <2>6 DEF DigestInv
  <1>14. QED
    BY <1>4, <1>5, <1>6, <1>7, <1>8, <1>9, <1>10, <1>11, <1>12, <1>13 DEF Next

(* A digest that a review may start from shows all that was routed for its *)
(* day: whatever is routed again, fails or dies before the file or the     *)
(* statuses are written.                                                   *)
THEOREM DigestsAreCurrent == Spec => []DigestIsCurrent
  <1>1. Init => DigestInv
    BY InitDigest
  <1>2. TablesInv /\ DigestInv /\ [Next]_vars => DigestInv'
    <2>1. ASSUME TablesInv, DigestInv, UNCHANGED vars
          PROVE  DigestInv'
      BY <2>1 DEF DigestInv, Digested, Outstanding, vars, fetching, judging
    <2>2. QED
      BY <2>1, NextDigest
  <1>3. TablesInv /\ DigestInv => DigestIsCurrent
    BY DigestsCurrent
  <1>4. QED
    BY <1>1, <1>2, <1>3, TablesHold, PTL DEF Spec
-----------------------------------------------------------------------------
(* No post is forgotten.  A post that waits was stored after the start of  *)
(* every run that has finished, not of the last one only: the last one     *)
(* changes when a run is routed again, and leaves when one is restarted.   *)

LostInv ==
  /\ \A p \in Post : stored[p] # Never =>
       /\ run[by[p]].status # "none" /\ ~Weekly(by[p])
       /\ stored[p] >= run[by[p]].started
  /\ covered => \A p \in Waiting : \A q \in In(finished) : stored[p] >= run[q].started

LEMMA NothingLost ==
  ASSUME TablesInv, LostInv
  PROVE  NothingIsLost
  <1> SUFFICES ASSUME covered, NEW p \in Waiting, finished # <<>>
               PROVE  stored[p] >= run[finished[Len(finished)]].started
    BY DEF NothingIsLost
  <1>1. finished[Len(finished)] \in In(finished)
    BY LastIsIn DEF TablesInv, RunsInv
  <1>2. QED
    BY <1>1 DEF LostInv

LEMMA InitLost ==
  ASSUME Init
  PROVE  LostInv
  <1>1. \A p \in Post : stored[p] = Never
    BY DEF Init
  <1>2. QED
    BY <1>1 DEF LostInv, Waiting

LEMMA LostStays ==
  ASSUME TablesInv, LostInv, UNCHANGED <<stored, by>>,
         \A q \in Runs : /\ run'[q].started = run[q].started
                         /\ run[q].status # "none" => run'[q].status # "none",
         In(finished') = In(finished),
         labelled \subseteq labelled', offered \subseteq offered',
         \A p \in Post : route[p] # Nil => route'[p] # Nil,
         covered' => covered
  PROVE  LostInv'
  <1>1. PostsInv /\ RunsInv
    BY DEF TablesInv
  <1>2. \A p \in Post : stored[p] # Never => by[p] \in Runs
    BY <1>1 DEF PostsInv
  <1>3. Waiting' \subseteq Waiting
    BY DEF Waiting
  <1>4. \A q \in In(finished) : q \in Runs
    BY <1>1, LenProperties DEF RunsInv, In
  <1>5. \A p \in Post : stored'[p] # Never =>
          /\ run'[by'[p]].status # "none" /\ ~Weekly(by'[p])
          /\ stored'[p] >= run'[by'[p]].started
    BY <1>2 DEF LostInv
  <1>6. covered' => \A p \in Waiting' : \A q \in In(finished') : stored'[p] >= run'[q].started
    BY <1>3, <1>4 DEF LostInv
  <1>7. QED
    BY <1>5, <1>6 DEF LostInv

LEMMA FetchLost ==
  ASSUME TablesInv, LostInv, NEW a \in Account, NEW referenced \in References, FetchPage(a, referenced)
  PROVE  LostInv'
  <1>1. PostsInv /\ RunsInv /\ SessionInv /\ session # Nil /\ session.stage = "fetch"
        /\ UNCHANGED <<labelled, run, finished, route, offered, covered>>
    BY DEF TablesInv, FetchPage
  <1>2. clock \in Nat /\ \A q \in Runs : run[q].started \in 0..clock
    BY <1>1, SceneFacts, RowKept DEF PostsInv
  <1>3. session.run \in Runs /\ run[session.run].status # "none" /\ ~Weekly(session.run)
    BY <1>1, SessionFacts
  <1>4. PICK got : Adds(a, got)
    BY FetchIs
  <1>5. \A q \in In(finished) : q \in Runs
    BY <1>1, LenProperties DEF RunsInv, In
  <1>6. ASSUME NEW p \in Post
        PROVE  \/ stored'[p] = stored[p] /\ by'[p] = by[p]
               \/ stored'[p] = clock /\ by'[p] = session.run
    BY <1>4 DEF Adds
  <1>7. \A p \in Post : stored'[p] # Never =>
          /\ run'[by'[p]].status # "none" /\ ~Weekly(by'[p])
          /\ stored'[p] >= run'[by'[p]].started
    BY <1>1, <1>2, <1>3, <1>6 DEF LostInv
  <1>8. \A p \in Waiting' : p \in Waiting \/ stored'[p] = clock
    BY <1>1, <1>6 DEF Waiting
  <1>9. \A p \in Waiting' : \A q \in In(finished') : covered' => stored'[p] >= run'[q].started
    <2> SUFFICES ASSUME NEW p \in Waiting', NEW q \in In(finished), covered
                 PROVE  stored'[p] >= run[q].started
      BY <1>1
    <2>1. CASE stored'[p] = clock
      BY <1>2, <1>5, <2>1
    <2>2. CASE stored'[p] # clock
      <3>1. p \in Waiting /\ stored'[p] = stored[p]
        BY <1>6, <1>8, <2>2 DEF Waiting
      <3>2. QED
        BY <3>1 DEF LostInv
    <2>3. QED
      BY <2>1, <2>2
  <1>10. QED
    BY <1>7, <1>9 DEF LostInv

LEMMA FetchFailsLost ==
  ASSUME TablesInv, LostInv, NEW a \in Account, FetchFails(a)
  PROVE  LostInv'
  <1> DEFINE r == session.run
  <1>1. PostsInv /\ RunsInv
        /\ UNCHANGED <<stored, by, labelled, route, offered>>
        /\ covered' = (covered /\ Covers(r))
    BY DEF TablesInv, FetchFails
  <1>2. /\ r \in Runs /\ run' = [run EXCEPT ![r].status = "failed"]
        /\ In(finished') = In(finished) \cup {r}
    BY FetchFailsRuns
  <1> HIDE DEF r
  <1>3. \A q \in Runs : /\ run'[q].started = run[q].started
                        /\ run[q].status # "none" => run'[q].status # "none"
    <2>1. \A q \in Runs : q # r => run'[q] = run[q]
      BY <1>1, <1>2 DEF RunsInv
    <2>2. run[r] \in Row /\ run'[r] = [run[r] EXCEPT !.status = "failed"]
      BY <1>1, <1>2 DEF RunsInv
    <2>3. run'[r].started = run[r].started /\ run'[r].status = "failed"
      BY <2>2 DEF Row
    <2>4. QED
      BY <2>1, <2>3
  <1>4. Waiting' = Waiting
    BY <1>1 DEF Waiting
  <1>5. \A p \in Post : stored[p] # Never => by[p] \in Runs
    BY <1>1 DEF PostsInv
  <1>6. \A q \in In(finished) : q \in Runs
    BY <1>1, LenProperties DEF RunsInv, In
  <1>7. \A p \in Post : stored'[p] # Never =>
          /\ run'[by'[p]].status # "none" /\ ~Weekly(by'[p])
          /\ stored'[p] >= run'[by'[p]].started
    BY <1>1, <1>3, <1>5 DEF LostInv
  <1>8. ASSUME covered', NEW p \in Waiting, NEW q \in In(finished')
        PROVE  stored[p] >= run[q].started
    <2>1. CASE q \in In(finished)
      BY <1>1, <1>8, <2>1 DEF LostInv
    <2>2. CASE q = r
      <3>1. by[p] = r /\ p \in Post /\ stored[p] # Never
        BY <1>1, <1>8 DEF Covers, Waiting
      <3>2. QED
        BY <2>2, <3>1 DEF LostInv
    <2>3. QED
      BY <1>2, <2>1, <2>2
  <1>9. covered' => \A p \in Waiting' : \A q \in In(finished') : stored'[p] >= run'[q].started
    BY <1>1, <1>2, <1>3, <1>4, <1>6, <1>8
  <1>10. QED
    BY <1>7, <1>9 DEF LostInv

LEMMA StartLost ==
  ASSUME TablesInv, LostInv, NEW r \in Runs, Start(r)
  PROVE  LostInv'
  <1>1. PostsInv /\ RunsInv
        /\ UNCHANGED <<stored, by, labelled, route, offered>>
        /\ covered' = (covered /\ (Weekly(r) => Covers(r)))
        /\ run[r].status \in {"none", "failed"}
    BY DEF TablesInv, Start
  <1>2. /\ In(finished') = IF Weekly(r) THEN In(finished) \cup {r} ELSE In(finished) \ {r}
        /\ \A q \in Runs \ {r} : run'[q] = run[q]
        /\ run'[r].status = IF Weekly(r) THEN "routed" ELSE "started"
        /\ run'[r].started = IF run[r].status = "failed" THEN run[r].started ELSE clock + 1
    BY StartRuns
  <1>3. ASSUME NEW p \in Post, stored[p] # Never
        PROVE  /\ by[p] \in Runs /\ ~Weekly(by[p])
               /\ run'[by[p]].started = run[by[p]].started
               /\ run'[by[p]].status # "none"
    <2>1. by[p] \in Runs /\ ~Weekly(by[p]) /\ run[by[p]].status # "none"
      BY <1>1, <1>3 DEF PostsInv, LostInv
    <2>2. QED
      BY <1>1, <1>2, <2>1
  <1>4. Waiting' = Waiting
    BY <1>1 DEF Waiting
  <1>5. \A q \in In(finished) : q \in Runs
    BY <1>1, LenProperties DEF RunsInv, In
  <1>6. \A p \in Post : stored'[p] # Never =>
          /\ run'[by'[p]].status # "none" /\ ~Weekly(by'[p])
          /\ stored'[p] >= run'[by'[p]].started
    BY <1>1, <1>3 DEF LostInv
  <1>7. ASSUME covered', NEW p \in Waiting, NEW q \in In(finished')
        PROVE  stored[p] >= run'[q].started
    <2>1. ~Weekly(r)
      <3>1. p \in Post /\ stored[p] # Never
        BY DEF Waiting
      <3>2. Weekly(r) => by[p] = r
        BY <1>1, <1>7 DEF Covers
      <3>3. QED
        BY <1>3, <3>1, <3>2
    <2>2. q \in In(finished) /\ q # r /\ q \in Runs
      BY <1>2, <1>5, <2>1
    <2>3. run'[q] = run[q]
      BY <1>2, <2>2
    <2>4. QED
      BY <1>1, <1>7, <2>2, <2>3 DEF LostInv
  <1>8. QED
    BY <1>1, <1>4, <1>6, <1>7 DEF LostInv

LEMMA ExportLost ==
  ASSUME TablesInv, LostInv, Export
  PROVE  LostInv'
  <1> DEFINE r == session.run
  <1>1. PostsInv /\ RunsInv /\ SessionInv /\ session # Nil /\ session.stage = "export"
        /\ UNCHANGED <<stored, by, labelled>>
    BY DEF TablesInv, Export, fetching
  <1>2. r \in Runs /\ run[r].status = "started"
    BY <1>1, SessionFacts
  <1>3. /\ \A q \in Runs : run'[q].started = run[q].started
        /\ \A q \in Runs \ {r} : run'[q] = run[q]
        /\ run'[r].status = "exported"
        /\ In(finished') = In(finished) \cup {r}
    BY ExportRuns
  <1>4. PICK cutoff \in Cutoffs(r) :
          LET batch == Exported(r, cutoff) \ LinkOnly(r)
          IN /\ offered' = offered \cup batch
             /\ covered' = (covered /\ (finished = <<>> => Waiting \subseteq batch \cup LinkOnly(r)))
    BY ExportRuns
  <1> DEFINE batch == Exported(r, cutoff) \ LinkOnly(r)
  <1>5. /\ offered' = offered \cup batch
        /\ covered' => covered /\ (finished = <<>> => Waiting \subseteq batch \cup LinkOnly(r))
    BY <1>4
  <1>6. \A p \in Post : route'[p] # Nil \/ (p \notin LinkOnly(r) /\ route'[p] = route[p])
    <2>1. \A p \in Post : route'[p] = IF p \in LinkOnly(r) THEN [run |-> r, route |-> "article_queue"]
                                     ELSE route[p]
      BY DEF Export
    <2>2. [run |-> r, route |-> "article_queue"] # Nil
      <3>1. [run |-> r, route |-> "article_queue"] \in Routed
        BY <1>2 DEF Routed
      <3>2. QED
        BY <3>1, NilAssumption
    <2>3. QED
      BY <2>1, <2>2
  <1>7. Waiting' \subseteq Waiting \ (batch \cup LinkOnly(r))
    BY <1>1, <1>5, <1>6 DEF Waiting
  <1>8. finished # <<>> => cutoff = run[finished[Len(finished)]].started
    <2>1. r \notin In(finished) /\ finished \in Seq(Runs) /\ Once(finished)
      BY <1>1, <1>2 DEF RunsInv
    <2>2. Unfinish(r, finished) = finished
      BY <2>1, UnfinishLeaves
    <2>3. QED
      BY <2>2 DEF Cutoffs
  <1>9. covered' => Waiting \subseteq batch \cup LinkOnly(r)
    <2> SUFFICES ASSUME covered, finished # <<>>, NEW p \in Waiting
                 PROVE  p \in Exported(r, cutoff)
      BY <1>5
    <2>1. finished[Len(finished)] \in In(finished)
      BY <1>1, LastIsIn DEF RunsInv
    <2>2. stored[p] >= cutoff
      BY <1>8, <2>1 DEF LostInv
    <2>3. QED
      BY <2>2 DEF Exported, Waiting
  <1>10. covered' => Waiting' = {}
    BY <1>7, <1>9
  <1>11. \A p \in Post : stored'[p] # Never =>
          /\ run'[by'[p]].status # "none" /\ ~Weekly(by'[p])
          /\ stored'[p] >= run'[by'[p]].started
    <2> SUFFICES ASSUME NEW p \in Post, stored[p] # Never
                 PROVE  /\ run'[by[p]].status # "none" /\ ~Weekly(by[p])
                        /\ stored[p] >= run'[by[p]].started
      BY <1>1
    <2>1. by[p] \in Runs
      BY <1>1 DEF PostsInv
    <2>2. run'[by[p]].status # "none"
      BY <1>3, <2>1 DEF LostInv
    <2>3. QED
      BY <1>3, <2>1, <2>2 DEF LostInv
  <1>12. QED
    BY <1>10, <1>11 DEF LostInv
LEMMA NextLost ==
  ASSUME TablesInv, LostInv, Next
  PROVE  LostInv'
  <1>1. RunsInv /\ SessionInv
    BY DEF TablesInv
  <1>2. CASE \/ \E approved \in scene.rosters : Seed(approved)
             \/ \E p \in scene.labels : Review(p)
             \/ \E asked \in 1..PageSize, answered \in 0..PageSize, referenced \in References :
                  Rehydrate(asked, answered, referenced)
             \/ \E n \in scene.usage : SyncUsage(n)
    <2>1. /\ UNCHANGED <<stored, by, run, finished, offered, route, covered>>
          /\ labelled \subseteq labelled'
      BY <1>2 DEF Seed, Review, MarkReviewed, Rehydrate, SyncUsage, judging, fetching
    <2>2. QED
      BY <2>1, LostStays
  <1>3. CASE \/ \E r \in Runs : Resume(r)
             \/ Fetched \/ ExportBreaks \/ Verify \/ Kill \/ Render
    <2>1. UNCHANGED <<stored, by, run, finished, offered, route, covered, labelled>>
      BY <1>3 DEF Resume, Fetched, ExportBreaks, Verify, Kill, Render, judging, fetching
    <2>2. QED
      BY <2>1, LostStays
  <1>4. ASSUME NEW a \in Account, NEW referenced \in References, FetchPage(a, referenced)
        PROVE  LostInv'
    BY <1>4, FetchLost
  <1>5. ASSUME NEW a \in Account, FetchFails(a)
        PROVE  LostInv'
    BY <1>5, FetchFailsLost
  <1>6. ASSUME NEW r \in Runs, Start(r)
        PROVE  LostInv'
    BY <1>6, StartLost
  <1>7. ASSUME NEW s, s # "none", session.run \in Runs,
               run' = [run EXCEPT ![session.run].status = s]
        PROVE  \A q \in Runs : /\ run'[q].started = run[q].started
                               /\ run[q].status # "none" => run'[q].status # "none"
    <2> DEFINE r == session.run
    <2>1. \A q \in Runs : q # r => run'[q] = run[q]
      BY <1>1, <1>7 DEF RunsInv
    <2>2. run[r] \in Row /\ run'[r] = [run[r] EXCEPT !.status = s]
      BY <1>1, <1>7 DEF RunsInv
    <2>3. run'[r].started = run[r].started /\ run'[r].status = s
      BY <2>2 DEF Row
    <2>4. QED
      BY <1>7, <2>1, <2>3
  <1>8. CASE Judge
    <2>1. /\ session.run \in Runs /\ run' = [run EXCEPT ![session.run].status = "routed"]
          /\ In(finished') = In(finished) /\ UNCHANGED <<stored, by, labelled, offered, covered>>
      BY <1>8, JudgeIs DEF fetching
    <2>2. PICK judged \in SUBSET run[session.run].batch : \E judgment \in [judged -> scene.routes] :
            route' = [p \in Post |-> IF p \in judged THEN [run |-> session.run, route |-> judgment[p]]
                                     ELSE route[p]]
      BY <1>8, JudgeIs
    <2>3. RoutesInv'
      BY <1>8, JudgeTables DEF TablesInv
    <2>4. \A p \in Post : route[p] # Nil => route'[p] # Nil
      <3>1. PICK judgment \in [judged -> scene.routes] :
            route' = [p \in Post |-> IF p \in judged THEN [run |-> session.run, route |-> judgment[p]]
                                     ELSE route[p]]
        BY <2>2
      <3>2. \A p \in judged : judgment[p] \in {"digest", "skip"}
        BY <3>1, SceneFacts DEF TablesInv
      <3>3. \A p \in judged : [run |-> session.run, route |-> judgment[p]] \in Routed
        BY <2>1, <3>2 DEF Routed
      <3>4. QED
        BY <3>1, <3>3, NilAssumption
    <2>5. QED
      BY <1>7, <2>1, <2>4, LostStays
  <1>9. CASE RenderWeekly
    <2>1. /\ session.run \in Runs /\ run' = [run EXCEPT ![session.run].status = "digested"]
          /\ UNCHANGED <<stored, by, labelled, finished, offered, route, covered>>
      BY <1>9, RenderWeeklyIs DEF fetching
    <2>2. QED
      BY <1>7, <2>1, LostStays
  <1>10. CASE Mark
    <2>1. UNCHANGED <<stored, by, labelled, finished, offered, route, covered>>
      BY <1>10 DEF Mark, fetching
    <2>2. \A q \in Runs : /\ run'[q].started = run[q].started
                          /\ run[q].status # "none" => run'[q].status # "none"
      BY <1>10, MarkRuns
    <2>3. QED
      BY <2>1, <2>2, LostStays
  <1>11. QED
    BY <1>2, <1>3, <1>4, <1>5, <1>6, <1>8, <1>9, <1>10, ExportLost DEF Next

(* A stored post is not older than the start the next run looks back to:   *)
(* it is offered to a model, whatever became of the run that stored it.    *)
THEOREM NothingForgotten == Spec => []NothingIsLost
  <1>1. Init => LostInv
    BY InitLost
  <1>2. TablesInv /\ LostInv /\ [Next]_vars => LostInv'
    <2>1. ASSUME TablesInv, LostInv, UNCHANGED vars
          PROVE  LostInv'
      BY <2>1 DEF LostInv, Waiting, vars, fetching, judging
    <2>2. QED
      BY <2>1, NextLost
  <1>3. TablesInv /\ LostInv => NothingIsLost
    BY NothingLost
  <1>4. QED
    BY <1>1, <1>2, <1>3, TablesHold, PTL DEF Spec

-----------------------------------------------------------------------------
(* No gap.  A post that is missing below a stored one is excused by a      *)
(* later one that was read when it was older than the window, or is still  *)
(* among what the open page of its account leaves to be fetched.           *)

Excused(a, i) == \E j \in Stored(a) : j > i /\ scene.posts[a][i].day < dayOf[<<a, j>>] - Window

Ahead(a, place, i) ==
  /\ i > place.since
  /\ scene.posts[a][i].day >= place.start
  /\ place.token # 0 => i < place.token

Missing(a, i) == i \in 1..MaxPosts /\ i \notin Stored(a) /\ \E n \in Stored(a) : i < n

GapInv ==
  \A a \in Account :
    /\ checkpoint[a] # Nil =>
         /\ checkpoint[a].start <= Today - Window
         /\ checkpoint[a].since # 0 => checkpoint[a].since \in Stored(a)
         /\ checkpoint[a].token # 0 => checkpoint[a].token \in Stored(a)
    /\ \A i : Missing(a, i) => \/ Excused(a, i)
                               \/ checkpoint[a] # Nil /\ Ahead(a, checkpoint[a], i)

LEMMA GapsClosed ==
  ASSUME TablesInv, GapInv
  PROVE  NoGap
  <1> SUFFICES ASSUME NEW a \in Account, checkpoint[a] = Nil,
                      NEW i \in 1..Newest(a), stored[<<a, i>>] = Never
               PROVE  Excused(a, i)
    BY DEF NoGap, Excused
  <1>1. Stored(a) \subseteq 1..MaxPosts /\ Newest(a) \in 0..MaxPosts
        /\ (Stored(a) = {} => Newest(a) = 0)
        /\ (Stored(a) # {} => Newest(a) \in Stored(a))
    BY NewestIs
  <1>2. MaxPosts \in Nat
    BY ConstantsAssumption
  <1>3. i \in 1..MaxPosts /\ Stored(a) # {} /\ i \notin Stored(a)
    BY <1>1, <1>2 DEF Stored
  <1>4. i < Newest(a) /\ Newest(a) \in Stored(a)
    BY <1>1, <1>2, <1>3
  <1>5. Missing(a, i)
    BY <1>3, <1>4 DEF Missing
  <1>6. QED
    BY <1>5 DEF GapInv

LEMMA InitGap ==
  ASSUME Init
  PROVE  GapInv
  <1>1. \A a \in Account : Stored(a) = {}
    <2>1. \A a \in Account : \A i \in 1..MaxPosts : <<a, i>> \in Post
      BY DEF Post
    <2>2. QED
      BY <2>1 DEF Init, Stored
  <1>2. QED
    BY <1>1 DEF Init, GapInv, Missing
LEMMA GapStays ==
  ASSUME GapInv, UNCHANGED <<scene, stored, dayOf, checkpoint>>,
         Today \in Int, Today' \in Int, Today <= Today',
         checkpoint \in [Account -> Place \cup {Nil}]
  PROVE  GapInv'
  <1>1. \A a : Stored(a)' = Stored(a)
    BY DEF Stored
  <1>2. \A a, i : Excused(a, i)' = Excused(a, i) /\ Missing(a, i)' = Missing(a, i)
    BY <1>1 DEF Excused, Missing
  <1>3. \A a, place, i : Ahead(a, place, i)' = Ahead(a, place, i)
    BY DEF Ahead
  <1>4. \A a \in Account : checkpoint[a] # Nil => checkpoint[a].start \in Int
    BY DEF Place
  <1>5. \A a \in Account : checkpoint[a] # Nil /\ checkpoint[a].start <= Today - Window =>
                             checkpoint[a].start <= Today' - Window
    BY <1>4, ConstantsAssumption
  <1>6. \A a \in Account :
    /\ checkpoint'[a] # Nil =>
         /\ checkpoint'[a].start <= Today' - Window
         /\ checkpoint'[a].since # 0 => checkpoint'[a].since \in Stored(a)'
         /\ checkpoint'[a].token # 0 => checkpoint'[a].token \in Stored(a)'
    /\ \A i : Missing(a, i)' => \/ Excused(a, i)'
                                \/ checkpoint'[a] # Nil /\ Ahead(a, checkpoint[a], i)'
    BY <1>1, <1>2, <1>3, <1>5 DEF GapInv
  <1>7. QED
    BY <1>6 DEF GapInv, Ahead

(* Where a fetch starts is a place a checkpoint may hold.                  *)
Sound(a, place, stock, today) ==
  /\ place \in Place
  /\ place.start <= today - Window
  /\ place.since # 0 => place.since \in stock
  /\ place.token # 0 => place.token \in stock

LEMMA FromIsSound ==
  ASSUME TablesInv, GapInv, NEW a \in Account
  PROVE  Sound(a, From(a), Stored(a), Today)
  <1>1. PostsInv /\ RunsInv
    BY DEF TablesInv
  <1>2. From(a) \in Place
    BY <1>1, FromFacts
  <1>3. CASE checkpoint[a] = Nil
    <2>1. From(a) = FreshFrom(a) /\ FreshFrom(a).token = 0 /\ FreshFrom(a).since \in {0, Newest(a)}
          /\ FreshFrom(a).start <= Today - Window
      BY <1>1, <1>3, FromFacts
    <2>2. Newest(a) # 0 => Newest(a) \in Stored(a)
      BY NewestIs
    <2>3. QED
      BY <1>2, <2>1, <2>2 DEF Sound
  <1>4. CASE checkpoint[a] # Nil
    BY <1>1, <1>2, <1>4, FromFacts DEF Sound, GapInv
  <1>5. QED
    BY <1>3, <1>4

LEMMA FetchFailsGap ==
  ASSUME TablesInv, GapInv, NEW a \in Account, FetchFails(a)
  PROVE  GapInv'
  <1>1. PostsInv /\ RunsInv
        /\ checkpoint' = [checkpoint EXCEPT ![a] = From(a)]
        /\ UNCHANGED <<scene, stored, dayOf>>
    BY DEF TablesInv, FetchFails
  <1>2. Today' = Today
    <2>1. Started' = Started
      BY FetchFailsRuns
    <2>2. QED
      BY <2>1 DEF Today
  <1>3. \A b : Stored(b)' = Stored(b)
    BY <1>1 DEF Stored
  <1>4. \A b, i : Excused(b, i)' = Excused(b, i) /\ Missing(b, i)' = Missing(b, i)
    BY <1>1, <1>3 DEF Excused, Missing
  <1>5. Sound(a, From(a), Stored(a), Today)
    BY FromIsSound
  <1>6. \A b \in Account : checkpoint'[b] = IF b = a THEN From(a) ELSE checkpoint[b]
    BY <1>1 DEF PostsInv
  <1>7. From(a) # Nil /\ (checkpoint[a] # Nil => From(a) = checkpoint[a])
    BY <1>1, FromFacts, NilAssumption
  <1>8. ASSUME NEW b \in Account
        PROVE  checkpoint'[b] # Nil =>
         /\ checkpoint'[b].start <= Today' - Window
         /\ checkpoint'[b].since # 0 => checkpoint'[b].since \in Stored(b)'
         /\ checkpoint'[b].token # 0 => checkpoint'[b].token \in Stored(b)'
    BY <1>2, <1>3, <1>5, <1>6 DEF GapInv, Sound
  <1>9. ASSUME NEW b \in Account, NEW i, Missing(b, i)', ~Excused(b, i)'
        PROVE  checkpoint'[b] # Nil /\ Ahead(b, checkpoint[b], i)'
    <2>1. checkpoint[b] # Nil /\ Ahead(b, checkpoint[b], i)
      BY <1>4, <1>9 DEF GapInv
    <2>2. checkpoint'[b] = checkpoint[b]
      BY <1>6, <1>7, <2>1
    <2>3. QED
      BY <1>1, <2>1, <2>2 DEF Ahead
  <1>10. QED
    BY <1>8, <1>9 DEF GapInv

LEMMA FetchGap ==
  ASSUME TablesInv, GapInv, NEW a \in Account, NEW referenced \in References, FetchPage(a, referenced)
  PROVE  GapInv'
  <1>1. PostsInv /\ RunsInv /\ UNCHANGED <<scene, clock, run>>
    BY DEF TablesInv, FetchPage
  <1>2. Today' = Today /\ Today \in Nat /\ Window \in Nat /\ MaxPosts \in Nat
    BY <1>1, TodayFacts, ConstantsAssumption DEF Today, Started
  <1>3. PICK f \in Place : f = From(a)
    BY <1>1, FromFacts
  <1>4. PICK m \in SUBSET (1..MaxPosts) : m = Matching(a, f)
    BY <1>1, MatchingFacts
  <1>5. PICK got, place :
           /\ Adds(a, got)
           /\ checkpoint' = [checkpoint EXCEPT ![a] = place]
           /\ \/ place = f /\ got \in {{}, Page(m)}
              \/ place = Rest(m, f) /\ got = Page(m)
    BY <1>3, <1>4, FetchIs
  <1>6. Page(m) \subseteq m /\ got \subseteq m
    BY <1>5, PageFits
  <1>7. \A b \in Account : checkpoint'[b] = IF b = a THEN place ELSE checkpoint[b]
    BY <1>1, <1>5 DEF PostsInv
  <1>8. clock \in Nat /\ clock # Never
    BY <1>1, SceneFacts, SessionFacts DEF PostsInv, TablesInv, FetchPage, Never
  <1>9. /\ Stored(a)' = Stored(a) \cup got
        /\ \A j \in Stored(a) : dayOf'[<<a, j>>] = dayOf[<<a, j>>]
        /\ \A j \in got \ Stored(a) : dayOf'[<<a, j>>] = Today
    <2>1. \A j \in 1..MaxPosts : <<a, j>> \in Post
      BY DEF Post
    <2>2. \A j \in 1..MaxPosts :
            /\ stored'[<<a, j>>] = IF j \in got /\ stored[<<a, j>>] = Never THEN clock ELSE stored[<<a, j>>]
            /\ dayOf'[<<a, j>>] = IF j \in got /\ stored[<<a, j>>] = Never THEN Today ELSE dayOf[<<a, j>>]
      BY <1>5, <2>1 DEF Adds, Fresh
    <2>3. \A j \in got : j \in 1..MaxPosts
      BY <1>6
    <2>4. Stored(a)' = Stored(a) \cup got
      BY <1>8, <2>2, <2>3 DEF Stored
    <2>5. QED
      BY <2>2, <2>3, <2>4 DEF Stored
  <1>10. ASSUME NEW b \in Account, b # a
         PROVE  /\ Stored(b)' = Stored(b)
                /\ \A i : Excused(b, i)' = Excused(b, i) /\ Missing(b, i)' = Missing(b, i)
    <2>1. \A j \in 1..MaxPosts : <<b, j>> \in Post
      BY DEF Post
    <2>2. \A j \in 1..MaxPosts : stored'[<<b, j>>] = stored[<<b, j>>] /\ dayOf'[<<b, j>>] = dayOf[<<b, j>>]
      BY <1>5, <1>10, <2>1 DEF Adds, Fresh
    <2>3. Stored(b)' = Stored(b)
      BY <2>2 DEF Stored
    <2>4. QED
      BY <1>1, <2>2, <2>3 DEF Excused, Missing, Stored
  <1>11. \A i : Excused(a, i) => Excused(a, i)'
    BY <1>1, <1>9 DEF Excused
  <1>12. Sound(a, f, Stored(a), Today)
    BY <1>3, FromIsSound
  <1>13. (checkpoint[a] # Nil => f = checkpoint[a]) /\ (checkpoint[a] = Nil => f.token = 0)
    BY <1>1, <1>3, FromFacts
  <1>14. Stored(a) \subseteq 1..MaxPosts
    BY NewestIs
  <1>15. ASSUME NEW i, Missing(a, i)', ~Excused(a, i)'
         PROVE  Ahead(a, f, i)
    <2>1. i \in 1..MaxPosts /\ i \notin Stored(a) /\ i \notin got
      BY <1>9, <1>15 DEF Missing
    <2>2. CASE \E n \in Stored(a) : i < n
      <3>1. Missing(a, i) /\ ~Excused(a, i)
        BY <1>11, <1>15, <2>1, <2>2 DEF Missing
      <3>2. QED
        BY <1>13, <3>1 DEF GapInv
    <2>3. CASE ~\E n \in Stored(a) : i < n
      <3>1. PICK n \in Stored(a)' : i < n
        BY <1>15 DEF Missing
      <3>2. n \in got /\ n \notin Stored(a) /\ n \in m
        BY <1>6, <1>9, <2>3, <3>1
      <3>3. n > f.since /\ (f.token # 0 => n < f.token)
        BY <1>4, <3>2 DEF Matching
      <3>4. f.since \in Nat /\ f.token \in Nat /\ f.start \in Int /\ i \in Nat /\ n \in Nat /\ i # 0
        <4>1. f.since \in 0..MaxPosts /\ f.token \in 0..MaxPosts /\ f.start \in Int
          BY DEF Place
        <4>2. n \in 1..MaxPosts
          BY <3>2
        <4>3. QED
          BY <1>2, <2>1, <4>1, <4>2
      <3>5. \A j \in Stored(a) : j \in Nat /\ j < i
        <4>1. \A j \in Stored(a) : j \in 1..MaxPosts /\ ~(i < j) /\ j # i
          BY <1>14, <2>1, <2>3
        <4>2. QED
          BY <1>2, <3>4, <4>1
      <3>6. i > f.since
        BY <1>12, <3>4, <3>5 DEF Sound
      <3>7. f.token = 0
        BY <1>12, <3>1, <3>3, <3>4, <3>5 DEF Sound
      <3>8. scene.posts[a][i].day >= f.start
        <4>1. dayOf'[<<a, n>>] = Today
          BY <1>9, <3>2
        <4>2. ~(scene.posts[a][i].day < Today - Window)
          BY <1>1, <1>15, <3>1, <4>1 DEF Excused
        <4>3. scene.posts[a][i].day \in Nat
          <5>1. n \in DOMAIN scene.posts[a]
            BY <1>4, <3>2 DEF Matching, OnX
          <5>2. DOMAIN scene.posts[a] = 1..Len(scene.posts[a]) /\ Len(scene.posts[a]) \in Nat
            BY <1>1, SceneFacts, LenProperties
          <5>3. i \in DOMAIN scene.posts[a]
            BY <3>1, <3>4, <5>1, <5>2
          <5>4. QED
            BY <1>1, <5>3, OnXFacts
        <4>4. f.start <= Today - Window
          BY <1>12 DEF Sound
        <4>5. QED
          BY <1>2, <3>4, <4>2, <4>3, <4>4
      <3>9. QED
        BY <3>6, <3>7, <3>8 DEF Ahead
    <2>4. QED
      BY <2>2, <2>3
  <1>16. ASSUME NEW i, Missing(a, i)', Ahead(a, f, i)
         PROVE  i \in m /\ i \notin got
    <2>1. PICK n \in Stored(a)' : i < n
      BY <1>16 DEF Missing
    <2>2. i \in 1..MaxPosts /\ i \notin got
      BY <1>9, <1>16 DEF Missing
    <2>3. n \in OnX(a)
      <3>1. CASE n \in got
        BY <1>1, <1>4, <1>6, <3>1, MatchingFacts
      <3>2. CASE n \in Stored(a)
        <4>1. <<a, n>> \in Post /\ stored[<<a, n>>] # Never
          BY <3>2 DEF Stored, Post
        <4>2. QED
          BY <1>1, <4>1 DEF PostsInv
      <3>3. QED
        BY <1>9, <3>1, <3>2
    <2>4. PICK len \in Nat : DOMAIN scene.posts[a] = 1..len
      BY <1>1, SceneFacts, LenProperties
    <2>5. n \in DOMAIN scene.posts[a] /\ scene.posts[a][n].from <= clock
      BY <2>3 DEF OnX
    <2>6. i \in DOMAIN scene.posts[a]
      BY <1>2, <2>1, <2>2, <2>4, <2>5
    <2>7. scene.posts[a][i].from <= scene.posts[a][n].from
      BY <1>1, <2>1, <2>5, <2>6, ConstantsAssumption DEF PostsInv
    <2>8. scene.posts[a][i].from \in Nat /\ scene.posts[a][n].from \in Nat
      BY <1>1, <2>5, <2>6, OnXFacts
    <2>9. scene.posts[a][i].from <= clock
      BY <1>8, <2>5, <2>7, <2>8
    <2>10. i \in OnX(a)
      BY <2>6, <2>9 DEF OnX
    <2>11. QED
      BY <1>4, <1>16, <2>2, <2>10 DEF Matching, Ahead
  <1>17. ASSUME NEW i, Missing(a, i)', ~Excused(a, i)'
         PROVE  place # Nil /\ Ahead(a, place, i)
    <2>1. Ahead(a, f, i) /\ i \in m /\ i \notin got
      BY <1>15, <1>16, <1>17
    <2>2. CASE place = f
      BY <2>1, <2>2, NilAssumption
    <2>3. CASE place = Rest(m, f) /\ got = Page(m)
      <3>1. Page(m) # m /\ i \in m \ Page(m)
        BY <2>1, <2>3
      <3>2. /\ place # Nil /\ place.since = f.since /\ place.start = f.start
            /\ place.token = Least(Page(m)) /\ i < Least(Page(m))
        BY <2>3, <3>1, RestIs
      <3>3. QED
        BY <2>1, <3>2 DEF Ahead
    <2>4. QED
      BY <1>5, <2>2, <2>3
  <1>18. place # Nil => Sound(a, place, Stored(a) \cup got, Today)
    <2>1. CASE place = f
      BY <1>12, <2>1 DEF Sound
    <2>2. CASE place = Rest(m, f) /\ got = Page(m) /\ place # Nil
      <3>1. Page(m) # m
        BY <2>2 DEF Rest
      <3>2. /\ place \in Place /\ place.since = f.since /\ place.start = f.start
            /\ place.token \in Page(m)
        BY <2>2, <3>1, RestIs
      <3>3. QED
        BY <1>12, <2>2, <3>2 DEF Sound
    <2>3. QED
      BY <1>5, <2>1, <2>2
  <1>19. ASSUME NEW b \in Account
         PROVE  checkpoint'[b] # Nil =>
         /\ checkpoint'[b].start <= Today' - Window
         /\ checkpoint'[b].since # 0 => checkpoint'[b].since \in Stored(b)'
         /\ checkpoint'[b].token # 0 => checkpoint'[b].token \in Stored(b)'
    <2>1. CASE b = a
      BY <1>2, <1>7, <1>9, <1>18, <2>1 DEF Sound
    <2>2. CASE b # a
      BY <1>2, <1>7, <1>10, <2>2 DEF GapInv
    <2>3. QED
      BY <2>1, <2>2
  <1>20. ASSUME NEW b \in Account, NEW i, Missing(b, i)', ~Excused(b, i)'
         PROVE  checkpoint'[b] # Nil /\ Ahead(b, checkpoint[b], i)'
    <2>1. CASE b = a
      <3>1. checkpoint'[b] = place /\ place # Nil /\ Ahead(b, place, i)
        BY <1>7, <1>17, <1>20, <2>1
      <3>2. QED
        BY <1>1, <3>1 DEF Ahead
    <2>2. CASE b # a
      <3>1. checkpoint'[b] = checkpoint[b] /\ checkpoint[b] # Nil /\ Ahead(b, checkpoint[b], i)
        BY <1>7, <1>10, <1>20, <2>2 DEF GapInv
      <3>2. QED
        BY <1>1, <3>1 DEF Ahead
    <2>3. QED
      BY <2>1, <2>2
  <1>21. QED
    BY <1>19, <1>20 DEF GapInv
LEMMA TodayStays ==
  ASSUME Started' = Started
  PROVE  Today' = Today
  BY DEF Today

LEMMA TodayPasses ==
  ASSUME TablesInv, NEW r \in Runs, Start(r)
  PROVE  Today \in Nat /\ Today' \in Nat /\ Today <= Today'
  <1>1. PICK runs \in SUBSET Runs : runs = Started
    BY DEF Started
  <1>2. PICK more : more = runs \cup {r}
    OBVIOUS
  <1>3. /\ Dated(runs)
        /\ Started' = more
        /\ r \notin runs => \A q \in runs : Before(q, r)
    BY <1>1, <1>2, StartRuns
  <1>4. Today = TodayOf(runs)
    BY <1>1 DEF Today
  <1>5. Today' = TodayOf(more)
    BY <1>3 DEF Today
  <1>6. TodayOf(runs) \in Nat
    BY <1>3, TodayIsNat
  <1>7. CASE r \in runs
    <2>1. more = runs
      BY <1>2, <1>7
    <2>2. QED
      BY <1>4, <1>5, <1>6, <2>1
  <1>8. CASE r \notin runs
    <2>1. Dated(more) /\ TodayOf(runs) <= TodayOf(more)
      BY <1>2, <1>3, <1>8, TodayGrows
    <2>2. TodayOf(more) \in Nat
      BY <1>2, <2>1, TodayIsNat
    <2>3. QED
      BY <1>4, <1>5, <1>6, <2>1, <2>2
  <1>9. QED
    BY <1>7, <1>8

LEMMA NextGap ==
  ASSUME TablesInv, GapInv, Next
  PROVE  GapInv'
  <1>1. PostsInv /\ RunsInv /\ SessionInv /\ Today \in Nat
    BY TodayFacts DEF TablesInv
  <1>2. checkpoint \in [Account -> Place \cup {Nil}]
    BY <1>1 DEF PostsInv
  <1>3. ASSUME UNCHANGED <<scene, stored, dayOf, checkpoint>>, Started' = Started
        PROVE  GapInv'
    BY <1>1, <1>2, <1>3, TodayStays, GapStays
  <1>4. CASE \/ \E approved \in scene.rosters : Seed(approved)
             \/ \E p \in scene.labels : Review(p)
             \/ \E asked \in 1..PageSize, answered \in 0..PageSize, referenced \in References :
                  Rehydrate(asked, answered, referenced)
             \/ \E n \in scene.usage : SyncUsage(n)
    <2>1. UNCHANGED <<scene, stored, dayOf, checkpoint, run>>
      BY <1>4 DEF Seed, Review, Rehydrate, SyncUsage, judging, fetching
    <2>2. QED
      BY <1>3, <2>1 DEF Started
  <1>5. CASE \/ \E r \in Runs : Resume(r)
             \/ Fetched \/ ExportBreaks \/ Verify \/ Kill \/ Render
    <2>1. UNCHANGED <<scene, stored, dayOf, checkpoint, run>>
      BY <1>5 DEF Resume, Fetched, ExportBreaks, Verify, Kill, Render, judging, fetching
    <2>2. QED
      BY <1>3, <2>1 DEF Started
  <1>6. CASE Export \/ Judge \/ RenderWeekly \/ Mark
    <2>1. UNCHANGED <<scene, stored, dayOf, checkpoint>>
      BY <1>6, JudgeIs, RenderWeeklyIs DEF Export, Mark, fetching
    <2>2. Started' = Started
      BY <1>6, ExportRuns, JudgeIs, RenderWeeklyIs, MarkRuns
    <2>3. QED
      BY <1>3, <2>1, <2>2
  <1>7. ASSUME NEW r \in Runs, Start(r)
        PROVE  GapInv'
    <2>1. UNCHANGED <<scene, stored, dayOf, checkpoint>>
      BY <1>7 DEF Start
    <2>2. QED
      BY <1>2, <1>7, <2>1, TodayPasses, GapStays
  <1>8. ASSUME NEW a \in Account, FetchFails(a)
        PROVE  GapInv'
    BY <1>8, FetchFailsGap
  <1>9. ASSUME NEW a \in Account, NEW referenced \in References, FetchPage(a, referenced)
        PROVE  GapInv'
    BY <1>9, FetchGap
  <1>10. QED
    BY <1>4, <1>5, <1>6, <1>7, <1>8, <1>9 DEF Next

(* An account with no page left open has every post up to its newest one,  *)
(* but those that were older than the window: whatever fails or dies, and  *)
(* wherever the budget ends.                                               *)
THEOREM NoPostSkipped == Spec => []NoGap
  <1>1. Init => GapInv
    BY InitGap
  <1>2. TablesInv /\ GapInv /\ [Next]_vars => GapInv'
    <2>1. ASSUME TablesInv, GapInv, UNCHANGED vars
          PROVE  GapInv'
      <3>1. UNCHANGED <<scene, stored, dayOf, checkpoint, run>>
        BY <2>1 DEF vars, fetching, judging
      <3>2. Today' = Today /\ Today \in Nat /\ checkpoint \in [Account -> Place \cup {Nil}]
        BY <2>1, <3>1, TodayStays, TodayFacts DEF Started, TablesInv, PostsInv
      <3>3. QED
        BY <2>1, <3>1, <3>2, GapStays
    <2>2. QED
      BY <2>1, NextGap
  <1>3. TablesInv /\ GapInv => NoGap
    BY GapsClosed
  <1>4. QED
    BY <1>1, <1>2, <1>3, TablesHold, PTL DEF Spec
=============================================================================
