--------------------------- MODULE ServicesProofs ---------------------------
(***************************************************************************)
(* Theorems about the composition, for any users, runs, pages and limits.  *)
(* A step of one part leaves the variables of the others as they are, so   *)
(* an invariant of a part is one of the composition.  The budget brings    *)
(* its own; those of the cache, of likes and of points are proved here.    *)
(***************************************************************************)
EXTENDS Services, FiniteSetTheorems, TLAPS

\* What a reader is about to store is what the database says, or its page is about to be dropped,
\* or an invalidation has passed it.
ReadIsExcused ==
  \A r \in Readers : reading[r] # None /\ seen[r] # version[reading[r]]
    => Cache!Awaits(reading[r]) \/ r \in late

CacheInv == Cache!TypeOK /\ ReadIsExcused /\ Cache!StaleIsExcused

\* A prefix covers its own page and nothing but pages.
LEMMA UnderPages ==
  ASSUME Cache!CacheAssumption, NEW p \in Cache!Pages
  PROVE  Cache!Under(p) \subseteq Cache!Pages /\ p \in Cache!Under(p)
BY DEF Cache!CacheAssumption, Cache!Under, Cache!Pages, Cache!Shared

\* The cache starts with its invariant.
LEMMA CacheInit == ASSUME Cache!CacheAssumption, Cache!Init PROVE CacheInv
BY DEF Cache!Init, CacheInv, Cache!TypeOK, ReadIsExcused, Cache!StaleIsExcused, Cache!CacheAssumption

\* A commit that announces every page it changes, or excuses it, keeps the invariant.
LEMMA CommitKeeps ==
  ASSUME Cache!CacheAssumption, CacheInv, NEW S \in SUBSET Cache!Pages, NEW X \in SUBSET Cache!Pages,
         version' = [p \in Cache!Pages |-> IF p \in S THEN version[p] + 1 ELSE version[p]],
         todo' \in [Tasks -> SUBSET Cache!Pages], \A t \in Tasks : todo[t] \subseteq todo'[t],
         \A p \in S : p \in X \/ Cache!Awaits(p)',
         excused' = excused \cup (X \cap cached), Cache!Overtake(X),
         changes' \in Nat, UNCHANGED <<cached, saw, reading, seen>>
  PROVE  CacheInv'
<1> USE DEF CacheInv
<1>1. Cache!TypeOK'
  BY DEF Cache!TypeOK, Cache!Overtake
<1>2. \A p \in Cache!Pages : Cache!Awaits(p) => Cache!Awaits(p)'
  BY DEF Cache!Awaits
<1>3. ReadIsExcused'
  <2> SUFFICES ASSUME NEW r \in Readers, reading'[r] # None, seen'[r] # version'[reading'[r]]
               PROVE  Cache!Awaits(reading[r])' \/ r \in late'
    BY DEF ReadIsExcused, Cache!Awaits
  <2>1. reading[r] \in Cache!Pages /\ reading'[r] = reading[r] /\ seen'[r] = seen[r]
    BY DEF Cache!TypeOK
  <2>2. CASE reading[r] \in S
    BY <2>1, <2>2 DEF Cache!Overtake
  <2>3. CASE reading[r] \notin S
    <3>1. seen[r] # version[reading[r]]
      BY <2>1, <2>3
    <3>2. QED
      BY <1>2, <2>1, <3>1 DEF ReadIsExcused, Cache!Overtake
  <2>4. QED
    BY <2>2, <2>3
<1>4. Cache!StaleIsExcused'
  <2> SUFFICES ASSUME NEW p \in cached', saw'[p] # version'[p]
               PROVE  Cache!Awaits(p)' \/ p \in excused'
    BY DEF Cache!StaleIsExcused
  <2>1. p \in cached /\ p \in Cache!Pages /\ saw'[p] = saw[p]
    BY DEF Cache!TypeOK
  <2>2. CASE p \in S
    BY <2>1, <2>2
  <2>3. CASE p \notin S
    <3>1. saw[p] # version[p]
      BY <2>1, <2>3
    <3>2. QED
      BY <1>2, <2>1, <3>1 DEF Cache!StaleIsExcused
  <2>4. QED
    BY <2>2, <2>3
<1>5. QED
  BY <1>1, <1>3, <1>4

\* Dropping the page set D and excusing what else task t leaves out of U keeps the invariant.
LEMMA DropKeeps ==
  ASSUME Cache!CacheAssumption, CacheInv, NEW t \in Tasks, NEW done \in SUBSET todo[t],
         NEW U \in SUBSET Cache!Pages, \A q \in done : Cache!Under(q) \subseteq U,
         NEW D \in SUBSET U,
         todo' = [todo EXCEPT ![t] = @ \ done],
         cached' = cached \ D,
         saw' = [p \in Cache!Pages |-> IF p \in D THEN 0 ELSE saw[p]],
         excused' = (excused \cup (U \cap cached)) \ D,
         Cache!Overtake(U), UNCHANGED <<version, reading, seen, changes>>
  PROVE  CacheInv'
<1> USE DEF CacheInv
<1>1. Cache!TypeOK'
  BY DEF Cache!TypeOK, Cache!Overtake
<1>2. \A p \in Cache!Pages : Cache!Awaits(p) => Cache!Awaits(p)' \/ p \in U
  <2> SUFFICES ASSUME NEW p \in Cache!Pages, NEW s \in Tasks, NEW q \in todo[s], p \in Cache!Under(q), p \notin U
               PROVE  q \in todo'[s]
    BY DEF Cache!Awaits
  <2>1. q \notin done
    OBVIOUS
  <2>2. QED
    BY <2>1 DEF Cache!TypeOK
<1>3. ReadIsExcused'
  <2> SUFFICES ASSUME NEW r \in Readers, reading[r] # None, seen[r] # version[reading[r]]
               PROVE  Cache!Awaits(reading[r])' \/ r \in late'
    BY DEF ReadIsExcused, Cache!Awaits
  <2>1. reading[r] \in Cache!Pages
    BY DEF Cache!TypeOK
  <2>2. QED
    BY <1>2, <2>1 DEF ReadIsExcused, Cache!Overtake
<1>4. Cache!StaleIsExcused'
  BY <1>2 DEF Cache!StaleIsExcused, Cache!TypeOK
<1>5. QED
  BY <1>1, <1>3, <1>4

\* Every step of the cache keeps its invariant.
LEMMA CacheNext == ASSUME Cache!CacheAssumption, CacheInv, [Cache!Next]_(Cache!vars) PROVE CacheInv'
<1> USE DEF CacheInv
<1> None \notin Cache!Pages /\ Cache!Shared \subseteq Cache!Pages /\ Dishes \subseteq Cache!Pages
  BY DEF Cache!CacheAssumption, Cache!Pages
<1>1. ASSUME NEW r \in Readers, NEW p \in Cache!Pages, Cache!Produce(r, p) PROVE CacheInv'
  BY <1>1 DEF Cache!Produce, Cache!TypeOK, ReadIsExcused, Cache!StaleIsExcused, Cache!Awaits
<1>2. ASSUME NEW r \in Readers, Cache!Store(r) PROVE CacheInv'
  <2> DEFINE page == reading[r]
  <2>1. page \in Cache!Pages
    BY <1>2 DEF Cache!Store, Cache!TypeOK
  <2>2. Cache!TypeOK'
    BY <1>2, <2>1 DEF Cache!Store, Cache!TypeOK
  <2>3. ReadIsExcused'
    BY <1>2 DEF Cache!Store, Cache!TypeOK, ReadIsExcused, Cache!Awaits
  <2>4. Cache!StaleIsExcused'
    <3> SUFFICES ASSUME NEW p \in cached', saw'[p] # version'[p]
                 PROVE  Cache!Awaits(p)' \/ p \in excused'
      BY DEF Cache!StaleIsExcused
    <3>1. Cache!Awaits(p)' <=> Cache!Awaits(p)
      BY <1>2 DEF Cache!Store, Cache!Awaits
    <3>2. CASE p = page
      BY <1>2, <2>1, <3>1, <3>2 DEF Cache!Store, Cache!TypeOK, ReadIsExcused
    <3>3. CASE p # page
      BY <1>2, <2>1, <3>1, <3>3 DEF Cache!Store, Cache!TypeOK, Cache!StaleIsExcused
    <3>4. QED
      BY <3>2, <3>3
  <2>5. QED
    BY <2>2, <2>3, <2>4
<1>3. ASSUME NEW r \in Readers, Cache!StoreFails(r) PROVE CacheInv'
  BY <1>3 DEF Cache!StoreFails, Cache!TypeOK, ReadIsExcused, Cache!StaleIsExcused, Cache!Awaits
<1>4. ASSUME NEW p \in cached, Cache!Expire(p) PROVE CacheInv'
  <2>1. Cache!TypeOK'
    BY <1>4 DEF Cache!Expire, Cache!Forget, Cache!TypeOK
  <2>2. ReadIsExcused'
    BY <1>4 DEF Cache!Expire, Cache!Forget, ReadIsExcused, Cache!Awaits
  <2>3. Cache!StaleIsExcused'
    BY <1>4 DEF Cache!Expire, Cache!Forget, Cache!TypeOK, Cache!StaleIsExcused, Cache!Awaits
  <2>4. QED
    BY <2>1, <2>2, <2>3
<1>5. ASSUME NEW t \in Tasks, NEW D \in SUBSET Dishes, Cache!Recompute(t, D) PROVE CacheInv'
  <2> DEFINE S == D \cup Cache!Shared
  <2>1. S \subseteq Cache!Pages /\ todo'[t] = S /\ todo' \in [Tasks -> SUBSET Cache!Pages]
    BY <1>5 DEF Cache!Recompute, Cache!Prefixes, Cache!TypeOK
  <2>2. \A p \in S : Cache!Awaits(p)'
    BY <2>1, UnderPages DEF Cache!Awaits
  <2>3. /\ excused' = excused \cup ({} \cap cached) /\ Cache!Overtake({})
        /\ changes' \in Nat /\ \A s \in Tasks : todo[s] \subseteq todo'[s]
    BY <1>5 DEF Cache!Recompute, Cache!Overtake, Cache!TypeOK
  <2>4. /\ version' = [p \in Cache!Pages |-> IF p \in S THEN version[p] + 1 ELSE version[p]]
        /\ UNCHANGED <<cached, saw, reading, seen>>
    BY <1>5 DEF Cache!Recompute
  <2>5. QED
    BY <2>1, <2>2, <2>3, <2>4, CommitKeeps
<1>6. ASSUME NEW t \in Tasks, Cache!RecomputeTrends(t) PROVE CacheInv'
  <2>1. todo'[t] = Cache!Shared /\ todo' \in [Tasks -> SUBSET Cache!Pages]
    BY <1>6 DEF Cache!RecomputeTrends, Cache!Prefixes, Cache!TypeOK
  <2>2. \A p \in Cache!Pages : p \in Dishes \/ Cache!Awaits(p)'
    BY <2>1, UnderPages DEF Cache!Awaits, Cache!Pages
  <2>3. changes' \in Nat /\ \A s \in Tasks : todo[s] \subseteq todo'[s]
    BY <1>6 DEF Cache!RecomputeTrends, Cache!TypeOK
  <2>4. /\ version' = [p \in Cache!Pages |-> IF p \in Cache!Pages THEN version[p] + 1 ELSE version[p]]
        /\ excused' = excused \cup (Dishes \cap cached) /\ Cache!Overtake(Dishes)
        /\ UNCHANGED <<cached, saw, reading, seen>>
    BY <1>6 DEF Cache!RecomputeTrends
  <2>5. QED
    BY <2>1, <2>2, <2>3, <2>4, CommitKeeps
<1>7. ASSUME Cache!RebuildSummaries PROVE CacheInv'
  <2>1. /\ changes' \in Nat /\ todo' \in [Tasks -> SUBSET Cache!Pages]
        /\ \A s \in Tasks : todo[s] \subseteq todo'[s]
    BY <1>7 DEF Cache!RebuildSummaries, Cache!TypeOK
  <2>2. /\ version' = [p \in Cache!Pages |-> IF p \in Dishes THEN version[p] + 1 ELSE version[p]]
        /\ excused' = excused \cup (Dishes \cap cached) /\ Cache!Overtake(Dishes)
        /\ UNCHANGED <<cached, saw, reading, seen>>
    BY <1>7 DEF Cache!RebuildSummaries
  <2>3. QED
    BY <2>1, <2>2, CommitKeeps
<1>8. ASSUME NEW t \in Tasks, NEW p \in Cache!Pages, Cache!Invalidate(t, p) PROVE CacheInv'
  <2>1. Cache!Under(p) \in SUBSET Cache!Pages /\ {p} \in SUBSET todo[t]
    BY <1>8, UnderPages DEF Cache!Invalidate, Cache!First
  <2>2. excused' = (excused \cup (Cache!Under(p) \cap cached)) \ Cache!Under(p)
    BY <1>8 DEF Cache!Invalidate
  <2>3. /\ todo' = [todo EXCEPT ![t] = @ \ {p}] /\ Cache!Overtake(Cache!Under(p))
        /\ cached' = cached \ Cache!Under(p)
        /\ saw' = [q \in Cache!Pages |-> IF q \in Cache!Under(p) THEN 0 ELSE saw[q]]
        /\ UNCHANGED <<version, reading, seen, changes>>
    BY <1>8 DEF Cache!Invalidate, Cache!Forget
  <2>4. QED
    BY <2>1, <2>2, <2>3, DropKeeps
<1>9. ASSUME NEW t \in Tasks, NEW p \in Cache!Pages, Cache!InvalidateFails(t, p) PROVE CacheInv'
  <2>1. Cache!Under(p) \in SUBSET Cache!Pages /\ {p} \in SUBSET todo[t]
    BY <1>9, UnderPages DEF Cache!InvalidateFails, Cache!First
  <2>2. PICK deleted \in SUBSET Cache!Under(p) :
          /\ cached' = cached \ deleted
          /\ saw' = [q \in Cache!Pages |-> IF q \in deleted THEN 0 ELSE saw[q]]
          /\ excused' = (excused \cup (Cache!Under(p) \cap cached)) \ deleted
    BY <1>9 DEF Cache!InvalidateFails, Cache!Forget
  <2>3. /\ todo' = [todo EXCEPT ![t] = @ \ {p}] /\ Cache!Overtake(Cache!Under(p))
        /\ UNCHANGED <<version, reading, seen, changes>>
    BY <1>9 DEF Cache!InvalidateFails
  <2>4. QED
    BY <2>1, <2>2, <2>3, DropKeeps
<1>10. ASSUME NEW t \in Tasks, Cache!Die(t) PROVE CacheInv'
  <2> DEFINE left == UNION {Cache!Under(p) : p \in todo[t]}
  <2>1. left \in SUBSET Cache!Pages /\ \A p \in todo[t] : Cache!Under(p) \subseteq left
    BY UnderPages DEF Cache!TypeOK
  <2>2. todo' = [todo EXCEPT ![t] = @ \ todo[t]]
    BY <1>10 DEF Cache!Die, Cache!TypeOK
  <2>3. /\ excused' = (excused \cup (left \cap cached)) \ {} /\ Cache!Overtake(left)
        /\ cached' = cached \ {}
        /\ UNCHANGED <<version, reading, seen, changes>>
    BY <1>10 DEF Cache!Die
  <2>4. saw' = [p \in Cache!Pages |-> IF p \in {} THEN 0 ELSE saw[p]]
    BY <1>10 DEF Cache!Die, Cache!TypeOK
  <2>5. todo[t] \in SUBSET todo[t] /\ {} \in SUBSET left
    OBVIOUS
  <2> HIDE DEF left
  <2>6. QED
    BY <2>1, <2>2, <2>3, <2>4, <2>5, DropKeeps
<1>11. CASE UNCHANGED Cache!vars
  BY <1>11 DEF Cache!vars, Cache!TypeOK, ReadIsExcused, Cache!StaleIsExcused, Cache!Awaits
<1>12. QED
  BY <1>1, <1>2, <1>3, <1>4, <1>5, <1>6, <1>7, <1>8, <1>9, <1>10, <1>11 DEF Cache!Next

\* However many runs, requests, readers and tasks interleave, a stored page that is out of date is
\* about to be dropped, or was overtaken or left out by an invalidation (cached, _invalidate).
THEOREM StaleIsExcusedHolds == Spec => []StaleIsExcused
<1>1. Cache!CacheAssumption
  BY ServicesAssumption
<1>2. Init => CacheInv
  BY <1>1, CacheInit DEF Init
<1>3. ASSUME CacheInv, [Next]_<<part, quota, engagement, cache>> PROVE CacheInv'
  <2>1. [Cache!Next]_(Cache!vars)
    BY <1>3 DEF Next, Spend, Engage, Show, cache, Cache!vars
  <2>2. QED
    BY <1>1, <1>3, <2>1, CacheNext
<1>4. CacheInv => StaleIsExcused
  BY DEF CacheInv, StaleIsExcused
<1>5. QED
  BY <1>2, <1>3, <1>4, PTL DEF Spec

-----------------------------------------------------------------------------
\* The parts count sets as the composition does.
LEMMA SameSizes ==
  ASSUME NEW S
  PROVE  /\ Engaged!IsFiniteSet(S) <=> IsFiniteSet(S)
         /\ Engaged!Cardinality(S) = Cardinality(S)
BY DEF IsFiniteSet, Engaged!IsFiniteSet, Cardinality, Engaged!Cardinality

\* What the requests for likes hold, and what they rely on as long as none overlaps another.

Liking(s) == open[s] # None /\ open[s].kind = "like"
Awarding(s) == open[s] # None /\ open[s].kind = "award"

LikesTyped ==
  /\ likes \subseteq Users /\ IsFiniteSet(likes)
  /\ likeCount \in Nat /\ received \in Nat
  /\ DOMAIN open = Sessions
  /\ \A s \in Sessions : Liking(s) =>
       open[s].user \in Users /\ open[s].had \in BOOLEAN /\ open[s].count \in Nat

\* The only open toggle has read the count as it is.
LikesSole ==
  ~crossed => /\ likeCount = Cardinality(likes)
              /\ \A s, t \in Sessions : Liking(s) /\ Liking(t) => s = t
              /\ \A s \in Sessions : Liking(s) =>
                   open[s].count = likeCount /\ (open[s].had <=> open[s].user \in likes)

\* A user's only open toggle has read its row as it is, whatever others do.
LikesOwn ==
  ~doubled => /\ received = Cardinality(likes \ {Author})
              /\ \A s, t \in Sessions : Liking(s) /\ Liking(t) /\ open[s].user = open[t].user => s = t
              /\ \A s \in Sessions : Liking(s) => (open[s].had <=> open[s].user \in likes)

LikesInv == LikesTyped /\ LikesSole /\ LikesOwn

\* A request other than a toggle comes or goes: the toggles stay as they are.
LEMMA LikesApart ==
  ASSUME LikesInv, UNCHANGED <<likes, likeCount, received, crossed, doubled>>,
         DOMAIN open' = Sessions,
         \A t \in Sessions : Liking(t)' => Liking(t) /\ open'[t] = open[t]
  PROVE  LikesInv'
BY DEF LikesInv, LikesTyped, LikesSole, LikesOwn, Liking

LEMMA LikesLoad ==
  ASSUME LikesInv, NEW s \in Sessions, NEW u \in Users, Engaged!LoadLike(s, u)
  PROVE  LikesInv'
<1> DEFINE q == [kind |-> "like", user |-> u, had |-> u \in likes, count |-> likeCount]
<1>1. /\ open[s] = None /\ open' = [open EXCEPT ![s] = q]
      /\ UNCHANGED <<likes, likeCount, received>>
      /\ ~crossed' => ~crossed /\ \A t \in Sessions : ~Liking(t)
      /\ ~doubled' => ~doubled /\ \A t \in Sessions : ~(Liking(t) /\ open[t].user = u)
  BY DEF Engaged!LoadLike, Engaged!Others, Liking
<1>2. q.user = u /\ q.count = likeCount 
  OBVIOUS
<1>0. q.had \in BOOLEAN
  OBVIOUS
<1>5. q.had <=> u \in likes
  OBVIOUS
<1> HIDE DEF q
<1>3. /\ DOMAIN open' = Sessions /\ open'[s] = q
      /\ \A t \in Sessions \ {s} : open'[t] = open[t]
  BY <1>1 DEF LikesInv, LikesTyped
<1>4. \A t \in Sessions : Liking(t)' =>
        \/ /\ t = s
           /\ open'[t].user = u /\ open'[t].count = likeCount
           /\ open'[t].had \in BOOLEAN /\ (open'[t].had <=> u \in likes)
        \/ t # s /\ Liking(t) /\ open'[t] = open[t]
  BY <1>0, <1>1, <1>2, <1>3, <1>5 DEF Liking
<1>6. LikesTyped'
  BY <1>1, <1>3, <1>4 DEF LikesInv, LikesTyped
<1>7. LikesSole'
  BY <1>1, <1>4 DEF LikesInv, LikesSole
<1>8. LikesOwn'
  BY <1>1, <1>4 DEF LikesInv, LikesOwn
<1> QED
  BY <1>6, <1>7, <1>8 DEF LikesInv

\* A toggle that read its row as it is moves the counts as it moves the rows.
LEMMA LikesCommit ==
  ASSUME LikesInv, NEW s \in Sessions, Engaged!CommitLike(s)
  PROVE  LikesInv'
<1> DEFINE q == open[s]
           u == q.user
<1>1. /\ Liking(s) /\ open' = [open EXCEPT ![s] = None]
      /\ UNCHANGED <<crossed, doubled>>
  BY DEF Engaged!CommitLike, Liking
<1>2. /\ likes \subseteq Users /\ IsFiniteSet(likes) /\ likeCount \in Nat /\ received \in Nat
      /\ u \in Users /\ q.had \in BOOLEAN /\ q.count \in Nat
  BY <1>1 DEF LikesInv, LikesTyped
<1>3. /\ DOMAIN open' = Sessions
      /\ \A t \in Sessions : Liking(t)' => t # s /\ Liking(t) /\ open'[t] = open[t]
  BY <1>1 DEF LikesInv, LikesTyped, Liking
<1>4. CASE UNCHANGED <<likes, likeCount, received>>
  BY <1>1, <1>3, <1>4, LikesApart
<1>5. CASE /\ likes' = IF q.had THEN likes \ {u} ELSE likes \cup {u}
           /\ q.had \/ u \notin likes
           /\ likeCount' = IF Engaged!Counted(q) = q.count THEN likeCount ELSE Engaged!Counted(q)
           /\ received' = IF u # Author THEN Engaged!AtLeastZero(received + IF q.had THEN -1 ELSE 1)
                          ELSE received
  <2> DEFINE fans == likes \ {Author}
  <2>1. IsFiniteSet(fans)
    BY <1>2, FS_RemoveElement
  <2>2. /\ Cardinality(likes) \in Nat /\ Cardinality(fans) \in Nat
        /\ Cardinality(likes) = 0 => likes = {}
        /\ Cardinality(fans) = 0 => fans = {}
    BY <1>2, <2>1, FS_CardinalityType, FS_EmptySet
  <2>3. /\ IsFiniteSet(likes')
        /\ q.had /\ u \in likes => Cardinality(likes') = Cardinality(likes) - 1
        /\ ~q.had => Cardinality(likes') = Cardinality(likes) + 1
    BY <1>2, <1>5, FS_AddElement, FS_RemoveElement
  <2>4. /\ u = Author => fans' = fans
        /\ q.had => fans' = fans \ {u}
        /\ ~q.had /\ u # Author => fans' = fans \cup {u}
        /\ u \notin likes => u \notin fans
        /\ u \in likes /\ u # Author => u \in fans
    BY <1>5
  <2> HIDE DEF fans
  <2>5. /\ q.had /\ u \in fans /\ u # Author => Cardinality(fans') = Cardinality(fans) - 1
        /\ ~q.had /\ u # Author => Cardinality(fans') = Cardinality(fans) + 1
    BY <1>5, <2>1, <2>4, FS_AddElement, FS_RemoveElement
  <2>6. LikesTyped'
    BY <1>2, <1>3, <1>5, <2>3 DEF LikesInv, LikesTyped, Engaged!Counted, Engaged!AtLeastZero
  <2>7. ASSUME ~crossed PROVE likeCount' = Cardinality(likes') /\ \A t \in Sessions : ~Liking(t)'
    <3>1. likeCount = Cardinality(likes) /\ q.count = likeCount /\ (q.had <=> u \in likes)
      BY <1>1, <2>7 DEF LikesInv, LikesSole
    <3>2. \A t \in Sessions : ~Liking(t)'
      BY <1>1, <1>3, <2>7 DEF LikesInv, LikesSole
    <3> QED
      BY <1>2, <1>5, <2>2, <2>3, <3>1, <3>2 DEF Engaged!Counted, Engaged!AtLeastZero
  <2>8. ASSUME ~doubled
        PROVE  /\ received' = Cardinality(fans')
               /\ \A t \in Sessions : Liking(t)' => (open'[t].had <=> open'[t].user \in likes')
    <3>1. received = Cardinality(fans) /\ (q.had <=> u \in likes)
      BY <1>1, <2>8 DEF LikesInv, LikesOwn, fans
    <3>2. \A t \in Sessions : Liking(t)' => open[t].user # u /\ (open[t].had <=> open[t].user \in likes)
      BY <1>1, <1>3, <2>8 DEF LikesInv, LikesOwn
    <3>3. received' = Cardinality(fans')
      BY <1>2, <1>5, <2>2, <2>4, <2>5, <3>1 DEF Engaged!AtLeastZero
    <3> QED
      BY <1>3, <1>5, <3>2, <3>3
  <2>9. LikesSole'
    BY <1>1, <2>7 DEF LikesSole
  <2>10. LikesOwn'
    BY <1>1, <1>3, <2>8 DEF LikesInv, LikesOwn, fans
  <2> QED
    BY <2>6, <2>9, <2>10 DEF LikesInv
<1> QED
  BY <1>4, <1>5 DEF Engaged!CommitLike

-----------------------------------------------------------------------------
\* The same for the submissions: what they hold may lag behind the rows, never run ahead of them.

AwardsTyped ==
  /\ {events, score, posts, badge} \subseteq Nat
  /\ DOMAIN open = Sessions
  /\ \A s \in Sessions : Awarding(s) =>
       {open[s].total, open[s].old, open[s].level, open[s].had} \subseteq Nat

AwardsBehind ==
  /\ score <= POINTS * events /\ badge <= Engaged!Level(posts)
  /\ \A s \in Sessions : Awarding(s) =>
       open[s].total <= POINTS * events /\ open[s].level <= Engaged!Level(posts + 1)

AwardsSole ==
  ~raced => /\ score = POINTS * Engaged!AtLeastZero(events - 1)
            /\ \A s, t \in Sessions : Awarding(s) /\ Awarding(t) => s = t
            /\ \A s \in Sessions : Awarding(s) => open[s].total = POINTS * events /\ open[s].old = score

AwardsInv == AwardsTyped /\ AwardsBehind /\ AwardsSole

LEMMA Points == /\ \A n \in Nat : POINTS * n \in Nat /\ POINTS * (n + 1) = POINTS * n + POINTS
                /\ POINTS * 0 = 0 /\ POINTS \in Nat
BY ServicesAssumption DEF Engaged!EngagementAssumption

\* One more published review never lowers the level.
LEMMA LevelRises ==
  ASSUME NEW m \in Nat, NEW n \in Nat, m <= n
  PROVE  /\ Engaged!Level(m) \in Nat /\ Engaged!Level(n) \in Nat
         /\ Engaged!Level(m) <= Engaged!Level(n)
<1> DEFINE Reached(k) == {t \in THRESHOLDS : k >= t}
<1>1. IsFiniteSet(THRESHOLDS) /\ THRESHOLDS \subseteq Nat
  BY ServicesAssumption, SameSizes DEF Engaged!EngagementAssumption
<1>2. /\ IsFiniteSet(Reached(m)) /\ IsFiniteSet(Reached(n))
      /\ Reached(m) \subseteq Reached(n) /\ Reached(n) \subseteq THRESHOLDS
  <2>1. \A t \in THRESHOLDS : m >= t => n >= t
    BY <1>1
  <2>2. Reached(m) \subseteq Reached(n) /\ Reached(n) \subseteq THRESHOLDS
    BY <2>1
  <2> QED
    BY <1>1, <2>2, FS_Subset
<1>3. Cardinality(Reached(m)) \in Nat /\ Cardinality(Reached(n)) \in Nat
  BY <1>2, FS_CardinalityType
<1>4. Cardinality(Reached(m)) <= Cardinality(Reached(n))
  BY <1>2, FS_Subset
<1> QED
  BY <1>3, <1>4, SameSizes DEF Engaged!Level

LEMMA AwardsApart ==
  ASSUME AwardsInv, UNCHANGED <<events, score, posts, badge, raced>>,
         DOMAIN open' = Sessions,
         \A t \in Sessions : Awarding(t)' => Awarding(t) /\ open'[t] = open[t]
  PROVE  AwardsInv'
BY DEF AwardsInv, AwardsTyped, AwardsBehind, AwardsSole, Awarding

LEMMA AwardsLoad ==
  ASSUME AwardsInv, NEW s \in Sessions, Engaged!LoadAward(s)
  PROVE  AwardsInv'
<1> DEFINE q == [kind |-> "award", total |-> POINTS * events, old |-> score,
                 level |-> Engaged!Level(posts + 1), had |-> badge]
<1>1. /\ open' = [open EXCEPT ![s] = q]
      /\ UNCHANGED <<events, score, posts, badge>>
      /\ ~raced' => ~raced /\ \A t \in Sessions : ~Awarding(t)
  BY DEF Engaged!LoadAward, Engaged!Others, Awarding
<1>2. /\ q.total = POINTS * events /\ q.old = score
      /\ q.level = Engaged!Level(posts + 1) /\ q.had = badge
  OBVIOUS
<1> HIDE DEF q
<1>3. /\ {events, score, posts, badge} \subseteq Nat /\ DOMAIN open = Sessions
      /\ POINTS * events \in Nat /\ Engaged!Level(posts + 1) \in Nat
  BY Points, LevelRises DEF AwardsInv, AwardsTyped
<1>4. \A t \in Sessions : Awarding(t)' => \/ t = s /\ open'[t] = q
                                          \/ t # s /\ Awarding(t) /\ open'[t] = open[t]
  BY <1>1, <1>3 DEF Awarding
<1>5. AwardsTyped'
  BY <1>1, <1>2, <1>3, <1>4 DEF AwardsInv, AwardsTyped
<1>6. AwardsBehind'
  BY <1>1, <1>2, <1>3, <1>4 DEF AwardsInv, AwardsBehind
<1>7. AwardsSole'
  BY <1>1, <1>2, <1>4 DEF AwardsInv, AwardsSole
<1> QED
  BY <1>5, <1>6, <1>7 DEF AwardsInv

LEMMA AwardsCommit ==
  ASSUME AwardsInv, NEW s \in Sessions, Engaged!CommitAward(s)
  PROVE  AwardsInv'
<1> DEFINE q == open[s]
<1>1. Awarding(s) /\ open' = [open EXCEPT ![s] = None] /\ UNCHANGED raced
  BY DEF Engaged!CommitAward, Awarding
<1>2. /\ {events, score, posts, badge} \subseteq Nat /\ DOMAIN open = Sessions
      /\ {q.total, q.old, q.level, q.had} \subseteq Nat
      /\ q.total <= POINTS * events /\ q.level <= Engaged!Level(posts + 1)
      /\ score <= POINTS * events /\ badge <= Engaged!Level(posts)
  BY <1>1 DEF AwardsInv, AwardsTyped, AwardsBehind
<1>3. \A t \in Sessions : Awarding(t)' => t # s /\ Awarding(t) /\ open'[t] = open[t]
  BY <1>1, <1>2 DEF Awarding
<1>4. CASE UNCHANGED <<events, score, posts, badge>>
  BY <1>1, <1>2, <1>3, <1>4, AwardsApart
<1>5. CASE /\ events' = events + 1 /\ posts' = posts + 1
           /\ score' = IF q.total = q.old THEN score ELSE q.total
           /\ badge' = IF q.level > q.had THEN q.level ELSE badge
  <2>1. /\ POINTS * events \in Nat /\ POINTS * events' = POINTS * events + POINTS
        /\ POINTS \in Nat
    BY <1>2, <1>5, Points
  <2>2. /\ Engaged!Level(posts) <= Engaged!Level(posts')
        /\ Engaged!Level(posts') <= Engaged!Level(posts' + 1)
        /\ Engaged!Level(posts) \in Nat /\ Engaged!Level(posts') \in Nat
        /\ Engaged!Level(posts' + 1) \in Nat
    BY <1>2, <1>5, LevelRises
  <2>3. AwardsTyped'
    BY <1>1, <1>2, <1>3, <1>5 DEF AwardsInv, AwardsTyped
  <2>4. AwardsBehind'
    <3>1. score' <= POINTS * events' /\ badge' <= Engaged!Level(posts')
      BY <1>2, <1>5, <2>1, <2>2
    <3>2. ASSUME NEW t \in Sessions, Awarding(t)'
          PROVE  open'[t].total <= POINTS * events' /\ open'[t].level <= Engaged!Level(posts' + 1)
      <4>1. /\ open[t].total <= POINTS * events /\ open[t].level <= Engaged!Level(posts')
            /\ open[t].total \in Nat /\ open[t].level \in Nat /\ open'[t] = open[t]
        BY <1>3, <1>5, <3>2 DEF AwardsInv, AwardsTyped, AwardsBehind
      <4> QED
        BY <2>1, <2>2, <4>1
    <3> QED
      BY <3>1, <3>2 DEF AwardsBehind
  <2>5. AwardsSole'
    <3> SUFFICES ASSUME ~raced PROVE AwardsSole'
      BY <1>1 DEF AwardsSole
    <3>1. q.total = POINTS * events /\ q.old = score
      BY <1>1 DEF AwardsInv, AwardsSole
    <3>2. \A t \in Sessions : ~Awarding(t)'
      BY <1>1, <1>3 DEF AwardsInv, AwardsSole
    <3>3. score' = POINTS * Engaged!AtLeastZero(events' - 1)
      <4>1. Engaged!AtLeastZero(events' - 1) = events
        BY <1>2, <1>5 DEF Engaged!AtLeastZero
      <4> QED
        BY <1>5, <3>1, <4>1
    <3> QED
      BY <3>2, <3>3 DEF AwardsSole
  <2> QED
    BY <2>3, <2>4, <2>5 DEF AwardsInv
<1> QED
  BY <1>4, <1>5 DEF Engaged!CommitAward

LEMMA AwardsApprove == ASSUME AwardsInv, Engaged!Approve PROVE AwardsInv'
<1>1. /\ posts' = posts + 1 /\ posts \in Nat /\ badge \in Nat
      /\ UNCHANGED <<events, score, badge, raced, open>>
  BY DEF Engaged!Approve, AwardsInv, AwardsTyped
<1>2. /\ Engaged!Level(posts) <= Engaged!Level(posts') /\ Engaged!Level(posts') <= Engaged!Level(posts' + 1)
      /\ Engaged!Level(posts) \in Nat /\ Engaged!Level(posts') \in Nat
      /\ Engaged!Level(posts' + 1) \in Nat
  BY <1>1, LevelRises
<1>3. AwardsTyped'
  BY <1>1 DEF AwardsInv, AwardsTyped, Awarding
<1>4. AwardsBehind'
  BY <1>1, <1>2 DEF AwardsInv, AwardsTyped, AwardsBehind, Awarding
<1>5. AwardsSole'
  BY <1>1 DEF AwardsInv, AwardsSole, Awarding
<1> QED
  BY <1>3, <1>4, <1>5 DEF AwardsInv

-----------------------------------------------------------------------------

LEMMA EngagedInit == Init => LikesInv /\ AwardsInv
<1> SUFFICES ASSUME Init PROVE LikesInv /\ AwardsInv
  OBVIOUS
<1>1. /\ likes = {} /\ likeCount = 0 /\ received = 0
      /\ events = 0 /\ score = 0 /\ posts = 0 /\ badge = 0
      /\ DOMAIN open = Sessions /\ \A s \in Sessions : open[s] = None
  BY DEF Init, Engaged!Init
<1>2. LikesInv
  <2>1. likes \ {Author} = likes
    BY <1>1
  <2> QED
    BY <1>1, <2>1, FS_EmptySet DEF LikesInv, LikesTyped, LikesSole, LikesOwn, Liking
<1>3. AwardsInv
  <2>1. POINTS * 0 = 0 /\ Engaged!Level(0) \in Nat /\ Engaged!AtLeastZero(0 - 1) = 0
    BY Points, LevelRises DEF Engaged!AtLeastZero
  <2> QED
    BY <1>1, <2>1 DEF AwardsInv, AwardsTyped, AwardsBehind, AwardsSole, Awarding
<1> QED
  BY <1>2, <1>3

LEMMA EngagedNext == ASSUME LikesInv, AwardsInv, Engaged!Next PROVE LikesInv' /\ AwardsInv'
<1>1. DOMAIN open = Sessions
  BY DEF LikesInv, LikesTyped
<1>2. ASSUME NEW s \in Sessions, NEW u \in Users, Engaged!LoadLike(s, u) PROVE LikesInv' /\ AwardsInv'
  <2>1. /\ UNCHANGED <<events, score, posts, badge, raced>> /\ DOMAIN open' = Sessions
        /\ \A t \in Sessions : Awarding(t)' => Awarding(t) /\ open'[t] = open[t]
    BY <1>1, <1>2 DEF Engaged!LoadLike, Awarding
  <2> QED
    BY <1>2, <2>1, LikesLoad, AwardsApart
<1>3. ASSUME NEW s \in Sessions, Engaged!CommitLike(s) PROVE LikesInv' /\ AwardsInv'
  <2>1. /\ UNCHANGED <<events, score, posts, badge, raced>> /\ DOMAIN open' = Sessions
        /\ \A t \in Sessions : Awarding(t)' => Awarding(t) /\ open'[t] = open[t]
    BY <1>1, <1>3 DEF Engaged!CommitLike, Awarding
  <2> QED
    BY <1>3, <2>1, LikesCommit, AwardsApart
<1>4. ASSUME NEW s \in Sessions, Engaged!LoadAward(s) PROVE LikesInv' /\ AwardsInv'
  <2>1. /\ UNCHANGED <<likes, likeCount, received, crossed, doubled>> /\ DOMAIN open' = Sessions
        /\ \A t \in Sessions : Liking(t)' => Liking(t) /\ open'[t] = open[t]
    BY <1>1, <1>4 DEF Engaged!LoadAward, Liking
  <2> QED
    BY <1>4, <2>1, AwardsLoad, LikesApart
<1>5. ASSUME NEW s \in Sessions, Engaged!CommitAward(s) PROVE LikesInv' /\ AwardsInv'
  <2>1. /\ UNCHANGED <<likes, likeCount, received, crossed, doubled>> /\ DOMAIN open' = Sessions
        /\ \A t \in Sessions : Liking(t)' => Liking(t) /\ open'[t] = open[t]
    BY <1>1, <1>5 DEF Engaged!CommitAward, Liking
  <2> QED
    BY <1>5, <2>1, AwardsCommit, LikesApart
<1>6. ASSUME NEW s \in Sessions, Engaged!Rollback(s) PROVE LikesInv' /\ AwardsInv'
  <2>1. /\ UNCHANGED <<likes, likeCount, received, crossed, doubled>>
        /\ UNCHANGED <<events, score, posts, badge, raced>> /\ DOMAIN open' = Sessions
    BY <1>1, <1>6 DEF Engaged!Rollback
  <2>2. \A t \in Sessions : /\ Liking(t)' => Liking(t) /\ open'[t] = open[t]
                            /\ Awarding(t)' => Awarding(t) /\ open'[t] = open[t]
    BY <1>1, <1>6 DEF Engaged!Rollback, Liking, Awarding
  <2> QED
    BY <2>1, <2>2, LikesApart, AwardsApart
<1>7. CASE Engaged!Approve
  <2>1. UNCHANGED <<likes, likeCount, received, crossed, doubled, open>>
    BY <1>7 DEF Engaged!Approve
  <2>2. LikesInv'
    BY <1>1, <2>1, LikesApart DEF Liking
  <2> QED
    BY <1>7, <2>2, AwardsApprove
<1> QED
  BY <1>2, <1>3, <1>4, <1>5, <1>6, <1>7 DEF Engaged!Next

\* For any users, sessions and requests, a like count and the author's points, likes and badge say
\* what the rows say, unless the requests that the property excuses have overlapped (toggle_like,
\* award_for_review).
THEOREM CountersKeptHolds == Spec => []CountersKept
<1>1. LikesInv /\ AwardsInv /\ [Next]_<<part, quota, engagement, cache>> => (LikesInv /\ AwardsInv)'
  <2> SUFFICES ASSUME LikesInv, AwardsInv, [Next]_<<part, quota, engagement, cache>>
               PROVE  (LikesInv /\ AwardsInv)'
    OBVIOUS
  <2>1. CASE Engage
    BY <2>1, EngagedNext DEF Engage
  <2>2. CASE UNCHANGED engagement
    <3>1. UNCHANGED <<likes, likeCount, received, events, score, posts, badge, open, crossed, doubled, raced>>
      BY <2>2 DEF engagement
    <3>2. LikesInv'
      BY <3>1, LikesApart DEF LikesInv, LikesTyped, Liking
    <3>3. AwardsInv'
      BY <3>1, AwardsApart DEF AwardsInv, AwardsTyped, Awarding
    <3> QED
      BY <3>2, <3>3
  <2> QED
    BY <2>1, <2>2 DEF Next, Spend, Show
<1>2. LikesInv /\ AwardsInv => CountersKept
  BY SameSizes DEF LikesInv, LikesSole, LikesOwn, AwardsInv, AwardsBehind, AwardsSole, CountersKept,
                   Engaged!CountersKept
<1> QED
  BY <1>1, <1>2, EngagedInit, PTL DEF Spec

-----------------------------------------------------------------------------
\* The budget: the composition starts where the quota does, and its steps are the quota's.

Spent == INSTANCE SourceQuotaProofs

LEMMA QuotaSame ==
  /\ Spent!QuotaAssumption
  /\ Init => Spent!Init
  /\ Quota!Next => Spent!Next
<1>1. Spent!QuotaAssumption
  BY ServicesAssumption DEF Quota!QuotaAssumption, Spent!QuotaAssumption, Quota!IsFiniteSet, Spent!IsFiniteSet
<1>2. Init => Spent!Init
  BY DEF Init, Quota!Init, Spent!Init, Quota!Idle, Spent!Idle, Quota!Periods, Spent!Periods
<1>3. Quota!Next => Spent!Next
  BY DEF Quota!Periods, Spent!Periods, Quota!Add, Spent!Add, Quota!Idle, Spent!Idle, Quota!Goes,
         Spent!Goes, Quota!Fault, Spent!Fault, Quota!Cost, Spent!Cost, Quota!Wants, Spent!Wants,
         Quota!Reserve, Spent!Reserve, Quota!ReserveFails, Spent!ReserveFails, Quota!Granted,
         Spent!Granted, Quota!Grant, Spent!Grant, Quota!Settle, Spent!Settle, Quota!TakeBack,
         Spent!TakeBack, Quota!TakeBackFails, Spent!TakeBackFails, Quota!Bill, Spent!Bill,
         Quota!Onwards, Spent!Onwards, Quota!SearchAnswered, Spent!SearchAnswered,
         Quota!DetailsAnswered, Spent!DetailsAnswered, Quota!PageAnswered, Spent!PageAnswered,
         Quota!Refused, Spent!Refused, Quota!CallFails, Spent!CallFails, Quota!Refund, Spent!Refund,
         Quota!RefundFails, Spent!RefundFails, Quota!Die, Spent!Die, Quota!NextPeriod, Spent!NextPeriod,
         Quota!Next, Spent!Next
<1> QED
  BY <1>1, <1>2, <1>3

\* "Can never overshoot the cap", in the composition.
THEOREM BudgetKeptHolds == Spec => []BudgetKept
<1>1. Init => Spent!IInv
  BY QuotaSame, Spent!InitIInv
<1>2. Spent!IInv /\ [Next]_<<part, quota, engagement, cache>> => Spent!IInv'
  <2>1. [Next]_<<part, quota, engagement, cache>> => [Spent!Next]_(Spent!vars)
    BY QuotaSame DEF Next, Spend, Engage, Show, quota, Spent!vars
  <2> QED
    BY <2>1, QuotaSame, Spent!StepIInv
<1>3. Spent!IInv => BudgetKept
  BY QuotaSame, Spent!IInvSuffices
     DEF BudgetKept, Quota!BudgetKept, Spent!BudgetKept, Quota!Periods, Spent!Periods, Quota!Held, Spent!Held,
         Quota!Units, Spent!Units, Quota!Cardinality, Spent!Cardinality, Quota!IsFiniteSet, Spent!IsFiniteSet
<1> QED
  BY <1>1, <1>2, <1>3, PTL DEF Spec

=============================================================================
