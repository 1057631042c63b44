------------------------------ MODULE Evidence ------------------------------
(***************************************************************************)
(* The catalogue and its evidence (ingestion/pipeline.py): sweeps of two   *)
(* sources insert and update places, fetches attach reviews to them, and   *)
(* an admin merges duplicates and closes conflicts (api/v1/admin.py).      *)
(*                                                                         *)
(* A sweep reads its candidates once and commits every CHUNK records.  Its *)
(* session does not autoflush: what it adds is seen by its own queries only*)
(* after a flush, and by others only after the commit.  The names and      *)
(* positions of the records come from the world: RealPlace says which      *)
(* place each is about, which no step of the program reads.                *)
(***************************************************************************)
EXTENDS Resolution

CONSTANTS
  Ids,           \* bound: restaurants there may be
  Keys,          \* place records, (source, external id)
  SourceOf,      \* Keys -> {"osm", "google"}
  Versions,      \* Keys -> the payloads [name, at] the source may return
  Entities,      \* Wikidata items: a function to [label, names]
  Raws,          \* text items: a function to [hint, at, named, text]
  RealPlace,     \* a function from keys, entities and texts to places
  PlaceNames,    \* a function from places to their names
  CHUNK,         \* records between commits (100)
  MaxConflicts,  \* bound: open conflict rows of a record
  MaxRuns        \* bound: task runs

Jobs == {"osm", "google", "reviews"}
Rows == Keys \cup DOMAIN Entities
Places == DOMAIN PlaceNames
Payloads == [name : Names, at : Int]
SourceRows == [restaurant : Ids, payload : Payloads \cup {None}]

ASSUME EvidenceAssumption ==
  /\ Ids \subseteq Nat
  /\ SourceOf \in [Keys -> {"osm", "google"}]
  /\ \A k \in Keys : Versions[k] \subseteq Payloads
  /\ Keys \cap DOMAIN Entities = {}
  /\ \A e \in DOMAIN Entities : Entities[e].label \in Names /\ Entities[e].names \subseteq Names
  /\ \A r \in DOMAIN Raws : /\ Raws[r].hint \in Names \cup {None}
                           /\ Raws[r].at \in Int \cup {None}
  /\ \A x \in Rows \cup DOMAIN Raws : RealPlace[x] \in Places
  /\ \A p \in Places : PlaceNames[p] \subseteq Names
  /\ {CHUNK, MaxConflicts, MaxRuns} \subseteq Nat \ {0}
  /\ None \notin Ids \cup Names \cup Int \cup SourceRows

VARIABLES
  name, at,      \* restaurant -> normalised name and position, None while there is no such row
  closed,        \* restaurants that were merged away
  alias,         \* <<restaurant, name>>
  source,        \* key -> [restaurant, payload], or None
  conflicts,     \* record or text -> its open conflict rows
  review,        \* text -> [restaurant, duplicate, done], or None
  job, begun,    \* the run of a task, or None; the runs there were
  of, blind      \* history: the place each restaurant was created for, and the restaurants
                 \* created while there was one that the creating task had not read

catalogue == <<name, at, closed, alias, source, conflicts>>
vars == <<catalogue, review, job, begun, of, blind>>

-----------------------------------------------------------------------------
(* What a task sees. *)

\* The rows of f in place of those of g.
Over(f, g) == [x \in DOMAIN f \cup DOMAIN g |-> IF x \in DOMAIN f THEN f[x] ELSE g[x]]

\* Row x is written.
Put(f, x, value) == [y \in DOMAIN f \cup {x} |-> IF y = x THEN value ELSE f[y]]

NoRows == [x \in {} |-> None]

\* What a chunk has written: the new payload of a known record, the source row of a new one.
Nothing == [name |-> NoRows, at |-> NoRows, alias |-> {}, payload |-> NoRows, added |-> NoRows,
            conflicts |-> NoRows]

Running == {j \in Jobs : job[j] # None}

\* The committed rows under the transaction's own.
Seen(txn) ==
  [name |-> Over(txn.name, name), at |-> Over(txn.at, at), alias |-> alias \cup txn.alias,
   source |-> Over(txn.added, [k \in Rows |-> IF k \in DOMAIN txn.payload
                                               THEN [source[k] EXCEPT !.payload = txn.payload[k]]
                                               ELSE source[k]]),
   conflicts |-> Over(txn.conflicts, conflicts)]

Rowed(view) == {i \in Ids : view.name[i] # None}

\* load_candidates: every restaurant of the city, closed ones too.
Candidates(view) ==
  {[id |-> i, name |-> view.name[i], at |-> view.at[i],
    shown |-> IF i \in closed THEN {} ELSE {view.name[i]},
    aliases |-> {n \in Names : <<i, n>> \in view.alias},
    keys |-> {k \in Rows : view.source[k] # None /\ view.source[k].restaurant = i}]
   : i \in Rowed(view)}

\* The aliases that running transactions other than these have inserted.
Flushed(own) == UNION {job[h].txn.alias \ job[h].pending : h \in Running \ own}

\* The names of the restaurants they are inserting.
Inserting(jobs) ==
  UNION {{job[h].txn.name[i] : i \in {x \in DOMAIN job[h].txn.name : name[x] = None}} : h \in jobs}

Existing == {i \in Ids : \/ name[i] # None
                         \/ \E j \in Running : i \in DOMAIN job[j].txn.name}

TypeOK ==
  /\ name \in [Ids -> Names \cup {None}] /\ at \in [Ids -> Int \cup {None}]
  /\ \A i \in Ids : (name[i] = None) = (at[i] = None)
  /\ closed \subseteq Rowed(Seen(Nothing)) /\ alias \subseteq Rowed(Seen(Nothing)) \X Names
  /\ \A k \in Rows : source[k] # None => source[k].restaurant \in Rowed(Seen(Nothing))
  /\ conflicts \in [Keys \cup DOMAIN Raws -> 0..MaxConflicts]
  /\ \A r \in DOMAIN Raws : review[r] # None => review[r].restaurant \in Rowed(Seen(Nothing))
  /\ \A j \in Running : job[j].pending \subseteq job[j].txn.alias

Init ==
  /\ name = [i \in Ids |-> None] /\ at = [i \in Ids |-> None]
  /\ closed = {} /\ alias = {}
  /\ source = [k \in Rows |-> None]
  /\ conflicts = [x \in Keys \cup DOMAIN Raws |-> 0]
  /\ review = [r \in DOMAIN Raws |-> None]
  /\ job = [j \in Jobs |-> None] /\ begun = 0
  /\ of = [i \in Ids |-> None] /\ blind = {}

-----------------------------------------------------------------------------
(* A sweep: discover_places and discover_google_places. *)

Begin(j) ==
  /\ job[j] = None /\ begun < MaxRuns
  /\ begun' = begun + 1
  /\ job' = [job EXCEPT ![j] =
       [candidates |-> Candidates(Seen(Nothing)), txn |-> Nothing, pending |-> {}, count |-> 0,
        knows |-> Rowed(Seen(Nothing)),
        todo |-> IF j = "reviews" THEN {r \in DOMAIN Raws : review[r] = None}
                 ELSE {k \in Keys : SourceOf[k] = j}]]
  /\ UNCHANGED <<catalogue, review, of, blind>>

\* One record of the batch is done.
Advance(j, k, txn, pending, candidates, knows) ==
  job' = [job EXCEPT ![j] = [candidates |-> candidates, txn |-> txn, pending |-> pending,
                             count |-> @.count + 1, todo |-> @.todo \ {k}, knows |-> knows]]

\* Mutant of Changed: the restaurant keeps what it had.
ChangedNever(f, i, old, new) == f

\* Fields that do not change are not written.
Changed(f, i, old, new) == IF old = new THEN f ELSE Put(f, i, new)

\* The record is known: skipped if its payload is, else the restaurant takes it over.
Refresh(j, k, p) ==
  LET txn == job[j].txn
      view == Seen(txn)
      i == view.source[k].restaurant
      updated == [txn EXCEPT !.name = Changed(@, i, view.name[i], p.name),
                             !.at = Changed(@, i, view.at[i], p.at),
                             !.payload = Put(@, k, p)]
  IN  /\ view.source[k] # None
      /\ Advance(j, k, IF view.source[k].payload = p THEN txn ELSE updated,
                 job[j].pending, job[j].candidates, job[j].knows)
      /\ UNCHANGED <<of, blind>>

Incoming(k, p) == [name |-> p.name, at |-> p.at, key |-> k]

\* The resolver refuses: a conflict row, every time.
Refuse(j, k, p) ==
  LET txn == job[j].txn
      view == Seen(txn)
  IN  /\ view.source[k] = None
      /\ Resolve(Incoming(k, p), job[j].candidates).method = "ambiguous"
      /\ view.conflicts[k] < MaxConflicts
      /\ Advance(j, k, [txn EXCEPT !.conflicts = Put(@, k, view.conflicts[k] + 1)],
                 job[j].pending, job[j].candidates, job[j].knows)
      /\ UNCHANGED <<of, blind>>

\* _add_alias looks for the alias among what is flushed.
NeedsAlias(j, i, n) ==
  /\ n # Seen(job[j].txn).name[i]
  /\ <<i, n>> \notin (alias \cup job[j].txn.alias) \ job[j].pending

\* The same alias twice before a flush breaks the unique key.
Breaks(j, i, n) == NeedsAlias(j, i, n) /\ <<i, n>> \in job[j].pending

Attach(j, k, p) ==
  LET txn == job[j].txn
      found == Resolve(Incoming(k, p), job[j].candidates)
      added == IF NeedsAlias(j, found.id, p.name) THEN {<<found.id, p.name>>} ELSE {}
  IN  /\ Seen(txn).source[k] = None /\ found.id # None
      /\ ~Breaks(j, found.id, p.name)
      /\ Advance(j, k,
                 [txn EXCEPT !.alias = @ \cup added,
                             !.added = Put(@, k, [restaurant |-> found.id, payload |-> p])],
                 job[j].pending \cup added, job[j].candidates, job[j].knows)
      /\ UNCHANGED <<of, blind>>

\* Mutant of AfterCreation: the sweep does not learn of the place it made.
AfterCreationForgets(j, candidates, created, txn) == candidates

\* The OSM task reads all candidates again, without the key that is not flushed yet; the Google
\* task adds the one it made.
AfterCreation(j, candidates, created, txn) ==
  IF j = "osm" THEN Candidates(Seen(txn)) ELSE candidates \cup {created}

NextId == CHOOSE i \in Ids \ Existing : \A x \in Ids \ Existing : i <= x

\* A new restaurant; the insert flushes the session.  It waits for another sweep's uncommitted
\* place of that name, whose slug it would take.
Create(j, k, p) ==
  LET txn == job[j].txn
      i == NextId
      inserted == [txn EXCEPT !.name = Put(@, i, p.name), !.at = Put(@, i, p.at)]
      created == [id |-> i, name |-> p.name, at |-> p.at, shown |-> {p.name}, aliases |-> {},
                  keys |-> {k}]
  IN  /\ Seen(txn).source[k] = None
      /\ Resolve(Incoming(k, p), job[j].candidates).method = "new"
      /\ Existing # Ids
      /\ job[j].pending \cap alias = {}
      /\ p.name \notin Inserting(Running \ {j})
      /\ Advance(j, k,
                 [inserted EXCEPT !.added = Put(@, k, [restaurant |-> i, payload |-> p])],
                 {}, AfterCreation(j, job[j].candidates, created, inserted),
                 job[j].knows \cup {i} \cup IF j = "osm" THEN Rowed(Seen(txn)) ELSE {})
      /\ of' = [of EXCEPT ![i] = RealPlace[k]]
      /\ blind' = IF Existing \subseteq job[j].knows THEN blind \ {i} ELSE blind \cup {i}

Upsert(j, k, p) ==
  /\ job[j] # None /\ k \in job[j].todo /\ job[j].count < CHUNK
  /\ Refresh(j, k, p) \/ Refuse(j, k, p) \/ Attach(j, k, p) \/ Create(j, k, p)
  /\ UNCHANGED <<catalogue, review, begun>>

\* Mutant of Commit: the evidence is committed apart from the restaurants it is about.
CommitSources(j) ==
  /\ job[j] # None /\ job[j].todo = {}
  /\ source' = Seen(job[j].txn).source
  /\ job' = [job EXCEPT ![j] = None]
  /\ UNCHANGED <<name, at, alias, conflicts, closed, review, begun, of, blind>>

\* Every CHUNK records, and at the end, when the run is over.
Commit(j) ==
  /\ job[j] # None /\ (job[j].count = CHUNK \/ job[j].todo = {})
  /\ job[j].txn.alias \cap (alias \cup Flushed({j})) = {}
  /\ LET view == Seen(job[j].txn)
     IN  /\ name' = view.name /\ at' = view.at /\ alias' = view.alias
         /\ source' = view.source /\ conflicts' = view.conflicts
  /\ job' = [job EXCEPT ![j] = IF @.todo = {} THEN None
                               ELSE [@ EXCEPT !.txn = Nothing, !.pending = {}, !.count = 0]]
  /\ UNCHANGED <<closed, review, begun, of, blind>>

\* The worker dies, or the flush raises: the chunk is rolled back and the run is gone.
Abort(j) ==
  /\ job[j] # None
  /\ job' = [job EXCEPT ![j] = None]
  /\ UNCHANGED <<catalogue, review, begun, of, blind>>

-----------------------------------------------------------------------------
(* Reviews: a fetch stores each text in turn, and the AI worker flags duplicates. *)

\* _resolve_review_restaurant: the hint at the resolver's bar, else the only place named.
Target(r, candidates) ==
  LET raw == Raws[r]
      hinted == IF raw.hint = None THEN Resolution(None, "new", 0)
                ELSE Resolve([name |-> raw.hint, at |-> raw.at, key |-> None], candidates)
      accepted == hinted.id # None /\ hinted.confidence >= 900
      refused == hinted.method = "ambiguous"
  IN  [id |-> IF accepted \/ refused THEN hinted.id ELSE ResolveMention(raw.named, candidates),
       refused |-> refused,
       learns |-> accepted /\ raw.hint # name[hinted.id]]

\* store_review, with its own identities; a text without a target is dropped.
Store(r) ==
  LET run == job["reviews"]
      target == Target(r, run.candidates)
  IN  /\ run # None /\ r \in run.todo
      /\ target.refused => conflicts[r] < MaxConflicts
      /\ job' = [job EXCEPT !["reviews"].todo = @ \ {r}]
      /\ review' = IF target.id = None \/ review[r] # None THEN review
                   ELSE [review EXCEPT ![r] = [restaurant |-> target.id, duplicate |-> FALSE,
                                               done |-> FALSE]]
      /\ alias' = IF target.learns THEN alias \cup {<<target.id, Raws[r].hint>>} ELSE alias
      /\ conflicts' = IF target.refused THEN [conflicts EXCEPT ![r] = @ + 1] ELSE conflicts
      /\ UNCHANGED <<name, at, closed, source, begun, of, blind>>

\* _flag_near_duplicate: the other reviews of the restaurant, processed or not, that read alike.
NearDuplicates(r) ==
  {s \in DOMAIN Raws \ {r} : /\ review[s] # None /\ review[s].restaurant = review[r].restaurant
                             /\ Raws[s].text = Raws[r].text}

Process(r) ==
  /\ review[r] # None /\ ~review[r].done
  /\ review' = [review EXCEPT ![r].done = TRUE, ![r].duplicate = NearDuplicates(r) # {}]
  /\ UNCHANGED <<catalogue, job, begun, of, blind>>

-----------------------------------------------------------------------------
(* Admins, and the alias script. *)

\* An admin merges what is open and the same place, which the code leaves to the admin.  A name
\* the target already has as an alias breaks the unique key, and the request.
Merge(target, duplicate) ==
  /\ target # duplicate /\ name[target] # None /\ name[duplicate] # None
  /\ of[target] = of[duplicate] /\ {target, duplicate} \cap closed = {}
  /\ <<target, name[duplicate]>> \notin alias \cup Flushed({})
  /\ alias' = alias \cup {<<target, name[duplicate]>>}
  /\ closed' = closed \cup {duplicate}
  /\ source' = [k \in Rows |-> IF source[k] # None /\ source[k].restaurant = duplicate
                               THEN [source[k] EXCEPT !.restaurant = target] ELSE source[k]]
  /\ review' = [r \in DOMAIN Raws |->
                  IF review[r] # None /\ review[r].restaurant = duplicate
                  THEN [review[r] EXCEPT !.restaurant = target] ELSE review[r]]
  /\ UNCHANGED <<name, at, conflicts, job, begun, of, blind>>

\* resolve_conflict marks the row and nothing else.
ResolveConflict(x) ==
  /\ conflicts[x] > 0
  /\ conflicts' = [conflicts EXCEPT ![x] = @ - 1]
  /\ UNCHANGED <<name, at, closed, alias, source, review, job, begun, of, blind>>

\* enrich_city_sync: a Wikidata item has no coordinates, so a match is by name alone and
\* nothing is created; candidates come without aliases.
Enrich(e) ==
  LET candidates == {[c EXCEPT !.aliases = {}, !.keys = {}] : c \in Candidates(Seen(Nothing))}
      found == Resolve([name |-> Entities[e].label, at |-> None, key |-> None], candidates).id
  IN  /\ source[e] = None /\ found # None
      /\ source' = [source EXCEPT ![e] = [restaurant |-> found, payload |-> None]]
      /\ alias' = alias \cup {<<found, n>> : n \in (Entities[e].names \cap Distinctive)
                                                     \ {name[found]}}
      /\ UNCHANGED <<name, at, closed, conflicts, review, job, begun, of, blind>>

-----------------------------------------------------------------------------

Next ==
  \/ \E j \in Jobs : Begin(j) \/ Commit(j) \/ Abort(j)
  \/ \E j \in {"osm", "google"} : \E k \in Keys : \E p \in Versions[k] : Upsert(j, k, p)
  \/ \E r \in DOMAIN Raws : Store(r) \/ Process(r)
  \/ \E target, duplicate \in Ids : Merge(target, duplicate)
  \/ \E x \in Keys \cup DOMAIN Raws : ResolveConflict(x)
  \/ \E e \in DOMAIN Entities : Enrich(e)

Spec == Init /\ [][Next]_vars

-----------------------------------------------------------------------------
(* The world the resolver is made for. *)

\* What the records call a place, and where they put it.
RecordNames(p) == UNION {{v.name : v \in Versions[k]} : k \in {h \in Keys : RealPlace[h] = p}}
RecordSpots(p) == UNION {{v.at : v \in Versions[k]} : k \in {h \in Keys : RealPlace[h] = p}}

\* A name, at a position that may be unknown, differs from another at y.
Unlike(n, x, m, y) ==
  \/ x # None /\ Abs(x - y) > CHAIN_DISTANCE
  \/ /\ NameSimilarity[<<n, m>>] < STRONG
     /\ NameSimilarity[<<n, m>>] < MODERATE \/ x = None \/ Abs(x - y) > EXACT_DISTANCE

\* ... from all that another place is called.
ToldApart(n, x, p) ==
  \A q \in Places \ {p} : \A m \in PlaceNames[q], y \in RecordSpots(q) : Unlike(n, x, m, y)

\* Different places are far apart or called differently, and nothing calls a place by a name of
\* another's.
PlacesDiffer ==
  /\ \A k \in Keys : \A v \in Versions[k] : /\ v.name \in PlaceNames[RealPlace[k]]
                                            /\ ToldApart(v.name, v.at, RealPlace[k])
  /\ \A e \in DOMAIN Entities : /\ Entities[e].names \subseteq PlaceNames[RealPlace[e]]
                                /\ ToldApart(Entities[e].label, None, RealPlace[e])
  /\ \A r \in DOMAIN Raws :
       /\ Raws[r].hint # None => /\ Raws[r].hint \in PlaceNames[RealPlace[r]]
                                 /\ ToldApart(Raws[r].hint, Raws[r].at, RealPlace[r])
       /\ \A q \in Places \ {RealPlace[r]} : Raws[r].named \cap PlaceNames[q] \cap Distinctive = {}

\* The records of one place are near each other and alike.
RecordsAlike ==
  \A p \in Places : \A n, m \in RecordNames(p), x, y \in RecordSpots(p) :
    NameSimilarity[<<n, m>>] >= MODERATE /\ Abs(x - y) <= EXACT_DISTANCE

-----------------------------------------------------------------------------
(* In that world the catalogue follows the world. *)

\* What is attached to a restaurant is about the place it was made for: its records, its
\* reviews, and its aliases, which decide what will be attached next (upsert_place, store_review,
\* resolve_candidate, enrich_city_sync), whatever overlaps, dies or is merged.
OnePlaceEach ==
  /\ \A k \in Rows : source[k] # None => of[source[k].restaurant] = RealPlace[k]
  /\ \A r \in DOMAIN Raws : review[r] # None => of[review[r].restaurant] = RealPlace[r]
  /\ \A a \in alias : a[2] \in PlaceNames[of[a[1]]]

\* A place has two open restaurants only if a task made one without having read the other: the
\* sweep that runs alone makes no twins (discover_places, candidate_from_place).
TwinsOnlyBlind ==
  \A i, j \in Rowed(Seen(Nothing)) \ closed :
    i # j /\ of[i] = of[j] => i \in blind \/ j \in blind

\* An open restaurant is called what one of its records says now, unless it has none left: when
\* two sweeps rename it, no stale write brings back a name that no source gives it any more
\* (upsert_place).  A merged one may get a record from a sweep that read it before.
NameIsSourced ==
  \A i \in Rowed(Seen(Nothing)) \ closed :
    LET own == {k \in Keys : source[k] # None /\ source[k].restaurant = i}
    IN  own # {} => name[i] \in {source[k].payload.name : k \in own}

=============================================================================
