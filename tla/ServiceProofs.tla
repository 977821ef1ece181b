---------------------------- MODULE ServiceProofs ----------------------------
(***************************************************************************)
(* The services every request shares: the response cache, the rate         *)
(* limiter, the websocket manager, the push tokens and the accounts, for   *)
(* any number of requests, callers, sockets, phones and people.  They      *)
(* share no state, so each has its own inductive invariant.                *)
(***************************************************************************)
EXTENDS ResponseCache, RateLimiter, Broadcast, PushTokens, Accounts,
        FunctionTheorems, FiniteSetTheorems, TLAPS

-----------------------------------------------------------------------------
(* The response cache *)

CacheEntry == [is : {"entry"}, age : Nat, left : 0 .. Ttl, missed : BOOLEAN]
CacheRead == [is : {"read"}, key : Keys, age : Nat, took : 0 .. ReadTime]

CacheTypeOK ==
  /\ entries \in [Keys -> CacheEntry \cup {None}]
  /\ gets \in [Requests -> CacheRead \cup {None}]
  /\ editing \subseteq DOMAIN Invalidates
  /\ answered \in Nat

\* A read is outdated no longer than it takes, a copy no longer than the read
\* that filled it and the part of its life that is over.
ReadsAge == \A r \in Requests : gets[r] # None => gets[r].age <= gets[r].took + 1
CopiesAge ==
  \A k \in Keys : entries[k] # None => entries[k].age <= ReadTime + 1 + (Ttl - entries[k].left)

CacheInv == CacheTypeOK /\ ReadsAge /\ CopiesAge /\ EditsReachTheCache /\ StalenessBounded

\* The records of entries and reads are told from their absence by the tag.
LEMMA CacheRecords ==
  /\ \A e \in CacheEntry : e # None /\ e.age \in Nat /\ e.left \in 0 .. Ttl /\ e.missed \in BOOLEAN
  /\ \A q \in CacheRead : q # None /\ q.age \in Nat /\ q.took \in 0 .. ReadTime /\ q.key \in Keys
  /\ \A age \in Nat : Entry(age) \in CacheEntry /\ Entry(age).age = age /\ Entry(age).left = Ttl
                        /\ ~Entry(age).missed
  /\ \A k \in Keys : Reading(k) \in CacheRead /\ Reading(k).age = 0 /\ Reading(k).took = 0
  BY CacheAssumption DEF CacheEntry, CacheRead, None, Entry, Reading

LEMMA CacheInitInv == CacheInit => CacheInv
  BY CacheAssumption
  DEF CacheInit, CacheInv, CacheTypeOK, ReadsAge, CopiesAge, StalenessBounded,
      EditsReachTheCache

\* Only one read changes, or one entry.
LEMMA ReadsKept ==
  ASSUME CacheInv, NEW r \in Requests, NEW q \in CacheRead \cup {None},
         q # None => q.age <= q.took + 1, gets' = [gets EXCEPT ![r] = q]
  PROVE  gets' \in [Requests -> CacheRead \cup {None}] /\ ReadsAge'
  BY DEF CacheInv, CacheTypeOK, ReadsAge

LEMMA CopiesKept ==
  ASSUME CacheInv, NEW k \in Keys, NEW e \in CacheEntry \cup {None},
         e # None => e.age <= ReadTime + 1 + (Ttl - e.left) /\ ~e.missed,
         entries' = [entries EXCEPT ![k] = e], UNCHANGED editing
  PROVE  entries' \in [Keys -> CacheEntry \cup {None}] /\ CopiesAge' /\ EditsReachTheCache'
  BY DEF CacheInv, CacheTypeOK, CopiesAge, EditsReachTheCache

\* An answer from the cache comes from a copy that has a tick to live at least.
LEMMA GetHitInv ==
  ASSUME CacheInv, NEW r \in Requests, NEW k \in Keys, GetHit(r, k)
  PROVE  CacheInv'
<1>1. entries[k] \in CacheEntry /\ entries[k].left > 0 /\ answered' = entries[k].age
  BY DEF CacheInv, CacheTypeOK, GetHit, Live
<1>2. answered' \in Nat /\ answered' <= ReadTime + 1 + (Ttl - entries[k].left)
  BY <1>1, CacheRecords DEF CacheInv, CopiesAge
<1>3. StalenessBounded'
  BY <1>1, <1>2, CacheRecords, CacheAssumption DEF StalenessBounded
<1>4. QED  BY <1>2, <1>3
      DEF GetHit, CacheInv, CacheTypeOK, ReadsAge, CopiesAge, EditsReachTheCache

LEMMA GetMissInv ==
  ASSUME CacheInv, NEW r \in Requests, NEW k \in Keys, GetMiss(r, k)
  PROVE  CacheInv'
<1>1. gets' \in [Requests -> CacheRead \cup {None}] /\ ReadsAge'
  <2>1. Reading(k) \in CacheRead /\ Reading(k).age <= Reading(k).took + 1
    BY CacheRecords
  <2>2. QED  BY <2>1, ReadsKept DEF GetMiss
<1>2. entries' \in [Keys -> CacheEntry \cup {None}] /\ CopiesAge' /\ EditsReachTheCache'
  BY CopiesKept DEF GetMiss
<1>3. QED  BY <1>1, <1>2 DEF GetMiss, CacheInv, CacheTypeOK, StalenessBounded

LEMMA StoreAndAnswerInv ==
  ASSUME CacheInv, NEW r \in Requests, StoreAndAnswer(r)
  PROVE  CacheInv'
<1>1. gets[r] \in CacheRead /\ gets[r].age <= ReadTime + 1 /\ answered' = gets[r].age
      /\ answered' \in Nat /\ gets[r].key \in Keys
  BY CacheRecords, CacheAssumption DEF StoreAndAnswer, CacheInv, CacheTypeOK, ReadsAge
<1>2. gets' \in [Requests -> CacheRead \cup {None}] /\ ReadsAge'
  BY ReadsKept DEF StoreAndAnswer
<1>3. entries' \in [Keys -> CacheEntry \cup {None}] /\ CopiesAge' /\ EditsReachTheCache'
  <2>1. UNCHANGED editing
        /\ entries' = [entries EXCEPT ![gets[r].key] =
                          IF Ttl > 0 THEN Entry(gets[r].age) ELSE None]
    BY DEF StoreAndAnswer, Stored
  <2>2. CASE Ttl > 0
    <3> DEFINE e == Entry(gets[r].age)
    <3>1. e \in CacheEntry /\ e.age = gets[r].age /\ e.left = Ttl /\ ~e.missed
      BY <1>1, CacheRecords
    <3>2. e.age <= ReadTime + 1 + (Ttl - e.left)
      BY <1>1, <3>1, CacheAssumption
    <3>3. entries' = [entries EXCEPT ![gets[r].key] = e]
      BY <2>1, <2>2
    <3> HIDE DEF e
    <3>4. QED  BY <1>1, <2>1, <3>1, <3>2, <3>3, CopiesKept
  <2>3. CASE ~(Ttl > 0)
    BY <1>1, <2>1, <2>3, CopiesKept
  <2>4. QED  BY <2>2, <2>3
<1>4. StalenessBounded'
  BY <1>1, CacheAssumption DEF StalenessBounded
<1>5. QED  BY <1>1, <1>2, <1>3, <1>4 DEF StoreAndAnswer, CacheInv, CacheTypeOK

LEMMA ReadFailsInv ==
  ASSUME CacheInv, NEW r \in Requests, ReadFails(r)
  PROVE  CacheInv'
<1>1. gets' \in [Requests -> CacheRead \cup {None}] /\ ReadsAge'
  BY ReadsKept DEF ReadFails
<1>2. QED  BY <1>1
      DEF ReadFails, CacheInv, CacheTypeOK, CopiesAge, EditsReachTheCache, StalenessBounded

\* What outdating makes of a read and of a copy.
LEMMA OutdatedRecords ==
  /\ \A q \in CacheRead : /\ Outdated(q) \in CacheRead /\ Outdated(q).took = q.took
                          /\ q.age <= q.took + 1 => Outdated(q).age <= q.took + 1
  /\ \A e \in CacheEntry :
       /\ Outdated(e) \in CacheEntry /\ Outdated(e).left = e.left /\ Outdated(e).missed = e.missed
       /\ e.age <= ReadTime + 1 + (Ttl - e.left) => Outdated(e).age <= ReadTime + 1 + (Ttl - e.left)
  BY CacheAssumption DEF Outdated, CacheRead, CacheEntry

LEMMA OutdateReadsInv ==
  ASSUME CacheInv, NEW ks, OutdateReads(ks)
  PROVE  gets' \in [Requests -> CacheRead \cup {None}] /\ ReadsAge'
<1>1. ASSUME NEW r \in Requests
      PROVE  /\ gets'[r] \in CacheRead \cup {None}
             /\ gets'[r] # None => gets'[r].age <= gets'[r].took + 1
  <2>1. gets[r] \in CacheRead \cup {None} /\ (gets[r] # None => gets[r].age <= gets[r].took + 1)
    BY DEF CacheInv, CacheTypeOK, ReadsAge
  <2>2. gets'[r] = IF gets[r] # None /\ gets[r].key \in ks THEN Outdated(gets[r]) ELSE gets[r]
    BY DEF OutdateReads
  <2>3. CASE gets[r] # None /\ gets[r].key \in ks
    BY <2>1, <2>2, <2>3, OutdatedRecords, CacheRecords
  <2>4. CASE ~(gets[r] # None /\ gets[r].key \in ks)
    BY <2>1, <2>2, <2>4
  <2>5. QED  BY <2>3, <2>4
<1>2. gets' = [r \in Requests |-> gets'[r]]
  BY DEF OutdateReads
<1>3. QED  BY <1>1, <1>2 DEF ReadsAge

\* An entry stays within its bounds and its miss is known to an edit under way.
CopyOK(e, k, eds) ==
  /\ e \in CacheEntry \cup {None}
  /\ e # None => e.age <= ReadTime + 1 + (Ttl - e.left)
  /\ e # None /\ e.missed => \E x \in eds : Invalidates[x] = k /\ k \in Changes[x]

LEMMA CopyFacts ==
  CacheInv => \A k \in Keys : CopyOK(entries[k], k, editing)
  BY DEF CacheInv, CacheTypeOK, CopiesAge, EditsReachTheCache, CopyOK

LEMMA CopiesOK ==
  ASSUME DOMAIN entries' = Keys, entries' = [k \in Keys |-> entries'[k]],
         \A k \in Keys : CopyOK(entries'[k], k, editing')
  PROVE  entries' \in [Keys -> CacheEntry \cup {None}] /\ CopiesAge' /\ EditsReachTheCache'
  BY DEF CopyOK, CopiesAge, EditsReachTheCache

LEMMA CommitInv ==
  ASSUME CacheInv, NEW e \in DOMAIN Invalidates, Commit(e)
  PROVE  CacheInv'
<1>1. gets' \in [Requests -> CacheRead \cup {None}] /\ ReadsAge'
  BY OutdateReadsInv DEF Commit
<1>2. ASSUME NEW k \in Keys
      PROVE  CopyOK(entries'[k], k, editing')
  <2> DEFINE n == [Outdated(entries[k]) EXCEPT !.missed = @ \/ Invalidates[e] = k]
  <2>1. CopyOK(entries[k], k, editing) /\ editing' = editing \cup {e}
    BY CopyFacts DEF Commit
  <2>2. CASE entries[k] = None \/ k \notin Changes[e]
    BY <2>1, <2>2 DEF Commit, CopyOK
  <2>3. CASE ~(entries[k] = None \/ k \notin Changes[e])
    <3>1. entries[k] \in CacheEntry /\ entries'[k] = n
      BY <2>1, <2>3 DEF Commit, CopyOK
    <3>2. Outdated(entries[k]) \in CacheEntry /\ Outdated(entries[k]).left = entries[k].left
          /\ Outdated(entries[k]).missed = entries[k].missed
          /\ Outdated(entries[k]).age <= ReadTime + 1 + (Ttl - entries[k].left)
      BY <3>1, <2>1, OutdatedRecords, CacheRecords DEF CopyOK
    <3>3. n \in CacheEntry /\ n.left = entries[k].left /\ n.age = Outdated(entries[k]).age
          /\ (n.missed => entries[k].missed \/ Invalidates[e] = k)
      BY <3>2 DEF CacheEntry
    <3> HIDE DEF n
    <3>4. QED  BY <2>1, <2>3, <3>1, <3>2, <3>3, CacheRecords DEF CopyOK
  <2>4. QED  BY <2>2, <2>3
<1>3. entries' \in [Keys -> CacheEntry \cup {None}] /\ CopiesAge' /\ EditsReachTheCache'
  BY <1>2, CopiesOK DEF Commit
<1>4. QED  BY <1>1, <1>3 DEF Commit, CacheInv, CacheTypeOK, StalenessBounded

LEMMA EditEndsInv ==
  ASSUME CacheInv, NEW e \in DOMAIN Invalidates, Invalidate(e) \/ EditFails(e)
  PROVE  CacheInv'
<1>1. UNCHANGED <<gets, answered>> /\ editing' = editing \ {e}
  BY DEF Invalidate, EditFails
<1>2. Invalidates[e] \in Keys /\ entries \in [Keys -> CacheEntry \cup {None}]
  BY DEF Invalidates, Keys, CacheInv, CacheTypeOK
<1>3. DOMAIN entries' = Keys /\ entries' = [k \in Keys |-> entries'[k]]
  BY <1>2 DEF Invalidate, EditFails
<1>4. ASSUME NEW k \in Keys
      PROVE  CopyOK(entries'[k], k, editing')
  <2>1. CopyOK(entries[k], k, editing)
    BY CopyFacts
  <2>2. CASE Invalidates[e] # k
    <3>1. entries'[k] = entries[k]
      BY <1>2, <2>2 DEF Invalidate, EditFails
    <3>2. QED  BY <1>1, <2>1, <2>2, <3>1 DEF CopyOK
  <2>3. CASE Invalidates[e] = k
    <3>1. \/ entries'[k] = None
          \/ entries[k] \in CacheEntry /\ entries'[k] = [entries[k] EXCEPT !.missed = FALSE]
      <4>1. CASE Invalidate(e)
        BY <1>2, <2>3, <4>1 DEF Invalidate
      <4>2. CASE EditFails(e)
        <5>1. entries'[k] = IF entries[k] # None THEN [entries[k] EXCEPT !.missed = FALSE]
                                                 ELSE entries[k]
          BY <2>3, <4>2 DEF EditFails
        <5>2. QED  BY <1>2, <5>1
      <4>3. QED  BY <1>1, <4>1, <4>2
    <3>2. entries[k] \in CacheEntry /\ entries'[k] = [entries[k] EXCEPT !.missed = FALSE]
          => entries'[k] \in CacheEntry /\ ~entries'[k].missed
             /\ entries'[k].age = entries[k].age /\ entries'[k].left = entries[k].left
      BY DEF CacheEntry
    <3>3. QED  BY <2>1, <3>1, <3>2, CacheRecords DEF CopyOK
  <2>4. QED  BY <2>2, <2>3
<1>5. entries' \in [Keys -> CacheEntry \cup {None}] /\ CopiesAge' /\ EditsReachTheCache'
  BY <1>3, <1>4, CopiesOK
<1>6. QED  BY <1>1, <1>5 DEF CacheInv, CacheTypeOK, StalenessBounded, ReadsAge

LEMMA WindowEdgeInv ==
  ASSUME CacheInv, NEW k \in Keys, WindowEdge(k)
  PROVE  CacheInv'
<1>1. gets' \in [Requests -> CacheRead \cup {None}] /\ ReadsAge'
  BY OutdateReadsInv DEF WindowEdge
<1>2. entries \in [Keys -> CacheEntry \cup {None}]
  BY DEF CacheInv, CacheTypeOK
<1>3. DOMAIN entries' = Keys /\ entries' = [j \in Keys |-> entries'[j]]
  BY <1>2 DEF WindowEdge
<1>4. ASSUME NEW j \in Keys
      PROVE  CopyOK(entries'[j], j, editing')
  <2>1. CopyOK(entries[j], j, editing) /\ editing' = editing
    BY CopyFacts DEF WindowEdge
  <2>2. \/ entries'[j] = entries[j]
        \/ entries[j] \in CacheEntry /\ entries'[j] = Outdated(entries[j])
    BY <1>2 DEF WindowEdge
  <2>3. QED  BY <2>1, <2>2, OutdatedRecords, CacheRecords DEF CopyOK
<1>5. entries' \in [Keys -> CacheEntry \cup {None}] /\ CopiesAge' /\ EditsReachTheCache'
  BY <1>3, <1>4, CopiesOK
<1>6. QED  BY <1>1, <1>5 DEF WindowEdge, CacheInv, CacheTypeOK, StalenessBounded

\* A tick more, up to where ages are no longer counted.
OlderOK(c) ==
  /\ c \in CacheEntry => Older(c) \in CacheEntry /\ Older(c).left = c.left
                          /\ Older(c).missed = c.missed
  /\ c \in CacheRead => Older(c) \in CacheRead /\ Older(c).took = c.took
  /\ Older(c).age \in Nat /\ Older(c).age <= c.age + 1
  /\ Older(c).age # c.age => Older(c).age <= Ttl + ReadTime + 1

LEMMA OlderRecords == \A c \in CacheEntry \cup CacheRead : OlderOK(c)
<1>1. ASSUME NEW c \in CacheEntry PROVE OlderOK(c)
  BY CacheAssumption DEF OlderOK, Older, CacheEntry, CacheRead
<1>2. ASSUME NEW c \in CacheRead PROVE OlderOK(c)
  BY CacheAssumption DEF OlderOK, Older, CacheEntry, CacheRead
<1>3. QED  BY <1>1, <1>2

LEMMA CacheTickInv ==
  ASSUME CacheInv, CacheTick
  PROVE  CacheInv'
<1>1. ASSUME NEW r \in Requests
      PROVE  /\ gets'[r] \in CacheRead \cup {None}
             /\ gets'[r] # None => gets'[r].age <= gets'[r].took + 1
  <2>1. CASE gets[r] = None
    BY <2>1 DEF CacheTick
  <2>2. CASE gets[r] # None
    <3>1. gets[r] \in CacheRead /\ gets[r].took < ReadTime /\ gets[r].age <= gets[r].took + 1
          /\ gets'[r] = [Older(gets[r]) EXCEPT !.took = @ + 1]
      BY <2>2 DEF CacheTick, CacheInv, CacheTypeOK, ReadsAge
    <3>2. gets'[r] \in CacheRead /\ gets'[r].took = gets[r].took + 1
          /\ gets'[r].age <= gets[r].age + 1
      <4>1. OlderOK(gets[r]) /\ gets[r].took + 1 \in 0 .. ReadTime
        BY <3>1, OlderRecords, CacheRecords, CacheAssumption
      <4>2. QED  BY <3>1, <4>1 DEF OlderOK, CacheRead
    <3>3. gets'[r].age \in Nat /\ gets[r].age \in Nat /\ gets[r].took \in 0 .. ReadTime
      BY <3>1, <3>2 DEF CacheRead
    <3>4. QED  BY <3>1, <3>2, <3>3
  <2>3. QED  BY <2>1, <2>2
<1>2. gets' \in [Requests -> CacheRead \cup {None}] /\ ReadsAge'
  BY <1>1 DEF CacheTick, ReadsAge
<1>3. ASSUME NEW k \in Keys
      PROVE  CopyOK(entries'[k], k, editing')
  <2>1. CopyOK(entries[k], k, editing) /\ editing' = editing
    BY CopyFacts DEF CacheTick
  <2>2. CASE entries[k] = None
    BY <2>2 DEF CacheTick, CopyOK
  <2>3. CASE entries[k] # None
    <3>1. entries[k] \in CacheEntry
          /\ entries'[k] = [Older(entries[k]) EXCEPT !.left = IF @ > 0 THEN @ - 1 ELSE 0]
      BY <2>1, <2>3 DEF CacheTick, CopyOK
    <3>2. entries'[k] \in CacheEntry /\ entries'[k].missed = entries[k].missed
          /\ entries'[k].left = (IF entries[k].left > 0 THEN entries[k].left - 1 ELSE 0)
          /\ entries'[k].age = Older(entries[k]).age
      <4>1. OlderOK(entries[k])
            /\ (IF entries[k].left > 0 THEN entries[k].left - 1 ELSE 0) \in 0 .. Ttl
        BY <3>1, OlderRecords, CacheRecords, CacheAssumption
      <4>2. QED  BY <3>1, <4>1 DEF OlderOK, CacheEntry
    <3>3. entries'[k].age <= ReadTime + 1 + (Ttl - entries'[k].left)
      <4>1. OlderOK(entries[k])
            /\ entries[k].age <= ReadTime + 1 + (Ttl - entries[k].left)
            /\ entries[k].age \in Nat /\ entries[k].left \in Nat /\ entries'[k].age \in Nat
        <5>1. OlderOK(entries[k]) /\ entries[k].age <= ReadTime + 1 + (Ttl - entries[k].left)
          BY <2>1, <2>3, <3>1, OlderRecords DEF CopyOK
        <5>2. QED  BY <3>1, <3>2, <5>1, CacheAssumption DEF CacheEntry
      <4>2. QED  BY <3>2, <4>1, CacheAssumption DEF OlderOK
    <3>4. QED  BY <2>1, <2>3, <3>2, <3>3 DEF CopyOK
  <2>4. QED  BY <2>2, <2>3
<1>4. entries' \in [Keys -> CacheEntry \cup {None}] /\ CopiesAge' /\ EditsReachTheCache'
  BY <1>3, CopiesOK DEF CacheTick
<1>5. QED  BY <1>2, <1>4 DEF CacheTick, CacheInv, CacheTypeOK, StalenessBounded

LEMMA RestartProcessInv ==
  ASSUME CacheInv, RestartProcess
  PROVE  CacheInv'
  BY DEF RestartProcess, CacheInv, CacheTypeOK, ReadsAge, CopiesAge, EditsReachTheCache,
         StalenessBounded

LEMMA CacheInvHolds == CacheSpec => []CacheInv
<1>1. ASSUME CacheInv, [CacheNext]_cacheVars
      PROVE  CacheInv'
  <2>1. CASE UNCHANGED cacheVars
    BY <1>1, <2>1 DEF cacheVars, CacheInv, CacheTypeOK, ReadsAge, CopiesAge, EditsReachTheCache,
                      StalenessBounded
  <2>2. CASE CacheNext
    BY <1>1, <2>2, GetHitInv, GetMissInv, StoreAndAnswerInv, ReadFailsInv, CommitInv, EditEndsInv,
       WindowEdgeInv, CacheTickInv, RestartProcessInv DEF CacheNext
  <2>3. QED  BY <1>1, <2>1, <2>2
<1>2. QED  BY <1>1, CacheInitInv, PTL DEF CacheSpec

\* Answers are never older than one life of a copy and the read that filled it
\* (TTLCache of core/cache.py, its use by the menu and promotion routes).
THEOREM AnswersStayFresh == CacheSpec => []StalenessBounded
  BY CacheInvHolds, PTL DEF CacheInv

\* An edit that has answered has dropped every copy stored before its commit.
THEOREM EditsReach == CacheSpec => []EditsReachTheCache
  BY CacheInvHolds, PTL DEF CacheInv

-----------------------------------------------------------------------------
(* The rate limiter *)

Bucket == [count : Nat, left : 0 .. Window]
Admitted == [bucket : Buckets, no : Nat \ {0}, window : {0, 1}, age : Nat]

LimiterTypeOK ==
  /\ DOMAIN hits \subseteq Buckets
  /\ \A b \in DOMAIN hits : hits[b] \in Bucket
  /\ admitted \subseteq Admitted

\* What was admitted is of the window that runs or of the one before, within
\* the limit of each; the one before ended when the running one began.
AdmissionOK(q) ==
  /\ q.age < Window /\ q.no <= LimitOf[q.bucket[1]]
  /\ ~Running(q.bucket) => q.window = 0
  /\ Running(q.bucket) /\ q.window = 0 => q.no <= hits[q.bucket].count
  /\ Running(q.bucket) /\ q.window = 1 => q.age >= Window - hits[q.bucket].left

\* No two requests have the same place in the same window.
OnePerPlace ==
  \A p, q \in admitted : p.bucket = q.bucket /\ p.window = q.window /\ p.no = q.no => p = q

LimiterInv == LimiterTypeOK /\ (\A q \in admitted : AdmissionOK(q)) /\ OnePerPlace

LEMMA LimiterInitInv == LimiterInit => LimiterInv
  BY DEF LimiterInit, LimiterInv, LimiterTypeOK, OnePerPlace

\* The bucket a request is charged to runs; the others are what they were.
LEMMA ChargedBuckets ==
  ASSUME LimiterInv, NEW b \in Buckets, hits' = Pruned(Charged(b))
  PROVE  /\ DOMAIN hits' \subseteq Buckets /\ \A x \in DOMAIN hits' : hits'[x] \in Bucket
         /\ Running(b)'
         /\ hits'[b].count = Current(b).count + 1 /\ hits'[b].left = Current(b).left
         /\ \A x \in Buckets \ {b} : /\ Running(x)' <=> Running(x)
                                     /\ Running(x) => hits'[x] = hits[x]
<1> DEFINE t == Charged(b)
           n == [Current(b) EXCEPT !.count = @ + 1]
<1>1. Current(b) \in Bucket /\ Current(b).left > 0
  BY LimiterAssumption DEF Current, Running, Fresh, Bucket, LimiterInv, LimiterTypeOK
<1>2. n \in Bucket /\ n.count = Current(b).count + 1 /\ n.left = Current(b).left
  BY <1>1 DEF Bucket
<1>3. /\ DOMAIN t = DOMAIN hits \cup {b} /\ t[b] = n
      /\ \A x \in DOMAIN hits \ {b} : t[x] = hits[x]
  BY DEF Charged
<1> HIDE DEF n, t
<1>4. \A x \in DOMAIN t : x \in Buckets /\ t[x] \in Bucket
  BY <1>2, <1>3 DEF LimiterInv, LimiterTypeOK
<1>5. /\ DOMAIN hits' \subseteq DOMAIN t
      /\ \A x \in DOMAIN hits' : hits'[x] = t[x]
      /\ \A x \in DOMAIN t : t[x].left > 0 => x \in DOMAIN hits'
  <2>1. hits' = t \/ hits' = [x \in {y \in DOMAIN t : t[y].left > 0} |-> t[x]]
    BY DEF Pruned, t
  <2>2. QED  BY <2>1
<1>6. b \in DOMAIN hits' /\ hits'[b] = n
  BY <1>1, <1>2, <1>3, <1>5
<1>7. Running(b)'
  BY <1>1, <1>2, <1>6 DEF Running
<1>8. ASSUME NEW x \in Buckets, x # b
      PROVE  (Running(x)' <=> Running(x)) /\ (Running(x) => hits'[x] = hits[x])
  BY <1>3, <1>5, <1>8 DEF Running
<1>9. QED  BY <1>2, <1>4, <1>5, <1>6, <1>7, <1>8

\* Those the bucket had admitted, moved back if its window begins.
LEMMA AlignedRequests ==
  ASSUME LimiterInv, NEW b \in Buckets, NEW q \in Aligned(b)
  PROVE  /\ q \in Admitted
         /\ q.bucket # b => q \in admitted
         /\ q.bucket = b /\ Running(b) => q \in admitted
         /\ q.bucket = b /\ ~Running(b) =>
              /\ q.window = 1
              /\ \E p \in admitted : p.bucket = b /\ p.window = 0 /\ p.no = q.no /\ p.age = q.age
<1>1. CASE Running(b)
  BY <1>1 DEF Aligned, LimiterInv, LimiterTypeOK
<1>2. CASE ~Running(b)
  <2>1. PICK p \in admitted : q = IF p.bucket = b THEN [p EXCEPT !.window = @ + 1] ELSE p
    BY <1>2 DEF Aligned
  <2>2. p \in Admitted /\ AdmissionOK(p)
    BY DEF LimiterInv, LimiterTypeOK
  <2>3. CASE p.bucket = b
    <3>1. p.window = 0
      BY <1>2, <2>2, <2>3 DEF AdmissionOK
    <3>2. q = [p EXCEPT !.window = @ + 1]
      BY <2>1, <2>3
    <3>3. q \in Admitted /\ q.bucket = b /\ q.window = 1 /\ q.no = p.no /\ q.age = p.age
      BY <2>2, <2>3, <3>1, <3>2 DEF Admitted
    <3>4. QED  BY <1>2, <2>3, <3>1, <3>3
  <2>4. CASE p.bucket # b
    BY <2>1, <2>2, <2>4
  <2>5. QED  BY <2>3, <2>4
<1>3. QED  BY <1>1, <1>2

LEMMA EnforceInv ==
  ASSUME LimiterInv, NEW kind \in Kinds, NEW c \in Callers, Enforce(kind, c)
  PROVE  LimiterInv'
<1>1. PICK r \in Rules :
        /\ LimitOf[r] > 0
        /\ hits' = Pruned(Charged(<<r, c>>))
        /\ admitted' = Aligned(<<r, c>>) \cup
                         (IF Current(<<r, c>>).count + 1 <= LimitOf[r]
                          THEN {Admission(<<r, c>>)} ELSE {})
  BY DEF Enforce, SelectRule, Rules
<1> DEFINE b == <<r, c>>
           new == Admission(b)
<1>2. b \in Buckets /\ b[1] = r
  BY DEF Buckets
<1>3. /\ hits' = Pruned(Charged(b))
      /\ admitted' = Aligned(b) \cup
                       (IF Current(b).count + 1 <= LimitOf[r] THEN {new} ELSE {})
  BY <1>1
<1> HIDE DEF b
<1>4. /\ DOMAIN hits' \subseteq Buckets /\ \A x \in DOMAIN hits' : hits'[x] \in Bucket
      /\ Running(b)'
      /\ hits'[b].count = Current(b).count + 1 /\ hits'[b].left = Current(b).left
      /\ \A x \in Buckets \ {b} : /\ Running(x)' <=> Running(x)
                                  /\ Running(x) => hits'[x] = hits[x]
  BY <1>2, <1>3, ChargedBuckets
<1>5. /\ Current(b).count \in Nat /\ Current(b).left \in 0 .. Window
      /\ Running(b) => Current(b) = hits[b]
      /\ ~Running(b) => Current(b).count = 0 /\ Current(b).left = Window
  BY LimiterAssumption DEF Current, Running, Fresh, Bucket, LimiterInv, LimiterTypeOK
<1>6. /\ new \in Admitted /\ new.bucket = b /\ new.no = Current(b).count + 1
      /\ new.window = 0 /\ new.age = 0
  BY <1>2, <1>5 DEF Admission, Admitted
<1> HIDE DEF new
<1>7. ASSUME NEW q \in Aligned(b)
      PROVE  /\ q \in Admitted /\ AdmissionOK(q)'
             /\ q.bucket = b /\ q.window = 0 => q.no <= Current(b).count
  <2>1. q \in Admitted
    BY <1>2, AlignedRequests
  <2>2. CASE q.bucket # b
    <3>1. q \in admitted /\ AdmissionOK(q) /\ q.bucket \in Buckets \ {b}
      BY <1>2, <2>1, <2>2, AlignedRequests DEF LimiterInv, Admitted
    <3>2. QED  BY <1>4, <2>1, <2>2, <3>1 DEF AdmissionOK
  <2>3. CASE q.bucket = b /\ Running(b)
    <3>1. q \in admitted /\ AdmissionOK(q)
      BY <1>2, <2>3, AlignedRequests DEF LimiterInv
    <3>2. q.no \in Nat /\ q.age \in Nat
      BY <2>1 DEF Admitted
    <3>3. QED  BY <1>4, <1>5, <2>1, <2>3, <3>1, <3>2 DEF AdmissionOK
  <2>4. CASE q.bucket = b /\ ~Running(b)
    <3>1. q.window = 1
      BY <1>2, <2>4, AlignedRequests
    <3>2. PICK p \in admitted : p.bucket = b /\ p.window = 0 /\ p.no = q.no /\ p.age = q.age
      BY <1>2, <2>4, AlignedRequests
    <3>3. AdmissionOK(p)
      BY DEF LimiterInv
    <3>4. q.no \in Nat /\ q.age \in Nat
      BY <2>1 DEF Admitted
    <3>5. QED  BY <1>4, <1>5, <2>1, <2>4, <3>1, <3>2, <3>3, <3>4, LimiterAssumption DEF AdmissionOK
  <2>5. QED  BY <2>2, <2>3, <2>4
<1>8. ASSUME NEW q, q = new, Current(b).count + 1 <= LimitOf[r]
      PROVE  AdmissionOK(q)'
  BY <1>8, <1>2, <1>4, <1>5, <1>6, LimiterAssumption DEF AdmissionOK
<1>9. /\ admitted' \subseteq Admitted /\ \A q \in admitted' : AdmissionOK(q)'
  BY <1>3, <1>6, <1>7, <1>8
<1>10. OnePerPlace'
  <2>1. ASSUME NEW p \in Aligned(b), NEW q \in Aligned(b),
               p.bucket = q.bucket, p.window = q.window, p.no = q.no
        PROVE  p = q
    <3>1. p \in Admitted /\ q \in Admitted
      BY <1>7
    <3>2. CASE p.bucket # b \/ Running(b)
      BY <1>2, <2>1, <3>2, AlignedRequests DEF LimiterInv, OnePerPlace
    <3>3. CASE p.bucket = b /\ ~Running(b)
      <4>1. PICK p0 \in admitted : p0.bucket = b /\ p0.window = 0 /\ p0.no = p.no /\ p0.age = p.age
        BY <1>2, <3>3, AlignedRequests
      <4>2. PICK q0 \in admitted : q0.bucket = b /\ q0.window = 0 /\ q0.no = q.no /\ q0.age = q.age
        BY <1>2, <2>1, <3>3, AlignedRequests
      <4>3. p0 = q0
        BY <2>1, <4>1, <4>2 DEF LimiterInv, OnePerPlace
      <4>4. QED  BY <2>1, <3>1, <4>1, <4>2, <4>3 DEF Admitted
    <3>4. QED  BY <3>2, <3>3
  <2>2. ASSUME NEW q \in Aligned(b), q.bucket = b, q.window = 0
        PROVE  q.no # new.no
    <3>1. q.no \in Nat /\ q.no <= Current(b).count
      BY <1>7, <2>2 DEF Admitted
    <3>2. QED  BY <1>5, <1>6, <3>1
  <2>3. QED  BY <1>3, <1>6, <2>1, <2>2 DEF OnePerPlace
<1>11. QED  BY <1>4, <1>9, <1>10 DEF LimiterInv, LimiterTypeOK

\* When a window ends, what the one before had admitted is a window old.
LEMMA LimiterTickInv ==
  ASSUME LimiterInv, LimiterTick
  PROVE  LimiterInv'
<1>1. /\ DOMAIN hits' = DOMAIN hits
      /\ \A b \in DOMAIN hits :
           /\ hits[b] \in Bucket /\ hits'[b] \in Bucket
           /\ hits'[b].count = hits[b].count
           /\ hits'[b].left = IF hits[b].left > 0 THEN hits[b].left - 1 ELSE 0
  BY LimiterAssumption DEF LimiterTick, LimiterInv, LimiterTypeOK, Bucket
<1>2. ASSUME NEW q \in admitted'
      PROVE  /\ q \in Admitted
             /\ \E p \in admitted : /\ p \in Admitted /\ q = [p EXCEPT !.age = @ + 1]
                                    /\ p.age + 1 < Window /\ AdmissionOK(p)
                                    /\ q.bucket = p.bucket /\ q.window = p.window /\ q.no = p.no
                                    /\ q.age = p.age + 1
  <2>1. PICK p \in admitted : p.age + 1 < Window /\ q = [p EXCEPT !.age = @ + 1]
    BY DEF LimiterTick
  <2>2. p \in Admitted /\ AdmissionOK(p)
    BY DEF LimiterInv, LimiterTypeOK
  <2>3. q \in Admitted /\ q.bucket = p.bucket /\ q.window = p.window /\ q.no = p.no
        /\ q.age = p.age + 1
    BY <2>1, <2>2 DEF Admitted
  <2>4. QED  BY <2>1, <2>2, <2>3
<1>3. ASSUME NEW q \in admitted'
      PROVE  AdmissionOK(q)'
  <2>1. PICK p \in Admitted : /\ p.age + 1 < Window /\ AdmissionOK(p)
                              /\ q.bucket = p.bucket /\ q.window = p.window /\ q.no = p.no
                              /\ q.age = p.age + 1
    BY <1>2
  <2>2. p.age \in Nat /\ p.no \in Nat /\ p.window \in {0, 1}
    BY DEF Admitted
  <2> DEFINE b == q.bucket
  <2>3. Running(b)' => /\ Running(b) /\ hits'[b].count = hits[b].count
                       /\ hits'[b].left = hits[b].left - 1 /\ hits[b].left \in 0 .. Window
    BY <1>1 DEF Running, Bucket
  <2>4. p.window = 1 => Running(b)'
    <3>1. SUFFICES ASSUME p.window = 1 PROVE Running(b)'
      OBVIOUS
    <3>2. Running(b) /\ p.age >= Window - hits[b].left /\ b \in DOMAIN hits
      BY <2>1, <3>1 DEF AdmissionOK, Running
    <3>3. hits[b].left > 1 /\ hits[b].left \in 0 .. Window
      BY <1>1, <2>1, <2>2, <3>2, LimiterAssumption DEF Bucket
    <3>4. QED  BY <1>1, <3>2, <3>3 DEF Running
  <2>5. QED  BY <2>1, <2>2, <2>3, <2>4, LimiterAssumption DEF AdmissionOK
<1>4. OnePerPlace'
  <2>1. ASSUME NEW p \in admitted', NEW q \in admitted',
               p.bucket = q.bucket, p.window = q.window, p.no = q.no
        PROVE  p = q
    <3>1. PICK p0 \in admitted : p = [p0 EXCEPT !.age = @ + 1] /\ p.bucket = p0.bucket
                                 /\ p.window = p0.window /\ p.no = p0.no
      BY <1>2
    <3>2. PICK q0 \in admitted : q = [q0 EXCEPT !.age = @ + 1] /\ q.bucket = q0.bucket
                                 /\ q.window = q0.window /\ q.no = q0.no
      BY <1>2
    <3>3. p0 = q0
      BY <2>1, <3>1, <3>2 DEF LimiterInv, OnePerPlace
    <3>4. QED  BY <3>1, <3>2, <3>3
  <2>2. QED  BY <2>1 DEF OnePerPlace
<1>5. QED  BY <1>1, <1>2, <1>3, <1>4 DEF LimiterInv, LimiterTypeOK

\* Places are numbered through both windows: there are twice as many as the limit.
LEMMA PlacesBound ==
  ASSUME LimiterInv, NEW b \in Buckets
  PROVE  Cardinality(AdmittedBy(b)) <= 2 * LimitOf[b[1]]
<1> DEFINE L == LimitOf[b[1]]
           S == AdmittedBy(b)
           f == [q \in S |-> IF q.window = 0 THEN q.no ELSE L + q.no]
<1>1. L \in Nat
  BY LimiterAssumption DEF Buckets
<1>2. ASSUME NEW q \in S
      PROVE  q.bucket = b /\ q.no \in 1 .. L /\ q.window \in {0, 1} /\ q \in admitted
  BY <1>2, <1>1 DEF AdmittedBy, LimiterInv, LimiterTypeOK, Admitted, AdmissionOK
<1>3. f \in [S -> 1 .. 2 * L]
  BY <1>1, <1>2
<1>4. ASSUME NEW p \in S, NEW q \in S, f[p] = f[q]
      PROVE  p = q
  <2>1. p.no \in 1 .. L /\ q.no \in 1 .. L /\ p.window \in {0, 1} /\ q.window \in {0, 1}
    BY <1>2
  <2>2. p.window = q.window /\ p.no = q.no
    BY <1>1, <1>4, <2>1
  <2>3. QED  BY <1>2, <2>2 DEF LimiterInv, OnePerPlace
<1> HIDE DEF f
<1>5. f \in Injection(S, 1 .. 2 * L)
  BY <1>3, <1>4, Fun_IsInj
<1>6. 2 * L \in Int /\ IsFiniteSet(1 .. 2 * L) /\ Cardinality(1 .. 2 * L) = 2 * L
  <2>1. 2 * L \in Nat
    BY <1>1
  <2> HIDE DEF L
  <2>2. IsFiniteSet(1 .. 2 * L) /\ Cardinality(1 .. 2 * L) = IF 1 > 2 * L THEN 0 ELSE 2 * L - 1 + 1
    BY <2>1, FS_Interval
  <2>3. QED  BY <2>1, <2>2
<1>7. QED  BY <1>5, <1>6, FS_Injection

\* In any stretch as long as a window a client gets no more than twice its
\* limit through (InMemoryRateLimiter of core/rate_limit.py).
THEOREM LimitHolds == LimiterSpec => []LimitedPerWindow
<1>1. ASSUME LimiterInv, [LimiterNext]_limiterVars
      PROVE  LimiterInv'
  <2>1. CASE UNCHANGED limiterVars
    BY <1>1, <2>1
    DEF limiterVars, LimiterInv, LimiterTypeOK, OnePerPlace, AdmissionOK, Running
  <2>2. CASE LimiterNext
    BY <1>1, <2>2, EnforceInv, LimiterTickInv DEF LimiterNext
  <2>3. QED  BY <1>1, <2>1, <2>2
<1>2. LimiterInv => LimitedPerWindow
  BY PlacesBound DEF LimitedPerWindow
<1>3. QED  BY <1>1, <1>2, LimiterInitInv, PTL DEF LimiterSpec

-----------------------------------------------------------------------------
(* The websocket manager *)

\* A loop that nobody joined runs over what is left of the set it began with;
\* one that was done had sent to all of it.
LoopFacts(c) ==
  /\ casts[c].at = "loop" =>
       /\ casts[c].size = Cardinality(casts[c].began) /\ IsFiniteSet(casts[c].began)
       /\ casts[c].joined \in BOOLEAN
       /\ ~casts[c].joined => channel \subseteq casts[c].began
  /\ casts[c].at = "done" /\ ~casts[c].joined
       => casts[c].began \subseteq casts[c].got \cup casts[c].dead

CastRecord ==
  [at : {"loop", "done"}, size : Nat, began : SUBSET Sockets, dead : SUBSET Sockets,
   got : SUBSET Sockets, joined : BOOLEAN] \cup [at : {"waiting", "failed"}]

BroadcastTypeOK ==
  /\ channel \subseteq Sockets /\ broken \subseteq Sockets
  /\ casts \in [Broadcasts -> CastRecord]

BroadcastInv ==
  /\ BroadcastTypeOK
  /\ IsFiniteSet(channel)
  /\ \A c \in Broadcasts : LoopFacts(c)

LEMMA BroadcastInitInv == BroadcastInit => BroadcastInv
<1>1. Waiting \in CastRecord /\ Waiting.at = "waiting"
  BY DEF Waiting, CastRecord
<1>2. QED  BY <1>1, FS_EmptySet
      DEF BroadcastInit, BroadcastInv, BroadcastTypeOK, LoopFacts

\* What is true of a loop stays true of it while the channel only shrinks.
LEMMA LoopKept ==
  ASSUME NEW c \in Broadcasts, LoopFacts(c), channel' \subseteq channel, casts'[c] = casts[c]
  PROVE  LoopFacts(c)'
  BY DEF LoopFacts

LEMMA ConnectInv ==
  ASSUME BroadcastInv, NEW s \in Sockets, Connect(s)
  PROVE  BroadcastInv'
<1>1. channel' = channel \cup {s} /\ UNCHANGED broken /\ IsFiniteSet(channel')
  BY FS_AddElement DEF Connect, BroadcastInv
<1>2. ASSUME NEW c \in Broadcasts
      PROVE  casts'[c] \in CastRecord /\ LoopFacts(c)'
  <2>1. casts[c] \in CastRecord /\ LoopFacts(c)
    BY DEF BroadcastInv, BroadcastTypeOK
  <2>2. CASE casts[c].at = "loop"
    <3>1. casts'[c] = [casts[c] EXCEPT !.joined = TRUE]
      BY <2>2 DEF Connect
    <3>2. casts'[c] \in CastRecord /\ casts'[c].joined /\ casts'[c].at = "loop"
          /\ casts'[c].size = casts[c].size /\ casts'[c].began = casts[c].began
      BY <2>1, <2>2, <3>1 DEF CastRecord
    <3>3. QED  BY <2>1, <2>2, <3>2 DEF LoopFacts
  <2>3. CASE casts[c].at # "loop"
    <3>1. casts'[c] = casts[c]
      BY <2>3 DEF Connect
    <3>2. QED  BY <2>1, <2>3, <3>1 DEF LoopFacts
  <2>4. QED  BY <2>2, <2>3
<1>3. casts' \in [Broadcasts -> CastRecord]
  BY <1>2 DEF Connect
<1>4. QED  BY <1>1, <1>2, <1>3 DEF BroadcastInv, BroadcastTypeOK

LEMMA BreakInv ==
  ASSUME BroadcastInv, NEW s \in Sockets, Break(s)
  PROVE  BroadcastInv'
<1>1. UNCHANGED <<channel, casts>> /\ broken' \subseteq Sockets
  BY DEF Break, BroadcastInv, BroadcastTypeOK
<1>2. QED  BY <1>1, LoopKept DEF BroadcastInv, BroadcastTypeOK

LEMMA DisconnectInv ==
  ASSUME BroadcastInv, NEW s \in Sockets, Disconnect(s)
  PROVE  BroadcastInv'
<1>1. UNCHANGED <<broken, casts>> /\ channel' \subseteq channel /\ IsFiniteSet(channel')
  BY FS_Subset DEF Disconnect, BroadcastInv
<1>2. QED  BY <1>1, LoopKept DEF BroadcastInv, BroadcastTypeOK

\* One loop moves and the channel does not grow.
LEMMA CastChanges ==
  ASSUME BroadcastInv, NEW c \in Broadcasts, NEW r \in CastRecord,
         casts' = [casts EXCEPT ![c] = r], channel' \subseteq channel, UNCHANGED broken,
         casts'[c] = r => LoopFacts(c)'
  PROVE  BroadcastInv'
<1>1. casts' \in [Broadcasts -> CastRecord] /\ casts'[c] = r
      /\ \A d \in Broadcasts \ {c} : casts'[d] = casts[d]
  BY DEF BroadcastInv, BroadcastTypeOK
<1>2. IsFiniteSet(channel')
  BY FS_Subset DEF BroadcastInv
<1>3. \A d \in Broadcasts : LoopFacts(d)'
  BY <1>1, LoopKept DEF BroadcastInv
<1>4. QED  BY <1>1, <1>2, <1>3 DEF BroadcastInv, BroadcastTypeOK

LEMMA StartBroadcastInv ==
  ASSUME BroadcastInv, NEW c \in Broadcasts, StartBroadcast(c)
  PROVE  BroadcastInv'
<1>1. Cardinality(channel) \in Nat
  BY FS_CardinalityType DEF BroadcastInv
<1>2. Loop \in CastRecord /\ Loop.at = "loop" /\ Loop.size = Cardinality(channel)
      /\ Loop.began = channel /\ Loop.joined = FALSE
  BY <1>1 DEF Loop, CastRecord, BroadcastInv, BroadcastTypeOK
<1>3. casts' = [casts EXCEPT ![c] = Loop] /\ UNCHANGED <<channel, broken>>
  BY DEF StartBroadcast
<1>4. casts'[c] = Loop => LoopFacts(c)'
  <2>1. IsFiniteSet(channel) /\ channel' = channel
    BY <1>3 DEF BroadcastInv
  <2>2. QED  BY <1>2, <2>1 DEF LoopFacts
<1>5. QED  BY <1>2, <1>3, <1>4, CastChanges

LEMMA SendNextInv ==
  ASSUME BroadcastInv, NEW c \in Broadcasts, NEW s \in Sockets, SendNext(c, s)
  PROVE  BroadcastInv'
<1> DEFINE r == Sent(casts[c], s)
<1>1. casts[c] \in CastRecord /\ casts[c].at = "loop" /\ LoopFacts(c)
  BY DEF BroadcastInv, BroadcastTypeOK, SendNext, Intact
<1>2. r \in CastRecord /\ r.at = "loop" /\ r.size = casts[c].size /\ r.began = casts[c].began
      /\ r.joined = casts[c].joined
  BY <1>1 DEF CastRecord, Sent
<1>3. casts' = [casts EXCEPT ![c] = r] /\ UNCHANGED <<channel, broken>>
  BY DEF SendNext
<1> HIDE DEF r
<1>4. casts'[c] = r => LoopFacts(c)'
  BY <1>1, <1>2, <1>3 DEF LoopFacts
<1>5. QED  BY <1>2, <1>3, <1>4, CastChanges

\* The set is as large as it was and nobody joined: it is the same set.
LEMMA FinishInv ==
  ASSUME BroadcastInv, NEW c \in Broadcasts, Finish(c)
  PROVE  BroadcastInv'
<1> DEFINE r == [casts[c] EXCEPT !.at = "done"]
<1>1. casts[c] \in CastRecord /\ casts[c].at = "loop" /\ LoopFacts(c)
      /\ Cardinality(channel) = casts[c].size
  BY DEF BroadcastInv, BroadcastTypeOK, Finish, Intact
<1>2. r \in CastRecord /\ r.at = "done" /\ r.got = casts[c].got /\ r.dead = casts[c].dead
      /\ r.began = casts[c].began /\ r.joined = casts[c].joined
  BY <1>1 DEF CastRecord
<1>3. casts' = [casts EXCEPT ![c] = r] /\ channel' \subseteq channel /\ UNCHANGED broken
  BY DEF Finish
<1> HIDE DEF r
<1>4. ASSUME ~casts[c].joined
      PROVE  casts[c].began \subseteq casts[c].got \cup casts[c].dead
  <2>1. channel \subseteq casts[c].began /\ IsFiniteSet(casts[c].began)
        /\ Cardinality(channel) = Cardinality(casts[c].began)
    BY <1>1, <1>4 DEF LoopFacts
  <2>2. channel = casts[c].began
    BY <2>1, FS_Subset
  <2>3. QED  BY <1>4, <2>2 DEF Finish, Visitable
<1>5. casts'[c] = r => LoopFacts(c)'
  BY <1>2, <1>4 DEF LoopFacts
<1>6. QED  BY <1>2, <1>3, <1>5, CastChanges

LEMMA RaiseSizeChangedInv ==
  ASSUME BroadcastInv, NEW c \in Broadcasts, RaiseSizeChanged(c)
  PROVE  BroadcastInv'
<1> DEFINE r == [at |-> "failed"]
<1>1. r \in CastRecord /\ r.at = "failed"
  BY DEF CastRecord
<1>2. casts' = [casts EXCEPT ![c] = r] /\ UNCHANGED <<channel, broken>>
  BY DEF RaiseSizeChanged
<1>3. casts'[c] = r => LoopFacts(c)'
  BY <1>1 DEF LoopFacts
<1>4. QED  BY <1>1, <1>2, <1>3, CastChanges

\* A broadcast that completes skips no socket that stayed
\* (ConnectionManager of websocket/manager.py).
THEOREM BroadcastsComplete == BroadcastSpec => []CompletedReachesAll
<1>1. ASSUME BroadcastInv, [BroadcastNext]_castVars
      PROVE  BroadcastInv'
  <2>1. CASE UNCHANGED castVars
    BY <1>1, <2>1, LoopKept DEF castVars, BroadcastInv, BroadcastTypeOK
  <2>2. CASE BroadcastNext
    BY <1>1, <2>2, ConnectInv, BreakInv, DisconnectInv, StartBroadcastInv, SendNextInv, FinishInv,
       RaiseSizeChangedInv DEF BroadcastNext
  <2>3. QED  BY <1>1, <2>1, <2>2
<1>2. BroadcastInv => CompletedReachesAll
  BY DEF BroadcastInv, LoopFacts, CompletedReachesAll
<1>3. QED  BY <1>1, <1>2, BroadcastInitInv, PTL DEF BroadcastSpec

-----------------------------------------------------------------------------
(* Push tokens *)

TokenRow == [owner : Users \cup {Nobody}, active : BOOLEAN]
App == [user : Users \cup {Nobody}, saved : BOOLEAN, sync : {"none", "posted", "done"},
        by : Users \cup {Nobody}, leave : {"none", "sent"}]

PushTypeOK ==
  /\ tokenRows \in [Tokens -> TokenRow]
  /\ alive \in [Tokens -> BOOLEAN]
  /\ app \in [Tokens -> App]
  /\ DOMAIN pushes = Dispatches

\* A dispatch retires dead installations only, and nobody is signed in on one.
OnlyTheDeadAreGone == \A d \in Dispatches : \A t \in pushes[d].gone : t \in Tokens => ~alive[t]
NobodyOnTheDead == \A t \in Tokens : ~alive[t] => app[t].user = Nobody

\* What the app has posted, it posted for the user it shows; what was confirmed
\* holds until that user leaves.
AppFacts(t) ==
  /\ app[t].sync = "posted" /\ app[t].user # Nobody => app[t].by = app[t].user
  /\ app[t].sync = "done" /\ app[t].user # Nobody /\ app[t].leave = "none"
       => tokenRows[t] = [owner |-> app[t].user, active |-> TRUE]

PushInv == /\ PushTypeOK /\ OnlyTheDeadAreGone /\ NobodyOnTheDead
           /\ \A t \in Tokens : AppFacts(t)

LEMMA PushInitInv == PushInit => PushInv
<1>1. NoRow \in TokenRow /\ SignedOut \in App /\ SignedOut.user = Nobody
      /\ SignedOut.sync = "none" /\ Idle.gone = {}
  BY DEF NoRow, TokenRow, SignedOut, App, Idle
<1>2. QED  BY <1>1
      DEF PushInit, PushInv, PushTypeOK, OnlyTheDeadAreGone, NobodyOnTheDead, AppFacts

\* One app and its row change, on a living installation or a phone nobody uses.
LEMMA PhoneChanges ==
  ASSUME PushInv, NEW t \in Tokens, NEW a \in App, NEW row \in TokenRow,
         app' = [app EXCEPT ![t] = a], tokenRows' = [tokenRows EXCEPT ![t] = row],
         UNCHANGED <<alive, pushes>>, ~alive[t] => a.user = Nobody,
         app'[t] = a /\ tokenRows'[t] = row => AppFacts(t)'
  PROVE  PushInv'
<1>1. /\ app' \in [Tokens -> App] /\ app'[t] = a
      /\ tokenRows' \in [Tokens -> TokenRow] /\ tokenRows'[t] = row
      /\ \A u \in Tokens \ {t} : app'[u] = app[u] /\ tokenRows'[u] = tokenRows[u]
  BY DEF PushInv, PushTypeOK
<1>2. \A u \in Tokens : AppFacts(u)'
  BY <1>1 DEF PushInv, AppFacts
<1>3. NobodyOnTheDead'
  BY <1>1 DEF PushInv, NobodyOnTheDead
<1>4. QED  BY <1>1, <1>2, <1>3 DEF PushInv, PushTypeOK, OnlyTheDeadAreGone

\* Only the app changes.
LEMMA AppChanges ==
  ASSUME PushInv, NEW t \in Tokens, NEW a \in App,
         app' = [app EXCEPT ![t] = a], UNCHANGED <<tokenRows, alive, pushes>>,
         ~alive[t] => a.user = Nobody,
         app'[t] = a => AppFacts(t)'
  PROVE  PushInv'
<1>1. tokenRows[t] \in TokenRow /\ tokenRows' = [tokenRows EXCEPT ![t] = tokenRows[t]]
  BY DEF PushInv, PushTypeOK
<1>2. QED  BY <1>1, PhoneChanges

LEMMA PhoneFacts ==
  ASSUME PushInv, NEW t \in Tokens
  PROVE  /\ app[t] \in App /\ tokenRows[t] \in TokenRow /\ AppFacts(t)
         /\ app[t].user # Nobody => alive[t]
         /\ Out(t) \in App /\ Out(t).user = Nobody
  BY DEF PushInv, PushTypeOK, NobodyOnTheDead, Out, App

LEMMA SignInInv ==
  ASSUME PushInv, NEW t \in Tokens, NEW u \in Users, SignIn(t, u)
  PROVE  PushInv'
<1> DEFINE a == [app[t] EXCEPT !.user = u, !.sync = "posted", !.by = u]
<1>1. app[t] \in App /\ alive[t]
  BY PhoneFacts DEF SignIn
<1>2. a \in App /\ a.user = u /\ a.sync = "posted" /\ a.by = u
  BY <1>1 DEF App
<1>3. app' = [app EXCEPT ![t] = a] /\ UNCHANGED <<tokenRows, alive, pushes>>
  BY DEF SignIn
<1> HIDE DEF a
<1>4. QED  BY <1>1, <1>2, <1>3, AppChanges DEF AppFacts

LEMMA SyncAgainInv ==
  ASSUME PushInv, NEW t \in Tokens, SyncAgain(t)
  PROVE  PushInv'
<1> DEFINE a == [app[t] EXCEPT !.sync = "posted", !.by = app[t].user]
<1>1. app[t] \in App /\ alive[t]
  BY PhoneFacts DEF SyncAgain
<1>2. a \in App /\ a.user = app[t].user /\ a.sync = "posted" /\ a.by = app[t].user
  BY <1>1 DEF App
<1>3. app' = [app EXCEPT ![t] = a] /\ UNCHANGED <<tokenRows, alive, pushes>>
  BY DEF SyncAgain, PushInv, PushTypeOK
<1> HIDE DEF a
<1>4. QED  BY <1>1, <1>2, <1>3, AppChanges DEF AppFacts

LEMMA RegisterInv ==
  ASSUME PushInv, NEW t \in Tokens, NEW ok \in BOOLEAN, Register(t, ok)
  PROVE  PushInv'
<1> DEFINE a == Registered(app[t], ok)
           row == [owner |-> app[t].by, active |-> TRUE]
<1>1. app[t] \in App /\ app[t].sync = "posted" /\ AppFacts(t) /\ (app[t].user # Nobody => alive[t])
  BY PhoneFacts DEF Register
<1>2. /\ a \in App /\ a.user = app[t].user /\ a.sync # "posted"
      /\ row \in TokenRow
      /\ a.user # Nobody => row = [owner |-> a.user, active |-> TRUE]
  BY <1>1 DEF App, TokenRow, AppFacts, Registered
<1>3. /\ app' = [app EXCEPT ![t] = a] /\ tokenRows' = [tokenRows EXCEPT ![t] = row]
      /\ UNCHANGED <<alive, pushes>>
  BY DEF Register
<1> HIDE DEF a, row
<1>4. app'[t] = a /\ tokenRows'[t] = row => AppFacts(t)'
  BY <1>2 DEF AppFacts
<1>5. QED  BY <1>1, <1>2, <1>3, <1>4, PhoneChanges

LEMMA RegisterFailsInv ==
  ASSUME PushInv, NEW t \in Tokens, RegisterFails(t)
  PROVE  PushInv'
<1> DEFINE a == [app[t] EXCEPT !.sync = "none"]
<1>1. app[t] \in App /\ (app[t].user # Nobody => alive[t])
  BY PhoneFacts
<1>2. a \in App /\ a.user = app[t].user /\ a.sync = "none"
  BY <1>1 DEF App
<1>3. app' = [app EXCEPT ![t] = a] /\ UNCHANGED <<tokenRows, alive, pushes>>
  BY DEF RegisterFails
<1> HIDE DEF a
<1>4. QED  BY <1>1, <1>2, <1>3, AppChanges DEF AppFacts

\* The user is gone from the phone.
LEMMA SignedOutInv ==
  ASSUME PushInv, NEW t \in Tokens, app' = [app EXCEPT ![t] = Out(t)],
         UNCHANGED <<tokenRows, alive, pushes>>
  PROVE  PushInv'
<1>1. Out(t) \in App /\ Out(t).user = Nobody
  BY PhoneFacts
<1>2. QED  BY <1>1, AppChanges DEF AppFacts

LEMMA LogoutInv ==
  ASSUME PushInv, NEW t \in Tokens, Logout(t)
  PROVE  PushInv'
<1>1. CASE ~app[t].saved
  BY <1>1, SignedOutInv DEF Logout
<1>2. CASE app[t].saved
  <2> DEFINE a == [app[t] EXCEPT !.leave = "sent"]
  <2>1. app[t] \in App /\ (app[t].user # Nobody => alive[t]) /\ AppFacts(t)
    BY PhoneFacts
  <2>2. /\ a \in App /\ a.user = app[t].user /\ a.leave = "sent"
        /\ a.sync = app[t].sync /\ a.by = app[t].by
    BY <2>1 DEF App
  <2>3. app' = [app EXCEPT ![t] = a] /\ UNCHANGED <<tokenRows, alive, pushes>>
    BY <1>2 DEF Logout
  <2> HIDE DEF a
  <2>4. QED  BY <2>1, <2>2, <2>3, AppChanges DEF AppFacts
<1>3. QED  BY <1>1, <1>2

LEMMA DeactivateInv ==
  ASSUME PushInv, NEW t \in Tokens, NEW ok \in BOOLEAN, Deactivate(t, ok)
  PROVE  PushInv'
<1> DEFINE a == [Out(t) EXCEPT !.saved = @ /\ ~ok]
           row == [tokenRows[t] EXCEPT !.active = FALSE]
<1>1. Out(t) \in App /\ Out(t).user = Nobody /\ tokenRows[t] \in TokenRow
  BY PhoneFacts
<1>2. a \in App /\ a.user = Nobody /\ row \in TokenRow
  BY <1>1 DEF App, TokenRow
<1>3. /\ app' = [app EXCEPT ![t] = a] /\ tokenRows' = [tokenRows EXCEPT ![t] = row]
      /\ UNCHANGED <<alive, pushes>>
  BY DEF Deactivate
<1> HIDE DEF a, row
<1>4. QED  BY <1>2, <1>3, PhoneChanges DEF AppFacts

LEMMA ReinstallInv ==
  ASSUME PushInv, NEW t \in Tokens, Reinstall(t)
  PROVE  PushInv'
<1>1. SignedOut \in App /\ SignedOut.user = Nobody
  BY DEF SignedOut, App
<1>2. /\ app' \in [Tokens -> App] /\ app'[t].user = Nobody
      /\ alive' \in [Tokens -> BOOLEAN] /\ ~alive'[t]
      /\ \A u \in Tokens \ {t} : app'[u] = app[u] /\ alive'[u] = alive[u]
      /\ UNCHANGED <<tokenRows, pushes>>
  BY <1>1 DEF Reinstall, PushInv, PushTypeOK
<1>3. \A u \in Tokens : AppFacts(u)'
  BY <1>2 DEF PushInv, AppFacts
<1>4. NobodyOnTheDead' /\ OnlyTheDeadAreGone'
  BY <1>2 DEF PushInv, NobodyOnTheDead, OnlyTheDeadAreGone
<1>5. QED  BY <1>2, <1>3, <1>4 DEF PushInv, PushTypeOK

\* One dispatch moves and takes no living installation for gone.
LEMMA DispatchChanges ==
  ASSUME PushInv, NEW d \in Dispatches, DOMAIN pushes' = Dispatches,
         \A e \in Dispatches \ {d} : pushes'[e] = pushes[e],
         \A t \in pushes'[d].gone : t \in Tokens => ~alive[t],
         UNCHANGED <<tokenRows, alive, app>>
  PROVE  PushInv'
<1>1. OnlyTheDeadAreGone'
  BY DEF PushInv, OnlyTheDeadAreGone
<1>2. QED  BY <1>1 DEF PushInv, PushTypeOK, NobodyOnTheDead, AppFacts

\* The provider answers that a token is gone only of a dead installation, and
\* only that answer retires it.
LEMMA DispatchInv ==
  ASSUME PushInv, NEW d \in Dispatches,
         \/ \E event \in Events, o \in Orders : Emit(d, event, o)
         \/ ReadTokens(d) \/ \E t \in Tokens : Deliver(d, t)
         \/ DispatchFails(d)
  PROVE  PushInv'
<1>1. UNCHANGED <<tokenRows, alive, app>> /\ DOMAIN pushes' = Dispatches
      /\ \A e \in Dispatches \ {d} : pushes'[e] = pushes[e]
  BY DEF Emit, ReadTokens, Deliver, DispatchFails, PushInv, PushTypeOK
<1>2. \A t \in pushes[d].gone : t \in Tokens => ~alive[t]
  BY DEF PushInv, OnlyTheDeadAreGone
<1>3. \A t \in pushes'[d].gone : t \in Tokens => ~alive[t]
  <2>1. CASE \E event \in Events, o \in Orders : Emit(d, event, o)
    BY <1>2, <2>1 DEF Emit, Idle, PushInv, PushTypeOK
  <2>2. CASE ReadTokens(d)
    BY <1>2, <2>2 DEF ReadTokens, PushInv, PushTypeOK
  <2>3. ASSUME NEW t \in Tokens, Deliver(d, t)
        PROVE  \A u \in pushes'[d].gone : u \in Tokens => ~alive[u]
    <3>1. PICK v \in Verdicts(t) :
            pushes' = [pushes EXCEPT ![d].todo = @ \ {t},
                                     ![d].gone = IF Retires(v) THEN @ \cup {t} ELSE @]
      BY <2>3 DEF Deliver
    <3>2. Retires(v) => ~alive[t]
      BY DEF Verdicts, Retires
    <3>3. pushes'[d].gone \subseteq pushes[d].gone \cup {t}
          /\ (~Retires(v) => pushes'[d].gone \subseteq pushes[d].gone)
      BY <3>1 DEF PushInv, PushTypeOK
    <3>4. QED  BY <1>2, <3>2, <3>3
  <2>4. CASE DispatchFails(d)
    BY <2>4 DEF DispatchFails, Idle, PushInv, PushTypeOK
  <2>5. QED  BY <2>1, <2>2, <2>3, <2>4
<1>4. QED  BY <1>1, <1>3, DispatchChanges

LEMMA CommitRetiredInv ==
  ASSUME PushInv, NEW d \in Dispatches, CommitRetired(d)
  PROVE  PushInv'
<1>1. /\ UNCHANGED <<alive, app>> /\ DOMAIN pushes' = Dispatches /\ pushes'[d].gone = {}
      /\ \A e \in Dispatches \ {d} : pushes'[e] = pushes[e]
  BY DEF CommitRetired, Idle, PushInv, PushTypeOK
<1>2. ASSUME NEW t \in Tokens
      PROVE  tokenRows'[t] \in TokenRow /\ (alive[t] => tokenRows'[t] = tokenRows[t])
  <2>1. t \in pushes[d].gone => ~alive[t]
    BY DEF PushInv, OnlyTheDeadAreGone
  <2>2. tokenRows[t] \in TokenRow
    BY PhoneFacts
  <2>3. [tokenRows[t] EXCEPT !.active = FALSE] \in TokenRow
    BY <2>2 DEF TokenRow
  <2>4. QED  BY <2>1, <2>2, <2>3 DEF CommitRetired
<1>3. tokenRows' \in [Tokens -> TokenRow]
  BY <1>2 DEF CommitRetired
<1>4. ASSUME NEW t \in Tokens
      PROVE  AppFacts(t)'
  <2>1. AppFacts(t) /\ (app[t].user # Nobody => alive[t])
    BY PhoneFacts
  <2>2. QED  BY <1>1, <1>2, <2>1 DEF AppFacts
<1>5. OnlyTheDeadAreGone'
  <2>1. ASSUME NEW e \in Dispatches, NEW t \in Tokens, t \in pushes'[e].gone
        PROVE  ~alive[t]
    BY <1>1, <2>1 DEF PushInv, OnlyTheDeadAreGone
  <2>2. QED  BY <1>1, <2>1 DEF OnlyTheDeadAreGone
<1>6. NobodyOnTheDead'
  BY <1>1 DEF PushInv, NobodyOnTheDead
<1>7. QED  BY <1>1, <1>3, <1>4, <1>5, <1>6 DEF PushInv, PushTypeOK

\* A phone whose registration was confirmed stays reachable while its user is
\* signed in (register_push_token, deactivate_push_token and the dispatches of
\* notification_service.py).
THEOREM PhonesStayReachable == PushSpec => []RegisteredStaysReachable
<1>1. ASSUME PushInv, [PushNext]_pushVars
      PROVE  PushInv'
  <2>1. CASE UNCHANGED pushVars
    BY <1>1, <2>1 DEF pushVars, PushInv, PushTypeOK, OnlyTheDeadAreGone, NobodyOnTheDead, AppFacts
  <2>2. ASSUME NEW t \in Tokens, SessionEnds(t) \/ DeactivateFails(t)
        PROVE  PushInv'
    BY <1>1, <2>2, SignedOutInv DEF SessionEnds, DeactivateFails
  <2>3. CASE PushNext
    BY <1>1, <2>2, <2>3, SignInInv, SyncAgainInv, RegisterInv, RegisterFailsInv, LogoutInv,
       DeactivateInv, ReinstallInv, DispatchInv, CommitRetiredInv DEF PushNext
  <2>4. QED  BY <1>1, <2>1, <2>3
<1>2. PushInv => RegisteredStaysReachable
  BY DEF PushInv, AppFacts, RegisteredStaysReachable
<1>3. QED  BY <1>1, <1>2, PushInitInv, PTL DEF PushSpec

-----------------------------------------------------------------------------
(* The accounts *)

Updates == {"ban", "unban", "archive", "unarchive", "leave", "provision"}

\* What a request carries from what it read to its commit.
RequestOK(r) ==
  /\ r.op \in Updates => r.target \in People /\ r.saw \in User
  /\ r.op \in {"provision", "hire"} => r.role \in StaffRoles
  /\ r.op = "hire" => r.phone \in Phones
  /\ r.op = "checkout" => r.target \in People
  /\ r.op \in {"finish", "cancel"} => r.order \in Purchases /\ purchases[r.order] # NoOne

AccountsTypeOK ==
  /\ users \in [People -> User \cup {NoOne}]
  /\ purchases \in [Purchases -> Purchase \cup {NoOne}]
  /\ tokenHolders \subseteq People
  /\ DOMAIN serving = Handlers
  /\ \A h \in Handlers : RequestOK(serving[h])

\* A welcome price left a claim on the telephone it was given to.
WelcomesClaimed ==
  \A o \in Purchases : purchases[o] # NoOne /\ purchases[o].welcome =>
    purchases[o].phone # Placeholder /\ Fingerprint(purchases[o].phone) \in claimed

AccountsInv == AccountsTypeOK /\ WelcomesClaimed /\ OneWelcomePerPhone /\ HistoryKept

LEMMA NewUserType ==
  ASSUME NEW q \in Phones, NEW role \in Roles
  PROVE  NewUser(q, role) \in User
  BY DEF NewUser, User

LEMMA AccountsInitInv == AccountsInit => AccountsInv
<1> SUFFICES ASSUME AccountsInit PROVE AccountsInv
  OBVIOUS
<1>1. Guest \in People
  BY AccountsAssumption DEF Guest
<1>2. PICK guests \in {{}, {Guest}}, h \in {CHOOSE h \in Handlers : TRUE},
           phone \in {CHOOSE q \in Phones : q # KioskPhone} :
        /\ users = [p \in People |->
                     IF p = Boss THEN NewUser(KioskPhone, "ADMIN")
                     ELSE IF p \in guests THEN NewUser(phone, "CLIENT") ELSE NoOne]
        /\ tokenHolders = {Boss} \cup guests
        /\ serving = [g \in Handlers |->
                       IF g # h \/ guests = {} THEN IdleHandler
                       ELSE [op |-> "checkout", target |-> Guest, offer |-> TRUE]]
  BY DEF AccountsInit
<1>3. phone \in Phones
  BY AccountsAssumption
<1>4. users \in [People -> User \cup {NoOne}]
  BY <1>2, <1>3, NewUserType, AccountsAssumption DEF Roles, StaffRoles
<1>5. \A g \in Handlers : RequestOK(serving[g])
  BY <1>1, <1>2 DEF RequestOK, IdleHandler, Updates
<1>6. purchases = [o \in Purchases |-> NoOne] /\ DOMAIN serving = Handlers
  BY <1>2 DEF AccountsInit
<1>7. tokenHolders \subseteq People
  BY <1>1, <1>2, AccountsAssumption DEF Boss
<1>8. QED  BY <1>4, <1>5, <1>6, <1>7
      DEF AccountsInv, AccountsTypeOK, WelcomesClaimed, OneWelcomePerPhone, HistoryKept

\* No order is touched and no row is lost.
LEMMA OrdersKept ==
  ASSUME AccountsInv, users' \in [People -> User \cup {NoOne}],
         \A p \in People : users[p] # NoOne => users'[p] # NoOne,
         UNCHANGED purchases, claimed \subseteq claimed', tokenHolders' \subseteq People,
         DOMAIN serving' = Handlers, \A h \in Handlers : RequestOK(serving'[h])
  PROVE  AccountsInv'
<1>1. AccountsTypeOK'
  BY DEF AccountsInv, AccountsTypeOK, RequestOK
<1>2. HistoryKept'
  BY DEF AccountsInv, AccountsTypeOK, HistoryKept, Exists, Purchase
<1>3. WelcomesClaimed' /\ OneWelcomePerPhone'
  BY DEF AccountsInv, WelcomesClaimed, OneWelcomePerPhone
<1>4. QED  BY <1>1, <1>2, <1>3 DEF AccountsInv

LEMMA AdmitInv ==
  ASSUME AccountsInv, NEW p \in People, Admit(p), users' \in [People -> User \cup {NoOne}],
         \A q \in People : users[q] # NoOne => users'[q] # NoOne
  PROVE  AccountsInv'
  BY OrdersKept DEF Admit, AccountsInv, AccountsTypeOK

\* A new row takes an id that nobody has.
LEMMA NewRowInv ==
  ASSUME AccountsInv, NEW p \in NewId, NEW u \in User, users' = [users EXCEPT ![p] = u]
  PROVE  /\ users' \in [People -> User \cup {NoOne}]
         /\ \A q \in People : users[q] # NoOne => users'[q] = users[q]
<1>1. p \in People /\ users[p] = NoOne
  BY DEF NewId, Unnamed, Exists
<1>2. QED  BY <1>1 DEF AccountsInv, AccountsTypeOK

LEMMA SigningInInv ==
  ASSUME AccountsInv, SigningIn
  PROVE  AccountsInv'
<1>0. NewId \subseteq People /\ \A q : RowOf(q) \subseteq People
  BY DEF NewId, Unnamed, RowOf
<1>1. ASSUME NEW q \in Phones, VerifyOtp(q)
      PROVE  AccountsInv'
  <2>1. CASE \E p \in RowOf(q) : Usable(p) /\ Admit(p) /\ UNCHANGED users
    BY <1>0, <2>1, AdmitInv DEF AccountsInv, AccountsTypeOK
  <2>2. CASE \E p \in NewId : users' = [users EXCEPT ![p] = NewUser(q, "CLIENT")] /\ Admit(p)
    <3>1. NewUser(q, "CLIENT") \in User
      BY NewUserType DEF Roles
    <3>2. QED  BY <1>0, <2>2, <3>1, NewRowInv, AdmitInv
  <2>3. QED  BY <1>1, <2>1, <2>2 DEF VerifyOtp
<1>2. ASSUME NEW q \in Phones, VerifyOtpBypass(q)
      PROVE  AccountsInv'
  <2>1. PICK b \in BypassAccount(q) :
          \/ \E p \in RowOf(b) :
               users[p].role = BypassAccounts[b] /\ Usable(p) /\ Admit(p) /\ UNCHANGED users
          \/ /\ RowOf(b) = {}
             /\ \E p \in NewId :
                  users' = [users EXCEPT ![p] = NewUser(b, BypassAccounts[b])] /\ Admit(p)
    BY <1>2 DEF VerifyOtpBypass
  <2>2. NewUser(b, BypassAccounts[b]) \in User
    BY NewUserType, AccountsAssumption DEF BypassAccount
  <2>3. CASE \E p \in RowOf(b) : Admit(p) /\ UNCHANGED users
    BY <1>0, <2>3, AdmitInv DEF AccountsInv, AccountsTypeOK
  <2>4. CASE \E p \in NewId : users' = [users EXCEPT ![p] = NewUser(b, BypassAccounts[b])] /\ Admit(p)
    BY <1>0, <2>2, <2>4, NewRowInv, AdmitInv
  <2>5. QED  BY <2>1, <2>3, <2>4
<1>3. CASE KioskLogin
  BY <1>0, <1>3, AdmitInv DEF KioskLogin, AccountsInv, AccountsTypeOK
<1>4. QED  BY <1>1, <1>2, <1>3 DEF SigningIn

\* A request begins with what it read.
LEMMA ServeInv ==
  ASSUME AccountsInv, NEW h \in Handlers, NEW r, RequestOK(r), Serve(h, r)
  PROVE  AccountsInv'
<1>1. /\ DOMAIN serving' = Handlers
      /\ serving' = [serving EXCEPT ![h] = r]
      /\ UNCHANGED <<users, tokenHolders, purchases, claimed>>
  BY DEF Serve, AccountsInv, AccountsTypeOK
<1>2. \A g \in Handlers : RequestOK(serving'[g])
  BY <1>1 DEF AccountsInv, AccountsTypeOK
<1>3. QED  BY <1>1, <1>2, OrdersKept DEF AccountsInv, AccountsTypeOK

\* A request ends, and the orders the others look at are still there.
LEMMA EndFacts ==
  ASSUME AccountsInv, NEW h \in Handlers, End(h),
         \A o \in Purchases : purchases[o] # NoOne => purchases'[o] # NoOne
  PROVE  /\ DOMAIN serving' = Handlers
         /\ \A g \in Handlers : RequestOK(serving'[g])
         /\ \A g \in Handlers : RequestOK(serving[g])'
<1>1. serving' = [serving EXCEPT ![h] = IdleHandler] /\ DOMAIN serving = Handlers
  BY DEF End, AccountsInv, AccountsTypeOK
<1>2. \A g \in Handlers : serving'[g] = serving[g] \/ serving'[g] = IdleHandler
  BY <1>1
<1>3. RequestOK(IdleHandler) /\ IdleHandler.op = "idle"
  BY DEF RequestOK, IdleHandler, Updates
<1>4. \A g \in Handlers : RequestOK(serving'[g])
  BY <1>2, <1>3 DEF AccountsInv, AccountsTypeOK
<1>5. \A g \in Handlers : RequestOK(serving[g])'
  BY <1>4 DEF RequestOK
<1>6. QED  BY <1>1, <1>4, <1>5

LEMMA RowRead ==
  ASSUME AccountsInv, NEW p \in People, Exists(p)
  PROVE  users[p] \in User
  BY DEF AccountsInv, AccountsTypeOK, Exists

LEMMA BeginInv ==
  ASSUME AccountsInv, NEW h \in Handlers, NEW actor \in People,
         Administering(h, actor) \/ BeginLeave(h, actor) \/ Ordering(h, actor)
  PROVE  AccountsInv'
<1>1. ASSUME NEW p \in People, NEW op \in {"ban", "unban", "archive", "unarchive"},
             BeginBan(h, actor, op, p) \/ BeginArchive(h, actor, op, p)
      PROVE  AccountsInv'
  <2> DEFINE r == [op |-> op, target |-> p, saw |-> users[p]]
  <2>1. Serve(h, r) /\ Exists(p)
    BY <1>1 DEF BeginBan, BeginArchive, StaffTarget
  <2>2. RequestOK(r)
    BY <2>1, RowRead DEF RequestOK, Updates
  <2> HIDE DEF r
  <2>3. QED  BY <2>1, <2>2, ServeInv
<1>2. ASSUME NEW p \in People, BeginDeleteStaff(h, actor, p)
      PROVE  AccountsInv'
  <2> DEFINE r == [op |-> "delete", target |-> p]
  <2>1. Serve(h, r)
    BY <1>2 DEF BeginDeleteStaff
  <2>2. RequestOK(r)
    BY DEF RequestOK, Updates
  <2> HIDE DEF r
  <2>3. QED  BY <2>1, <2>2, ServeInv
<1>3. ASSUME NEW q \in Phones, NEW role \in StaffRoles, BeginProvision(h, actor, q, role)
      PROVE  AccountsInv'
  <2>1. CASE \E p \in RowOf(q) :
               Serve(h, [op |-> "provision", target |-> p, saw |-> users[p], role |-> role])
    <3>1. PICK p \in RowOf(q) :
            Serve(h, [op |-> "provision", target |-> p, saw |-> users[p], role |-> role])
      BY <2>1
    <3> DEFINE r == [op |-> "provision", target |-> p, saw |-> users[p], role |-> role]
    <3>2. p \in People /\ Exists(p)
      BY DEF RowOf
    <3>3. RequestOK(r)
      BY <3>2, RowRead DEF RequestOK, Updates
    <3>4. Serve(h, r)
      BY <3>1
    <3> HIDE DEF r
    <3>5. QED  BY <3>3, <3>4, ServeInv
  <2>2. CASE Serve(h, [op |-> "hire", phone |-> q, role |-> role])
    <3> DEFINE r == [op |-> "hire", phone |-> q, role |-> role]
    <3>1. Serve(h, r) /\ RequestOK(r)
      BY <2>2 DEF RequestOK, Updates
    <3> HIDE DEF r
    <3>2. QED  BY <3>1, ServeInv
  <2>3. QED  BY <1>3, <2>1, <2>2 DEF BeginProvision
<1>4. CASE BeginLeave(h, actor)
  <2> DEFINE r == [op |-> "leave", target |-> actor, saw |-> users[actor],
                   buyer |-> DoneBy(actor) # {}]
  <2>1. Serve(h, r) /\ Exists(actor)
    BY <1>4 DEF BeginLeave, Authorized, Usable
  <2>2. RequestOK(r)
    BY <2>1, RowRead DEF RequestOK, Updates
  <2> HIDE DEF r
  <2>3. QED  BY <2>1, <2>2, ServeInv
<1>5. CASE BeginCheckout(h, actor)
  <2>1. PICK offer \in BOOLEAN : Serve(h, [op |-> "checkout", target |-> actor, offer |-> offer])
    BY <1>5 DEF BeginCheckout
  <2> DEFINE r == [op |-> "checkout", target |-> actor, offer |-> offer]
  <2>2. Serve(h, r) /\ RequestOK(r)
    BY <2>1 DEF RequestOK, Updates
  <2> HIDE DEF r
  <2>3. QED  BY <2>2, ServeInv
<1>6. ASSUME NEW o \in Purchases, NEW op \in {"finish", "cancel"}, BeginFinish(h, actor, o, op)
      PROVE  AccountsInv'
  <2> DEFINE r == [op |-> op, order |-> o,
                   phone |-> IF users[actor].role = "DRIVER" THEN Placeholder
                             ELSE users[purchases[o].owner].phone]
  <2>1. Serve(h, r) /\ purchases[o] # NoOne
    BY <1>6 DEF BeginFinish
  <2>2. RequestOK(r)
    BY <2>1 DEF RequestOK, Updates
  <2> HIDE DEF r
  <2>3. QED  BY <2>1, <2>2, ServeInv
<1>7. QED  BY <1>1, <1>2, <1>3, <1>4, <1>5, <1>6 DEF Administering, Ordering

\* The columns a request did not change keep what the row says.
LEMMA MergedType ==
  ASSUME NEW now \in User, NEW saw \in User, NEW new \in User
  PROVE  /\ Merged(now, saw, new) \in User
         /\ Merged(now, saw, new).phone = IF new.phone # saw.phone THEN new.phone ELSE now.phone
         /\ Merged(now, saw, new).active = IF new.active # saw.active THEN new.active ELSE now.active
  BY DEF Merged, User

LEMMA ChangedType ==
  ASSUME NEW r, RequestOK(r), r.op \in Updates
  PROVE  /\ Changed(r) \in User
         /\ Changed(r).phone = r.saw.phone \/ Changed(r).phone = Placeholder
         /\ Changed(r).active = TRUE => r.saw.active = TRUE \/ r.op \in {"unarchive", "provision"}
  BY DEF RequestOK, Changed, Outcome, Updates, User, Roles

LEMMA CommitUpdateInv ==
  ASSUME AccountsInv, NEW h \in Handlers, CommitUpdate(h)
  PROVE  AccountsInv'
<1> DEFINE r == serving[h]
<1>1. /\ r.op \in Updates /\ RequestOK(r) /\ Exists(r.target) /\ End(h)
      /\ UNCHANGED purchases /\ tokenHolders' \subseteq People
  BY DEF CommitUpdate, Updates, AccountsInv, AccountsTypeOK
<1>2. r.target \in People /\ r.saw \in User /\ users[r.target] \in User
  BY <1>1, RowRead DEF RequestOK
<1>3. users' = [users EXCEPT ![r.target] = Merged(users[r.target], r.saw, Changed(r))]
      /\ claimed' = ClaimsAfterUpdate(r)
  BY DEF CommitUpdate
<1> HIDE DEF r
<1>4. Merged(users[r.target], r.saw, Changed(r)) \in User
  BY <1>1, <1>2, MergedType, ChangedType
<1>5. /\ users' \in [People -> User \cup {NoOne}]
      /\ \A p \in People : users[p] # NoOne => users'[p] # NoOne
  BY <1>2, <1>3, <1>4, AccountsAssumption DEF AccountsInv, AccountsTypeOK
<1>6. claimed \subseteq claimed'
  BY <1>3 DEF ClaimsAfterUpdate, ClaimsWith
<1>7. QED  BY <1>1, <1>5, <1>6, EndFacts, OrdersKept

LEMMA CommitHireInv ==
  ASSUME AccountsInv, NEW h \in Handlers, CommitHire(h)
  PROVE  AccountsInv'
<1>1. /\ RequestOK(serving[h]) /\ serving[h].op = "hire" /\ End(h)
      /\ UNCHANGED <<purchases, claimed>> /\ tokenHolders' \subseteq People
  BY DEF CommitHire, AccountsInv, AccountsTypeOK
<1>2. NewUser(serving[h].phone, serving[h].role) \in User
  BY <1>1, NewUserType DEF RequestOK, Roles
<1>3. PICK p \in NewId : users' = [users EXCEPT ![p] = NewUser(serving[h].phone, serving[h].role)]
  BY DEF CommitHire
<1>4. /\ users' \in [People -> User \cup {NoOne}]
      /\ \A q \in People : users[q] # NoOne => users'[q] # NoOne
  BY <1>2, <1>3, NewRowInv
<1>5. QED  BY <1>1, <1>4, EndFacts, OrdersKept

\* The row of someone who has ordered is not deleted.
LEMMA CommitDeleteInv ==
  ASSUME AccountsInv, NEW h \in Handlers, CommitDelete(h)
  PROVE  AccountsInv'
<1> DEFINE p == serving[h].target
<1>1. /\ End(h) /\ UNCHANGED <<tokenHolders, purchases, claimed>> /\ PurchasesOf(p) = {}
      /\ users' = [users EXCEPT ![p] = NoOne]
  BY DEF CommitDelete, Deletable
<1> HIDE DEF p
<1>2. users' \in [People -> User \cup {NoOne}]
  BY <1>1 DEF AccountsInv, AccountsTypeOK
<1>3. HistoryKept'
  <2>1. ASSUME NEW o \in Purchases, purchases[o] # NoOne
        PROVE  users'[purchases[o].owner] # NoOne
    <3>1. purchases[o].owner # p /\ purchases[o].owner \in People /\ Exists(purchases[o].owner)
      BY <1>1, <2>1 DEF PurchasesOf, AccountsInv, AccountsTypeOK, HistoryKept, Purchase
    <3>2. QED  BY <1>1, <3>1 DEF Exists, AccountsInv, AccountsTypeOK
  <2>2. QED  BY <1>1, <2>1 DEF HistoryKept, Exists
<1>4. WelcomesClaimed' /\ OneWelcomePerPhone'
  BY <1>1 DEF AccountsInv, WelcomesClaimed, OneWelcomePerPhone
<1>5. QED  BY <1>1, <1>2, <1>3, <1>4, EndFacts DEF AccountsInv, AccountsTypeOK

\* The welcome price goes to a telephone without a claim, and leaves one.
LEMMA CommitCheckoutInv ==
  ASSUME AccountsInv, NEW h \in Handlers, CommitCheckout(h)
  PROVE  AccountsInv'
<1> DEFINE r == serving[h]
<1>1. /\ Exists(r.target) /\ r.target \in People /\ End(h) /\ UNCHANGED <<users, tokenHolders>>
      /\ claimed' = ClaimsAfterCheckout(r)
  BY DEF CommitCheckout, AccountsInv, AccountsTypeOK, RequestOK
<1>2. PICK o \in NextPurchase :
        purchases' = [purchases EXCEPT ![o] =
          [owner |-> r.target, phone |-> users[r.target].phone, state |-> "open",
           welcome |-> Welcomed(r)]]
  BY DEF CommitCheckout
<1> HIDE DEF r
<1>3. o \in Purchases /\ purchases[o] = NoOne
  BY DEF NextPurchase
<1> DEFINE new == [owner |-> r.target, phone |-> users[r.target].phone, state |-> "open",
                   welcome |-> Welcomed(r)]
<1>4. new \in Purchase /\ new.phone = users[r.target].phone /\ new.owner = r.target
      /\ new.welcome = Welcomed(r)
  <2>1. users[r.target] \in User
    BY <1>1, RowRead
  <2>2. Welcomed(r) \in BOOLEAN
    BY DEF Welcomed
  <2>3. QED  BY <1>1, <2>1, <2>2 DEF Purchase, User
<1>5. /\ purchases' \in [Purchases -> Purchase \cup {NoOne}] /\ purchases'[o] = new
      /\ \A q \in Purchases \ {o} : purchases'[q] = purchases[q]
  BY <1>2, <1>3, <1>4 DEF AccountsInv, AccountsTypeOK
<1> HIDE DEF new
<1>6. new # NoOne
  BY <1>4, AccountsAssumption
<1>7. claimed \subseteq claimed'
  BY <1>1 DEF ClaimsAfterCheckout, ClaimsWith
<1>8. new.welcome => /\ new.phone # Placeholder /\ Fingerprint(new.phone) \notin claimed
                     /\ Fingerprint(new.phone) \in claimed'
  BY <1>1, <1>4 DEF Welcomed, HasClaim, ClaimsAfterCheckout, ClaimsWith
<1>9. WelcomesClaimed'
  BY <1>5, <1>7, <1>8 DEF AccountsInv, WelcomesClaimed
<1>10. OneWelcomePerPhone'
  <2>1. ASSUME NEW q \in Purchases, q # o, purchases[q] # NoOne, purchases[q].welcome, new.welcome
        PROVE  IdentityOf[purchases[q].phone] # IdentityOf[new.phone]
    BY <2>1, <1>8 DEF AccountsInv, WelcomesClaimed, Fingerprint
  <2>2. QED  BY <1>5, <2>1 DEF AccountsInv, OneWelcomePerPhone
<1>11. HistoryKept'
  BY <1>1, <1>4, <1>5 DEF AccountsInv, HistoryKept, Exists
<1>12. \A q \in Purchases : purchases[q] # NoOne => purchases'[q] # NoOne
  BY <1>3, <1>5
<1>13. QED  BY <1>1, <1>5, <1>9, <1>10, <1>11, <1>12, EndFacts DEF AccountsInv, AccountsTypeOK

LEMMA CommitFinishInv ==
  ASSUME AccountsInv, NEW h \in Handlers, CommitFinish(h)
  PROVE  AccountsInv'
<1> DEFINE r == serving[h]
           o == r.order
           n == [purchases[o] EXCEPT !.state = IF r.op = "finish" THEN "done" ELSE "cancelled"]
<1>1. /\ o \in Purchases /\ purchases[o] # NoOne /\ End(h) /\ UNCHANGED <<users, tokenHolders>>
      /\ claimed' = IF r.op = "finish" THEN ClaimsWith(r.phone) ELSE claimed
  BY DEF CommitFinish, AccountsInv, AccountsTypeOK, RequestOK
<1>2. purchases' = [purchases EXCEPT ![o] = n]
  BY DEF CommitFinish, AccountsInv, AccountsTypeOK
<1>3. purchases[o] \in Purchase
  BY <1>1 DEF AccountsInv, AccountsTypeOK
<1>4. n \in Purchase /\ n.owner = purchases[o].owner /\ n.phone = purchases[o].phone
      /\ n.welcome = purchases[o].welcome
  BY <1>3 DEF Purchase
<1> HIDE DEF r, o, n
<1>5. /\ purchases' \in [Purchases -> Purchase \cup {NoOne}] /\ purchases'[o] = n
      /\ \A q \in Purchases \ {o} : purchases'[q] = purchases[q]
  BY <1>1, <1>2, <1>4 DEF AccountsInv, AccountsTypeOK
<1>6. \A q \in Purchases :
        /\ purchases'[q] # NoOne <=> purchases[q] # NoOne
        /\ purchases[q] # NoOne => /\ purchases'[q].owner = purchases[q].owner
                                   /\ purchases'[q].phone = purchases[q].phone
                                   /\ purchases'[q].welcome = purchases[q].welcome
  BY <1>1, <1>4, <1>5, AccountsAssumption
<1>7. claimed \subseteq claimed'
  BY <1>1 DEF ClaimsWith
<1>8. WelcomesClaimed' /\ OneWelcomePerPhone' /\ HistoryKept'
  BY <1>1, <1>6, <1>7 DEF AccountsInv, WelcomesClaimed, OneWelcomePerPhone, HistoryKept, Exists
<1>9. QED  BY <1>1, <1>5, <1>6, <1>8, EndFacts DEF AccountsInv, AccountsTypeOK

LEMMA AccountsInvHolds == AccountsSpec => []AccountsInv
<1>1. ASSUME AccountsInv, [AccountsNext]_accountVars
      PROVE  AccountsInv'
  <2>1. CASE UNCHANGED accountVars
    BY <1>1, <2>1 DEF accountVars, AccountsInv, AccountsTypeOK, RequestOK, WelcomesClaimed,
                      OneWelcomePerPhone, HistoryKept, Exists
  <2>2. ASSUME NEW h \in Handlers, Rollback(h)
        PROVE  AccountsInv'
    BY <1>1, <2>2, EndFacts, OrdersKept DEF Rollback, AccountsInv, AccountsTypeOK
  <2>3. NextHandler \subseteq Handlers /\ tokenHolders \subseteq People
    BY <1>1 DEF NextHandler, IdleOnes, AccountsInv, AccountsTypeOK
  <2>4. CASE AccountsNext
    BY <1>1, <2>2, <2>3, <2>4, SigningInInv, BeginInv, CommitUpdateInv, CommitHireInv, CommitDeleteInv,
       CommitCheckoutInv, CommitFinishInv DEF AccountsNext, Committing
  <2>5. QED  BY <1>1, <2>1, <2>4
<1>2. QED  BY <1>1, AccountsInitInv, PTL DEF AccountsSpec

\* One telephone gets the welcome price once, over however many accounts
\* (first_time_offer_claims and create_order).
THEOREM WelcomeOncePerPhone == AccountsSpec => []OneWelcomePerPhone
  BY AccountsInvHolds, PTL DEF AccountsInv

\* The foreign key keeps the row of everybody who has ordered.
THEOREM OrdersKeepTheirOwner == AccountsSpec => []HistoryKept
  BY AccountsInvHolds, PTL DEF AccountsInv

\* Only the commit of an update changes a row that stays.
LEMMA RowChangedByUpdate ==
  ASSUME AccountsInv, AccountsNext, NEW p \in People, Exists(p), Exists(p)', users'[p] # users[p]
  PROVE  \E h \in Handlers : CommitUpdate(h) /\ serving[h].target = p
<1>1. ASSUME SigningIn
      PROVE  FALSE
  <2>1. users' = users \/ \E q \in NewId, u \in User : users' = [users EXCEPT ![q] = u]
    <3>1. \A q \in Phones : VerifyOtp(q) =>
            users' = users \/ \E n \in NewId, u \in User : users' = [users EXCEPT ![n] = u]
      BY NewUserType DEF VerifyOtp, Roles
    <3>2. \A q \in Phones : VerifyOtpBypass(q) =>
            users' = users \/ \E n \in NewId, u \in User : users' = [users EXCEPT ![n] = u]
      BY NewUserType, AccountsAssumption DEF VerifyOtpBypass, BypassAccount
    <3>3. QED  BY <1>1, <3>1, <3>2 DEF SigningIn, KioskLogin
  <2>2. QED  BY <2>1, NewRowInv DEF Exists
<1>2. ASSUME NEW h \in Handlers, CommitHire(h)
      PROVE  FALSE
  <2>1. RequestOK(serving[h]) /\ serving[h].op = "hire"
    BY <1>2 DEF CommitHire, AccountsInv, AccountsTypeOK
  <2>2. NewUser(serving[h].phone, serving[h].role) \in User
    BY <2>1, NewUserType DEF RequestOK, Roles
  <2>3. QED  BY <1>2, <2>2, NewRowInv DEF CommitHire, Exists
<1>3. ASSUME NEW h \in Handlers, CommitDelete(h)
      PROVE  FALSE
  BY <1>3 DEF CommitDelete, Exists, AccountsInv, AccountsTypeOK
<1>4. ASSUME NEW h \in Handlers, CommitUpdate(h)
      PROVE  serving[h].target = p
  BY <1>4 DEF CommitUpdate, AccountsInv, AccountsTypeOK
<1>5. ASSUME NEW h, NEW actor,
             Administering(h, actor) \/ BeginLeave(h, actor) \/ Ordering(h, actor)
      PROVE  UNCHANGED users
  BY <1>5 DEF Administering, BeginLeave, Ordering, BeginBan, BeginArchive, BeginDeleteStaff,
              BeginProvision, BeginCheckout, BeginFinish, Serve
<1>6. QED  BY <1>1, <1>2, <1>3, <1>4, <1>5
      DEF AccountsNext, Committing, CommitCheckout, CommitFinish, Rollback

\* A deleted account keeps no number, and only a request that reopens accounts
\* makes it active again (delete_account and the staff administration).
THEOREM DeletedStaysDeleted == AccountsSpec => DeletionHolds
<1> DEFINE A == \A p \in People :
                  (Exists(p) /\ users[p].phone = Placeholder /\ Exists(p)') =>
                    /\ users'[p].phone = Placeholder
                    /\ users'[p].active => users[p].active \/ Reopened(p)
<1>1. ASSUME AccountsInv, [AccountsNext]_accountVars
      PROVE  [A]_accountVars
  <2>1. SUFFICES ASSUME AccountsNext, NEW p \in People, Exists(p), users[p].phone = Placeholder,
                        Exists(p)', users'[p] # users[p]
                 PROVE  /\ users'[p].phone = Placeholder
                        /\ users'[p].active => users[p].active \/ Reopened(p)
    BY <1>1
  <2>2. PICK h \in Handlers : CommitUpdate(h) /\ serving[h].target = p
    BY <1>1, <2>1, RowChangedByUpdate
  <2> DEFINE r == serving[h]
  <2>3. /\ RequestOK(r) /\ r.op \in Updates /\ r.saw \in User /\ users[p] \in User
        /\ serving'[h] = IdleHandler
        /\ users'[p] = Merged(users[p], r.saw, Changed(r))
    <3>1. RequestOK(r) /\ r.op \in Updates /\ users[p] \in User
      BY <1>1, <2>1, <2>2, RowRead DEF CommitUpdate, Updates, AccountsInv, AccountsTypeOK
    <3>2. serving'[h] = IdleHandler /\ users'[p] = Merged(users[p], r.saw, Changed(r))
      BY <1>1, <2>1, <2>2 DEF CommitUpdate, End, AccountsInv, AccountsTypeOK
    <3>3. QED  BY <3>1, <3>2 DEF RequestOK
  <2>4. r.target = p
    BY <2>2
  <2>5. r.op \in {"unarchive", "provision"} => Reopened(p)
    BY <2>3, <2>4 DEF Reopened
  <2> HIDE DEF r
  <2>6. /\ Changed(r) \in User
        /\ Changed(r).phone = r.saw.phone \/ Changed(r).phone = Placeholder
        /\ Changed(r).active = TRUE => r.saw.active = TRUE \/ r.op \in {"unarchive", "provision"}
    BY <2>3, ChangedType
  <2>7. /\ users'[p].phone = IF Changed(r).phone # r.saw.phone THEN Changed(r).phone ELSE users[p].phone
        /\ users'[p].active = IF Changed(r).active # r.saw.active THEN Changed(r).active
                                                                  ELSE users[p].active
    BY <2>3, <2>6, MergedType
  <2>8. users'[p].phone = Placeholder
    BY <2>1, <2>6, <2>7
  <2>9. users'[p].active => users[p].active \/ Reopened(p)
    <3>1. Changed(r).active \in BOOLEAN /\ r.saw.active \in BOOLEAN /\ users[p].active \in BOOLEAN
      BY <2>3, <2>6 DEF User
    <3>2. QED  BY <2>5, <2>6, <2>7, <3>1
  <2>10. QED  BY <2>8, <2>9
<1> HIDE DEF A
<1>2. AccountsSpec => [][A]_accountVars
  BY <1>1, AccountsInvHolds, PTL DEF AccountsSpec
<1>3. QED  BY <1>2 DEF A, DeletionHolds

=============================================================================
