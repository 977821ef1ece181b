---------------------------- MODULE ResponseCache ----------------------------
(***************************************************************************)
(* The in-process cache in front of the two public answers, GET /menu and  *)
(* GET /promotions/active: requests that miss read the database and store  *)
(* what they read, admin requests commit an edit and delete the key of     *)
(* their own kind of data afterwards, entries expire, a restart empties    *)
(* the cache.  A copy carries what the properties ask about it: for how    *)
(* long the database has said something else (age, 0 while it agrees), and *)
(* whether an edit of its own kind was committed while it was stored.      *)
(* Time is counted in ticks; entries keep the ticks they have left.        *)
(***************************************************************************)
EXTENDS Integers, FiniteSets

CONSTANTS Requests,   \* concurrent GET requests
          Ttl,        \* public_cache_ttl_seconds, in ticks (0 turns the cache off)
          ReadTime    \* the longest a read of the database takes, in ticks

ASSUME CacheAssumption == Ttl \in Nat /\ ReadTime \in Nat

VARIABLES entries,    \* key -> the entry, or None
          gets,       \* request -> the read under way, or None
          editing,    \* the kinds of edit committed and not yet invalidated
          answered    \* the age of the last answer given

cacheVars == <<entries, gets, editing, answered>>

None == [is |-> "none"]
Keys == {"menu", "promotions"}
Reading(k) == [is |-> "read", key |-> k, age |-> 0, took |-> 0]
Entry(age) == [is |-> "entry", age |-> age, left |-> Ttl, missed |-> FALSE]

(* What an edit changes: promotions are answered with the names of the     *)
(* menu entries they target; loyalty rules are part of neither answer.     *)
Changes == [menu |-> Keys, promotion |-> {"promotions"}, loyalty |-> {}, clock |-> {}]
Invalidates == [menu |-> "menu", promotion |-> "promotions", loyalty |-> "promotions"]

CacheInit ==
    /\ entries = [k \in Keys |-> None]
    /\ gets = [r \in Requests |-> None]
    /\ editing = {}
    /\ answered = 0

\* Mutant: expiry is not looked at.
LiveForever(k) == entries[k] # None

Live(k) == entries[k] # None /\ entries[k].left > 0

(* TTLCache.get: an expired entry is dropped and counts as absent.         *)
GetHit(r, k) ==
    /\ gets[r] = None /\ Live(k)
    /\ answered' = entries[k].age
    /\ UNCHANGED <<entries, gets, editing>>

GetMiss(r, k) ==
    /\ gets[r] = None /\ ~Live(k)
    /\ gets' = [gets EXCEPT ![r] = Reading(k)]
    /\ entries' = [entries EXCEPT ![k] = None]
    /\ UNCHANGED <<editing, answered>>

Stored(k, copy) ==
    [entries EXCEPT ![k] = IF Ttl > 0 THEN Entry(copy.age) ELSE None]

(* The read is complete: the answer is stored and returned in one step, no *)
(* await between them.  Whatever was stored meanwhile is overwritten.      *)
StoreAndAnswer(r) ==
    /\ gets[r] # None
    /\ entries' = Stored(gets[r].key, gets[r])
    /\ answered' = gets[r].age
    /\ gets' = [gets EXCEPT ![r] = None]
    /\ UNCHANGED editing

ReadFails(r) ==
    /\ gets[r] # None
    /\ gets' = [gets EXCEPT ![r] = None]
    /\ UNCHANGED <<entries, editing, answered>>

Outdated(copy) == [copy EXCEPT !.age = IF @ = 0 THEN 1 ELSE @]

(* The database now answers differently for the keys ks.                   *)
OutdateReads(ks) ==
    gets' = [r \in Requests |-> IF gets[r] # None /\ gets[r].key \in ks
                                THEN Outdated(gets[r]) ELSE gets[r]]

Commit(e) ==
    /\ e \notin editing
    /\ editing' = editing \cup {e}
    /\ OutdateReads(Changes[e])
    /\ entries' = [k \in Keys |->
          IF entries[k] = None \/ k \notin Changes[e] THEN entries[k]
          ELSE [Outdated(entries[k]) EXCEPT !.missed = @ \/ Invalidates[e] = k]]
    /\ UNCHANGED answered

\* Mutant: the edit does not delete its key.
InvalidateNothing(e) ==
    /\ e \in editing
    /\ editing' = editing \ {e}
    /\ UNCHANGED <<entries, gets, answered>>

(* The request that committed deletes its key after its last await: for a  *)
(* new promotion only once every push notice has been tried.               *)
Invalidate(e) ==
    /\ e \in editing
    /\ editing' = editing \ {e}
    /\ entries' = [entries EXCEPT ![Invalidates[e]] = None]
    /\ UNCHANGED <<gets, answered>>

(* The request fails between its commit and the deletion of its key (the   *)
(* refresh, or the lookup of target names): nothing is deleted, and the    *)
(* admin sees an error.                                                    *)
EditFails(e) ==
    /\ e \in editing
    /\ editing' = editing \ {e}
    /\ entries' = [k \in Keys |-> IF entries[k] # None /\ Invalidates[e] = k
                                  THEN [entries[k] EXCEPT !.missed = FALSE] ELSE entries[k]]
    /\ UNCHANGED <<gets, answered>>

(* A schedule or a promotion begins or ends: nobody invalidates.           *)
WindowEdge(k) ==
    /\ OutdateReads({k})
    /\ entries' = [entries EXCEPT ![k] = IF @ = None THEN @ ELSE Outdated(@)]
    /\ UNCHANGED <<editing, answered>>

Older(copy) == [copy EXCEPT !.age = IF @ = 0 \/ @ > Ttl + ReadTime THEN @ ELSE @ + 1]

CacheTick ==
    /\ \A r \in Requests : gets[r] # None => gets[r].took < ReadTime
    /\ gets' = [r \in Requests |-> IF gets[r] = None THEN None
                                   ELSE [Older(gets[r]) EXCEPT !.took = @ + 1]]
    /\ entries' = [k \in Keys |-> IF entries[k] = None THEN None
                   ELSE [Older(entries[k]) EXCEPT !.left = IF @ > 0 THEN @ - 1 ELSE 0]]
    /\ UNCHANGED <<editing, answered>>

(* The process is replaced: the cache and the requests under way are gone. *)
RestartProcess ==
    /\ entries' = [k \in Keys |-> None]
    /\ gets' = [r \in Requests |-> None]
    /\ editing' = {}
    /\ UNCHANGED answered

CacheNext ==
    \/ \E r \in Requests : \/ \E k \in Keys : GetHit(r, k) \/ GetMiss(r, k)
                           \/ StoreAndAnswer(r)
                           \/ ReadFails(r)
    \/ \E e \in DOMAIN Invalidates : Commit(e) \/ Invalidate(e) \/ EditFails(e)
    \/ \E k \in Keys : WindowEdge(k)
    \/ CacheTick
    \/ RestartProcess

CacheSpec == CacheInit /\ [][CacheNext]_cacheVars

(* Nobody is answered with a menu or a list of promotions that stopped     *)
(* being true longer ago than one life of a cache entry and the read that  *)
(* filled it, whatever edits, schedules, failures and restarts did.        *)
StalenessBounded == Ttl > 0 => answered <= Ttl + ReadTime

(* Once a request that edited a kind of data has answered with success, no *)
(* copy stored before its commit is still there: only a read that          *)
(* overlapped the edit can put an outdated answer of that kind back.       *)
EditsReachTheCache ==
    \A k \in Keys : entries[k] # None /\ entries[k].missed
                        => \E e \in editing : Invalidates[e] = k /\ k \in Changes[e]
=============================================================================
