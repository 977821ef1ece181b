----------------------------- MODULE RateLimiter -----------------------------
(***************************************************************************)
(* The in-memory rate limiter every request passes: which rule applies,    *)
(* whose bucket is charged, the fixed window that starts with the first    *)
(* request of a bucket, and the pruning of expired buckets once there are  *)
(* many.  Next to the buckets the model keeps the requests they admitted   *)
(* in the last Window ticks, which the property counts: of each its age in *)
(* ticks, its place in its window, and how many windows ago that one was.  *)
(***************************************************************************)
EXTENDS Integers, FiniteSets

CONSTANTS Callers,     \* clients, by authorization header or by address
          Window,      \* 60 seconds, in ticks
          LimitOf,     \* rule -> the limit configured for it (0: none)
          PruneAt      \* the number of buckets at which expired ones are dropped

Rules == {"auth_send_otp", "order_create", "admin_mutation", "global"}

ASSUME LimiterAssumption == Window \in Nat \ {0} /\ LimitOf \in [Rules -> Nat]

VARIABLES hits,        \* bucket -> its count and the ticks until it is reset
          admitted     \* the requests let through and not yet a window old

limiterVars == <<hits, admitted>>

Buckets == Rules \X Callers

(* The kinds of request _select_rule tells apart, and the rule for each.   *)
Kinds == {"health", "send_otp", "order", "reorder", "admin_write", "admin_read", "other"}
SelectRule(kind) ==
    CASE kind = "send_otp"              -> {"auth_send_otp"}
      [] kind \in {"order", "reorder"}  -> {"order_create"}
      [] kind = "admin_write"           -> {"admin_mutation"}
      [] kind = "health"                -> {}
      [] OTHER                          -> {"global"}

LimiterInit ==
    /\ hits = << >>
    /\ admitted = {}

Fresh == [count |-> 0, left |-> Window]

(* The bucket as check finds it: new, or begun again at the end of its     *)
(* window.                                                                 *)
Running(b) == b \in DOMAIN hits /\ hits[b].left > 0
Current(b) == IF Running(b) THEN hits[b] ELSE Fresh

Charged(b) == [b2 \in DOMAIN hits \cup {b} |->
                  IF b2 = b THEN [Current(b) EXCEPT !.count = @ + 1] ELSE hits[b2]]

\* Mutant: every bucket is dropped, live ones included.
PrunedAll(table) == IF Cardinality(DOMAIN table) < PruneAt THEN table ELSE << >>

Pruned(table) ==
    IF Cardinality(DOMAIN table) < PruneAt THEN table
    ELSE [b \in {x \in DOMAIN table : table[x].left > 0} |-> table[b]]

(* A window that begins puts those before it one further back.             *)
Aligned(b) ==
    IF Running(b) THEN admitted
    ELSE {IF q.bucket = b THEN [q EXCEPT !.window = @ + 1] ELSE q : q \in admitted}

Admission(b) == [bucket |-> b, no |-> Current(b).count + 1, window |-> 0, age |-> 0]

(* enforce_rate_limit: a request without a rule, or with a limit of 0, is  *)
(* not counted; any other one is counted, admitted or not.  (Bound: counts *)
(* more than one past the limit are not told apart.)                       *)
Enforce(kind, c) ==
    \E r \in SelectRule(kind) :
        LET b == <<r, c>> IN
        /\ LimitOf[r] > 0
        /\ Current(b).count <= LimitOf[r]
        /\ hits' = Pruned(Charged(b))
        /\ admitted' = Aligned(b) \cup
                          (IF Current(b).count + 1 <= LimitOf[r] THEN {Admission(b)} ELSE {})

LimiterTick ==
    /\ hits' = [b \in DOMAIN hits |-> [hits[b] EXCEPT !.left = IF @ > 0 THEN @ - 1 ELSE 0]]
    /\ admitted' = {[q EXCEPT !.age = @ + 1] : q \in {x \in admitted : x.age + 1 < Window}}

LimiterNext ==
    \/ \E kind \in Kinds, c \in Callers : Enforce(kind, c)
    \/ LimiterTick

LimiterSpec == LimiterInit /\ [][LimiterNext]_limiterVars

AdmittedBy(b) == {q \in admitted : q.bucket = b}

(* In any stretch of time as long as a window a client gets no more than   *)
(* twice the limit of the rule through (the end of one window and the      *)
(* beginning of the next), and what pruning drops never gives it more.     *)
LimitedPerWindow ==
    \A b \in Buckets : Cardinality(AdmittedBy(b)) <= 2 * LimitOf[b[1]]
=============================================================================
