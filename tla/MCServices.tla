------------------------------ MODULE MCServices ------------------------------
(***************************************************************************)
(* The instance TLC checks of the services every request shares.  They     *)
(* keep no state in common, so a behaviour is one of the response cache,   *)
(* the rate limiter, the websocket manager, the push tokens or the         *)
(* accounts: part says which, and the others stay as they begin.           *)
(***************************************************************************)
EXTENDS ResponseCache, RateLimiter, Broadcast, PushTokens, MCAccounts

CONSTANTS Client, Driver

VARIABLE part

MCLimits == [r \in Rules |-> CASE r = "order_create" -> 2 [] r = "auth_send_otp" -> 1 [] OTHER -> 0]
MCRoles == Client :> "CLIENT" @@ Driver :> "DRIVER"

Init ==
    /\ CacheInit /\ LimiterInit /\ BroadcastInit /\ PushInit /\ AccountsInit
    /\ part \in 1 .. 5 /\ (part = 5 \/ tokenHolders = {Boss})

Next ==
    /\ UNCHANGED part
    /\ \/ part = 1 /\ CacheNext /\ UNCHANGED <<limiterVars, castVars, pushVars, accountVars>>
       \/ part = 2 /\ LimiterNext /\ UNCHANGED <<cacheVars, castVars, pushVars, accountVars>>
       \/ part = 3 /\ BroadcastNext /\ UNCHANGED <<cacheVars, limiterVars, pushVars, accountVars>>
       \/ part = 4 /\ PushNext /\ UNCHANGED <<cacheVars, limiterVars, castVars, accountVars>>
       \/ part = 5 /\ AccountsNext /\ UNCHANGED <<cacheVars, limiterVars, castVars, pushVars>>

Spec == Init /\ [][Next]_<<part, cacheVars, limiterVars, castVars, pushVars, accountVars>>
=============================================================================
