------------------------------ MODULE PushTokens ------------------------------
(***************************************************************************)
(* Push notifications: phones register the token of their installation for *)
(* the user who signs in and deactivate it when the user signs out; after  *)
(* a commit the server reads the active tokens of the recipients, tries    *)
(* them one after the other and retires those the provider says are gone.  *)
(* A token is one installation of an app; reinstalling it kills the token. *)
(***************************************************************************)
EXTENDS Naturals, Sequences

CONSTANTS Users, RoleOf,  \* the people and the role each has
          Tokens,         \* device tokens, one per installation
          Dispatches,     \* requests that send notices after their commit
          Nobody

ASSUME PushAssumption ==
    Nobody \notin Users /\ RoleOf \in [Users -> {"CLIENT", "ADMIN", "FRONTDESK", "DRIVER"}]

VARIABLES tokenRows,      \* token -> its row: owner and is_active
          alive,          \* the installation still exists
          app,            \* token -> what its app knows and has sent
          pushes          \* dispatch -> the notices left, the tokens read

pushVars == <<tokenRows, alive, app, pushes>>

NoRow == [owner |-> Nobody, active |-> FALSE]
SignedOut == [user |-> Nobody, saved |-> FALSE, sync |-> "none", by |-> Nobody, leave |-> "none"]
Idle == [queue |-> << >>, todo |-> {}, gone |-> {}, read |-> FALSE]

PushInit ==
    /\ tokenRows = [t \in Tokens |-> NoRow]
    /\ alive = [t \in Tokens |-> TRUE]
    /\ app = [t \in Tokens |-> SignedOut]
    /\ pushes = [d \in Dispatches |-> Idle]

(* The notices of each event, in the order they are sent, with the people  *)
(* each one is for.                                                        *)
Admins == {u \in Users : RoleOf[u] = "ADMIN"}
Tablets == {u \in Users : RoleOf[u] = "FRONTDESK"}
Clients == {u \in Users : RoleOf[u] = "CLIENT"}
Notices(event, o) ==
    CASE event = "created"    -> IF o.delivery THEN <<Admins, Tablets, Admins>> ELSE <<Admins, Tablets>>
      [] event = "assigned"   -> <<{o.driver}, {o.client}>>
      [] event = "cancelled"  -> <<Tablets>>
      [] event = "ready"      -> <<{o.driver} \ {Nobody}>>
      [] event = "promotion"  -> <<Clients>>
      [] event \in {"accepted", "out", "delivered", "completed"} -> <<{o.client}>>

Events == {"created", "accepted", "assigned", "cancelled", "ready", "out", "delivered",
           "completed", "promotion"}
Orders == [client : {u \in Users : RoleOf[u] = "CLIENT"},
           driver : {u \in Users : RoleOf[u] = "DRIVER"}, delivery : BOOLEAN]

(* A sign-in takes longer than a request may last, so no call of the       *)
(* session before is still on its way.                                     *)
SignIn(t, u) ==
    /\ alive[t] /\ app[t].user = Nobody /\ app[t].sync # "posted"
    /\ app' = [app EXCEPT ![t] = [@ EXCEPT !.user = u, !.sync = "posted", !.by = u]]
    /\ UNCHANGED <<tokenRows, alive, pushes>>

(* Another language registers the token again.                             *)
SyncAgain(t) ==
    /\ app[t].user # Nobody /\ app[t].sync # "posted"
    /\ app' = [app EXCEPT ![t].sync = "posted", ![t].by = app[t].user]
    /\ UNCHANGED <<tokenRows, alive, pushes>>

(* register_push_token: the row of the token is written over, whoever      *)
(* owned it.  The app keeps the token for signing out if it is answered.   *)
Registered(a, answered) ==
    [a EXCEPT !.sync = IF answered THEN "done" ELSE "none", !.saved = @ \/ answered]

Register(t, answered) ==
    /\ app[t].sync = "posted"
    /\ tokenRows' = [tokenRows EXCEPT ![t] = [owner |-> app[t].by, active |-> TRUE]]
    /\ app' = [app EXCEPT ![t] = Registered(@, answered)]
    /\ UNCHANGED <<alive, pushes>>

RegisterFails(t) ==
    /\ app[t].sync = "posted"
    /\ app' = [app EXCEPT ![t].sync = "none"]
    /\ UNCHANGED <<tokenRows, alive, pushes>>

Out(t) == [app[t] EXCEPT !.user = Nobody, !.leave = "none",
                         !.sync = IF @ = "posted" THEN @ ELSE "none"]

(* Signing out deactivates the saved token first; without one, or when the *)
(* session expires or the account is deleted, the row stays as it is.      *)
Logout(t) ==
    /\ app[t].user # Nobody /\ app[t].leave = "none"
    /\ app' = [app EXCEPT ![t] = IF app[t].saved THEN [@ EXCEPT !.leave = "sent"] ELSE Out(t)]
    /\ UNCHANGED <<tokenRows, alive, pushes>>

SessionEnds(t) ==
    /\ app[t].user # Nobody
    /\ app' = [app EXCEPT ![t] = Out(t)]
    /\ UNCHANGED <<tokenRows, alive, pushes>>

(* deactivate_push_token: only the owner's row; the answer may be lost.    *)
Deactivate(t, answered) ==
    /\ app[t].leave = "sent" /\ tokenRows[t].owner = app[t].user
    /\ tokenRows' = [tokenRows EXCEPT ![t].active = FALSE]
    /\ app' = [app EXCEPT ![t] = [Out(t) EXCEPT !.saved = @ /\ ~answered]]
    /\ UNCHANGED <<alive, pushes>>

DeactivateFails(t) ==
    /\ app[t].leave = "sent"
    /\ app' = [app EXCEPT ![t] = Out(t)]
    /\ UNCHANGED <<tokenRows, alive, pushes>>

Reinstall(t) ==
    /\ alive[t]
    /\ alive' = [alive EXCEPT ![t] = FALSE]
    /\ app' = [app EXCEPT ![t] = SignedOut]
    /\ UNCHANGED <<tokenRows, pushes>>

(* emit_post_commit_order_notifications and its promotion counterpart.     *)
Emit(d, event, o) ==
    /\ pushes[d] = Idle
    /\ pushes' = [pushes EXCEPT ![d].queue = Notices(event, o)]
    /\ UNCHANGED <<tokenRows, alive, app>>

ActiveTokens(people) == {t \in Tokens : tokenRows[t].active /\ tokenRows[t].owner \in people}

ReadTokens(d) ==
    /\ pushes[d].queue # << >> /\ ~pushes[d].read
    /\ pushes' = [pushes EXCEPT ![d].todo = ActiveTokens(Head(pushes[d].queue)), ![d].read = TRUE]
    /\ UNCHANGED <<tokenRows, alive, app>>

(* What the provider answers: only of a dead token does it say it is gone, *)
(* and any attempt may fail otherwise.                                     *)
Verdicts(t) == {"error"} \cup (IF alive[t] THEN {"sent"} ELSE {"gone"})
\* Mutant: any failed attempt retires the token.
RetiresOnError(verdict) == verdict # "sent"

Retires(verdict) == verdict = "gone"

Deliver(d, t) ==
    /\ t \in pushes[d].todo
    /\ \E v \in Verdicts(t) :
          pushes' = [pushes EXCEPT ![d].todo = @ \ {t},
                                   ![d].gone = IF Retires(v) THEN @ \cup {t} ELSE @]
    /\ UNCHANGED <<tokenRows, alive, app>>

(* One commit at the end of a notice retires the tokens found gone.        *)
CommitRetired(d) ==
    /\ pushes[d].read /\ pushes[d].todo = {}
    /\ tokenRows' = [t \in Tokens |-> IF t \in pushes[d].gone
                                      THEN [tokenRows[t] EXCEPT !.active = FALSE] ELSE tokenRows[t]]
    /\ pushes' = [pushes EXCEPT ![d] = [Idle EXCEPT !.queue = Tail(pushes[d].queue)]]
    /\ UNCHANGED <<alive, app>>

(* An error outside the attempts ends the rest of the notices, logged.     *)
DispatchFails(d) ==
    /\ pushes[d] # Idle
    /\ pushes' = [pushes EXCEPT ![d] = Idle]
    /\ UNCHANGED <<tokenRows, alive, app>>

PushNext ==
    \/ \E t \in Tokens : \/ \E u \in Users : SignIn(t, u)
                         \/ \E answered \in BOOLEAN : Register(t, answered) \/ Deactivate(t, answered)
                         \/ SyncAgain(t) \/ RegisterFails(t)
                         \/ Logout(t) \/ SessionEnds(t) \/ DeactivateFails(t) \/ Reinstall(t)
    \/ \E d \in Dispatches : \/ \E event \in Events, o \in Orders : Emit(d, event, o)
                             \/ ReadTokens(d)
                             \/ \E t \in Tokens : Deliver(d, t)
                             \/ CommitRetired(d) \/ DispatchFails(d)

PushSpec == PushInit /\ [][PushNext]_pushVars

(* A phone whose registration was confirmed stays reachable: as long as    *)
(* its user is signed in and has not begun to sign out, its token is       *)
(* active and his own, whatever dispatches that read it before, failed     *)
(* attempts, other phones and earlier users of the phone do.               *)
RegisteredStaysReachable ==
    \A t \in Tokens :
        app[t].sync = "done" /\ app[t].user # Nobody /\ app[t].leave = "none"
            => tokenRows[t] = [owner |-> app[t].user, active |-> TRUE]
=============================================================================
