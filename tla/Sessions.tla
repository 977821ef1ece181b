------------------------------ MODULE Sessions ------------------------------
(***************************************************************************)
(* The session of the customers' phone app: the refresh tokens the backend *)
(* hands out and rotates, and the app that keeps them, adds the access     *)
(* token to its requests and, on a 401, has them share one refresh.        *)
(*                                                                         *)
(* A refresh is two steps of the server, since refresh_session reads the   *)
(* token without locking it and revokes it later.  On the phone each wait  *)
(* for the server or for SecureStore is a place where the user, another    *)
(* request or the operating system can come in between: the calls, the     *)
(* reading of the stored token, the storing of new ones and the removal of *)
(* old ones.  A removal or a sign-in that is being stored does not hold up *)
(* the screens: the user may be gone, or another one be there, when it is  *)
(* done.  The app can be killed at any time; what it had asked the server  *)
(* is carried out all the same.                                            *)
(***************************************************************************)
EXTENDS Naturals, FiniteSets

CONSTANTS
  People,            \* rows of users: a phone that signs up again gets another one
  Grants,            \* primary keys of user_refresh_tokens (bounds the model)
  Calls,             \* the app's requests in flight, besides sign-in and refresh
  ProfileCalls,      \* those of them that delete the account or log out
  Slots,             \* database sessions serving a sign-in or a refresh
  None,
  OneRefreshPerGrant \* environment: is a refresh token sent once at a time?

ASSUME SessionConstants ==
  /\ None \notin People \cup Grants \cup Slots
  /\ "starting" \notin People \cup {None}
  /\ ProfileCalls \subseteq Calls /\ IsFiniteSet(Calls)
  /\ OneRefreshPerGrant \in BOOLEAN

VARIABLES
  account,  \* users: no row yet, may come in, or deleted by its owner
  grant,    \* user_refresh_tokens
  srv,      \* the transaction each slot runs
  store,    \* the tokens in the phone's SecureStore
  header,   \* the access token http sends
  ui,       \* AuthContext: starting, signed out, or who is signed in
  call,     \* the app's requests
  renewal,  \* refreshPromise of http.ts
  storing,  \* sign-ins whose tokens are on their way into SecureStore
  removals, \* how often clearLocalSession's removal is still to be carried out
  overlap   \* history: had an earlier session left anything when this one began?

server == <<account, grant, srv>>
pending == <<storing, removals>>
phone == <<store, header, ui, call, renewal, pending, overlap>>
vars == <<server, phone>>

-----------------------------------------------------------------------------
(* Types *)

\* An access token is the name of its user.  That it runs out within minutes is
\* time's doing: any request may be answered 401 (AwaitRefresh, Fails).
Access == People

\* A grant belongs to the login it descends from.
Grant == [state : {"unused", "live", "revoked", "gone"}, owner : People \cup {None},
          login : Grants \cup {None}]
Unused == [state |-> "unused", owner |-> None, login |-> None]

\* awaited: does the app still wait for the answer?
Txn == [op : {"idle", "signin", "refresh"}, phase : {"asked", "read", "flushed", "done", "refused"},
        who : People \cup {None}, grant : Grants \cup {None}, awaited : BOOLEAN]
NoTxn == [op |-> "idle", phase |-> "asked", who |-> None, grant |-> None, awaited |-> FALSE]

\* "closing" stands for what a logout or a deletion waits for before it clears the
\* session: the phone is taken off the push list, the saved addresses are removed.
Call == [kind : {"idle", "api", "me", "delete", "closing"}, token : Access \cup {None},
         retried : BOOLEAN, waiting : BOOLEAN]
NoCall == [kind |-> "idle", token |-> None, retried |-> FALSE, waiting |-> FALSE]
Closing == [NoCall EXCEPT !.kind = "closing"]

\* The shared refresh: reading the store, waiting for the server, and then either
\* about to put the access token of the answer, by now stored, into the header, or
\* removing the stored tokens and about to give up.
Renewal == [phase : {"none", "reading", "posted", "stored", "dropping", "dropped"},
            who : People \cup {None}]
NoRenewal == [phase |-> "none", who |-> None]
Nothing == [access |-> None, refresh |-> None]

TypeOK ==
  /\ account \in [People -> {"none", "active", "deleted"}]
  /\ grant \in [Grants -> Grant]
  /\ srv \in [Slots -> Txn]
  /\ store \in [access : Access \cup {None}, refresh : Grants \cup {None}]
  /\ header \in Access \cup {None}
  /\ ui \in People \cup {"starting", None}
  /\ call \in [Calls -> Call]
  /\ renewal \in Renewal
  /\ storing \subseteq Grants /\ removals \in Nat /\ overlap \in BOOLEAN
  /\ \A g \in Grants : grant[g].state \in {"live", "revoked"} => grant[g].owner # None
  /\ \A s \in Slots : srv[s].phase \in {"read", "flushed", "done"} => srv[s].who # None

-----------------------------------------------------------------------------
(* The backend *)

\* A transaction that has ended, and whose client does not wait, is over.
Kept(t, phase, awaited) ==
  IF ~awaited /\ phase \in {"done", "refused"} THEN NoTxn
  ELSE [t EXCEPT !.phase = phase, !.awaited = awaited]

Proceed(s, phase) == srv' = [srv EXCEPT ![s] = Kept(@, phase, @.awaited)]
AnswerWith(s, g) == srv' = [srv EXCEPT ![s] = Kept([@ EXCEPT !.grant = g], "done", @.awaited)]

\* The next primary key.
NewGrant == CHOOSE g \in Grants : grant[g].state = "unused"
CanIssue == \E g \in Grants : grant[g].state = "unused"

\* A new row of the login it continues, or of a login of its own.
Issued(g, p, login) ==
  [state |-> "live", owner |-> p, login |-> login]

\* The next row of users.
NewPerson == CHOOSE p \in People : account[p] = "none"

\* verify_otp: the code was right; the phone has an account, or signs up.  A
\* deleted account has lost its phone, and a ban is one of the refusals (Abort).
VerifyOtp(s, p) ==
  /\ srv[s].op = "signin" /\ srv[s].phase = "asked"
  /\ account[p] = "active" \/ (account[p] = "none" /\ p = NewPerson)
  /\ account' = [account EXCEPT ![p] = "active"]
  /\ srv' = [srv EXCEPT ![s] = [@ EXCEPT !.phase = "read", !.who = p]]
  /\ UNCHANGED <<grant, phone>>

\* Its second half stores a refresh token and answers with both tokens.
BuildTokenResponse(s) ==
  /\ srv[s].op = "signin" /\ srv[s].phase = "read" /\ CanIssue
  /\ grant' = [grant EXCEPT ![NewGrant] = Issued(NewGrant, srv[s].who, NewGrant)]
  /\ AnswerWith(s, NewGrant)
  /\ UNCHANGED <<account, phone>>

Redeemable(g) == grant[g].state = "live"

\* refresh_session up to its checks: the row is read, not locked.  A token that
\* is too old is refused as well, which is one of the failures of Abort.
ReadGrant(s) ==
  /\ srv[s].op = "refresh" /\ srv[s].phase = "asked"
  /\ Proceed(s, IF Redeemable(srv[s].grant) /\ account[srv[s].who] = "active"
                  THEN "read" ELSE "refused")
  /\ UNCHANGED <<account, grant, phone>>

\* _create_refresh_token flushes: the row that was read is updated, which fails
\* if it was deleted meanwhile, and the new one is inserted but not committed.
\* The update waits for another one of the same row.
FlushRotation(s) ==
  /\ srv[s].op = "refresh" /\ srv[s].phase = "read"
  /\ \A t \in Slots : ~(srv[t].phase = "flushed" /\ srv[t].grant = srv[s].grant)
  /\ Proceed(s, IF grant[srv[s].grant].state = "gone" THEN "refused" ELSE "flushed")
  /\ UNCHANGED <<account, grant, phone>>

\* Broken variant: the token that was used is not revoked.
RotatedKeepingOld(old, new, p) ==
  [grant EXCEPT ![new] = Issued(new, p, grant[old].login)]

\* The old row is revoked; if it was deleted since the flush, it stays away.
Rotated(old, new, p) ==
  [grant EXCEPT ![old].state = IF @ = "gone" THEN @ ELSE "revoked",
                ![new] = Issued(new, p, grant[old].login)]

\* refresh_session commits and answers with the new tokens.
RotateGrant(s) ==
  /\ srv[s].op = "refresh" /\ srv[s].phase = "flushed" /\ CanIssue
  /\ grant' = Rotated(srv[s].grant, NewGrant, srv[s].who)
  /\ AnswerWith(s, NewGrant)
  /\ UNCHANGED <<account, phone>>

\* Any of these transactions may fail and be rolled back.
Abort(s) ==
  /\ srv[s].op # "idle" /\ srv[s].phase \in {"asked", "read", "flushed"}
  /\ Proceed(s, "refused")
  /\ UNCHANGED <<account, grant, phone>>

\* delete_account: the account is closed and its refresh tokens are deleted.
Closed(p) == [account EXCEPT ![p] = "deleted"]
WithoutGrantsOf(p) ==
  [g \in Grants |-> IF grant[g].owner = p THEN [grant[g] EXCEPT !.state = "gone"] ELSE grant[g]]

-----------------------------------------------------------------------------
(* The app: signing in and out *)

Awaited(op) == {s \in Slots : srv[s].op = op /\ srv[s].awaited}

\* The app no longer waits for slot s.
LetGo(s) == srv' = [srv EXCEPT ![s] = Kept(@, @.phase, FALSE)]

\* AuthContext.verifyOtp asks the server, whatever is still under way.
SignIn(s) ==
  /\ ui = None /\ Awaited("signin") = {} /\ srv[s] = NoTxn
  /\ srv' = [srv EXCEPT ![s] = [NoTxn EXCEPT !.op = "signin", !.awaited = TRUE]]
  /\ UNCHANGED <<account, grant, phone>>

\* An earlier session left something: tokens, a request, a refresh, or a write.
LeftOver ==
  \/ store # Nothing \/ renewal # NoRenewal \/ storing # {} \/ removals > 0
  \/ \E c \in Calls : call[c] # NoCall

\* The answer: its user is shown and the access token is in the header at once,
\* and both tokens are to be stored.
SignedIn(s) ==
  /\ s \in Awaited("signin") /\ srv[s].phase = "done"
  /\ header' = srv[s].who
  /\ ui' = srv[s].who
  /\ storing' = storing \cup {srv[s].grant}
  /\ overlap' = LeftOver
  /\ LetGo(s)
  /\ UNCHANGED <<account, grant, store, call, renewal, removals>>

\* They are stored, which nobody waited for.
StoreSignIn(g) ==
  /\ g \in storing
  /\ store' = [access |-> grant[g].owner, refresh |-> g]
  /\ storing' = storing \ {g}
  /\ UNCHANGED <<server, header, ui, call, renewal, removals, overlap>>

\* A refusal, or no answer in time.
SignInFails(s) ==
  /\ s \in Awaited("signin") /\ srv[s].phase # "done"
  /\ LetGo(s)
  /\ UNCHANGED <<account, grant, phone>>

\* clearLocalSession of AuthContext, or the end of a failed restore, n times in a
\* row: header and user go at once, each time the store is to be emptied, and an
\* app that is starting shows so until it is.
ClearedTimes(n) ==
  /\ header' = None
  /\ ui' = IF ui = "starting" THEN ui ELSE None
  /\ removals' = removals + n
ClearLocalSession == ClearedTimes(1)

\* The store is emptied; a restore that failed is over then.
ClearStore ==
  /\ removals > 0
  /\ store' = Nothing
  /\ removals' = removals - 1
  /\ ui' = IF ui = "starting" THEN None ELSE ui
  /\ UNCHANGED <<server, header, call, renewal, storing, overlap>>

\* The request of a logout that takes the phone off the push list may be rejected
\* and refreshed like any other (Send); what it returns does not matter.
Logout(c) ==
  /\ ui \in People /\ call[c] = NoCall
  /\ call' = [call EXCEPT ![c] = Closing]
  /\ UNCHANGED <<server, store, header, ui, renewal, pending, overlap>>

\* The end of a logout or a deletion: whoever is signed in by now no longer is.
EndSession(c) ==
  /\ call[c] = Closing
  /\ call' = [call EXCEPT ![c] = NoCall]
  /\ ClearLocalSession
  /\ UNCHANGED <<server, store, renewal, storing, overlap>>

\* The app is killed and started again: what was in memory is gone, requests
\* are no longer waited for, and a stored access token is tried with GET /auth/me.
Restart(c) ==
  /\ srv' = [s \in Slots |-> Kept(srv[s], srv[s].phase, FALSE)]
  /\ header' = store.access
  /\ ui' = IF store.access = None THEN None ELSE "starting"
  /\ call' = [d \in Calls |->
               IF d = c /\ store.access # None
                 THEN [NoCall EXCEPT !.kind = "me", !.token = store.access] ELSE NoCall]
  /\ renewal' = NoRenewal /\ storing' = {} /\ removals' = 0 /\ overlap' = FALSE
  /\ UNCHANGED <<account, grant, store>>

-----------------------------------------------------------------------------
(* The app: requests and the refresh they share *)

Send(c, kind) ==
  /\ ui \in People /\ call[c] = NoCall
  /\ call' = [call EXCEPT ![c] = [NoCall EXCEPT !.kind = kind, !.token = header]]
  /\ UNCHANGED <<server, store, header, ui, renewal, pending, overlap>>

InFlight(c) == call[c] \notin {NoCall, Closing} /\ ~call[c].waiting
LetsIn(t) == t # None /\ account[t] = "active"

\* get_current_user lets the request in, and the answer arrives.
Succeeds(c) ==
  /\ InFlight(c) /\ LetsIn(call[c].token)
  /\ call' = [call EXCEPT ![c] = IF @.kind = "delete" THEN Closing ELSE NoCall]
  /\ LET p == call[c].token IN
       /\ ui' = IF call[c].kind = "me" THEN p ELSE ui
       /\ IF call[c].kind = "delete" THEN account' = Closed(p) /\ grant' = WithoutGrantsOf(p)
                                     ELSE UNCHANGED <<account, grant>>
  /\ UNCHANGED <<srv, store, header, renewal, pending, overlap>>

\* The caller of a rejected request shows an error; AuthContext gives up the
\* session it was restoring.
Reject(c) ==
  /\ call' = [call EXCEPT ![c] = NoCall]
  /\ IF call[c].kind = "me" THEN ClearLocalSession ELSE UNCHANGED <<header, ui, removals>>
  /\ UNCHANGED <<store, storing>>

\* A 403, a second 401, or no answer: the request is rejected.  It may have
\* been served all the same.
Fails(c) ==
  /\ InFlight(c)
  /\ Reject(c)
  /\ \/ UNCHANGED <<account, grant>>
     \/ /\ call[c].kind = "delete" /\ LetsIn(call[c].token)
        /\ account' = Closed(call[c].token)
        /\ grant' = WithoutGrantsOf(call[c].token)
  /\ UNCHANGED <<srv, renewal, overlap>>

\* A first 401: the request waits for the refresh in progress, or starts one.
AwaitRefresh(c) ==
  /\ InFlight(c) /\ ~call[c].retried
  /\ call' = [call EXCEPT ![c].retried = TRUE, ![c].waiting = TRUE]
  /\ renewal' = IF renewal = NoRenewal THEN [NoRenewal EXCEPT !.phase = "reading"] ELSE renewal
  /\ UNCHANGED <<server, store, header, ui, pending, overlap>>

Waiting == {c \in Calls : call[c].waiting}

AllRejected == [c \in Calls |-> IF c \in Waiting THEN NoCall ELSE call[c]]

\* Broken variant: the expired session is dropped without telling AuthContext.
SettledSilently ==
  /\ call' = AllRejected /\ renewal' = NoRenewal
  /\ header' = None /\ UNCHANGED <<store, ui, pending, overlap>>

\* The refresh failed: every request that waited for it, and at least one did, is
\* rejected, for each of them authExpiredHandler clears the session, and a restore
\* among them is given up on top.
SettleFailed ==
  /\ call' = AllRejected /\ renewal' = NoRenewal
  /\ ClearedTimes(Cardinality(Waiting) + Cardinality({c \in Waiting : call[c].kind = "me"}))
  /\ UNCHANGED <<store, storing, overlap>>

\* Broken variant: only one of the requests that waited is sent again.
ResentOne(token) ==
  [c \in Calls |-> IF Waiting # {} /\ c = CHOOSE d \in Waiting : TRUE
                     THEN [call[c] EXCEPT !.token = token, !.waiting = FALSE] ELSE call[c]]

Resent(token) ==
  [c \in Calls |-> IF c \in Waiting
                     THEN [call[c] EXCEPT !.token = token, !.waiting = FALSE] ELSE call[c]]

\* Environment: with OneRefreshPerGrant no transaction is busy with the token.
MayPost(g) == OneRefreshPerGrant =>
  \A s \in Slots : ~(srv[s].op = "refresh" /\ srv[s].grant = g
                      /\ srv[s].phase \in {"asked", "read", "flushed"})

\* refreshAccessToken reads the stored refresh token and posts it.
PostRefresh(s) ==
  /\ renewal.phase = "reading" /\ store.refresh # None
  /\ srv[s] = NoTxn /\ MayPost(store.refresh)
  /\ srv' = [srv EXCEPT ![s] = [NoTxn EXCEPT !.op = "refresh", !.grant = store.refresh,
                                              !.who = grant[store.refresh].owner,
                                              !.awaited = TRUE]]
  /\ renewal' = [renewal EXCEPT !.phase = "posted"]
  /\ UNCHANGED <<account, grant, store, header, ui, call, pending, overlap>>

NothingToPost ==
  /\ renewal.phase = "reading" /\ store.refresh = None
  /\ SettleFailed
  /\ UNCHANGED server

\* The answer is stored first.
StoreTokens(s) ==
  /\ s \in Awaited("refresh") /\ srv[s].phase = "done"
  /\ store' = [access |-> srv[s].who, refresh |-> srv[s].grant]
  /\ renewal' = [phase |-> "stored", who |-> srv[s].who]
  /\ LetGo(s)
  /\ UNCHANGED <<account, grant, header, ui, call, pending, overlap>>

\* Then its access token goes into the header and to the requests that waited.
UseNewToken ==
  /\ renewal.phase = "stored"
  /\ header' = renewal.who
  /\ call' = Resent(renewal.who)
  /\ renewal' = NoRenewal
  /\ UNCHANGED <<server, store, ui, pending, overlap>>

\* A refusal, an error or a timeout: the app drops both tokens, whether or not
\* the server has rotated them.
RefreshFails(s) ==
  /\ s \in Awaited("refresh")
  /\ LetGo(s)
  /\ renewal' = [renewal EXCEPT !.phase = "dropping"]
  /\ UNCHANGED <<account, grant, store, header, ui, call, pending, overlap>>

\* It removes the stored ones first, whoever's they are by now.
DropTokens ==
  /\ renewal.phase = "dropping"
  /\ store' = Nothing
  /\ renewal' = [renewal EXCEPT !.phase = "dropped"]
  /\ UNCHANGED <<server, header, ui, call, pending, overlap>>

\* Then the header is emptied and the requests that waited hear of it.
GiveUp ==
  /\ renewal.phase = "dropped"
  /\ SettleFailed
  /\ UNCHANGED server

-----------------------------------------------------------------------------
(* The specification *)

Init ==
  /\ account = [p \in People |-> "none"]
  /\ grant = [g \in Grants |-> Unused]
  /\ srv = [s \in Slots |-> NoTxn]
  /\ store = Nothing
  /\ header = None
  /\ ui = None
  /\ call = [c \in Calls |-> NoCall]
  /\ renewal = NoRenewal
  /\ storing = {} /\ removals = 0 /\ overlap = FALSE

Serve(s) == (\E p \in People : VerifyOtp(s, p)) \/ BuildTokenResponse(s) \/ ReadGrant(s) \/ FlushRotation(s)
              \/ RotateGrant(s) \/ Abort(s)
Receive(s) == SignedIn(s) \/ SignInFails(s) \/ StoreTokens(s) \/ RefreshFails(s)
Renew == NothingToPost \/ UseNewToken \/ DropTokens \/ GiveUp
Post == \E s \in Slots : PostRefresh(s)
Write == ClearStore \/ \E g \in Grants : StoreSignIn(g)
Return(c) == Succeeds(c) \/ Fails(c) \/ AwaitRefresh(c) \/ EndSession(c)

Next ==
  \/ \E s \in Slots : Serve(s) \/ Receive(s) \/ SignIn(s)
  \/ \E c \in Calls : Return(c)
  \/ \E c \in Calls \ ProfileCalls : Send(c, "api") \/ Restart(c)
  \/ \E c \in ProfileCalls : Send(c, "delete") \/ Logout(c)
  \/ Renew \/ Post \/ Write

\* The server finishes what it began, each request is answered or times out,
\* and the app's own continuations run.  That the few slots of a model keep a
\* refresh from being sent for good is not a behaviour of the code.
Fairness ==
  /\ \A s \in Slots : WF_vars(Serve(s)) /\ WF_vars(Receive(s))
  /\ \A c \in Calls : WF_vars(Return(c))
  /\ WF_vars(Renew) /\ WF_vars(Write) /\ SF_vars(Post)

Spec == Init /\ [][Next]_vars /\ Fairness

-----------------------------------------------------------------------------
(* Properties *)

\* Rotation (refresh_session): as long as a token is not sent twice at the same
\* time, a login never has two tokens that can still be redeemed, whatever
\* answers are lost and however often the app is killed in between.
OneLiveGrantPerLogin ==
  \A g, h \in Grants :
    grant[g].state = "live" /\ grant[h].state = "live" /\ grant[g].login = grant[h].login
      => g = h

\* Whoever the app shows as signed in has an access token in the header; and if
\* nothing of an earlier session was left when the code was accepted, header,
\* requests in flight and stored tokens all speak for the user shown, and nothing
\* is stored only while the sign-in is being stored or a refresh that failed is
\* about to end the session (AuthContext, http.ts).  What an earlier session left
\* can break it: a late refresh or removal overwrites the new user's tokens.
ActsAsSignedIn ==
  ui \in People =>
    /\ header # None
    /\ ~overlap =>
         /\ header = ui
         /\ \A c \in Calls : call[c].token # None => call[c].token = ui
         /\ IF store = Nothing THEN storing # {} \/ renewal.phase = "dropped"
            ELSE store.access = ui /\ grant[store.refresh].owner = ui

\* Every request that waits for the shared refresh is sent again or rejected,
\* those included that joined while its answer was on the way or lost (http.ts).
WaitersReleased == \A c \in Calls : call[c].waiting ~> ~call[c].waiting

=============================================================================
