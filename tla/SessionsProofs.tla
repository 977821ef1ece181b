---------------------------- MODULE SessionsProofs ----------------------------
(***************************************************************************)
(* The sessions of the customers' app, for any number of people, tokens,   *)
(* requests and database sessions.                                         *)
(***************************************************************************)
EXTENDS Sessions, FiniteSetTheorems, TLAPS

-----------------------------------------------------------------------------
(* The inductive invariant: the backend *)

\* A token that was issued belongs to somebody, and to an issued login.
GrantFacts ==
  /\ \A g \in Grants : grant[g].state = "unused" => grant[g] = Unused
  /\ \A g \in Grants : grant[g].state # "unused" =>
       /\ grant[g].owner \in People /\ grant[g].login \in Grants
       /\ grant[grant[g].login].state # "unused"

\* A transaction that has a token works for the owner of that token.
TxnOK(t) ==
  /\ t \in Txn
  /\ t.phase \in {"read", "flushed", "done"} => t.who # None
  /\ t.op = "refresh" \/ (t.op = "signin" /\ t.phase = "done") =>
       /\ t.grant \in Grants /\ grant[t.grant].state # "unused"
       /\ t.who = grant[t.grant].owner

Busy(t) == t.op = "refresh" /\ t.phase \in {"asked", "read", "flushed"}
HasRead(t) == t.op = "refresh" /\ t.phase \in {"read", "flushed"}

\* A refresh that has read its token is the only one of that login, and the
\* login has no other token that can be redeemed.
RotationFacts ==
  /\ \A s, t \in Slots : s # t /\ Busy(srv[s]) /\ Busy(srv[t]) => srv[s].grant # srv[t].grant
  /\ \A s, t \in Slots : s # t /\ HasRead(srv[s]) /\ HasRead(srv[t]) =>
       grant[srv[s].grant].login # grant[srv[t].grant].login
  /\ \A s \in Slots, h \in Grants :
       HasRead(srv[s]) /\ grant[h].state = "live" /\ grant[h].login = grant[srv[s].grant].login
         => h = srv[s].grant
  /\ OneLiveGrantPerLogin

ServerInv ==
  /\ account \in [People -> {"none", "active", "deleted"}]
  /\ grant \in [Grants -> Grant]
  /\ srv = [slot \in Slots |-> srv[slot]]
  /\ \A s \in Slots : TxnOK(srv[s])
  /\ GrantFacts
  /\ OneRefreshPerGrant => RotationFacts

-----------------------------------------------------------------------------
(* The inductive invariant: the phone *)

PhoneTypeOK ==
  /\ store \in [access : Access \cup {None}, refresh : Grants \cup {None}]
  /\ header \in Access \cup {None}
  /\ ui \in People \cup {"starting", None}
  /\ call \in [Calls -> Call]
  /\ renewal \in Renewal /\ (renewal.phase = "stored" => renewal.who \in People)
  /\ storing \subseteq Grants /\ removals \in Nat /\ overlap \in BOOLEAN

\* The stored tokens are of one person, and the ones to be stored of somebody.
StoreFacts ==
  /\ store.access = None <=> store.refresh = None
  /\ store.refresh # None => /\ grant[store.refresh].state # "unused"
                             /\ store.access = grant[store.refresh].owner
  /\ \A g \in storing : grant[g].state # "unused"

\* Somebody is shown, or a session is being restored, and nothing was left of an
\* earlier one.
Shown == ui # None /\ ~overlap /\ header # None

\* Then everything the phone holds and waits for is of one person, and no removal
\* is still to come.
Presence ==
  /\ ui \in People => header # None
  /\ Shown =>
       /\ ui \in People => header = ui
       /\ \A c \in Calls : call[c].token # None => call[c].token = header
       /\ renewal.phase = "stored" => renewal.who = header
       /\ \A s \in Awaited("refresh") : srv[s].who = header
       /\ \A g \in storing : grant[g].owner = header
       /\ IF store.access = None THEN storing # {} \/ renewal.phase = "dropped"
          ELSE store.access = header
       /\ removals = 0

\* One refresh and one sign-in are waited for at a time, and a refresh by somebody.
WaitFacts ==
  /\ \A s \in Awaited("refresh") : renewal.phase = "posted" /\ Awaited("refresh") = {s}
  /\ \A s \in Awaited("signin") : ui = None /\ Awaited("signin") = {s}
  /\ renewal # NoRenewal => \E c \in Calls : call[c].waiting

\* A session is restored by one request and nothing else is under way.
RestoreFacts ==
  /\ \A c \in Calls : call[c].kind = "me" => ui = "starting"
  /\ ui = "starting" =>
       /\ ~overlap
       /\ \A c \in Calls : call[c] # NoCall =>
            call[c].kind = "me" /\ header # None /\ (renewal # NoRenewal => call[c].waiting)
       /\ \A c, d \in Calls : call[c] # NoCall /\ call[d] # NoCall => c = d

PhoneInv == PhoneTypeOK /\ StoreFacts /\ Presence /\ WaitFacts /\ RestoreFacts

Inv == ServerInv /\ PhoneInv

-----------------------------------------------------------------------------
(* What steps share *)

LEMMA NoTxnFacts ==
  /\ NoTxn.op = "idle" /\ NoTxn.awaited = FALSE /\ TxnOK(NoTxn)
  /\ ~Busy(NoTxn) /\ ~HasRead(NoTxn)
  BY DEF NoTxn, TxnOK, Txn, Busy, HasRead

\* What remains of a transaction.
LEMMA KeptFacts ==
  ASSUME NEW t \in Txn, NEW phase \in {"asked", "read", "flushed", "done", "refused"},
         NEW awaited \in BOOLEAN
  PROVE  \/ ~awaited /\ phase \in {"done", "refused"} /\ Kept(t, phase, awaited) = NoTxn
         \/ /\ Kept(t, phase, awaited) \in Txn
            /\ Kept(t, phase, awaited).op = t.op /\ Kept(t, phase, awaited).phase = phase
            /\ Kept(t, phase, awaited).who = t.who /\ Kept(t, phase, awaited).grant = t.grant
            /\ Kept(t, phase, awaited).awaited = awaited
  BY DEF Kept, Txn

\* Tokens that were issued stay what they are, but for their state.
GrantsKept ==
  \A g \in Grants : grant[g].state # "unused" =>
    /\ grant'[g].state # "unused" /\ grant'[g].owner = grant[g].owner
    /\ grant'[g].login = grant[g].login

\* A transaction goes on as it was, is over, or is let go of.
LetGoOf(new, old) ==
  \/ new = old
  \/ new = NoTxn
  \/ /\ new \in Txn /\ new.op = old.op /\ new.phase = old.phase /\ new.who = old.who
     /\ new.grant = old.grant /\ new.awaited = FALSE

LEMMA LetGoFacts ==
  ASSUME NEW t \in Txn
  PROVE  LetGoOf(Kept(t, t.phase, FALSE), t)
<1>1. t.phase \in {"asked", "read", "flushed", "done", "refused"}
  BY DEF Txn
<1>2. QED  BY <1>1, KeptFacts DEF LetGoOf

\* Letting go of transactions is nothing to the backend.
LEMMA ServerLetGo ==
  ASSUME ServerInv, srv' = [slot \in Slots |-> srv'[slot]], \A s \in Slots : LetGoOf(srv'[s], srv[s]),
         UNCHANGED <<account, grant>>
  PROVE  ServerInv'
<1>1. ASSUME NEW s \in Slots
      PROVE  /\ TxnOK(srv'[s])
             /\ Busy(srv'[s]) => Busy(srv[s]) /\ srv'[s].grant = srv[s].grant
             /\ HasRead(srv'[s]) => HasRead(srv[s]) /\ srv'[s].grant = srv[s].grant
  <2>1. TxnOK(srv[s]) /\ LetGoOf(srv'[s], srv[s])
    BY DEF ServerInv
  <2>2. QED  BY <2>1, NoTxnFacts DEF LetGoOf, TxnOK, Busy, HasRead
<1>2. \A s \in Slots : TxnOK(srv[s])'
  BY <1>1 DEF TxnOK
<1>3. RotationFacts => RotationFacts'
  BY <1>1 DEF RotationFacts, OneLiveGrantPerLogin, Busy, HasRead
<1>4. QED  BY <1>2, <1>3 DEF ServerInv, GrantFacts

\* Tokens may be deleted.
LEMMA ServerGrantsEnd ==
  ASSUME ServerInv, grant' \in [Grants -> Grant], UNCHANGED srv,
         account' \in [People -> {"none", "active", "deleted"}],
         \A g \in Grants :
           \/ grant'[g] = grant[g]
           \/ /\ grant[g].state # "unused" /\ grant'[g].state = "gone"
              /\ grant'[g].owner = grant[g].owner /\ grant'[g].login = grant[g].login
  PROVE  ServerInv' /\ GrantsKept
<1>1. GrantsKept
  BY DEF GrantsKept
<1>2. GrantFacts'
  BY DEF ServerInv, GrantFacts
<1>3. \A s \in Slots : TxnOK(srv[s])'
  BY <1>1 DEF ServerInv, TxnOK, GrantsKept
<1>4. \A g \in Grants : grant'[g].state = "live" => grant[g] = grant'[g]
  OBVIOUS
<1>5. ASSUME RotationFacts PROVE RotationFacts'
  <2>1. \A s \in Slots : HasRead(srv[s]) =>
          srv[s].grant \in Grants /\ grant'[srv[s].grant].login = grant[srv[s].grant].login
    BY <1>1 DEF ServerInv, TxnOK, HasRead, GrantsKept
  <2>2. QED  BY <1>4, <1>5, <2>1 DEF RotationFacts, OneLiveGrantPerLogin, Busy, HasRead
<1>6. QED  BY <1>1, <1>2, <1>3, <1>5 DEF ServerInv

\* The phone does not notice what the backend does for it.
LEMMA PhoneKept ==
  ASSUME Inv, UNCHANGED phone, GrantsKept, srv' = [slot \in Slots |-> srv'[slot]],
         \A s \in Slots : srv'[s].awaited =>
           /\ srv[s].awaited /\ srv'[s].op = srv[s].op
           /\ srv[s].op = "refresh" => srv'[s].who = srv[s].who
  PROVE  PhoneInv'
<1>1. \A op : Awaited(op)' \subseteq Awaited(op)
  BY DEF Awaited
<1>2. \A s \in Awaited("refresh")' : srv'[s].who = srv[s].who
  BY DEF Awaited
<1>3. Presence'
  BY <1>1, <1>2 DEF Inv, PhoneInv, PhoneTypeOK, StoreFacts, GrantsKept, Presence, Shown, phone, pending
<1>4. StoreFacts'
  BY DEF Inv, PhoneInv, PhoneTypeOK, StoreFacts, GrantsKept, phone, pending
<1>5. WaitFacts'
  BY <1>1 DEF Inv, PhoneInv, WaitFacts, phone
<1>6. QED  BY <1>3, <1>4, <1>5 DEF Inv, PhoneInv, PhoneTypeOK, RestoreFacts, phone, pending

-----------------------------------------------------------------------------
(* The steps of the backend *)

\* The next primary key is one that is not used yet.
LEMMA NewGrantFacts ==
  ASSUME CanIssue
  PROVE  NewGrant \in Grants /\ grant[NewGrant].state = "unused"
  BY DEF CanIssue, NewGrant

\* A step after which no transaction is further in a rotation than before.
LEMMA ServerQuiet ==
  ASSUME ServerInv, srv' = [slot \in Slots |-> srv'[slot]], UNCHANGED grant,
         account' \in [People -> {"none", "active", "deleted"}],
         \A s \in Slots :
           /\ TxnOK(srv[s])'
           /\ Busy(srv'[s]) => Busy(srv[s]) /\ srv'[s].grant = srv[s].grant
           /\ HasRead(srv'[s]) => HasRead(srv[s]) /\ srv'[s].grant = srv[s].grant
  PROVE  ServerInv' /\ GrantsKept
<1>1. RotationFacts => RotationFacts'
  BY DEF RotationFacts, OneLiveGrantPerLogin, Busy, HasRead
<1>2. QED  BY <1>1 DEF ServerInv, GrantFacts, GrantsKept

\* The transaction of one slot changes its phase or is over.
LEMMA ProceedFacts ==
  ASSUME ServerInv, NEW s \in Slots,
         NEW phase \in {"asked", "read", "flushed", "done", "refused"}, Proceed(s, phase)
  PROVE  /\ srv' = [slot \in Slots |-> srv'[slot]] /\ \A t \in Slots \ {s} : srv'[t] = srv[t]
         /\ \/ srv'[s] = NoTxn
            \/ /\ srv'[s] \in Txn
               /\ srv'[s].op = srv[s].op /\ srv'[s].phase = phase
               /\ srv'[s].who = srv[s].who /\ srv'[s].grant = srv[s].grant
               /\ srv'[s].awaited = srv[s].awaited
<1>1. srv[s] \in Txn /\ srv[s].awaited \in BOOLEAN
  BY DEF ServerInv, TxnOK, Txn
<1>2. srv' = [srv EXCEPT ![s] = Kept(srv[s], phase, srv[s].awaited)]
  BY DEF Proceed
<1>3. srv'[s] = Kept(srv[s], phase, srv[s].awaited)
  BY <1>2 DEF ServerInv
<1>4. srv' = [slot \in Slots |-> srv'[slot]] /\ \A t \in Slots \ {s} : srv'[t] = srv[t]
  BY <1>2 DEF ServerInv
<1> DEFINE k == Kept(srv[s], phase, srv[s].awaited)
<1>5. \/ k = NoTxn
      \/ /\ k \in Txn /\ k.op = srv[s].op /\ k.phase = phase /\ k.who = srv[s].who
         /\ k.grant = srv[s].grant /\ k.awaited = srv[s].awaited
  BY <1>1 DEF Kept, Txn
<1>6. QED  BY <1>3, <1>4, <1>5

\* A transaction that goes on without reading a token, or gives up.
LEMMA ServerProceeds ==
  ASSUME ServerInv, NEW s \in Slots, NEW phase \in {"flushed", "refused"}, Proceed(s, phase),
         UNCHANGED <<account, grant>>,
         phase = "flushed" => HasRead(srv[s])
  PROVE  ServerInv' /\ GrantsKept
<1> DEFINE T(t) == /\ TxnOK(srv[t])'
                   /\ Busy(srv'[t]) => Busy(srv[t]) /\ srv'[t].grant = srv[t].grant
                   /\ HasRead(srv'[t]) => HasRead(srv[t]) /\ srv'[t].grant = srv[t].grant
<1>1. TxnOK(srv[s])
  BY DEF ServerInv
<1>2. \A t \in Slots \ {s} : T(t)
  BY ProceedFacts DEF ServerInv, TxnOK
<1>3. CASE srv'[s] = NoTxn
  <2>1. T(s)
    BY <1>3, NoTxnFacts DEF TxnOK
  <2>2. \A t \in Slots : T(t)
    BY <1>2, <2>1
  <2>3. QED  BY <2>2, ProceedFacts, ServerQuiet DEF ServerInv
<1>4. CASE srv'[s] # NoTxn
  <2>1. /\ srv'[s] \in Txn /\ srv'[s].op = srv[s].op /\ srv'[s].phase = phase
        /\ srv'[s].who = srv[s].who /\ srv'[s].grant = srv[s].grant
    BY <1>4, ProceedFacts
  <2>2. T(s)
    BY <1>1, <2>1 DEF TxnOK, Busy, HasRead
  <2>3. \A t \in Slots : T(t)
    BY <1>2, <2>2
  <2>4. QED  BY <2>3, ProceedFacts, ServerQuiet DEF ServerInv
<1>5. QED  BY <1>3, <1>4

\* To the phone, such a step is none.
LEMMA PhoneProceeds ==
  ASSUME Inv, NEW s \in Slots,
         NEW phase \in {"asked", "read", "flushed", "done", "refused"}, Proceed(s, phase),
         UNCHANGED phone, GrantsKept
  PROVE  PhoneInv'
<1>1. \A t \in Slots : srv'[t].awaited =>
           /\ srv[t].awaited /\ srv'[t].op = srv[t].op
           /\ srv[t].op = "refresh" => srv'[t].who = srv[t].who
  BY ProceedFacts, NoTxnFacts DEF Inv
<1>2. QED  BY <1>1, ProceedFacts, PhoneKept DEF Inv

LEMMA AbortStep == ASSUME Inv, NEW s \in Slots, Abort(s) PROVE Inv'
<1>1. ServerInv' /\ GrantsKept
  BY ServerProceeds DEF Inv, Abort
<1>2. QED  BY <1>1, PhoneProceeds DEF Inv, Abort

LEMMA FlushRotationStep == ASSUME Inv, NEW s \in Slots, FlushRotation(s) PROVE Inv'
<1>1. HasRead(srv[s])
  BY DEF FlushRotation, HasRead
<1>2. PICK phase \in {"flushed", "refused"} : Proceed(s, phase)
  BY DEF FlushRotation
<1>3. ServerInv' /\ GrantsKept
  BY <1>1, <1>2, ServerProceeds DEF Inv, FlushRotation
<1>4. QED  BY <1>2, <1>3, PhoneProceeds DEF Inv, FlushRotation

\* Reading a token that can be redeemed makes its transaction the only one of
\* the login.
LEMMA ReadGrantStep == ASSUME Inv, NEW s \in Slots, ReadGrant(s) PROVE Inv'
<1>1. PICK phase \in {"read", "refused"} :
        Proceed(s, phase) /\ (phase = "read" => grant[srv[s].grant].state = "live")
  BY DEF ReadGrant, Redeemable
<1>2. CASE phase = "refused"
  <2>1. ServerInv' /\ GrantsKept
    BY <1>1, <1>2, ServerProceeds DEF Inv, ReadGrant
  <2>2. QED  BY <1>1, <2>1, PhoneProceeds DEF Inv, ReadGrant
<1>3. CASE phase = "read"
  <2> DEFINE g == srv[s].grant
  <2>1. /\ TxnOK(srv[s]) /\ Busy(srv[s]) /\ g \in Grants /\ grant[g].state = "live"
        /\ srv[s].who \in People
    BY <1>1, <1>3 DEF Inv, ServerInv, TxnOK, Busy, ReadGrant, GrantFacts
  <2>2. /\ srv' = [slot \in Slots |-> srv'[slot]] /\ \A t \in Slots \ {s} : srv'[t] = srv[t]
        /\ UNCHANGED <<account, grant>>
    BY <1>1, ProceedFacts DEF Inv, ReadGrant
  <2>3. /\ srv'[s] \in Txn /\ srv'[s].op = "refresh" /\ srv'[s].phase = "read"
        /\ srv'[s].who = srv[s].who /\ srv'[s].grant = g
    <3>1. srv'[s] # NoTxn
      <4>1. srv'[s] = Kept(srv[s], "read", srv[s].awaited)
        BY <1>1, <1>3 DEF Proceed, Inv, ServerInv
      <4>2. srv'[s].phase = "read"
        BY <2>1, <4>1 DEF Kept, TxnOK, Txn
      <4>3. QED  BY <4>2 DEF NoTxn
    <3>2. QED  BY <1>1, <1>3, <3>1, ProceedFacts DEF Inv, ReadGrant
  <2>4. \A t \in Slots : TxnOK(srv[t])'
    <3>1. TxnOK(srv[s])'
      <4>1. srv[s].who # None /\ srv[s].who = grant[g].owner /\ grant[g].state # "unused"
        BY <2>1, SessionConstants DEF TxnOK, SessionConstants, Busy
      <4>2. QED  BY <2>1, <2>2, <2>3, <4>1 DEF TxnOK
    <3>2. \A t \in Slots \ {s} : TxnOK(srv[t])'
      BY <2>2 DEF Inv, ServerInv, TxnOK
    <3>3. QED  BY <3>1, <3>2
  <2>5. ASSUME RotationFacts PROVE RotationFacts'
    <3>1. \A h \in Grants : grant[h].state = "live" /\ grant[h].login = grant[g].login => h = g
      BY <2>1, <2>5 DEF RotationFacts, OneLiveGrantPerLogin
    <3>2. \A t \in Slots \ {s} : HasRead(srv[t]) => grant[srv[t].grant].login # grant[g].login
      <4> SUFFICES ASSUME NEW t \in Slots \ {s}, HasRead(srv[t]),
                          grant[srv[t].grant].login = grant[g].login
                   PROVE  FALSE
        OBVIOUS
      <4>1. g = srv[t].grant
        BY <2>1, <2>5 DEF RotationFacts
      <4>2. QED  BY <2>1, <2>5, <4>1 DEF RotationFacts, Busy, HasRead
    <3>3. \A t \in Slots : HasRead(srv'[t]) => t = s \/ HasRead(srv[t])
      BY <2>2
    <3>4. \A t \in Slots : /\ srv'[t].grant = srv[t].grant
                           /\ Busy(srv'[t]) <=> Busy(srv[t])
      BY <2>1, <2>2, <2>3 DEF Busy
    <3>5. QED  BY <2>2, <2>5, <3>1, <3>2, <3>3, <3>4 DEF RotationFacts, OneLiveGrantPerLogin, Busy, HasRead
  <2>6. ServerInv' /\ GrantsKept
    BY <2>2, <2>4, <2>5 DEF Inv, ServerInv, GrantFacts, GrantsKept
  <2>7. QED  BY <1>1, <2>6, PhoneProceeds DEF Inv, ReadGrant
<1>4. QED  BY <1>2, <1>3

\* A code was accepted: the sign-in now works for its user.
LEMMA VerifyOtpStep ==
  ASSUME Inv, NEW s \in Slots, NEW p \in People, VerifyOtp(s, p) PROVE Inv'
<1>1. /\ srv' = [slot \in Slots |-> srv'[slot]] /\ \A t \in Slots \ {s} : srv'[t] = srv[t]
      /\ srv'[s] = [srv[s] EXCEPT !.phase = "read", !.who = p]
      /\ srv[s] \in Txn /\ srv[s].op = "signin"
  BY DEF VerifyOtp, Inv, ServerInv, TxnOK
<1>2. /\ srv'[s] \in Txn /\ srv'[s].op = "signin" /\ srv'[s].phase = "read"
      /\ srv'[s].who = p /\ srv'[s].awaited = srv[s].awaited
  BY <1>1 DEF Txn
<1>3. account' \in [People -> {"none", "active", "deleted"}] /\ UNCHANGED <<grant, phone>>
  BY DEF VerifyOtp, Inv, ServerInv
<1>4. TxnOK(srv[s])' /\ ~Busy(srv'[s]) /\ ~HasRead(srv'[s])
  BY <1>2, SessionConstants DEF TxnOK, Busy, HasRead, SessionConstants
<1>5. ASSUME NEW t \in Slots
      PROVE  /\ TxnOK(srv[t])'
             /\ Busy(srv'[t]) => Busy(srv[t]) /\ srv'[t].grant = srv[t].grant
             /\ HasRead(srv'[t]) => HasRead(srv[t]) /\ srv'[t].grant = srv[t].grant
  <2>1. CASE t = s
    BY <1>4, <2>1
  <2>2. CASE t # s
    BY <1>1, <1>3, <2>2 DEF Inv, ServerInv, TxnOK
  <2>3. QED  BY <2>1, <2>2
<1>6. ServerInv' /\ GrantsKept
  BY <1>1, <1>3, <1>5, ServerQuiet DEF Inv
<1>7. ASSUME NEW t \in Slots, srv'[t].awaited
      PROVE  /\ srv[t].awaited /\ srv'[t].op = srv[t].op
             /\ srv[t].op = "refresh" => srv'[t].who = srv[t].who
  BY <1>1, <1>2, <1>7
<1>8. QED  BY <1>1, <1>3, <1>6, <1>7, PhoneKept DEF Inv

\* A token is issued and answered with; another one may have been revoked.
LEMMA Issues ==
  ASSUME Inv, NEW s \in Slots, CanIssue, AnswerWith(s, NewGrant),
         srv[s].op # "idle", srv[s].who \in People,
         UNCHANGED <<account, phone>>,
         grant' \in [Grants -> Grant], NEW login \in Grants,
         login = NewGrant \/ grant[login].state # "unused",
         grant'[NewGrant] = Issued(NewGrant, srv[s].who, login),
         \A h \in Grants \ {NewGrant} :
           \/ grant'[h] = grant[h]
           \/ /\ grant[h].state # "unused" /\ grant'[h] = [grant[h] EXCEPT !.state = "revoked"],
         OneRefreshPerGrant =>
           \A h \in Grants : grant'[h].state = "live" /\ grant'[h].login = login => h = NewGrant,
         OneRefreshPerGrant =>
           \A t \in Slots \ {s} : HasRead(srv[t]) => grant[srv[t].grant].login # login
  PROVE  Inv'
<1> DEFINE g == NewGrant
<1>1. g \in Grants /\ grant[g].state = "unused"
  BY NewGrantFacts
<1>2. srv' = [srv EXCEPT ![s] = Kept([srv[s] EXCEPT !.grant = g], "done", srv[s].awaited)]
  BY DEF AnswerWith
<1>3. TxnOK(srv[s]) /\ srv[s] \in Txn /\ srv[s].awaited \in BOOLEAN
  BY DEF Inv, ServerInv, TxnOK, Txn
<1>4. /\ srv' = [slot \in Slots |-> srv'[slot]] /\ \A t \in Slots \ {s} : srv'[t] = srv[t]
      /\ srv'[s] = Kept([srv[s] EXCEPT !.grant = g], "done", srv[s].awaited)
  BY <1>2 DEF Inv, ServerInv
<1>5. \/ srv'[s] = NoTxn
      \/ /\ srv'[s] \in Txn /\ srv'[s].op = srv[s].op /\ srv'[s].phase = "done"
         /\ srv'[s].who = srv[s].who /\ srv'[s].grant = g /\ srv'[s].awaited = srv[s].awaited
  <2> DEFINE x == [srv[s] EXCEPT !.grant = g]
  <2>1. /\ x \in Txn /\ x.op = srv[s].op /\ x.who = srv[s].who /\ x.grant = g
    BY <1>1, <1>3 DEF Txn
  <2> HIDE DEF x
  <2>2. \/ Kept(x, "done", srv[s].awaited) = NoTxn
        \/ Kept(x, "done", srv[s].awaited) = [x EXCEPT !.phase = "done", !.awaited = srv[s].awaited]
    BY DEF Kept
  <2>3. srv'[s] = Kept(x, "done", srv[s].awaited)
    BY <1>4 DEF x
  <2>4. CASE srv'[s] = [x EXCEPT !.phase = "done", !.awaited = srv[s].awaited]
    <3>1. /\ srv'[s] \in Txn /\ srv'[s].op = x.op /\ srv'[s].phase = "done"
          /\ srv'[s].who = x.who /\ srv'[s].grant = x.grant /\ srv'[s].awaited = srv[s].awaited
      BY <1>3, <2>1, <2>4 DEF Txn
    <3>2. QED  BY <2>1, <3>1
  <2>5. QED  BY <2>2, <2>3, <2>4
<1> DEFINE n == grant'[g]
<1>6. n \in Grant /\ n.state = "live" /\ n.owner = srv[s].who /\ n.login = login
  BY <1>1 DEF Issued, Grant
<1>7. \A h \in Grants \ {g} :
        /\ grant'[h] \in Grant /\ grant'[h].owner = grant[h].owner
        /\ grant'[h].login = grant[h].login
        /\ grant'[h].state = "live" => grant[h].state = "live"
        /\ grant'[h].state = "unused" => grant[h] = grant'[h]
        /\ grant[h].state = "unused" => grant[h] = grant'[h]
  BY DEF Inv, ServerInv, Grant
<1>8. GrantsKept
  BY <1>1, <1>7 DEF GrantsKept
<1>9. grant' \in [Grants -> Grant]
  OBVIOUS
<1>10. GrantFacts'
  <2>1. grant'[login].state # "unused"
    BY <1>1, <1>6, <1>7
  <2>2. \A h \in Grants : grant[h].state # "unused" =>
           /\ grant[h].owner \in People /\ grant[h].login \in Grants
           /\ grant'[h].state # "unused" /\ grant'[grant[h].login].state # "unused"
    BY <1>8 DEF Inv, ServerInv, GrantFacts, GrantsKept
  <2>3. \A h \in Grants \ {g} : grant'[h].state # "unused" => grant[h].state # "unused"
    BY <1>7
  <2>4. \A h \in Grants : grant'[h].state = "unused" => grant'[h] = Unused
    BY <1>6, <1>7 DEF Inv, ServerInv, GrantFacts
  <2>5. QED  BY <1>6, <1>7, <2>1, <2>2, <2>3, <2>4 DEF GrantFacts
<1>11. TxnOK(srv[s])' /\ ~Busy(srv'[s]) /\ ~HasRead(srv'[s])
  <2>1. CASE srv'[s] = NoTxn
    BY <2>1, NoTxnFacts DEF TxnOK
  <2>2. CASE srv'[s] # NoTxn
    BY <1>1, <1>5, <1>6, <2>2, SessionConstants DEF TxnOK, Busy, HasRead, SessionConstants
  <2>3. QED  BY <2>1, <2>2
<1>12. \A t \in Slots \ {s} : TxnOK(srv[t])'
  BY <1>4, <1>8 DEF Inv, ServerInv, TxnOK, GrantsKept
<1>13. ASSUME OneRefreshPerGrant PROVE RotationFacts'
  <2>1. RotationFacts
    BY <1>13 DEF Inv, ServerInv
  <2>2. \A t \in Slots : /\ Busy(srv'[t]) => t # s /\ Busy(srv[t])
                         /\ HasRead(srv'[t]) => t # s /\ HasRead(srv[t])
                         /\ t # s => srv'[t].grant = srv[t].grant
    BY <1>4, <1>11
  <2>3. \A t \in Slots : HasRead(srv[t]) =>
          srv[t].grant \in Grants \ {g} /\ grant'[srv[t].grant].login = grant[srv[t].grant].login
    BY <1>1, <1>8 DEF Inv, ServerInv, TxnOK, HasRead, GrantsKept
  <2>4. \A h, k \in Grants :
          grant'[h].state = "live" /\ grant'[k].state = "live" /\ grant'[h].login = grant'[k].login
            => h = k
    <3> SUFFICES ASSUME NEW h \in Grants, NEW k \in Grants, grant'[h].state = "live",
                        grant'[k].state = "live", grant'[h].login = grant'[k].login
                 PROVE  h = k
      OBVIOUS
    <3>1. CASE h = g \/ k = g
      BY <1>6, <1>13, <3>1
    <3>2. CASE h # g /\ k # g
      BY <1>7, <2>1, <3>2 DEF RotationFacts, OneLiveGrantPerLogin
    <3>3. QED  BY <3>1, <3>2
  <2>5. ASSUME NEW t \in Slots, NEW h \in Grants, HasRead(srv'[t]), grant'[h].state = "live",
               grant'[h].login = grant'[srv'[t].grant].login
        PROVE  h = srv'[t].grant
    <3>1. h # g
      BY <1>6, <1>13, <2>2, <2>3, <2>5
    <3>2. QED  BY <1>7, <2>1, <2>2, <2>3, <2>5, <3>1 DEF RotationFacts
  <2>6. \A r, t \in Slots : r # t /\ HasRead(srv'[r]) /\ HasRead(srv'[t]) =>
           grant'[srv'[r].grant].login # grant'[srv'[t].grant].login
    BY <2>1, <2>2, <2>3 DEF RotationFacts
  <2>7. \A r, t \in Slots : r # t /\ Busy(srv'[r]) /\ Busy(srv'[t]) => srv'[r].grant # srv'[t].grant
    BY <2>1, <2>2 DEF RotationFacts
  <2>8. QED  BY <2>4, <2>5, <2>6, <2>7 DEF RotationFacts, OneLiveGrantPerLogin, Busy, HasRead
<1>14. ServerInv'
  BY <1>4, <1>9, <1>10, <1>11, <1>12, <1>13 DEF Inv, ServerInv
<1>15. ASSUME NEW t \in Slots, srv'[t].awaited
       PROVE  /\ srv[t].awaited /\ srv'[t].op = srv[t].op
              /\ srv[t].op = "refresh" => srv'[t].who = srv[t].who
  BY <1>4, <1>5, <1>15, NoTxnFacts
<1>16. PhoneInv'
  BY <1>4, <1>8, <1>15, PhoneKept
<1>17. QED  BY <1>14, <1>16 DEF Inv

\* A sign-in starts a login.
LEMMA BuildTokenResponseStep ==
  ASSUME Inv, NEW s \in Slots, BuildTokenResponse(s) PROVE Inv'
<1> DEFINE g == NewGrant
<1>1. /\ g \in Grants /\ grant[g].state = "unused"
      /\ grant' = [grant EXCEPT ![g] = Issued(g, srv[s].who, g)]
      /\ CanIssue /\ AnswerWith(s, NewGrant) /\ UNCHANGED <<account, phone>>
      /\ srv[s].op = "signin" /\ srv[s].phase = "read"
  BY NewGrantFacts DEF BuildTokenResponse
<1>2. srv[s].who \in People
  BY <1>1 DEF Inv, ServerInv, TxnOK, Txn
<1>3. /\ DOMAIN grant' = Grants /\ grant'[g] = Issued(g, srv[s].who, g)
      /\ \A h \in Grants \ {g} : grant'[h] = grant[h]
  BY <1>1 DEF Inv, ServerInv
<1>4. \A h \in Grants : grant[h].state # "unused" => grant[h].login # g
  BY <1>1 DEF Inv, ServerInv, GrantFacts
<1>5. \A h \in Grants : grant'[h].state = "live" /\ grant'[h].login = g => h = g
  BY <1>3, <1>4
<1>6. \A t \in Slots \ {s} : HasRead(srv[t]) => grant[srv[t].grant].login # g
  BY <1>4 DEF Inv, ServerInv, TxnOK, HasRead
<1>7. grant' \in [Grants -> Grant]
  <2>1. Issued(g, srv[s].who, g) \in Grant
    BY <1>1, <1>2 DEF Issued, Grant
  <2>2. QED  BY <1>1, <2>1 DEF Inv, ServerInv
<1>8. QED  BY <1>1, <1>2, <1>3, <1>5, <1>6, <1>7, Issues

\* A rotation replaces the token of its login.
LEMMA RotateGrantStep == ASSUME Inv, NEW s \in Slots, RotateGrant(s) PROVE Inv'
<1> DEFINE g == NewGrant
           old == srv[s].grant
<1>1. /\ g \in Grants /\ grant[g].state = "unused"
      /\ grant' = Rotated(old, g, srv[s].who)
      /\ CanIssue /\ AnswerWith(s, NewGrant) /\ UNCHANGED <<account, phone>>
      /\ srv[s].op = "refresh" /\ srv[s].phase = "flushed"
  BY NewGrantFacts DEF RotateGrant
<1>2. /\ old \in Grants /\ grant[old].state # "unused" /\ srv[s].who \in People
      /\ grant[old].login \in Grants /\ grant[grant[old].login].state # "unused"
  BY <1>1 DEF Inv, ServerInv, TxnOK, GrantFacts
<1>3. old # g /\ HasRead(srv[s])
  BY <1>1, <1>2 DEF HasRead
<1>4. /\ DOMAIN grant' = Grants /\ grant'[g] = Issued(g, srv[s].who, grant[old].login)
      /\ \A h \in Grants \ {g, old} : grant'[h] = grant[h]
      /\ grant'[old] = [grant[old] EXCEPT !.state = IF grant[old].state = "gone" THEN "gone" ELSE "revoked"]
  BY <1>1, <1>2, <1>3 DEF Rotated, Inv, ServerInv
<1>5. grant[old] \in Grant
  BY <1>2 DEF Inv, ServerInv
<1>6. \/ grant'[old] = grant[old]
      \/ grant'[old] = [grant[old] EXCEPT !.state = "revoked"]
  BY <1>4, <1>5 DEF Grant
<1>7. grant'[old].state # "live"
  BY <1>4, <1>5 DEF Grant
<1>8. ASSUME OneRefreshPerGrant
      PROVE  /\ \A h \in Grants : grant'[h].state = "live" /\ grant'[h].login = grant[old].login => h = g
             /\ \A t \in Slots \ {s} : HasRead(srv[t]) => grant[srv[t].grant].login # grant[old].login
  <2>1. RotationFacts
    BY <1>8 DEF Inv, ServerInv
  <2>2. QED  BY <1>3, <1>4, <1>7, <2>1 DEF RotationFacts
<1>9. \A h \in Grants \ {g} :
           \/ grant'[h] = grant[h]
           \/ grant[h].state # "unused" /\ grant'[h] = [grant[h] EXCEPT !.state = "revoked"]
  BY <1>2, <1>4, <1>6
<1>10. grant' \in [Grants -> Grant]
  <2>1. Issued(g, srv[s].who, grant[old].login) \in Grant
    BY <1>1, <1>2 DEF Issued, Grant
  <2>2. grant'[old] \in Grant
    BY <1>5, <1>6 DEF Grant
  <2>3. \A h \in Grants : grant'[h] \in Grant
    BY <1>4, <2>1, <2>2 DEF Inv, ServerInv
  <2>4. grant' = [h \in Grants |-> grant'[h]]
    BY <1>1 DEF Rotated, Inv, ServerInv
  <2>5. QED  BY <2>3, <2>4
<1>11. QED  BY <1>1, <1>2, <1>4, <1>8, <1>9, <1>10, Issues

-----------------------------------------------------------------------------
(* The steps of the phone *)

LEMMA InitInv == ASSUME Init PROVE Inv
<1>1. ServerInv
  <2>1. /\ account \in [People -> {"none", "active", "deleted"}] /\ grant \in [Grants -> Grant]
        /\ srv = [slot \in Slots |-> srv[slot]]
    BY DEF Init, Unused, Grant
  <2>2. \A s \in Slots : TxnOK(srv[s]) /\ ~HasRead(srv[s]) /\ ~Busy(srv[s])
    BY NoTxnFacts DEF Init
  <2>3. GrantFacts /\ OneLiveGrantPerLogin
    BY DEF Init, Unused, GrantFacts, OneLiveGrantPerLogin
  <2>4. QED  BY <2>1, <2>2, <2>3 DEF ServerInv, RotationFacts
<1>2. PhoneInv
  <2>1. \A op : Awaited(op) = {}
    BY NoTxnFacts DEF Init, Awaited
  <2>2. PhoneTypeOK
    BY DEF Init, PhoneTypeOK, Nothing, Call, NoCall, Renewal, NoRenewal
  <2>3. RestoreFacts /\ Presence
    BY SessionConstants DEF Init, RestoreFacts, NoCall, Presence, Shown, SessionConstants
  <2>4. QED  BY <2>1, <2>2, <2>3 DEF Init, PhoneInv, StoreFacts, WaitFacts, Nothing
<1>3. QED  BY <1>1, <1>2 DEF Inv

LEMMA ServerUnchanged == ASSUME Inv, UNCHANGED server PROVE ServerInv'
  BY ServerLetGo DEF Inv, ServerInv, LetGoOf, server

\* What the phone lets go of it no longer waits for.
LEMMA LetGoes ==
  ASSUME Inv, NEW s \in Slots, LetGo(s)
  PROVE  /\ srv' = [slot \in Slots |-> srv'[slot]] /\ \A t \in Slots : LetGoOf(srv'[t], srv[t])
         /\ ~srv'[s].awaited
         /\ \A op : Awaited(op)' = Awaited(op) \ {s}
         /\ \A t \in Slots \ {s} : srv'[t] = srv[t]
         /\ UNCHANGED <<account, grant>> => ServerInv'
<1>1. srv' = [srv EXCEPT ![s] = Kept(srv[s], srv[s].phase, FALSE)] /\ srv[s] \in Txn
  BY DEF LetGo, Inv, ServerInv, TxnOK
<1>2. /\ srv' = [slot \in Slots |-> srv'[slot]] /\ \A t \in Slots \ {s} : srv'[t] = srv[t]
      /\ srv'[s] = Kept(srv[s], srv[s].phase, FALSE)
  BY <1>1 DEF Inv, ServerInv
<1>3. LetGoOf(srv'[s], srv[s])
  BY <1>1, <1>2, LetGoFacts
<1>4. ~srv'[s].awaited
  BY <1>1, <1>2 DEF Kept, NoTxn, Txn
<1>5. \A t \in Slots : LetGoOf(srv'[t], srv[t])
  BY <1>2, <1>3 DEF LetGoOf
<1>6. \A op : Awaited(op)' = Awaited(op) \ {s}
  BY <1>2, <1>4 DEF Awaited
<1>7. QED  BY <1>2, <1>4, <1>5, <1>6, ServerLetGo DEF Inv

\* Requests that are over, or closing, hold no token and restore nothing.
LEMMA CallFacts ==
  /\ NoCall \in Call /\ NoCall.kind = "idle" /\ NoCall.token = None /\ ~NoCall.waiting
  /\ Closing \in Call /\ Closing.kind = "closing" /\ Closing.token = None /\ ~Closing.waiting
  /\ Closing # NoCall
<1>1. /\ NoCall \in Call /\ NoCall.kind = "idle" /\ NoCall.token = None /\ ~NoCall.waiting
  BY DEF NoCall, Call
<1>2. /\ Closing \in Call /\ Closing.kind = "closing" /\ Closing.token = None /\ ~Closing.waiting
  BY <1>1 DEF Closing, NoCall, Call
<1>3. QED  BY <1>1, <1>2

LEMMA SignInStep == ASSUME Inv, NEW s \in Slots, SignIn(s) PROVE Inv'
<1>1. /\ srv' = [slot \in Slots |-> srv'[slot]] /\ \A t \in Slots \ {s} : srv'[t] = srv[t]
      /\ srv'[s] = [NoTxn EXCEPT !.op = "signin", !.awaited = TRUE] /\ srv[s] = NoTxn
      /\ UNCHANGED <<account, grant, phone>>
  BY DEF SignIn, Inv, ServerInv
<1>2. /\ srv'[s] \in Txn /\ srv'[s].op = "signin" /\ srv'[s].phase = "asked" /\ srv'[s].awaited
  BY <1>1 DEF NoTxn, Txn
<1>3. TxnOK(srv[s])' /\ ~Busy(srv'[s]) /\ ~HasRead(srv'[s])
  BY <1>2 DEF TxnOK, Busy, HasRead
<1>4. ASSUME NEW t \in Slots
      PROVE  /\ TxnOK(srv[t])'
             /\ Busy(srv'[t]) => Busy(srv[t]) /\ srv'[t].grant = srv[t].grant
             /\ HasRead(srv'[t]) => HasRead(srv[t]) /\ srv'[t].grant = srv[t].grant
  BY <1>1, <1>3 DEF Inv, ServerInv, TxnOK
<1>5. ServerInv'
  BY <1>1, <1>4, ServerQuiet DEF Inv, ServerInv
<1>6. Awaited("refresh")' = Awaited("refresh") /\ Awaited("signin")' = {s}
  BY <1>1, <1>2, NoTxnFacts DEF Awaited, SignIn
<1>7. WaitFacts'
  BY <1>1, <1>6 DEF Inv, PhoneInv, WaitFacts, SignIn, phone
<1>8. Presence'
  BY <1>1, SessionConstants DEF SignIn, Presence, Shown, phone, SessionConstants
<1>9. PhoneTypeOK' /\ StoreFacts' /\ RestoreFacts'
  BY <1>1 DEF Inv, PhoneInv, PhoneTypeOK, StoreFacts, RestoreFacts, phone, pending
<1>10. QED  BY <1>5, <1>7, <1>8, <1>9 DEF Inv, PhoneInv

LEMMA SignInFailsStep == ASSUME Inv, NEW s \in Slots, SignInFails(s) PROVE Inv'
<1>1. LetGo(s) /\ UNCHANGED <<account, grant, phone>>
  BY DEF SignInFails
<1>2. GrantsKept
  BY <1>1 DEF GrantsKept
<1>3. \A t \in Slots : srv'[t].awaited =>
        /\ srv[t].awaited /\ srv'[t].op = srv[t].op
        /\ srv[t].op = "refresh" => srv'[t].who = srv[t].who
  BY <1>1, LetGoes
<1>4. QED  BY <1>1, <1>2, <1>3, LetGoes, PhoneKept DEF Inv

\* A code was accepted: from here on its user is shown.
LEMMA SignedInStep == ASSUME Inv, NEW s \in Slots, SignedIn(s) PROVE Inv'
<1> DEFINE p == srv[s].who
           g == srv[s].grant
<1>1. /\ s \in Awaited("signin") /\ srv[s].op = "signin" /\ srv[s].phase = "done" /\ LetGo(s)
      /\ UNCHANGED <<account, grant, store, call, renewal, removals>>
      /\ header' = p /\ ui' = p /\ storing' = storing \cup {g} /\ overlap' = LeftOver
  BY DEF SignedIn, Awaited
<1>2. p \in People /\ g \in Grants /\ grant[g].state # "unused" /\ p = grant[g].owner
  BY <1>1 DEF Inv, ServerInv, TxnOK, GrantFacts
<1>3. ui = None /\ Awaited("signin") = {s}
  BY <1>1 DEF Inv, PhoneInv, WaitFacts
<1>4. /\ Awaited("signin")' = {} /\ Awaited("refresh")' \subseteq Awaited("refresh")
      /\ Awaited("refresh")' = Awaited("refresh") \ {s} /\ ServerInv'
  BY <1>1, <1>3, LetGoes
<1>5. s \notin Awaited("refresh")
  BY <1>1 DEF Awaited
<1>6. PhoneTypeOK'
  BY <1>1, <1>2 DEF Inv, PhoneInv, PhoneTypeOK, Access, LeftOver
<1>7. StoreFacts'
  BY <1>1, <1>2 DEF Inv, PhoneInv, StoreFacts
<1>8. Presence'
  <2>1. p # None
    BY <1>2, SessionConstants DEF SessionConstants
  <2>2. ASSUME ~overlap'
        PROVE  /\ store.access = None /\ storing = {} /\ removals' = 0 /\ renewal' = NoRenewal
               /\ \A c \in Calls : call'[c] = NoCall
    BY <1>1, <2>2 DEF LeftOver, Nothing, Inv, PhoneInv, PhoneTypeOK
  <2>3. ~overlap' => Awaited("refresh")' = {}
    BY <1>1, <1>4, <2>2 DEF Inv, PhoneInv, WaitFacts, NoRenewal
  <2>4. QED  BY <1>1, <1>2, <2>1, <2>2, <2>3, CallFacts DEF Presence, Shown, NoRenewal
<1>9. WaitFacts'
  BY <1>1, <1>4, <1>5 DEF Inv, PhoneInv, WaitFacts
<1>10. RestoreFacts'
  BY <1>1, <1>2, <1>3, SessionConstants DEF Inv, PhoneInv, RestoreFacts, SessionConstants
<1>11. QED  BY <1>4, <1>6, <1>7, <1>8, <1>9, <1>10 DEF Inv, PhoneInv

LEMMA StoreSignInStep == ASSUME Inv, NEW g \in Grants, StoreSignIn(g) PROVE Inv'
<1>1. /\ g \in storing /\ store' = [access |-> grant[g].owner, refresh |-> g]
      /\ storing' = storing \ {g}
      /\ UNCHANGED <<server, header, ui, call, renewal, removals, overlap>>
  BY DEF StoreSignIn
<1>2. grant[g].state # "unused" /\ grant[g].owner \in People
  BY <1>1 DEF Inv, ServerInv, GrantFacts, PhoneInv, StoreFacts
<1>3. /\ store'.access = grant[g].owner /\ store'.refresh = g
      /\ grant[g].owner # None /\ g # None
  BY <1>1, <1>2, SessionConstants DEF SessionConstants
<1>4. PhoneTypeOK'
  BY <1>1, <1>2 DEF Inv, PhoneInv, PhoneTypeOK, Access
<1>5. StoreFacts'
  BY <1>1, <1>2, <1>3 DEF Inv, PhoneInv, StoreFacts, server
<1>6. Presence'
  BY <1>1, <1>3 DEF Inv, PhoneInv, Presence, Shown, Awaited, server
<1>7. WaitFacts' /\ RestoreFacts'
  BY <1>1 DEF Inv, PhoneInv, WaitFacts, RestoreFacts, Awaited, server
<1>8. QED  BY <1>1, <1>4, <1>5, <1>6, <1>7, ServerUnchanged DEF Inv, PhoneInv

LEMMA ClearStoreStep == ASSUME Inv, ClearStore PROVE Inv'
<1>1. /\ removals > 0 /\ store' = Nothing /\ removals' = removals - 1
      /\ ui' = IF ui = "starting" THEN None ELSE ui
      /\ UNCHANGED <<server, header, call, renewal, storing, overlap>>
  BY DEF ClearStore
<1>2. PhoneTypeOK' /\ StoreFacts'
  BY <1>1 DEF Inv, PhoneInv, PhoneTypeOK, StoreFacts, Nothing, server
<1>3. removals # 0 /\ None # "starting"
  BY <1>1, SessionConstants DEF Inv, PhoneInv, PhoneTypeOK, SessionConstants
<1>4. Presence'
  <2>1. ~Shown
    BY <1>3 DEF Inv, PhoneInv, Presence
  <2>2. ~Shown'
    BY <1>1, <2>1 DEF Shown
  <2>3. QED  BY <1>1, <2>2, SessionConstants DEF Inv, PhoneInv, Presence, SessionConstants
<1>5. WaitFacts'
  BY <1>1, <1>3 DEF Inv, PhoneInv, WaitFacts, Awaited, server
<1>6. RestoreFacts'
  <2>1. ASSUME ui = "starting" PROVE \A c \in Calls : call[c] = NoCall
    <3>1. header = None
      BY <1>3, <2>1, SessionConstants DEF Inv, PhoneInv, Presence, RestoreFacts, Shown, SessionConstants
    <3>2. QED  BY <2>1, <3>1 DEF Inv, PhoneInv, RestoreFacts
  <2>2. QED  BY <1>1, <1>3, <2>1, CallFacts DEF Inv, PhoneInv, RestoreFacts
<1>7. QED  BY <1>1, <1>2, <1>4, <1>5, <1>6, ServerUnchanged DEF Inv, PhoneInv

\* Header and user are cleared: what remains to see is that no request to restore
\* a session is left, and nothing to wait for that nobody waits for.
LEMMA Cleared ==
  ASSUME Inv, ServerInv', UNCHANGED server, NEW n \in Nat, ClearedTimes(n),
         UNCHANGED <<store, storing, overlap>>,
         call' \in [Calls -> Call],
         \A c \in Calls : call'[c] = NoCall \/ call'[c] = call[c],
         \A c \in Calls : call'[c].kind # "me",
         \/ renewal' = NoRenewal /\ Awaited("refresh") = {}
         \/ renewal' = renewal /\ \A c \in Calls : call[c].waiting => call'[c] = call[c]
  PROVE  Inv'
<1>1. /\ header' = None /\ ui' = (IF ui = "starting" THEN ui ELSE None) /\ removals' = removals + n
  BY DEF ClearedTimes
<1>2. PhoneTypeOK'
  BY <1>1 DEF Inv, PhoneInv, PhoneTypeOK, NoRenewal, Renewal
<1>3. StoreFacts'
  BY DEF Inv, PhoneInv, StoreFacts, server
<1>4. Presence'
  BY <1>1, SessionConstants DEF Presence, Shown, SessionConstants
<1>5. WaitFacts'
  BY <1>1, SessionConstants DEF Inv, PhoneInv, WaitFacts, Awaited, server, SessionConstants
<1>6. RestoreFacts'
  <2>1. ASSUME ui = "starting", NEW c \in Calls PROVE call'[c] = NoCall
    <3>1. call[c] # NoCall => call[c].kind = "me"
      BY <2>1 DEF Inv, PhoneInv, RestoreFacts
    <3>2. QED  BY <3>1
  <2>2. QED  BY <1>1, <2>1, SessionConstants DEF Inv, PhoneInv, RestoreFacts, SessionConstants
<1>7. QED  BY <1>2, <1>3, <1>4, <1>5, <1>6 DEF Inv, PhoneInv

LEMMA LogoutStep == ASSUME Inv, NEW c \in Calls, Logout(c) PROVE Inv'
<1>1. /\ ui \in People /\ call[c] = NoCall /\ call' = [call EXCEPT ![c] = Closing]
      /\ UNCHANGED <<server, store, header, ui, renewal, pending, overlap>>
  BY DEF Logout
<1>2. call' \in [Calls -> Call] /\ call'[c] = Closing /\ \A d \in Calls \ {c} : call'[d] = call[d]
  BY <1>1, CallFacts DEF Inv, PhoneInv, PhoneTypeOK
<1>3. PhoneTypeOK' /\ StoreFacts'
  BY <1>1, <1>2 DEF Inv, PhoneInv, PhoneTypeOK, StoreFacts, server, pending
<1>4. Presence'
  BY <1>1, <1>2, CallFacts DEF Inv, PhoneInv, Presence, Shown, Awaited, server, pending
<1>5. WaitFacts'
  BY <1>1, <1>2, CallFacts DEF Inv, PhoneInv, WaitFacts, Awaited, server
<1>6. RestoreFacts'
  BY <1>1, <1>2, CallFacts, SessionConstants DEF Inv, PhoneInv, RestoreFacts, SessionConstants
<1>7. QED  BY <1>1, <1>3, <1>4, <1>5, <1>6, ServerUnchanged DEF Inv, PhoneInv

LEMMA EndSessionStep == ASSUME Inv, NEW c \in Calls, EndSession(c) PROVE Inv'
<1>1. /\ call[c] = Closing /\ call' = [call EXCEPT ![c] = NoCall] /\ ClearedTimes(1)
      /\ UNCHANGED <<server, store, renewal, storing, overlap>>
  BY DEF EndSession, ClearLocalSession
<1>2. /\ call' \in [Calls -> Call] /\ call'[c] = NoCall
      /\ \A d \in Calls \ {c} : call'[d] = call[d]
  BY <1>1, CallFacts DEF Inv, PhoneInv, PhoneTypeOK
<1>3. \A d \in Calls : call'[d].kind # "me"
  BY <1>1, <1>2, CallFacts DEF Inv, PhoneInv, RestoreFacts
<1>4. \A d \in Calls : call[d].waiting => call'[d] = call[d]
  BY <1>1, <1>2, CallFacts
<1>5. ServerInv'
  BY <1>1, ServerUnchanged
<1>6. QED  BY <1>1, <1>2, <1>3, <1>4, <1>5, Cleared

\* Every request that waited hears that the session is over.
LEMMA SettleFailedStep ==
  ASSUME Inv, SettleFailed, UNCHANGED server, renewal # NoRenewal, Awaited("refresh") = {}
  PROVE  Inv'
<1> DEFINE n == Cardinality(Waiting) + Cardinality({c \in Waiting : call[c].kind = "me"})
<1>1. /\ ClearedTimes(n) /\ renewal' = NoRenewal /\ UNCHANGED <<store, storing, overlap>>
      /\ call' = [c \in Calls |-> IF c \in Waiting THEN NoCall ELSE call[c]]
  BY DEF SettleFailed, AllRejected
<1>2. n \in Nat
  <2>1. Waiting \subseteq Calls /\ {c \in Waiting : call[c].kind = "me"} \subseteq Calls
    BY DEF Waiting
  <2>2. QED  BY <2>1, SessionConstants, FS_Subset, FS_CardinalityType DEF SessionConstants
<1>3. call' \in [Calls -> Call]
  BY <1>1, CallFacts DEF Inv, PhoneInv, PhoneTypeOK
<1>4. \A c \in Calls : call'[c].kind # "me"
  <2>1. \A c \in Calls : call[c].kind = "me" => call[c].waiting
    BY CallFacts DEF Inv, PhoneInv, RestoreFacts
  <2>2. QED  BY <1>1, <2>1, CallFacts DEF Waiting
<1>5. \A c \in Calls : call'[c] = NoCall \/ call'[c] = call[c]
  BY <1>1
<1>6. ServerInv'
  BY ServerUnchanged
<1> HIDE DEF n
<1>7. QED  BY <1>1, <1>2, <1>3, <1>4, <1>5, <1>6, Cleared

LEMMA NothingToPostStep == ASSUME Inv, NothingToPost PROVE Inv'
<1>1. renewal.phase = "reading" /\ SettleFailed /\ UNCHANGED server
  BY DEF NothingToPost
<1>2. renewal # NoRenewal /\ Awaited("refresh") = {}
  BY <1>1 DEF Inv, PhoneInv, WaitFacts, NoRenewal
<1>3. QED  BY <1>1, <1>2, SettleFailedStep

LEMMA GiveUpStep == ASSUME Inv, GiveUp PROVE Inv'
<1>1. renewal.phase = "dropped" /\ SettleFailed /\ UNCHANGED server
  BY DEF GiveUp
<1>2. renewal # NoRenewal /\ Awaited("refresh") = {}
  BY <1>1 DEF Inv, PhoneInv, WaitFacts, NoRenewal
<1>3. QED  BY <1>1, <1>2, SettleFailedStep

\* The shared refresh goes on without touching what the phone shows and sends.
LEMMA RenewalGoesOn ==
  ASSUME Inv, ServerInv', UNCHANGED <<account, grant, header, ui, call, pending, overlap>>,
         PhoneTypeOK', StoreFacts',
         NEW s, Awaited("refresh")' \subseteq {s}, Awaited("signin")' = Awaited("signin"),
         Awaited("refresh")' # {} => renewal'.phase = "posted" /\ (Shown => srv'[s].who = header),
         renewal # NoRenewal, renewal' # NoRenewal,
         Shown =>
           /\ renewal'.phase = "stored" => renewal'.who = header
           /\ IF store'.access = None THEN storing # {} \/ renewal'.phase = "dropped"
              ELSE store'.access = header
  PROVE  Inv'
<1>1. Presence'
  BY DEF Inv, PhoneInv, Presence, Shown, pending
<1>2. WaitFacts'
  BY DEF Inv, PhoneInv, WaitFacts
<1>3. RestoreFacts'
  BY DEF Inv, PhoneInv, RestoreFacts
<1>4. QED  BY <1>1, <1>2, <1>3 DEF Inv, PhoneInv

LEMMA RefreshFailsStep == ASSUME Inv, NEW s \in Slots, RefreshFails(s) PROVE Inv'
<1>1. /\ LetGo(s) /\ s \in Awaited("refresh") /\ renewal' = [renewal EXCEPT !.phase = "dropping"]
      /\ UNCHANGED <<account, grant, store, header, ui, call, pending, overlap>>
  BY DEF RefreshFails
<1>2. renewal.phase = "posted" /\ Awaited("refresh") = {s} /\ s \notin Awaited("signin")
  BY <1>1 DEF Inv, PhoneInv, WaitFacts, Awaited
<1>3. Awaited("signin")' = Awaited("signin") /\ Awaited("refresh")' = {} /\ ServerInv'
  BY <1>1, <1>2, LetGoes
<1>4. PhoneTypeOK' /\ renewal'.phase = "dropping"
  BY <1>1 DEF Inv, PhoneInv, PhoneTypeOK, Renewal, pending
<1>5. StoreFacts'
  BY <1>1 DEF Inv, PhoneInv, StoreFacts, pending
<1>6. Shown => IF store.access = None THEN storing # {} ELSE store.access = header
  BY <1>2 DEF Inv, PhoneInv, Presence
<1>7. QED  BY <1>1, <1>2, <1>3, <1>4, <1>5, <1>6, RenewalGoesOn DEF NoRenewal

LEMMA DropTokensStep == ASSUME Inv, DropTokens PROVE Inv'
<1>1. /\ renewal.phase = "dropping" /\ store' = Nothing
      /\ renewal' = [renewal EXCEPT !.phase = "dropped"]
      /\ UNCHANGED <<server, header, ui, call, pending, overlap>>
  BY DEF DropTokens
<1>2. Awaited("refresh")' = {} /\ Awaited("signin")' = Awaited("signin") /\ ServerInv'
  BY <1>1, ServerUnchanged DEF Inv, PhoneInv, WaitFacts, Awaited, server
<1>3. PhoneTypeOK' /\ renewal'.phase = "dropped"
  BY <1>1 DEF Inv, PhoneInv, PhoneTypeOK, Renewal, Nothing, pending
<1>4. StoreFacts' /\ store'.access = None
  BY <1>1 DEF Inv, PhoneInv, StoreFacts, Nothing, pending, server
<1>5. QED  BY <1>1, <1>2, <1>3, <1>4, RenewalGoesOn DEF NoRenewal, server

\* The answer of the shared refresh is of the person it was asked for.
LEMMA StoreTokensStep == ASSUME Inv, NEW s \in Slots, StoreTokens(s) PROVE Inv'
<1> DEFINE p == srv[s].who
           g == srv[s].grant
<1>1. /\ s \in Awaited("refresh") /\ srv[s].op = "refresh" /\ srv[s].phase = "done" /\ LetGo(s)
      /\ UNCHANGED <<account, grant, header, ui, call, pending, overlap>>
      /\ store' = [access |-> p, refresh |-> g]
      /\ renewal' = [phase |-> "stored", who |-> p]
  BY DEF StoreTokens, Awaited
<1>2. p \in People /\ g \in Grants /\ grant[g].state # "unused" /\ p = grant[g].owner
  BY <1>1 DEF Inv, ServerInv, TxnOK, GrantFacts
<1>3. renewal.phase = "posted" /\ Awaited("refresh") = {s} /\ s \notin Awaited("signin")
  BY <1>1 DEF Inv, PhoneInv, WaitFacts, Awaited
<1>4. Awaited("signin")' = Awaited("signin") /\ Awaited("refresh")' = {} /\ ServerInv'
  BY <1>1, <1>3, LetGoes
<1>5. PhoneTypeOK'
  BY <1>1, <1>2 DEF Inv, PhoneInv, PhoneTypeOK, Renewal, Access, pending
<1>6. StoreFacts' /\ store'.access = p
  BY <1>1, <1>2, SessionConstants DEF Inv, PhoneInv, StoreFacts, SessionConstants, pending
<1>7. Shown => p = header
  BY <1>3 DEF Inv, PhoneInv, Presence
<1>8. /\ renewal # NoRenewal /\ renewal' # NoRenewal /\ renewal'.phase = "stored"
      /\ renewal'.who = p /\ p # None
  BY <1>1, <1>2, <1>3, SessionConstants DEF NoRenewal, SessionConstants
<1>9. QED  BY <1>1, <1>4, <1>5, <1>6, <1>7, <1>8, RenewalGoesOn

LEMMA UseNewTokenStep == ASSUME Inv, UseNewToken PROVE Inv'
<1> DEFINE token == renewal.who
<1>1. /\ renewal.phase = "stored" /\ header' = token /\ renewal' = NoRenewal
      /\ UNCHANGED <<server, store, ui, pending, overlap>>
      /\ call' = [c \in Calls |-> IF c \in Waiting
                     THEN [call[c] EXCEPT !.token = token, !.waiting = FALSE] ELSE call[c]]
  BY DEF UseNewToken, Resent
<1>2. token \in Access /\ token # None
  <2>1. token \in People
    BY <1>1 DEF Inv, PhoneInv, PhoneTypeOK
  <2> HIDE DEF token
  <2>2. QED  BY <2>1, SessionConstants DEF Access, SessionConstants
<1>3. Awaited("refresh") = {} /\ renewal # NoRenewal
  <2>1. renewal.phase = "stored" /\ NoRenewal.phase = "none"
    BY <1>1 DEF NoRenewal
  <2>2. QED  BY <2>1 DEF Inv, PhoneInv, WaitFacts
<1>4. Awaited("refresh")' = {} /\ Awaited("signin")' = Awaited("signin") /\ ServerInv'
  BY <1>1, <1>3, ServerUnchanged DEF Awaited, server
<1> HIDE DEF token
<1>5. \A c \in Calls : /\ call'[c] \in Call /\ call'[c].kind = call[c].kind
                       /\ call'[c].token \in {call[c].token, token}
                       /\ call'[c] # call[c] => call[c].waiting
  BY <1>1, <1>2 DEF Inv, PhoneInv, PhoneTypeOK, Call, Waiting
<1>6. PhoneTypeOK'
  BY <1>1, <1>2, <1>5 DEF Inv, PhoneInv, PhoneTypeOK, Renewal, NoRenewal, pending
<1>7. StoreFacts'
  BY <1>1 DEF Inv, PhoneInv, StoreFacts, server, pending
<1>8. ui = "starting" => Shown
  <2>1. PICK c \in Calls : call[c].waiting
    BY <1>3 DEF Inv, PhoneInv, WaitFacts
  <2>2. call[c] # NoCall
    BY <2>1, CallFacts
  <2>3. QED  BY <2>2, SessionConstants DEF Inv, PhoneInv, RestoreFacts, Shown, SessionConstants
<1>9. ui # None /\ ~overlap => Shown /\ token = header
  <2>1. ui \in People \cup {"starting", None}
    BY DEF Inv, PhoneInv, PhoneTypeOK
  <2>2. ui \in People => header # None
    BY DEF Inv, PhoneInv, Presence
  <2>3. Shown => token = header
    BY <1>1 DEF Inv, PhoneInv, Presence, token
  <2>4. QED  BY <1>8, <2>1, <2>2, <2>3 DEF Shown
<1>10. Presence'
  BY <1>1, <1>2, <1>4, <1>5, <1>9 DEF Inv, PhoneInv, Presence, Shown, NoRenewal, pending, server
<1>11. RestoreFacts'
  <2>1. \A c \in Calls : call'[c] # NoCall => call[c] # NoCall
    BY <1>5, CallFacts
  <2>2. QED  BY <1>1, <1>2, <1>5, <2>1 DEF Inv, PhoneInv, RestoreFacts
<1>12. WaitFacts'
  BY <1>1, <1>4 DEF Inv, PhoneInv, WaitFacts
<1>13. QED  BY <1>4, <1>6, <1>7, <1>10, <1>11, <1>12 DEF Inv, PhoneInv

\* The refresh that is posted is the first one with that token.
LEMMA PostRefreshStep == ASSUME Inv, NEW s \in Slots, PostRefresh(s) PROVE Inv'
<1> DEFINE g == store.refresh
<1>1. /\ renewal.phase = "reading" /\ g # None /\ srv[s] = NoTxn /\ MayPost(g)
      /\ srv' = [srv EXCEPT ![s] = [NoTxn EXCEPT !.op = "refresh", !.grant = g,
                                                  !.who = grant[g].owner, !.awaited = TRUE]]
      /\ renewal' = [renewal EXCEPT !.phase = "posted"]
      /\ UNCHANGED <<account, grant, store, header, ui, call, pending, overlap>>
  BY DEF PostRefresh
<1>2. g \in Grants /\ grant[g].state # "unused" /\ store.access = grant[g].owner
  BY <1>1 DEF Inv, PhoneInv, PhoneTypeOK, StoreFacts
<1>3. grant[g].owner \in People
  BY <1>2 DEF Inv, ServerInv, GrantFacts
<1>4. /\ srv' = [slot \in Slots |-> srv'[slot]] /\ \A t \in Slots \ {s} : srv'[t] = srv[t]
      /\ srv'[s] = [NoTxn EXCEPT !.op = "refresh", !.grant = g, !.who = grant[g].owner, !.awaited = TRUE]
  BY <1>1 DEF Inv, ServerInv
<1>5. /\ srv'[s] \in Txn /\ srv'[s].op = "refresh" /\ srv'[s].phase = "asked"
      /\ srv'[s].grant = g /\ srv'[s].who = grant[g].owner /\ srv'[s].awaited
  BY <1>2, <1>3, <1>4 DEF NoTxn, Txn
<1>6. TxnOK(srv[s])' /\ ~HasRead(srv'[s])
  BY <1>1, <1>2, <1>3, <1>5 DEF TxnOK, HasRead
<1>7. \A t \in Slots : TxnOK(srv[t])'
  BY <1>1, <1>4, <1>6 DEF Inv, ServerInv, TxnOK
<1>8. ASSUME OneRefreshPerGrant PROVE RotationFacts'
  <2>1. RotationFacts
    BY <1>8 DEF Inv, ServerInv
  <2>2. \A t \in Slots : Busy(srv[t]) => srv[t].grant # g
    BY <1>1, <1>8 DEF MayPost, Busy
  <2>3. \A t \in Slots : HasRead(srv'[t]) => t # s /\ HasRead(srv[t])
    BY <1>4, <1>6
  <2>4. \A r, t \in Slots : r # t /\ Busy(srv'[r]) /\ Busy(srv'[t]) => srv'[r].grant # srv'[t].grant
    <3> SUFFICES ASSUME NEW r \in Slots, NEW t \in Slots, r # t, Busy(srv'[r]), Busy(srv'[t])
                 PROVE  srv'[r].grant # srv'[t].grant
      OBVIOUS
    <3>1. CASE r = s
      BY <1>4, <1>5, <2>2, <3>1
    <3>2. CASE t = s
      <4>1. srv'[t].grant = g /\ srv'[r] = srv[r]
        BY <1>4, <1>5, <3>2
      <4>2. QED  BY <2>2, <4>1
    <3>3. CASE r # s /\ t # s
      BY <1>4, <2>1, <3>3 DEF RotationFacts
    <3>4. QED  BY <3>1, <3>2, <3>3
  <2>5. \A r, t \in Slots : r # t /\ HasRead(srv'[r]) /\ HasRead(srv'[t]) =>
          grant'[srv'[r].grant].login # grant'[srv'[t].grant].login
    BY <1>1, <1>4, <2>1, <2>3 DEF RotationFacts
  <2>6. \A t \in Slots, h \in Grants :
          HasRead(srv'[t]) /\ grant'[h].state = "live" /\ grant'[h].login = grant'[srv'[t].grant].login
            => h = srv'[t].grant
    BY <1>1, <1>4, <2>1, <2>3 DEF RotationFacts
  <2>7. OneLiveGrantPerLogin'
    BY <1>1, <2>1 DEF RotationFacts, OneLiveGrantPerLogin
  <2>8. QED  BY <2>4, <2>5, <2>6, <2>7 DEF RotationFacts, Busy, HasRead
<1>9. ServerInv'
  BY <1>1, <1>4, <1>7, <1>8 DEF Inv, ServerInv, GrantFacts
<1>10. Awaited("refresh") = {}
  BY <1>1 DEF Inv, PhoneInv, WaitFacts
<1>11. Awaited("signin")' = Awaited("signin") /\ Awaited("refresh")' = {s}
  <2>1. \A t \in Slots \ {s} : ~(srv[t].op = "refresh" /\ srv[t].awaited)
    BY <1>10 DEF Awaited
  <2>2. \A t \in Slots \ {s} : ~(srv'[t].op = "refresh" /\ srv'[t].awaited)
    BY <1>4, <2>1
  <2> HIDE DEF g
  <2>3. QED  BY <1>1, <1>4, <1>5, <2>2, NoTxnFacts DEF Awaited
<1>12. PhoneTypeOK' /\ renewal'.phase = "posted"
  BY <1>1 DEF Inv, PhoneInv, PhoneTypeOK, Renewal, pending
<1>13. StoreFacts'
  BY <1>1 DEF Inv, PhoneInv, StoreFacts, pending
<1>14. store.access # None /\ (Shown => store.access = header)
  BY <1>1, <1>2, <1>3, SessionConstants DEF Inv, PhoneInv, Presence, SessionConstants
<1>15. renewal # NoRenewal /\ renewal' # NoRenewal
  BY <1>1, <1>12 DEF NoRenewal
<1>16. QED
  BY <1>1, <1>2, <1>5, <1>9, <1>11, <1>12, <1>13, <1>14, <1>15, RenewalGoesOn

LEMMA SendStep == ASSUME Inv, NEW c \in Calls, NEW kind \in {"api", "delete"}, Send(c, kind) PROVE Inv'
<1>1. /\ ui \in People /\ UNCHANGED <<server, store, header, ui, renewal, pending, overlap>>
      /\ call' = [call EXCEPT ![c] = [NoCall EXCEPT !.kind = kind, !.token = header]]
      /\ call[c] = NoCall
  BY DEF Send
<1>2. ui # None /\ ui # "starting" /\ header \in Access
  BY <1>1, SessionConstants DEF Inv, PhoneInv, PhoneTypeOK, Presence, SessionConstants
<1>3. call' \in [Calls -> Call] /\ call'[c].kind # "me" /\ call'[c].token = header
      /\ ~call'[c].waiting /\ \A d \in Calls \ {c} : call'[d] = call[d]
  BY <1>1, <1>2 DEF Inv, PhoneInv, PhoneTypeOK, Call, NoCall
<1>4. PhoneTypeOK' /\ StoreFacts'
  BY <1>1, <1>3 DEF Inv, PhoneInv, PhoneTypeOK, StoreFacts, server, pending
<1>5. Presence'
  BY <1>1, <1>3 DEF Inv, PhoneInv, Presence, Shown, Awaited, server, pending
<1>6. WaitFacts' /\ RestoreFacts'
  BY <1>1, <1>2, <1>3, CallFacts DEF Inv, PhoneInv, WaitFacts, RestoreFacts, Awaited, server
<1>7. QED  BY <1>1, <1>4, <1>5, <1>6, ServerUnchanged DEF Inv, PhoneInv

LEMMA AwaitRefreshStep == ASSUME Inv, NEW c \in Calls, AwaitRefresh(c) PROVE Inv'
<1>1. /\ call[c] # NoCall /\ call' = [call EXCEPT ![c].retried = TRUE, ![c].waiting = TRUE]
      /\ UNCHANGED <<server, store, header, ui, pending, overlap>>
      /\ \/ renewal # NoRenewal /\ renewal' = renewal
         \/ renewal = NoRenewal /\ renewal' = [phase |-> "reading", who |-> None]
  BY DEF AwaitRefresh, InFlight, NoRenewal
<1>2. /\ call' \in [Calls -> Call] /\ call'[c].waiting
      /\ \A d \in Calls : /\ d # c => call'[d] = call[d]
                          /\ call'[d].kind = call[d].kind /\ call'[d].token = call[d].token
  BY <1>1 DEF Inv, PhoneInv, PhoneTypeOK, Call
<1>3. \A op : Awaited(op)' = Awaited(op)
  BY <1>1 DEF Awaited, server
<1>4. PhoneTypeOK'
  BY <1>1, <1>2 DEF Inv, PhoneInv, PhoneTypeOK, Renewal, pending
<1>5. StoreFacts'
  BY <1>1 DEF Inv, PhoneInv, StoreFacts, server, pending
<1>6. renewal'.phase \in {"stored", "dropped", "posted"} => renewal' = renewal
  BY <1>1
<1>7. renewal.phase \in {"dropped", "posted"} => renewal' = renewal
  BY <1>1 DEF NoRenewal
<1>8. Presence'
  BY <1>1, <1>2, <1>3, <1>6, <1>7 DEF Inv, PhoneInv, Presence, Shown, server, pending
<1>9. WaitFacts'
  BY <1>1, <1>2, <1>3, <1>7 DEF Inv, PhoneInv, WaitFacts
<1>10. RestoreFacts'
  <2>1. \A d \in Calls : call'[d].kind = "me" => ui' = "starting"
    BY <1>1, <1>2 DEF Inv, PhoneInv, RestoreFacts
  <2>2. \A d \in Calls : call'[d] # NoCall => call[d] # NoCall
    BY <1>1, <1>2
  <2>3. ui = "starting" => header # None /\ \A d \in Calls : call[d] # NoCall => d = c /\ call[d].kind = "me"
    BY <1>1 DEF Inv, PhoneInv, RestoreFacts
  <2>4. QED  BY <1>1, <1>2, <2>1, <2>2, <2>3 DEF Inv, PhoneInv, RestoreFacts
<1>11. QED  BY <1>1, <1>4, <1>5, <1>8, <1>9, <1>10, ServerUnchanged DEF Inv, PhoneInv

\* The end of an account is the end of its tokens.
LEMMA Deletes ==
  ASSUME Inv, NEW p \in People, account' = Closed(p), grant' = WithoutGrantsOf(p), UNCHANGED srv
  PROVE  ServerInv' /\ GrantsKept
<1>1. account' \in [People -> {"none", "active", "deleted"}]
  BY DEF Closed, Inv, ServerInv
<1>2. \A g \in Grants : grant[g].owner = p => grant[g].state # "unused"
  BY SessionConstants DEF Inv, ServerInv, GrantFacts, Unused, SessionConstants
<1>3. \A g \in Grants :
        \/ grant'[g] = grant[g]
        \/ /\ grant[g].state # "unused" /\ grant'[g].state = "gone"
           /\ grant'[g].owner = grant[g].owner /\ grant'[g].login = grant[g].login
  BY <1>2 DEF WithoutGrantsOf, Inv, ServerInv, Grant
<1>4. grant' \in [Grants -> Grant]
  BY DEF WithoutGrantsOf, Inv, ServerInv, Grant
<1>5. QED  BY <1>1, <1>3, <1>4, ServerGrantsEnd DEF Inv

\* A request is over, or goes on to end the session, and what the phone keeps
\* stays as it was.
LEMMA Returned ==
  ASSUME Inv, ServerInv', GrantsKept, NEW c \in Calls, call[c] # NoCall, ~call[c].waiting,
         NEW k \in {NoCall, Closing}, call' = [call EXCEPT ![c] = k],
         UNCHANGED <<srv, store, header, renewal, pending, overlap>>,
         \/ ui' = ui /\ call[c].kind # "me"
         \/ ui' = header /\ ui' \in People /\ ui = "starting"
  PROVE  Inv'
<1>1. /\ call' \in [Calls -> Call] /\ call'[c].token = None /\ call'[c].kind # "me"
      /\ call'[c] = k /\ \A d \in Calls \ {c} : call'[d] = call[d]
  BY CallFacts DEF Inv, PhoneInv, PhoneTypeOK
<1>2. \A op : Awaited(op)' = Awaited(op)
  BY DEF Awaited
<1>3. PhoneTypeOK'
  BY <1>1 DEF Inv, PhoneInv, PhoneTypeOK, pending
<1>4. StoreFacts'
  BY DEF Inv, PhoneInv, PhoneTypeOK, StoreFacts, GrantsKept, pending
<1>5. Presence'
  <2>1. ui' # None => ui # None
    BY SessionConstants DEF SessionConstants
  <2>2. \A d \in Calls : call'[d].token # None => call'[d] = call[d]
    BY <1>1
  <2>3. Shown' => Shown
    BY <2>1 DEF Shown
  <2>4. \A g \in storing : grant'[g].owner = grant[g].owner
    BY DEF Inv, PhoneInv, PhoneTypeOK, StoreFacts, GrantsKept
  <2>5. ui' \in People => header' # None /\ (Shown => header' = ui')
    BY SessionConstants DEF Inv, PhoneInv, Presence, SessionConstants
  <2>6. QED  BY <1>2, <2>2, <2>3, <2>4, <2>5 DEF Inv, PhoneInv, Presence, pending
<1>6. WaitFacts'
  <2>1. \A d \in Calls : call[d].waiting => call'[d] = call[d]
    BY <1>1
  <2>2. ui = None => ui' = None
    BY SessionConstants DEF SessionConstants
  <2>3. QED  BY <1>2, <2>1, <2>2 DEF Inv, PhoneInv, WaitFacts
<1>7. RestoreFacts'
  <2>1. CASE ui' = ui /\ ui # "starting"
    BY <1>1, <2>1 DEF Inv, PhoneInv, RestoreFacts
  <2>2. CASE ui' # ui
    <3>1. ui = "starting" /\ ui' \in People
      BY <2>2
    <3>2. \A d \in Calls \ {c} : call'[d] = NoCall
      BY <1>1, <3>1 DEF Inv, PhoneInv, RestoreFacts
    <3>3. QED  BY <1>1, <3>1, <3>2, CallFacts, SessionConstants DEF RestoreFacts, SessionConstants
  <2>3. CASE ui' = ui /\ ui = "starting"
    <3>1. call[c].kind = "me" /\ ui' \notin People
      BY <2>3, SessionConstants DEF Inv, PhoneInv, RestoreFacts, SessionConstants
    <3>2. QED  BY <3>1
  <2>4. QED  BY <2>1, <2>2, <2>3
<1>8. QED  BY <1>3, <1>4, <1>5, <1>6, <1>7 DEF Inv, PhoneInv

LEMMA SucceedsStep == ASSUME Inv, NEW c \in Calls, Succeeds(c) PROVE Inv'
<1> DEFINE p == call[c].token
           k == IF call[c].kind = "delete" THEN Closing ELSE NoCall
<1>1. /\ call[c] # NoCall /\ ~call[c].waiting /\ LetsIn(p)
      /\ call' = [call EXCEPT ![c] = k] /\ k \in {NoCall, Closing}
      /\ ui' = IF call[c].kind = "me" THEN p ELSE ui
      /\ UNCHANGED <<srv, store, header, renewal, pending, overlap>>
  BY DEF Succeeds, InFlight
<1>2. p # None /\ p \in People
  BY <1>1 DEF LetsIn, Inv, PhoneInv, PhoneTypeOK, Call, Access
<1>3. ServerInv' /\ GrantsKept
  <2>1. CASE call[c].kind = "delete"
    <3>1. account' = Closed(p) /\ grant' = WithoutGrantsOf(p)
      BY <2>1 DEF Succeeds
    <3>2. QED  BY <1>1, <1>2, <3>1, Deletes
  <2>2. CASE call[c].kind # "delete"
    <3>1. UNCHANGED <<account, grant>>
      BY <2>2 DEF Succeeds
    <3>2. QED  BY <1>1, <3>1, ServerUnchanged DEF server, GrantsKept
  <2>3. QED  BY <2>1, <2>2
<1>4. CASE call[c].kind = "me"
  <2>1. ui = "starting" /\ p = header
    <3>1. ui = "starting" /\ ~overlap /\ header # None
      BY <1>1, <1>4 DEF Inv, PhoneInv, RestoreFacts
    <3>2. Shown
      BY <3>1, SessionConstants DEF Shown, SessionConstants
    <3>3. QED  BY <1>2, <3>1, <3>2 DEF Inv, PhoneInv, Presence
  <2> HIDE DEF k, p
  <2>2. QED  BY <1>1, <1>2, <1>3, <1>4, <2>1, Returned
<1>5. CASE call[c].kind # "me"
  <2> HIDE DEF k, p
  <2>1. QED  BY <1>1, <1>3, <1>5, Returned
<1>6. QED  BY <1>4, <1>5

LEMMA FailsStep == ASSUME Inv, NEW c \in Calls, Fails(c) PROVE Inv'
<1>1. /\ call[c] # NoCall /\ ~call[c].waiting /\ call' = [call EXCEPT ![c] = NoCall]
      /\ UNCHANGED <<srv, renewal, store, storing, overlap>>
      /\ IF call[c].kind = "me" THEN ClearedTimes(1) ELSE UNCHANGED <<header, ui, removals>>
  BY DEF Fails, InFlight, Reject, ClearLocalSession
<1>2. ServerInv' /\ GrantsKept
  <2>1. CASE UNCHANGED <<account, grant>>
    BY <1>1, <2>1, ServerUnchanged DEF server, GrantsKept
  <2>2. CASE /\ LetsIn(call[c].token) /\ account' = Closed(call[c].token)
             /\ grant' = WithoutGrantsOf(call[c].token)
    <3>1. call[c].token \in People
      BY <2>2 DEF LetsIn, Inv, PhoneInv, PhoneTypeOK, Call, Access
    <3>2. QED  BY <1>1, <2>2, <3>1, Deletes
  <2>3. QED  BY <2>1, <2>2 DEF Fails
<1>3. CASE call[c].kind = "me"
  <2>1. UNCHANGED server
    BY <1>1, <1>3 DEF Fails, server
  <2>2. /\ call' \in [Calls -> Call] /\ call'[c] = NoCall
        /\ \A d \in Calls \ {c} : call'[d] = call[d]
    BY <1>1, CallFacts DEF Inv, PhoneInv, PhoneTypeOK
  <2>3. ASSUME NEW d \in Calls, call'[d].kind = "me" PROVE FALSE
    <3>1. d # c /\ call[d].kind = "me" /\ call[d] # NoCall
      BY <2>2, <2>3, CallFacts
    <3>2. QED  BY <1>1, <1>3, <3>1 DEF Inv, PhoneInv, RestoreFacts
  <2>4. \A d \in Calls : call[d].waiting => call'[d] = call[d]
    BY <1>1, <2>2
  <2>5. QED  BY <1>1, <1>2, <1>3, <2>1, <2>2, <2>3, <2>4, Cleared
<1>4. CASE call[c].kind # "me"
  <2>1. UNCHANGED <<header, ui, pending>>
    BY <1>1, <1>4 DEF pending
  <2>2. QED  BY <1>1, <1>2, <1>4, <2>1, Returned
<1>5. QED  BY <1>3, <1>4

\* The app starts again: it trusts what it had stored until it hears otherwise.
LEMMA RestartStep == ASSUME Inv, NEW c \in Calls, Restart(c) PROVE Inv'
<1>1. /\ srv' = [s \in Slots |-> Kept(srv[s], srv[s].phase, FALSE)]
      /\ header' = store.access /\ renewal' = NoRenewal /\ UNCHANGED <<account, grant, store>>
      /\ storing' = {} /\ removals' = 0 /\ overlap' = FALSE
      /\ ui' = IF store.access = None THEN None ELSE "starting"
      /\ call' = [d \in Calls |->
                   IF d = c /\ store.access # None
                     THEN [NoCall EXCEPT !.kind = "me", !.token = store.access] ELSE NoCall]
  BY DEF Restart
<1>2. \A s \in Slots : LetGoOf(srv'[s], srv[s])
  BY <1>1, LetGoFacts DEF Inv, ServerInv, TxnOK
<1>3. ServerInv'
  BY <1>1, <1>2, ServerLetGo DEF Inv
<1>4. \A op : Awaited(op)' = {}
  <2>1. \A s \in Slots : ~srv'[s].awaited
    BY <1>1 DEF Kept, NoTxn, Inv, ServerInv, TxnOK, Txn
  <2>2. QED  BY <2>1 DEF Awaited
<1>5. store.access \in Access \cup {None}
  BY DEF Inv, PhoneInv, PhoneTypeOK
<1>6. \A d \in Calls :
        /\ call'[d] \in Call
        /\ call'[d].token # None => call'[d].token = store.access
        /\ call'[d] # NoCall => d = c /\ store.access # None /\ call'[d].kind = "me"
        /\ call'[d].kind = "me" => store.access # None
  BY <1>1, <1>5 DEF Call, NoCall
<1>7. PhoneTypeOK'
  <2>1. call' \in [Calls -> Call]
    BY <1>1, <1>6
  <2>2. QED  BY <1>1, <1>5, <2>1 DEF Inv, PhoneInv, PhoneTypeOK, Renewal, NoRenewal
<1>8. StoreFacts'
  BY <1>1 DEF Inv, PhoneInv, StoreFacts
<1>9. ui' = None \/ (ui' = "starting" /\ store.access # None)
  BY <1>1
<1>10. Presence'
  <2>1. ui' \notin People
    BY <1>9, SessionConstants DEF SessionConstants
  <2>2. QED  BY <1>1, <1>4, <1>6, <1>9, <2>1 DEF Presence, Shown, NoRenewal
<1>11. WaitFacts' /\ RestoreFacts'
  BY <1>1, <1>4, <1>6, <1>9, SessionConstants DEF WaitFacts, RestoreFacts, SessionConstants
<1>12. QED  BY <1>3, <1>7, <1>8, <1>10, <1>11 DEF Inv, PhoneInv

-----------------------------------------------------------------------------
(* The theorems *)

LEMMA NextInv == ASSUME Inv, Next PROVE Inv'
<1>1. ASSUME NEW s \in Slots, Serve(s) \/ Receive(s) \/ SignIn(s) PROVE Inv'
  BY <1>1, VerifyOtpStep, BuildTokenResponseStep, ReadGrantStep, FlushRotationStep,
     RotateGrantStep, AbortStep, SignedInStep, SignInFailsStep, StoreTokensStep,
     RefreshFailsStep, SignInStep DEF Serve, Receive
<1>2. ASSUME NEW c \in Calls,
             Return(c) \/ Restart(c) \/ Logout(c) \/ Send(c, "api") \/ Send(c, "delete")
      PROVE  Inv'
  BY <1>2, SucceedsStep, FailsStep, AwaitRefreshStep, EndSessionStep, RestartStep, LogoutStep,
     SendStep DEF Return
<1>3. ASSUME Renew \/ Post \/ Write PROVE Inv'
  BY <1>3, NothingToPostStep, UseNewTokenStep, DropTokensStep, GiveUpStep, PostRefreshStep,
     ClearStoreStep, StoreSignInStep DEF Renew, Post, Write
<1>4. ProfileCalls \subseteq Calls
  BY SessionConstants DEF SessionConstants
<1>5. QED  BY <1>1, <1>2, <1>3, <1>4 DEF Next

LEMMA StutterInv == ASSUME Inv, UNCHANGED vars PROVE Inv'
<1>1. ServerInv'
  BY ServerUnchanged DEF vars
<1>2. GrantsKept /\ UNCHANGED phone /\ srv' = [slot \in Slots |-> srv'[slot]]
  BY DEF GrantsKept, vars, server, Inv, ServerInv
<1>3. \A s \in Slots : srv'[s] = srv[s]
  BY DEF vars, server
<1>4. QED  BY <1>1, <1>2, <1>3, PhoneKept DEF Inv

LEMMA Invariance == Spec => []Inv
<1>1. Init => Inv
  BY InitInv
<1>2. Inv /\ [Next]_vars => Inv'
  BY NextInv, StutterInv
<1>3. QED  BY <1>1, <1>2, PTL DEF Spec

\* The tables, the transactions and what the phone holds keep their form, and a
\* token that can be redeemed belongs to somebody (models.py, http.ts,
\* AuthContext).
THEOREM TypeCorrect == Spec => []TypeOK
<1>1. ASSUME Inv PROVE TypeOK
  <2>1. srv \in [Slots -> Txn]
    BY <1>1 DEF Inv, ServerInv, TxnOK
  <2>2. \A g \in Grants : grant[g].state \in {"live", "revoked"} => grant[g].owner # None
    BY <1>1, SessionConstants DEF Inv, ServerInv, GrantFacts, SessionConstants
  <2>3. \A s \in Slots : srv[s].phase \in {"read", "flushed", "done"} => srv[s].who # None
    BY <1>1 DEF Inv, ServerInv, TxnOK
  <2>4. QED  BY <1>1, <2>1, <2>2, <2>3 DEF Inv, ServerInv, PhoneInv, PhoneTypeOK, TypeOK
<1>2. QED  BY <1>1, Invariance, PTL

\* Rotation (refresh_session, _create_refresh_token): however many sessions are
\* refreshed at a time, whatever answers are lost and however often the app is
\* killed, a login never has two tokens that can be redeemed.
THEOREM RotationKept ==
  ASSUME OneRefreshPerGrant
  PROVE  Spec => []OneLiveGrantPerLogin
<1>1. Inv => OneLiveGrantPerLogin
  BY DEF Inv, ServerInv, RotationFacts
<1>2. QED  BY <1>1, Invariance, PTL

\* Whoever the app shows as signed in has an access token in the header; and if
\* nothing of an earlier session was left when the code was accepted, header,
\* stored tokens and requests in flight speak for the user shown (AuthContext,
\* http.ts), with any number of requests that wait for the shared refresh.
THEOREM SpeaksForItsUser == Spec => []ActsAsSignedIn
<1>1. ASSUME Inv PROVE ActsAsSignedIn
  <2> SUFFICES ASSUME ui \in People
               PROVE  /\ header # None
                      /\ ~overlap =>
                           /\ header = ui
                           /\ \A c \in Calls : call[c].token # None => call[c].token = ui
                           /\ IF store = Nothing THEN storing # {} \/ renewal.phase = "dropped"
                              ELSE store.access = ui /\ grant[store.refresh].owner = ui
    BY DEF ActsAsSignedIn
  <2>1. ui # None /\ header # None
    BY <1>1, SessionConstants DEF Inv, PhoneInv, Presence, SessionConstants
  <2>2. ASSUME ~overlap
        PROVE  /\ header = ui
               /\ \A c \in Calls : call[c].token # None => call[c].token = ui
               /\ IF store = Nothing THEN storing # {} \/ renewal.phase = "dropped"
                  ELSE store.access = ui /\ grant[store.refresh].owner = ui
    <3>1. Shown
      BY <2>1, <2>2 DEF Shown
    <3>2. store = Nothing <=> store.access = None
      BY <1>1 DEF Inv, PhoneInv, PhoneTypeOK, StoreFacts, Nothing
    <3>3. QED  BY <1>1, <3>1, <3>2 DEF Inv, PhoneInv, Presence, StoreFacts
  <2>3. QED  BY <2>1, <2>2
<1>2. QED  BY <1>1, Invariance, PTL

=============================================================================
