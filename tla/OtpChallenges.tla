---------------------------- MODULE OtpChallenges ----------------------------
(***************************************************************************)
(* The login codes of one phone (phones share nothing): requests that send *)
(* a code by SMS and requests that verify one, each on a database session  *)
(* of its own, around one row of otp_challenges.  The row is locked from   *)
(* the moment it is found to the commit; a row that is not there cannot be *)
(* locked.  Between the commit and the clean-up after a failed SMS nothing *)
(* is locked at all.                                                       *)
(***************************************************************************)
EXTENDS Integers

CONSTANTS
  Requests,    \* database sessions
  Ttl,         \* otp_ttl_minutes
  Cooldown,    \* otp_resend_cooldown_seconds
  LockTime,    \* otp_lock_minutes
  MaxAttempts, \* otp_max_verify_attempts
  MaxTime,     \* bounds the clock
  MaxIssued,   \* bounds the codes stored
  None

\* The settings shipped keep a lock beyond the life of the code it locks.
ASSUME OtpConstants ==
  /\ {Ttl, Cooldown, LockTime, MaxAttempts, MaxTime, MaxIssued} \subseteq Nat
  /\ MaxAttempts > 0
  /\ Ttl < LockTime
  /\ None \notin Requests

VARIABLES
  now,       \* the clock
  challenge, \* the row of the phone
  holder,    \* the request that holds the row's lock, or None
  req,       \* what each request is doing
  issued,    \* codes stored so far: the serial of the last one
  sms,       \* for each code: not sent, on its way, sent, failed
  uses       \* for each code: how often it was accepted

history == <<issued, sms, uses>>
vars == <<now, challenge, holder, req, history>>

-----------------------------------------------------------------------------
(* Types *)

Serials == 1..MaxIssued

\* Serial 0 is no row; locked is 0 while locked_until is NULL.
Row == [serial : {0} \cup Serials, expires : Nat, resend : Nat,
        left : {i \in Int : i <= MaxAttempts}, locked : Nat]

NoRow == [serial |-> 0, expires |-> 0, resend |-> 0, left |-> 0, locked |-> 0]

\* at is the request's reading of the clock, snap the row it found, serial the
\* code it stored.
Req == [step   : {"idle", "send", "insert", "found", "sms", "clear", "verify", "check"},
        at     : Nat,
        snap   : Row,
        serial : {0} \cup Serials]

NoReq == [step |-> "idle", at |-> 0, snap |-> NoRow, serial |-> 0]

TypeOK ==
  /\ now \in Nat
  /\ challenge \in Row
  /\ holder \in Requests \cup {None}
  /\ req \in [Requests -> Req]
  /\ issued \in 0..MaxIssued
  /\ sms \in [Serials -> {"none", "sending", "sent", "failed"}]
  /\ uses \in [Serials -> Nat]

-----------------------------------------------------------------------------
(* The row and its lock *)

Exists(row) == row.serial # 0

LockedAt(row, t) == t < row.locked

Tick ==
  /\ now < MaxTime
  /\ now' = now + 1
  /\ UNCHANGED <<challenge, holder, req, history>>

\* Broken variant: the row is read without FOR UPDATE.
NeverHeld == TRUE

RowFree == holder = None

Goto(k, step) == req' = [req EXCEPT ![k].step = step]

Done(k) == req' = [req EXCEPT ![k] = NoReq]

\* A commit or rollback gives the lock back.
Unlocked(k) == holder' = IF holder = k THEN None ELSE holder

\* The lost connection of a request: its transaction is rolled back.
Abort(k) ==
  /\ req[k].step \in {"send", "insert", "found", "clear", "verify", "check"}
  /\ Done(k)
  /\ Unlocked(k)
  /\ UNCHANGED <<now, challenge, history>>

-----------------------------------------------------------------------------
(* send_otp *)

\* The clock is read before the row is waited for.
BeginSend(k) ==
  /\ req[k] = NoReq
  /\ req' = [req EXCEPT ![k] = [NoReq EXCEPT !.step = "send", !.at = now]]
  /\ UNCHANGED <<now, challenge, holder, history>>

\* The row is locked if it is there.
LookForSend(k) ==
  /\ req[k].step = "send"
  /\ \/ /\ ~Exists(challenge)
        /\ Goto(k, "insert")
        /\ UNCHANGED holder
     \/ /\ Exists(challenge) /\ RowFree
        /\ holder' = k
        /\ req' = [req EXCEPT ![k].step = "found", ![k].snap = challenge]
  /\ UNCHANGED <<now, challenge, history>>

\* The row of a new code.
Fresh(k) ==
  [serial |-> issued + 1, expires |-> req[k].at + Ttl, resend |-> req[k].at + Cooldown,
   left |-> MaxAttempts, locked |-> 0]

\* The new code is committed; then its SMS is sent.
Store(k) ==
  /\ issued < MaxIssued
  /\ challenge' = Fresh(k)
  /\ issued' = issued + 1
  /\ sms' = [sms EXCEPT ![issued + 1] = "sending"]
  /\ req' = [req EXCEPT ![k].step = "sms", ![k].snap = NoRow, ![k].serial = issued + 1]
  /\ UNCHANGED <<now, uses>>

\* Broken variant: a locked row is replaced like any other.
MayReplaceLocked(row, t) == t >= row.resend

MayReplace(row, t) == ~LockedAt(row, t) /\ t >= row.resend

\* A row that was found is replaced, or the request refused.
ReplaceRow(k) ==
  /\ req[k].step = "found"
  /\ IF MayReplace(req[k].snap, req[k].at)
     THEN Store(k)
     ELSE Done(k) /\ UNCHANGED <<now, challenge, history>>
  /\ Unlocked(k)

\* Broken variant: an insert that meets a row overwrites it.
InsertAnyway == TRUE

\* The primary key is free.
MayInsert == ~Exists(challenge)

\* A row that was not found is inserted, unless another request was faster: then
\* the key is violated and the request refused.
InsertRow(k) ==
  /\ req[k].step = "insert"
  /\ IF MayInsert THEN Store(k) ELSE Done(k) /\ UNCHANGED <<now, challenge, history>>
  /\ UNCHANGED holder

\* The provider took the message.
SmsSent(k) ==
  /\ req[k].step = "sms"
  /\ sms' = [sms EXCEPT ![req[k].serial] = "sent"]
  /\ Done(k)
  /\ UNCHANGED <<now, challenge, holder, issued, uses>>

\* The provider answered with an error: the challenge is to be cleared.
SmsRefused(k) ==
  /\ req[k].step = "sms"
  /\ sms' = [sms EXCEPT ![req[k].serial] = "failed"]
  /\ Goto(k, "clear")
  /\ UNCHANGED <<now, challenge, holder, issued, uses>>

\* The provider was not reached: the client's error is none of the caught ones.
SmsUnreachable(k) ==
  /\ req[k].step = "sms"
  /\ sms' = [sms EXCEPT ![req[k].serial] = "failed"]
  /\ Done(k)
  /\ UNCHANGED <<now, challenge, holder, issued, uses>>

\* clear_challenge deletes the phone's row, whoever stored it.
Clear(k) ==
  /\ req[k].step = "clear"
  /\ RowFree
  /\ challenge' = NoRow
  /\ Done(k)
  /\ UNCHANGED <<now, holder, history>>

-----------------------------------------------------------------------------
(* verify_otp *)

BeginVerify(k) ==
  /\ req[k] = NoReq
  /\ req' = [req EXCEPT ![k] = [NoReq EXCEPT !.step = "verify"]]
  /\ UNCHANGED <<now, challenge, holder, history>>

\* NOT_FOUND, or the row is locked.
LookForVerify(k) ==
  /\ req[k].step = "verify"
  /\ \/ ~Exists(challenge) /\ Done(k) /\ UNCHANGED holder
     \/ /\ Exists(challenge) /\ RowFree
        /\ holder' = k
        /\ req' = [req EXCEPT ![k].step = "check", ![k].snap = challenge]
  /\ UNCHANGED <<now, challenge, history>>

\* Broken variant: the last attempt does not lock.
WrongWithoutLock(row) == [row EXCEPT !.left = @ - 1]

\* A wrong code costs an attempt, the last one locks the row.
Wrong(row) ==
  [row EXCEPT !.left = @ - 1, !.locked = IF row.left - 1 <= 0 THEN now + LockTime ELSE @]

\* The code that was typed is right or wrong; what it is compared with is the
\* row found.  LOCKED comes before EXPIRED, EXPIRED before the comparison.
Check(k) ==
  LET row == req[k].snap IN
  /\ req[k].step = "check"
  /\ \/ LockedAt(row, now) /\ UNCHANGED <<challenge, uses>>
     \/ ~LockedAt(row, now) /\ now > row.expires /\ challenge' = NoRow /\ UNCHANGED uses
     \/ /\ ~LockedAt(row, now) /\ now <= row.expires
        /\ \/ challenge' = NoRow /\ uses' = [uses EXCEPT ![row.serial] = @ + 1]
           \/ challenge' = Wrong(row) /\ UNCHANGED uses
  /\ Done(k)
  /\ Unlocked(k)
  /\ UNCHANGED <<now, issued, sms>>

-----------------------------------------------------------------------------
Init ==
  /\ now = 0
  /\ challenge = NoRow
  /\ holder = None
  /\ req = [k \in Requests |-> NoReq]
  /\ issued = 0
  /\ sms = [s \in Serials |-> "none"]
  /\ uses = [s \in Serials |-> 0]

Send(k) ==
  \/ BeginSend(k) \/ LookForSend(k) \/ ReplaceRow(k) \/ InsertRow(k)
  \/ SmsSent(k) \/ SmsRefused(k) \/ SmsUnreachable(k) \/ Clear(k)

Verify(k) == BeginVerify(k) \/ LookForVerify(k) \/ Check(k)

Next == Tick \/ \E k \in Requests : Send(k) \/ Verify(k) \/ Abort(k)

Spec == Init /\ [][Next]_vars
-----------------------------------------------------------------------------
(* Safety *)

\* No code is compared again after its last attempt, however verifications and
\* resends interleave with the clock: attempts_remaining never falls below zero.
AttemptsNeverOverdrawn == challenge.left >= 0

\* A code logs in once, also when it is typed in two requests at the same time.
CodeAcceptedOnce == \A s \in Serials : uses[s] <= 1

\* While the phone is locked nothing touches its row, except the clean-up after
\* the failed SMS of a request that was already running.
LockLasts ==
  [][ LockedAt(challenge, now) /\ challenge' # challenge
        => \E k \in Requests : req[k].step = "clear" /\ challenge' = NoRow ]_vars

\* A code whose SMS may still arrive is replaced by another one only after the
\* cooldown, also by requests that saw no row when they looked.
ReplacedAfterCooldown ==
  [][ Exists(challenge) /\ challenge'.serial > challenge.serial => now >= challenge.resend ]_vars

=============================================================================
