------------------------- MODULE OtpChallengesProofs -------------------------
(***************************************************************************)
(* Login codes, for any number of requests and any settings under which a  *)
(* lock outlives the code it locks.                                        *)
(***************************************************************************)
EXTENDS OtpChallenges, TLAPS

-----------------------------------------------------------------------------
(* The inductive invariant *)

\* The row is the one of the last code; it has attempts left, or is locked for
\* longer than its code lives.
RowFacts ==
  Exists(challenge) =>
    /\ challenge.serial <= issued
    /\ uses[challenge.serial] = 0
    /\ challenge.expires <= now + Ttl
    /\ challenge.left >= 0
    /\ challenge.left = 0 => challenge.locked > challenge.expires

\* A request past its look at the row holds the lock, and its snapshot is the row.
LockFacts ==
  /\ \A k \in Requests : req[k].step \in {"found", "check"} <=> holder = k
  /\ \A k \in Requests : holder = k => Exists(challenge) /\ req[k].snap = challenge

\* A request's clock is behind.
ClockFacts == \A k \in Requests : req[k].at <= now

UseFacts ==
  /\ \A s \in Serials : uses[s] <= 1
  /\ \A s \in Serials : s > issued => uses[s] = 0

NeverShort == ~Exists(challenge) => challenge = NoRow

Inv == TypeOK /\ RowFacts /\ LockFacts /\ ClockFacts /\ UseFacts /\ NeverShort

-----------------------------------------------------------------------------
(* What steps share *)

\* A request that is over is well typed.
LEMMA NoReqType ==
  /\ NoRow \in Row /\ ~Exists(NoRow)
  /\ NoReq \in Req /\ NoReq.step = "idle" /\ NoReq.at = 0
  BY OtpConstants DEF NoReq, NoRow, Req, Row, Exists

\* One request changes, and its clock stays behind.
LEMMA RequestChanges ==
  ASSUME Inv, NEW k \in Requests, NEW r \in Req, r.at <= now,
         req' = [req EXCEPT ![k] = r], UNCHANGED now
  PROVE  /\ req' \in [Requests -> Req] /\ ClockFacts'
         /\ req'[k] = r /\ \A j \in Requests \ {k} : req'[j] = req[j]
<1>1. req' \in [Requests -> Req] /\ req'[k] = r /\ \A j \in Requests \ {k} : req'[j] = req[j]
  BY DEF Inv, TypeOK
<1>2. ClockFacts'
  BY <1>1 DEF Inv, ClockFacts
<1>3. QED  BY <1>1, <1>2

\* A request is over.
LEMMA RequestOver ==
  ASSUME Inv, NEW k \in Requests, Done(k), UNCHANGED now
  PROVE  /\ req' \in [Requests -> Req] /\ ClockFacts'
         /\ req'[k] = NoReq /\ \A j \in Requests \ {k} : req'[j] = req[j]
<1>1. NoReq \in Req /\ NoReq.at <= now
  BY NoReqType DEF Inv, TypeOK
<1>2. req' = [req EXCEPT ![k] = NoReq]
  BY DEF Done
<1>3. QED  BY <1>1, <1>2, RequestChanges

\* The row and the codes are left alone.
LEMMA RowKept ==
  ASSUME Inv, UNCHANGED <<now, challenge, issued, uses>>
  PROVE  RowFacts' /\ UseFacts' /\ NeverShort'
  BY DEF Inv, RowFacts, UseFacts, NeverShort

\* A request without the lock moves on without it.
LEMMA LockKept ==
  ASSUME Inv, NEW k \in Requests, \A j \in Requests \ {k} : req'[j] = req[j],
         req[k].step \notin {"found", "check"}, req'[k].step \notin {"found", "check"},
         UNCHANGED holder, holder = None \/ UNCHANGED challenge
  PROVE  LockFacts'
<1>1. holder # k
  BY DEF Inv, LockFacts
<1>2. ASSUME NEW j \in Requests, j # k
      PROVE  /\ req'[j].step \in {"found", "check"} <=> holder' = j
             /\ holder' = j => Exists(challenge)' /\ req'[j].snap = challenge'
  BY <1>2, OtpConstants DEF Inv, LockFacts, Exists
<1>3. QED  BY <1>1, <1>2 DEF LockFacts

\* A request takes the lock of the row it found.
LEMMA LockTaken ==
  ASSUME Inv, NEW k \in Requests, \A j \in Requests \ {k} : req'[j] = req[j],
         RowFree, Exists(challenge), holder' = k, UNCHANGED challenge,
         req'[k].step \in {"found", "check"}, req'[k].snap = challenge
  PROVE  LockFacts'
<1>1. \A j \in Requests : req[j].step \notin {"found", "check"}
  BY OtpConstants DEF Inv, LockFacts, RowFree
<1>2. QED  BY <1>1 DEF LockFacts, Exists

\* The holder commits or rolls back: nobody holds the lock.
LEMMA LockGivenBack ==
  ASSUME Inv, NEW k \in Requests, \A j \in Requests \ {k} : req'[j] = req[j],
         req[k].step \in {"found", "check"}, req'[k].step \notin {"found", "check"},
         Unlocked(k)
  PROVE  LockFacts' /\ holder' = None
<1>1. holder = k /\ holder' = None
  BY DEF Inv, LockFacts, Unlocked
<1>2. \A j \in Requests \ {k} : req[j].step \notin {"found", "check"}
  BY <1>1 DEF Inv, LockFacts
<1>3. QED  BY <1>1, <1>2, OtpConstants DEF LockFacts

\* The row of a new code.
LEMMA StoredRow ==
  ASSUME Inv, NEW k \in Requests, Store(k)
  PROVE  /\ challenge' \in Row /\ issued' \in 0..MaxIssued
         /\ sms' \in [Serials -> {"none", "sending", "sent", "failed"}]
         /\ uses' \in [Serials -> Nat] /\ now' \in Nat
         /\ req' \in [Requests -> Req]
         /\ req'[k].step = "sms" /\ \A j \in Requests \ {k} : req'[j] = req[j]
         /\ RowFacts' /\ UseFacts' /\ NeverShort' /\ ClockFacts'
<1> DEFINE r == [req[k] EXCEPT !.step = "sms", !.snap = NoRow, !.serial = issued + 1]
<1>1. req[k] \in Req /\ req[k].at \in Nat /\ req[k].at <= now /\ issued \in 0..MaxIssued /\ now \in Nat
  BY DEF Inv, TypeOK, Req, ClockFacts
<1>2. issued + 1 \in Serials
  BY <1>1, OtpConstants DEF Store, Serials
<1>3. r \in Req /\ r.at = req[k].at /\ r.step = "sms"
  BY <1>1, <1>2, NoReqType DEF Req
<1>4. req' = [req EXCEPT ![k] = r] /\ UNCHANGED now
  BY DEF Store
<1> HIDE DEF r
<1>5. /\ req' \in [Requests -> Req] /\ ClockFacts'
      /\ req'[k] = r /\ \A j \in Requests \ {k} : req'[j] = req[j]
  BY <1>1, <1>3, <1>4, RequestChanges
<1>6. /\ challenge' = Fresh(k) /\ Fresh(k) \in Row /\ Fresh(k).serial = issued + 1
      /\ Fresh(k).left = MaxAttempts /\ Fresh(k).expires = req[k].at + Ttl
  BY <1>1, <1>2, OtpConstants DEF Store, Fresh, Row
<1>7. /\ issued' = issued + 1 /\ UNCHANGED <<now, uses>>
      /\ sms' = [sms EXCEPT ![issued + 1] = "sending"]
  BY DEF Store
<1>8. RowFacts'
  BY <1>1, <1>2, <1>6, <1>7, OtpConstants DEF RowFacts, Inv, UseFacts, TypeOK
<1>9. UseFacts'
  BY <1>1, <1>7 DEF UseFacts, Inv, Serials
<1>10. NeverShort'
  BY <1>1, <1>6 DEF NeverShort, Exists
<1>11. /\ issued' \in 0..MaxIssued /\ now' \in Nat
       /\ sms' \in [Serials -> {"none", "sending", "sent", "failed"}] /\ uses' \in [Serials -> Nat]
  BY <1>1, <1>2, <1>7 DEF Inv, TypeOK, Serials
<1>12. QED  BY <1>3, <1>5, <1>6, <1>8, <1>9, <1>10, <1>11

-----------------------------------------------------------------------------
(* Initial state and clock *)

\* No code has been stored.
LEMMA InitInv == Init => Inv
<1>1. Init => TypeOK
  BY NoReqType, OtpConstants DEF Init, TypeOK, Serials
<1>2. Init => RowFacts /\ UseFacts /\ NeverShort
  BY DEF Init, RowFacts, UseFacts, NeverShort, NoRow, Exists
<1>3. Init => LockFacts /\ ClockFacts
  BY NoReqType, OtpConstants DEF Init, LockFacts, ClockFacts
<1>4. QED  BY <1>1, <1>2, <1>3 DEF Inv

\* Time passes.
LEMMA TickInv ==
  ASSUME Inv, Tick
  PROVE  Inv'
<1>1. now \in Nat /\ now' = now + 1
  BY DEF Inv, TypeOK, Tick
<1>2. TypeOK'
  BY <1>1 DEF Inv, TypeOK, Tick, history
<1>3. RowFacts'
  <2>1. Exists(challenge) => challenge.expires \in Nat
    BY DEF Inv, TypeOK, Row
  <2>2. QED  BY <1>1, <2>1, OtpConstants DEF Inv, RowFacts, Tick, Exists, history
<1>4. LockFacts' /\ UseFacts' /\ NeverShort'
  BY DEF Inv, LockFacts, UseFacts, NeverShort, Tick, Exists, history
<1>5. ClockFacts'
  <2>1. \A k \in Requests : req[k].at \in Nat
    BY DEF Inv, TypeOK, Req
  <2>2. QED  BY <1>1, <2>1 DEF Inv, ClockFacts, Tick
<1>6. QED  BY <1>2, <1>3, <1>4, <1>5 DEF Inv

-----------------------------------------------------------------------------
(* Steps that leave the row alone *)

\* A request moves between steps that hold no lock.
LEMMA StepWithoutLock ==
  ASSUME Inv, NEW k \in Requests, NEW r \in Req, r.at <= now,
         req' = [req EXCEPT ![k] = r],
         req[k].step \notin {"found", "check"}, r.step \notin {"found", "check"},
         sms' \in [Serials -> {"none", "sending", "sent", "failed"}],
         UNCHANGED <<now, challenge, holder, issued, uses>>
  PROVE  Inv'
<1>1. /\ req' \in [Requests -> Req] /\ ClockFacts'
      /\ req'[k] = r /\ \A j \in Requests \ {k} : req'[j] = req[j]
  BY RequestChanges
<1>2. LockFacts'
  BY <1>1, LockKept
<1>3. TypeOK'
  BY <1>1 DEF Inv, TypeOK
<1>4. QED  BY <1>1, <1>2, <1>3, RowKept DEF Inv

\* A request that found a row holds its lock.
LEMMA StepWithLock ==
  ASSUME Inv, NEW k \in Requests, NEW step \in {"found", "check"},
         RowFree, Exists(challenge), holder' = k,
         req' = [req EXCEPT ![k].step = step, ![k].snap = challenge],
         UNCHANGED <<now, challenge, history>>
  PROVE  Inv'
<1> DEFINE r == [req[k] EXCEPT !.step = step, !.snap = challenge]
<1>1. r \in Req /\ r.at <= now /\ r.step = step /\ r.snap = challenge
  BY DEF Inv, TypeOK, Req, ClockFacts
<1>2. req' = [req EXCEPT ![k] = r]
  OBVIOUS
<1> HIDE DEF r
<1>3. /\ req' \in [Requests -> Req] /\ ClockFacts'
      /\ req'[k] = r /\ \A j \in Requests \ {k} : req'[j] = req[j]
  BY <1>1, <1>2, RequestChanges
<1>4. LockFacts'
  BY <1>1, <1>3, LockTaken
<1>5. TypeOK'
  BY <1>3 DEF Inv, TypeOK, history
<1>6. QED  BY <1>3, <1>4, <1>5, RowKept DEF Inv, history

\* A request ends and gives the lock back, if it has it, with the row as it was.
LEMMA EndsUnchanged ==
  ASSUME Inv, NEW k \in Requests, Done(k), Unlocked(k), UNCHANGED <<now, challenge, history>>
  PROVE  Inv'
<1>1. /\ req' \in [Requests -> Req] /\ ClockFacts'
      /\ req'[k] = NoReq /\ \A j \in Requests \ {k} : req'[j] = req[j]
  BY RequestOver
<1>2. LockFacts'
  <2>1. CASE req[k].step \in {"found", "check"}
    BY <1>1, <2>1, NoReqType, LockGivenBack
  <2>2. CASE req[k].step \notin {"found", "check"}
    <3>1. UNCHANGED holder
      BY <2>2 DEF Inv, LockFacts, Unlocked
    <3>2. QED  BY <1>1, <2>2, <3>1, NoReqType, LockKept
  <2>3. QED  BY <2>1, <2>2
<1>3. TypeOK'
  BY <1>1 DEF Inv, TypeOK, Unlocked, history
<1>4. QED  BY <1>1, <1>2, <1>3, RowKept DEF Inv, history

\* A request ends without the lock, with the row as it was.
LEMMA EndsWithoutLock ==
  ASSUME Inv, NEW k \in Requests, Done(k), req[k].step \notin {"found", "check"},
         UNCHANGED <<now, challenge, holder, history>>
  PROVE  Inv'
<1>1. Unlocked(k)
  BY DEF Inv, LockFacts, Unlocked
<1>2. QED  BY <1>1, EndsUnchanged

-----------------------------------------------------------------------------
(* Steps that write the row *)

\* A new code replaces the row of the holder.
LEMMA ReplaceRowInv ==
  ASSUME Inv, NEW k \in Requests, ReplaceRow(k)
  PROVE  Inv'
<1>1. CASE Store(k)
  <2>1. LockFacts' /\ holder' = None
    BY <1>1, StoredRow, LockGivenBack DEF ReplaceRow
  <2>2. TypeOK'
    BY <1>1, <2>1, StoredRow DEF TypeOK
  <2>3. QED  BY <1>1, <2>1, <2>2, StoredRow DEF Inv
<1>2. CASE Done(k) /\ UNCHANGED <<now, challenge, history>>
  BY <1>2, EndsUnchanged DEF ReplaceRow
<1>3. QED  BY <1>1, <1>2 DEF ReplaceRow

\* A new code is inserted where there is no row, and so no lock.
LEMMA InsertRowInv ==
  ASSUME Inv, NEW k \in Requests, InsertRow(k)
  PROVE  Inv'
<1>1. CASE MayInsert /\ Store(k)
  <2>1. holder = None
    BY <1>1 DEF MayInsert, Inv, LockFacts, TypeOK
  <2>2. LockFacts'
    BY <1>1, <2>1, StoredRow, LockKept DEF InsertRow
  <2>3. TypeOK'
    BY <1>1, StoredRow DEF TypeOK, Inv, InsertRow
  <2>4. QED  BY <1>1, <2>2, <2>3, StoredRow DEF Inv
<1>2. CASE Done(k) /\ UNCHANGED <<now, challenge, history>>
  BY <1>2, EndsWithoutLock DEF InsertRow
<1>3. QED  BY <1>1, <1>2 DEF InsertRow

\* The clean-up after a failed SMS.
LEMMA ClearInv ==
  ASSUME Inv, NEW k \in Requests, Clear(k)
  PROVE  Inv'
<1>1. /\ req' \in [Requests -> Req] /\ ClockFacts'
      /\ req'[k] = NoReq /\ \A j \in Requests \ {k} : req'[j] = req[j]
  BY RequestOver DEF Clear
<1>2. LockFacts'
  BY <1>1, NoReqType, LockKept DEF Clear, RowFree
<1>3. TypeOK'
  BY <1>1, NoReqType DEF Inv, TypeOK, Clear, history
<1>4. RowFacts' /\ UseFacts' /\ NeverShort'
  BY NoReqType DEF Inv, RowFacts, UseFacts, NeverShort, Clear, Exists, history
<1>5. QED  BY <1>1, <1>2, <1>3, <1>4 DEF Inv

\* A code is compared with the row: accepted, refused, or found expired or locked.
LEMMA CheckInv ==
  ASSUME Inv, NEW k \in Requests, Check(k)
  PROVE  Inv'
<1> DEFINE row == req[k].snap
<1>1. /\ row = challenge /\ Exists(challenge) /\ row \in Row /\ now \in Nat
      /\ req[k].step = "check" /\ row.serial \in Serials
  BY DEF Check, Inv, LockFacts, TypeOK, Exists, Row
<1>2. /\ req' \in [Requests -> Req] /\ ClockFacts'
      /\ req'[k] = NoReq /\ \A j \in Requests \ {k} : req'[j] = req[j]
  BY RequestOver DEF Check
<1>3. LockFacts' /\ holder' = None
  BY <1>1, <1>2, NoReqType, LockGivenBack DEF Check
<1>4. CASE LockedAt(row, now) /\ UNCHANGED <<challenge, uses>>
  BY <1>4, EndsUnchanged DEF Check, history
<1>5. ASSUME challenge' = NoRow, uses' = uses \/ uses' = [uses EXCEPT ![row.serial] = @ + 1]
      PROVE  Inv'
  <2>1. TypeOK'
    BY <1>1, <1>2, <1>3, <1>5, NoReqType DEF Inv, TypeOK, Check
  <2>2. RowFacts' /\ NeverShort'
    BY <1>5, NoReqType DEF RowFacts, NeverShort
  <2>3. UseFacts'
    <3>1. uses[row.serial] = 0 /\ row.serial <= issued /\ issued' = issued /\ issued \in Nat
      BY <1>1 DEF Inv, RowFacts, Check, TypeOK
    <3>2. \A s \in Serials : uses'[s] = uses[s] \/ (s = row.serial /\ uses'[s] = uses[s] + 1)
      BY <1>1, <1>5 DEF Inv, TypeOK
    <3>3. ASSUME NEW s \in Serials PROVE uses'[s] <= 1 /\ (s > issued => uses'[s] = 0)
      <4>1. s \in Int /\ uses[s] \in Nat /\ uses[s] <= 1 /\ (s > issued => uses[s] = 0)
        BY DEF Inv, UseFacts, TypeOK, Serials
      <4>2. QED  BY <3>1, <3>2, <4>1
    <3>4. QED  BY <3>1, <3>3 DEF UseFacts
  <2>4. QED  BY <1>2, <1>3, <2>1, <2>2, <2>3 DEF Inv
<1>6. CASE now <= row.expires /\ ~LockedAt(row, now) /\ challenge' = Wrong(row) /\ UNCHANGED uses
  <2>1. row.left \in Int /\ row.left <= MaxAttempts /\ row.locked \in Nat /\ row.expires \in Nat
    BY <1>1 DEF Row
  <2>2. /\ Wrong(row) \in Row /\ Wrong(row).serial = row.serial /\ Wrong(row).expires = row.expires
        /\ Wrong(row).left = row.left - 1
        /\ Wrong(row).locked = IF row.left - 1 <= 0 THEN now + LockTime ELSE row.locked
    <3> DEFINE left == row.left - 1
               until == IF row.left - 1 <= 0 THEN now + LockTime ELSE row.locked
    <3>1. left \in {n \in Int : n <= MaxAttempts} /\ until \in Nat
      BY <1>1, <2>1, OtpConstants
    <3>2. Wrong(row) = [row EXCEPT !.left = left, !.locked = until]
      BY <1>1 DEF Wrong, Row
    <3> HIDE DEF left, until
    <3>3. /\ Wrong(row) \in Row /\ Wrong(row).serial = row.serial
          /\ Wrong(row).expires = row.expires /\ Wrong(row).left = left /\ Wrong(row).locked = until
      BY <1>1, <3>1, <3>2 DEF Row
    <3>4. QED  BY <3>3 DEF left, until
  <2>3. row.left > 0
    BY <1>1, <1>6, <2>1 DEF Inv, RowFacts, LockedAt
  <2>4. RowFacts'
    BY <1>1, <1>6, <2>1, <2>2, <2>3, OtpConstants DEF Inv, RowFacts, Check, Exists
  <2>5. TypeOK'
    BY <1>2, <1>3, <1>6, <2>2 DEF Inv, TypeOK, Check
  <2>6. UseFacts' /\ NeverShort'
    BY <1>1, <1>6, <2>2 DEF Inv, UseFacts, NeverShort, Check, Exists
  <2>7. QED  BY <1>2, <1>3, <2>4, <2>5, <2>6 DEF Inv
<1>7. QED  BY <1>4, <1>5, <1>6 DEF Check

-----------------------------------------------------------------------------
(* All steps *)

\* Requests begin, and the messages of send_otp that touch no row.
LEMMA QuietInv ==
  ASSUME Inv, NEW k \in Requests,
         BeginSend(k) \/ BeginVerify(k) \/ SmsSent(k) \/ SmsRefused(k) \/ SmsUnreachable(k)
  PROVE  Inv'
<1>1. now \in Nat /\ req[k] \in Req /\ req[k].at <= now
  BY DEF Inv, TypeOK, ClockFacts
<1>2. CASE BeginSend(k)
  <2> DEFINE r == [NoReq EXCEPT !.step = "send", !.at = now]
  <2>1. r \in Req /\ r.at = now /\ r.step = "send"
    BY <1>1, NoReqType DEF Req
  <2>2. req' = [req EXCEPT ![k] = r] /\ req[k].step = "idle"
    BY <1>2, NoReqType DEF BeginSend
  <2> HIDE DEF r
  <2>3. sms' \in [Serials -> {"none", "sending", "sent", "failed"}]
    BY <1>2 DEF BeginSend, history, Inv, TypeOK
  <2>4. r.at <= now /\ UNCHANGED <<now, challenge, holder, issued, uses>>
    BY <1>1, <1>2, <2>1 DEF BeginSend, history
  <2>5. QED  BY <2>1, <2>2, <2>3, <2>4, StepWithoutLock
<1>3. CASE BeginVerify(k)
  <2> DEFINE r == [NoReq EXCEPT !.step = "verify"]
  <2>1. r \in Req /\ r.at = 0 /\ r.step = "verify"
    BY <1>1, NoReqType DEF Req
  <2>2. req' = [req EXCEPT ![k] = r] /\ req[k].step = "idle"
    BY <1>3, NoReqType DEF BeginVerify
  <2> HIDE DEF r
  <2>3. sms' \in [Serials -> {"none", "sending", "sent", "failed"}]
    BY <1>3 DEF BeginVerify, history, Inv, TypeOK
  <2>4. r.at <= now /\ UNCHANGED <<now, challenge, holder, issued, uses>>
    BY <1>1, <1>3, <2>1 DEF BeginVerify, history
  <2>5. QED  BY <2>1, <2>2, <2>3, <2>4, StepWithoutLock
<1>4. CASE SmsRefused(k)
  <2> DEFINE r == [req[k] EXCEPT !.step = "clear"]
  <2>1. r \in Req /\ r.at = req[k].at /\ r.step = "clear"
    BY <1>1 DEF Req
  <2>2. req' = [req EXCEPT ![k] = r] /\ req[k].step = "sms"
    BY <1>4 DEF SmsRefused, Goto, Inv, TypeOK
  <2> HIDE DEF r
  <2>3. sms' \in [Serials -> {"none", "sending", "sent", "failed"}]
    BY <1>4 DEF SmsRefused, Inv, TypeOK
  <2>4. QED  BY <1>1, <1>4, <2>1, <2>2, <2>3, StepWithoutLock DEF SmsRefused
<1>5. CASE SmsSent(k) \/ SmsUnreachable(k)
  <2>1. sms' \in [Serials -> {"none", "sending", "sent", "failed"}]
    BY <1>5 DEF SmsSent, SmsUnreachable, Inv, TypeOK
  <2>2. NoReq \in Req /\ NoReq.at <= now /\ NoReq.step = "idle"
    BY <1>1, NoReqType
  <2>3. req' = [req EXCEPT ![k] = NoReq] /\ req[k].step = "sms"
    BY <1>5 DEF SmsSent, SmsUnreachable, Done
  <2>4. QED  BY <1>5, <2>1, <2>2, <2>3, StepWithoutLock DEF SmsSent, SmsUnreachable
<1>6. QED  BY <1>2, <1>3, <1>4, <1>5

\* A request looks for the row.
LEMMA LookInv ==
  ASSUME Inv, NEW k \in Requests, LookForSend(k) \/ LookForVerify(k)
  PROVE  Inv'
<1>1. req[k] \in Req /\ req[k].at <= now
  BY DEF Inv, TypeOK, ClockFacts
<1>2. CASE LookForSend(k) /\ ~Exists(challenge)
  <2> DEFINE r == [req[k] EXCEPT !.step = "insert"]
  <2>1. r \in Req /\ r.at = req[k].at /\ r.step = "insert"
    BY <1>1 DEF Req
  <2>2. req' = [req EXCEPT ![k] = r] /\ req[k].step = "send" /\ UNCHANGED holder
    BY <1>2 DEF LookForSend, Goto, Inv, TypeOK
  <2> HIDE DEF r
  <2>3. sms' \in [Serials -> {"none", "sending", "sent", "failed"}]
    BY <1>2 DEF LookForSend, history, Inv, TypeOK
  <2>4. QED  BY <1>1, <1>2, <2>1, <2>2, <2>3, StepWithoutLock DEF LookForSend, history
<1>3. CASE LookForVerify(k) /\ ~Exists(challenge)
  BY <1>3, EndsWithoutLock DEF LookForVerify
<1>4. CASE LookForSend(k) /\ Exists(challenge)
  BY <1>4, StepWithLock DEF LookForSend
<1>5. CASE LookForVerify(k) /\ Exists(challenge)
  BY <1>5, StepWithLock DEF LookForVerify
<1>6. QED  BY <1>2, <1>3, <1>4, <1>5

\* Every step keeps the invariant.
LEMMA NextInv ==
  ASSUME Inv, [Next]_vars
  PROVE  Inv'
<1>1. CASE Tick
  BY <1>1, TickInv
<1>2. ASSUME NEW k \in Requests, Send(k) \/ Verify(k) PROVE Inv'
  BY <1>2, QuietInv, LookInv, ReplaceRowInv, InsertRowInv, ClearInv, CheckInv DEF Send, Verify
<1>3. ASSUME NEW k \in Requests, Abort(k) PROVE Inv'
  BY <1>3, EndsUnchanged DEF Abort
<1>4. CASE UNCHANGED vars
  BY <1>4 DEF vars, history, Inv, TypeOK, RowFacts, LockFacts, ClockFacts, UseFacts, NeverShort, Exists
<1>5. QED  BY <1>1, <1>2, <1>3, <1>4 DEF Next

-----------------------------------------------------------------------------
(* The theorems *)

\* The inductive invariant: a snapshot taken under the row's lock is the row, and
\* a row without attempts is locked for longer than its code lives.
THEOREM InvHolds == Spec => []Inv
<1>1. QED  BY InitInv, NextInv, PTL DEF Spec

\* Every variable keeps its type; attempts are never added up.
THEOREM ChallengeTypeCorrect == Spec => []TypeOK
<1>1. Inv => TypeOK
  BY DEF Inv
<1>2. QED  BY <1>1, InvHolds, PTL

\* attempts_remaining never falls below zero, under any interleaving.
THEOREM AttemptsBounded == Spec => []AttemptsNeverOverdrawn
<1>1. Inv => AttemptsNeverOverdrawn
  BY DEF Inv, NeverShort, RowFacts, AttemptsNeverOverdrawn, NoRow
<1>2. QED  BY <1>1, InvHolds, PTL

\* A code logs in at most once.
THEOREM CodesAreSingleUse == Spec => []CodeAcceptedOnce
<1>1. Inv => CodeAcceptedOnce
  BY DEF Inv, UseFacts, CodeAcceptedOnce
<1>2. QED  BY <1>1, InvHolds, PTL

\* What a step may do to the row that is there.
LEMMA RowChanges ==
  ASSUME Inv, Next, Exists(challenge), challenge' # challenge
  PROVE  \/ \E k \in Requests : req[k].step = "clear" /\ challenge' = NoRow
         \/ ~LockedAt(challenge, now) /\ challenge' = NoRow
         \/ ~LockedAt(challenge, now) /\ challenge'.serial = challenge.serial
         \/ ~LockedAt(challenge, now) /\ now >= challenge.resend
<1>1. now \in Nat /\ challenge \in Row /\ challenge.locked \in Nat /\ challenge.resend \in Nat
  BY DEF Inv, TypeOK, Row
<1>2. PICK k \in Requests : ReplaceRow(k) \/ InsertRow(k) \/ Clear(k) \/ Check(k)
  BY DEF Next, Tick, Abort, Send, Verify, BeginSend, LookForSend, SmsSent, SmsRefused,
         SmsUnreachable, BeginVerify, LookForVerify
<1>3. CASE ReplaceRow(k)
  <2>1. req[k].snap = challenge /\ req[k].at <= now /\ req[k].at \in Nat
    BY <1>3 DEF ReplaceRow, Inv, LockFacts, ClockFacts, TypeOK, Req
  <2>2. MayReplace(challenge, req[k].at)
    BY <1>3, <2>1 DEF ReplaceRow
  <2>3. QED  BY <1>1, <2>1, <2>2 DEF MayReplace, LockedAt
<1>4. CASE InsertRow(k)
  BY <1>4 DEF InsertRow, MayInsert
<1>5. CASE Clear(k)
  BY <1>5 DEF Clear
<1>6. CASE Check(k)
  <2>1. req[k].snap = challenge
    BY <1>6 DEF Check, Inv, LockFacts
  <2>2. Wrong(challenge).serial = challenge.serial
    BY <1>1 DEF Wrong, Row
  <2>3. QED  BY <1>6, <2>1, <2>2 DEF Check
<1>7. QED  BY <1>2, <1>3, <1>4, <1>5, <1>6

\* While the phone is locked only the clean-up of a running request touches its row.
THEOREM LocksLast == Spec => LockLasts
<1> DEFINE A == LockedAt(challenge, now) /\ challenge' # challenge
                  => \E k \in Requests : req[k].step = "clear" /\ challenge' = NoRow
<1>1. ASSUME Inv, [Next]_vars PROVE [A]_vars
  <2>1. SUFFICES ASSUME Next, LockedAt(challenge, now), challenge' # challenge
                 PROVE  \E k \in Requests : req[k].step = "clear" /\ challenge' = NoRow
    BY <1>1 DEF vars
  <2>2. Exists(challenge)
    BY <1>1, <2>1 DEF Inv, NeverShort, NoRow, LockedAt, TypeOK
  <2>3. QED  BY <1>1, <2>1, <2>2, RowChanges
<1> HIDE DEF A
<1>2. Spec => [][A]_vars
  BY <1>1, InvHolds, PTL DEF Spec
<1>3. QED  BY <1>2 DEF A, LockLasts

\* A code is replaced only after the cooldown.
THEOREM CooldownKept == Spec => ReplacedAfterCooldown
<1> DEFINE A == Exists(challenge) /\ challenge'.serial > challenge.serial => now >= challenge.resend
<1>1. ASSUME Inv, [Next]_vars PROVE [A]_vars
  <2>1. SUFFICES ASSUME Next, Exists(challenge), challenge'.serial > challenge.serial
                 PROVE  now >= challenge.resend
    BY <1>1 DEF vars
  <2>2. challenge.serial \in Nat /\ challenge' # challenge
    BY <1>1, <2>1, OtpConstants DEF Inv, TypeOK, Row, Serials
  <2>3. challenge'.serial # challenge.serial /\ challenge' # NoRow
    BY <2>1, <2>2 DEF NoRow
  <2>4. QED  BY <1>1, <2>1, <2>2, <2>3, RowChanges
<1> HIDE DEF A
<1>2. Spec => [][A]_vars
  BY <1>1, InvHolds, PTL DEF Spec
<1>3. QED  BY <1>2 DEF A, ReplacedAfterCooldown
=============================================================================
