------------------------------- MODULE Accounts -------------------------------
(***************************************************************************)
(* The rows of users: who gets one by signing in, who may use it, what the *)
(* administrators and the owner do to it, and what it decides about the    *)
(* welcome offer.                                                          *)
(*                                                                         *)
(* A request is two steps, as in OrderLifecycle: Begin authorizes its      *)
(* actor and reads what it needs, Commit writes.  SQLAlchemy updates only  *)
(* the columns whose value the request changed from what it had read.      *)
(* Signing in is one step; its own races are the subject of Sessions.      *)
(***************************************************************************)
EXTENDS Naturals, FiniteSets

CONSTANTS
  People,         \* primary keys of users (bounds the model)
  Phones,         \* the ways phone numbers are written, as rows keep them
  IdentityOf,     \* the telephone each of them reaches, and what stands for none
  BypassAccounts, \* settings.otp_bypass_accounts: phone to role
  KioskPhone,     \* settings.kiosk_frontdesk_phone_number
  Purchases,      \* primary keys of orders (bounds the model)
  Handlers,       \* requests served at a time
  MaxServed,      \* bound: requests begun
  NoOne           \* NULL

VARIABLES
  users,      \* the rows of users
  tokenHolders, \* people an access token was handed to
  purchases,  \* the orders: whose, how they stand, at a welcome price?
  claimed,    \* rows of first_time_offer_claims
  serving,    \* what each handler does
  served      \* how many requests have begun

accountVars == <<users, tokenHolders, purchases, claimed, serving, served>>

Placeholder == "deleted"   \* deleted-<id>: no number at all
StaffRoles == {"ADMIN", "FRONTDESK", "DRIVER"}
Roles == StaffRoles \cup {"CLIENT"}
User == [phone : Phones \cup {Placeholder}, role : Roles, active : BOOLEAN, banned : BOOLEAN]
Purchase == [owner : People, phone : Phones \cup {Placeholder},
             state : {"open", "done", "cancelled"}, welcome : BOOLEAN]
NewUser(phone, role) == [phone |-> phone, role |-> role, active |-> TRUE, banned |-> FALSE]

ASSUME AccountsAssumption ==
  /\ NoOne \notin User \cup Purchase /\ Placeholder \notin Phones
  /\ KioskPhone \in Phones /\ (\E q \in Phones : q # KioskPhone) /\ \E p, q \in People : p # q
  /\ \A q \in DOMAIN BypassAccounts : q \in Phones /\ BypassAccounts[q] \in Roles

IdleHandler == [op |-> "idle"]

Exists(p) == users[p] # NoOne
Usable(p) == Exists(p) /\ users[p].active /\ ~users[p].banned
\* Which id a new row gets is of no account; it was nobody's before.
Unnamed == {p \in People : ~Exists(p) /\ p \notin tokenHolders}
NewId == IF Unnamed = {} THEN {} ELSE {CHOOSE p \in Unnamed : TRUE}
RowOf(phone) == {p \in People : Exists(p) /\ users[p].phone = phone}

-----------------------------------------------------------------------------
(* Phone numbers and the claims on the welcome offer *)

\* Broken variant: the number is hashed as it was written.
FingerprintAsWritten(phone) == phone

\* What a claim keeps of a number: the same for every way to write it.
Fingerprint(phone) == IdentityOf[phone]

HasClaim(phone) == phone = Placeholder \/ Fingerprint(phone) \in claimed
ClaimsWith(phone) == IF phone = Placeholder THEN claimed ELSE claimed \cup {Fingerprint(phone)}

-----------------------------------------------------------------------------
(* Signing in *)

Admit(p) ==
  tokenHolders' = tokenHolders \cup {p} /\ UNCHANGED <<purchases, claimed, serving, served>>

\* verify_otp once the code is accepted: the row with this phone, or a new one.
VerifyOtp(phone) ==
  \/ \E p \in RowOf(phone) : Usable(p) /\ Admit(p) /\ UNCHANGED users
  \/ /\ RowOf(phone) = {}
     /\ \E p \in NewId : users' = [users EXCEPT ![p] = NewUser(phone, "CLIENT")] /\ Admit(p)

\* The configured account of a number, however the caller writes it.
BypassAccount(phone) ==
  IF phone \in DOMAIN BypassAccounts THEN {phone}
  ELSE {q \in DOMAIN BypassAccounts : IdentityOf[q] = IdentityOf[phone]}

VerifyOtpBypass(phone) ==
  \E q \in BypassAccount(phone) :
    \/ \E p \in RowOf(q) :
         users[p].role = BypassAccounts[q] /\ Usable(p) /\ Admit(p) /\ UNCHANGED users
    \/ /\ RowOf(q) = {}
       /\ \E p \in NewId :
            users' = [users EXCEPT ![p] = NewUser(q, BypassAccounts[q])] /\ Admit(p)

KioskLogin ==
  \E p \in RowOf(KioskPhone) :
    users[p].role \in {"FRONTDESK", "ADMIN"} /\ Usable(p) /\ Admit(p) /\ UNCHANGED users

-----------------------------------------------------------------------------
(* Requests *)

\* get_current_user and require_roles: the row decides, not the token.
Authorized(p, roles) == p \in tokenHolders /\ Usable(p) /\ users[p].role \in roles

\* Handlers do not differ, so one idle one stands for all.
IdleOnes == {h \in Handlers : serving[h] = IdleHandler}
NextHandler == IF IdleOnes = {} THEN {} ELSE {CHOOSE h \in IdleOnes : TRUE}

Serve(h, request) ==
  /\ served < MaxServed
  /\ serving' = [serving EXCEPT ![h] = request]
  /\ served' = served + 1
  /\ UNCHANGED <<users, tokenHolders, purchases, claimed>>

End(h) == serving' = [serving EXCEPT ![h] = IdleHandler] /\ UNCHANGED served

\* What a request makes of the row it read.
Outcome(op, row) ==
  CASE op = "ban"       -> [row EXCEPT !.banned = TRUE]
    [] op = "unban"     -> [row EXCEPT !.banned = FALSE]
    [] op = "archive"   -> [row EXCEPT !.active = FALSE]
    [] op = "unarchive" -> [row EXCEPT !.active = TRUE]
    [] op = "leave"     -> [row EXCEPT !.phone = Placeholder, !.active = FALSE, !.banned = FALSE]

\* Broken variant: every column is written, as the request knows it.
WholeRow(now, saw, new) == new

\* The UPDATE of a flush: the columns the request changed.
Merged(now, saw, new) ==
  [c \in DOMAIN now |-> IF new[c] # saw[c] THEN new[c] ELSE now[c]]

BeginBan(h, actor, op, p) ==
  /\ op \in {"ban", "unban"}
  /\ Authorized(actor, {"ADMIN"}) /\ Exists(p)
  /\ Serve(h, [op |-> op, target |-> p, saw |-> users[p]])

\* _get_staff_user and _guard_self_staff_action stand before all three.
StaffTarget(actor, p) == p # actor /\ Exists(p) /\ users[p].role # "CLIENT"

BeginArchive(h, actor, op, p) ==
  /\ op \in {"archive", "unarchive"}
  /\ Authorized(actor, {"ADMIN"}) /\ StaffTarget(actor, p)
  /\ Serve(h, [op |-> op, target |-> p, saw |-> users[p]])

NextPurchase ==
  LET unused == {o \in Purchases : purchases[o] = NoOne} IN
  IF unused = {} THEN {} ELSE {CHOOSE o \in unused : TRUE}
PurchasesOf(p) == {o \in Purchases : purchases[o] # NoOne /\ purchases[o].owner = p}
DoneBy(p) == {o \in PurchasesOf(p) : purchases[o].state = "done"}

BeginDeleteStaff(h, actor, p) ==
  /\ Authorized(actor, {"ADMIN"}) /\ StaffTarget(actor, p)
  /\ ~users[p].active /\ PurchasesOf(p) = {}
  /\ Serve(h, [op |-> "delete", target |-> p])

\* provision_staff_user: the row of the phone, which may be a customer's, or none.
BeginProvision(h, actor, phone, role) ==
  /\ Authorized(actor, {"ADMIN"}) /\ role \in StaffRoles
  /\ \/ \E p \in RowOf(phone) :
          Serve(h, [op |-> "provision", target |-> p, saw |-> users[p], role |-> role])
     \/ RowOf(phone) = {} /\ Serve(h, [op |-> "hire", phone |-> phone, role |-> role])

\* delete_account looks for finished orders first.
BeginLeave(h, p) ==
  /\ Authorized(p, Roles)
  /\ Serve(h, [op |-> "leave", target |-> p, saw |-> users[p], buyer |-> DoneBy(p) # {}])

\* offer: is a welcome offer running, and the best for this cart?
BeginCheckout(h, p) ==
  /\ Authorized(p, {"CLIENT"})
  /\ \E offer \in BOOLEAN : Serve(h, [op |-> "checkout", target |-> p, offer |-> offer])

\* update_order_status reads the order and, unless a driver asks, its user.
BeginFinish(h, actor, o, op) ==
  /\ op \in {"finish", "cancel"}
  /\ Authorized(actor, IF op = "finish" THEN StaffRoles ELSE Roles)
  /\ purchases[o] # NoOne /\ purchases[o].state = "open"
  /\ users[actor].role = "CLIENT" => purchases[o].owner = actor
  /\ op = "cancel" => users[actor].role # "DRIVER"
  /\ Serve(h, [op |-> op, order |-> o,
               phone |-> IF users[actor].role = "DRIVER" THEN Placeholder
                         ELSE users[purchases[o].owner].phone])

-----------------------------------------------------------------------------
(* Commits *)

\* delete_account claims the number of someone who has had an order.
ClaimsAfterUpdate(r) ==
  IF r.op = "leave" /\ r.buyer THEN ClaimsWith(r.saw.phone) ELSE claimed

Changed(r) ==
  IF r.op = "provision" THEN [r.saw EXCEPT !.role = r.role, !.active = TRUE, !.banned = FALSE]
  ELSE Outcome(r.op, r.saw)

CommitUpdate(h) ==
  LET r == serving[h] IN
  /\ r.op \in {"ban", "unban", "archive", "unarchive", "leave", "provision"} /\ Exists(r.target)
  /\ users' = [users EXCEPT ![r.target] = Merged(@, r.saw, Changed(r))]
  /\ claimed' = ClaimsAfterUpdate(r)
  /\ End(h) /\ UNCHANGED <<tokenHolders, purchases>>

\* users.phone_number is unique.
CommitHire(h) ==
  LET r == serving[h] IN
  /\ r.op = "hire" /\ RowOf(r.phone) = {}
  /\ \E p \in NewId : users' = [users EXCEPT ![p] = NewUser(r.phone, r.role)]
  /\ End(h) /\ UNCHANGED <<tokenHolders, purchases, claimed>>

\* Broken variant: orders.user_id restricts nothing.
Unreferenced(p) == TRUE

\* orders.user_id: ON DELETE RESTRICT.
Deletable(p) == PurchasesOf(p) = {}

CommitDelete(h) ==
  LET r == serving[h] IN
  /\ r.op = "delete" /\ Exists(r.target) /\ Deletable(r.target)
  /\ users' = [users EXCEPT ![r.target] = NoOne]
  /\ End(h) /\ UNCHANGED <<tokenHolders, purchases, claimed>>

\* create_order under the lock of the customer's row: the offer goes to who has
\* finished no order and whose number, as it is now, has no claim yet.
Welcomed(r) == r.offer /\ DoneBy(r.target) = {} /\ ~HasClaim(users[r.target].phone)

ClaimsAfterCheckout(r) == IF Welcomed(r) THEN ClaimsWith(users[r.target].phone) ELSE claimed

CommitCheckout(h) ==
  LET r == serving[h] IN
  /\ r.op = "checkout" /\ Exists(r.target)
  /\ \A o \in PurchasesOf(r.target) : purchases[o].state # "open"
  /\ \E o \in NextPurchase :
       purchases' = [purchases EXCEPT ![o] =
         [owner |-> r.target, phone |-> users[r.target].phone, state |-> "open",
          welcome |-> Welcomed(r)]]
  /\ claimed' = ClaimsAfterCheckout(r)
  /\ End(h) /\ UNCHANGED <<users, tokenHolders>>

\* An order that ends well claims its customer's number, when it was seen.
CommitFinish(h) ==
  LET r == serving[h] IN
  /\ r.op \in {"finish", "cancel"}
  /\ purchases' = [purchases EXCEPT ![r.order].state =
                     IF r.op = "finish" THEN "done" ELSE "cancelled"]
  /\ claimed' = IF r.op = "finish" THEN ClaimsWith(r.phone) ELSE claimed
  /\ End(h) /\ UNCHANGED <<users, tokenHolders>>

\* A commit the database refuses, a lost connection, a failure after the read.
Rollback(h) ==
  serving[h] # IdleHandler /\ End(h) /\ UNCHANGED <<users, tokenHolders, purchases, claimed>>

-----------------------------------------------------------------------------

\* The shop's first administrator, and perhaps a customer's checkout under way.
Boss == CHOOSE p \in People : TRUE
Guest == CHOOSE p \in People : p # Boss
AccountsInit ==
  /\ \E guests \in {{}, {Guest}}, h \in {CHOOSE h \in Handlers : TRUE},
       phone \in {CHOOSE q \in Phones : q # KioskPhone} :
       /\ users = [p \in People |->
                    IF p = Boss THEN NewUser(KioskPhone, "ADMIN")
                    ELSE IF p \in guests THEN NewUser(phone, "CLIENT") ELSE NoOne]
       /\ tokenHolders = {Boss} \cup guests
       /\ serving = [g \in Handlers |->
                      IF g # h \/ guests = {} THEN IdleHandler
                      ELSE [op |-> "checkout", target |-> Guest, offer |-> TRUE]]
  /\ purchases = [o \in Purchases |-> NoOne]
  /\ claimed = {}
  /\ served = 0

SigningIn ==
  KioskLogin \/ \E phone \in Phones : VerifyOtp(phone) \/ VerifyOtpBypass(phone)

Administering(h, actor) ==
  \/ \E p \in People : \E op \in {"ban", "unban", "archive", "unarchive"} :
       BeginBan(h, actor, op, p) \/ BeginArchive(h, actor, op, p)
  \/ \E p \in People : BeginDeleteStaff(h, actor, p)
  \/ \E phone \in Phones, role \in StaffRoles : BeginProvision(h, actor, phone, role)

Ordering(h, actor) ==
  \/ BeginCheckout(h, actor)
  \/ \E o \in Purchases, op \in {"finish", "cancel"} : BeginFinish(h, actor, o, op)

Committing(h) ==
  \/ CommitUpdate(h) \/ CommitHire(h) \/ CommitDelete(h)
  \/ CommitCheckout(h) \/ CommitFinish(h) \/ Rollback(h)

AccountsNext ==
  \/ SigningIn
  \/ \E h \in NextHandler, actor \in tokenHolders :
       Administering(h, actor) \/ BeginLeave(h, actor) \/ Ordering(h, actor)
  \/ \E h \in Handlers : Committing(h)

AccountsSpec == AccountsInit /\ [][AccountsNext]_accountVars

-----------------------------------------------------------------------------
(* Properties *)

\* One telephone gets the welcome price once, however its number is written,
\* over however many accounts it has had, and whatever overlaps its checkouts.
OneWelcomePerPhone ==
  \A o, q \in Purchases :
    (o # q /\ purchases[o] # NoOne /\ purchases[q] # NoOne
       /\ purchases[o].welcome /\ purchases[q].welcome)
      => IdentityOf[purchases[o].phone] # IdentityOf[purchases[q].phone]

\* An order never loses its customer's row, although delete_staff_user counts
\* the orders before it deletes and a checkout may commit in between.
HistoryKept == \A o \in Purchases : purchases[o] # NoOne => Exists(purchases[o].owner)

\* Did a request that opens accounts end in this step, for p?
Reopened(p) ==
  \E h \in Handlers :
    /\ serving[h].op \in {"unarchive", "provision"} /\ serving[h].target = p
    /\ serving'[h] = IdleHandler

\* Who deleted the account stays deleted: no overlapping request brings the
\* number back, and only one that reopens accounts makes the row active again.
DeletionHolds ==
  [][\A p \in People :
       (Exists(p) /\ users[p].phone = Placeholder /\ Exists(p)') =>
         /\ users'[p].phone = Placeholder
         /\ users'[p].active => users[p].active \/ Reopened(p)]_accountVars

\* A customer who deleted the account does not get the first offer again on the
\* same telephone (test_auth_api.py: test_deleted_customer_cannot_reclaim_
\* first_offer_with_equivalent_phone_format).
DeletedCannotReclaim ==
  [][\A o, q \in Purchases :
       (/\ purchases[o] = NoOne /\ purchases'[o] # NoOne /\ purchases'[o].welcome
        /\ purchases[q] # NoOne /\ purchases[q].state = "done"
        /\ users[purchases[q].owner].phone = Placeholder)
         => IdentityOf[purchases'[o].phone] # IdentityOf[purchases[q].phone]]_accountVars
=============================================================================
