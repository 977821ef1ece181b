----------------------------- MODULE OfferEditor -----------------------------
(***************************************************************************)
(* The promotion editor of the admin app, on top of the server's offers.   *)
(* The screen opens on nothing or on the offer of the list, lets the admin *)
(* pick behavior, eligibility, numbers and targets, shows the offer it is  *)
(* about to save as the customers will see it, and sends it.  Sections and *)
(* subgroups are the editor's shorthands: they are sent as their items.    *)
(* A save works on the form as it was when the button was pressed, while   *)
(* the screen can be typed into, cancelled, deleted from and left.         *)
(* One admin edits offers and, having left during a save, does nothing     *)
(* else with them before it is over; the menu changes meanwhile.  Texts    *)
(* are left out, and a number is one of a few or None, the empty field.    *)
(***************************************************************************)
EXTENDS Offers

CONSTANTS Subgroups,            \* item descriptions that group items, known to the editor only
          Values, Counts,       \* what may be typed as an amount or percent, and as a count
          MaxEdits              \* bound on the edits of a form

VARIABLES editor,               \* what the screen shows, or Closed
          sent                  \* what it showed when the save under way was started, or NoSave

editorVars == <<offerVars, editor, sent>>

ASSUME EditorTables ==
    /\ Subgroups \cap Entries = {}
    /\ Values \subseteq Int /\ Counts \subseteq Nat

Expandable == Subgroups \cup {e \in Entries : ChildrenOf[e] # {}}
Items(t, menu) == ChildrenOf[t] \cap menu

(* What the picker offers of the menu it has.                              *)
TargetOptions(menu) == menu \cup {g \in Subgroups : Items(g, menu) # {}}

EmptyForm ==
    [behavior |-> "FIXED_DISCOUNT", eligibility |-> "EVERYONE", value |-> None, window |-> "live",
     active |-> TRUE, required |-> None, buy |-> None, free |-> None, mode |-> "FREE_DELIVERY",
     percent |-> None, targets |-> [g \in Groups |-> {}], modes |-> [g \in Groups |-> "WHOLE_MENU"]]

Closed == [stage |-> "closed"]
NoSave == [stage |-> "none"]

InferBehavior(row) ==
    IF row.type \in {"BUY_N_GET_M_FREE", "FREE_DELIVERY_ABOVE_AMOUNT", "FIRST_TIME_FREE_ITEM"} THEN row.type
    ELSE "FIXED_DISCOUNT"

InferEligibility(row) ==
    IF row.type \in FirstTime THEN "NEW_CUSTOMERS"
    ELSE IF row.required # None \/ row.type = "LOYALTY" THEN "AFTER_ORDER_COUNT"
    ELSE "EVERYONE"

(* The answer names the effective targets: a buy-and-get offer that only   *)
(* has a scope is shown with it on both sides.                             *)
FormOf(row) ==
    LET targets == [g \in Groups |->
                        IF g # "scope" /\ row[g] = {} /\ row.type = "BUY_N_GET_M_FREE" THEN row.scope ELSE row[g]]
    IN [EmptyForm EXCEPT !.behavior = InferBehavior(row), !.eligibility = InferEligibility(row),
            !.value = row.value, !.window = row.window, !.active = row.active, !.required = row.required,
            !.buy = row.buy, !.free = row.free,
            !.mode = IF row.mode = "PERCENTAGE_DISCOUNT" THEN row.mode ELSE "FREE_DELIVERY",
            !.percent = row.percent, !.targets = targets,
            !.modes = [g \in Groups |-> IF targets[g] # {} THEN "SPECIFIC_TARGETS" ELSE "WHOLE_MENU"]]

Signature(form) == <<form.behavior, form.modes, form.targets>>

Open(form, row) ==
    [stage |-> "open", form |-> form, row |-> row, menu |-> entries, edits |-> 0,
     initial |-> IF row = None THEN None ELSE Signature(form)]

OpenEditor ==
    /\ editor = Closed /\ sent = NoSave
    /\ editor' = IF offer = None THEN Open(EmptyForm, None) ELSE Open(FormOf(offer), offer)
    /\ UNCHANGED <<offerVars, sent>>

Leave ==
    /\ editor.stage = "open"
    /\ editor' = Closed
    /\ UNCHANGED <<offerVars, sent>>

(* Cancel empties the form, and the offer the screen was opened with is    *)
(* put into it again.                                                      *)
CancelEdit ==
    /\ editor.stage = "open" /\ editor.row # None
    /\ editor' = [editor EXCEPT !.form = FormOf(editor.row), !.initial = Signature(FormOf(editor.row))]
    /\ UNCHANGED <<offerVars, sent>>

(***************************************************************************)
(* Editing.                                                                *)
(***************************************************************************)
Edit(form) ==
    /\ editor.edits < MaxEdits
    /\ form # editor.form
    /\ editor' = [editor EXCEPT !.form = form, !.edits = @ + 1]
    /\ UNCHANGED <<offerVars, sent>>

SelectBehavior(b) ==
    Edit([editor.form EXCEPT
            !.behavior = b,
            !.eligibility = CASE b = "FIRST_TIME_FREE_ITEM" -> "NEW_CUSTOMERS"
                              [] b = "FIXED_DISCOUNT" -> @
                              [] b = "BUY_N_GET_M_FREE" -> IF @ = "NEW_CUSTOMERS" THEN "EVERYONE" ELSE @
                              [] OTHER -> "EVERYONE",
            !.value = IF b \in {"BUY_N_GET_M_FREE", "FIRST_TIME_FREE_ITEM"} THEN None ELSE @,
            !.buy = IF b = "BUY_N_GET_M_FREE" THEN @ ELSE None,
            !.free = IF b = "BUY_N_GET_M_FREE" THEN @ ELSE None,
            !.mode = IF b = "FREE_DELIVERY_ABOVE_AMOUNT" THEN @ ELSE "FREE_DELIVERY",
            !.percent = IF b = "FREE_DELIVERY_ABOVE_AMOUNT" THEN @ ELSE None])

EligibilityCards(behavior) ==
    CASE behavior = "FIXED_DISCOUNT" -> {"EVERYONE", "NEW_CUSTOMERS", "AFTER_ORDER_COUNT"}
      [] behavior = "BUY_N_GET_M_FREE" -> {"EVERYONE", "AFTER_ORDER_COUNT"}
      [] behavior = "FIRST_TIME_FREE_ITEM" -> {"NEW_CUSTOMERS"}
      [] OTHER -> {"EVERYONE"}

SelectEligibility(e) ==
    /\ e \in EligibilityCards(editor.form.behavior)
    /\ Edit([editor.form EXCEPT !.eligibility = e,
                                !.required = IF e = "AFTER_ORDER_COUNT" THEN @ ELSE None])

(* Which fields there are to type into depends on what has been chosen.    *)
TypeAmount(v) ==
    /\ editor.form.behavior # "BUY_N_GET_M_FREE"
    /\ Edit([editor.form EXCEPT !.value = v])

TypeQuantities(n, k) ==
    /\ editor.form.behavior = "BUY_N_GET_M_FREE"
    /\ Edit([editor.form EXCEPT !.buy = n, !.free = k])

SelectBenefit(mode, percent) ==
    /\ editor.form.behavior = "FREE_DELIVERY_ABOVE_AMOUNT"
    /\ Edit([editor.form EXCEPT !.mode = mode,
                                !.percent = IF mode = "PERCENTAGE_DISCOUNT" THEN percent ELSE None])

TypeRequired(n) ==
    /\ editor.form.eligibility = "AFTER_ORDER_COUNT"
    /\ Edit([editor.form EXCEPT !.required = n])

SetActive(on) == Edit([editor.form EXCEPT !.active = on])

Pickers(behavior) ==
    CASE behavior = "BUY_N_GET_M_FREE" -> {"buyFrom", "freeFrom"}
      [] behavior \in {"FIXED_DISCOUNT", "FIRST_TIME_FREE_ITEM"} -> {"scope"}
      [] OTHER -> {}

SetTargetMode(g, mode) ==
    /\ g \in Pickers(editor.form.behavior)
    /\ Edit([editor.form EXCEPT !.modes[g] = mode, !.targets[g] = IF mode = "WHOLE_MENU" THEN {} ELSE @])

AddTarget(g, t) ==
    /\ g \in Pickers(editor.form.behavior) /\ editor.form.modes[g] = "SPECIFIC_TARGETS"
    /\ t \in TargetOptions(editor.menu)
    /\ Edit([editor.form EXCEPT !.targets[g] = @ \cup {t}])

RemoveTarget(g, t) ==
    /\ g \in Pickers(editor.form.behavior) /\ editor.form.modes[g] = "SPECIFIC_TARGETS"
    /\ Edit([editor.form EXCEPT !.targets[g] = @ \ {t}])

(***************************************************************************)
(* Saving.                                                                 *)
(***************************************************************************)
Invalid(targets, menu) ==
    {t \in targets : t \notin TargetOptions(menu) \/ (t \in Expandable /\ Items(t, menu) = {})}

NormalizeTargets(targets, menu) ==
    UNION {IF t \in Expandable THEN Items(t, menu) ELSE {t} : t \in targets \ Invalid(targets, menu)}

HasInvalidTargets(form, g, menu) ==
    /\ form.modes[g] = "SPECIFIC_TARGETS"
    /\ \/ NormalizeTargets(form.targets[g], menu) = {}
       \/ Invalid(form.targets[g], menu) # {}

IsPositive(n) == n # None /\ n > 0
IsPercentage(n) == IsPositive(n) /\ n <= 100

(* Of the screen, or of the save under way.                                *)
TargetsUnchanged(e) == e.row # None /\ e.initial = Signature(e.form)

CanSave(form) ==
    /\ CASE form.behavior = "BUY_N_GET_M_FREE" -> IsPositive(form.buy) /\ IsPositive(form.free)
         [] form.behavior = "FIRST_TIME_FREE_ITEM" -> TRUE
         [] form.behavior = "FIXED_DISCOUNT" -> IsPercentage(form.value)
         [] OTHER -> IsPositive(form.value)
    /\ form.eligibility = "AFTER_ORDER_COUNT" => IsPositive(form.required)
    /\ (form.behavior = "FREE_DELIVERY_ABOVE_AMOUNT" /\ form.mode = "PERCENTAGE_DISCOUNT")
            => IsPercentage(form.percent)

ValidTargets(e, menu) ==
    TargetsUnchanged(e) \/ \A g \in Pickers(e.form.behavior) : ~HasInvalidTargets(e.form, g, menu)

DerivePromotionType(form) ==
    IF form.behavior # "FIXED_DISCOUNT" THEN form.behavior
    ELSE CASE form.eligibility = "NEW_CUSTOMERS" -> "FIRST_TIME"
           [] form.eligibility = "AFTER_ORDER_COUNT" -> "LOYALTY"
           [] OTHER -> "TEMPORARY"

TargetsFor(form, g, menu) ==
    IF g \in Pickers(form.behavior) /\ form.modes[g] = "SPECIFIC_TARGETS"
    THEN NormalizeTargets(form.targets[g], menu) ELSE {}

(* The offer the preview shows.                                            *)
DraftPromotion(form, menu) ==
    LET only(behavior, x) == IF form.behavior = behavior THEN x ELSE None
        counted == form.behavior # "FIRST_TIME_FREE_ITEM" /\ form.eligibility = "AFTER_ORDER_COUNT"
    IN [type |-> DerivePromotionType(form),
        value |-> IF form.behavior \in {"BUY_N_GET_M_FREE", "FIRST_TIME_FREE_ITEM"} \/ form.value = None
                  THEN 0 ELSE form.value,
        window |-> form.window, active |-> form.active,
        required |-> IF counted THEN form.required ELSE None,
        buy |-> only("BUY_N_GET_M_FREE", form.buy), free |-> only("BUY_N_GET_M_FREE", form.free),
        mode |-> only("FREE_DELIVERY_ABOVE_AMOUNT", form.mode),
        percent |-> IF form.mode = "PERCENTAGE_DISCOUNT"
                    THEN only("FREE_DELIVERY_ABOVE_AMOUNT", form.percent) ELSE None,
        rule |-> FALSE, scope |-> TargetsFor(form, "scope", menu),
        buyFrom |-> TargetsFor(form, "buyFrom", menu), freeFrom |-> TargetsFor(form, "freeFrom", menu)]

\* Mutant: what is sent is read from the screen when it is sent, not when Save
\* was pressed.
PayloadOfTheScreen(e) ==
    LET shown == IF editor = Closed THEN e ELSE editor
        draft == DraftPromotion(shown.form, shown.menu)
    IN IF TargetsUnchanged(shown) THEN [f \in DOMAIN draft \ Groups |-> draft[f]] ELSE draft

(* What is sent has the fields of the preview; the targets of an offer     *)
(* whose targets were not touched stay out of it.                          *)
Payload(e) ==
    LET draft == DraftPromotion(e.form, e.menu)
    IN IF TargetsUnchanged(e) THEN [f \in DOMAIN draft \ Groups |-> draft[f]] ELSE draft

NeedsFreshTargets(e) ==
    /\ ~TargetsUnchanged(e)
    /\ \E g \in Pickers(e.form.behavior) : e.form.modes[g] = "SPECIFIC_TARGETS"

Save ==
    /\ editor.stage = "open" /\ sent = NoSave
    /\ CanSave(editor.form) /\ ValidTargets(editor, editor.menu)
    /\ sent' = [editor EXCEPT !.stage = IF NeedsFreshTargets(editor) THEN "refreshing" ELSE "sending"]
    /\ UNCHANGED <<offerVars, editor>>

(* The menu is read again before targets are sent; one that has gone ends  *)
(* the save.                                                               *)
FreshMenu ==
    /\ sent.stage = "refreshing"
    /\ sent' = IF ValidTargets(sent, entries) THEN [sent EXCEPT !.menu = entries, !.stage = "sending"] ELSE NoSave
    /\ editor' = IF editor = Closed THEN Closed ELSE [editor EXCEPT !.menu = entries]
    /\ UNCHANGED offerVars

(* The screen closes, whatever has been typed into it since.               *)
SaveArrives ==
    /\ sent.stage = "sending"
    /\ IF sent.row = None THEN CreatePromotion(Payload(sent)) ELSE UpdatePromotion(Payload(sent))
    /\ sent' = NoSave /\ editor' = Closed

(* The form stays as it is by then.                                        *)
SaveRefused ==
    /\ sent.stage = "sending"
    /\ ~ IF sent.row = None THEN TargetsExist(Payload(sent)) /\ RowAccepted(Payload(sent))
         ELSE UpdateAccepted(Payload(sent))
    /\ sent' = NoSave
    /\ UNCHANGED <<offerVars, editor>>

(* The reading of the menu or the request itself never gets through.       *)
SaveLost ==
    /\ sent # NoSave
    /\ sent' = NoSave
    /\ UNCHANGED <<offerVars, editor>>

DeleteFromEditor ==
    /\ editor.stage = "open" /\ editor.row # None
    /\ DeletePromotion
    /\ editor' = Closed
    /\ UNCHANGED sent

OfferEditorInit == OffersInit /\ editor = Closed /\ sent = NoSave

EditForm ==
    \/ \E b \in {"FIXED_DISCOUNT", "BUY_N_GET_M_FREE", "FREE_DELIVERY_ABOVE_AMOUNT", "FIRST_TIME_FREE_ITEM"} :
            SelectBehavior(b)
    \/ \E e \in {"EVERYONE", "NEW_CUSTOMERS", "AFTER_ORDER_COUNT"} : SelectEligibility(e)
    \/ \E v \in Values : TypeAmount(v)
    \/ \E n, k \in Counts : TypeQuantities(n, k)
    \/ \E n \in Counts : TypeRequired(n)
    \/ \E mode \in {"FREE_DELIVERY", "PERCENTAGE_DISCOUNT"}, v \in Values : SelectBenefit(mode, v)
    \/ \E on \in BOOLEAN : SetActive(on)
    \/ \E g \in Groups, mode \in {"WHOLE_MENU", "SPECIFIC_TARGETS"} : SetTargetMode(g, mode)
    \/ \E g \in Groups, t \in Entries \cup Subgroups : AddTarget(g, t) \/ RemoveTarget(g, t)

OfferEditorNext ==
    \/ editor = Closed /\ sent = NoSave /\ OffersNext /\ UNCHANGED <<editor, sent>>
    \/ \E e \in Entries : DeleteMenuEntry(e) /\ UNCHANGED <<editor, sent>>
    \/ OpenEditor \/ Leave \/ CancelEdit
    \/ editor.stage = "open" /\ EditForm
    \/ Save \/ FreshMenu \/ SaveArrives \/ SaveRefused \/ SaveLost \/ DeleteFromEditor

(* The server takes one pool of units for the two sides of a buy-and-get   *)
(* offer when they name the same targets.  A section and all of its items  *)
(* are other targets, and become the same when the preview expands them.   *)
SidesNamedAlike(form, menu) ==
    NormalizeTargets(form.targets.buyFrom, menu) = NormalizeTargets(form.targets.freeFrom, menu)
        => form.targets.buyFrom = form.targets.freeFrom

(* What the editor showed when Save was pressed is what it saves, whatever *)
(* has been typed into it, cancelled or read since: when none of the       *)
(* targets in that form has been deleted or emptied, the stored offer      *)
(* takes off every cart of every customer what the offer of the preview    *)
(* would, whether the targets were sent or left as they were; except for   *)
(* an offer whose sides named a section and its items, left as they were.  *)
SavedAsShown ==
    [][(/\ SaveArrives /\ \A g \in Groups : Invalid(sent.form.targets[g], entries) = {}
        /\ TargetsUnchanged(sent) => SidesNamedAlike(sent.form, sent.menu))
            => SameOffer(offer', DraftPromotion(sent.form, sent.menu))]_editorVars
=============================================================================
