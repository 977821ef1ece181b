------------------------------- MODULE MCMenu -------------------------------
(***************************************************************************)
(* The instance TLC checks of the menu.  A behaviour either takes the menu *)
(* through every request of the admins, or lets one admin write and save   *)
(* products or schedules in the editors, or work with the page of the web  *)
(* editor or with the mobile list while others change the menu.            *)
(***************************************************************************)
EXTENDS MenuScreens, MenuProductEditor, ScheduleEditor, WebMenuEditor, MobileMenuEditor, TLC

CONSTANTS d1, d2, d3, d4, d5, d6,
          Spare,   \* a product only the other parts give to rows
          MaxChanges \* bound on the changes of the menu behind a page or a list

VARIABLES part, changes

(* Nothing tells the ids of options apart, nor those of variants.          *)
MenuSymmetry == Permutations(Types) \cup Permutations(Sizes)

MCDays == 0 .. 1
MCMinutes == 0 .. 2
MCTimings == {[start |-> 0, end |-> 1, days |-> {}], [start |-> 2, end |-> 0, days |-> {1}]}
MCDraftRows == <<d1, d2, d3, d4, d5, d6>>
MCDraftParent == d1 :> d1 @@ d2 :> d1 @@ d3 :> d2 @@ d4 :> d3 @@ d5 :> d1 @@ d6 :> d5
MCDraftKind == d1 :> "item" @@ d2 :> "type" @@ d3 :> "size" @@ d4 :> "addon" @@ d5 :> "type" @@ d6 :> "size"

MCEditorTimings == {[start |-> 0, end |-> 1, days |-> Days], [start |-> 2, end |-> 1, days |-> Days]}
OnMenu(rows) == nodes = [id \in Ids |-> IF id \in Sections THEN Row(WholeMenu) ELSE
                                        IF id \in rows THEN Row(CHOOSE s \in Sections : TRUE) ELSE Absent]
(* Two products, and an option of one of them.                             *)
OnShop ==
    \E t \in Types, i \in Items \ Spare : \E s \in Sections :
        nodes = [id \in Ids |-> IF id \in Sections THEN Row(WholeMenu) ELSE IF id \in Items THEN Row(s) ELSE
                                IF id = t THEN Row(i) ELSE Absent]

(* One product with one variant at a time, and no two schedules alike;     *)
(* nothing is off while a deletion is under way.                           *)
SmallMenu ==
    /\ \A sch, other \in schedules : sch.start = other.start => sch = other
    /\ \A x \in Spare : ~nodes[x].exists
    /\ Cardinality({z \in Sizes : nodes[z].exists}) <= 1
    /\ deletions # {} => /\ \A id \in Ids : nodes[id].exists => nodes[id].active
                         /\ \A sch \in schedules : sch.active

(* Behind a page or a list there are no variants and no schedules, and one *)
(* thing is done at a time.                                                *)
SmallShop ==
    /\ changes + Cardinality(deletions) <= MaxChanges /\ schedules = {}
    /\ \A x \in Sizes \cup Addons : ~nodes[x].exists
    /\ Cardinality({x \in Types : nodes[x].exists}) <= IF part = "page" THEN 1 ELSE 0
OneInHand ==
    /\ page.editing = Closed \/ page.dialog = Closed
    /\ page.dialog # Closed => page.context = NoContext
    /\ \/ list.loads = {} /\ NoAlert = list.alert
       \/ list.loads = {} /\ Idle = list.request
       \/ list.alert = NoAlert /\ list.request = Idle /\ ~list.selecting

(* During a save of a product its name is emptied or it gets an option.    *)
OneTyped ==
    saving.at = "saving" =>
        \/ [draft EXCEPT ![d1] = saving.sent[d1]] = saving.sent
        \/ draft = With(saving.sent, InitialDraftOption(d5))

SchedulerOff == titles = [i \in Items |-> NoTitle] /\ form = NoForm /\ screen = NoForm /\ requests = {}

Init ==
    /\ EditorInit /\ schedules = {} /\ deletions = {} /\ changes = 0
    /\ \/ part = "menu" /\ MenuInit /\ SchedulerOff
       \/ part = "editor" /\ OnMenu({}) /\ SchedulerOff
       \/ part = "schedules" /\ OnMenu(Items) /\ SchedulerInit
       \/ part = "list" /\ OnMenu(Items) /\ SchedulerOff
       \/ part = "page" /\ OnShop /\ SchedulerOff
    /\ PageInit /\ ListInit

(* What the other admins do behind a page or a list.                       *)
Others ==
    /\ \/ \E id \in Ids : ToggleEntity(id) \/ LookForDelete(id, "other")
       \/ \E d \in deletions : d.by = "other" /\ FinishDelete(d)
       \/ \E i \in Items : \/ \E s \in Sections : CreateItem(i, s)
                            \/ \E t \in Types : UpdateType(t, i)
    /\ UNCHANGED <<page, list>>
Behind(step) ==
    /\ step
    /\ changes' = IF UNCHANGED <<nodes, schedules>> THEN changes ELSE changes + 1
    /\ SmallShop' /\ OneInHand'

(* While schedules are saved, one row or description changes, from any    *)
(* descriptions at the start; of the two products, which are alike, it is  *)
(* the first, and times are changed for the whole menu only.               *)
TimesOfTheMenu ==
    \A f \in {form, screen} : f.step # "off" /\ f.mode # "menu" => f.timing.start = 0
OneEdit(step) ==
    /\ step /\ TimesOfTheMenu'
    /\ \A x \in Spare : (\A d \in deletions' : d.id # x) /\ (nodes' = nodes => titles'[x] = titles[x])
    /\ changes' = IF UNCHANGED <<nodes, titles>> THEN changes ELSE changes + 1
    /\ changes' <= 1

Next ==
    /\ UNCHANGED part
    /\ \/ part = "menu" /\ MenuNext /\ UNCHANGED <<editorVars, schedulerVars, page, list, changes>> /\ SmallMenu'
       \/ part = "editor" /\ EditorNext /\ OneTyped' /\ UNCHANGED <<schedulerVars, page, list, changes>>
       \/ part = "schedules" /\ OneEdit(SchedulerNext) /\ UNCHANGED <<editorVars, page, list>>
       \/ part = "page" /\ Behind((WebNext /\ UNCHANGED list) \/ Others) /\ UNCHANGED <<editorVars, schedulerVars>>
       \/ part = "list" /\ Behind((MobileNext /\ UNCHANGED page) \/ Others) /\ UNCHANGED <<editorVars, schedulerVars>>

Spec == Init /\ [][Next]_<<part, changes, menuVars, editorVars, schedulerVars, page, list>>
=============================================================================
