--------------------------- MODULE ScheduleEditor ---------------------------
(***************************************************************************)
(* The schedule editor of the mobile app and the two lists of schedules    *)
(* (mobile and web), against the menu of MenuTree that others change       *)
(* meanwhile.  A new schedule is saved by reading the menu again and then  *)
(* sending one request, or one for each product of a subgroup, all at      *)
(* once; the first that fails ends the save on the screen while the others *)
(* are still on their way.  The server looks for the target and inserts    *)
(* the row in two steps, without a lock.                                   *)
(* A subgroup is the products of a section that share a description.       *)
(***************************************************************************)
EXTENDS MenuTree

CONSTANTS TargetModes,    \* the kinds of target the admin chooses from
          EditorTimings,  \* the times and days the admin enters
          Titles,         \* the descriptions products may have
          NoTitle,        \* a product without one
          MaxSaves        \* bound on the presses of "save"; after the last the form is left alone

ASSUME EditorAssumption ==
    EditorTimings \subseteq [start : Minutes, end : Minutes, days : SUBSET Days]

VARIABLES titles,         \* item -> its description
          form,           \* what the editor shows; during a save, what it showed when "save" was pressed
          screen,         \* during a save, what the editor shows, or that it was left
          requests        \* creations on their way to or in the server

schedulerVars == <<titles, form, screen, requests>>

NoForm == [step |-> "off", saves |-> 0]
NoGroup == [section |-> WholeMenu, title |-> NoTitle]
OfType == [section |-> Sections, item |-> Items, type |-> Types, size |-> Sizes, addon |-> Addons]
ModeOf(e) == IF e = WholeMenu THEN "menu" ELSE CHOOSE mode \in DOMAIN OfType : e \in OfType[mode]

(* buildAdminSubgroupOptions: a product belongs to the group of its        *)
(* section and its description, if it has one.                             *)
GroupOf(i) ==
    IF nodes[i].exists /\ titles[i] # NoTitle
    THEN [section |-> Parent(i), title |-> titles[i]] ELSE NoGroup

(* A menu as the editor reads it: the rows there are, and the groups.      *)
Menu == [known |-> {id \in Ids : nodes[id].exists}, group |-> [i \in Items |-> GroupOf(i)]]
Members(g, menu) == {i \in Items : menu.group[i] = g}
SubgroupOptions(menu) == {menu.group[i] : i \in Items} \ {NoGroup}

(* buildAdminTargetOptions: every row of the unfiltered menu.              *)
TargetOptions(mode, menu) == OfType[mode] \cap menu.known

SchedulerInit == titles \in [Items -> Titles] /\ form = NoForm /\ screen = NoForm /\ requests = {}

(***************************************************************************)
(* Filling in the form.  The menu it offers is the one it loaded.  All of  *)
(* it may be changed, and the editor left, while a save goes on with the   *)
(* form as it was; the editor is opened again only after that save.        *)
(***************************************************************************)
Saving == form.step \in {"reading", "saving"}
Shown == IF Saving THEN screen ELSE form

Form(step, mode, ids, w, on) ==
    [step |-> step, saves |-> form.saves, menu |-> Menu, mode |-> mode, ids |-> ids,
     group |-> NoGroup, timing |-> w, active |-> on, editing |-> {}]

OpenNew(w) ==
    /\ form.step = "off" /\ form.saves < MaxSaves
    /\ form' = Form("form", "section", {}, w, TRUE)
    /\ UNCHANGED <<menuVars, titles, screen, requests>>

(* "Edit" on a card: the target is shown but cannot be changed.            *)
OpenEdit(sch) ==
    /\ form.step = "off" /\ form.saves < MaxSaves
    /\ form' = [Form("form", ModeOf(sch.entity), {sch.entity}, [start |-> sch.start, end |-> sch.end, days |-> sch.days],
                     sch.active) EXCEPT !.editing = {sch.id}]
    /\ UNCHANGED <<menuVars, titles, screen, requests>>

Fill(new) ==
    /\ Shown.step = "form" /\ form.saves < MaxSaves
    /\ IF Saving THEN screen' = new /\ UNCHANGED form ELSE form' = new /\ UNCHANGED screen
    /\ UNCHANGED <<menuVars, titles, requests>>

(* The target of a schedule that is edited is locked.                      *)
TargetUnlocked == Shown.step = "form" /\ Shown.editing = {}

SetTargetMode(mode) ==
    /\ TargetUnlocked
    /\ Fill([Shown EXCEPT !.mode = mode, !.group = NoGroup,
                         !.ids = IF mode = "menu" THEN {WholeMenu} ELSE {}])

SelectTarget(id) ==
    /\ TargetUnlocked
    /\ Shown.mode \in DOMAIN OfType /\ id \in TargetOptions(Shown.mode, Shown.menu)
    /\ Fill([Shown EXCEPT !.ids = {id}])

SelectSubgroup(g) ==
    /\ TargetUnlocked /\ Shown.mode = "subgroup"
    /\ g \in SubgroupOptions(Shown.menu)
    /\ Fill([Shown EXCEPT !.group = g, !.ids = Members(g, Shown.menu)])

ToggleSectionTarget(s) ==
    /\ TargetUnlocked /\ Shown.mode = "sections"
    /\ s \in TargetOptions("section", Shown.menu)
    /\ Fill([Shown EXCEPT !.ids = IF s \in @ THEN @ \ {s} ELSE @ \cup {s}])

(* One button selects all sections, or none if as many are selected.       *)
SelectWholeMenu ==
    /\ TargetUnlocked /\ Shown.mode = "sections"
    /\ LET ss == TargetOptions("section", Shown.menu) IN
       Fill([Shown EXCEPT !.ids = IF Cardinality(@) = Cardinality(ss) THEN {} ELSE ss])

EnterTimes(w) ==
    /\ Shown.step = "form"
    /\ Fill([Shown EXCEPT !.timing.start = w.start, !.timing.end = w.end])
EnterDays(w) == Shown.step = "form" /\ Fill([Shown EXCEPT !.timing.days = w.days])
SetActive(on) == Shown.step = "form" /\ Shown.editing # {} /\ Fill([Shown EXCEPT !.active = on])
Reload == Shown.step = "form" /\ Fill([Shown EXCEPT !.menu = Menu])
LeaveForm == Shown.step = "form" /\ Fill([NoForm EXCEPT !.saves = form.saves])

(***************************************************************************)
(* Saving.                                                                 *)
(***************************************************************************)
CanSaveSchedule ==
    /\ form.timing.start # form.timing.end /\ form.timing.days # {}
    /\ form.ids # {}

PressSave ==
    /\ form.step = "form" /\ form.saves < MaxSaves /\ CanSaveSchedule
    /\ form' = [form EXCEPT !.step = IF form.editing = {} THEN "reading" ELSE "saving", !.saves = @ + 1]
    /\ screen' = [form EXCEPT !.saves = @ + 1]
    /\ UNCHANGED <<menuVars, titles, requests>>

(* The editor goes on with what it shows, or is closed with it.            *)
FailSave == form' = screen /\ screen' = NoForm
CloseEditor == form' = [NoForm EXCEPT !.saves = form.saves] /\ screen' = NoForm

(* The rows to be inserted; ids are unique, one for each press and target. *)
NewRow(e) ==
    [entity |-> e, start |-> form.timing.start, end |-> form.timing.end, days |-> form.timing.days,
     active |-> TRUE, id |-> <<form.saves, e>>]

\* Mutant: the products the screen shows, not those the subgroup has now.
ShownMembers(menu) == form.ids

FreshMembers(menu) == Members(form.group, menu)

(* Each request is the set of its rows: a bulk request for the sections,   *)
(* one for each product of a subgroup, otherwise a single one.             *)
RequestsFor(menu) ==
    CASE form.mode = "subgroup" -> {{NewRow(i)} : i \in FreshMembers(menu)}
      [] form.mode = "sections" -> {{NewRow(s) : s \in form.ids}}
      [] OTHER -> {{NewRow(e)} : e \in form.ids}

TargetUnavailable(menu) ==
    CASE form.mode = "menu" -> FALSE
      [] form.mode = "subgroup" -> FreshMembers(menu) = {}
      [] OTHER -> ~ form.ids \subseteq menu.known

(* The menu is read anew, also for the screen: the requests go out, or the *)
(* target is gone.                                                         *)
Refreshed == IF screen.step = "off" THEN screen ELSE [screen EXCEPT !.menu = Menu]

ReadMenu ==
    /\ form.step = "reading"
    /\ IF TargetUnavailable(Menu)
       THEN form' = Refreshed /\ screen' = NoForm /\ UNCHANGED requests
       ELSE /\ form' = [form EXCEPT !.step = "saving", !.menu = Menu]
            /\ screen' = Refreshed
            /\ requests' = requests \cup {[rows |-> r, found |-> FALSE] : r \in RequestsFor(Menu)}
    /\ UNCHANGED <<menuVars, titles>>

(* The menu could not be read.                                             *)
ReadFails == form.step = "reading" /\ FailSave /\ UNCHANGED <<menuVars, titles, requests>>

Awaited(req) == form.step = "saving" /\ form.editing = {} /\ \A r \in req.rows : r.id[1] = form.saves

(* create_menu_schedule(s): the targets are looked for...                  *)
FindTargets(req) ==
    /\ ~req.found /\ \A r \in req.rows : r.entity # WholeMenu => nodes[r.entity].exists
    /\ requests' = (requests \ {req}) \cup {[req EXCEPT !.found = TRUE]}
    /\ UNCHANGED <<menuVars, titles, form, screen>>

(* ...and the rows inserted and committed.  The editor closes with the     *)
(* last answer; an answer that is lost is a failure to it.                 *)
InsertRows(req, answered) ==
    /\ req.found
    /\ AddSchedules(req.rows)
    /\ requests' = requests \ {req}
    /\ IF ~Awaited(req) THEN UNCHANGED <<form, screen>>
       ELSE IF ~answered THEN FailSave
       ELSE IF \E other \in requests \ {req} : Awaited(other) THEN UNCHANGED <<form, screen>>
       ELSE CloseEditor
    /\ UNCHANGED titles

(* A target is missing, or the request never arrives.                      *)
RequestFails(req) ==
    /\ ~req.found
    /\ requests' = requests \ {req}
    /\ IF Awaited(req) THEN FailSave ELSE UNCHANGED <<form, screen>>
    /\ UNCHANGED <<menuVars, titles>>

(* The edited row gets the form's times, days and switch.                  *)
EditedRow(sch) ==
    [sch EXCEPT !.start = form.timing.start, !.end = form.timing.end,
                !.days = form.timing.days, !.active = form.active]

Edit(answered) ==
    /\ form.step = "saving"
    /\ \E sch \in schedules : sch.id \in form.editing /\ UpdateSchedule(sch, EditedRow(sch))
    /\ IF answered THEN CloseEditor ELSE FailSave
    /\ UNCHANGED <<titles, requests>>

EditFails ==
    /\ form.step = "saving" /\ form.editing # {}
    /\ FailSave
    /\ UNCHANGED <<menuVars, titles, requests>>

(***************************************************************************)
(* Others at work on the menu, and the buttons of the lists, whose cards   *)
(* may be out of date; while the editor is open they are pressed on other  *)
(* devices, and only for the row being edited, not for the rows of the     *)
(* save that is under way.                                                 *)
(***************************************************************************)
Listed(sch) == form.step # "off" => sch.id \in form.editing

ToggleSchedule(sch, shownActive) ==
    /\ Listed(sch)
    /\ UpdateSchedule(sch, [sch EXCEPT !.active = ~shownActive])
    /\ UNCHANGED schedulerVars

RemoveSchedule(sch) == Listed(sch) /\ DeleteSchedule(sch) /\ UNCHANGED schedulerVars

MenuEdited ==
    \/ \E id \in Ids : LookForDelete(id, "other") /\ UNCHANGED schedulerVars
    \/ \E d \in deletions :
          /\ FinishDelete(d)
          /\ titles' = [i \in Items |-> IF nodes'[i].exists THEN titles[i] ELSE NoTitle]
          /\ UNCHANGED <<form, screen, requests>>
    \/ \E i \in Items, s \in Sections : UpdateItem(i, s) /\ UNCHANGED schedulerVars
    \/ \E i \in Items, x \in Titles :
          nodes[i].exists /\ titles' = [titles EXCEPT ![i] = x] /\ UNCHANGED <<menuVars, form, screen, requests>>

SchedulerNext ==
    \/ \E w \in EditorTimings : OpenNew(w) \/ EnterTimes(w) \/ EnterDays(w)
    \/ \E mode \in TargetModes : SetTargetMode(mode)
    \/ \E id \in Ids : SelectTarget(id) \/ ToggleSectionTarget(id)
    \/ \E g \in [section : Sections, title : Titles \ {NoTitle}] : SelectSubgroup(g)
    \/ \E on \in BOOLEAN : SetActive(on) \/ Edit(on)
    \/ SelectWholeMenu \/ Reload \/ LeaveForm \/ PressSave \/ ReadMenu \/ ReadFails \/ EditFails
    \/ \E req \in requests :
          FindTargets(req) \/ RequestFails(req) \/ \E answered \in BOOLEAN : InsertRows(req, answered)
    \/ \E sch \in schedules :
          OpenEdit(sch) \/ RemoveSchedule(sch) \/ \E shown \in BOOLEAN : ToggleSchedule(sch, shown)
    \/ MenuEdited

(* From any menu, with no schedules yet.                                   *)
SchedulerSpec ==
    /\ nodes \in [Ids -> {Row(p) : p \in Ids \cup {WholeMenu}} \cup {Absent}]
    /\ schedules = {} /\ deletions = {}
    /\ SchedulerInit
    /\ [][SchedulerNext]_<<menuVars, schedulerVars>>

(* What the editor previewed when "save" was pressed.                      *)
PreviewSchedules == {[Schedule(e, form.timing) EXCEPT !.active = form.active] : e \in form.ids}

(* The targets the admin means: those previewed, but a subgroup is meant   *)
(* by its name.                                                            *)
Meant == IF form.mode = "subgroup" THEN Members(form.group, form.menu)
         ELSE {sch.entity : sch \in PreviewSchedules}

(* A save that is not left closes the editor only when it is finished.     *)
(* Then each target the admin meant on pressing "save" that still exists   *)
(* has the row of this save, with the times the screen then showed, and    *)
(* nothing else has one, whatever was moved, renamed, deleted or typed on  *)
(* the way and however often the save had failed before; an edited row has *)
(* what the form then said.  What is typed during the save is not saved.   *)
ScheduledAsShown ==
    [][form.step = "saving" /\ screen.step = "form" /\ form'.step = "off" =>
          LET made == {sch \in schedules' : sch.id[1] = form.saves}
              exists(e) == e = WholeMenu \/ nodes'[e].exists
          IN IF form.editing = {}
             THEN /\ {sch.entity : sch \in made} \subseteq Meant
                  /\ \A e \in Meant : exists(e) => NewRow(e) \in made
             ELSE \E sch \in schedules' : sch.id \in form.editing /\ EditedRow(sch) = sch]_<<menuVars, schedulerVars>>
=============================================================================
