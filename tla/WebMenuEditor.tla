--------------------------- MODULE WebMenuEditor ---------------------------
(***************************************************************************)
(* The menu editor of the admin web.  The page shows a copy of the menu    *)
(* and its schedules, fetched again after each change made here and on     *)
(* focus, and keeps what the admin has in hand: the parents chosen for new *)
(* rows, a form and a confirmation.  Other admins change the menu of       *)
(* MenuTree meanwhile.  An answer may be lost after the server has done    *)
(* what was asked.                                                         *)
(***************************************************************************)
EXTENDS MenuScreens

CONSTANT None

VARIABLE page

Copy == INSTANCE MenuScreens WITH nodes <- page.tree, schedules <- page.schedules

Levels == <<"section", "item", "type", "size", "addon">>
RowsOf == [section |-> Sections, item |-> Items, type |-> Types, size |-> Sizes, addon |-> Addons]
Level(id) == CHOOSE n \in 1 .. 5 : id \in RowsOf[Levels[n]]

Closed == [what |-> "closed"]
NoContext == [k \in {"section", "item", "type", "size"} |-> None]
PageInit ==
    page = [tree |-> nodes, schedules |-> schedules, context |-> NoContext, editing |-> Closed, dialog |-> Closed]

Refetch ==
    /\ page' = [page EXCEPT !.tree = nodes, !.schedules = schedules]
    /\ UNCHANGED menuVars

Click(new) == page' = new /\ UNCHANGED menuVars

(***************************************************************************)
(* The parents for new rows.                                               *)
(***************************************************************************)
(* The row of kind k on the way down to id, id included.                   *)
OnPath(k, id) ==
    LET x == ({id} \cup Copy!Ancestors(id)) \cap RowsOf[k] IN IF x = {} THEN None ELSE CHOOSE y \in x : TRUE

(* "Add Child" chooses the row and its parent and leaves the rest of the   *)
(* context as it is.                                                       *)
AddChild(id) ==
    /\ id \in Copy!Present \ Addons
    /\ LET kinds == {Levels[n] : n \in {Level(id), Level(id) - 1} \ {0}} IN
       Click([page EXCEPT !.context = [k \in DOMAIN @ |-> IF k \in kinds THEN OnPath(k, id) ELSE @[k]]])

(* A new product or option becomes the context, without anything below.    *)
After(id) ==
    IF id \in Items \cup Types
    THEN [k \in DOMAIN page.context |->
            IF k = Levels[Level(id)] THEN id
            ELSE IF \E n \in 1 .. Level(id) : k = Levels[n] THEN page.context[k] ELSE None]
    ELSE page.context

(* The parent its form shows for a new row.                                *)
ParentChosen(id) == IF id \in Sections THEN WholeMenu ELSE page.context[Levels[Level(id) - 1]]

Create(id, answered) ==
    /\ ParentChosen(id) # None /\ (id \notin Sections => nodes[ParentChosen(id)].exists)
    /\ Insert(id, ParentChosen(id))
    /\ page' = IF answered THEN [page EXCEPT !.context = After(id)] ELSE page

(***************************************************************************)
(* The form: "Edit" changes what a row says, "Move" where it hangs.        *)
(***************************************************************************)
ParentShown(id) == IF id \in Sections THEN None ELSE Copy!Parent(id)

StartEdit(id) ==
    /\ id \in Copy!Present
    /\ Click([page EXCEPT !.editing = [what |-> "edit", id |-> id, parent |-> ParentShown(id)],
                          !.context = [k \in DOMAIN @ |-> OnPath(k, id)]])

StartMove(id) ==
    /\ id \in Copy!Present
    /\ Click([page EXCEPT !.editing = [what |-> "move", id |-> id, parent |-> ParentShown(id)]])

ChooseParent(p) ==
    /\ page.editing.what = "move" /\ page.editing.id \notin Sections
    /\ p \in Copy!Present \cap RowsOf[Levels[Level(page.editing.id) - 1]]
    /\ Click([page EXCEPT !.editing.parent = p])

CancelEdit == Click([page EXCEPT !.editing = Closed])

\* Mutant: "Edit" sends the parent it was opened with along.
ParentAlways(form) == IF form.id \in Sections THEN {} ELSE {form.parent}

(* The parent the request names, if any.                                   *)
ParentSent(form) == IF form.what = "move" /\ form.id \notin Sections THEN {form.parent} ELSE {}

SaveEdit(answered) ==
    /\ page.editing # Closed
    /\ LET id == page.editing.id
           sent == ParentSent(page.editing)
       IN IF sent = {} THEN nodes[id].exists /\ UNCHANGED menuVars
          ELSE \A p \in sent : MoveTo(id, p)
    /\ page' = IF answered THEN [page EXCEPT !.editing = Closed] ELSE page

(***************************************************************************)
(* The confirmations.                                                      *)
(***************************************************************************)
OpenDialog(what, id) ==
    /\ id \in Copy!Present
    /\ Click([page EXCEPT !.dialog = [what |-> what, id |-> id]])

CloseDialog == Click([page EXCEPT !.dialog = Closed])

(* The confirmation of a toggle closes whatever comes of it.               *)
ConfirmToggle ==
    /\ page.dialog.what = "toggle"
    /\ ToggleEntity(page.dialog.id) \/ UNCHANGED menuVars
    /\ page' = [page EXCEPT !.dialog = Closed]

(* The one of a deletion stays until the answer has come.                  *)
ConfirmDelete ==
    /\ page.dialog.what = "delete"
    /\ LookForDelete(page.dialog.id, "page")
    /\ UNCHANGED page

Deleted(d, answered) ==
    /\ d.by = "page" /\ FinishDelete(d)
    /\ page' = IF ~answered THEN page
               ELSE [page EXCEPT !.editing = Closed, !.dialog = IF @.what = "delete" THEN Closed ELSE @]

WebNext ==
    \/ Refetch \/ CancelEdit \/ CloseDialog \/ ConfirmToggle \/ ConfirmDelete
    \/ \E id \in Ids : AddChild(id) \/ StartEdit(id) \/ StartMove(id) \/ ChooseParent(id)
    \/ \E id \in Ids, what \in {"toggle", "delete"} : OpenDialog(what, id)
    \/ \E answered \in BOOLEAN :
          \/ SaveEdit(answered)
          \/ \E id \in Ids : Create(id, answered)
          \/ \E d \in deletions : Deleted(d, answered)

(* Whatever the other admins do meanwhile.                                 *)
PageSpec == MenuInit /\ PageInit /\ [][WebNext \/ (MenuNext /\ UNCHANGED page)]_<<menuVars, page>>

(* A row stays where the last admin put it: of all that is done on the     *)
(* page, however old its copy and its form are and whatever the others     *)
(* have moved since, only a "Move" changes the parent of a row, to the one *)
(* the form names.                                                         *)
OnlyMovesMove ==
    [][\A id \in Ids : nodes[id].exists /\ nodes'[id].exists /\ nodes'[id].parent # nodes[id].parent
            /\ page'.tree = page.tree /\ page' # page =>
          page.editing.what = "move" /\ page.editing.id = id /\ page.editing.parent = nodes'[id].parent]_<<menuVars, page>>
=============================================================================
