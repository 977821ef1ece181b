-------------------------- MODULE MobileMenuEditor --------------------------
(***************************************************************************)
(* The list of the menu in the mobile app's admin screens.  It shows a     *)
(* copy of the menu, loaded on focus, on refresh and after each change     *)
(* made here; loads overlap, and their answers arrive in any order.  One   *)
(* alert at a time waits for the admin, who picks sections and products in *)
(* selection mode and switches all of them at once.  Other admins change   *)
(* the menu of MenuTree meanwhile.                                         *)
(***************************************************************************)
EXTENDS MenuScreens

CONSTANT MaxLoads      \* bound on the loads under way at once

VARIABLE list

Seen == INSTANCE MenuScreens WITH nodes <- list.tree, schedules <- list.schedules

NoAlert == [what |-> "none"]
Idle == [what |-> "none", done |-> FALSE, answer |-> <<>>]
ListInit ==
    list = [tree |-> nodes, schedules |-> schedules, loads |-> {}, selecting |-> FALSE,
            picked |-> {}, alert |-> NoAlert, request |-> Idle]

Show(new) == list' = new /\ UNCHANGED menuVars

(***************************************************************************)
(* Loading.                                                                *)
(***************************************************************************)
LoadOf(tree, scheds) == [tree |-> tree, schedules |-> scheds]
(* The request is answered with the menu of the moment; another load that  *)
(* brings the same makes no difference.                                    *)
Load ==
    /\ Cardinality(list.loads \cup {LoadOf(nodes, schedules)}) <= MaxLoads
    /\ Show([list EXCEPT !.loads = @ \cup {LoadOf(nodes, schedules)}])

Loaded(answer) ==
    Show([list EXCEPT !.loads = @ \ {answer}, !.tree = answer.tree, !.schedules = answer.schedules])

LoadFails(answer) == Show([list EXCEPT !.loads = @ \ {answer}])

(***************************************************************************)
(* What is picked.                                                         *)
(***************************************************************************)
CanPress == list.alert = NoAlert

SetSelectionMode ==
    /\ CanPress /\ ~list.selecting
    /\ Show([list EXCEPT !.selecting = TRUE])

LeaveSelectionMode ==
    /\ CanPress /\ list.selecting
    /\ Show([list EXCEPT !.selecting = FALSE, !.picked = {}])

(* A row is pressed where the filter and the search list it; what is       *)
(* picked stays so when it is listed no longer.                            *)
ToggleSelected(id, mode, found) ==
    /\ CanPress /\ list.selecting
    /\ id \in Seen!ListedSections(mode, found) \cup Seen!ListedProducts(mode, found)
    /\ Show([list EXCEPT !.picked = IF id \in @ THEN @ \ {id} ELSE @ \cup {id}])

UpdateSelectedAvailability(isActive) ==
    /\ CanPress /\ list.selecting /\ list.picked # {}
    /\ list.request.what # "bulk"
    /\ Show([list EXCEPT !.alert = [what |-> "bulk", ids |-> list.picked, on |-> isActive]])

(***************************************************************************)
(* The actions of a row.                                                   *)
(***************************************************************************)
OpenActions(id, what) ==
    /\ CanPress /\ ~list.selecting
    /\ id \in Seen!Present \cap (Sections \cup Items)
    /\ Show([list EXCEPT !.alert = [what |-> what, ids |-> {id}, on |-> ~list.tree[id].active]])

Cancel == list.alert # NoAlert /\ Show([list EXCEPT !.alert = NoAlert])

(* The alert closes and its request is sent, one at a time here.           *)
Confirm ==
    /\ list.alert # NoAlert /\ list.request = Idle
    /\ Show([list EXCEPT !.alert = NoAlert,
                         !.request = [what |-> list.alert.what, ids |-> list.alert.ids, on |-> list.alert.on,
                                      done |-> FALSE, answer |-> <<>>]])

FromList(d) == d.by = "list"
StartDelete ==
    /\ list.request.what = "delete" /\ ~list.request.done
    /\ ~\E d \in deletions : FromList(d)
    /\ \E id \in list.request.ids : LookForDelete(id, "list")
    /\ UNCHANGED list

(* The server does it, and answers with the switches of the rows.          *)
Serve ==
    /\ list.request # Idle /\ ~list.request.done
    /\ LET ids == list.request.ids IN
       /\ \/ list.request.what = "toggle" /\ \A id \in ids : ToggleEntity(id)
          \/ list.request.what = "delete" /\ \E d \in deletions : FromList(d) /\ FinishDelete(d)
          \/ list.request.what = "bulk" /\ SetMenuEntitiesActive(ids, list.request.on)
       /\ list' = [list EXCEPT !.request.done = TRUE,
                               !.request.answer = [id \in {x \in ids : nodes'[x].exists} |-> nodes'[id].active]]

(* Done as asked: a bulk change ends the selection, and the list is        *)
(* loaded again.                                                           *)
Answered ==
    /\ list.request.done
    /\ LET bulk == list.request.what = "bulk" IN
       Show([list EXCEPT !.request = Idle,
                         !.loads = @ \cup {LoadOf(nodes, schedules)},
                         !.selecting = @ /\ ~bulk,
                         !.picked = IF bulk THEN {} ELSE @])

(* Refused, or the answer was lost; a deletion may still be under way.     *)
Failed ==
    /\ list.request # Idle
    /\ list' = [list EXCEPT !.request = Idle]
    /\ deletions' = {[d EXCEPT !.by = IF FromList(d) THEN "other" ELSE @] : d \in deletions}
    /\ UNCHANGED <<nodes, schedules>>

MobileNext ==
    \/ Load \/ SetSelectionMode \/ LeaveSelectionMode \/ Cancel \/ Confirm \/ StartDelete \/ Serve \/ Answered \/ Failed
    \/ \E answer \in list.loads : Loaded(answer) \/ LoadFails(answer)
    \/ \E isActive \in BOOLEAN : UpdateSelectedAvailability(isActive)
    \/ \E id \in Sections \cup Items :
          \/ OpenActions(id, "toggle") \/ OpenActions(id, "delete")
          \/ \E mode \in {"all", "active", "inactive", "issues"} : ToggleSelected(id, mode, Ids)

(* Whatever the other admins do meanwhile.                                 *)
ListSpec == MenuInit /\ ListInit /\ [][MobileNext \/ (MenuNext /\ UNCHANGED list)]_<<menuVars, list>>

Done(what) == list.request.what = what /\ list.request.done

(* Rows are picked from a list that may be old and stay picked when the    *)
(* list shows them no longer, so others may have deleted some meanwhile.   *)
(* A bulk change that is answered as done has been done to all of them:    *)
(* the selection is never given up with rows left as they were.            *)
BulkMeansAll == Done("bulk") => list.request.answer = [id \in list.request.ids |-> list.request.on]

(* The alert asks "Disable: <row>" or "Enable: <row>", and when it is      *)
(* confirmed and done, the row is off or on as it said.                    *)
AlertSaysWhatIsDone == Done("toggle") => list.request.answer = [id \in list.request.ids |-> list.request.on]
=============================================================================
