------------------------------ MODULE MenuTree ------------------------------
(***************************************************************************)
(* The menu and its schedules.  Admin requests create, move, switch and    *)
(* delete sections, items, types, sizes and addons and put schedules on    *)
(* them; the public menu, the check at checkout, the admin app's preview   *)
(* and the two menu editors each decide for themselves what of it a        *)
(* customer can have at a moment.  Every request is one transaction; names *)
(* and prices, which none of the decisions reads, are left out.            *)
(* A moment is a day, a minute of it and whether the minute has just begun *)
(* (stored times are whole minutes, the server's clock has seconds).       *)
(***************************************************************************)
EXTENDS Integers, FiniteSets

CONSTANTS Sections, Items, Types, Sizes, Addons,   \* the ids rows may get
          WholeMenu,     \* WHOLE_MENU_SCHEDULE_ENTITY_ID
          Days, Minutes, \* 0 .. n-1 each; day d is followed by (d + 1) % n
          Timings,       \* the start, end and days_of_week schedules are given
          MaxSchedules,  \* bound on the schedules that exist at once
          MaxDeletions   \* bound on the deletions under way at once

VARIABLES nodes,         \* id -> its row, or Absent
          schedules,     \* the rows of menu_schedules
          deletions      \* deletions that have read the menu and not yet committed

menuVars == <<nodes, schedules, deletions>>

Ids == Sections \cup Items \cup Types \cup Sizes \cup Addons

ASSUME MenuAssumption ==
    /\ Sections \cap (Items \cup Types \cup Sizes \cup Addons) = {}
    /\ Items \cap (Types \cup Sizes \cup Addons) = {}
    /\ Types \cap (Sizes \cup Addons) = {} /\ Sizes \cap Addons = {}
    /\ WholeMenu \notin Ids
    /\ Minutes \subseteq Nat
    /\ Timings \subseteq [start : Minutes, end : Minutes, days : SUBSET Days]

Absent == [exists |-> FALSE]
Row(parent) == [exists |-> TRUE, parent |-> parent, active |-> TRUE]
Children(id) == {c \in Ids : nodes[c].exists /\ nodes[c].parent = id}
Below(id) ==
    LET c1 == Children(id)
        c2 == UNION {Children(c) : c \in c1}
        c3 == UNION {Children(c) : c \in c2}
    IN {id} \cup c1 \cup c2 \cup c3 \cup UNION {Children(c) : c \in c3}

Parent(id) == nodes[id].parent
Ancestors(id) ==
    LET up(ids) == {Parent(x) : x \in ids \ Sections}
        a1 == up({id})
        a2 == up(a1)
        a3 == up(a2)
    IN a1 \cup a2 \cup a3 \cup up(a3)

MenuInit == nodes = [id \in Ids |-> Absent] /\ schedules = {} /\ deletions = {}

(***************************************************************************)
(* The admin's requests.                                                   *)
(***************************************************************************)
(* Ids are new ones: nothing still names a row that had it before.         *)
NewId(id) ==
    /\ ~nodes[id].exists
    /\ \A d \in deletions : id \notin d.rows
    /\ \A sch \in schedules : sch.entity # id

Insert(id, parent) ==
    /\ NewId(id)
    /\ nodes' = [nodes EXCEPT ![id] = Row(parent)]
    /\ UNCHANGED <<schedules, deletions>>

CreateSection(s) == Insert(s, WholeMenu)
CreateItem(i, s) == nodes[s].exists /\ Insert(i, s)
CreateType(t, i) == nodes[i].exists /\ Insert(t, i)
CreateSize(z, t) == nodes[t].exists /\ Insert(z, t)
CreateAddon(a, z) == nodes[z].exists /\ Insert(a, z)

(* An update may name another parent, which must exist.                    *)
MoveTo(id, parent) ==
    /\ nodes[id].exists /\ nodes[parent].exists
    /\ nodes' = [nodes EXCEPT ![id].parent = parent]
    /\ UNCHANGED <<schedules, deletions>>

UpdateItem(i, s) == MoveTo(i, s)
UpdateType(t, i) == MoveTo(t, i)
UpdateSize(z, t) == MoveTo(z, t)
UpdateAddon(a, z) == MoveTo(a, z)

ToggleEntity(id) ==
    /\ nodes[id].exists
    /\ nodes' = [nodes EXCEPT ![id].active = ~@]
    /\ UNCHANGED <<schedules, deletions>>

\* Mutant: entities that are gone are passed over.
SetThoseThereActive(ids, isActive) ==
    /\ nodes' = [id \in Ids |-> IF id \in ids /\ nodes[id].exists
                                THEN [nodes[id] EXCEPT !.active = isActive] ELSE nodes[id]]
    /\ UNCHANGED <<schedules, deletions>>

(* All of the entities exist or none is changed.                           *)
SetMenuEntitiesActive(ids, isActive) ==
    /\ \A id \in ids : nodes[id].exists
    /\ nodes' = [id \in Ids |-> IF id \in ids THEN [nodes[id] EXCEPT !.active = isActive] ELSE nodes[id]]
    /\ UNCHANGED <<schedules, deletions>>

(* delete_menu_entity: the row is read with those below it, then the       *)
(* schedules of all of them...                                             *)
\* Mutant: only the schedules of the deleted row itself are looked for.
OnlyItself(id) == {id}

DeleteTargets(id) == Below(id)

(* "by" is the screen that waits for the answer; "seen" serves the         *)
(* property only.                                                          *)
LookForDelete(id, by) ==
    /\ nodes[id].exists /\ Cardinality(deletions) < MaxDeletions
    /\ deletions' = deletions \cup
           {[by |-> by, id |-> id, rows |-> Below(id), seen |-> schedules,
             found |-> {sch \in schedules : sch.entity \in DeleteTargets(id)}]}
    /\ UNCHANGED <<nodes, schedules>>

(* ...and what was read is deleted and committed: no lock was taken and a  *)
(* schedule names its row without a foreign key.  A row goes wherever it   *)
(* hangs by now, with all that hangs below it by now.                      *)
FinishDelete(d) ==
    LET gone == UNION {Below(id) : id \in d.rows} IN
    /\ nodes' = [id \in Ids |-> IF id \in gone THEN Absent ELSE nodes[id]]
    /\ schedules' = schedules \ d.found
    /\ deletions' = deletions \ {d}

Schedule(e, w) ==
    [entity |-> e, start |-> w.start, end |-> w.end, days |-> w.days, active |-> TRUE]

AddSchedules(new) ==
    /\ Cardinality(schedules \cup new) <= MaxSchedules
    /\ schedules' = schedules \cup new
    /\ UNCHANGED <<nodes, deletions>>

CreateSchedule(e, w) ==
    /\ e # WholeMenu => nodes[e].exists
    /\ AddSchedules({Schedule(e, w)})

CreateSchedules(secs, w) ==
    /\ \A s \in secs : nodes[s].exists
    /\ AddSchedules({Schedule(s, w) : s \in secs})

(* A changed schedule is still the one a deletion has read.                *)
Replace(sch, new, scheds) == IF sch \in scheds THEN (scheds \ {sch}) \cup new ELSE scheds
Reread(sch, new) ==
    deletions' = {[d EXCEPT !.seen = Replace(sch, new, @), !.found = Replace(sch, new, @)] : d \in deletions}

UpdateSchedule(sch, new) ==
    /\ schedules' = (schedules \ {sch}) \cup {new}
    /\ Reread(sch, {new}) /\ UNCHANGED nodes

DeleteSchedule(sch) ==
    /\ schedules' = schedules \ {sch}
    /\ Reread(sch, {}) /\ UNCHANGED nodes

MenuNext ==
    \/ \E s \in Sections : CreateSection(s)
    \/ \E i \in Items, s \in Sections : CreateItem(i, s) \/ UpdateItem(i, s)
    \/ \E t \in Types, i \in Items : CreateType(t, i) \/ UpdateType(t, i)
    \/ \E z \in Sizes, t \in Types : CreateSize(z, t) \/ UpdateSize(z, t)
    \/ \E a \in Addons, z \in Sizes : CreateAddon(a, z) \/ UpdateAddon(a, z)
    \/ \E id \in Ids : ToggleEntity(id) \/ LookForDelete(id, "other")
    \/ \E d \in deletions : d.by = "other" /\ FinishDelete(d)
    \/ \E ids \in SUBSET (Sections \cup Items), on \in BOOLEAN : SetMenuEntitiesActive(ids, on)
    \/ \E w \in Timings :
          \/ \E e \in Ids \cup {WholeMenu} : CreateSchedule(e, w)
          \/ \E secs \in SUBSET Sections : CreateSchedules(secs, w)
          \/ \E sch \in schedules, on \in BOOLEAN :
                UpdateSchedule(sch, [Schedule(sch.entity, w) EXCEPT !.active = on])
    \/ \E sch \in schedules : DeleteSchedule(sch)

MenuSpec == MenuInit /\ [][MenuNext]_menuVars

(***************************************************************************)
(* What the server shows and sells at a moment.  Clock values are half     *)
(* minutes: the even ones are the beginning of a minute.                   *)
(***************************************************************************)
Moments == [day : Days, clock : 0 .. 2 * Cardinality(Minutes) - 1]
DayBefore(d) == (d - 1) % Cardinality(Days)

IsTimeInWindow(start, end, now) ==
    IF start <= end THEN start <= now /\ now <= end ELSE now >= start \/ now <= end

(* An overnight window belongs to the day it begins on.                    *)
ScheduleDay(sch, now) ==
    IF sch.start > sch.end /\ now.clock <= 2 * sch.end THEN DayBefore(now.day) ELSE now.day

IsScheduleActive(sch, now) ==
    /\ sch.days = {} \/ ScheduleDay(sch, now) \in sch.days
    /\ IsTimeInWindow(2 * sch.start, 2 * sch.end, now.clock)

SchedulesOf(e) == {sch \in schedules : sch.active /\ sch.entity = e}
Open(e, now) == SchedulesOf(e) = {} \/ \E sch \in SchedulesOf(e) : IsScheduleActive(sch, now)
EntityAvailable(id, now) == Open(WholeMenu, now) /\ Open(id, now)

Offered(id, now) == nodes[id].exists /\ nodes[id].active /\ EntityAvailable(id, now)

(* get_menu_tree: what is off or closed is dropped from its parent's list; *)
(* a type left without sizes is dropped, then an item left without types,  *)
(* then a section left without items.                                      *)
MenuTree(now) ==
    LET offered == {id \in Ids : Offered(id, now)}
        Above(ids) == {Parent(id) : id \in ids}
        Under(ids, parents) == {id \in ids : Parent(id) \in parents}
        sizes == Sizes \cap offered
        types == Types \cap offered \cap Above(sizes)
        items == Items \cap offered \cap Above(types)
        ss == Sections \cap offered \cap Above(items)
        is == Under(items, ss)
        ts == Under(types, is)
        zs == Under(sizes, ts)
    IN ss \cup is \cup ts \cup zs \cup Under(Addons \cap offered, zs)

(* create_order: the line's size and the rows above it are on and open;    *)
(* each addon belongs to the size and is on and open.                      *)
\* Mutant: checkout looks at the size alone.
SizeAccepted(z, now) == nodes[z].exists /\ Offered(z, now)

LineAccepted(z, now) == nodes[z].exists /\ \A id \in {z} \cup Ancestors(z) : Offered(id, now)
AddonAccepted(a, z, now) == nodes[a].exists /\ Parent(a) = z /\ Offered(a, now)

(* Whatever the admins have done to the menu and its schedules, the public *)
(* menu shows at a moment exactly the sizes and the addons an order placed *)
(* at that moment may contain: get_menu_tree and create_order, written     *)
(* apart, never disagree.                                                  *)
ShownIffOrderable ==
    \A now \in Moments :
        LET lines == {z \in Sizes : LineAccepted(z, now)} IN
        MenuTree(now) \cap (Sizes \cup Addons) =
            lines \cup {a \in Addons : \E z \in lines : AddonAccepted(a, z, now)}

(* A schedule that outlives its row, so that nobody could tell what it was *)
(* for, was made, or its row moved to where it was deleted with another,   *)
(* while that deletion was under way: at every level and after any moves a *)
(* deletion takes all schedules that were there when it read the menu, of  *)
(* all rows it read, whatever is changed before it commits.                *)
SchedulesHaveOwners ==
    [][\A sch \in schedules \cap schedules', id \in Ids :
          sch.entity = id /\ nodes[id].exists /\ ~nodes'[id].exists =>
             \E d \in deletions \ deletions' : ~(sch \in d.seen /\ id \in d.rows)]_menuVars
=============================================================================
