------------------------------ MODULE MenuProofs ------------------------------
(***************************************************************************)
(* The menu and its editors, for any number of rows and schedules, any     *)
(* minutes in a day and any number of admins at work.                      *)
(***************************************************************************)
EXTENDS MenuScreens, MenuProductEditor, ScheduleEditor, WebMenuEditor, MobileMenuEditor,
        FiniteSetTheorems, TLAPS

-----------------------------------------------------------------------------
(* The tree *)

MenuRow == [exists : {TRUE}, parent : Ids \cup {WholeMenu}, active : BOOLEAN]
MenuSchedule == [entity : Ids \cup {WholeMenu}, start : Minutes, end : Minutes,
                 days : SUBSET Days, active : BOOLEAN]

MenuTypeOK ==
  /\ nodes \in [Ids -> MenuRow \cup {Absent}]
  /\ schedules \subseteq MenuSchedule

\* A deletion has found the schedules it has seen of the rows it takes.
Deletions(scheds) ==
  [by : {"page", "list", "other"}, id : Ids, rows : SUBSET Ids, seen : SUBSET scheds, found : SUBSET scheds]
DeletionsOK(scheds) ==
  /\ deletions \subseteq Deletions(scheds)
  /\ \A d \in deletions :
        /\ \A sch \in d.found : sch.entity \in d.rows
        /\ \A sch \in d.seen : sch.entity \in d.rows => sch \in d.found

\* A row hangs from a row of the level above that is there.
HangsFrom(id, level) == Parent(id) \in level /\ nodes[Parent(id)].exists
Placed(id) ==
  /\ id \in Sections => Parent(id) = WholeMenu
  /\ id \in Items => HangsFrom(id, Sections)
  /\ id \in Types => HangsFrom(id, Items)
  /\ id \in Sizes => HangsFrom(id, Types)
  /\ id \in Addons => HangsFrom(id, Sizes)
NoOrphans == \A id \in Ids : nodes[id].exists => Placed(id)

MenuInv == MenuTypeOK /\ DeletionsOK(MenuSchedule) /\ NoOrphans

LEMMA MenuRecords ==
  /\ \A r \in MenuRow : r.exists = TRUE /\ r.parent \in Ids \cup {WholeMenu} /\ r.active \in BOOLEAN /\ r # Absent
  /\ Absent.exists = FALSE
  /\ \A p \in Ids \cup {WholeMenu} : Row(p) \in MenuRow /\ Row(p).parent = p /\ Row(p).active
<1>1. \A r \in MenuRow : r.exists = TRUE /\ r.parent \in Ids \cup {WholeMenu} /\ r.active \in BOOLEAN
  BY DEF MenuRow
<1>2. Absent.exists = FALSE
  BY DEF Absent
<1>3. \A r \in MenuRow : r # Absent
  BY <1>1, <1>2
<1>4. \A p \in Ids \cup {WholeMenu} : Row(p) \in MenuRow /\ Row(p).parent = p /\ Row(p).active
  BY DEF MenuRow, Row
<1> QED
  BY <1>1, <1>2, <1>3, <1>4

\* What a row has when it is there.
LEMMA RowFacts ==
  ASSUME MenuInv, NEW id \in Ids
  PROVE  /\ nodes[id].exists \in BOOLEAN
         /\ ~nodes[id].exists => nodes[id] = Absent
         /\ nodes[id].exists => nodes[id] \in MenuRow /\ Parent(id) \in Ids \cup {WholeMenu}
                                  /\ nodes[id].active \in BOOLEAN /\ Placed(id)
<1>1. nodes[id] \in MenuRow \/ nodes[id] = Absent
  BY DEF MenuInv, MenuTypeOK
<1>2. nodes[id].exists => Placed(id)
  BY DEF MenuInv, NoOrphans
<1> QED
  <2>1. CASE nodes[id] \in MenuRow
    BY <2>1, <1>2, MenuRecords DEF Parent
  <2>2. CASE nodes[id] = Absent
    BY <2>2, MenuRecords
  <2> QED
    BY <1>1, <2>1, <2>2

LEMMA MenuInitInv == MenuInit => MenuInv
  BY MenuRecords DEF MenuInit, MenuInv, MenuTypeOK, DeletionsOK, NoOrphans

\* A new row, or one that is moved: its parent is there, and of the level above.
RightParent(id, p) ==
  \/ id \in Sections /\ p = WholeMenu
  \/ /\ p \in Ids /\ nodes[p].exists
     /\ \/ id \in Items /\ p \in Sections
        \/ id \in Types /\ p \in Items
        \/ id \in Sizes /\ p \in Types
        \/ id \in Addons /\ p \in Sizes

LEMMA PlacedAfter ==
  ASSUME MenuInv, NEW id \in Ids, NEW p, RightParent(id, p), NEW r \in MenuRow, r.parent = p,
         nodes' = [nodes EXCEPT ![id] = r]
  PROVE  nodes' \in [Ids -> MenuRow \cup {Absent}] /\ NoOrphans'
<1>1. nodes' \in [Ids -> MenuRow \cup {Absent}]
  BY DEF MenuInv, MenuTypeOK
<1>2. \A x \in Ids : nodes[x].exists => nodes'[x].exists
  BY MenuRecords DEF MenuInv, MenuTypeOK
<1>3. p \in Ids => nodes'[p].exists
  BY <1>2, MenuAssumption DEF RightParent, Ids
<1>4. Placed(id)'
  <2>1. nodes'[id] = r /\ Parent(id)' = p
    BY DEF Parent, MenuInv, MenuTypeOK
  <2> QED
    BY <2>1, <1>3, MenuAssumption DEF Placed, HangsFrom, RightParent, Ids
<1>5. ASSUME NEW x \in Ids \ {id}, nodes'[x].exists
      PROVE  Placed(x)'
  <2>1. nodes'[x] = nodes[x] /\ Parent(x)' = Parent(x) /\ nodes[x].exists
    BY <1>5 DEF Parent, MenuInv, MenuTypeOK
  <2>2. Placed(x)
    BY <2>1, RowFacts
  <2> QED
    BY <2>1, <2>2, <1>2 DEF Placed, HangsFrom, Ids
<1> QED
  BY <1>1, <1>4, <1>5 DEF NoOrphans

\* The switches of some rows change, nothing else of them.
LEMMA PlacedStill ==
  ASSUME MenuInv, nodes' \in [Ids -> MenuRow \cup {Absent}],
         \A x \in Ids : nodes'[x].exists = nodes[x].exists /\ (nodes[x].exists => Parent(x)' = Parent(x))
  PROVE  NoOrphans'
  BY RowFacts DEF NoOrphans, Placed, HangsFrom, Ids

\* There is nothing below an add-on, and so nothing left below what a
\* deletion takes.
LEMMA BelowClosed ==
  ASSUME MenuInv, NEW id \in Ids
  PROVE  /\ Below(id) \subseteq Ids
         /\ \A x \in Ids : nodes[x].exists /\ Parent(x) \in Below(id) => x \in Below(id)
<1> DEFINE c1 == Children(id)
           c2 == UNION {Children(c) : c \in c1}
           c3 == UNION {Children(c) : c \in c2}
           c4 == UNION {Children(c) : c \in c3}
<1>1. Below(id) = {id} \cup c1 \cup c2 \cup c3 \cup c4
  BY DEF Below
<1>2. \A x \in Ids : \A p : x \in Children(p) <=> nodes[x].exists /\ Parent(x) = p
  BY DEF Children, Parent
<1>3. \A p : Children(p) \subseteq Ids
  BY DEF Children
<1>4. \A p \in Ids : \A x \in Children(p) :
        /\ x \in Ids \ Sections
        /\ p \notin Sections => x \notin Items
        /\ p \notin Sections \cup Items => x \notin Types
        /\ p \notin Sections \cup Items \cup Types => x \notin Sizes
        /\ p \notin Addons
  BY <1>2, <1>3, RowFacts, MenuAssumption DEF Placed, HangsFrom, Ids
<1>5. c1 \subseteq Ids /\ c2 \subseteq Ids /\ c3 \subseteq Ids /\ c4 \subseteq Ids
  BY <1>3
<1>6. c1 \cap Sections = {}
  BY <1>4
<1>7. c2 \cap (Sections \cup Items) = {}
  BY <1>4, <1>5, <1>6
<1>8. c3 \cap (Sections \cup Items \cup Types) = {}
  BY <1>4, <1>5, <1>7
<1>9. c4 \subseteq Addons
  BY <1>4, <1>5, <1>8 DEF Ids
<1>10. ASSUME NEW x \in Ids, nodes[x].exists, Parent(x) \in Below(id)
       PROVE  x \in Below(id)
  <2>1. x \in Children(Parent(x))
    BY <1>2, <1>10
  <2>2. Parent(x) \notin c4
    BY <2>1, <1>4, <1>5, <1>9
  <2> QED
    BY <2>1, <2>2, <1>10, <1>1
<1> QED
  BY <1>1, <1>5, <1>10

\* The deletions under way, as they begin and end and as schedules change.
LEMMA DeletionStarts ==
  ASSUME NEW scheds, schedules \subseteq scheds, DeletionsOK(scheds),
         NEW id \in Ids, NEW by \in {"page", "list", "other"}, LookForDelete(id, by)
  PROVE  DeletionsOK(scheds)'
<1> DEFINE d == [by |-> by, id |-> id, rows |-> Below(id), seen |-> schedules,
                 found |-> {sch \in schedules : sch.entity \in Below(id)}]
<1>1. deletions' = deletions \cup {d}
  BY DEF LookForDelete, DeleteTargets
<1>2. Below(id) \subseteq Ids
  BY DEF Below, Children
<1>3. d \in Deletions(scheds)
  BY <1>2 DEF Deletions
<1>4. /\ \A sch \in d.found : sch.entity \in d.rows
      /\ \A sch \in d.seen : sch.entity \in d.rows => sch \in d.found
  OBVIOUS
<1> HIDE DEF d
<1> QED
  BY <1>1, <1>3, <1>4 DEF DeletionsOK, Deletions

LEMMA DeletionsReread ==
  ASSUME NEW scheds, DeletionsOK(scheds), NEW sch, NEW new \in SUBSET scheds,
         \A x \in new : x.entity = sch.entity, Reread(sch, new)
  PROVE  DeletionsOK(scheds)'
<1> DEFINE after(d) == [d EXCEPT !.seen = Replace(sch, new, @), !.found = Replace(sch, new, @)]
<1>1. deletions' = {after(d) : d \in deletions}
  BY DEF Reread
<1>2. ASSUME NEW d \in deletions
      PROVE  /\ after(d) \in Deletions(scheds)
             /\ \A x \in after(d).found : x.entity \in after(d).rows
             /\ \A x \in after(d).seen : x.entity \in after(d).rows => x \in after(d).found
  <2>1. d \in Deletions(scheds)
    BY DEF DeletionsOK
  <2>2. Replace(sch, new, d.seen) \in SUBSET scheds /\ Replace(sch, new, d.found) \in SUBSET scheds
    BY <2>1 DEF Deletions, Replace
  <2> DEFINE seen == Replace(sch, new, d.seen)
             found == Replace(sch, new, d.found)
  <2>3. /\ \A x \in found : x.entity \in d.rows
        /\ \A x \in seen : x.entity \in d.rows => x \in found
    BY DEF Replace, DeletionsOK
  <2> HIDE DEF seen, found
  <2>4. after(d) = [d EXCEPT !.seen = seen, !.found = found]
    BY DEF seen, found
  <2>5. /\ after(d) \in Deletions(scheds)
        /\ after(d).rows = d.rows /\ after(d).seen = seen /\ after(d).found = found
    BY <2>1, <2>2, <2>4 DEF Deletions, seen, found
  <2> QED
    BY <2>3, <2>5
<1> HIDE DEF after
<1> QED
  BY <1>1, <1>2 DEF DeletionsOK

\* The rows a deletion takes, and what hangs from them.
Gone(d) == UNION {Below(id) : id \in d.rows}

LEMMA DeletionEnds ==
  ASSUME NEW scheds, DeletionsOK(scheds), NEW d \in deletions, FinishDelete(d)
  PROVE  /\ DeletionsOK(scheds)'
         /\ d.rows \subseteq Gone(d) /\ Gone(d) \subseteq Ids
         /\ nodes' = [x \in Ids |-> IF x \in Gone(d) THEN Absent ELSE nodes[x]]
         /\ schedules' = schedules \ d.found /\ deletions' = deletions \ {d}
<1>1. \A x : x \in Below(x)
  BY DEF Below
<1>2. d.rows \subseteq Ids
  BY DEF DeletionsOK, Deletions
<1>3. \A x \in Ids : Below(x) \subseteq Ids
  BY DEF Below, Children
<1>4. d.rows \subseteq Gone(d) /\ Gone(d) \subseteq Ids
  BY <1>1, <1>2, <1>3 DEF Gone
<1> QED
  BY <1>4 DEF FinishDelete, Gone, DeletionsOK

LEMMA DeleteInv ==
  ASSUME MenuInv, NEW d \in deletions, FinishDelete(d)
  PROVE  MenuInv'
<1>0. DeletionsOK(MenuSchedule)
  BY DEF MenuInv
<1>1. /\ DeletionsOK(MenuSchedule)' /\ d.rows \subseteq Ids /\ Gone(d) \subseteq Ids
      /\ nodes' = [x \in Ids |-> IF x \in Gone(d) THEN Absent ELSE nodes[x]]
      /\ schedules' \subseteq schedules
  BY <1>0, DeletionEnds
<1>2. MenuTypeOK'
  BY <1>1 DEF MenuInv, MenuTypeOK
<1>3. ASSUME NEW x \in Ids, nodes'[x].exists
      PROVE  Placed(x)'
  <2>1. x \notin Gone(d) /\ nodes'[x] = nodes[x] /\ Parent(x)' = Parent(x) /\ nodes[x].exists
    BY <1>1, <1>3, MenuRecords DEF Parent
  <2>2. Placed(x)
    BY <2>1, RowFacts
  <2>3. Parent(x) \notin Gone(d)
    BY <1>1, <2>1, BelowClosed DEF Gone
  <2>4. \A y \in Ids \ Gone(d) : nodes'[y] = nodes[y]
    BY <1>1
  <2> QED
    BY <2>1, <2>2, <2>3, <2>4 DEF Placed, HangsFrom, Ids
<1> QED
  BY <1>1, <1>2, <1>3 DEF MenuInv, NoOrphans

LEMMA LookInv ==
  ASSUME MenuInv, NEW id \in Ids, NEW by \in {"page", "list", "other"}, LookForDelete(id, by)
  PROVE  MenuInv'
<1>1. DeletionsOK(MenuSchedule)'
  BY DeletionStarts DEF MenuInv, MenuTypeOK
<1> QED
  BY <1>1 DEF LookForDelete, MenuInv, MenuTypeOK, NoOrphans, Placed, HangsFrom, Parent

LEMMA SchedulesTyped ==
  ASSUME NEW e \in Ids \cup {WholeMenu}, NEW w \in Timings
  PROVE  /\ Schedule(e, w) \in MenuSchedule
         /\ \A on \in BOOLEAN : [Schedule(e, w) EXCEPT !.active = on] \in MenuSchedule
  BY MenuAssumption DEF Schedule, MenuSchedule

\* The requests that add a row, or hang one elsewhere.
LEMMA InsertInv ==
  ASSUME MenuInv, NEW id \in Ids, NEW p, RightParent(id, p), Insert(id, p)
  PROVE  MenuInv'
<1>1. p \in Ids \cup {WholeMenu}
  BY DEF RightParent
<1>2. Row(p) \in MenuRow /\ Row(p).parent = p
  BY <1>1, MenuRecords
<1> QED
  BY <1>2, PlacedAfter DEF Insert, MenuInv, MenuTypeOK, DeletionsOK

LEMMA MoveInv ==
  ASSUME MenuInv, NEW id \in Ids, NEW p, RightParent(id, p), MoveTo(id, p)
  PROVE  MenuInv'
<1>1. p \in Ids \cup {WholeMenu}
  BY DEF RightParent
<1>2. nodes[id] \in MenuRow
  BY RowFacts DEF MoveTo
<1> DEFINE r == [nodes[id] EXCEPT !.parent = p]
<1>3. r \in MenuRow /\ r.parent = p
  BY <1>1, <1>2 DEF MenuRow
<1>4. nodes' = [nodes EXCEPT ![id] = r] /\ schedules' = schedules /\ deletions' = deletions
  BY DEF MoveTo
<1> HIDE DEF r
<1> QED
  BY <1>3, <1>4, PlacedAfter DEF MenuInv, MenuTypeOK, DeletionsOK

LEMMA SwitchInv ==
  ASSUME MenuInv, schedules' = schedules, deletions' = deletions, NEW ids \in SUBSET Ids, NEW on \in [Ids -> BOOLEAN],
         \A id \in ids : nodes[id].exists,
         nodes' = [id \in Ids |-> IF id \in ids THEN [nodes[id] EXCEPT !.active = on[id]] ELSE nodes[id]]
  PROVE  MenuInv'
<1>1. \A id \in ids : nodes[id] \in MenuRow
  BY RowFacts
<1>2. \A id \in ids : [nodes[id] EXCEPT !.active = on[id]] \in MenuRow
  BY <1>1 DEF MenuRow
<1>3. nodes' \in [Ids -> MenuRow \cup {Absent}]
  BY <1>2 DEF MenuInv, MenuTypeOK
<1>4. ASSUME NEW x \in Ids
      PROVE  nodes'[x].exists = nodes[x].exists /\ (nodes[x].exists => Parent(x)' = Parent(x))
  <2>1. CASE x \in ids
    <3>1. nodes'[x] = [nodes[x] EXCEPT !.active = on[x]]
      BY <2>1
    <3> QED
      BY <3>1, <2>1, <1>1 DEF MenuRow, Parent
  <2>2. CASE x \notin ids
    BY <2>2 DEF Parent
  <2> QED
    BY <2>1, <2>2
<1> QED
  BY <1>3, <1>4, PlacedStill DEF MenuInv, MenuTypeOK, DeletionsOK

LEMMA ToggleInv ==
  ASSUME MenuInv, NEW id \in Ids, ToggleEntity(id)
  PROVE  MenuInv'
<1> DEFINE on == [x \in Ids |-> IF x = id THEN ~nodes[x].active ELSE TRUE]
<1>1. nodes[id].exists /\ nodes[id].active \in BOOLEAN
  BY RowFacts DEF ToggleEntity
<1>2. on \in [Ids -> BOOLEAN]
  BY <1>1
<1>3. nodes' = [x \in Ids |-> IF x \in {id} THEN [nodes[x] EXCEPT !.active = on[x]] ELSE nodes[x]]
  BY <1>1 DEF ToggleEntity, MenuInv, MenuTypeOK
<1> HIDE DEF on
<1> QED
  BY <1>1, <1>2, <1>3, SwitchInv DEF ToggleEntity

LEMMA SetActiveInv ==
  ASSUME MenuInv, NEW ids \in SUBSET Ids, NEW isActive \in BOOLEAN, SetMenuEntitiesActive(ids, isActive)
  PROVE  MenuInv'
<1> DEFINE on == [x \in Ids |-> isActive]
<1>1. on \in [Ids -> BOOLEAN]
  OBVIOUS
<1>2. nodes' = [x \in Ids |-> IF x \in ids THEN [nodes[x] EXCEPT !.active = on[x]] ELSE nodes[x]]
  BY DEF SetMenuEntitiesActive
<1> HIDE DEF on
<1> QED
  BY <1>1, <1>2, SwitchInv DEF SetMenuEntitiesActive

LEMMA MenuStepInv ==
  ASSUME MenuInv, MenuNext
  PROVE  MenuInv'
<1>1. ASSUME NEW s \in Sections, CreateSection(s)
      PROVE  MenuInv'
  <2>1. s \in Ids /\ RightParent(s, WholeMenu)
    BY DEF Ids, RightParent
  <2> QED
    BY <1>1, <2>1, InsertInv DEF CreateSection
<1>2. ASSUME NEW i \in Items, NEW s \in Sections, CreateItem(i, s) \/ UpdateItem(i, s)
      PROVE  MenuInv'
  <2>1. i \in Ids /\ RightParent(i, s)
    BY <1>2 DEF Ids, RightParent, CreateItem, UpdateItem, MoveTo
  <2> QED
    BY <1>2, <2>1, InsertInv, MoveInv DEF CreateItem, UpdateItem
<1>3. ASSUME NEW t \in Types, NEW i \in Items, CreateType(t, i) \/ UpdateType(t, i)
      PROVE  MenuInv'
  <2>1. t \in Ids /\ RightParent(t, i)
    BY <1>3 DEF Ids, RightParent, CreateType, UpdateType, MoveTo
  <2> QED
    BY <1>3, <2>1, InsertInv, MoveInv DEF CreateType, UpdateType
<1>4. ASSUME NEW z \in Sizes, NEW t \in Types, CreateSize(z, t) \/ UpdateSize(z, t)
      PROVE  MenuInv'
  <2>1. z \in Ids /\ RightParent(z, t)
    BY <1>4 DEF Ids, RightParent, CreateSize, UpdateSize, MoveTo
  <2> QED
    BY <1>4, <2>1, InsertInv, MoveInv DEF CreateSize, UpdateSize
<1>5. ASSUME NEW a \in Addons, NEW z \in Sizes, CreateAddon(a, z) \/ UpdateAddon(a, z)
      PROVE  MenuInv'
  <2>1. a \in Ids /\ RightParent(a, z)
    BY <1>5 DEF Ids, RightParent, CreateAddon, UpdateAddon, MoveTo
  <2> QED
    BY <1>5, <2>1, InsertInv, MoveInv DEF CreateAddon, UpdateAddon
<1>6. ASSUME \/ \E id \in Ids : LookForDelete(id, "other")
             \/ \E d \in deletions : FinishDelete(d)
      PROVE  MenuInv'
  BY <1>6, LookInv, DeleteInv
<1>7. ASSUME NEW ids \in SUBSET (Sections \cup Items), NEW on \in BOOLEAN, SetMenuEntitiesActive(ids, on)
      PROVE  MenuInv'
  <2>1. ids \in SUBSET Ids
    BY DEF Ids
  <2> QED
    BY <1>7, <2>1, SetActiveInv
<1>8. ASSUME NEW w \in Timings, NEW e \in Ids \cup {WholeMenu}, CreateSchedule(e, w)
      PROVE  MenuInv'
  BY <1>8, SchedulesTyped DEF CreateSchedule, AddSchedules, MenuInv, MenuTypeOK, DeletionsOK, NoOrphans, Placed, HangsFrom, Parent
<1>9. ASSUME NEW w \in Timings, NEW secs \in SUBSET Sections, CreateSchedules(secs, w)
      PROVE  MenuInv'
  <2>1. {Schedule(s, w) : s \in secs} \subseteq MenuSchedule
    BY SchedulesTyped DEF Ids
  <2> QED
    BY <1>9, <2>1 DEF CreateSchedules, AddSchedules, MenuInv, MenuTypeOK, DeletionsOK, NoOrphans, Placed, HangsFrom, Parent
<1>10. ASSUME NEW w \in Timings, NEW sch \in schedules, NEW on \in BOOLEAN,
              UpdateSchedule(sch, [Schedule(sch.entity, w) EXCEPT !.active = on])
       PROVE  MenuInv'
  <2>1. sch.entity \in Ids \cup {WholeMenu}
    BY DEF MenuInv, MenuTypeOK, MenuSchedule
  <2> DEFINE new == [Schedule(sch.entity, w) EXCEPT !.active = on]
  <2>2. new \in MenuSchedule /\ new.entity = sch.entity
    BY <2>1, SchedulesTyped DEF Schedule
  <2>3. /\ nodes' = nodes /\ schedules' = (schedules \ {sch}) \cup {new} /\ Reread(sch, {new})
    BY <1>10 DEF UpdateSchedule
  <2> HIDE DEF new
  <2>4. DeletionsOK(MenuSchedule)'
    BY <2>2, <2>3, DeletionsReread DEF MenuInv
  <2> QED
    BY <2>2, <2>3, <2>4 DEF MenuInv, MenuTypeOK, NoOrphans, Placed, HangsFrom, Parent
<1>11. ASSUME NEW sch \in schedules, DeleteSchedule(sch)
       PROVE  MenuInv'
  <2>1. DeletionsOK(MenuSchedule)'
    BY <1>11, DeletionsReread DEF DeleteSchedule, MenuInv
  <2> QED
    BY <1>11, <2>1 DEF DeleteSchedule, MenuInv, MenuTypeOK, NoOrphans, Placed, HangsFrom, Parent
<1> QED
  BY <1>1, <1>2, <1>3, <1>4, <1>5, <1>6, <1>7, <1>8, <1>9, <1>10, <1>11, ToggleInv DEF MenuNext

\* The menu stays a tree: whatever is created, moved, switched or deleted at
\* once, each row hangs from one of the level above that is there.
THEOREM MenuStaysATree == MenuSpec => []MenuInv
<1>1. MenuInv /\ [MenuNext]_menuVars => MenuInv'
  <2> SUFFICES ASSUME MenuInv, [MenuNext]_menuVars
               PROVE  MenuInv'
    OBVIOUS
  <2>1. CASE UNCHANGED menuVars
    BY <2>1 DEF menuVars, MenuInv, MenuTypeOK, DeletionsOK, NoOrphans, Placed, HangsFrom, Parent
  <2> QED
    BY <2>1, MenuStepInv
<1> QED
  BY <1>1, MenuInitInv, PTL DEF MenuSpec

-----------------------------------------------------------------------------
(* Schedules and the rows they are for *)

\* Rows go with a deletion only.
LEMMA RowsStay ==
  ASSUME MenuInv, MenuNext, NEW id \in Ids, nodes[id].exists, ~nodes'[id].exists
  PROVE  \E d \in deletions : FinishDelete(d)
<1>1. ASSUME NEW x \in Ids, NEW r \in MenuRow, nodes' = [nodes EXCEPT ![x] = r]
      PROVE  FALSE
  BY <1>1, MenuRecords DEF MenuInv, MenuTypeOK
<1>2. ASSUME NEW x \in Ids, NEW p, Insert(x, p), p \in Ids \cup {WholeMenu}
      PROVE  FALSE
  BY <1>2, <1>1, MenuRecords DEF Insert, NewId
<1>3. ASSUME NEW x \in Ids, NEW p, MoveTo(x, p), p \in Ids
      PROVE  FALSE
  <2>1. [nodes[x] EXCEPT !.parent = p] \in MenuRow
    BY <1>3, RowFacts DEF MoveTo, MenuRow
  <2> QED
    BY <2>1, <1>3, <1>1 DEF MoveTo
<1>4. ASSUME NEW x \in Ids, ToggleEntity(x)
      PROVE  FALSE
  <2>1. [nodes[x] EXCEPT !.active = ~@] \in MenuRow
    BY <1>4, RowFacts DEF ToggleEntity, MenuRow
  <2> QED
    BY <2>1, <1>4, <1>1 DEF ToggleEntity
<1>5. ASSUME NEW ids \in SUBSET (Sections \cup Items), NEW on \in BOOLEAN, SetMenuEntitiesActive(ids, on)
      PROVE  FALSE
  <2>1. nodes[id] \in MenuRow
    BY RowFacts
  <2>2. [nodes[id] EXCEPT !.active = on].exists
    BY <2>1 DEF MenuRow
  <2> QED
    BY <1>5, <2>2 DEF SetMenuEntitiesActive
<1>6. nodes' # nodes
  OBVIOUS
<1> QED
  BY <1>2, <1>3, <1>4, <1>5, <1>6
  DEF MenuNext, CreateSection, CreateItem, CreateType, CreateSize, CreateAddon,
      UpdateItem, UpdateType, UpdateSize, UpdateAddon, Ids, LookForDelete,
      CreateSchedule, CreateSchedules, AddSchedules, UpdateSchedule, DeleteSchedule

\* The deletion a row goes with has found all schedules of its rows that it has
\* seen, whatever was changed of them since.
THEOREM NoScheduleIsLeftBehind == MenuSpec => SchedulesHaveOwners
<1>1. ASSUME MenuInv, MenuNext, NEW sch \in schedules \cap schedules', NEW id \in Ids,
             sch.entity = id, nodes[id].exists, ~nodes'[id].exists
      PROVE  \E d \in deletions \ deletions' : ~(sch \in d.seen /\ id \in d.rows)
  <2>1. PICK d \in deletions : FinishDelete(d)
    BY <1>1, RowsStay
  <2>2. d \notin deletions' /\ sch \notin d.found
    BY <1>1, <2>1 DEF FinishDelete
  <2>3. \A x \in d.seen : x.entity \in d.rows => x \in d.found
    BY <1>1 DEF MenuInv, DeletionsOK
  <2> QED
    BY <1>1, <2>2, <2>3
<1>2. MenuInv /\ [MenuNext]_menuVars =>
        [\A sch \in schedules \cap schedules', id \in Ids :
            sch.entity = id /\ nodes[id].exists /\ ~nodes'[id].exists =>
               \E d \in deletions \ deletions' : ~(sch \in d.seen /\ id \in d.rows)]_menuVars
  BY <1>1
<1> QED
  BY <1>2, MenuStaysATree, PTL DEF MenuSpec, SchedulesHaveOwners

-----------------------------------------------------------------------------
(* What the customers are shown *)

\* A size is for sale with everything above it.
ForSale(z, now) ==
  /\ Offered(z, now) /\ Offered(Parent(z), now) /\ Offered(Parent(Parent(z)), now)
  /\ Offered(Parent(Parent(Parent(z))), now)

LEMMA OfferedFacts ==
  ASSUME MenuInv, NEW now
  PROVE  /\ \A x \in Items : Offered(x, now) => Parent(x) \in Sections
         /\ \A x \in Types : Offered(x, now) => Parent(x) \in Items
         /\ \A x \in Sizes : Offered(x, now) => Parent(x) \in Types
         /\ \A x \in Addons : Offered(x, now) => Parent(x) \in Sizes
  BY RowFacts DEF Offered, Placed, HangsFrom, Ids

\* The rows of the public menu, level by level: the emptied rows that
\* get_menu_tree drops are those without a size for sale.
LEMMA PublicRows ==
  ASSUME MenuInv, NEW now
  PROVE  /\ MenuTree(now) \subseteq Ids
         /\ \A s \in Sections : s \in MenuTree(now) <=> \E z \in Sizes : ForSale(z, now) /\ Parent(Parent(Parent(z))) = s
         /\ \A i \in Items : i \in MenuTree(now) <=> \E z \in Sizes : ForSale(z, now) /\ Parent(Parent(z)) = i
         /\ \A t \in Types : t \in MenuTree(now) <=> \E z \in Sizes : ForSale(z, now) /\ Parent(z) = t
         /\ \A z \in Sizes : z \in MenuTree(now) <=> ForSale(z, now)
         /\ \A a \in Addons : a \in MenuTree(now) <=> Offered(a, now) /\ ForSale(Parent(a), now)
<1> DEFINE offered == {id \in Ids : Offered(id, now)}
           Above(ids) == {Parent(id) : id \in ids}
           Under(ids, parents) == {id \in ids : Parent(id) \in parents}
           sizes == Sizes \cap offered
           types == Types \cap offered \cap Above(sizes)
           items == Items \cap offered \cap Above(types)
           ss == Sections \cap offered \cap Above(items)
           is == Under(items, ss)
           ts == Under(types, is)
           zs == Under(sizes, ts)
           us == Under(Addons \cap offered, zs)
<1>1. MenuTree(now) = ss \cup is \cup ts \cup zs \cup us
  BY DEF MenuTree
<1>2. ss \subseteq Sections /\ is \subseteq Items /\ ts \subseteq Types /\ zs \subseteq Sizes /\ us \subseteq Addons
  OBVIOUS
<1>3. \A x \in Ids : x \in offered <=> Offered(x, now)
  OBVIOUS
<1>4. \A x : x \in types <=> x \in Types /\ Offered(x, now) /\ \E z \in Sizes : Offered(z, now) /\ Parent(z) = x
  BY DEF Ids
<1>5. \A x : x \in items <=> x \in Items /\ Offered(x, now) /\ \E t \in types : Parent(t) = x
  BY DEF Ids
<1>6. \A x : x \in ss <=> x \in Sections /\ Offered(x, now) /\ \E i \in items : Parent(i) = x
  BY DEF Ids
<1>7. \A x : x \in sizes <=> x \in Sizes /\ Offered(x, now)
  BY DEF Ids
<1>8. /\ \A x : x \in is <=> x \in items /\ Parent(x) \in ss
      /\ \A x : x \in ts <=> x \in types /\ Parent(x) \in is
      /\ \A x : x \in zs <=> x \in sizes /\ Parent(x) \in ts
      /\ \A x : x \in us <=> x \in Addons /\ Offered(x, now) /\ Parent(x) \in zs
  BY DEF Ids
<1> HIDE DEF offered, types, items, ss, sizes, is, ts, zs, us
<1>9. \A z \in Sizes : z \in zs <=> ForSale(z, now)
  <2>1. ASSUME NEW z \in Sizes, z \in zs
        PROVE  ForSale(z, now)
    BY <2>1, <1>4, <1>5, <1>6, <1>7, <1>8 DEF ForSale
  <2>2. ASSUME NEW z \in Sizes, ForSale(z, now)
        PROVE  z \in zs
    <3>1. z \in sizes /\ Parent(z) \in types
      BY <2>2, <1>4, <1>7, OfferedFacts DEF ForSale
    <3>2. Parent(Parent(z)) \in items
      BY <2>2, <3>1, <1>4, <1>5, OfferedFacts DEF ForSale
    <3>3. Parent(Parent(Parent(z))) \in ss
      BY <2>2, <3>2, <1>5, <1>6, OfferedFacts DEF ForSale
    <3> QED
      BY <3>1, <3>2, <3>3, <1>8
  <2> QED
    BY <2>1, <2>2
<1>10. \A t \in Types : t \in ts <=> \E z \in Sizes : ForSale(z, now) /\ Parent(z) = t
  <2>1. ASSUME NEW t \in Types, t \in ts
        PROVE  \E z \in Sizes : ForSale(z, now) /\ Parent(z) = t
    <3>1. t \in types
      BY <2>1, <1>8
    <3>2. PICK z \in Sizes : Offered(z, now) /\ Parent(z) = t
      BY <3>1, <1>4
    <3>3. z \in zs
      BY <3>2, <2>1, <1>7, <1>8
    <3> QED
      BY <3>2, <3>3, <1>9
  <2>2. ASSUME NEW z \in Sizes, ForSale(z, now)
        PROVE  Parent(z) \in ts
    BY <2>2, <1>8, <1>9
  <2> QED
    BY <2>1, <2>2
<1>11. \A i \in Items : i \in is <=> \E z \in Sizes : ForSale(z, now) /\ Parent(Parent(z)) = i
  <2>1. ASSUME NEW i \in Items, i \in is
        PROVE  \E z \in Sizes : ForSale(z, now) /\ Parent(Parent(z)) = i
    <3>1. PICK t \in types : Parent(t) = i
      BY <2>1, <1>5, <1>8
    <3>2. t \in ts /\ t \in Types
      BY <3>1, <2>1, <1>4, <1>8
    <3> QED
      BY <3>1, <3>2, <1>10
  <2>2. ASSUME NEW z \in Sizes, ForSale(z, now)
        PROVE  Parent(Parent(z)) \in is
    BY <2>2, <1>8, <1>9
  <2> QED
    BY <2>1, <2>2
<1>12. \A s \in Sections : s \in ss <=> \E z \in Sizes : ForSale(z, now) /\ Parent(Parent(Parent(z))) = s
  <2>1. ASSUME NEW s \in Sections, s \in ss
        PROVE  \E z \in Sizes : ForSale(z, now) /\ Parent(Parent(Parent(z))) = s
    <3>1. PICK i \in items : Parent(i) = s
      BY <2>1, <1>6
    <3>2. i \in is /\ i \in Items
      BY <3>1, <2>1, <1>5, <1>8
    <3> QED
      BY <3>1, <3>2, <1>11
  <2>2. ASSUME NEW z \in Sizes, ForSale(z, now)
        PROVE  Parent(Parent(Parent(z))) \in ss
    BY <2>2, <1>8, <1>9
  <2> QED
    BY <2>1, <2>2
<1>13. \A a \in Addons : a \in us <=> Offered(a, now) /\ ForSale(Parent(a), now)
  <2>1. ASSUME NEW a \in Addons, a \in us
        PROVE  Offered(a, now) /\ ForSale(Parent(a), now)
    BY <2>1, <1>2, <1>8, <1>9, OfferedFacts
  <2>2. ASSUME NEW a \in Addons, Offered(a, now) /\ ForSale(Parent(a), now)
        PROVE  a \in us
    BY <2>2, <1>8, <1>9, OfferedFacts
  <2> QED
    BY <2>1, <2>2
<1>14. ss \subseteq Sections /\ is \subseteq Items /\ ts \subseteq Types /\ zs \subseteq Sizes /\ us \subseteq Addons
  BY <1>2 DEF offered, types, items, ss, sizes, is, ts, zs, us
<1> HIDE DEF Above, Under
<1> QED
  BY <1>1, <1>9, <1>10, <1>11, <1>12, <1>13, <1>14, MenuAssumption DEF Ids

LEMMA LineForSale ==
  ASSUME MenuInv, NEW now, NEW z \in Sizes
  PROVE  LineAccepted(z, now) <=> ForSale(z, now)
<1> DEFINE up(ids) == {Parent(x) : x \in ids \ Sections}
           a1 == up({z})
           a2 == up(a1)
           a3 == up(a2)
<1>1. Ancestors(z) = a1 \cup a2 \cup a3 \cup up(a3)
  BY DEF Ancestors
<1>2. a1 = {Parent(z)}
  BY MenuAssumption
<1>3. ASSUME ForSale(z, now)
      PROVE  \A id \in {z} \cup Ancestors(z) : Offered(id, now)
  <2>1. Parent(z) \in Types /\ Parent(Parent(z)) \in Items /\ Parent(Parent(Parent(z))) \in Sections
    BY <1>3, OfferedFacts DEF ForSale
  <2>2. a2 = {Parent(Parent(z))}
    BY <1>2, <2>1, MenuAssumption
  <2>3. a3 = {Parent(Parent(Parent(z)))}
    BY <2>2, <2>1, MenuAssumption
  <2>4. up(a3) = {}
    BY <2>3, <2>1
  <2> QED
    BY <1>1, <1>2, <1>3, <2>2, <2>3, <2>4 DEF ForSale
<1>4. ASSUME \A id \in {z} \cup Ancestors(z) : Offered(id, now)
      PROVE  ForSale(z, now)
  <2>1. Parent(z) \in Types /\ Offered(Parent(z), now) /\ Offered(z, now)
    BY <1>1, <1>2, <1>4, OfferedFacts
  <2>2. a2 = {Parent(Parent(z))}
    BY <1>2, <2>1, MenuAssumption
  <2>3. Parent(Parent(z)) \in Items /\ Offered(Parent(Parent(z)), now)
    BY <1>1, <1>4, <2>1, <2>2, OfferedFacts
  <2>4. a3 = {Parent(Parent(Parent(z)))}
    BY <2>2, <2>3, MenuAssumption
  <2> QED
    BY <1>1, <1>4, <2>1, <2>3, <2>4 DEF ForSale
<1> QED
  BY <1>3, <1>4 DEF LineAccepted, ForSale, Offered

LEMMA ShownIsOrderable == MenuInv => ShownIffOrderable
<1> SUFFICES ASSUME MenuInv, NEW now \in Moments
             PROVE  MenuTree(now) \cap (Sizes \cup Addons) =
                      {z \in Sizes : LineAccepted(z, now)}
                        \cup {a \in Addons : \E z \in {y \in Sizes : LineAccepted(y, now)} : AddonAccepted(a, z, now)}
  BY DEF ShownIffOrderable
<1>1. \A z \in Sizes : z \in MenuTree(now) <=> LineAccepted(z, now)
  BY PublicRows, LineForSale
<1>2. ASSUME NEW a \in Addons, a \in MenuTree(now)
      PROVE  \E z \in {y \in Sizes : LineAccepted(y, now)} : AddonAccepted(a, z, now)
  <2>1. Offered(a, now) /\ ForSale(Parent(a), now) /\ Parent(a) \in Sizes
    BY <1>2, PublicRows, OfferedFacts
  <2> QED
    BY <2>1, LineForSale DEF AddonAccepted, Offered
<1>3. ASSUME NEW a \in Addons, NEW z \in Sizes, LineAccepted(z, now), AddonAccepted(a, z, now)
      PROVE  a \in MenuTree(now)
  BY <1>3, PublicRows, LineForSale DEF AddonAccepted
<1> QED
  BY <1>1, <1>2, <1>3, MenuAssumption

\* What the public menu shows at a moment is what an order placed then may
\* contain, whatever the admins have made of the menu and its schedules.
THEOREM ShownCanBeOrdered == MenuSpec => []ShownIffOrderable
  BY ShownIsOrderable, MenuStaysATree, PTL

-----------------------------------------------------------------------------
(* What the admins are shown *)

\* The beginning of a minute on the server's clock.
MomentOf(day, minute) == [day |-> day, clock |-> 2 * minute]

LEMMA SchedulesAgree ==
  ASSUME NEW sch \in MenuSchedule, sch.active, NEW day, NEW minute \in Minutes
  PROVE  PreviewScheduleActive(sch, day, minute) <=> IsScheduleActive(sch, MomentOf(day, minute))
<1>1. sch.start \in Nat /\ sch.end \in Nat /\ minute \in Nat
  BY MenuAssumption DEF MenuSchedule
<1> DEFINE now == MomentOf(day, minute)
<1>2. now.day = day /\ now.clock = 2 * minute
  BY DEF MomentOf
<1>3. /\ now.clock <= 2 * sch.end <=> minute <= sch.end
      /\ 2 * sch.start <= now.clock <=> sch.start <= minute
      /\ now.clock >= 2 * sch.start <=> minute >= sch.start
      /\ 2 * sch.start <= 2 * sch.end <=> ~(sch.start > sch.end)
  BY <1>1, <1>2
<1>4. ScheduleDay(sch, now) = IF sch.start > sch.end /\ minute <= sch.end THEN DayBefore(day) ELSE day
  BY <1>2, <1>3 DEF ScheduleDay
<1>5. IsTimeInWindow(2 * sch.start, 2 * sch.end, now.clock)
        <=> IF sch.start > sch.end THEN minute >= sch.start \/ minute <= sch.end
            ELSE sch.start <= minute /\ minute <= sch.end
  BY <1>1, <1>2, <1>3 DEF IsTimeInWindow
<1> QED
  BY <1>1, <1>4, <1>5 DEF PreviewScheduleActive, IsScheduleActive

LEMMA KeptIsOffered ==
  ASSUME MenuInv, NEW day, NEW minute \in Minutes
  PROVE  Kept(day, minute) = {id \in Ids : Offered(id, MomentOf(day, minute))}
<1>1. ASSUME NEW e
      PROVE  PreviewOpen(e, day, minute) <=> Open(e, MomentOf(day, minute))
  <2>1. ScheduleIndexFor(e) = SchedulesOf(e)
    BY DEF ScheduleIndexFor, SchedulesOf
  <2>2. \A sch \in SchedulesOf(e) : sch \in MenuSchedule /\ sch.active
    BY DEF SchedulesOf, MenuInv, MenuTypeOK
  <2> QED
    BY <2>1, <2>2, SchedulesAgree DEF PreviewOpen, Open
<1> QED
  BY <1>1 DEF Kept, Offered, IsEntityAvailable, EntityAvailable

\* The preview keeps a row when its own filter leaves something below it: the
\* same rows as those of the public menu.
LEMMA PreviewRows ==
  ASSUME MenuInv, NEW day, NEW minute \in Minutes
  PROVE  PreviewMenu(day, minute) = MenuTree(MomentOf(day, minute))
<1> DEFINE now == MomentOf(day, minute)
           kept == Kept(day, minute)
           K(id) == {c \in kept : Parent(c) = id}
           types(i) == {t \in K(i) : K(t) # {}}
           items(s) == {i \in K(s) : types(i) # {}}
           ss == {s \in K(WholeMenu) : items(s) # {}}
           is == UNION {items(s) : s \in ss}
           ts == UNION {types(i) : i \in is}
           zs == UNION {K(t) : t \in ts}
           us == UNION {K(z) : z \in zs}
<1>1. PreviewMenu(day, minute) = ss \cup is \cup ts \cup zs \cup us
  BY DEF PreviewMenu
<1>2. \A x : x \in kept <=> x \in Ids /\ Offered(x, now)
  BY KeptIsOffered
<1>3. ASSUME NEW x \in kept
      PROVE  /\ x \in Sections <=> Parent(x) = WholeMenu
             /\ x \in Items <=> Parent(x) \in Sections
             /\ x \in Types <=> Parent(x) \in Items
             /\ x \in Sizes <=> Parent(x) \in Types
             /\ x \in Addons <=> Parent(x) \in Sizes
  <2>1. x \in Ids /\ Placed(x)
    BY <1>2, RowFacts DEF Offered
  <2> QED
    BY <2>1, MenuAssumption DEF Placed, HangsFrom, Ids
<1>4. \A x, p : x \in K(p) <=> x \in kept /\ Parent(x) = p
  OBVIOUS
<1>5. \A x, p : x \in types(p) <=> x \in kept /\ Parent(x) = p /\ \E z \in kept : Parent(z) = x
  OBVIOUS
<1>6. \A x, p : x \in items(p) <=> x \in kept /\ Parent(x) = p /\ \E t : t \in types(x)
  OBVIOUS
<1>7. \A x : x \in ss <=> x \in kept /\ Parent(x) = WholeMenu /\ \E i : i \in items(x)
  OBVIOUS
<1>8. /\ \A x : x \in is <=> \E s \in ss : x \in items(s)
      /\ \A x : x \in ts <=> \E i \in is : x \in types(i)
      /\ \A x : x \in zs <=> \E t \in ts : x \in K(t)
      /\ \A x : x \in us <=> \E z \in zs : x \in K(z)
  OBVIOUS
<1> HIDE DEF kept, K, types, items, ss, is, ts, zs, us
<1>9. ASSUME NEW z \in Sizes, ForSale(z, now)
      PROVE  /\ z \in zs /\ Parent(z) \in ts /\ Parent(Parent(z)) \in is
             /\ Parent(Parent(Parent(z))) \in ss
  <2> DEFINE t == Parent(z)
             i == Parent(t)
             s == Parent(i)
  <2>1. z \in kept /\ t \in kept /\ i \in kept /\ s \in kept /\ s \in Sections
    BY <1>9, <1>2, OfferedFacts DEF ForSale, Ids
  <2>2. t \in types(i)
    BY <2>1, <1>5
  <2>3. i \in items(s)
    BY <2>1, <2>2, <1>6
  <2>4. s \in ss
    BY <2>1, <2>3, <1>3, <1>7
  <2>5. i \in is
    BY <2>3, <2>4, <1>8
  <2>6. t \in ts
    BY <2>2, <2>5, <1>8
  <2>7. z \in zs
    BY <2>1, <2>6, <1>4, <1>8
  <2> QED
    BY <2>4, <2>5, <2>6, <2>7
<1>10. ASSUME NEW t, t \in ts
       PROVE  t \in Types /\ t \in kept /\ Parent(t) \in kept /\ Parent(Parent(t)) \in kept
  <2>1. PICK i \in is : t \in types(i)
    BY <1>10, <1>8
  <2>2. PICK s \in ss : i \in items(s)
    BY <2>1, <1>8
  <2>3. s \in kept /\ s \in Sections
    BY <2>2, <1>3, <1>7
  <2>4. i \in kept /\ Parent(i) = s /\ i \in Items
    BY <2>2, <2>3, <1>3, <1>6
  <2> QED
    BY <2>1, <2>3, <2>4, <1>3, <1>5
<1>11. ASSUME NEW t, t \in ts, NEW z \in kept, Parent(z) = t
       PROVE  z \in Sizes /\ ForSale(z, now)
  BY <1>2, <1>3, <1>10, <1>11 DEF ForSale
<1>12. ASSUME NEW z, z \in zs
       PROVE  z \in Sizes /\ ForSale(z, now)
  <2>1. PICK t \in ts : z \in kept /\ Parent(z) = t
    BY <1>12, <1>4, <1>8
  <2> QED
    BY <2>1, <1>11
<1>13. ASSUME NEW t, t \in ts
       PROVE  \E z \in Sizes : ForSale(z, now) /\ Parent(z) = t
  <2>1. PICK i \in is : t \in types(i)
    BY <1>13, <1>8
  <2>2. PICK z \in kept : Parent(z) = t
    BY <2>1, <1>5
  <2> QED
    BY <2>2, <1>13, <1>11
<1>14. ASSUME NEW i, i \in is
       PROVE  i \in Items /\ \E z \in Sizes : ForSale(z, now) /\ Parent(Parent(z)) = i
  <2>1. PICK s \in ss : i \in items(s)
    BY <1>14, <1>8
  <2>2. PICK t : t \in types(i)
    BY <2>1, <1>6
  <2>3. t \in ts /\ Parent(t) = i
    BY <2>2, <1>14, <1>5, <1>8
  <2> QED
    BY <2>1, <2>3, <1>3, <1>6, <1>7, <1>13
<1>15. ASSUME NEW s, s \in ss
       PROVE  s \in Sections /\ \E z \in Sizes : ForSale(z, now) /\ Parent(Parent(Parent(z))) = s
  <2>1. PICK i : i \in items(s)
    BY <1>15, <1>7
  <2>2. i \in is /\ Parent(i) = s
    BY <2>1, <1>15, <1>6, <1>8
  <2> QED
    BY <2>2, <1>15, <1>3, <1>7, <1>14
<1>16. \A a : a \in us <=> a \in Addons /\ Offered(a, now) /\ ForSale(Parent(a), now)
  <2>1. ASSUME NEW a, a \in us
        PROVE  a \in Addons /\ Offered(a, now) /\ ForSale(Parent(a), now)
    <3>1. PICK z \in zs : a \in kept /\ Parent(a) = z
      BY <2>1, <1>4, <1>8
    <3> QED
      BY <3>1, <1>2, <1>3, <1>12
  <2>2. ASSUME NEW a \in Addons, Offered(a, now), ForSale(Parent(a), now)
        PROVE  a \in us
    <3>1. Parent(a) \in zs
      BY <2>2, <1>9, OfferedFacts
    <3> QED
      BY <2>2, <3>1, <1>2, <1>4, <1>8 DEF Ids
  <2> QED
    BY <2>1, <2>2
<1>17. ASSUME NEW x
       PROVE  x \in MenuTree(now) <=> x \in ss \cup is \cup ts \cup zs \cup us
  <2>1. /\ x \in ss => x \in Sections
        /\ x \in is => x \in Items
        /\ x \in ts => x \in Types
        /\ x \in zs => x \in Sizes
        /\ x \in us => x \in Addons
    BY <1>10, <1>12, <1>14, <1>15, <1>16
  <2>2. CASE x \in Sections
    <3>1. x \in MenuTree(now) <=> x \in ss
      BY <2>2, <1>9, <1>15, PublicRows
    <3> QED
      BY <2>1, <2>2, <3>1, MenuAssumption
  <2>3. CASE x \in Items
    <3>1. x \in MenuTree(now) <=> x \in is
      BY <2>3, <1>9, <1>14, PublicRows
    <3> QED
      BY <2>1, <2>3, <3>1, MenuAssumption
  <2>4. CASE x \in Types
    <3>1. x \in MenuTree(now) <=> x \in ts
      BY <2>4, <1>9, <1>13, PublicRows
    <3> QED
      BY <2>1, <2>4, <3>1, MenuAssumption
  <2>5. CASE x \in Sizes
    <3>1. x \in MenuTree(now) <=> x \in zs
      BY <2>5, <1>9, <1>12, PublicRows
    <3> QED
      BY <2>1, <2>5, <3>1, MenuAssumption
  <2>6. CASE x \in Addons
    <3>1. x \in MenuTree(now) <=> x \in us
      BY <2>6, <1>16, PublicRows
    <3> QED
      BY <2>1, <2>6, <3>1, MenuAssumption
  <2> QED
    BY <2>1, <2>2, <2>3, <2>4, <2>5, <2>6, PublicRows DEF Ids
<1> QED
  BY <1>1, <1>17

\* The admin app's preview shows, whatever the phone's clock reads, what the
\* customers are shown when the store's clock comes to that reading, for any menu
\* and any schedules.
THEOREM PreviewTellsTheTruth == MenuSpec => []PreviewIsPublic
<1>1. MenuInv => PreviewIsPublic
  BY PreviewRows DEF PreviewIsPublic, PhoneClocks, StoreReading, MomentOf
<1> QED
  BY <1>1, MenuStaysATree, PTL

\* The rows above one, level by level.
LEMMA AncestorsOf ==
  ASSUME MenuInv
  PROVE  /\ \A i \in Items : nodes[i].exists => Ancestors(i) = {Parent(i)}
         /\ \A t \in Types : nodes[t].exists => Ancestors(t) = {Parent(t), Parent(Parent(t))}
         /\ \A z \in Sizes : nodes[z].exists =>
              Ancestors(z) = {Parent(z), Parent(Parent(z)), Parent(Parent(Parent(z)))}
         /\ \A a \in Addons : nodes[a].exists =>
              Ancestors(a) = {Parent(a), Parent(Parent(a)), Parent(Parent(Parent(a))),
                              Parent(Parent(Parent(Parent(a))))}
<1> DEFINE up(ids) == {Parent(x) : x \in ids \ Sections}
<1>1. \A id : Ancestors(id) = up({id}) \cup up(up({id})) \cup up(up(up({id}))) \cup up(up(up(up({id}))))
  BY DEF Ancestors
<1>2. \A x : x \notin Sections => up({x}) = {Parent(x)}
  OBVIOUS
<1>3. \A x \in Sections : up({x}) = {}
  OBVIOUS
<1>4. up({}) = {}
  OBVIOUS
<1> HIDE DEF up
<1>5. /\ \A x \in Items : nodes[x].exists => HangsFrom(x, Sections) /\ x \notin Sections
      /\ \A x \in Types : nodes[x].exists => HangsFrom(x, Items) /\ x \notin Sections
      /\ \A x \in Sizes : nodes[x].exists => HangsFrom(x, Types) /\ x \notin Sections
      /\ \A x \in Addons : nodes[x].exists => HangsFrom(x, Sizes) /\ x \notin Sections
  BY RowFacts, MenuAssumption DEF Placed, Ids
<1>6. ASSUME NEW i \in Items, nodes[i].exists
      PROVE  Ancestors(i) = {Parent(i)}
  <2>1. up({i}) = {Parent(i)} /\ Parent(i) \in Sections
    BY <1>2, <1>5, <1>6 DEF HangsFrom
  <2>2. up(up({i})) = {}
    BY <2>1, <1>3
  <2> QED
    BY <2>1, <2>2, <1>1, <1>4
<1>7. ASSUME NEW t \in Types, nodes[t].exists
      PROVE  Ancestors(t) = {Parent(t), Parent(Parent(t))}
  <2>1. up({t}) = {Parent(t)} /\ Parent(t) \in Items /\ nodes[Parent(t)].exists
    BY <1>2, <1>5, <1>7 DEF HangsFrom
  <2>2. up(up({t})) = {Parent(Parent(t))} /\ Parent(Parent(t)) \in Sections
    BY <2>1, <1>2, <1>5 DEF HangsFrom
  <2>3. up(up(up({t}))) = {}
    BY <2>2, <1>3
  <2> QED
    BY <2>1, <2>2, <2>3, <1>1, <1>4
<1>8. ASSUME NEW z \in Sizes, nodes[z].exists
      PROVE  Ancestors(z) = {Parent(z), Parent(Parent(z)), Parent(Parent(Parent(z)))}
  <2>1. up({z}) = {Parent(z)} /\ Parent(z) \in Types /\ nodes[Parent(z)].exists
    BY <1>2, <1>5, <1>8 DEF HangsFrom
  <2>2. up(up({z})) = {Parent(Parent(z))} /\ Parent(Parent(z)) \in Items /\ nodes[Parent(Parent(z))].exists
    BY <2>1, <1>2, <1>5 DEF HangsFrom
  <2>3. up(up(up({z}))) = {Parent(Parent(Parent(z)))} /\ Parent(Parent(Parent(z))) \in Sections
    BY <2>2, <1>2, <1>5 DEF HangsFrom
  <2>4. up(up(up(up({z})))) = {}
    BY <2>3, <1>3
  <2> QED
    BY <2>1, <2>2, <2>3, <2>4, <1>1
<1>9. ASSUME NEW a \in Addons, nodes[a].exists
      PROVE  Ancestors(a) = {Parent(a), Parent(Parent(a)), Parent(Parent(Parent(a))),
                             Parent(Parent(Parent(Parent(a))))}
  <2>1. up({a}) = {Parent(a)} /\ Parent(a) \in Sizes /\ nodes[Parent(a)].exists
    BY <1>2, <1>5, <1>9 DEF HangsFrom
  <2>2. up(up({a})) = {Parent(Parent(a))} /\ Parent(Parent(a)) \in Types /\ nodes[Parent(Parent(a))].exists
    BY <2>1, <1>2, <1>5 DEF HangsFrom
  <2>3. /\ up(up(up({a}))) = {Parent(Parent(Parent(a)))}
        /\ Parent(Parent(Parent(a))) \in Items /\ nodes[Parent(Parent(Parent(a)))].exists
    BY <2>2, <1>2, <1>5 DEF HangsFrom
  <2>4. up(up(up(up({a})))) = {Parent(Parent(Parent(Parent(a))))}
    BY <2>3, <1>2, <1>5 DEF HangsFrom
  <2> QED
    BY <2>1, <2>2, <2>3, <2>4, <1>1
<1> QED
  BY <1>6, <1>7, <1>8, <1>9

On(id) == nodes[id].exists /\ nodes[id].active

\* What the badges say, level by level.
LEMMA Labels ==
  ASSUME MenuInv
  PROVE  /\ \A i \in Items \cap Present :
              ProductVisibility(i) = "visible" <=> On(Parent(i)) /\ On(i) /\ HasActiveType(i)
         /\ \A i \in Items \cap Present :
              VisibilityLabel(i, AncestorsActive(i)) = "visible" <=> On(Parent(i)) /\ On(i) /\ HasActiveType(i)
         /\ \A t \in Types \cap Present :
              VisibilityLabel(t, AncestorsActive(t)) = "visible" <=>
                /\ On(t) /\ On(Parent(t)) /\ On(Parent(Parent(t)))
                /\ \E z \in Children(t) : nodes[z].active
         /\ \A z \in Sizes \cap Present :
              VisibilityLabel(z, AncestorsActive(z)) = "visible" <=>
                On(z) /\ On(Parent(z)) /\ On(Parent(Parent(z))) /\ On(Parent(Parent(Parent(z))))
         /\ \A a \in Addons \cap Present :
              VisibilityLabel(a, AncestorsActive(a)) = "visible" <=>
                /\ On(a) /\ On(Parent(a)) /\ On(Parent(Parent(a)))
                /\ On(Parent(Parent(Parent(a)))) /\ On(Parent(Parent(Parent(Parent(a)))))
<1>1. /\ \A x \in Items : nodes[x].exists => Parent(x) \in Sections /\ nodes[Parent(x)].exists
      /\ \A x \in Types : nodes[x].exists => Parent(x) \in Items /\ nodes[Parent(x)].exists
      /\ \A x \in Sizes : nodes[x].exists => Parent(x) \in Types /\ nodes[Parent(x)].exists
      /\ \A x \in Addons : nodes[x].exists => Parent(x) \in Sizes /\ nodes[Parent(x)].exists
  BY RowFacts DEF Placed, HangsFrom, Ids
<1>2. \A i \in Items \cap Present :
        ProductVisibility(i) = "visible" <=> On(Parent(i)) /\ On(i) /\ HasActiveType(i)
  BY <1>1 DEF ProductVisibility, On, Present
<1>3. \A i \in Items \cap Present :
        VisibilityLabel(i, AncestorsActive(i)) = "visible" <=> On(Parent(i)) /\ On(i) /\ HasActiveType(i)
  <2> SUFFICES ASSUME NEW i \in Items \cap Present
               PROVE  VisibilityLabel(i, AncestorsActive(i)) = "visible" <=> On(Parent(i)) /\ On(i) /\ HasActiveType(i)
    OBVIOUS
  <2>1. AncestorsActive(i) <=> nodes[Parent(i)].active
    BY AncestorsOf DEF AncestorsActive, Present
  <2>2. i \notin Sections /\ i \notin Types
    BY MenuAssumption
  <2>3. CASE HasActiveType(i)
    <3>1. VisibilityLabel(i, AncestorsActive(i)) = "visible" <=> AncestorsActive(i) /\ nodes[i].active
      BY <2>2, <2>3 DEF VisibilityLabel
    <3> QED
      BY <1>1, <2>1, <2>3, <3>1 DEF On, Present
  <2>4. CASE ~HasActiveType(i)
    <3>1. VisibilityLabel(i, AncestorsActive(i)) # "visible"
      BY <2>2, <2>4 DEF VisibilityLabel
    <3> QED
      BY <2>4, <3>1
  <2> QED
    BY <2>3, <2>4
<1>4. ASSUME NEW t \in Types \cap Present
      PROVE  VisibilityLabel(t, AncestorsActive(t)) = "visible" <=>
                /\ On(t) /\ On(Parent(t)) /\ On(Parent(Parent(t)))
                /\ \E z \in Children(t) : nodes[z].active
  <2>1. AncestorsActive(t) <=> nodes[Parent(t)].active /\ nodes[Parent(Parent(t))].active
    BY AncestorsOf DEF AncestorsActive, Present
  <2>2. t \notin Sections /\ t \notin Items
    BY MenuAssumption
  <2> QED
    BY <1>1, <2>1, <2>2 DEF VisibilityLabel, On, Present
<1>5. ASSUME NEW z \in Sizes \cap Present
      PROVE  VisibilityLabel(z, AncestorsActive(z)) = "visible" <=>
                On(z) /\ On(Parent(z)) /\ On(Parent(Parent(z))) /\ On(Parent(Parent(Parent(z))))
  <2>1. AncestorsActive(z) <=> /\ nodes[Parent(z)].active /\ nodes[Parent(Parent(z))].active
                              /\ nodes[Parent(Parent(Parent(z)))].active
    BY AncestorsOf DEF AncestorsActive, Present
  <2>2. z \notin Sections /\ z \notin Items /\ z \notin Types
    BY MenuAssumption
  <2> QED
    BY <1>1, <2>1, <2>2 DEF VisibilityLabel, On, Present
<1>6. ASSUME NEW a \in Addons \cap Present
      PROVE  VisibilityLabel(a, AncestorsActive(a)) = "visible" <=>
                /\ On(a) /\ On(Parent(a)) /\ On(Parent(Parent(a)))
                /\ On(Parent(Parent(Parent(a)))) /\ On(Parent(Parent(Parent(Parent(a)))))
  <2>1. AncestorsActive(a) <=> /\ nodes[Parent(a)].active /\ nodes[Parent(Parent(a))].active
                              /\ nodes[Parent(Parent(Parent(a)))].active
                              /\ nodes[Parent(Parent(Parent(Parent(a))))].active
    BY AncestorsOf DEF AncestorsActive, Present
  <2>2. a \notin Sections /\ a \notin Items /\ a \notin Types
    BY MenuAssumption
  <2> QED
    BY <1>1, <2>1, <2>2 DEF VisibilityLabel, On, Present
<1> QED
  BY <1>2, <1>3, <1>4, <1>5, <1>6

\* A row that is shown is on with everything above it, and has below it what
\* makes it visible.
LEMMA ShownIsVisible ==
  ASSUME MenuInv, NEW now, NEW id \in MenuTree(now), id \notin Sections
  PROVE  /\ id \in Present
         /\ VisibilityLabel(id, AncestorsActive(id)) = "visible"
         /\ id \in Items => ProductVisibility(id) = "visible"
<1>1. \A x : Offered(x, now) => On(x)
  BY DEF Offered, On
<1>2. \A z \in Sizes : ForSale(z, now) =>
        /\ On(z) /\ On(Parent(z)) /\ On(Parent(Parent(z))) /\ On(Parent(Parent(Parent(z))))
        /\ Parent(z) \in Types /\ Parent(Parent(z)) \in Items
        /\ z \in Children(Parent(z)) /\ Parent(z) \in Children(Parent(Parent(z)))
  BY <1>1, OfferedFacts DEF ForSale, Children, On, Parent, Ids
<1>3. CASE id \in Items
  <2>1. PICK z \in Sizes : ForSale(z, now) /\ Parent(Parent(z)) = id
    BY <1>3, PublicRows
  <2>2. HasActiveType(id)
    BY <2>1, <1>2 DEF HasActiveType, On
  <2>3. id \in Items \cap Present /\ On(Parent(id)) /\ On(id)
    BY <1>3, <2>1, <1>2 DEF Present, On, Ids
  <2> QED
    BY <2>2, <2>3, Labels
<1>4. CASE id \in Types
  <2>1. PICK z \in Sizes : ForSale(z, now) /\ Parent(z) = id
    BY <1>4, PublicRows
  <2>2. id \in Types \cap Present /\ On(Parent(Parent(id))) /\ On(Parent(id)) /\ On(id)
          /\ \E y \in Children(id) : nodes[y].active
    BY <1>4, <2>1, <1>2 DEF Present, On, Ids
  <2> QED
    BY <2>2, Labels, MenuAssumption
<1>5. CASE id \in Sizes
  <2>1. ForSale(id, now)
    BY <1>5, PublicRows
  <2>2. id \in Sizes \cap Present
    BY <1>5, <2>1, <1>2 DEF Present, On, Ids
  <2> QED
    BY <2>1, <2>2, <1>2, Labels, MenuAssumption
<1>6. CASE id \in Addons
  <2>1. Offered(id, now) /\ ForSale(Parent(id), now) /\ Parent(id) \in Sizes
    BY <1>6, PublicRows, OfferedFacts
  <2>2. id \in Addons \cap Present /\ On(id)
    BY <1>6, <2>1, <1>1 DEF Present, On, Ids
  <2> QED
    BY <2>1, <2>2, <1>2, Labels, MenuAssumption
<1> QED
  BY <1>3, <1>4, <1>5, <1>6, PublicRows DEF Ids

\* Without schedules a row below the sections that is badged visible is shown.
LEMMA VisibleIsShown ==
  ASSUME MenuInv, NEW now, Unscheduled, NEW id \in Present \ Sections,
         VisibilityLabel(id, AncestorsActive(id)) = "visible"
  PROVE  id \in MenuTree(now)
<1>1. \A x : On(x) => Offered(x, now)
  BY DEF Offered, On, EntityAvailable, Open, SchedulesOf, Unscheduled
<1>2. \A x, p : x \in Children(p) => x \in Ids /\ nodes[x].exists /\ Parent(x) = p
  BY DEF Children, Parent
<1>3. /\ \A t \in Types : \A z \in Children(t) : z \in Sizes
      /\ \A i \in Items : \A t \in Children(i) : t \in Types
  BY <1>2, RowFacts, MenuAssumption DEF Placed, HangsFrom, Ids
<1>4. CASE id \in Items
  <2>1. On(Parent(id)) /\ On(id) /\ HasActiveType(id)
    BY <1>4, Labels
  <2>2. PICK t \in Children(id) : nodes[t].active /\ \E z \in Children(t) : nodes[z].active
    BY <2>1 DEF HasActiveType
  <2>3. PICK z \in Children(t) : nodes[z].active
    BY <2>2
  <2>4. z \in Sizes /\ ForSale(z, now) /\ Parent(Parent(z)) = id
    BY <1>4, <2>1, <2>2, <2>3, <1>1, <1>2, <1>3 DEF ForSale, On
  <2> QED
    BY <1>4, <2>4, PublicRows
<1>5. CASE id \in Types
  <2>1. On(id) /\ On(Parent(id)) /\ On(Parent(Parent(id)))
    BY <1>5, Labels
  <2>2. PICK z \in Children(id) : nodes[z].active
    BY <1>5, Labels
  <2>3. z \in Sizes /\ ForSale(z, now) /\ Parent(z) = id
    BY <1>5, <2>1, <2>2, <1>1, <1>2, <1>3 DEF ForSale, On
  <2> QED
    BY <1>5, <2>3, PublicRows
<1>6. CASE id \in Sizes
  <2>1. ForSale(id, now)
    BY <1>6, Labels, <1>1 DEF ForSale
  <2> QED
    BY <1>6, <2>1, PublicRows
<1>7. CASE id \in Addons
  <2>1. Offered(id, now) /\ ForSale(Parent(id), now)
    BY <1>7, Labels, <1>1 DEF ForSale
  <2> QED
    BY <1>7, <2>1, PublicRows
<1> QED
  BY <1>4, <1>5, <1>6, <1>7 DEF Present, Ids

LEMMA BadgesTrue == MenuInv => BadgesTellTheTruth
<1> SUFFICES ASSUME MenuInv, NEW now \in Moments
             PROVE  LET products == {i \in Items \cap Present : ProductVisibility(i) = "visible"}
                        rows == {id \in Present \ Sections : VisibilityLabel(id, AncestorsActive(id)) = "visible"}
                        noted == HierarchyRows("issues", Ids)
                        notedProducts == {i \in ListedProducts("issues", Ids) : Parent(i) \in ListedSections("issues", Ids)}
                        shown == MenuTree(now)
                    IN /\ Items \cap shown \subseteq products
                       /\ shown \ Sections \subseteq rows
                       /\ Unscheduled =>
                             /\ products \cup (rows \cap (Items \cup Types)) \subseteq shown
                             /\ Present \ Sections \subseteq shown \cup noted
                             /\ Items \cap Present \subseteq shown \cup notedProducts
  BY DEF BadgesTellTheTruth
<1>1. \A i \in Items : i \notin Sections
  BY MenuAssumption
<1>2. \A i \in Items \cap Present : ProductVisibility(i) = "visible" <=> VisibilityLabel(i, AncestorsActive(i)) = "visible"
  BY Labels
<1>3. ASSUME Unscheduled, NEW id \in Present \ Sections, id \notin MenuTree(now)
      PROVE  id \in HierarchyRows("issues", Ids)
  <2>1. VisibilityLabel(id, AncestorsActive(id)) # "visible"
    BY <1>3, VisibleIsShown
  <2>2. MatchesFilter(id, "issues")
    BY <2>1 DEF MatchesFilter
  <2>3. id \in Below(id) /\ id \in Ids
    BY DEF Below, Present
  <2> QED
    BY <2>2, <2>3 DEF HierarchyRows
<1>4. ASSUME Unscheduled, NEW i \in Items \cap Present, i \notin MenuTree(now)
      PROVE  i \in ListedProducts("issues", Ids) /\ Parent(i) \in ListedSections("issues", Ids)
  <2>1. ProductVisibility(i) # "visible"
    BY <1>4, <1>1, <1>2, VisibleIsShown
  <2>2. ProductMatches(i, "issues")
    BY <2>1 DEF ProductMatches
  <2>3. i \in ListedProducts("issues", Ids)
    BY <2>2 DEF ListedProducts, Present
  <2>4. Parent(i) \in Sections \cap Present /\ i \in Children(Parent(i))
    BY RowFacts DEF Placed, HangsFrom, Present, Children, Parent, Ids
  <2> QED
    BY <2>3, <2>4 DEF ListedSections
<1> QED
  BY <1>1, <1>2, <1>3, <1>4, ShownIsVisible, VisibleIsShown

\* The badges of both menu editors and what they list as needing attention are
\* what the customers are shown, at every moment.
THEOREM BadgesAreRight == MenuSpec => []BadgesTellTheTruth
  BY BadgesTrue, MenuStaysATree, PTL

-----------------------------------------------------------------------------
(* The list of the mobile app *)

MenuCopy == [tree : [Ids -> MenuRow \cup {Absent}], schedules : SUBSET MenuSchedule]
Asked == [what : {"toggle", "delete", "bulk"}, ids : SUBSET (Sections \cup Items), on : BOOLEAN]
Answers == {<<>>} \cup UNION {[ids -> BOOLEAN] : ids \in SUBSET Ids}
Requested == [what : {"toggle", "delete", "bulk"}, ids : SUBSET (Sections \cup Items), on : BOOLEAN,
              done : BOOLEAN, answer : Answers]
Lists == [tree : [Ids -> MenuRow \cup {Absent}], schedules : SUBSET MenuSchedule, loads : SUBSET MenuCopy,
          selecting : BOOLEAN, picked : SUBSET (Sections \cup Items),
          alert : Asked \cup {NoAlert}, request : Requested \cup {Idle}]

\* A row's own actions are about that row; a bulk change that is done has the
\* switches it asked for.
OneUnlessBulk(r) == r.what \in {"toggle", "delete"} => \E id \in Sections \cup Items : r.ids = {id}
AsAsked(r) == r.what = "bulk" /\ r.done => r.answer = [id \in r.ids |-> r.on]
ListOK(l) == l \in Lists /\ OneUnlessBulk(l.alert) /\ OneUnlessBulk(l.request) /\ AsAsked(l.request)

ListInv == MenuInv /\ ListOK(list)

LEMMA NothingAsked ==
  /\ NoAlert \notin Asked /\ OneUnlessBulk(NoAlert)
  /\ Idle \notin Requested /\ OneUnlessBulk(Idle) /\ AsAsked(Idle)
<1>1. NoAlert.what = "none" /\ Idle.what = "none"
  BY DEF NoAlert, Idle
<1>2. (\A a \in Asked : a.what # "none") /\ (\A r \in Requested : r.what # "none")
  BY DEF Asked, Requested
<1> QED
  BY <1>1, <1>2 DEF OneUnlessBulk, AsAsked

LEMMA ListInitInv == MenuInit /\ ListInit => ListInv
<1> SUFFICES ASSUME MenuInit, ListInit
             PROVE  ListInv
  OBVIOUS
<1>1. MenuInv
  BY MenuInitInv
<1>2. list \in Lists /\ list.alert = NoAlert /\ list.request = Idle
  BY <1>1 DEF ListInit, Lists, MenuInv, MenuTypeOK
<1> QED
  BY <1>1, <1>2, NothingAsked DEF ListInv, ListOK

\* What the phone does by itself leaves the menu alone.
LEMMA ShownInv ==
  ASSUME MenuInv, NEW new, ListOK(new), Show(new)
  PROVE  ListInv'
<1>1. MenuInv'
  BY DEF Show, menuVars, MenuInv, MenuTypeOK, DeletionsOK, NoOrphans, Placed, HangsFrom, Parent
<1> QED
  BY <1>1 DEF Show, ListInv, ListOK, OneUnlessBulk, AsAsked

LEMMA LoadKept ==
  ASSUME ListInv, NEW loads \in SUBSET MenuCopy
  PROVE  ListOK([list EXCEPT !.loads = loads])
  BY DEF ListInv, ListOK, Lists

LEMMA CopyOfMenu == MenuInv => LoadOf(nodes, schedules) \in MenuCopy
  BY DEF MenuInv, MenuTypeOK, LoadOf, MenuCopy

\* A deletion nobody waits for any longer is the same deletion.
LEMMA LeftInv ==
  ASSUME MenuInv, UNCHANGED <<nodes, schedules>>,
         deletions' = {[d EXCEPT !.by = IF FromList(d) THEN "other" ELSE @] : d \in deletions}
  PROVE  MenuInv'
<1> DEFINE after(d) == [d EXCEPT !.by = IF FromList(d) THEN "other" ELSE @]
<1>1. \A d \in Deletions(MenuSchedule) :
         /\ after(d) \in Deletions(MenuSchedule)
         /\ after(d).rows = d.rows /\ after(d).seen = d.seen /\ after(d).found = d.found
  BY DEF Deletions
<1> HIDE DEF after
<1>2. deletions' = {after(d) : d \in deletions}
  BY DEF after
<1>3. DeletionsOK(MenuSchedule)'
  BY <1>1, <1>2 DEF MenuInv, DeletionsOK
<1> QED
  BY <1>3 DEF MenuInv, MenuTypeOK, NoOrphans, Placed, HangsFrom, Parent

LEMMA PhoneInv ==
  ASSUME ListInv,
         \/ Load \/ SetSelectionMode \/ LeaveSelectionMode \/ Cancel \/ Confirm \/ Answered \/ Failed
         \/ \E answer \in list.loads : Loaded(answer) \/ LoadFails(answer)
         \/ \E isActive \in BOOLEAN : UpdateSelectedAvailability(isActive)
         \/ \E id \in Sections \cup Items :
               \/ OpenActions(id, "toggle") \/ OpenActions(id, "delete")
               \/ \E mode \in {"all", "active", "inactive", "issues"} : ToggleSelected(id, mode, Ids)
  PROVE  ListInv'
<1> USE DEF ListInv
<1>1. list \in Lists
  BY DEF ListOK
<1>2. CASE Load
  <2>1. list.loads \cup {LoadOf(nodes, schedules)} \in SUBSET MenuCopy
    BY <1>1, CopyOfMenu DEF Lists
  <2> QED
    BY <1>2, <2>1, LoadKept, ShownInv DEF Load
<1>3. CASE SetSelectionMode
  <2>1. ListOK([list EXCEPT !.selecting = TRUE])
    BY DEF ListOK, Lists
  <2> QED
    BY <1>3, <2>1, ShownInv DEF SetSelectionMode
<1>4. CASE LeaveSelectionMode
  <2>1. ListOK([list EXCEPT !.selecting = FALSE, !.picked = {}])
    BY DEF ListOK, Lists
  <2> QED
    BY <1>4, <2>1, ShownInv DEF LeaveSelectionMode
<1>5. CASE Cancel
  <2>1. ListOK([list EXCEPT !.alert = NoAlert])
    BY NothingAsked DEF ListOK, Lists
  <2> QED
    BY <1>5, <2>1, ShownInv DEF Cancel
<1>6. CASE Confirm
  <2> DEFINE request == [what |-> list.alert.what, ids |-> list.alert.ids, on |-> list.alert.on,
                         done |-> FALSE, answer |-> <<>>]
  <2>1. list.alert \in Asked /\ OneUnlessBulk(list.alert)
    BY <1>6 DEF Confirm, ListOK, Lists
  <2>2. request \in Requested /\ request.what = list.alert.what /\ request.ids = list.alert.ids /\ ~request.done
    BY <2>1 DEF Asked, Requested, Answers
  <2>3. OneUnlessBulk(request) /\ AsAsked(request)
    BY <2>1, <2>2 DEF OneUnlessBulk, AsAsked
  <2> HIDE DEF request
  <2>4. ListOK([list EXCEPT !.alert = NoAlert, !.request = request])
    BY <1>1, <2>2, <2>3, NothingAsked DEF ListOK, Lists
  <2> QED
    BY <1>6, <2>4, ShownInv DEF Confirm, request
<1>7. CASE Answered
  <2> DEFINE bulk == list.request.what = "bulk"
             loads == list.loads \cup {LoadOf(nodes, schedules)}
             selecting == list.selecting /\ ~bulk
             picked == IF bulk THEN {} ELSE list.picked
  <2>1. loads \in SUBSET MenuCopy
    BY <1>1, CopyOfMenu DEF Lists
  <2>2. selecting \in BOOLEAN /\ picked \in SUBSET (Sections \cup Items)
    BY <1>1 DEF Lists
  <2>3. Show([list EXCEPT !.request = Idle, !.loads = loads, !.selecting = selecting, !.picked = picked])
    BY <1>7 DEF Answered
  <2> HIDE DEF loads, selecting, picked
  <2>4. ListOK([list EXCEPT !.request = Idle, !.loads = loads, !.selecting = selecting, !.picked = picked])
    BY <2>1, <2>2, NothingAsked DEF ListOK, Lists
  <2> QED
    BY <2>3, <2>4, ShownInv
<1>8. CASE Failed
  <2>1. ListOK([list EXCEPT !.request = Idle])
    BY NothingAsked DEF ListOK, Lists
  <2>2. MenuInv'
    BY <1>8, LeftInv DEF Failed
  <2>3. list' = [list EXCEPT !.request = Idle]
    BY <1>8 DEF Failed
  <2> QED
    BY <2>1, <2>2, <2>3
<1>9. ASSUME NEW answer \in list.loads, Loaded(answer) \/ LoadFails(answer)
      PROVE  ListInv'
  <2>1. list.loads \ {answer} \in SUBSET MenuCopy /\ answer \in MenuCopy
    BY <1>1 DEF Lists
  <2>2. ListOK([list EXCEPT !.loads = @ \ {answer}, !.tree = answer.tree, !.schedules = answer.schedules])
    BY <2>1 DEF ListOK, Lists, MenuCopy
  <2> QED
    BY <1>9, <2>1, <2>2, LoadKept, ShownInv DEF Loaded, LoadFails
<1>10. ASSUME NEW isActive \in BOOLEAN, UpdateSelectedAvailability(isActive)
       PROVE  ListInv'
  <2>1. [what |-> "bulk", ids |-> list.picked, on |-> isActive] \in Asked
    BY <1>1 DEF Lists, Asked
  <2>2. ListOK([list EXCEPT !.alert = [what |-> "bulk", ids |-> list.picked, on |-> isActive]])
    BY <1>1, <2>1 DEF ListOK, Lists, OneUnlessBulk
  <2> QED
    BY <1>10, <2>2, ShownInv DEF UpdateSelectedAvailability
<1>11. ASSUME NEW id \in Sections \cup Items, NEW what \in {"toggle", "delete"}, OpenActions(id, what)
       PROVE  ListInv'
  <2>1. list.tree[id].active \in BOOLEAN
    <3>1. list.tree[id] \in MenuRow \cup {Absent} /\ list.tree[id].exists
      BY <1>1, <1>11 DEF Lists, OpenActions, Seen!Present, Ids
    <3> QED
      BY <3>1, MenuRecords
  <2> DEFINE alert == [what |-> what, ids |-> {id}, on |-> ~list.tree[id].active]
  <2>2. alert \in Asked /\ OneUnlessBulk(alert)
    BY <2>1 DEF Asked, OneUnlessBulk
  <2>3. Show([list EXCEPT !.alert = alert])
    BY <1>11 DEF OpenActions
  <2> HIDE DEF alert
  <2>4. ListOK([list EXCEPT !.alert = alert])
    BY <1>1, <2>2 DEF ListOK, Lists
  <2> QED
    BY <2>3, <2>4, ShownInv
<1>12. ASSUME NEW id \in Sections \cup Items, NEW mode, ToggleSelected(id, mode, Ids)
       PROVE  ListInv'
  <2> DEFINE picked == IF id \in list.picked THEN list.picked \ {id} ELSE list.picked \cup {id}
  <2>1. picked \in SUBSET (Sections \cup Items)
    BY <1>1 DEF Lists
  <2>2. Show([list EXCEPT !.picked = picked])
    BY <1>12 DEF ToggleSelected
  <2> HIDE DEF picked
  <2>3. ListOK([list EXCEPT !.picked = picked])
    BY <2>1 DEF ListOK, Lists
  <2> QED
    BY <2>2, <2>3, ShownInv
<1> QED
  BY <1>2, <1>3, <1>4, <1>5, <1>6, <1>7, <1>8, <1>9, <1>10, <1>11, <1>12

\* The server's answer to a bulk change names all of its rows, since it was
\* done to all of them or refused.
LEMMA ServedInv ==
  ASSUME ListInv, Serve
  PROVE  ListInv'
<1> USE DEF ListInv
<1> DEFINE request == list.request
           answer == [id \in {x \in request.ids : nodes'[x].exists} |-> nodes'[id].active]
<1>1. list \in Lists /\ request \in Requested /\ OneUnlessBulk(request)
  BY DEF Serve, ListOK, Lists
<1>2. request.ids \in SUBSET Ids /\ request.ids \in SUBSET (Sections \cup Items) /\ request.on \in BOOLEAN
  BY <1>1 DEF Requested, Ids
<1>3. MenuInv'
  <2>1. CASE request.what = "toggle" /\ \A id \in request.ids : ToggleEntity(id)
    BY <2>1, <1>1, ToggleInv DEF OneUnlessBulk, Ids
  <2>2. CASE \E d \in deletions : FinishDelete(d)
    BY <2>2, DeleteInv
  <2>3. CASE request.what = "bulk" /\ SetMenuEntitiesActive(request.ids, request.on)
    BY <2>3, <1>2, SetActiveInv
  <2> QED
    BY <2>1, <2>2, <2>3 DEF Serve
<1>4. answer \in Answers
  <2>1. \A id \in Ids : nodes'[id].exists => nodes'[id].active \in BOOLEAN
    BY <1>3, MenuRecords DEF MenuInv, MenuTypeOK
  <2> DEFINE ids == {x \in request.ids : nodes'[x].exists}
  <2>2. ids \in SUBSET Ids /\ answer \in [ids -> BOOLEAN]
    BY <2>1, <1>2
  <2> HIDE DEF answer, ids
  <2> QED
    BY <2>2 DEF Answers
<1>5. request.what = "bulk" => answer = [id \in request.ids |-> request.on]
  <2> SUFFICES ASSUME request.what = "bulk"
               PROVE  answer = [id \in request.ids |-> request.on]
    OBVIOUS
  <2>1. SetMenuEntitiesActive(request.ids, request.on)
    BY DEF Serve
  <2>2. ASSUME NEW id \in request.ids
        PROVE  nodes'[id].exists /\ nodes'[id].active = request.on
    <3>1. nodes[id] \in MenuRow
      BY <2>1, <1>2, RowFacts DEF SetMenuEntitiesActive
    <3>2. nodes'[id] = [nodes[id] EXCEPT !.active = request.on]
      BY <2>1, <1>2 DEF SetMenuEntitiesActive
    <3> QED
      BY <3>1, <3>2 DEF MenuRow
  <2> QED
    BY <2>2
<1>6. list' = [list EXCEPT !.request = [request EXCEPT !.done = TRUE, !.answer = answer]]
  BY <1>1 DEF Serve, Lists, Requested
<1> DEFINE done == [request EXCEPT !.done = TRUE, !.answer = answer]
<1>7. /\ done \in Requested /\ done.what = request.what /\ done.ids = request.ids
      /\ done.on = request.on /\ done.answer = answer
  BY <1>1, <1>4 DEF Requested
<1>8. OneUnlessBulk(done) /\ AsAsked(done)
  BY <1>1, <1>5, <1>7 DEF OneUnlessBulk, AsAsked
<1> HIDE DEF done, answer
<1>9. list' = [list EXCEPT !.request = done]
  BY <1>6 DEF done
<1>10. /\ list' \in Lists /\ list'.alert = list.alert /\ list'.request = done
  BY <1>1, <1>7, <1>9 DEF Lists
<1> QED
  BY <1>3, <1>8, <1>10 DEF ListOK, OneUnlessBulk, AsAsked

\* A bulk change that the list takes for done has been done to every row that
\* was picked, however old the list and whatever the other admins do.
THEOREM BulkIsAllOrNothing == ListSpec => []BulkMeansAll
<1>1. ListInv /\ [MobileNext \/ (MenuNext /\ UNCHANGED list)]_<<menuVars, list>> => ListInv'
  <2> SUFFICES ASSUME ListInv, [MobileNext \/ (MenuNext /\ UNCHANGED list)]_<<menuVars, list>>
               PROVE  ListInv'
    OBVIOUS
  <2>1. CASE UNCHANGED <<menuVars, list>>
    BY <2>1 DEF menuVars, ListInv, MenuInv, MenuTypeOK, DeletionsOK, NoOrphans, Placed, HangsFrom, Parent,
                ListOK, OneUnlessBulk, AsAsked
  <2>2. CASE MenuNext /\ UNCHANGED list
    BY <2>2, MenuStepInv DEF ListInv, ListOK, OneUnlessBulk, AsAsked
  <2>3. CASE MobileNext
    <3>1. CASE StartDelete
      <4>1. list.request.ids \in SUBSET Ids
        BY <3>1 DEF StartDelete, ListInv, ListOK, Lists, Requested, Idle, Ids
      <4>2. MenuInv'
        BY <3>1, <4>1, LookInv DEF StartDelete, ListInv
      <4> QED
        BY <3>1, <4>2 DEF StartDelete, ListInv, ListOK, OneUnlessBulk, AsAsked
    <3> QED
      BY <2>3, <3>1, PhoneInv, ServedInv DEF MobileNext
  <2> QED
    BY <2>1, <2>2, <2>3
<1>2. ListInv => BulkMeansAll
  BY DEF ListInv, ListOK, AsAsked, BulkMeansAll, Done
<1> QED
  BY <1>1, <1>2, ListInitInv, PTL DEF ListSpec

-----------------------------------------------------------------------------
(* The page of the web editor *)

\* A row and one of the level above.
RightLevel(id, p) ==
  \/ id \in Items /\ p \in Sections
  \/ id \in Types /\ p \in Items
  \/ id \in Sizes /\ p \in Types
  \/ id \in Addons /\ p \in Sizes

Kinds == {"section", "item", "type", "size"}
WebForm == [what : {"edit", "move"}, id : Ids, parent : Ids \cup {WholeMenu, None}]
WebDialog == [what : {"toggle", "delete"}, id : Ids]
Pages == [tree : [Ids -> MenuRow \cup {Absent}], schedules : SUBSET MenuSchedule,
          context : [Kinds -> Ids \cup {None}], editing : WebForm \cup {Closed}, dialog : WebDialog \cup {Closed}]

\* The copy of the menu is one the server had; the context names rows of its
\* kinds, and a "Move" a parent of the level above.
PageOK(p) ==
  /\ p \in Pages
  /\ \A id \in Ids \ Sections : p.tree[id].exists => RightLevel(id, p.tree[id].parent)
  /\ \A k \in Kinds : p.context[k] \in RowsOf[k] \cup {None}
  /\ p.editing.what = "move" /\ p.editing.id \notin Sections => RightLevel(p.editing.id, p.editing.parent)

PageInv == MenuInv /\ PageOK(page)

LEMMA NothingEdited == Closed \notin WebForm /\ Closed \notin WebDialog /\ Closed.what = "closed"
<1>1. Closed.what = "closed"
  BY DEF Closed
<1>2. (\A f \in WebForm : f.what # "closed") /\ (\A d \in WebDialog : d.what # "closed")
  BY DEF WebForm, WebDialog
<1> QED
  BY <1>1, <1>2

LEMMA LevelsOfRows ==
  /\ \A id \in Sections : Level(id) = 1
  /\ \A id \in Items : Level(id) = 2
  /\ \A id \in Types : Level(id) = 3
  /\ \A id \in Sizes : Level(id) = 4
  /\ \A id \in Addons : Level(id) = 5
<1> DEFINE rows(n) == RowsOf[Levels[n]]
<1>1. rows(1) = Sections /\ rows(2) = Items /\ rows(3) = Types /\ rows(4) = Sizes /\ rows(5) = Addons
  BY DEF RowsOf, Levels
<1>2. 1 .. 5 = {1, 2, 3, 4, 5}
  OBVIOUS
<1>3. \A id : Level(id) = CHOOSE n \in {1, 2, 3, 4, 5} : id \in rows(n)
  BY <1>2 DEF Level
<1> HIDE DEF rows
<1>4. ASSUME NEW id, NEW n \in {1, 2, 3, 4, 5}, id \in rows(n),
             \A m \in {1, 2, 3, 4, 5} : id \in rows(m) => m = n
      PROVE  Level(id) = n
  BY <1>3, <1>4
<1>5. ASSUME NEW id \in Ids, NEW n \in {1, 2, 3, 4, 5}, NEW m \in {1, 2, 3, 4, 5}, id \in rows(n), id \in rows(m)
      PROVE  m = n
  BY <1>1, <1>5, MenuAssumption
<1> QED
  BY <1>1, <1>4, <1>5 DEF Ids

\* The names of the levels above.
LEMMA LevelAbove ==
  ASSUME NEW id \in Ids \ Sections
  PROVE  /\ Levels[Level(id) - 1] \in Kinds
         /\ \A p \in RowsOf[Levels[Level(id) - 1]] : RightLevel(id, p) /\ p \in Ids
<1>1. CASE id \in Items
  <2>1. Levels[Level(id) - 1] = "section"
    BY <1>1, LevelsOfRows DEF Levels
  <2> QED
    BY <1>1, <2>1 DEF RowsOf, RightLevel, Kinds, Ids
<1>2. CASE id \in Types
  <2>1. Levels[Level(id) - 1] = "item"
    BY <1>2, LevelsOfRows DEF Levels
  <2> QED
    BY <1>2, <2>1 DEF RowsOf, RightLevel, Kinds, Ids
<1>3. CASE id \in Sizes
  <2>1. Levels[Level(id) - 1] = "type"
    BY <1>3, LevelsOfRows DEF Levels
  <2> QED
    BY <1>3, <2>1 DEF RowsOf, RightLevel, Kinds, Ids
<1>4. CASE id \in Addons
  <2>1. Levels[Level(id) - 1] = "size"
    BY <1>4, LevelsOfRows DEF Levels
  <2> QED
    BY <1>4, <2>1 DEF RowsOf, RightLevel, Kinds, Ids
<1> QED
  BY <1>1, <1>2, <1>3, <1>4 DEF Ids

LEMMA KindsOfRows == \A k \in Kinds : RowsOf[k] \subseteq Ids
  BY DEF Kinds, RowsOf, Ids

LEMMA MenuIsLevel ==
  ASSUME MenuInv, NEW id \in Ids \ Sections, nodes[id].exists
  PROVE  RightLevel(id, nodes[id].parent)
  BY RowFacts DEF Placed, HangsFrom, RightLevel, Parent, Ids

LEMMA PageInitInv == MenuInit /\ PageInit => PageInv
<1> SUFFICES ASSUME MenuInit, PageInit
             PROVE  PageInv
  OBVIOUS
<1>1. MenuInv
  BY MenuInitInv
<1>2. page \in Pages /\ page.tree = nodes /\ page.context = NoContext /\ page.editing = Closed
  BY <1>1 DEF PageInit, Pages, MenuInv, MenuTypeOK, NoContext, Kinds
<1>3. \A k \in Kinds : NoContext[k] = None
  BY DEF NoContext, Kinds
<1> QED
  BY <1>1, <1>2, <1>3, MenuIsLevel, NothingEdited DEF PageInv, PageOK

\* What changes on the page alone.
LEMMA ClickInv ==
  ASSUME PageInv, NEW new, PageOK(new), Click(new)
  PROVE  PageInv'
<1>1. MenuInv'
  BY DEF PageInv, Click, menuVars, MenuInv, MenuTypeOK, DeletionsOK, NoOrphans, Placed, HangsFrom, Parent
<1> QED
  BY <1>1 DEF Click, PageInv, PageOK

\* Each part of the page changes on its own.
LEMMA ContextKept ==
  ASSUME PageInv, NEW context, context \in [Kinds -> Ids \cup {None}],
         \A k \in Kinds : context[k] \in RowsOf[k] \cup {None}
  PROVE  PageOK([page EXCEPT !.context = context])
  BY DEF PageInv, PageOK, Pages

LEMMA EditingKept ==
  ASSUME PageInv, NEW editing \in WebForm \cup {Closed},
         editing.what = "move" /\ editing.id \notin Sections => RightLevel(editing.id, editing.parent)
  PROVE  PageOK([page EXCEPT !.editing = editing])
  BY DEF PageInv, PageOK, Pages

LEMMA DialogKept ==
  ASSUME PageInv, NEW dialog \in WebDialog \cup {Closed}
  PROVE  PageOK([page EXCEPT !.dialog = dialog])
  BY DEF PageInv, PageOK, Pages

LEMMA OnPathFacts ==
  ASSUME NEW k \in Kinds, NEW id
  PROVE  OnPath(k, id) \in RowsOf[k] \cup {None}
  BY DEF OnPath

LEMMA ParentShownFacts ==
  ASSUME PageInv, NEW id \in Copy!Present
  PROVE  /\ id \in Ids
         /\ ParentShown(id) \in Ids \cup {WholeMenu, None}
         /\ id \notin Sections => RightLevel(id, ParentShown(id))
<1>1. id \in Ids /\ page.tree[id].exists
  BY DEF Copy!Present, Copy!Ids, Ids
<1>2. page.tree[id] \in MenuRow
  BY <1>1, MenuRecords DEF PageInv, PageOK, Pages
<1>3. Copy!Parent(id) = page.tree[id].parent
  BY DEF Copy!Parent
<1> QED
  BY <1>1, <1>2, <1>3, MenuRecords DEF ParentShown, PageInv, PageOK

LEMMA PageStepInv ==
  ASSUME PageInv, WebNext
  PROVE  PageInv'
<1>1. page \in Pages /\ MenuInv /\ PageOK(page)
  BY DEF PageInv, PageOK
<1>2. CASE Refetch
  <2>1. PageOK([page EXCEPT !.tree = nodes, !.schedules = schedules])
    BY <1>1, MenuIsLevel DEF PageOK, Pages, MenuInv, MenuTypeOK
  <2> QED
    BY <1>2, <2>1, ClickInv DEF Refetch, Click
<1>3. CASE CancelEdit
  BY <1>3, EditingKept, ClickInv, NothingEdited DEF CancelEdit
<1>4. CASE CloseDialog
  BY <1>4, DialogKept, ClickInv DEF CloseDialog
<1>5. CASE ConfirmToggle
  <2>1. page.dialog.id \in Ids
    BY <1>1, <1>5, NothingEdited DEF ConfirmToggle, Pages, WebDialog
  <2>2. MenuInv'
    BY <1>1, <1>5, <2>1, ToggleInv
    DEF ConfirmToggle, menuVars, MenuInv, MenuTypeOK, DeletionsOK, NoOrphans, Placed, HangsFrom, Parent
  <2>3. PageOK(page')
    BY <1>5, DialogKept DEF ConfirmToggle
  <2> QED
    BY <2>2, <2>3 DEF PageInv, PageOK
<1>6. ASSUME NEW id \in Ids, AddChild(id)
      PROVE  PageInv'
  <2> DEFINE kinds == {Levels[n] : n \in {Level(id), Level(id) - 1} \ {0}}
             context == [k \in Kinds |-> IF k \in kinds THEN OnPath(k, id) ELSE page.context[k]]
  <2>1. Click([page EXCEPT !.context = context])
    BY <1>1, <1>6 DEF AddChild, Pages
  <2>2. \A k \in Kinds : context[k] \in RowsOf[k] \cup {None}
    BY <1>1, OnPathFacts DEF PageOK
  <2>3. context \in [Kinds -> Ids \cup {None}]
    BY <2>2, KindsOfRows
  <2> HIDE DEF context
  <2> QED
    BY <2>1, <2>2, <2>3, ContextKept, ClickInv
<1>7. ASSUME NEW id \in Ids, StartEdit(id)
      PROVE  PageInv'
  <2> DEFINE editing == [what |-> "edit", id |-> id, parent |-> ParentShown(id)]
             context == [k \in Kinds |-> OnPath(k, id)]
  <2>1. Click([page EXCEPT !.editing = editing, !.context = context])
    BY <1>1, <1>7 DEF StartEdit, Pages
  <2>2. \A k \in Kinds : context[k] \in RowsOf[k] \cup {None}
    BY OnPathFacts
  <2>3. context \in [Kinds -> Ids \cup {None}]
    BY <2>2, KindsOfRows
  <2>4. editing \in WebForm /\ editing.what = "edit"
    BY <1>7, ParentShownFacts DEF StartEdit, WebForm
  <2> HIDE DEF editing, context
  <2>5. PageOK([page EXCEPT !.editing = editing, !.context = context])
    BY <1>1, <2>2, <2>3, <2>4 DEF PageOK, Pages
  <2> QED
    BY <2>1, <2>5, ClickInv
<1>8. ASSUME NEW id \in Ids, StartMove(id)
      PROVE  PageInv'
  <2> DEFINE editing == [what |-> "move", id |-> id, parent |-> ParentShown(id)]
  <2>1. Click([page EXCEPT !.editing = editing])
    BY <1>8 DEF StartMove
  <2>2. editing \in WebForm /\ editing.id = id /\ editing.parent = ParentShown(id)
    BY <1>8, ParentShownFacts DEF StartMove, WebForm
  <2>3. id \notin Sections => RightLevel(id, ParentShown(id))
    BY <1>8, ParentShownFacts DEF StartMove
  <2> HIDE DEF editing
  <2> QED
    BY <2>1, <2>2, <2>3, EditingKept, ClickInv
<1>9. ASSUME NEW p \in Ids, ChooseParent(p)
      PROVE  PageInv'
  <2>1. page.editing \in WebForm /\ page.editing.id \in Ids \ Sections
    BY <1>1, <1>9, NothingEdited DEF ChooseParent, Pages, WebForm
  <2>2. RightLevel(page.editing.id, p)
    BY <1>9, <2>1, LevelAbove DEF ChooseParent
  <2> DEFINE editing == [page.editing EXCEPT !.parent = p]
  <2>3. /\ editing \in WebForm /\ editing.id = page.editing.id
        /\ editing.parent = p
    BY <2>1 DEF WebForm
  <2>4. Click([page EXCEPT !.editing = editing])
    BY <1>1, <1>9 DEF ChooseParent, Pages
  <2> HIDE DEF editing
  <2> QED
    BY <2>2, <2>3, <2>4, EditingKept, ClickInv
<1>10. ASSUME NEW id \in Ids, NEW what \in {"toggle", "delete"}, OpenDialog(what, id)
       PROVE  PageInv'
  <2>1. [what |-> what, id |-> id] \in WebDialog
    BY DEF WebDialog
  <2> QED
    BY <1>10, <2>1, DialogKept, ClickInv DEF OpenDialog
<1>11. ASSUME NEW answered \in BOOLEAN, SaveEdit(answered)
       PROVE  PageInv'
  <2> DEFINE id == page.editing.id
             sent == ParentSent(page.editing)
  <2>1. page.editing \in WebForm
    BY <1>1, <1>11 DEF SaveEdit, Pages
  <2>2. CASE sent = {}
    BY <1>1, <1>11, <2>2
    DEF SaveEdit, menuVars, MenuInv, MenuTypeOK, DeletionsOK, NoOrphans, Placed, HangsFrom, Parent,
        PageInv, PageOK, Pages, Closed
  <2>3. CASE sent # {}
    <3>1. /\ page.editing.what = "move" /\ id \in Ids \ Sections
          /\ RightLevel(id, page.editing.parent) /\ MoveTo(id, page.editing.parent)
      BY <1>1, <1>11, <2>1, <2>3 DEF SaveEdit, ParentSent, PageOK, WebForm
    <3>2. RightParent(id, page.editing.parent)
      BY <3>1 DEF RightLevel, RightParent, MoveTo, Ids
    <3>3. MenuInv'
      BY <1>1, <3>1, <3>2, MoveInv
    <3>4. PageOK(page')
      BY <1>1, <1>11, EditingKept, NothingEdited DEF SaveEdit
    <3> QED
      BY <3>3, <3>4 DEF PageInv, PageOK
  <2> QED
    BY <2>2, <2>3
<1>12. ASSUME ConfirmDelete \/ \E d \in deletions, answered \in BOOLEAN : Deleted(d, answered)
       PROVE  PageInv'
  <2>1. CASE ConfirmDelete
    <3>1. page.dialog.id \in Ids
      BY <1>1, <2>1, NothingEdited DEF ConfirmDelete, Pages, WebDialog
    <3>2. MenuInv' /\ page' = page
      BY <1>1, <2>1, <3>1, LookInv DEF ConfirmDelete
    <3> QED
      BY <1>1, <3>2 DEF PageInv, PageOK
  <2>2. ASSUME NEW d \in deletions, NEW answered \in BOOLEAN, Deleted(d, answered)
        PROVE  PageInv'
    <3>1. MenuInv'
      BY <1>1, <2>2, DeleteInv DEF Deleted
    <3> DEFINE dialog == IF page.dialog.what = "delete" THEN Closed ELSE page.dialog
    <3>2. dialog \in WebDialog \cup {Closed}
      BY <1>1 DEF Pages
    <3>3. page' = IF answered THEN [page EXCEPT !.editing = Closed, !.dialog = dialog] ELSE page
      BY <1>1, <2>2 DEF Deleted, Pages
    <3> HIDE DEF dialog
    <3>4. PageOK([page EXCEPT !.editing = Closed, !.dialog = dialog])
      BY <1>1, <3>2, NothingEdited DEF PageOK, Pages
    <3>5. PageOK(page')
      BY <1>1, <3>3, <3>4
    <3> QED
      BY <3>1, <3>5 DEF PageInv, PageOK
  <2> QED
    BY <1>12, <2>1, <2>2
<1>13. ASSUME NEW answered \in BOOLEAN, NEW id \in Ids, Create(id, answered)
       PROVE  PageInv'
  <2>1. RightParent(id, ParentChosen(id))
    <3>1. CASE id \in Sections
      BY <3>1 DEF ParentChosen, RightParent
    <3>2. CASE id \notin Sections
      <4>1. ParentChosen(id) \in RowsOf[Levels[Level(id) - 1]]
        BY <1>1, <1>13, <3>2, LevelAbove DEF Create, ParentChosen, PageOK
      <4> QED
        BY <1>13, <3>2, <4>1, LevelAbove DEF Create, RightLevel, RightParent
    <3> QED
      BY <3>1, <3>2
  <2>2. MenuInv'
    BY <1>1, <1>13, <2>1, InsertInv DEF Create
  <2>3. After(id) \in [Kinds -> Ids \cup {None}] /\ \A k \in Kinds : After(id)[k] \in RowsOf[k] \cup {None}
    <3>1. CASE id \in Items \cup Types
      <4>1. id \in RowsOf[Levels[Level(id)]]
        BY <3>1, LevelsOfRows DEF RowsOf, Levels
      <4>2. page.context \in [Kinds -> Ids \cup {None}] /\ \A k \in Kinds : page.context[k] \in RowsOf[k] \cup {None}
        BY <1>1 DEF PageOK, Pages
      <4> QED
        BY <3>1, <4>1, <4>2 DEF After
    <3>2. CASE id \notin Items \cup Types
      BY <1>1, <3>2 DEF After, PageOK, Pages
    <3> QED
      BY <3>1, <3>2
  <2>4. PageOK(page')
    BY <1>1, <1>13, <2>3, ContextKept DEF Create
  <2> QED
    BY <2>2, <2>4 DEF PageInv, PageOK
<1> QED
  BY <1>2, <1>3, <1>4, <1>5, <1>6, <1>7, <1>8, <1>9, <1>10, <1>11, <1>12, <1>13 DEF WebNext

\* Only the request of a "Move" hangs a row elsewhere.
LEMMA MovesOnly ==
  ASSUME PageInv, WebNext, NEW id \in Ids, nodes[id].exists, nodes'[id].exists,
         nodes'[id].parent # nodes[id].parent
  PROVE  page.editing.what = "move" /\ page.editing.id = id /\ page.editing.parent = nodes'[id].parent
<1>1. MenuInv /\ page \in Pages /\ nodes[id] \in MenuRow
  BY RowFacts DEF PageInv, PageOK
<1>2. ASSUME NEW x, Insert(x, ParentChosen(x))
      PROVE  FALSE
  BY <1>1, <1>2 DEF Insert, NewId, MenuInv, MenuTypeOK
<1>3. ASSUME NEW x, ToggleEntity(x)
      PROVE  FALSE
  BY <1>1, <1>3 DEF ToggleEntity, MenuInv, MenuTypeOK, MenuRow
<1>4. ASSUME NEW d, FinishDelete(d)
      PROVE  FALSE
  BY <1>1, <1>4, MenuRecords DEF FinishDelete
<1>5. nodes' # nodes
  OBVIOUS
<1>6. PICK answered \in BOOLEAN : SaveEdit(answered)
  BY <1>2, <1>3, <1>4, <1>5
  DEF WebNext, Refetch, CancelEdit, CloseDialog, ConfirmToggle, AddChild, StartEdit, StartMove,
      ChooseParent, OpenDialog, ConfirmDelete, LookForDelete, Deleted, Create, Click, menuVars
<1>7. page.editing.what = "move" /\ MoveTo(page.editing.id, page.editing.parent)
  BY <1>5, <1>6 DEF SaveEdit, ParentSent, menuVars
<1> QED
  BY <1>1, <1>7 DEF MoveTo, MenuInv, MenuTypeOK, MenuRow

\* However old the page and its form are, nothing but a "Move" changes where a
\* row hangs, and it hangs it where its form says.
THEOREM OthersMovesStand == PageSpec => OnlyMovesMove
<1>1. PageInv /\ [WebNext \/ (MenuNext /\ UNCHANGED page)]_<<menuVars, page>> => PageInv'
  <2> SUFFICES ASSUME PageInv, [WebNext \/ (MenuNext /\ UNCHANGED page)]_<<menuVars, page>>
               PROVE  PageInv'
    OBVIOUS
  <2>1. CASE UNCHANGED <<menuVars, page>>
    BY <2>1 DEF menuVars, PageInv, MenuInv, MenuTypeOK, DeletionsOK, NoOrphans, Placed, HangsFrom, Parent, PageOK
  <2>2. CASE MenuNext /\ UNCHANGED page
    BY <2>2, MenuStepInv DEF PageInv, PageOK
  <2> QED
    BY <2>1, <2>2, PageStepInv
<1>2. PageInv /\ [WebNext \/ (MenuNext /\ UNCHANGED page)]_<<menuVars, page>> =>
        [\A id \in Ids : nodes[id].exists /\ nodes'[id].exists /\ nodes'[id].parent # nodes[id].parent
              /\ page'.tree = page.tree /\ page' # page =>
            page.editing.what = "move" /\ page.editing.id = id
              /\ page.editing.parent = nodes'[id].parent]_<<menuVars, page>>
  BY MovesOnly
<1> QED
  BY <1>1, <1>2, PageInitInv, PTL DEF PageSpec, OnlyMovesMove

-----------------------------------------------------------------------------
(* The schedule editor *)

Targets == Ids \cup {WholeMenu}
Groups == [section : Targets, title : Titles \cup {NoTitle}]
Timing == [start : Minutes, end : Minutes, days : SUBSET Days]
SavedRows == [entity : Targets, start : Minutes, end : Minutes, days : SUBSET Days, active : BOOLEAN,
              id : Nat \X Targets]
Creations == [rows : SUBSET SavedRows, found : BOOLEAN]
Modes == TargetModes \cup {"menu", "section", "item", "type", "size", "addon"}
OpenForms == [step : {"form", "reading", "saving"}, saves : Nat,
              menu : [known : SUBSET Ids, group : [Items -> Groups]],
              mode : Modes, ids : SUBSET Targets, group : Groups, timing : Timing, active : BOOLEAN,
              editing : SUBSET (Nat \X Targets)]
Forms == OpenForms \cup [step : {"off"}, saves : Nat]

SchedulerTypeOK ==
  /\ nodes \in [Ids -> MenuRow \cup {Absent}]
  /\ schedules \in SUBSET SavedRows
  /\ titles \in [Items -> Titles \cup {NoTitle}]
  /\ form \in Forms /\ screen \in Forms
  /\ Saving => screen.step \in {"off", "form"} /\ screen.saves = form.saves
  /\ requests \in SUBSET Creations

\* A row carries the number of the save it was made by, and so do all the rows
\* of a request; the save that reads the menu has made none yet.
OfASave(n) == IF form.step = "reading" THEN n < form.saves ELSE n <= form.saves
SavesNumbered ==
  /\ \A sch \in schedules : OfASave(sch.id[1])
  /\ \A req \in requests : \E n \in Nat : OfASave(n) /\ \A r \in req.rows : r.id[1] = n

\* While a new schedule is saved, what was made for it or is on its way is what
\* the admin means, and of that nothing is missing but what is deleted.
Creating == form.step = "saving" /\ form.editing = {}
There(e) == e = WholeMenu \/ nodes[e].exists
MadeAsMeant ==
  Creating =>
    /\ \A sch \in schedules : sch.id[1] = form.saves => \E e \in Meant : sch = NewRow(e)
    /\ \A req \in requests : Awaited(req) => \A r \in req.rows : \E e \in Meant : r = NewRow(e)
    /\ \A e \in Meant : There(e) =>
         NewRow(e) \in schedules \/ \E req \in requests : Awaited(req) /\ NewRow(e) \in req.rows

SchedulerInv == SchedulerTypeOK /\ SavesNumbered /\ MadeAsMeant

LEMMA NewRows ==
  ASSUME SchedulerTypeOK, form.step # "off", NEW e \in Targets
  PROVE  NewRow(e) \in SavedRows /\ NewRow(e).entity = e /\ NewRow(e).id = <<form.saves, e>>
<1>1. form.timing \in Timing /\ form.saves \in Nat
  BY DEF SchedulerTypeOK, Forms, OpenForms
<1> QED
  BY <1>1 DEF NewRow, SavedRows, Timing

LEMMA FormFacts ==
  ASSUME SchedulerTypeOK
  PROVE  /\ form.saves \in Nat /\ form.step \in {"off", "form", "reading", "saving"}
         /\ form.step # "off" => form \in OpenForms
  BY DEF SchedulerTypeOK, Forms, OpenForms

LEMMA ClosedForm ==
  ASSUME SchedulerTypeOK
  PROVE  /\ NoForm \in Forms /\ [NoForm EXCEPT !.saves = form.saves] \in Forms
         /\ [NoForm EXCEPT !.saves = form.saves].step = "off"
         /\ [NoForm EXCEPT !.saves = form.saves].saves = form.saves
  BY FormFacts DEF NoForm, Forms

\* What the editor shows, during a save or not.
LEMMA ShownFacts ==
  ASSUME SchedulerTypeOK
  PROVE  /\ Shown.saves = form.saves
         /\ Shown.step = "form" => Shown \in OpenForms
         /\ ~Saving => Shown = form
  BY FormFacts DEF SchedulerTypeOK, Shown, Forms

\* What is meant, and the rows that are made, are a matter of the form alone.
LEMMA MeantByForm ==
  /\ UNCHANGED form =>
       /\ Meant' = Meant /\ (Creating' <=> Creating)
       /\ \A e : NewRow(e)' = NewRow(e)
       /\ \A req : Awaited(req)' <=> Awaited(req)
       /\ \A n : OfASave(n)' <=> OfASave(n)
  /\ form.mode = "subgroup" => Meant = Members(form.group, form.menu) /\ Meant \subseteq Items
  /\ form.mode # "subgroup" => Meant = form.ids
<1>1. UNCHANGED form =>
        /\ Meant' = Meant /\ (Creating' <=> Creating)
        /\ \A e : NewRow(e)' = NewRow(e)
        /\ \A req : Awaited(req)' <=> Awaited(req)
        /\ \A n : OfASave(n)' <=> OfASave(n)
  BY DEF Meant, Members, PreviewSchedules, Schedule, Creating, NewRow, Awaited, OfASave
<1>2. form.mode = "subgroup" => Meant = Members(form.group, form.menu) /\ Meant \subseteq Items
  BY DEF Meant, Members
<1>3. \A e : [Schedule(e, form.timing) EXCEPT !.active = form.active].entity = e
  BY DEF Schedule
<1>4. form.mode # "subgroup" => Meant = form.ids
  <2> SUFFICES ASSUME form.mode # "subgroup"
               PROVE  Meant = form.ids
    OBVIOUS
  <2>1. Meant = {sch.entity : sch \in PreviewSchedules}
    BY DEF Meant
  <2>2. \A e \in form.ids : e \in {sch.entity : sch \in PreviewSchedules}
    BY <1>3 DEF PreviewSchedules
  <2>3. \A sch \in PreviewSchedules : sch.entity \in form.ids
    BY <1>3 DEF PreviewSchedules
  <2> QED
    BY <2>1, <2>2, <2>3
<1> QED
  BY <1>1, <1>2, <1>4

LEMMA MeantTargets ==
  ASSUME SchedulerTypeOK, form.step # "off"
  PROVE  Meant \subseteq Targets
  BY FormFacts, MeantByForm DEF OpenForms, Targets, Ids

LEMMA MenuRead ==
  ASSUME SchedulerTypeOK
  PROVE  Menu \in [known : SUBSET Ids, group : [Items -> Groups]]
<1>1. \A i \in Items : nodes[i].exists => Parent(i) \in Targets
  BY MenuRecords DEF SchedulerTypeOK, Parent, Targets, Ids
<1>2. \A i \in Items : GroupOf(i) \in Groups
  BY <1>1 DEF GroupOf, NoGroup, Groups, Targets, SchedulerTypeOK
<1> QED
  BY <1>2 DEF Menu

LEMMA SchedulerInitInv ==
  ASSUME nodes \in [Ids -> {Row(p) : p \in Ids \cup {WholeMenu}} \cup {Absent}], schedules = {}, SchedulerInit
  PROVE  SchedulerInv
<1>1. nodes \in [Ids -> MenuRow \cup {Absent}]
  BY MenuRecords
<1>2. form = [step |-> "off", saves |-> 0] /\ screen = form
  BY DEF SchedulerInit, NoForm
<1>3. SchedulerTypeOK
  BY <1>1, <1>2 DEF SchedulerTypeOK, SchedulerInit, Forms, Saving
<1> QED
  BY <1>2, <1>3 DEF SchedulerInv, SchedulerInit, SavesNumbered, MadeAsMeant, Creating

\* The admin at the form: nothing is made, nothing sent, and a save begins with
\* a number of its own.
LEMMA FormMoves ==
  ASSUME SchedulerInv, UNCHANGED <<menuVars, titles, requests>>, form' \in Forms, screen' \in Forms,
         \/ form'.saves = form.saves /\ form'.step \in {"off", "form"}
         \/ /\ form'.saves = form.saves + 1 /\ form'.step \in {"reading", "saving"}
            /\ form'.step = "saving" => form'.editing # {}
            /\ screen'.step = "form" /\ screen'.saves = form'.saves
  PROVE  SchedulerInv'
<1> USE DEF SchedulerInv
<1>1. SchedulerTypeOK'
  BY DEF SchedulerTypeOK, menuVars, Saving
<1>2. \A n \in Nat : OfASave(n) => OfASave(n)'
  BY FormFacts DEF OfASave
<1>3. SavesNumbered'
  <2>1. \A sch \in schedules : sch.id[1] \in Nat
    BY DEF SchedulerTypeOK, SavedRows
  <2>2. schedules' = schedules /\ requests' = requests
    BY DEF menuVars
  <2> QED
    BY <1>2, <2>1, <2>2 DEF SavesNumbered
<1>4. ~Creating'
  BY DEF Creating
<1> QED
  BY <1>1, <1>3, <1>4 DEF MadeAsMeant

\* What is typed during a save, or leaving the screen, does not touch the save.
LEMMA TypedMeanwhile ==
  ASSUME SchedulerInv, UNCHANGED <<menuVars, titles, requests, form>>, screen' \in Forms,
         screen'.step \in {"off", "form"}, screen'.saves = form.saves
  PROVE  SchedulerInv'
<1> USE DEF SchedulerInv
<1>1. SchedulerTypeOK'
  BY DEF SchedulerTypeOK, menuVars, Saving
<1>2. SavesNumbered'
  BY MeantByForm DEF SavesNumbered, menuVars
<1>3. MadeAsMeant'
  BY MeantByForm DEF MadeAsMeant, There, menuVars
<1> QED
  BY <1>1, <1>2, <1>3

LEMMA Filled ==
  ASSUME SchedulerInv, NEW new \in Forms, new.step \in {"off", "form"}, new.saves = form.saves, Fill(new)
  PROVE  SchedulerInv'
<1>1. CASE Saving
  BY <1>1, TypedMeanwhile DEF Fill
<1>2. CASE ~Saving
  <2>1. form' = new /\ UNCHANGED screen /\ UNCHANGED <<menuVars, titles, requests>>
    BY <1>2 DEF Fill
  <2>2. screen \in Forms
    BY DEF SchedulerInv, SchedulerTypeOK
  <2> QED
    BY <2>1, <2>2, FormMoves
<1> QED
  BY <1>1, <1>2

LEMMA FilledOpen ==
  ASSUME SchedulerInv, NEW new \in OpenForms, new.step = "form", new.saves = form.saves, Fill(new)
  PROVE  SchedulerInv'
  BY Filled DEF Forms

LEMMA FormInv ==
  ASSUME SchedulerInv, Shown.step = "form",
         \/ \E w \in EditorTimings : EnterTimes(w) \/ EnterDays(w)
         \/ \E mode \in TargetModes : SetTargetMode(mode)
         \/ \E id \in Ids : SelectTarget(id) \/ ToggleSectionTarget(id)
         \/ \E g \in [section : Sections, title : Titles \ {NoTitle}] : SelectSubgroup(g)
         \/ \E on \in BOOLEAN : SetActive(on)
         \/ SelectWholeMenu \/ Reload \/ LeaveForm
  PROVE  SchedulerInv'
<1> USE DEF SchedulerInv
<1>1. Shown \in OpenForms /\ Shown.saves = form.saves
  BY ShownFacts
<1>2. ASSUME NEW w \in EditorTimings, EnterTimes(w) \/ EnterDays(w)
      PROVE  SchedulerInv'
  <2>1. w \in Timing /\ Shown.timing \in Timing
    BY <1>1, EditorAssumption DEF Timing, OpenForms
  <2> DEFINE timing == IF EnterTimes(w) THEN [Shown.timing EXCEPT !.start = w.start, !.end = w.end]
                       ELSE [Shown.timing EXCEPT !.days = w.days]
  <2>2. timing \in Timing
    BY <2>1 DEF Timing
  <2>3. Fill([Shown EXCEPT !.timing = timing])
    BY <1>1, <1>2, <2>1 DEF EnterTimes, EnterDays, OpenForms, Timing
  <2> HIDE DEF timing
  <2>4. [Shown EXCEPT !.timing = timing] \in OpenForms /\ [Shown EXCEPT !.timing = timing].step = "form"
          /\ [Shown EXCEPT !.timing = timing].saves = form.saves
    BY <1>1, <2>2 DEF OpenForms
  <2> QED
    BY <2>3, <2>4, FilledOpen
<1> DEFINE Chosen(mode, group, ids) == [Shown EXCEPT !.mode = mode, !.group = group, !.ids = ids]
<1>3. ASSUME NEW mode \in Modes, NEW group \in Groups, NEW ids \in SUBSET Targets, Fill(Chosen(mode, group, ids))
      PROVE  SchedulerInv'
  <2>1. /\ Chosen(mode, group, ids) \in OpenForms /\ Chosen(mode, group, ids).step = "form"
        /\ Chosen(mode, group, ids).saves = form.saves
    BY <1>1 DEF OpenForms
  <2> QED
    BY <1>3, <2>1, FilledOpen
<1>4. Shown.mode \in Modes /\ Shown.group \in Groups /\ Shown.ids \in SUBSET Targets /\ Shown.menu.known \in SUBSET Ids
  BY <1>1 DEF OpenForms
<1>5. ASSUME NEW mode \in TargetModes, SetTargetMode(mode)
      PROVE  SchedulerInv'
  <2> DEFINE ids == IF mode = "menu" THEN {WholeMenu} ELSE {}
  <2>1. mode \in Modes /\ ids \in SUBSET Targets /\ NoGroup \in Groups
    BY DEF Modes, Targets, NoGroup, Groups
  <2>2. Fill(Chosen(mode, NoGroup, ids))
    BY <1>1, <1>5 DEF SetTargetMode, OpenForms
  <2> HIDE DEF ids, Chosen
  <2> QED
    BY <2>1, <2>2, <1>3
<1>6. ASSUME NEW ids \in SUBSET Targets, Fill([Shown EXCEPT !.ids = ids])
      PROVE  SchedulerInv'
  <2>1. [Shown EXCEPT !.ids = ids] = Chosen(Shown.mode, Shown.group, ids)
    BY <1>1 DEF OpenForms
  <2> HIDE DEF Chosen
  <2> QED
    BY <1>3, <1>4, <1>6, <2>1
<1>7. ASSUME NEW id \in Ids, SelectTarget(id) \/ ToggleSectionTarget(id)
      PROVE  SchedulerInv'
  <2> DEFINE ids == IF SelectTarget(id) THEN {id} ELSE IF id \in Shown.ids THEN Shown.ids \ {id} ELSE Shown.ids \cup {id}
  <2>1. ids \in SUBSET Targets
    BY <1>4 DEF Targets
  <2>2. Fill([Shown EXCEPT !.ids = ids])
    BY <1>7 DEF SelectTarget, ToggleSectionTarget
  <2> HIDE DEF ids, Chosen
  <2> QED
    BY <2>1, <2>2, <1>6
<1>8. CASE SelectWholeMenu
  <2> DEFINE ss == TargetOptions("section", Shown.menu)
             ids == IF Cardinality(Shown.ids) = Cardinality(ss) THEN {} ELSE ss
  <2>1. ids \in SUBSET Targets
    BY <1>4 DEF Targets, TargetOptions
  <2>2. Fill([Shown EXCEPT !.ids = ids])
    BY <1>8 DEF SelectWholeMenu
  <2> HIDE DEF ids, Chosen
  <2> QED
    BY <2>1, <2>2, <1>6
<1>9. ASSUME NEW g \in [section : Sections, title : Titles \ {NoTitle}], SelectSubgroup(g)
      PROVE  SchedulerInv'
  <2>1. g \in Groups /\ Members(g, Shown.menu) \in SUBSET Targets
    BY DEF Groups, Targets, Ids, Members
  <2>2. Fill(Chosen(Shown.mode, g, Members(g, Shown.menu)))
    BY <1>1, <1>9 DEF SelectSubgroup, OpenForms
  <2> HIDE DEF Chosen
  <2> QED
    BY <2>1, <2>2, <1>3, <1>4
<1>10. ASSUME NEW on \in BOOLEAN, SetActive(on)
       PROVE  SchedulerInv'
  <2>1. [Shown EXCEPT !.active = on] \in OpenForms /\ [Shown EXCEPT !.active = on].step = "form"
          /\ [Shown EXCEPT !.active = on].saves = form.saves
    BY <1>1 DEF OpenForms
  <2> QED
    BY <1>10, <2>1, FilledOpen DEF SetActive
<1>11. CASE Reload
  <2>1. [Shown EXCEPT !.menu = Menu] \in OpenForms /\ [Shown EXCEPT !.menu = Menu].step = "form"
          /\ [Shown EXCEPT !.menu = Menu].saves = form.saves
    BY <1>1, MenuRead DEF OpenForms
  <2> QED
    BY <1>11, <2>1, FilledOpen DEF Reload
<1>12. CASE LeaveForm
  BY <1>12, ClosedForm, Filled DEF LeaveForm
<1> QED
  BY <1>2, <1>5, <1>7, <1>8, <1>9, <1>10, <1>11, <1>12

LEMMA PressSaveInv ==
  ASSUME SchedulerInv, PressSave
  PROVE  SchedulerInv'
<1> USE DEF SchedulerInv
<1>1. form \in OpenForms
  BY FormFacts DEF PressSave
<1>13. CASE PressSave
  <2> DEFINE step == IF form.editing = {} THEN "reading" ELSE "saving"
  <2>1. form' = [form EXCEPT !.step = step, !.saves = form.saves + 1]
    BY <1>13 DEF PressSave
  <2>2. step \in {"reading", "saving"} /\ (step = "saving" => form.editing # {})
    OBVIOUS
  <2> HIDE DEF step
  <2> DEFINE saves == form.saves + 1
  <2>3. saves \in Nat /\ form' = [form EXCEPT !.step = step, !.saves = saves]
    BY <2>1, FormFacts
  <2>4. saves = form.saves + 1
    OBVIOUS
  <2> HIDE DEF saves
  <2>5. form' \in OpenForms /\ form'.step = step /\ form'.saves = saves /\ form'.editing = form.editing
    BY <1>1, <2>2, <2>3 DEF OpenForms
  <2>9. screen' = [form EXCEPT !.saves = saves] /\ form.step = "form"
    BY <1>13, <2>4 DEF PressSave
  <2>10. screen' \in OpenForms /\ screen'.step = "form" /\ screen'.saves = saves
    BY <1>1, <2>3, <2>9 DEF OpenForms
  <2>6. form' \in OpenForms /\ form'.step = step /\ form'.saves = form.saves + 1 /\ form'.editing = form.editing
    BY <2>4, <2>5
  <2>7. form' \in Forms /\ screen' \in Forms
    BY <2>6, <2>10 DEF Forms
  <2>8. UNCHANGED <<menuVars, titles, requests>>
    BY <1>13 DEF PressSave
  <2> QED
    BY <2>2, <2>5, <2>6, <2>7, <2>8, <2>10, FormMoves
<1> QED
  BY <1>13

LEMMA OpeningInv ==
  ASSUME SchedulerInv, NEW mode \in Modes, NEW ids \in SUBSET Targets, NEW w \in Timing, NEW on \in BOOLEAN,
         NEW editing \in SUBSET (Nat \X Targets),
         form' = [step |-> "form", saves |-> form.saves, menu |-> Menu, mode |-> mode, ids |-> ids,
                  group |-> NoGroup, timing |-> w, active |-> on, editing |-> editing],
         UNCHANGED <<menuVars, titles, screen, requests>>
  PROVE  SchedulerInv'
<1>1. Menu \in [known : SUBSET Ids, group : [Items -> Groups]] /\ form.saves \in Nat
  BY MenuRead, FormFacts DEF SchedulerInv
<1>2. NoGroup \in Groups
  BY DEF NoGroup, Groups, Targets
<1>3. form' \in OpenForms /\ form'.step = "form" /\ form'.saves = form.saves
  BY <1>1, <1>2 DEF OpenForms
<1>4. screen' \in Forms
  BY DEF SchedulerInv, SchedulerTypeOK
<1> QED
  BY <1>3, <1>4, FormMoves DEF Forms

LEMMA OpenInv ==
  ASSUME SchedulerInv,
         (\E w \in EditorTimings : OpenNew(w)) \/ (\E sch \in schedules : OpenEdit(sch))
  PROVE  SchedulerInv'
<1>1. ASSUME NEW w \in EditorTimings, OpenNew(w)
      PROVE  SchedulerInv'
  <2>1. w \in Timing /\ "section" \in Modes /\ {} \in SUBSET Targets /\ {} \in SUBSET (Nat \X Targets)
    BY EditorAssumption DEF Timing, Modes
  <2>2. form' = [step |-> "form", saves |-> form.saves, menu |-> Menu, mode |-> "section", ids |-> {},
                 group |-> NoGroup, timing |-> w, active |-> TRUE, editing |-> {}]
    BY <1>1 DEF OpenNew, Form
  <2>3. UNCHANGED <<menuVars, titles, screen, requests>>
    BY <1>1 DEF OpenNew
  <2> QED
    BY <2>1, <2>2, <2>3, OpeningInv
<1>2. ASSUME NEW sch \in schedules, OpenEdit(sch)
      PROVE  SchedulerInv'
  <2>1. sch \in SavedRows
    BY DEF SchedulerInv, SchedulerTypeOK
  <2> DEFINE mode == ModeOf(sch.entity)
             w == [start |-> sch.start, end |-> sch.end, days |-> sch.days]
  <2>2. mode \in Modes
    <3>1. /\ OfType["section"] = Sections /\ OfType["item"] = Items /\ OfType["type"] = Types
          /\ OfType["size"] = Sizes /\ OfType["addon"] = Addons
      BY DEF OfType
    <3>2. DOMAIN OfType = {"section", "item", "type", "size", "addon"}
      BY DEF OfType
    <3>3. CASE sch.entity = WholeMenu
      BY <3>3 DEF ModeOf, Modes
    <3>4. CASE sch.entity # WholeMenu
      <4>1. sch.entity \in Ids
        BY <2>1, <3>4 DEF SavedRows, Targets
      <4>2. \E m \in DOMAIN OfType : sch.entity \in OfType[m]
        BY <4>1, <3>1, <3>2 DEF Ids
      <4>3. mode \in DOMAIN OfType
        BY <4>2, <3>4 DEF ModeOf
      <4> QED
        BY <4>3, <3>2 DEF Modes
    <3> QED
      BY <3>3, <3>4
  <2>3. /\ w \in Timing /\ {sch.entity} \in SUBSET Targets
        /\ sch.active \in BOOLEAN /\ {sch.id} \in SUBSET (Nat \X Targets)
    BY <2>1 DEF SavedRows, Timing
  <2>4. form' = [step |-> "form", saves |-> form.saves, menu |-> Menu, mode |-> mode, ids |-> {sch.entity},
                 group |-> NoGroup, timing |-> w, active |-> sch.active, editing |-> {sch.id}]
    BY <1>2 DEF OpenEdit, Form
  <2>5. UNCHANGED <<menuVars, titles, screen, requests>>
    BY <1>2 DEF OpenEdit
  <2> HIDE DEF mode, w
  <2> QED
    BY <2>2, <2>3, <2>4, <2>5, OpeningInv
<1> QED
  BY <1>1, <1>2

\* The save reads the menu: one request or several, for exactly what is meant.
LEMMA RequestsMeant ==
  ASSUME SchedulerTypeOK, form.step = "reading", form' = [form EXCEPT !.step = "saving", !.menu = Menu]
  PROVE  /\ form' \in OpenForms /\ form'.step = "saving" /\ form'.saves = form.saves
         /\ Meant' \subseteq Targets
         /\ \A e : NewRow(e)' = NewRow(e)
         /\ \A rows \in RequestsFor(Menu) : \A r \in rows : \E e \in Meant' : r = NewRow(e)
         /\ \A e \in Meant' : \E rows \in RequestsFor(Menu) : NewRow(e) \in rows
<1>1. form \in OpenForms /\ Menu \in [known : SUBSET Ids, group : [Items -> Groups]]
  BY FormFacts, MenuRead
<1>2. /\ form' \in OpenForms /\ form'.step = "saving" /\ form'.saves = form.saves /\ form'.menu = Menu
      /\ form'.mode = form.mode /\ form'.ids = form.ids /\ form'.group = form.group
      /\ form'.timing = form.timing
  BY <1>1 DEF OpenForms
<1>3. \A e : NewRow(e)' = NewRow(e)
  BY <1>2 DEF NewRow
<1>4. form.mode = "subgroup" => Meant' = FreshMembers(Menu)
  BY <1>2 DEF Meant, FreshMembers, Members
<1>5. form.mode # "subgroup" => Meant' = form.ids
  <2> SUFFICES ASSUME form.mode # "subgroup"
               PROVE  Meant' = form.ids
    OBVIOUS
  <2>1. \A e : [Schedule(e, form'.timing) EXCEPT !.active = form'.active].entity = e
    BY DEF Schedule
  <2>2. Meant' = {sch.entity : sch \in PreviewSchedules'}
    BY <1>2 DEF Meant
  <2>3. PreviewSchedules' = {[Schedule(e, form'.timing) EXCEPT !.active = form'.active] : e \in form.ids}
    BY <1>2 DEF PreviewSchedules, Schedule
  <2>4. \A e \in form.ids : e \in {sch.entity : sch \in PreviewSchedules'}
    BY <2>1, <2>3
  <2>5. \A sch \in PreviewSchedules' : sch.entity \in form.ids
    BY <2>1, <2>3
  <2> QED
    BY <2>2, <2>4, <2>5
<1>6. Meant' \subseteq Targets
  BY <1>1, <1>4, <1>5 DEF FreshMembers, Members, Targets, Ids, OpenForms
<1>7. CASE form.mode = "subgroup"
  <2>1. RequestsFor(Menu) = {{NewRow(e)} : e \in Meant'}
    BY <1>4, <1>7 DEF RequestsFor
  <2> QED
    BY <1>2, <1>3, <1>6, <2>1
<1>8. CASE form.mode = "sections"
  <2>1. RequestsFor(Menu) = {{NewRow(e) : e \in Meant'}}
    BY <1>5, <1>8 DEF RequestsFor
  <2> QED
    BY <1>2, <1>3, <1>6, <2>1
<1>9. CASE form.mode \notin {"subgroup", "sections"}
  <2>1. RequestsFor(Menu) = {{NewRow(e)} : e \in Meant'}
    BY <1>5, <1>9 DEF RequestsFor
  <2> QED
    BY <1>2, <1>3, <1>6, <2>1
<1> QED
  BY <1>7, <1>8, <1>9

LEMMA RefreshedForm ==
  ASSUME SchedulerTypeOK, Saving
  PROVE  Refreshed \in Forms /\ Refreshed.step \in {"off", "form"} /\ Refreshed.saves = form.saves
<1>1. /\ screen \in Forms /\ screen.step \in {"off", "form"} /\ screen.saves = form.saves
      /\ Menu \in [known : SUBSET Ids, group : [Items -> Groups]]
  BY MenuRead DEF SchedulerTypeOK
<1>2. CASE screen.step = "off"
  BY <1>1, <1>2 DEF Refreshed
<1>3. CASE screen.step = "form"
  <2>1. screen \in OpenForms
    BY <1>1, <1>3 DEF Forms
  <2>2. Refreshed = [screen EXCEPT !.menu = Menu]
    BY <1>3 DEF Refreshed
  <2>3. Refreshed \in OpenForms /\ Refreshed.step = "form" /\ Refreshed.saves = form.saves
    BY <1>1, <1>3, <2>1, <2>2 DEF OpenForms
  <2> QED
    BY <2>3 DEF Forms
<1> QED
  BY <1>1, <1>2, <1>3

LEMMA ReadMenuInv ==
  ASSUME SchedulerInv, ReadMenu
  PROVE  SchedulerInv'
<1> USE DEF SchedulerInv
<1>1. form \in OpenForms /\ form.saves \in Nat /\ Menu \in [known : SUBSET Ids, group : [Items -> Groups]]
  BY FormFacts, MenuRead DEF ReadMenu
<1>4. Refreshed \in Forms /\ Refreshed.step \in {"off", "form"} /\ Refreshed.saves = form.saves
  BY RefreshedForm DEF ReadMenu, Saving
<1>2. CASE TargetUnavailable(Menu)
  <2>1. form' = Refreshed /\ screen' = NoForm /\ UNCHANGED <<menuVars, titles, requests>>
    BY <1>2 DEF ReadMenu
  <2> QED
    BY <1>4, <2>1, ClosedForm, FormMoves
<1>3. CASE ~TargetUnavailable(Menu)
  <2> DEFINE new == {[rows |-> r, found |-> FALSE] : r \in RequestsFor(Menu)}
  <2>1. /\ form.step = "reading" /\ form' = [form EXCEPT !.step = "saving", !.menu = Menu]
        /\ requests' = requests \cup new /\ UNCHANGED <<nodes, schedules, titles>>
        /\ screen' = Refreshed
    BY <1>3 DEF ReadMenu, menuVars
  <2>2. /\ form' \in OpenForms /\ form'.step = "saving" /\ form'.saves = form.saves
        /\ Meant' \subseteq Targets /\ \A e : NewRow(e)' = NewRow(e)
    BY <2>1, RequestsMeant
  <2>3. \A rows \in RequestsFor(Menu) : \A r \in rows : \E e \in Meant' : r = NewRow(e)
    BY <2>1, RequestsMeant
  <2>4. \A e \in Meant' : \E rows \in RequestsFor(Menu) : NewRow(e) \in rows
    BY <2>1, RequestsMeant
  <2>5. \A e \in Meant' : NewRow(e) \in SavedRows /\ NewRow(e).id = <<form.saves, e>>
    BY <2>1, <2>2, NewRows
  <2>6. \A rows \in RequestsFor(Menu) : rows \in SUBSET SavedRows /\ \A r \in rows : r.id[1] = form.saves
    BY <2>3, <2>5
  <2> DEFINE all == RequestsFor(Menu)
             Fresh(r) == [rows |-> r, found |-> FALSE]
  <2>7. new \in SUBSET Creations /\ \A req \in new : req.rows \in RequestsFor(Menu)
    <3>1. new = {Fresh(r) : r \in all}
      OBVIOUS
    <3>2. \A r \in all : Fresh(r) \in Creations /\ Fresh(r).rows = r
      BY <2>6 DEF Creations
    <3>3. \A r \in all : r \in RequestsFor(Menu)
      OBVIOUS
    <3> HIDE DEF all, Fresh, new
    <3> QED
      BY <3>1, <3>2, <3>3
  <2>8. \A rows \in RequestsFor(Menu) : \E req \in new : req.rows = rows
    <3>1. new = {Fresh(r) : r \in all}
      OBVIOUS
    <3>2. \A r \in all : Fresh(r).rows = r
      OBVIOUS
    <3>3. all = RequestsFor(Menu)
      OBVIOUS
    <3> HIDE DEF all, Fresh, new
    <3> QED
      BY <3>1, <3>2, <3>3
  <2> HIDE DEF all, Fresh
  <2> HIDE DEF new
  <2>9. SchedulerTypeOK'
    BY <1>4, <2>1, <2>2, <2>7 DEF SchedulerTypeOK, Forms
  <2>10. (\A n \in Nat : OfASave(n) => OfASave(n)' /\ n < form.saves) /\ OfASave(form.saves)'
    BY <1>1, <2>1, <2>2 DEF OfASave
  <2>11. \A sch \in schedules : sch.id[1] \in Nat
    BY DEF SchedulerTypeOK, SavedRows
  <2>12. SavesNumbered'
    <3>1. \A sch \in schedules' : OfASave(sch.id[1])'
      BY <2>1, <2>10, <2>11 DEF SavesNumbered
    <3>2. \A req \in requests : \E n \in Nat : OfASave(n)' /\ \A r \in req.rows : r.id[1] = n
      BY <2>10 DEF SavesNumbered
    <3>3. \A req \in new : \E n \in Nat : OfASave(n)' /\ \A r \in req.rows : r.id[1] = n
      <4> SUFFICES ASSUME NEW req \in new
                   PROVE  \E n \in Nat : OfASave(n)' /\ \A r \in req.rows : r.id[1] = n
        OBVIOUS
      <4>1. \A r \in req.rows : r.id[1] = form.saves
        BY <2>6, <2>7
      <4>2. PICK n \in Nat : n = form.saves
        BY <1>1
      <4>3. OfASave(n)'
        BY <1>1, <2>1, <2>2, <4>2 DEF OfASave
      <4> QED
        BY <4>1, <4>2, <4>3
    <3> QED
      BY <2>1, <3>1, <3>2, <3>3 DEF SavesNumbered
  <2>13. MadeAsMeant'
    <3> SUFFICES ASSUME Creating'
                 PROVE  /\ \A sch \in schedules' : sch.id[1] = form'.saves => \E e \in Meant' : sch = NewRow(e)'
                        /\ \A req \in requests' : Awaited(req)' => \A r \in req.rows : \E e \in Meant' : r = NewRow(e)'
                        /\ \A e \in Meant' : There(e)' =>
                             NewRow(e)' \in schedules' \/ \E req \in requests' : Awaited(req)' /\ NewRow(e)' \in req.rows
      BY DEF MadeAsMeant
    <3>1. \A sch \in schedules' : sch.id[1] # form'.saves
      BY <1>1, <2>1, <2>2, <2>10, <2>11 DEF SavesNumbered
    <3>2. \A req \in requests : Awaited(req)' => req.rows = {}
      <4> SUFFICES ASSUME NEW req \in requests, Awaited(req)', NEW r \in req.rows
                   PROVE  FALSE
        OBVIOUS
      <4>1. PICK n \in Nat : OfASave(n) /\ r.id[1] = n
        BY DEF SavesNumbered
      <4>2. r.id[1] = form.saves
        BY <2>2 DEF Awaited
      <4> QED
        BY <1>1, <4>1, <4>2, <2>10
    <3>3. \A req \in new : Awaited(req)'
      BY <2>2, <2>6, <2>7 DEF Awaited, Creating
    <3>4. \A req \in new : \A r \in req.rows : \E e \in Meant' : r = NewRow(e)'
      BY <2>2, <2>3, <2>7
    <3>5. \A e \in Meant' : \E req \in requests' : Awaited(req)' /\ NewRow(e)' \in req.rows
      <4> SUFFICES ASSUME NEW e \in Meant'
                   PROVE  \E req \in requests' : Awaited(req)' /\ NewRow(e)' \in req.rows
        OBVIOUS
      <4>1. PICK rows \in RequestsFor(Menu) : NewRow(e) \in rows
        BY <2>4
      <4>2. PICK req \in new : req.rows = rows
        BY <2>8
      <4> QED
        BY <4>1, <4>2, <2>1, <2>2, <3>3
    <3> QED
      BY <2>1, <3>1, <3>2, <3>4, <3>5
  <2> QED
    BY <2>9, <2>12, <2>13
<1> QED
  BY <1>2, <1>3

\* A save that failed, or is done, leaves nothing to be kept up.
LEMMA FailedForm ==
  ASSUME SchedulerTypeOK, Saving, FailSave \/ CloseEditor
  PROVE  /\ form' \in Forms /\ screen' \in Forms
         /\ form'.saves = form.saves /\ ~Creating' /\ ~Saving' /\ form'.step \in {"off", "form"}
         /\ \A n \in Nat : OfASave(n) => OfASave(n)'
<1>1. form \in OpenForms /\ form.saves \in Nat
  BY FormFacts DEF Saving
<1>2. CASE FailSave
  <2>1. form' = screen /\ screen' = NoForm
    BY <1>2 DEF FailSave
  <2>2. form' \in Forms /\ form'.step \in {"off", "form"} /\ form'.saves = form.saves
    BY <2>1 DEF SchedulerTypeOK
  <2> QED
    BY <1>1, <2>1, <2>2, ClosedForm DEF Creating, Saving, OfASave
<1>3. CASE CloseEditor
  BY <1>1, <1>3, ClosedForm DEF CloseEditor, Creating, Saving, OfASave
<1> QED
  BY <1>2, <1>3

LEMMA RequestInv ==
  ASSUME SchedulerInv, NEW req \in requests, FindTargets(req) \/ RequestFails(req)
  PROVE  SchedulerInv'
<1> USE DEF SchedulerInv
<1>1. UNCHANGED <<nodes, schedules, titles>> /\ req \in Creations
  BY DEF FindTargets, RequestFails, menuVars, SchedulerTypeOK
<1>2. \A sch \in schedules : sch.id[1] \in Nat
  BY DEF SchedulerTypeOK, SavedRows
<1>3. CASE FindTargets(req)
  <2> DEFINE found == [req EXCEPT !.found = TRUE]
  <2>1. UNCHANGED <<form, screen>> /\ requests' = (requests \ {req}) \cup {found}
    BY <1>3 DEF FindTargets
  <2>2. found \in Creations /\ found.rows = req.rows
    BY <1>1 DEF Creations
  <2> HIDE DEF found
  <2>3. SchedulerTypeOK'
    BY <1>1, <2>1, <2>2 DEF SchedulerTypeOK, Saving
  <2>4. SavesNumbered'
    BY <1>1, <2>1, <2>2, MeantByForm DEF SavesNumbered
  <2>5. Awaited(found) <=> Awaited(req)
    BY <2>2 DEF Awaited
  <2>6. MadeAsMeant'
    BY <1>1, <2>1, <2>2, <2>5, MeantByForm DEF MadeAsMeant, Creating, There
  <2> QED
    BY <2>3, <2>4, <2>6
<1>4. CASE RequestFails(req) /\ ~Awaited(req)
  <2>1. UNCHANGED <<form, screen>> /\ requests' = requests \ {req}
    BY <1>4 DEF RequestFails
  <2>2. SchedulerTypeOK'
    BY <1>1, <2>1 DEF SchedulerTypeOK, Saving
  <2>3. SavesNumbered'
    BY <1>1, <2>1, MeantByForm DEF SavesNumbered
  <2>4. MadeAsMeant'
    BY <1>1, <1>4, <2>1, MeantByForm DEF MadeAsMeant, Creating, There
  <2> QED
    BY <2>2, <2>3, <2>4
<1>5. CASE RequestFails(req) /\ Awaited(req)
  <2>1. FailSave /\ Saving /\ requests' = requests \ {req}
    BY <1>5 DEF RequestFails, Awaited, Saving
  <2>2. /\ form' \in Forms /\ screen' \in Forms /\ ~Saving' /\ ~Creating'
        /\ \A n \in Nat : OfASave(n) => OfASave(n)'
    BY <2>1, FailedForm
  <2>3. SchedulerTypeOK'
    BY <1>1, <2>1, <2>2 DEF SchedulerTypeOK
  <2>4. SavesNumbered'
    BY <1>1, <1>2, <2>1, <2>2 DEF SavesNumbered
  <2> QED
    BY <2>2, <2>3, <2>4 DEF MadeAsMeant
<1> QED
  BY <1>3, <1>4, <1>5

\* The editor stays with the save, has failed, or is closed by the last answer.
LEMMA InsertForm ==
  ASSUME SchedulerInv, NEW req \in requests, NEW answered \in BOOLEAN, InsertRows(req, answered)
  PROVE  /\ schedules' = schedules \cup req.rows /\ requests' = requests \ {req} /\ UNCHANGED <<nodes, titles>>
         /\ \/ UNCHANGED <<form, screen>>
            \/ /\ Awaited(req) /\ form.step = "saving" /\ form'.saves = form.saves /\ ~Creating' /\ ~Saving'
               /\ form' \in Forms /\ screen' \in Forms
               /\ \A n \in Nat : OfASave(n) => OfASave(n)'
               /\ screen.step = "form" /\ form'.step = "off" => \A other \in requests \ {req} : ~Awaited(other)
<1>1. /\ schedules' = schedules \cup req.rows /\ requests' = requests \ {req}
      /\ UNCHANGED <<nodes, titles>>
  BY DEF InsertRows, AddSchedules
<1>2. CASE UNCHANGED <<form, screen>>
  BY <1>1, <1>2
<1>3. CASE Awaited(req) /\ FailSave
  <2>1. form.step = "saving" /\ Saving
    BY <1>3 DEF Awaited, Saving
  <2>2. form'.step = screen.step
    BY <1>3 DEF FailSave
  <2> QED
    BY <1>1, <1>3, <2>1, <2>2, FailedForm DEF SchedulerInv
<1>4. CASE Awaited(req) /\ CloseEditor /\ ~\E other \in requests \ {req} : Awaited(other)
  <2>1. form.step = "saving" /\ Saving
    BY <1>4 DEF Awaited, Saving
  <2> QED
    BY <1>1, <1>4, <2>1, FailedForm DEF SchedulerInv
<1> QED
  BY <1>2, <1>3, <1>4 DEF InsertRows

LEMMA InsertRowsInv ==
  ASSUME SchedulerInv, NEW req \in requests, NEW answered \in BOOLEAN, InsertRows(req, answered)
  PROVE  SchedulerInv'
<1> USE DEF SchedulerInv
<1>1. schedules' = schedules \cup req.rows /\ requests' = requests \ {req} /\ UNCHANGED <<nodes, titles>>
  BY InsertForm
<1>2. req.rows \in SUBSET SavedRows
  BY DEF SchedulerTypeOK, Creations
<1>3. /\ form' \in Forms /\ screen' \in Forms /\ \A n \in Nat : OfASave(n) => OfASave(n)'
      /\ Saving' => UNCHANGED <<form, screen>> /\ Saving
  <2>1. CASE UNCHANGED <<form, screen>>
    BY <2>1, MeantByForm DEF SchedulerTypeOK, Saving
  <2> QED
    BY <2>1, InsertForm
<1>4. SchedulerTypeOK'
  BY <1>1, <1>2, <1>3 DEF SchedulerTypeOK
<1>5. SavesNumbered'
  <2>1. \A sch \in schedules : sch.id[1] \in Nat
    BY DEF SchedulerTypeOK, SavedRows
  <2>2. \A sch \in req.rows : OfASave(sch.id[1])'
    BY <1>3 DEF SavesNumbered
  <2> QED
    BY <1>1, <1>3, <2>1, <2>2 DEF SavesNumbered
<1>6. MadeAsMeant'
  <2>1. CASE UNCHANGED form /\ Creating
    <3>1. \A sch \in req.rows : sch.id[1] = form.saves => \E e \in Meant : sch = NewRow(e)
      <4>1. CASE Awaited(req)
        BY <2>1, <4>1 DEF MadeAsMeant
      <4>2. CASE ~Awaited(req)
        <5>1. PICK n \in Nat : \A r \in req.rows : r.id[1] = n
          BY DEF SavesNumbered
        <5>2. n # form.saves
          BY <2>1, <4>2, <5>1 DEF Awaited, Creating
        <5> QED
          BY <5>1, <5>2
      <4> QED
        BY <4>1, <4>2
    <3>2. \A sch \in schedules' : sch.id[1] = form.saves => \E e \in Meant : sch = NewRow(e)
      BY <1>1, <2>1, <3>1 DEF MadeAsMeant
    <3>3. \A q \in requests' : Awaited(q) => \A r \in q.rows : \E e \in Meant : r = NewRow(e)
      BY <1>1, <2>1 DEF MadeAsMeant
    <3>4. \A e \in Meant : There(e) =>
            NewRow(e) \in schedules' \/ \E q \in requests' : Awaited(q) /\ NewRow(e) \in q.rows
      BY <1>1, <2>1 DEF MadeAsMeant
    <3>5. \A e : There(e)' <=> There(e)
      BY <1>1 DEF There
    <3> QED
      BY <2>1, <3>2, <3>3, <3>4, <3>5, MeantByForm DEF MadeAsMeant
  <2>2. CASE ~Creating'
    BY <2>2 DEF MadeAsMeant
  <2> QED
    BY <2>1, <2>2, InsertForm, MeantByForm
<1> QED
  BY <1>4, <1>5, <1>6

\* The edit of a row, and what ends a save without a row.
LEMMA EditInv ==
  ASSUME SchedulerInv, ReadFails \/ EditFails \/ \E on \in BOOLEAN : Edit(on)
  PROVE  SchedulerInv'
<1> USE DEF SchedulerInv
<1>1. /\ UNCHANGED <<nodes, titles, requests>> /\ Saving /\ form.step # "off"
      /\ FailSave \/ CloseEditor
  BY DEF ReadFails, EditFails, Edit, UpdateSchedule, menuVars, Saving
<1>2. /\ form' \in Forms /\ screen' \in Forms /\ ~Creating' /\ ~Saving'
      /\ \A n \in Nat : OfASave(n) => OfASave(n)'
  BY <1>1, FailedForm
<1>3. \A sch \in schedules' : sch \in SavedRows /\ \E old \in schedules : sch.id = old.id
  <2>1. CASE UNCHANGED schedules
    BY <2>1 DEF SchedulerTypeOK
  <2>2. ASSUME NEW on \in BOOLEAN, Edit(on)
        PROVE  \A sch \in schedules' : sch \in SavedRows /\ \E old \in schedules : sch.id = old.id
    <3>1. PICK sch \in schedules : schedules' = (schedules \ {sch}) \cup {EditedRow(sch)}
      BY <2>2 DEF Edit, UpdateSchedule
    <3>2. form.timing \in Timing /\ form.active \in BOOLEAN /\ sch \in SavedRows
      BY <1>1, FormFacts DEF OpenForms, SchedulerTypeOK
    <3>3. EditedRow(sch) \in SavedRows /\ EditedRow(sch).id = sch.id
      BY <3>2 DEF EditedRow, SavedRows, Timing
    <3> QED
      BY <3>1, <3>3 DEF SchedulerTypeOK
  <2> QED
    BY <2>1, <2>2 DEF ReadFails, EditFails, menuVars
<1>4. SchedulerTypeOK'
  BY <1>1, <1>2, <1>3 DEF SchedulerTypeOK
<1>5. SavesNumbered'
  <2>1. \A sch \in schedules : OfASave(sch.id[1])'
    BY <1>2 DEF SavesNumbered, SchedulerTypeOK, SavedRows
  <2> QED
    BY <1>1, <1>2, <1>3, <2>1 DEF SavesNumbered
<1> QED
  BY <1>2, <1>4, <1>5 DEF MadeAsMeant

\* The menu and the lists change under the editor; what they take from a save
\* that is creating rows belongs to what is deleted.
LEMMA MeanwhileInv ==
  ASSUME SchedulerInv, UNCHANGED <<form, screen, requests>>,
         nodes' \in [Ids -> MenuRow \cup {Absent}], titles' \in [Items -> Titles \cup {NoTitle}],
         schedules' \in SUBSET SavedRows,
         \A sch \in schedules' : \E old \in schedules : sch.id = old.id,
         Creating => /\ schedules' \subseteq schedules
                     /\ \A e \in Targets : There(e)' =>
                          There(e) /\ \A sch \in schedules : sch.entity = e => sch \in schedules'
  PROVE  SchedulerInv'
<1> USE DEF SchedulerInv
<1>1. SchedulerTypeOK'
  BY DEF SchedulerTypeOK, Saving
<1>2. SavesNumbered'
  BY MeantByForm DEF SavesNumbered
<1>3. MadeAsMeant'
  <2> SUFFICES ASSUME Creating
               PROVE  MadeAsMeant'
    BY MeantByForm DEF MadeAsMeant
  <2>1. \A e \in Meant : NewRow(e).entity = e /\ e \in Targets
    BY NewRows, MeantTargets DEF Creating
  <2>2. \A e \in Meant : There(e)' =>
          NewRow(e) \in schedules' \/ \E req \in requests : Awaited(req) /\ NewRow(e) \in req.rows
    BY <2>1 DEF MadeAsMeant
  <2>3. \A sch \in schedules' : sch.id[1] = form.saves => \E e \in Meant : sch = NewRow(e)
    BY DEF MadeAsMeant
  <2>4. \A req \in requests : Awaited(req) => \A r \in req.rows : \E e \in Meant : r = NewRow(e)
    BY DEF MadeAsMeant
  <2> QED
    BY <2>2, <2>3, <2>4, MeantByForm DEF MadeAsMeant
<1> QED
  BY <1>1, <1>2, <1>3

LEMMA CardButtonsInv ==
  ASSUME SchedulerInv, NEW sch \in schedules, NEW shown \in BOOLEAN,
         RemoveSchedule(sch) \/ ToggleSchedule(sch, shown)
  PROVE  SchedulerInv'
<1> USE DEF SchedulerInv
<1>1. UNCHANGED <<nodes, titles, form, screen, requests>> /\ ~Creating
  BY DEF RemoveSchedule, ToggleSchedule, Listed, DeleteSchedule, UpdateSchedule, schedulerVars, Creating
<1>2. CASE RemoveSchedule(sch)
  <2>1. schedules' = schedules \ {sch}
    BY <1>2 DEF RemoveSchedule, DeleteSchedule
  <2> QED
    BY <1>1, <2>1, MeanwhileInv DEF SchedulerTypeOK
<1>3. CASE ToggleSchedule(sch, shown)
  <2> DEFINE new == [sch EXCEPT !.active = ~shown]
  <2>1. schedules' = (schedules \ {sch}) \cup {new}
    BY <1>3 DEF ToggleSchedule, UpdateSchedule
  <2>2. sch \in SavedRows
    BY DEF SchedulerTypeOK
  <2>3. new \in SavedRows /\ new.id = sch.id
    BY <2>2 DEF SavedRows
  <2> HIDE DEF new
  <2> QED
    BY <1>1, <2>1, <2>3, MeanwhileInv DEF SchedulerTypeOK
<1> QED
  BY <1>2, <1>3

LEMMA MenuEditedInv ==
  ASSUME SchedulerInv, DeletionsOK(SavedRows), MenuEdited
  PROVE  SchedulerInv'
<1> USE DEF SchedulerInv
<1>1. ASSUME NEW d \in deletions, FinishDelete(d),
             titles' = [i \in Items |-> IF nodes'[i].exists THEN titles[i] ELSE NoTitle],
             UNCHANGED <<form, screen, requests>>
      PROVE  SchedulerInv'
  <2>1. /\ Gone(d) \subseteq Ids /\ \A sch \in d.found : sch.entity \in Gone(d)
        /\ nodes' = [x \in Ids |-> IF x \in Gone(d) THEN Absent ELSE nodes[x]]
        /\ schedules' = schedules \ d.found
    BY <1>1, DeletionEnds DEF DeletionsOK
  <2>2. nodes' \in [Ids -> MenuRow \cup {Absent}] /\ titles' \in [Items -> Titles \cup {NoTitle}]
    BY <1>1, <2>1 DEF SchedulerTypeOK
  <2>3. \A e \in Targets : There(e)' => There(e) /\ e \notin Gone(d)
    BY <2>1, MenuAssumption DEF There, Targets, Absent
  <2> QED
    BY <1>1, <2>1, <2>2, <2>3, MeanwhileInv DEF SchedulerTypeOK
<1>4. ASSUME NEW id \in Ids, LookForDelete(id, "other"), UNCHANGED schedulerVars
      PROVE  SchedulerInv'
  BY <1>4, MeanwhileInv DEF SchedulerTypeOK, LookForDelete, There, schedulerVars
<1>2. ASSUME NEW i \in Items, NEW s \in Sections, UpdateItem(i, s), UNCHANGED schedulerVars
      PROVE  SchedulerInv'
  <2>1. nodes' = [nodes EXCEPT ![i].parent = s] /\ nodes[i].exists /\ UNCHANGED schedules
    BY <1>2 DEF UpdateItem, MoveTo
  <2>2. i \in Ids /\ nodes[i] \in MenuRow
    BY <2>1, MenuRecords DEF SchedulerTypeOK, Ids
  <2>3. [nodes[i] EXCEPT !.parent = s] \in MenuRow /\ [nodes[i] EXCEPT !.parent = s].exists = nodes[i].exists
    BY <2>2 DEF MenuRow, Ids
  <2>4. nodes' \in [Ids -> MenuRow \cup {Absent}]
    BY <2>1, <2>2, <2>3 DEF SchedulerTypeOK
  <2>5. \A e \in Targets : There(e)' => There(e)
    BY <2>1, <2>2, <2>3 DEF There, Targets, SchedulerTypeOK
  <2> QED
    BY <1>2, <2>1, <2>4, <2>5, MeanwhileInv DEF SchedulerTypeOK, schedulerVars
<1>3. ASSUME NEW i \in Items, NEW x \in Titles,
             titles' = [titles EXCEPT ![i] = x], UNCHANGED <<menuVars, form, screen, requests>>
      PROVE  SchedulerInv'
  BY <1>3, MeanwhileInv DEF SchedulerTypeOK, menuVars, There
<1> QED
  BY <1>1, <1>2, <1>3, <1>4 DEF MenuEdited

LEMMA SchedulerStepInv ==
  ASSUME SchedulerInv, DeletionsOK(SavedRows), [SchedulerNext]_<<menuVars, schedulerVars>>
  PROVE  SchedulerInv'
<1>1. CASE UNCHANGED <<menuVars, schedulerVars>>
  BY <1>1, MeanwhileInv DEF SchedulerInv, SchedulerTypeOK, menuVars, schedulerVars, There
<1>2. ASSUME \/ \E w \in EditorTimings : OpenNew(w)
             \/ \E sch \in schedules : OpenEdit(sch)
      PROVE  SchedulerInv'
  BY <1>2, OpenInv
<1>3. ASSUME \/ \E w \in EditorTimings : EnterTimes(w) \/ EnterDays(w)
             \/ \E mode \in TargetModes : SetTargetMode(mode)
             \/ \E id \in Ids : SelectTarget(id) \/ ToggleSectionTarget(id)
             \/ \E g \in [section : Sections, title : Titles \ {NoTitle}] : SelectSubgroup(g)
             \/ \E on \in BOOLEAN : SetActive(on)
             \/ SelectWholeMenu \/ Reload \/ LeaveForm
      PROVE  SchedulerInv'
  <2>1. Shown.step = "form"
    BY <1>3 DEF EnterTimes, EnterDays, SetTargetMode, SelectTarget, ToggleSectionTarget, SelectSubgroup,
                SetActive, SelectWholeMenu, Reload, LeaveForm, TargetUnlocked
  <2> QED
    BY <1>3, <2>1, FormInv
<1>10. ASSUME PressSave
       PROVE  SchedulerInv'
  BY <1>10, PressSaveInv
<1>4. ASSUME ReadMenu
      PROVE  SchedulerInv'
  BY <1>4, ReadMenuInv
<1>5. ASSUME ReadFails \/ EditFails \/ \E on \in BOOLEAN : Edit(on)
      PROVE  SchedulerInv'
  BY <1>5, EditInv
<1>6. ASSUME NEW req \in requests, FindTargets(req) \/ RequestFails(req)
      PROVE  SchedulerInv'
  BY <1>6, RequestInv
<1>7. ASSUME NEW req \in requests, NEW answered \in BOOLEAN, InsertRows(req, answered)
      PROVE  SchedulerInv'
  BY <1>7, InsertRowsInv
<1>8. ASSUME NEW sch \in schedules, NEW shown \in BOOLEAN, RemoveSchedule(sch) \/ ToggleSchedule(sch, shown)
      PROVE  SchedulerInv'
  BY <1>8, CardButtonsInv
<1>9. ASSUME MenuEdited
      PROVE  SchedulerInv'
  BY <1>9, MenuEditedInv
<1> QED
  BY <1>1, <1>2, <1>3, <1>4, <1>5, <1>6, <1>7, <1>8, <1>9, <1>10 DEF SchedulerNext

\* The deletions under way know the schedules as they are changed.
LEMMA SchedulerDeletions ==
  ASSUME SchedulerInv, DeletionsOK(SavedRows), [SchedulerNext]_<<menuVars, schedulerVars>>
  PROVE  DeletionsOK(SavedRows)'
<1> USE DEF SchedulerInv
<1>1. CASE UNCHANGED deletions
  BY <1>1 DEF DeletionsOK
<1>2. ASSUME NEW on \in BOOLEAN, Edit(on)
      PROVE  DeletionsOK(SavedRows)'
  <2>1. PICK sch \in schedules : Reread(sch, {EditedRow(sch)})
    BY <1>2 DEF Edit, UpdateSchedule
  <2>2. form.timing \in Timing /\ form.active \in BOOLEAN /\ sch \in SavedRows
    BY <1>2, FormFacts DEF Edit, OpenForms, SchedulerTypeOK
  <2>3. EditedRow(sch) \in SavedRows /\ EditedRow(sch).entity = sch.entity
    BY <2>2 DEF EditedRow, SavedRows, Timing
  <2> QED
    BY <2>1, <2>3, DeletionsReread
<1>3. ASSUME NEW sch \in schedules, NEW shown \in BOOLEAN, ToggleSchedule(sch, shown)
      PROVE  DeletionsOK(SavedRows)'
  <2> DEFINE new == [sch EXCEPT !.active = ~shown]
  <2>1. Reread(sch, {new})
    BY <1>3 DEF ToggleSchedule, UpdateSchedule
  <2>2. sch \in SavedRows
    BY DEF SchedulerTypeOK
  <2>3. new \in SavedRows /\ new.entity = sch.entity
    BY <2>2 DEF SavedRows
  <2> HIDE DEF new
  <2> QED
    BY <2>1, <2>3, DeletionsReread
<1>4. ASSUME NEW sch \in schedules, RemoveSchedule(sch)
      PROVE  DeletionsOK(SavedRows)'
  <2>1. Reread(sch, {})
    BY <1>4 DEF RemoveSchedule, DeleteSchedule
  <2> QED
    BY <2>1, DeletionsReread
<1>5. ASSUME MenuEdited
      PROVE  DeletionsOK(SavedRows)'
  <2>1. ASSUME NEW id \in Ids, LookForDelete(id, "other")
        PROVE  DeletionsOK(SavedRows)'
    BY <2>1, DeletionStarts DEF SchedulerTypeOK
  <2>2. ASSUME NEW d \in deletions, FinishDelete(d)
        PROVE  DeletionsOK(SavedRows)'
    BY <2>2, DeletionEnds
  <2> QED
    BY <1>1, <1>5, <2>1, <2>2 DEF MenuEdited, UpdateItem, MoveTo, menuVars
<1>6. ASSUME \/ \E w \in EditorTimings : OpenNew(w) \/ EnterTimes(w) \/ EnterDays(w)
             \/ \E mode \in TargetModes : SetTargetMode(mode)
             \/ \E id \in Ids : SelectTarget(id) \/ ToggleSectionTarget(id)
             \/ \E g \in [section : Sections, title : Titles \ {NoTitle}] : SelectSubgroup(g)
             \/ \E on \in BOOLEAN : SetActive(on)
             \/ SelectWholeMenu \/ Reload \/ LeaveForm \/ PressSave \/ ReadMenu \/ ReadFails \/ EditFails
             \/ \E sch \in schedules : OpenEdit(sch)
      PROVE  UNCHANGED deletions
  BY <1>6 DEF OpenNew, EnterTimes, EnterDays, SetTargetMode, SelectTarget, ToggleSectionTarget, SelectSubgroup,
              SetActive, SelectWholeMenu, Reload, LeaveForm, PressSave, ReadMenu, ReadFails, EditFails, OpenEdit,
              Fill, menuVars
<1>7. ASSUME NEW req \in requests,
             FindTargets(req) \/ RequestFails(req) \/ \E answered \in BOOLEAN : InsertRows(req, answered)
      PROVE  UNCHANGED deletions
  BY <1>7 DEF FindTargets, RequestFails, InsertRows, AddSchedules, menuVars
<1>8. CASE UNCHANGED <<menuVars, schedulerVars>>
  BY <1>1, <1>8 DEF menuVars
<1> QED
  BY <1>1, <1>2, <1>3, <1>4, <1>5, <1>6, <1>7, <1>8 DEF SchedulerNext

\* The editor closes on a finished save: by the last answer of a creation, or by
\* that of an edit.
LEMMA ClosedAsMeant ==
  ASSUME SchedulerInv, [SchedulerNext]_<<menuVars, schedulerVars>>,
         form.step = "saving", screen.step = "form", form'.step = "off"
  PROVE  LET made == {sch \in schedules' : sch.id[1] = form.saves}
             exists(e) == e = WholeMenu \/ nodes'[e].exists
         IN IF form.editing = {}
            THEN /\ {sch.entity : sch \in made} \subseteq Meant
                 /\ \A e \in Meant : exists(e) => NewRow(e) \in made
            ELSE \E sch \in schedules' : sch.id \in form.editing /\ EditedRow(sch) = sch
<1> USE DEF SchedulerInv
<1>1. form \in OpenForms
  BY FormFacts
<1>2. \/ \E req \in requests : InsertRows(req, TRUE) \/ InsertRows(req, FALSE)
      \/ Edit(TRUE)
  <2>1. form' # form /\ Saving
    BY DEF Saving
  <2>2. ~FailSave
    BY DEF FailSave
  <2>4. \A new : ~Fill(new)
    BY <2>1 DEF Fill
  <2>3. \A on \in BOOLEAN : Edit(on) => Edit(TRUE)
    BY <2>2 DEF Edit
  <2> QED
    BY <2>1, <2>2, <2>3, <2>4
    DEF SchedulerNext, OpenNew, EnterTimes, EnterDays, SetTargetMode, SelectTarget, ToggleSectionTarget,
        SelectSubgroup, SetActive, SelectWholeMenu, Reload, LeaveForm, PressSave, TargetUnlocked, ReadMenu,
        ReadFails, EditFails, FindTargets, RequestFails, OpenEdit, RemoveSchedule, ToggleSchedule, MenuEdited,
        schedulerVars
<1>3. ASSUME NEW req \in requests, NEW answered \in BOOLEAN, InsertRows(req, answered)
      PROVE  /\ form.editing = {}
             /\ \A sch \in schedules' : sch.id[1] = form.saves => sch.entity \in Meant
             /\ \A e \in Meant : e = WholeMenu \/ nodes'[e].exists =>
                  NewRow(e) \in schedules' /\ NewRow(e).id[1] = form.saves
  <2>1. /\ schedules' = schedules \cup req.rows /\ UNCHANGED nodes
        /\ Awaited(req) /\ \A other \in requests \ {req} : ~Awaited(other)
    BY <1>3, InsertForm
  <2>2. form.editing = {} /\ Creating
    BY <2>1 DEF Awaited, Creating
  <2>3. \A sch \in schedules' : sch.id[1] = form.saves => \E e \in Meant : sch = NewRow(e)
    BY <2>1, <2>2 DEF MadeAsMeant
  <2>4. \A e \in Meant : There(e) => NewRow(e) \in schedules'
    BY <2>1, <2>2 DEF MadeAsMeant
  <2>5. \A e \in Meant : NewRow(e).entity = e /\ NewRow(e).id = <<form.saves, e>>
    BY NewRows, MeantTargets
  <2> QED
    BY <2>1, <2>2, <2>3, <2>4, <2>5 DEF There
<1>4. ASSUME Edit(TRUE)
      PROVE  form.editing # {} /\ \E sch \in schedules' : sch.id \in form.editing /\ EditedRow(sch) = sch
  <2>1. PICK sch \in schedules : sch.id \in form.editing /\ schedules' = (schedules \ {sch}) \cup {EditedRow(sch)}
    BY <1>4 DEF Edit, UpdateSchedule
  <2>2. form.timing \in Timing /\ form.active \in BOOLEAN /\ sch \in SavedRows
    BY <1>1 DEF OpenForms, SchedulerTypeOK
  <2>3. EditedRow(sch).id = sch.id /\ EditedRow(EditedRow(sch)) = EditedRow(sch)
    BY <2>2 DEF EditedRow, SavedRows, Timing
  <2> QED
    BY <2>1, <2>3
<1> QED
  BY <1>2, <1>3, <1>4

\* Whatever is moved, renamed, deleted or typed while the editor saves, and
\* however often a save had failed before, a save that the editor takes for
\* finished has made the rows the admin meant on pressing "save", and no others.
THEOREM SavesAreAsShown == SchedulerSpec => ScheduledAsShown
<1>1. SchedulerInv /\ DeletionsOK(SavedRows) /\ [SchedulerNext]_<<menuVars, schedulerVars>> =>
        SchedulerInv' /\ DeletionsOK(SavedRows)'
  BY SchedulerStepInv, SchedulerDeletions
<1>3. deletions = {} => DeletionsOK(SavedRows)
  BY DEF DeletionsOK
<1>2. SchedulerInv /\ [SchedulerNext]_<<menuVars, schedulerVars>> =>
        [form.step = "saving" /\ screen.step = "form" /\ form'.step = "off" =>
          LET made == {sch \in schedules' : sch.id[1] = form.saves}
              exists(e) == e = WholeMenu \/ nodes'[e].exists
          IN IF form.editing = {}
             THEN /\ {sch.entity : sch \in made} \subseteq Meant
                  /\ \A e \in Meant : exists(e) => NewRow(e) \in made
             ELSE \E sch \in schedules' : sch.id \in form.editing /\ EditedRow(sch) = sch]_<<menuVars, schedulerVars>>
  BY ClosedAsMeant
<1> QED
  BY <1>1, <1>2, <1>3, SchedulerInitInv, PTL DEF SchedulerSpec, ScheduledAsShown

-----------------------------------------------------------------------------
(* The product editor *)

DraftRow == [id : Ids \cup {NoId}, named : BOOLEAN]

\* A draft is a tree of rows, and what it knows of the server's rows is true.
TrueDraft(d) ==
  /\ Product \in DOMAIN d /\ DOMAIN d \subseteq Rows
  /\ \A r \in DOMAIN d : DraftParent[r] \in DOMAIN d /\ d[r] \in DraftRow
  /\ \A r \in DOMAIN d : d[r].id # NoId =>
        /\ d[r].id \in IdsOf[DraftKind[r]] /\ nodes[d[r].id].exists
        /\ r # Product => d[DraftParent[r]].id # NoId /\ Parent(d[r].id) = d[DraftParent[r]].id
  /\ \A r, q \in DOMAIN d : r # q /\ d[r].id # NoId => d[r].id # d[q].id

DraftOK == TrueDraft(draft)

Saves(d) == [at : {"saving", "left", "saved"}, section : Sections,
             rows : UNION {[rows -> Ids] : rows \in SUBSET Rows}, todo : SUBSET Rows, sent : {d}]

\* Of the draft as it was when "save" was pressed, the rows that are no longer to
\* be done are on the server, where they belong, the new ones with ids of their own.
SaveOK ==
  /\ saving \in Saves(saving.sent) /\ TrueDraft(saving.sent) /\ nodes[saving.section].exists
  /\ saving.todo \subseteq DOMAIN saving.sent
  /\ saving.at = "saved" => saving.todo = {}
  /\ DOMAIN saving.rows \subseteq DOMAIN saving.sent \ saving.todo
  /\ \A r \in DOMAIN saving.sent \ saving.todo :
        r \in DOMAIN saving.rows \/ (DraftKind[r] = "addon" /\ ~saving.sent[r].named)
  /\ \A r \in DOMAIN saving.rows :
        /\ saving.rows[r] \in IdsOf[DraftKind[r]] /\ nodes[saving.rows[r]].exists
        /\ r # Product => DraftParent[r] \in DOMAIN saving.rows
        /\ Parent(saving.rows[r]) = ParentRow(r)
        /\ IF saving.sent[r].id # NoId THEN saving.rows[r] = saving.sent[r].id
           ELSE \A q \in DOMAIN saving.sent : saving.rows[r] # saving.sent[q].id
  /\ \A r, q \in DOMAIN saving.rows : r # q => saving.rows[r] # saving.rows[q]

ProductInv == MenuInv /\ DraftOK /\ (saving = Editing \/ SaveOK)

\* Other admins change the menu before a product is opened, and none while one
\* is open or being saved.
BetweenProducts ==
  /\ saving = Editing /\ \A r \in DOMAIN draft : draft[r].id = NoId
  /\ MenuNext /\ UNCHANGED editorVars

ProductSpec == MenuInit /\ EditorInit /\ [][EditorNext \/ BetweenProducts]_<<menuVars, editorVars>>

\* The rows a draft may have: every one but the product hangs from an earlier one
\* of the level above.
LEMMA RowsOfDrafts ==
  /\ Product \in Rows /\ DraftRows[2] \in Rows /\ DraftRows[2] # Product
  /\ \A r \in Rows : r # Product =>
        /\ DraftParent[r] \in Rows
        /\ \/ DraftKind[DraftParent[r]] = "item" /\ DraftKind[r] = "type"
           \/ DraftKind[DraftParent[r]] = "type" /\ DraftKind[r] = "size"
           \/ DraftKind[DraftParent[r]] = "size" /\ DraftKind[r] = "addon"
  /\ \A r \in Rows : DraftKind[r] \in {"item", "type", "size", "addon"}
<1>1. Rows = {DraftRows[n] : n \in DOMAIN DraftRows}
  BY DEF Rows, ToSet
<1>2. Product \in Rows /\ DraftRows[2] \in Rows /\ DraftRows[2] # Product
  BY <1>1, DraftTables DEF Product
<1>3. ASSUME NEW r \in Rows, r # Product
      PROVE  /\ DraftParent[r] \in Rows
             /\ \/ DraftKind[DraftParent[r]] = "item" /\ DraftKind[r] = "type"
                \/ DraftKind[DraftParent[r]] = "type" /\ DraftKind[r] = "size"
                \/ DraftKind[DraftParent[r]] = "size" /\ DraftKind[r] = "addon"
  <2>1. PICK n \in DOMAIN DraftRows \ {1} : r = DraftRows[n]
    BY <1>1, <1>3 DEF Product
  <2>2. /\ \E m \in DOMAIN DraftRows : m < n /\ DraftParent[r] = DraftRows[m]
        /\ <<DraftKind[DraftParent[r]], DraftKind[r]>> \in {<<"item", "type">>, <<"type", "size">>, <<"size", "addon">>}
    BY <2>1, DraftTables
  <2> QED
    BY <1>1, <2>2
<1> QED
  BY <1>2, <1>3, DraftTables

\* The two rows of an option the editor adds.
LEMMA OptionAdded ==
  ASSUME NEW t \in Rows, DraftKind[t] = "type"
  PROVE  /\ FirstSize(t) \in Rows /\ DraftParent[FirstSize(t)] = t
         /\ DOMAIN InitialDraftOption(t) = {t, FirstSize(t)}
         /\ \A r \in {t, FirstSize(t)} :
               InitialDraftOption(t)[r] \in DraftRow /\ InitialDraftOption(t)[r].id = NoId
<1> DEFINE size == FirstSize(t)
<1>1. size \in Rows /\ DraftParent[size] = t /\ DraftKind[size] = "size"
  BY DraftTables DEF FirstSize
<1> HIDE DEF size
<1>2. InitialDraftOption(t) = [r \in {t, size} |-> [Blank EXCEPT !.named = r = t]]
  BY DEF InitialDraftOption, size
<1>3. DOMAIN InitialDraftOption(t) = {t, size}
  BY <1>2
<1>4. \A r \in {t, size} : InitialDraftOption(t)[r] \in DraftRow /\ InitialDraftOption(t)[r].id = NoId
  <2>1. \A b \in BOOLEAN : [Blank EXCEPT !.named = b] \in DraftRow /\ [Blank EXCEPT !.named = b].id = NoId
    BY DEF Blank, DraftRow
  <2> QED
    BY <1>2, <2>1
<1> QED
  BY <1>1, <1>3, <1>4 DEF size

\* A new draft knows nothing of the server.
LEMMA NewDraftOK ==
  /\ Product \in DOMAIN NewDraft /\ DOMAIN NewDraft \subseteq Rows
  /\ \A r \in DOMAIN NewDraft : DraftParent[r] \in DOMAIN NewDraft /\ NewDraft[r] \in DraftRow /\ NewDraft[r].id = NoId
<1> DEFINE t == DraftRows[2]
           size == FirstSize(t)
           option == InitialDraftOption(t)
<1>1. t \in Rows /\ DraftKind[t] = "type" /\ DraftParent[t] = Product /\ DraftParent[Product] = Product /\ Product \in Rows
  BY RowsOfDrafts, DraftTables
<1> HIDE DEF t
<1>2. /\ size \in Rows /\ DraftParent[size] = t /\ DOMAIN option = {t, size}
      /\ \A r \in {t, size} : option[r] \in DraftRow /\ option[r].id = NoId
  BY <1>1, OptionAdded
<1> HIDE DEF size, option
<1>3. NewDraft = [r \in {Product} \cup DOMAIN option |-> IF r \in {Product} THEN Blank ELSE option[r]]
  BY DEF NewDraft, With, option, t
<1>4. Blank \in DraftRow /\ Blank.id = NoId
  BY DEF Blank, DraftRow
<1> QED
  BY <1>1, <1>2, <1>3, <1>4

\* The ids of every kind of draft row.
LEMMA KindIds == \A r \in Rows : IdsOf[DraftKind[r]] \subseteq Ids
  BY RowsOfDrafts DEF IdsOf, Ids

\* The rows a draft knows stay, and stay where they are.
LEMMA DraftKept ==
  ASSUME DraftOK, draft' = draft,
         \A r \in DOMAIN draft : draft[r].id # NoId =>
            /\ nodes'[draft[r].id].exists
            /\ r # Product => Parent(draft[r].id)' = Parent(draft[r].id)
  PROVE  DraftOK'
<1>1. \A r \in DOMAIN draft : draft[r].id # NoId =>
        /\ draft[r].id \in IdsOf[DraftKind[r]] /\ nodes'[draft[r].id].exists
        /\ r # Product => /\ draft[DraftParent[r]].id # NoId
                          /\ Parent(draft[r].id)' = draft[DraftParent[r]].id
  BY DEF DraftOK, TrueDraft
<1>2. (\A r \in DOMAIN draft : draft[r].id # NoId =>
        /\ draft[r].id \in IdsOf[DraftKind[r]] /\ nodes[draft[r].id].exists
        /\ r # Product => /\ draft[DraftParent[r]].id # NoId
                          /\ Parent(draft[r].id) = draft[DraftParent[r]].id)'
  BY <1>1 DEF Parent
<1> QED
  BY <1>2 DEF DraftOK, TrueDraft

LEMMA SentKept ==
  ASSUME TrueDraft(saving.sent), saving'.sent = saving.sent,
         \A r \in DOMAIN saving.sent : saving.sent[r].id # NoId =>
            /\ nodes'[saving.sent[r].id].exists
            /\ r # Product => nodes'[saving.sent[r].id].parent = Parent(saving.sent[r].id)
  PROVE  TrueDraft(saving.sent)'
<1> DEFINE d == saving.sent
<1>1. \A r \in DOMAIN d : d[r].id # NoId =>
        /\ d[r].id \in IdsOf[DraftKind[r]] /\ nodes'[d[r].id].exists
        /\ r # Product => d[DraftParent[r]].id # NoId /\ nodes'[d[r].id].parent = d[DraftParent[r]].id
  BY DEF TrueDraft
<1>2. (\A r \in DOMAIN saving.sent : saving.sent[r].id # NoId =>
        /\ saving.sent[r].id \in IdsOf[DraftKind[r]] /\ nodes[saving.sent[r].id].exists
        /\ r # Product => /\ saving.sent[DraftParent[r]].id # NoId
                          /\ Parent(saving.sent[r].id) = saving.sent[DraftParent[r]].id)'
  BY <1>1 DEF Parent
<1> QED
  BY <1>2 DEF TrueDraft

\* A save is a matter of the menu and of what was sent, not of the screen.
LEMMA SaveStill ==
  ASSUME SaveOK, nodes' = nodes, saving' = saving
  PROVE  SaveOK'
  BY DEF SaveOK, TrueDraft, ParentRow, Parent

\* A step that leaves the menu alone.
LEMMA MenuUnchanged ==
  ASSUME MenuInv, nodes' = nodes, schedules' = schedules, deletions' = deletions
  PROVE  MenuInv'
  BY DEF MenuInv, MenuTypeOK, DeletionsOK, NoOrphans, Placed, HangsFrom, Parent

\* What a new row leaves alone.
LEMMA Inserted ==
  ASSUME MenuInv, NEW id \in Ids, NEW p, Insert(id, p)
  PROVE  /\ nodes'[id].exists /\ Parent(id)' = p
         /\ \A x \in Ids : nodes[x].exists => x # id /\ nodes'[x] = nodes[x] /\ Parent(x)' = Parent(x)
<1>1. nodes' = [nodes EXCEPT ![id] = Row(p)] /\ ~nodes[id].exists /\ DOMAIN nodes = Ids
  BY DEF Insert, NewId, MenuInv, MenuTypeOK
<1>2. nodes'[id] = Row(p) /\ \A x \in Ids : x # id => nodes'[x] = nodes[x]
  BY <1>1
<1> QED
  BY <1>1, <1>2 DEF Row, Parent

\* The rows of a save come from the product down.
LEMMA ParentDone ==
  ASSUME SaveOK, NEW r, Comes(r), r # Product
  PROVE  DraftParent[r] \in DOMAIN saving.rows /\ ParentRow(r) = saving.rows[DraftParent[r]]
<1>1. r \in DOMAIN saving.sent /\ r \in Rows /\ DraftParent[r] \in DOMAIN saving.sent
  BY DEF Comes, SaveOK, TrueDraft
<1>2. PICK n \in DOMAIN DraftRows :
        r = DraftRows[n] /\ \A m \in DOMAIN DraftRows : m < n => DraftRows[m] \notin saving.todo
  BY DEF Comes
<1>3. n # 1
  BY <1>2 DEF Product
<1>4. \E m \in DOMAIN DraftRows : m < n /\ DraftParent[r] = DraftRows[m]
  BY <1>2, <1>3, DraftTables
<1>5. DraftParent[r] \notin saving.todo
  BY <1>2, <1>4
<1>6. DraftKind[DraftParent[r]] # "addon"
  BY <1>1, RowsOfDrafts
<1> QED
  BY <1>1, <1>5, <1>6 DEF SaveOK, ParentRow

\* A row has been written, with an id that is nobody else's.
LEMMA WrittenOK ==
  ASSUME MenuInv, SaveOK, NEW r, Comes(r), NEW id \in IdsOf[DraftKind[r]],
         saving' = Written(r, id), TrueDraft(saving.sent)',
         nodes'[id].exists, Parent(id)' = ParentRow(r), nodes'[saving.section].exists,
         \A x \in DOMAIN saving.rows : /\ saving.rows[x] # id /\ nodes'[saving.rows[x]].exists
                                       /\ nodes'[saving.rows[x]].parent = Parent(saving.rows[x]),
         IF saving.sent[r].id # NoId THEN id = saving.sent[r].id ELSE \A q \in DOMAIN saving.sent : id # saving.sent[q].id
  PROVE  SaveOK'
<1> DEFINE old == saving.rows
           rows == [x \in DOMAIN old \cup {r} |-> IF x = r THEN id ELSE old[x]]
           todo == saving.todo \ {r}
<1>1. /\ saving \in Saves(saving.sent) /\ r \in DOMAIN saving.sent /\ r \in Rows /\ id \in Ids /\ UnderWay /\ r \in saving.todo
      /\ r \notin DOMAIN old
  BY KindIds DEF SaveOK, Comes, TrueDraft
<1>2. saving' = [saving EXCEPT !.todo = todo, !.rows = rows]
  BY DEF Written
<1>3. old \in [DOMAIN old -> Ids] /\ DOMAIN old \subseteq Rows /\ saving.todo \subseteq Rows
  BY <1>1 DEF Saves
<1>4. rows \in [DOMAIN old \cup {r} -> Ids] /\ todo \subseteq Rows /\ DOMAIN old \cup {r} \subseteq Rows
  BY <1>1, <1>3
<1>5. DOMAIN rows = DOMAIN old \cup {r} /\ rows[r] = id /\ \A x \in DOMAIN old : rows[x] = old[x]
  BY <1>1
<1> HIDE DEF rows
<1>6. rows \in UNION {[xs -> Ids] : xs \in SUBSET Rows}
  BY <1>4
<1>7. /\ saving'.at = saving.at /\ saving'.sent = saving.sent /\ saving'.section = saving.section /\ saving'.rows = rows /\ saving'.todo = todo
      /\ saving' \in Saves(saving.sent)
  BY <1>1, <1>2, <1>4, <1>6 DEF Saves
<1>8. saving'.todo \subseteq DOMAIN saving'.sent /\ DOMAIN saving'.rows \subseteq DOMAIN saving'.sent \ saving'.todo
  BY <1>1, <1>5, <1>7 DEF SaveOK
<1>9. \A x \in DOMAIN saving.sent \ todo : x \in DOMAIN rows \/ (DraftKind[x] = "addon" /\ ~saving.sent[x].named)
  BY <1>5 DEF SaveOK
<1>10. ASSUME NEW x \in DOMAIN rows
       PROVE  /\ rows[x] \in IdsOf[DraftKind[x]] /\ nodes'[rows[x]].exists
              /\ x # Product => DraftParent[x] \in DOMAIN rows
              /\ nodes'[rows[x]].parent = IF x = Product THEN saving.section ELSE rows[DraftParent[x]]
              /\ IF saving.sent[x].id # NoId THEN rows[x] = saving.sent[x].id
                 ELSE \A q \in DOMAIN saving.sent : rows[x] # saving.sent[q].id
  <2>1. CASE x = r
    <3>1. x # Product => DraftParent[x] \in DOMAIN old /\ ParentRow(r) = old[DraftParent[x]]
      BY <2>1, ParentDone
    <3>2. nodes'[rows[x]].parent = ParentRow(r)
      BY <1>5, <2>1 DEF Parent
    <3>3. ParentRow(r) = IF x = Product THEN saving.section ELSE rows[DraftParent[x]]
      BY <1>5, <2>1, <3>1 DEF ParentRow
    <3> QED
      BY <1>5, <2>1, <3>1, <3>2, <3>3
  <2>2. CASE x # r
    <3>1. x \in DOMAIN old /\ rows[x] = old[x]
      BY <1>5, <2>2
    <3>2. /\ old[x] \in IdsOf[DraftKind[x]]
          /\ x # Product => DraftParent[x] \in DOMAIN old
          /\ Parent(old[x]) = IF x = Product THEN saving.section ELSE old[DraftParent[x]]
          /\ IF saving.sent[x].id # NoId THEN old[x] = saving.sent[x].id ELSE \A q \in DOMAIN saving.sent : old[x] # saving.sent[q].id
      BY <3>1 DEF SaveOK, ParentRow
    <3>3. nodes'[rows[x]].parent = Parent(old[x])
      BY <3>1
    <3> HIDE DEF old
    <3>4. x # Product => DraftParent[x] \in DOMAIN rows /\ rows[DraftParent[x]] = old[DraftParent[x]]
      BY <1>5, <3>2
    <3> QED
      BY <3>1, <3>2, <3>3, <3>4 DEF old
  <2> QED
    BY <2>1, <2>2
<1>11. \A x, y \in DOMAIN rows : x # y => rows[x] # rows[y]
  BY <1>5 DEF SaveOK
<1>12. \A x : ParentRow(x)' = IF x = Product THEN saving.section ELSE rows[DraftParent[x]]
  BY <1>7 DEF ParentRow
<1>13. \A x \in DOMAIN rows : Parent(saving.rows[x])' = nodes'[rows[x]].parent
  BY <1>7 DEF Parent
<1> HIDE DEF todo
<1> QED
  BY <1>1, <1>7, <1>8, <1>9, <1>10, <1>11, <1>12, <1>13 DEF SaveOK, UnderWay

\* Rows of which nothing is known can be added to a draft.
LEMMA WithNewRows ==
  ASSUME NEW d, TrueDraft(d), NEW new, DOMAIN new \subseteq Rows,
         \A r \in DOMAIN new : /\ new[r] \in DraftRow /\ new[r].id = NoId
                               /\ DraftParent[r] \in DOMAIN d \cup DOMAIN new
  PROVE  TrueDraft(With(d, new))
<1> DEFINE both == With(d, new)
<1>1. /\ DOMAIN both = DOMAIN d \cup DOMAIN new
      /\ \A r \in DOMAIN d : both[r] = d[r]
      /\ \A r \in DOMAIN new \ DOMAIN d : both[r] = new[r]
  BY DEF With
<1> HIDE DEF both
<1>2. Product \in DOMAIN both /\ DOMAIN both \subseteq Rows
  BY <1>1 DEF TrueDraft
<1>3. \A r \in DOMAIN both : DraftParent[r] \in DOMAIN both /\ both[r] \in DraftRow
  BY <1>1 DEF TrueDraft
<1>4. \A r \in DOMAIN both : both[r].id # NoId => r \in DOMAIN d /\ both[r] = d[r]
  BY <1>1
<1>5. ASSUME NEW r \in DOMAIN both, both[r].id # NoId
      PROVE  /\ both[r].id \in IdsOf[DraftKind[r]] /\ nodes[both[r].id].exists
             /\ r # Product => both[DraftParent[r]].id # NoId /\ Parent(both[r].id) = both[DraftParent[r]].id
  <2>1. r \in DOMAIN d /\ both[r] = d[r] /\ DraftParent[r] \in DOMAIN d /\ both[DraftParent[r]] = d[DraftParent[r]]
    BY <1>1, <1>4, <1>5 DEF TrueDraft
  <2> QED
    BY <1>5, <2>1 DEF TrueDraft
<1>6. ASSUME NEW r \in DOMAIN both, NEW q \in DOMAIN both, r # q, both[r].id # NoId
      PROVE  both[r].id # both[q].id
  <2>1. r \in DOMAIN d /\ both[r] = d[r]
    BY <1>4, <1>6
  <2>2. both[q].id = NoId \/ (q \in DOMAIN d /\ both[q] = d[q])
    BY <1>4
  <2> QED
    BY <1>6, <2>1, <2>2 DEF TrueDraft
<1> QED
  BY <1>2, <1>3, <1>5, <1>6 DEF TrueDraft, both

\* With the menu as it was, what is true of the new draft is true after the step.
LEMMA DraftReplaced ==
  ASSUME TrueDraft(draft'), nodes' = nodes
  PROVE  DraftOK'
  BY DEF DraftOK, TrueDraft, Parent

LEMMA NewDraftTrue == TrueDraft(NewDraft)
  BY NewDraftOK DEF TrueDraft

LEMMA AddRowInv ==
  ASSUME ProductInv, NEW r \in Rows, AddRow(r)
  PROVE  ProductInv'
<1> DEFINE new == IF DraftKind[r] = "type" THEN InitialDraftOption(r) ELSE [x \in {r} |-> Blank]
<1>1. /\ saving' = saving /\ DraftParent[r] \in DOMAIN draft
      /\ draft' = With(draft, new) /\ nodes' = nodes /\ schedules' = schedules /\ deletions' = deletions
  BY DEF AddRow, Has, menuVars
<1>2. /\ DOMAIN new \subseteq Rows
      /\ \A x \in DOMAIN new : /\ new[x] \in DraftRow /\ new[x].id = NoId
                               /\ DraftParent[x] \in DOMAIN draft \cup DOMAIN new
  <2>1. CASE DraftKind[r] = "type"
    <3>1. new = InitialDraftOption(r)
      BY <2>1
    <3>2. /\ FirstSize(r) \in Rows /\ DraftParent[FirstSize(r)] = r /\ DOMAIN new = {r, FirstSize(r)}
          /\ \A x \in {r, FirstSize(r)} : new[x] \in DraftRow /\ new[x].id = NoId
      BY <2>1, <3>1, OptionAdded
    <3> HIDE DEF new
    <3> QED
      BY <1>1, <3>2
  <2>2. CASE DraftKind[r] # "type"
    <3>1. DOMAIN new = {r} /\ new[r] = Blank
      BY <2>2
    <3>2. Blank \in DraftRow /\ Blank.id = NoId
      BY DEF Blank, DraftRow
    <3> HIDE DEF new
    <3> QED
      BY <1>1, <3>1, <3>2
  <2> QED
    BY <2>1, <2>2
<1> HIDE DEF new
<1>3. TrueDraft(draft')
  BY <1>1, <1>2, WithNewRows DEF ProductInv, DraftOK
<1>4. MenuInv'
  BY <1>1, MenuUnchanged DEF ProductInv
<1> QED
  BY <1>1, <1>3, <1>4, DraftReplaced, SaveStill DEF ProductInv, Editing

LEMMA UpdateRowInv ==
  ASSUME ProductInv, NEW r \in Rows, UpdateRow(r)
  PROVE  ProductInv'
<1>1. /\ saving' = saving /\ r \in DOMAIN draft
      /\ draft' = [draft EXCEPT ![r].named = ~@] /\ nodes' = nodes /\ schedules' = schedules /\ deletions' = deletions
  BY DEF UpdateRow, Has, menuVars
<1>2. /\ DOMAIN draft' = DOMAIN draft
      /\ \A x \in DOMAIN draft : draft'[x] \in DraftRow /\ draft'[x].id = draft[x].id
  <2>1. draft[r] \in DraftRow
    BY <1>1 DEF ProductInv, DraftOK, TrueDraft
  <2>2. [draft[r] EXCEPT !.named = ~@] \in DraftRow /\ [draft[r] EXCEPT !.named = ~@].id = draft[r].id
    BY <2>1 DEF DraftRow
  <2>3. /\ DOMAIN draft' = DOMAIN draft /\ draft'[r] = [draft[r] EXCEPT !.named = ~@]
        /\ \A x \in DOMAIN draft : x # r => draft'[x] = draft[x]
    BY <1>1
  <2> QED
    BY <2>2, <2>3 DEF ProductInv, DraftOK, TrueDraft
<1>3. \A x \in DOMAIN draft : DraftParent[x] \in DOMAIN draft
  BY DEF ProductInv, DraftOK, TrueDraft
<1>4. TrueDraft(draft')
  <2> DEFINE new == draft'
  <2>1. TrueDraft(draft)
    BY DEF ProductInv, DraftOK
  <2>2. DOMAIN new = DOMAIN draft /\ \A x \in DOMAIN draft : new[x] \in DraftRow /\ new[x].id = draft[x].id
    BY <1>2
  <2> HIDE DEF new
  <2>3. \A x \in DOMAIN new : new[x].id # NoId =>
          /\ new[x].id \in IdsOf[DraftKind[x]] /\ nodes[new[x].id].exists
          /\ x # Product => new[DraftParent[x]].id # NoId /\ Parent(new[x].id) = new[DraftParent[x]].id
    BY <1>3, <2>1, <2>2 DEF TrueDraft
  <2>4. \A x, q \in DOMAIN new : x # q /\ new[x].id # NoId => new[x].id # new[q].id
    BY <2>1, <2>2 DEF TrueDraft
  <2> QED
    BY <1>3, <2>1, <2>2, <2>3, <2>4 DEF TrueDraft, new
<1>5. MenuInv'
  BY <1>1, MenuUnchanged DEF ProductInv
<1> QED
  BY <1>1, <1>4, <1>5, DraftReplaced, SaveStill DEF ProductInv, Editing

\* Rows below one that is there are there.
LEMMA BelowThere ==
  ASSUME MenuInv, NEW i \in Ids, nodes[i].exists
  PROVE  Below(i) \subseteq Ids /\ \A x \in Below(i) : nodes[x].exists
  BY DEF Below, Children

LEMMA OpenProductInv ==
  ASSUME ProductInv, NEW i \in Items, OpenProduct(i)
  PROVE  ProductInv'
<1>7. PICK kept \in SUBSET Rows :
        /\ Product \in kept /\ \A r \in kept : DraftParent[r] \in kept
        /\ \E d \in [kept -> [id : Below(i), named : {TRUE}]] :
              /\ Mirrors(d, i)
              /\ draft' = IF Children(i) = {} THEN With(d, InitialDraftOption(DraftRows[2])) ELSE d
  BY DEF OpenProduct
<1>1. PICK d \in [kept -> [id : Below(i), named : {TRUE}]] :
        /\ Product \in kept /\ \A r \in kept : DraftParent[r] \in kept
        /\ Mirrors(d, i)
        /\ draft' = IF Children(i) = {} THEN With(d, InitialDraftOption(DraftRows[2])) ELSE d
  BY <1>7
<1>2. saving = Editing /\ saving' = saving /\ nodes[i].exists /\ nodes' = nodes /\ schedules' = schedules /\ deletions' = deletions /\ i \in Ids
  BY DEF OpenProduct, menuVars, Ids
<1>3. \A r \in kept : d[r] \in DraftRow /\ d[r].id \in Ids /\ nodes[d[r].id].exists /\ d[r].id # NoId
  <2>1. Below(i) \subseteq Ids /\ \A x \in Below(i) : nodes[x].exists
    BY <1>2, BelowThere DEF ProductInv
  <2>2. \A r \in kept : d[r] \in [id : Below(i), named : {TRUE}]
    OBVIOUS
  <2> QED
    <3> SUFFICES ASSUME NEW r \in kept
                 PROVE  d[r] \in DraftRow /\ d[r].id \in Ids /\ nodes[d[r].id].exists /\ d[r].id # NoId
      OBVIOUS
    <3>1. d[r].id \in Below(i) /\ d[r] = [id |-> d[r].id, named |-> TRUE]
      BY <2>2
    <3>2. d[r].id \in Ids /\ nodes[d[r].id].exists /\ d[r].id # NoId
      BY <2>1, <3>1, DraftTables
    <3> QED
      BY <3>1, <3>2 DEF DraftRow
<1>4. TrueDraft(d)
  <2>1. d[Product].id \in IdsOf[DraftKind[Product]]
    BY <1>1, DraftTables DEF Mirrors, IdsOf
  <2>2. \A r \in kept \ {Product} : d[r].id \in IdsOf[DraftKind[r]] /\ Parent(d[r].id) = d[DraftParent[r]].id
    BY <1>1 DEF Mirrors
  <2>3. \A r, q \in kept : r # q => d[r].id # d[q].id
    BY <1>1 DEF Mirrors
  <2> QED
    BY <1>1, <1>3, <2>1, <2>2, <2>3 DEF TrueDraft
<1>5. TrueDraft(draft')
  <2> DEFINE option == InitialDraftOption(DraftRows[2])
  <2>1. /\ DOMAIN option \subseteq Rows
        /\ \A r \in DOMAIN option : /\ option[r] \in DraftRow /\ option[r].id = NoId
                                    /\ DraftParent[r] \in DOMAIN d \cup DOMAIN option
    <3> DEFINE t == DraftRows[2]
    <3>1. t \in Rows /\ DraftKind[t] = "type" /\ DraftParent[t] = Product
      BY RowsOfDrafts, DraftTables
    <3> HIDE DEF t
    <3>2. /\ FirstSize(t) \in Rows /\ DraftParent[FirstSize(t)] = t
          /\ DOMAIN InitialDraftOption(t) = {t, FirstSize(t)}
          /\ \A r \in {t, FirstSize(t)} :
                InitialDraftOption(t)[r] \in DraftRow /\ InitialDraftOption(t)[r].id = NoId
      BY <3>1, OptionAdded
    <3> QED
      BY <1>1, <3>1, <3>2 DEF t
  <2> HIDE DEF option
  <2>2. TrueDraft(With(d, option))
    BY <1>4, <2>1, WithNewRows
  <2> QED
    BY <1>1, <1>4, <2>2 DEF option
<1>6. MenuInv'
  BY <1>2, MenuUnchanged DEF ProductInv
<1> QED
  BY <1>2, <1>5, <1>6, DraftReplaced DEF ProductInv, Editing

\* A row that comes next is one of the draft that was sent.
LEMMA ComingRow ==
  ASSUME ProductInv, NEW r, Comes(r)
  PROVE  SaveOK /\ TrueDraft(saving.sent) /\ r \in DOMAIN saving.sent /\ r \in Rows
<1>1. SaveOK
  BY DEF ProductInv, Comes, UnderWay, Editing
<1>2. TrueDraft(saving.sent) /\ r \in DOMAIN saving.sent
  BY <1>1 DEF SaveOK, Comes
<1> QED
  BY <1>1, <1>2 DEF TrueDraft

\* The rows a save has made stay, and stay where they are.
LEMMA SaveKept ==
  ASSUME SaveOK, nodes' = nodes, saving' \in Saves(saving.sent), saving'.sent = saving.sent,
         saving'.section = saving.section, saving'.rows = saving.rows, saving'.todo \subseteq saving.todo,
         saving'.at = "saved" => saving'.todo = {},
         \A r \in saving.todo \ saving'.todo : DraftKind[r] = "addon" /\ ~saving.sent[r].named
  PROVE  SaveOK'
<1>1. saving'.todo \subseteq DOMAIN saving'.sent /\ DOMAIN saving'.rows \subseteq DOMAIN saving'.sent \ saving'.todo
  BY DEF SaveOK
<1>2. \A r \in DOMAIN saving'.sent \ saving'.todo :
        r \in DOMAIN saving'.rows \/ (DraftKind[r] = "addon" /\ ~saving'.sent[r].named)
  BY DEF SaveOK
<1>3. \A r : ParentRow(r)' = ParentRow(r)
  BY DEF ParentRow
<1>4. TrueDraft(saving.sent)'
  BY SentKept DEF SaveOK, TrueDraft, Parent
<1> QED
  BY <1>1, <1>2, <1>3, <1>4 DEF SaveOK, Parent

LEMMA LeaveInv ==
  ASSUME ProductInv, Leave
  PROVE  ProductInv'
<1>1. /\ draft' = NewDraft /\ nodes' = nodes /\ schedules' = schedules /\ deletions' = deletions
      /\ saving' = IF saving.at = "saving" THEN [saving EXCEPT !.at = "left"] ELSE Editing
  BY DEF Leave, menuVars
<1>2. MenuInv' /\ DraftOK'
  BY <1>1, MenuUnchanged, NewDraftTrue, DraftReplaced DEF ProductInv
<1>3. CASE saving.at = "saving"
  <2>1. SaveOK /\ saving \in Saves(saving.sent)
    BY <1>3 DEF ProductInv, SaveOK, Editing
  <2>2. /\ saving' \in Saves(saving.sent) /\ saving'.at = "left" /\ saving'.section = saving.section
        /\ saving'.rows = saving.rows /\ saving'.todo = saving.todo /\ saving'.sent = saving.sent
    BY <1>1, <1>3, <2>1 DEF Saves
  <2>3. SaveOK'
    BY <1>1, <2>1, <2>2, SaveKept
  <2> QED
    BY <1>2, <2>3 DEF ProductInv
<1> QED
  BY <1>1, <1>2, <1>3 DEF ProductInv, Editing

LEMMA PressInv ==
  ASSUME ProductInv, NEW s \in Sections, Press(s)
  PROVE  ProductInv'
<1> DEFINE none == [r \in {} |-> NoId]
<1>1. /\ nodes[s].exists /\ nodes' = nodes /\ schedules' = schedules /\ deletions' = deletions /\ draft' = draft
      /\ saving' = [at |-> "saving", section |-> s, rows |-> none, todo |-> DOMAIN draft, sent |-> draft]
  BY DEF Press, menuVars
<1>2. MenuInv' /\ DraftOK'
  BY <1>1, MenuUnchanged, DraftReplaced DEF ProductInv, DraftOK
<1>3. DOMAIN none = {} /\ none \in [{} -> Ids]
  OBVIOUS
<1>4. none \in UNION {[rows -> Ids] : rows \in SUBSET Rows}
  BY <1>3
<1> HIDE DEF none
<1>5. /\ saving'.at = "saving" /\ saving'.section = s /\ saving'.rows = none /\ saving'.todo = DOMAIN draft
      /\ saving'.sent = draft /\ saving' \in Saves(draft)
  BY <1>1, <1>4 DEF Saves, ProductInv, DraftOK, TrueDraft
<1>7. TrueDraft(saving.sent)'
  BY <1>1, <1>5 DEF ProductInv, DraftOK, TrueDraft, Parent
<1>6. SaveOK'
  BY <1>1, <1>3, <1>5, <1>7 DEF SaveOK
<1> QED
  BY <1>2, <1>6 DEF ProductInv

LEMMA SkipAddonInv ==
  ASSUME ProductInv, NEW r \in Rows, SkipAddon(r)
  PROVE  ProductInv'
<1>1. /\ UnderWay /\ DraftKind[r] = "addon" /\ ~saving.sent[r].named
      /\ saving' = [saving EXCEPT !.todo = @ \ {r}]
      /\ nodes' = nodes /\ schedules' = schedules /\ deletions' = deletions /\ draft' = draft
  BY DEF SkipAddon, Comes, menuVars
<1>2. MenuInv' /\ DraftOK'
  BY <1>1, MenuUnchanged, DraftReplaced DEF ProductInv, DraftOK
<1>3. SaveOK /\ saving \in Saves(saving.sent)
  BY <1>1 DEF ProductInv, SaveOK, Editing, UnderWay
<1>4. /\ saving' \in Saves(saving.sent) /\ saving'.sent = saving.sent /\ saving'.at = saving.at /\ saving'.section = saving.section
      /\ saving'.rows = saving.rows /\ saving'.todo = saving.todo \ {r}
  BY <1>1, <1>3 DEF Saves
<1>5. SaveOK'
  BY <1>1, <1>3, <1>4, SaveKept DEF UnderWay
<1> QED
  BY <1>2, <1>5 DEF ProductInv

LEMMA SaveDoneInv ==
  ASSUME ProductInv, SaveDone
  PROVE  ProductInv'
<1>1. /\ UnderWay /\ saving.todo = {} /\ saving' = [saving EXCEPT !.at = "saved"]
      /\ nodes' = nodes /\ schedules' = schedules /\ deletions' = deletions /\ draft' = draft
  BY DEF SaveDone, menuVars
<1>2. MenuInv' /\ DraftOK'
  BY <1>1, MenuUnchanged, DraftReplaced DEF ProductInv, DraftOK
<1>3. SaveOK /\ saving \in Saves(saving.sent)
  BY <1>1 DEF ProductInv, SaveOK, Editing, UnderWay
<1>4. /\ saving' \in Saves(saving.sent) /\ saving'.sent = saving.sent /\ saving'.at = "saved" /\ saving'.section = saving.section
      /\ saving'.rows = saving.rows /\ saving'.todo = saving.todo
  BY <1>1, <1>3 DEF Saves
<1>5. SaveOK'
  BY <1>1, <1>3, <1>4, SaveKept
<1> QED
  BY <1>2, <1>5 DEF ProductInv

LEMMA SaveFailsInv ==
  ASSUME ProductInv, SaveFails
  PROVE  ProductInv'
<1>1. saving' = Editing /\ nodes' = nodes /\ schedules' = schedules /\ deletions' = deletions /\ draft' = draft
  BY DEF SaveFails, menuVars
<1> QED
  BY <1>1, MenuUnchanged, DraftReplaced DEF ProductInv, DraftOK, Editing

\* A row below one that a save has made, or the product below its section.
LEMMA RightPlace ==
  ASSUME ProductInv, NEW r, Comes(r), NEW id \in IdsOf[DraftKind[r]], nodes[ParentRow(r)].exists
  PROVE  SaveOK /\ id \in Ids /\ r \in DOMAIN saving.sent /\ r \in Rows /\ RightParent(id, ParentRow(r))
<1>1. SaveOK /\ r \in DOMAIN saving.sent /\ r \in Rows
  BY ComingRow
<1>2. id \in Ids
  BY <1>1, KindIds
<1>3. CASE r = Product
  <2>1. id \in Items /\ ParentRow(r) = saving.section /\ saving.section \in Sections
    BY <1>1, <1>3, DraftTables DEF ParentRow, SaveOK, Saves, IdsOf
  <2> QED
    BY <1>1, <1>2, <2>1 DEF RightParent, Ids
<1>4. CASE r # Product
  <2> DEFINE p == ParentRow(r)
             q == DraftParent[r]
  <2>1. q \in DOMAIN saving.rows /\ p = saving.rows[q]
    BY <1>1, <1>4, ParentDone
  <2>2. p \in IdsOf[DraftKind[q]] /\ q \in Rows
    BY <1>1, <1>4, <2>1, RowsOfDrafts DEF SaveOK
  <2>3. p \in Ids
    BY <2>2, KindIds
  <2>4. \/ DraftKind[q] = "item" /\ DraftKind[r] = "type"
        \/ DraftKind[q] = "type" /\ DraftKind[r] = "size"
        \/ DraftKind[q] = "size" /\ DraftKind[r] = "addon"
    BY <1>1, <1>4, RowsOfDrafts
  <2> HIDE DEF p, q
  <2>5. \/ p \in Items /\ id \in Types
        \/ p \in Types /\ id \in Sizes
        \/ p \in Sizes /\ id \in Addons
    BY <2>2, <2>4 DEF IdsOf
  <2> QED
    BY <1>1, <1>2, <2>3, <2>5 DEF RightParent, p
<1> QED
  BY <1>3, <1>4

LEMMA CreateRowInv ==
  ASSUME ProductInv, NEW r \in Rows, NEW answered \in BOOLEAN, CreateRow(r, answered)
  PROVE  ProductInv'
<1>1. PICK id \in UnusedIds(r) :
        Insert(id, ParentRow(r)) /\ saving' = IF answered THEN Written(r, id) ELSE Editing
  BY DEF CreateRow
<1>2. Comes(r) /\ saving.sent[r].id = NoId /\ nodes[ParentRow(r)].exists /\ draft' = draft
  BY DEF CreateRow
<1>3. id \in IdsOf[DraftKind[r]] /\ ~nodes[id].exists
  BY DEF UnusedIds, NewId
<1>4. SaveOK /\ id \in Ids /\ RightParent(id, ParentRow(r)) /\ MenuInv /\ DraftOK
  BY <1>2, <1>3, RightPlace DEF ProductInv
<1>5. MenuInv'
  BY <1>1, <1>4, InsertInv
<1>6. /\ nodes'[id].exists /\ Parent(id)' = ParentRow(r)
      /\ \A x \in Ids : nodes[x].exists => x # id /\ nodes'[x] = nodes[x] /\ Parent(x)' = Parent(x)
  BY <1>1, <1>4, Inserted
<1>7. \A x \in DOMAIN draft : draft[x].id # NoId => draft[x].id \in Ids /\ nodes[draft[x].id].exists
  BY <1>4, KindIds DEF DraftOK, TrueDraft
<1>8. DraftOK'
  <2>1. \A x \in DOMAIN draft : draft[x].id # NoId =>
          nodes'[draft[x].id].exists /\ Parent(draft[x].id)' = Parent(draft[x].id)
    BY <1>2, <1>6, <1>7 DEF Parent
  <2> QED
    BY <1>2, <1>4, <2>1, DraftKept
<1>9. answered => SaveOK'
  <2>1. \A x \in DOMAIN saving.rows : saving.rows[x] \in Ids /\ nodes[saving.rows[x]].exists
    BY <1>4, KindIds DEF SaveOK, TrueDraft
  <2>2. \A x \in DOMAIN saving.rows : /\ saving.rows[x] # id /\ nodes'[saving.rows[x]].exists
                                      /\ nodes'[saving.rows[x]].parent = Parent(saving.rows[x])
    BY <1>6, <2>1 DEF Parent
  <2>3. nodes'[saving.section].exists
    BY <1>4, <1>6 DEF SaveOK, Saves, Ids
  <2>5. \A x \in DOMAIN saving.sent : saving.sent[x].id # NoId =>
          saving.sent[x].id \in Ids /\ nodes[saving.sent[x].id].exists
    BY <1>4, KindIds DEF SaveOK, TrueDraft
  <2>4. \A q \in DOMAIN saving.sent : id # saving.sent[q].id
    BY <1>3, <1>4, <2>5, DraftTables
  <2> HAVE answered
  <2>6. saving' = Written(r, id) /\ saving'.sent = saving.sent
    BY <1>1, <1>4 DEF Written, SaveOK, Saves
  <2>7. TrueDraft(saving.sent)'
    <3>1. \A x \in DOMAIN saving.sent : saving.sent[x].id # NoId =>
            nodes'[saving.sent[x].id].exists /\ nodes'[saving.sent[x].id].parent = Parent(saving.sent[x].id)
      BY <1>6, <2>5 DEF Parent
    <3> QED
      BY <1>4, <2>6, <3>1, SentKept DEF SaveOK
  <2> QED
    BY <1>2, <1>3, <1>4, <1>6, <2>2, <2>3, <2>4, <2>6, <2>7, WrittenOK
<1> QED
  BY <1>1, <1>5, <1>8, <1>9 DEF ProductInv, Editing

\* The rows the draft was opened with are written under the ids they have.
LEMMA UpdateSavedRowInv ==
  ASSUME ProductInv, NEW r \in Rows, UpdateSavedRow(r)
  PROVE  ProductInv'
<1> DEFINE id == saving.sent[r].id
<1>1. /\ Comes(r) /\ id # NoId /\ nodes[id].exists
      /\ nodes' = IF r = Product THEN [nodes EXCEPT ![id].parent = saving.section] ELSE nodes
      /\ saving' = Written(r, id) /\ draft' = draft /\ schedules' = schedules /\ deletions' = deletions
  BY DEF UpdateSavedRow
<1>2. MenuInv /\ DraftOK /\ SaveOK /\ TrueDraft(saving.sent) /\ r \in DOMAIN saving.sent /\ r \in Rows
  BY <1>1, ComingRow DEF ProductInv
<1>3. id \in IdsOf[DraftKind[r]] /\ id \in Ids
  BY <1>1, <1>2, KindIds DEF TrueDraft
<1>4. saving.section \in Sections /\ nodes[saving.section].exists /\ saving.section \in Ids
  BY <1>2 DEF SaveOK, Saves, Ids
<1> HIDE DEF id
<1>5. /\ MenuInv' /\ nodes'[id].exists /\ nodes'[id].parent = ParentRow(r)
      /\ \A x \in Ids : nodes[x].exists => nodes'[x].exists
      /\ \A x \in Ids : x # id => nodes'[x] = nodes[x]
  <2>1. CASE r = Product
    <3>1. id \in Items /\ ParentRow(r) = saving.section
      BY <1>3, <2>1, DraftTables DEF IdsOf, ParentRow
    <3>2. MoveTo(id, saving.section)
      BY <1>1, <1>4, <2>1 DEF MoveTo
    <3>3. RightParent(id, saving.section)
      BY <1>4, <3>1 DEF RightParent
    <3>4. MenuInv'
      BY <1>2, <1>3, <3>2, <3>3, MoveInv
    <3>5. nodes[id] \in MenuRow /\ DOMAIN nodes = Ids
      BY <1>1, <1>2, <1>3, RowFacts DEF MenuInv, MenuTypeOK
    <3>6. nodes' = [nodes EXCEPT ![id] = [nodes[id] EXCEPT !.parent = saving.section]]
      BY <1>1, <2>1
    <3>7. /\ nodes'[id] = [nodes[id] EXCEPT !.parent = saving.section]
          /\ \A x \in Ids : x # id => nodes'[x] = nodes[x]
      BY <1>3, <3>5, <3>6
    <3>8. nodes'[id].exists /\ nodes'[id].parent = saving.section
      BY <1>1, <3>5, <3>7 DEF MenuRow
    <3> QED
      BY <3>1, <3>4, <3>7, <3>8
  <2>2. CASE r # Product
    <3>1. nodes' = nodes
      BY <1>1, <2>2
    <3>2. DraftParent[r] \in DOMAIN saving.rows /\ ParentRow(r) = saving.rows[DraftParent[r]]
      BY <1>1, <1>2, <2>2, ParentDone
    <3>3. saving.sent[DraftParent[r]].id # NoId /\ Parent(id) = saving.sent[DraftParent[r]].id
      BY <1>1, <1>2, <2>2 DEF TrueDraft, id
    <3>4. saving.rows[DraftParent[r]] = saving.sent[DraftParent[r]].id
      BY <1>2, <3>2, <3>3 DEF SaveOK
    <3>5. nodes'[id].parent = ParentRow(r)
      BY <3>1, <3>2, <3>3, <3>4 DEF Parent
    <3> QED
      BY <1>1, <1>2, <3>1, <3>5, MenuUnchanged
  <2> QED
    BY <2>1, <2>2
<1>6. \A d : TrueDraft(d) => \A x \in DOMAIN d : d[x].id # NoId => /\ d[x].id \in Ids /\ nodes[d[x].id].exists
                                                                      /\ d[x].id \in IdsOf[DraftKind[x]] /\ x \in Rows
  BY KindIds DEF TrueDraft
<1>7. \A x \in DOMAIN saving.sent : saving.sent[x].id # NoId /\ x # r => saving.sent[x].id # id
  BY <1>2 DEF TrueDraft, id
\* Only the product moves, and no other row of a draft has its id.
<1>11. ASSUME NEW d, TrueDraft(d), NEW x \in DOMAIN d, d[x].id # NoId
       PROVE  /\ nodes'[d[x].id].exists
              /\ x # Product => nodes'[d[x].id].parent = nodes[d[x].id].parent
  <2>1. d[x].id \in Ids /\ nodes[d[x].id].exists /\ d[x].id \in IdsOf[DraftKind[x]] /\ x \in Rows
    BY <1>6, <1>11
  <2>2. CASE r = Product
    <3>1. id \in Items
      BY <1>3, <2>2, DraftTables DEF IdsOf
    <3>2. x # Product => d[x].id \in Types \cup Sizes \cup Addons
      BY <2>1, RowsOfDrafts DEF IdsOf
    <3>3. x # Product => d[x].id # id
      BY <3>1, <3>2, MenuAssumption
    <3> QED
      BY <1>5, <2>1, <3>3
  <2>3. CASE r # Product
    BY <1>1, <2>1, <2>3
  <2> QED
    BY <2>2, <2>3
<1>8. DraftOK'
  <2>1. \A x \in DOMAIN draft : draft[x].id # NoId =>
          nodes'[draft[x].id].exists /\ (x # Product => nodes'[draft[x].id].parent = nodes[draft[x].id].parent)
    BY <1>2, <1>11 DEF DraftOK
  <2>2. \A x \in DOMAIN draft : draft[x].id # NoId =>
          nodes'[draft[x].id].exists /\ (x # Product => Parent(draft[x].id)' = Parent(draft[x].id))
    BY <1>1, <2>1 DEF Parent
  <2> QED
    BY <1>1, <1>2, <2>2, DraftKept
<1>12. TrueDraft(saving.sent)'
  <2>1. saving'.sent = saving.sent
    BY <1>1, <1>2 DEF Written, SaveOK, Saves
  <2>2. \A x \in DOMAIN saving.sent : saving.sent[x].id # NoId =>
          /\ nodes'[saving.sent[x].id].exists
          /\ x # Product => nodes'[saving.sent[x].id].parent = Parent(saving.sent[x].id)
    BY <1>2, <1>11 DEF Parent
  <2> QED
    BY <1>2, <2>1, <2>2, SentKept
<1>9. \A x \in DOMAIN saving.rows : saving.rows[x] # id
  <2> SUFFICES ASSUME NEW x \in DOMAIN saving.rows PROVE saving.rows[x] # id
    OBVIOUS
  <2>2. x \in DOMAIN saving.sent /\ x # r
    BY <1>1, <1>2 DEF SaveOK, Comes
  <2>3. IF saving.sent[x].id # NoId THEN saving.rows[x] = saving.sent[x].id
        ELSE \A q \in DOMAIN saving.sent : saving.rows[x] # saving.sent[q].id
    BY <1>2 DEF SaveOK
  <2> QED
    BY <1>2, <1>7, <2>2, <2>3 DEF id
<1>10. SaveOK'
  <2>1. \A x \in DOMAIN saving.rows : saving.rows[x] \in Ids /\ nodes[saving.rows[x]].exists
    BY <1>2, KindIds DEF SaveOK, TrueDraft
  <2>2. \A x \in DOMAIN saving.rows : /\ saving.rows[x] # id /\ nodes'[saving.rows[x]].exists
                                      /\ nodes'[saving.rows[x]].parent = Parent(saving.rows[x])
    BY <1>5, <1>9, <2>1 DEF Parent
  <2>3. nodes'[saving.section].exists
    BY <1>4, <1>5
  <2>4. \A i \in Ids : i = id => Parent(i)' = ParentRow(r)
    BY <1>5 DEF Parent
  <2>5. \A i \in Ids : i = id => SaveOK'
    BY <1>1, <1>2, <1>3, <1>5, <1>12, <2>2, <2>3, <2>4, WrittenOK DEF id
  <2> QED
    BY <1>3, <2>5
<1> QED
  BY <1>5, <1>8, <1>10 DEF ProductInv

LEMMA MeanwhileProductInv ==
  ASSUME ProductInv, BetweenProducts
  PROVE  ProductInv'
<1>1. /\ saving = Editing /\ saving' = saving /\ draft' = draft /\ MenuNext
      /\ \A r \in DOMAIN draft : draft[r].id = NoId
  BY DEF BetweenProducts, editorVars
<1>2. MenuInv'
  BY <1>1, MenuStepInv DEF ProductInv
<1>3. DraftOK'
  BY <1>1, DraftKept DEF ProductInv
<1> QED
  BY <1>1, <1>2, <1>3 DEF ProductInv, Editing

LEMMA ProductInitInv == MenuInit /\ EditorInit => ProductInv
  BY MenuInitInv, NewDraftTrue DEF EditorInit, ProductInv, DraftOK

LEMMA ProductStepInv == ProductInv /\ [EditorNext \/ BetweenProducts]_<<menuVars, editorVars>> => ProductInv'
<1> SUFFICES ASSUME ProductInv, [EditorNext \/ BetweenProducts]_<<menuVars, editorVars>> PROVE ProductInv'
  OBVIOUS
<1>1. CASE EditorNext
  BY <1>1, AddRowInv, UpdateRowInv, PressInv, SkipAddonInv, UpdateSavedRowInv, CreateRowInv, SaveFailsInv,
     SaveDoneInv, LeaveInv, OpenProductInv DEF EditorNext
<1>2. CASE BetweenProducts
  BY <1>2, MeanwhileProductInv
<1>3. CASE UNCHANGED <<menuVars, editorVars>>
  <2>1. nodes' = nodes /\ schedules' = schedules /\ deletions' = deletions /\ draft' = draft /\ saving' = saving
    BY <1>3 DEF menuVars, editorVars
  <2>2. MenuInv' /\ DraftOK'
    BY <2>1, MenuUnchanged, DraftReplaced DEF ProductInv, DraftOK
  <2>3. SaveOK => SaveOK'
    BY <2>1, SaveStill
  <2> QED
    BY <2>1, <2>2, <2>3 DEF ProductInv, Editing
<1> QED
  BY <1>1, <1>2, <1>3

(* When the editor closes as saved, every row the draft had when "save"    *)
(* was pressed is on the server below the row of its parent, with an id of *)
(* its own, and the product in the section chosen: for drafts of any size, *)
(* after any number of failed or half-done attempts, whatever is typed     *)
(* during the save or if the screen is left, as long as nobody else        *)
(* changes the menu while a product is open or being saved.                *)
THEOREM SavedProductIsWhole == ProductSpec => []SavedIsComplete
<1>1. ProductInv => SavedIsComplete
  <2> SUFFICES ASSUME ProductInv, saving.at = "saved" PROVE SavedIsComplete
    BY DEF SavedIsComplete
  <2>1. SaveOK
    BY DEF ProductInv, Editing
  <2>2. \A r \in DOMAIN saving.rows :
          /\ saving.rows[r] \in IdsOf[DraftKind[r]] /\ nodes[saving.rows[r]].exists
          /\ Parent(saving.rows[r]) = IF r = Product THEN saving.section ELSE saving.rows[DraftParent[r]]
    BY <2>1 DEF SaveOK, ParentRow
  <2>3. \A r \in DOMAIN saving.sent : r \in DOMAIN saving.rows \/ (DraftKind[r] = "addon" /\ ~saving.sent[r].named)
    BY <2>1 DEF SaveOK
  <2>4. \A r, q \in DOMAIN saving.rows : r # q => saving.rows[r] # saving.rows[q]
    BY <2>1 DEF SaveOK
  <2> QED
    BY <2>2, <2>3, <2>4 DEF SavedIsComplete
<1> QED
  BY <1>1, ProductInitInv, ProductStepInv, PTL DEF ProductSpec
=============================================================================
