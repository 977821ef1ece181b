----------------------------- MODULE MenuScreens -----------------------------
(***************************************************************************)
(* What the admins are told about the menu: the preview of the mobile app, *)
(* which applies the schedules itself to the unfiltered tree, with minutes *)
(* as its clock, and the badges of the two menu editors, which look at the *)
(* switches alone.                                                         *)
(***************************************************************************)
EXTENDS MenuTree

\* Mutant: the early hours of an overnight window count for their own day.
PreviewIgnoringMidnight(sch, day, minute) ==
    /\ sch.active
    /\ sch.days # {} => day \in sch.days
    /\ IF sch.start > sch.end THEN minute >= sch.start \/ minute <= sch.end
       ELSE sch.start <= minute /\ minute <= sch.end

(* isPreviewScheduleActiveNow and isTimeInWindow of the mobile app.        *)
PreviewScheduleActive(sch, day, minute) ==
    LET overnight == sch.start > sch.end
        scheduleDay == IF overnight /\ minute <= sch.end THEN DayBefore(day) ELSE day
    IN /\ sch.active
       /\ overnight => minute <= sch.end \/ minute >= sch.start
       /\ sch.days # {} => scheduleDay \in sch.days
       /\ IF overnight THEN minute >= sch.start \/ minute <= sch.end
          ELSE sch.start <= minute /\ minute <= sch.end

ScheduleIndexFor(e) == {sch \in schedules : sch.active /\ sch.entity = e}

PreviewOpen(e, day, minute) ==
    ScheduleIndexFor(e) # {} => \E sch \in ScheduleIndexFor(e) : PreviewScheduleActive(sch, day, minute)

IsEntityAvailable(id, day, minute) ==
    PreviewOpen(WholeMenu, day, minute) /\ PreviewOpen(id, day, minute)

Kept(day, minute) ==
    {id \in Ids : nodes[id].exists /\ nodes[id].active /\ IsEntityAvailable(id, day, minute)}

(* applyPreviewSchedulesToMenu: each list is filtered, then emptied rows.  *)
PreviewMenu(day, minute) ==
    LET kept == Kept(day, minute)
        K(id) == {c \in kept : Parent(c) = id}
        types(i) == {t \in K(i) : K(t) # {}}
        items(s) == {i \in K(s) : types(i) # {}}
        ss == {s \in K(WholeMenu) : items(s) # {}}
        is == UNION {items(s) : s \in ss}
        ts == UNION {types(i) : i \in is}
        zs == UNION {K(t) : t \in ts}
    IN ss \cup is \cup ts \cup zs \cup UNION {K(z) : z \in zs}

\* Mutant: an active option counts without an active variant.
HasAnyActiveType(i) == \E t \in Children(i) : nodes[t].active

(* activeTypeCount > 0, the same in both editors.                          *)
HasActiveType(i) ==
    \E t \in Children(i) : nodes[t].active /\ \E z \in Children(t) : nodes[z].active

(* getProductVisibility of the mobile editor.                              *)
ProductVisibility(i) ==
    CASE ~nodes[Parent(i)].active -> "ancestor"
      [] nodes[Parent(i)].active /\ ~nodes[i].active -> "inactive"
      [] OTHER -> IF HasActiveType(i) THEN "visible" ELSE "issue"

(* getVisibilityLabel of the web editor, with the ancestors' switches.     *)
VisibilityLabel(id, ancestorsActive) ==
    IF ~ancestorsActive \/ ~nodes[id].active THEN "hidden"
    ELSE CASE id \in Sections -> IF \E i \in Children(id) : HasActiveType(i) THEN "visible" ELSE "warning"
           [] id \in Items -> IF HasActiveType(id) THEN "visible" ELSE "warning"
           [] id \in Types -> IF \E z \in Children(id) : nodes[z].active THEN "visible" ELSE "warning"
           [] OTHER -> "visible"

AncestorsActive(id) == \A x \in Ancestors(id) : nodes[x].active

Present == {id \in Ids : nodes[id].exists}

(* What the editors list: all rows, those switched on or off, or those     *)
(* that need attention, of the rows a search has found; the web page keeps *)
(* the way to whatever it lists, the mobile one finds a product also by    *)
(* its section.                                                            *)
MatchesFilter(id, mode) ==
    CASE mode = "all" -> TRUE
      [] mode = "active" -> nodes[id].active
      [] mode = "inactive" -> ~nodes[id].active
      [] mode = "issues" -> VisibilityLabel(id, AncestorsActive(id)) # "visible"

HierarchyRows(mode, found) ==
    {id \in Present : \E x \in Below(id) \cap found : MatchesFilter(x, mode)}

ProductMatches(i, mode) ==
    CASE mode = "all" -> TRUE
      [] mode = "active" -> nodes[i].active
      [] mode = "inactive" -> ~nodes[i].active \/ ProductVisibility(i) = "ancestor"
      [] mode = "issues" -> ProductVisibility(i) # "visible"

SectionMatches(s, mode) ==
    CASE mode = "all" -> TRUE
      [] mode = "active" -> nodes[s].active
      [] mode = "inactive" -> ~nodes[s].active
      [] mode = "issues" -> ~nodes[s].active \/ \E i \in Children(s) : ProductVisibility(i) # "visible"

ListedProducts(mode, found) ==
    {i \in Items \cap Present : {i, Parent(i)} \cap found # {} /\ ProductMatches(i, mode)}
ListedSections(mode, found) ==
    {s \in Sections \cap Present :
        (s \in found /\ SectionMatches(s, mode)) \/ Children(s) \cap ListedProducts(mode, found) # {}}

(* The preview goes by the clock, the weekday and the timezone of the      *)
(* admin's phone, to the minute; the server by the store's, to the second. *)
PhoneClocks == [day : Days, minute : Minutes]
StoreReading(phone) == [day |-> phone.day, clock |-> 2 * phone.minute]

(* Whatever the phone's clock reads, the preview an admin checks a menu    *)
(* with, and schedules not yet saved are checked the same way, shows what  *)
(* the customers are shown when the store's clock comes to that reading,   *)
(* at the beginning of the minute, midnight included: what they are shown  *)
(* now only if the phone reads the store's time, else the menu of another  *)
(* hour.                                                                   *)
PreviewIsPublic ==
    \A phone \in PhoneClocks :
        PreviewMenu(phone.day, phone.minute) = MenuTree(StoreReading(phone))

Unscheduled == \A sch \in schedules : ~sch.active

(* What the editors call visible is what customers get: without schedules  *)
(* a product, and in the web editor each row below a section, is badged    *)
(* visible exactly when the public menu has it, and with schedules nothing *)
(* is ever shown that is not badged visible.  A row below the sections     *)
(* that its switches keep from the customers needs attention in the web    *)
(* editor, a product also in the mobile one, together with its section.    *)
BadgesTellTheTruth ==
    LET products == {i \in Items \cap Present : ProductVisibility(i) = "visible"}
        rows == {id \in Present \ Sections : VisibilityLabel(id, AncestorsActive(id)) = "visible"}
        noted == HierarchyRows("issues", Ids)
        notedProducts == {i \in ListedProducts("issues", Ids) : Parent(i) \in ListedSections("issues", Ids)}
    IN \A now \in Moments :
          LET shown == MenuTree(now) IN
          /\ Items \cap shown \subseteq products
          /\ shown \ Sections \subseteq rows
          /\ Unscheduled =>
                /\ products \cup (rows \cap (Items \cup Types)) \subseteq shown
                /\ Present \ Sections \subseteq shown \cup noted
                /\ Items \cap Present \subseteq shown \cup notedProducts
=============================================================================
