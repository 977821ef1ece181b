-------------------------- MODULE MenuProductEditor --------------------------
(***************************************************************************)
(* The product editor of the mobile app: a draft of one product with its   *)
(* options, variants and add-ons, edited at will and then saved with one   *)
(* request per row, from the product down, each after the answer to the    *)
(* one before.  A refused or lost request ends the save; the rows already  *)
(* written stay, and the draft does not learn their ids, so saving again   *)
(* writes them again.  A save writes the draft as it was when "save" was   *)
(* pressed; meanwhile the screen can be typed in, and left.  The menu is   *)
(* the server's, MenuTree.                                                 *)
(***************************************************************************)
EXTENDS MenuTree, SequencesExt

CONSTANTS DraftRows,     \* the rows a draft may have, in depth-first order
          DraftParent,   \* row -> the draft row it hangs from (the product: itself)
          DraftKind,     \* row -> "item", "type", "size" or "addon"
          NoId

VARIABLES draft,         \* the rows of the draft on the screen -> what is known of each
          saving         \* the save under way, or its outcome

editorVars == <<draft, saving>>

Product == DraftRows[1]
Rows == ToSet(DraftRows)

ASSUME DraftTables ==
    /\ NoId \notin Ids
    /\ {1, 2} \subseteq DOMAIN DraftRows
    /\ DraftKind[Product] = "item" /\ DraftParent[Product] = Product
    /\ DraftKind[DraftRows[2]] = "type" /\ DraftParent[DraftRows[2]] = Product
    /\ \A n \in DOMAIN DraftRows \ {1} :
          LET r == DraftRows[n]
          IN /\ \E m \in DOMAIN DraftRows : m < n /\ DraftParent[r] = DraftRows[m]
             /\ <<DraftKind[DraftParent[r]], DraftKind[r]>> \in
                   {<<"item", "type">>, <<"type", "size">>, <<"size", "addon">>}
    /\ \A t \in Rows : DraftKind[t] = "type" => \E z \in Rows : DraftParent[z] = t /\ DraftKind[z] = "size"

IdsOf == [item |-> Items, type |-> Types, size |-> Sizes, addon |-> Addons]
Blank == [id |-> NoId, named |-> FALSE]
Editing == [at |-> "editing"]

(* initialDraftOption: a named option with one variant without a price.    *)
FirstSize(t) == CHOOSE z \in Rows : DraftParent[z] = t /\ DraftKind[z] = "size"
InitialDraftOption(t) == [r \in {t, FirstSize(t)} |-> [Blank EXCEPT !.named = r = t]]
With(d, new) == [r \in DOMAIN d \cup DOMAIN new |-> IF r \in DOMAIN d THEN d[r] ELSE new[r]]

NewDraft == With([r \in {Product} |-> Blank], InitialDraftOption(DraftRows[2]))

EditorInit == draft = NewDraft /\ saving = Editing

Has(r) == r \in DOMAIN draft
OnScreen == saving.at \in {"editing", "saving"}

(* addOptionGroup; addVariant and addAddon.                                *)
AddRow(r) ==
    /\ OnScreen /\ ~Has(r) /\ Has(DraftParent[r])
    /\ draft' = With(draft, IF DraftKind[r] = "type" THEN InitialDraftOption(r) ELSE [x \in {r} |-> Blank])
    /\ UNCHANGED <<saving, menuVars>>

(* updateOption, updateSize, updateAddon: the names (and the price) of a   *)
(* row are filled in or emptied.                                           *)
UpdateRow(r) ==
    /\ OnScreen /\ Has(r)
    /\ draft' = [draft EXCEPT ![r].named = ~@]
    /\ UNCHANGED <<saving, menuVars>>

(* validationMessages: everything but an add-on needs its names, and there *)
(* is a variant.                                                           *)
CanSave ==
    /\ \A r \in DOMAIN draft : DraftKind[r] # "addon" => draft[r].named
    /\ \E r \in DOMAIN draft : DraftKind[r] = "size"

Press(s) ==
    /\ saving = Editing /\ CanSave /\ nodes[s].exists
    /\ saving' = [at |-> "saving", section |-> s, rows |-> [r \in {} |-> NoId],
                  todo |-> DOMAIN draft, sent |-> draft]
    /\ UNCHANGED <<draft, menuVars>>

(* The first of the rows left, from the product down.                      *)
UnderWay == saving.at \in {"saving", "left"}
Comes(r) ==
    /\ UnderWay /\ r \in saving.todo
    /\ \E n \in DOMAIN DraftRows :
          r = DraftRows[n] /\ \A m \in DOMAIN DraftRows : m < n => DraftRows[m] \notin saving.todo

\* Mutant: every row below the product is created under the product's own row.
ProductRow(r) == IF r = Product THEN saving.section ELSE saving.rows[Product]

ParentRow(r) == IF r = Product THEN saving.section ELSE saving.rows[DraftParent[r]]
Written(r, id) ==
    [saving EXCEPT !.todo = @ \ {r}, !.rows = [x \in DOMAIN @ \cup {r} |-> IF x = r THEN id ELSE @[x]]]

(* An add-on without both names is passed over.                            *)
SkipAddon(r) ==
    /\ Comes(r) /\ DraftKind[r] = "addon" /\ saving.sent[r].id = NoId /\ ~saving.sent[r].named
    /\ saving' = [saving EXCEPT !.todo = @ \ {r}]
    /\ UNCHANGED <<draft, menuVars>>

(* The server gives the new row an id nobody has.                          *)
UnusedIds(r) == {id \in IdsOf[DraftKind[r]] : NewId(id)}

CreateRow(r, answered) ==
    /\ Comes(r) /\ saving.sent[r].id = NoId /\ (DraftKind[r] = "addon" => saving.sent[r].named)
    /\ nodes[ParentRow(r)].exists /\ UnusedIds(r) # {}
    /\ \E id \in UnusedIds(r) :
          /\ Insert(id, ParentRow(r))
          /\ saving' = IF answered THEN Written(r, id) ELSE Editing
    /\ UNCHANGED draft

(* A row the draft was opened with is updated; the product may move to     *)
(* another section with it.                                                *)
UpdateSavedRow(r) ==
    /\ Comes(r) /\ saving.sent[r].id # NoId /\ nodes[saving.sent[r].id].exists
    /\ nodes' = IF r = Product THEN [nodes EXCEPT ![saving.sent[r].id].parent = saving.section] ELSE nodes
    /\ saving' = Written(r, saving.sent[r].id)
    /\ UNCHANGED <<draft, schedules, deletions>>

(* The request is refused or does not reach the server: an alert, and the  *)
(* draft is what the screen shows.                                         *)
SaveFails ==
    /\ UnderWay /\ saving.todo # {}
    /\ saving' = Editing
    /\ UNCHANGED <<draft, menuVars>>

SaveDone ==
    /\ UnderWay /\ saving.todo = {}
    /\ saving' = [saving EXCEPT !.at = "saved"]
    /\ UNCHANGED <<draft, menuVars>>

(* The screen is left, saved or not, and opened again for a new product,   *)
(* after the save under way if there is one.                               *)
Leave ==
    /\ saving.at # "left"
    /\ draft' = NewDraft
    /\ saving' = IF saving.at = "saving" THEN [saving EXCEPT !.at = "left"] ELSE Editing
    /\ UNCHANGED menuVars

(* It is opened on a product of the menu tree instead, with a draft row    *)
(* for each row of the server below the product; one that has no option    *)
(* gets the initial one.                                                   *)
Mirrors(d, i) ==
    /\ d[Product].id = i
    /\ {d[r].id : r \in DOMAIN d} = Below(i)
    /\ \A r, q \in DOMAIN d : r # q => d[r].id # d[q].id
    /\ \A r \in DOMAIN d \ {Product} : d[r].id \in IdsOf[DraftKind[r]]
                                         /\ Parent(d[r].id) = d[DraftParent[r]].id

OpenProduct(i) ==
    /\ draft = NewDraft /\ saving = Editing /\ nodes[i].exists
    /\ \E kept \in {rows \in SUBSET Rows : Cardinality(rows) = Cardinality(Below(i)) /\ Product \in rows} :
          /\ \A r \in kept : DraftParent[r] \in kept
          /\ \E d \in [kept -> [id : Below(i), named : {TRUE}]] :
                /\ Mirrors(d, i)
                /\ draft' = IF Children(i) = {} THEN With(d, InitialDraftOption(DraftRows[2])) ELSE d
    /\ UNCHANGED <<saving, menuVars>>

EditorNext ==
    \/ \E r \in Rows : AddRow(r) \/ UpdateRow(r)
    \/ \E s \in Sections : Press(s)
    \/ \E r \in Rows : \/ SkipAddon(r) \/ UpdateSavedRow(r)
                      \/ \E answered \in BOOLEAN : CreateRow(r, answered)
    \/ SaveFails \/ SaveDone \/ Leave
    \/ \E i \in Items : OpenProduct(i)

(* When the editor closes as saved, the server has the whole product as it *)
(* was when "save" was pressed: every row of that draft, unnamed add-ons   *)
(* aside, has a row of its own of the right kind below the row of its      *)
(* parent, and the product is in the section chosen, whatever failed       *)
(* attempts came before and whatever was typed meanwhile.  What was typed  *)
(* meanwhile is lost with the screen.                                      *)
SavedIsComplete ==
    saving.at = "saved" =>
        LET row(r) == saving.rows[r] IN
        /\ \A r \in DOMAIN saving.sent :
              \/ DraftKind[r] = "addon" /\ ~saving.sent[r].named
              \/ /\ r \in DOMAIN saving.rows /\ row(r) \in IdsOf[DraftKind[r]]
                 /\ nodes[row(r)].exists
                 /\ Parent(row(r)) = IF r = Product THEN saving.section ELSE row(DraftParent[r])
        /\ \A r, q \in DOMAIN saving.rows : r # q => row(r) # row(q)
=============================================================================
