----------------------------- MODULE DeliveryBands -----------------------------
(***************************************************************************)
(* The distance bands that set the delivery fee.  A request that changes a *)
(* band reads it, looks for active bands it would overlap and commits,     *)
(* with nothing but the band's own row locked in between; several admins   *)
(* may be at it.  Distances are in any unit, counted from the store.       *)
(***************************************************************************)
EXTENDS Integers, FiniteSets

CONSTANTS Bands,        \* ids
          Admins,
          BandRows,     \* min, max, fee, active and sort a new band may be given
          BandValues,   \* the fields an update may name, with their values
          Idle          \* no row, or no request

BandFields == {"min", "max", "fee", "active", "sort"}
BandRow == [min : Int, max : Int, fee : Int, active : BOOLEAN, sort : Int]

ASSUME BandAssumption ==
    /\ BandRows \subseteq BandRow
    /\ \A values \in BandValues :
          /\ DOMAIN values \subseteq BandFields
          /\ \A f \in DOMAIN values : values[f] \in IF f = "active" THEN BOOLEAN ELSE Int
    /\ Idle \notin BandRow

VARIABLES bands,        \* id -> row, or Idle
          saving        \* admin -> the request under way, or Idle

bandVars == <<bands, saving>>

ActiveBands == {b \in Bands : bands[b] # Idle /\ bands[b].active}

ValidBounds(row) == row.min >= 0 /\ row.max > row.min /\ row.fee >= 0
Overlap(row, other) == row.min < other.max /\ row.max > other.min
NoOverlap(row, excluded) == \A b \in ActiveBands \ excluded : ~Overlap(bands[b], row)

\* Mutant: a band is compared with the others only when its bounds are named.
OnlyNewBounds(row, fields) == row.active /\ fields \cap {"min", "max"} # {}

ComparedWithOthers(row, fields) == row.active

BandsInit(rows) ==
    /\ bands = rows
    /\ saving = [a \in Admins |-> Idle]

CreateDistanceBand(a, b, row) ==
    /\ saving[a] = Idle /\ bands[b] = Idle
    /\ \A other \in Admins : saving[other] # Idle => saving[other].band # b
    /\ ValidBounds(row)
    /\ ComparedWithOthers(row, DOMAIN row) => NoOverlap(row, {})
    /\ saving' = [saving EXCEPT ![a] =
                    [step |-> "checked", band |-> b, row |-> row, fields |-> DOMAIN row, new |-> TRUE]]
    /\ UNCHANGED bands

ReadForUpdate(a, b, values) ==
    /\ saving[a] = Idle /\ bands[b] # Idle
    /\ saving' = [saving EXCEPT ![a] =
                    [step |-> "read", band |-> b, fields |-> DOMAIN values, new |-> FALSE,
                     row |-> [f \in DOMAIN bands[b] |-> IF f \in DOMAIN values THEN values[f] ELSE bands[b][f]]]]
    /\ UNCHANGED bands

(* The query that looks for overlaps writes the row first and so holds it. *)
Held(b) == \E a \in Admins : /\ saving[a] # Idle /\ saving[a].band = b /\ ~saving[a].new
                             /\ saving[a].step = "checked" /\ saving[a].row.active

CheckUpdate(a) ==
    LET request == saving[a]
        compared == ComparedWithOthers(request.row, request.fields)
    IN /\ request # Idle /\ request.step = "read"
       /\ request.row.active => ~Held(request.band)
       /\ saving' = [saving EXCEPT ![a] =
                        IF /\ ValidBounds(request.row)
                           /\ request.row.active => bands[request.band] # Idle
                           /\ compared => NoOverlap(request.row, {request.band})
                        THEN [request EXCEPT !.step = "checked"] ELSE Idle]
       /\ UNCHANGED bands

(* Only the fields that were named are written, to a row that still exists.*)
CommitBand(a) ==
    LET request == saving[a]
        row == bands[request.band]
    IN /\ request # Idle /\ request.step = "checked"
       /\ Held(request.band) => request.row.active
       /\ bands' = IF request.new THEN [bands EXCEPT ![request.band] = request.row]
                   ELSE IF row = Idle THEN bands
                   ELSE [bands EXCEPT ![request.band] =
                            [f \in DOMAIN row |-> IF f \in request.fields THEN request.row[f] ELSE row[f]]]
       /\ saving' = [saving EXCEPT ![a] = Idle]

DeleteDistanceBand(b) ==
    /\ bands[b] # Idle /\ ~Held(b)
    /\ bands' = [bands EXCEPT ![b] = Idle]
    /\ UNCHANGED saving

BandsNext ==
    \/ \E a \in Admins, b \in Bands :
            \/ \E row \in BandRows : CreateDistanceBand(a, b, row)
            \/ \E values \in BandValues : ReadForUpdate(a, b, values)
    \/ \E a \in Admins : CheckUpdate(a) \/ CommitBand(a)
    \/ \E b \in Bands : DeleteDistanceBand(b)

(* The fee at a distance: of the active bands that reach it the first by   *)
(* sort and then by its near end.  No fee, no delivery.                    *)
QuotedFees(distance) ==
    LET reached == {b \in ActiveBands : bands[b].min <= distance /\ distance <= bands[b].max}
        before(b, c) == \/ bands[b].sort < bands[c].sort
                        \/ bands[b].sort = bands[c].sort /\ bands[b].min < bands[c].min
    IN {bands[b].fee : b \in {r \in reached : \A c \in reached : ~before(c, r)}}

(* "Active distance bands must not overlap": whatever is created, moved,   *)
(* switched or deleted, no two of them reach the same distance other than  *)
(* at an end they share, so that the fee does not depend on their order.   *)
ActiveBandsDisjoint ==
    \A b, c \in ActiveBands : b # c => ~Overlap(bands[b], bands[c])

(* The bands a system may be started with.                                 *)
SoundBands ==
    /\ bands \in [Bands -> BandRow \cup {Idle}]
    /\ \A b \in Bands : bands[b] # Idle => ValidBounds(bands[b])
    /\ ActiveBandsDisjoint

BandsSpec == SoundBands /\ BandsInit(bands) /\ [][BandsNext]_bandVars

(* Nothing keeps two admins from changing bands at the same time; this says*)
(* that they do not.                                                       *)
OneBandRequest == \A a, other \in Admins : saving[a] # Idle /\ saving[other] # Idle => a = other
=============================================================================
