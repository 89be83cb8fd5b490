-------------------------- MODULE DiagnosticsView --------------------------
(***************************************************************************)
(* The terminal monitor of diagnostics. A thread that spins the node       *)
(* replaces the model with every message, under a mutex; the user          *)
(* interface takes a snapshot every half second and shows a list of it,    *)
(* filtered and folded, with the details of the row that is selected.      *)
(***************************************************************************)
EXTENDS Naturals, SequencesExt

CONSTANTS
    Report,  \* the messages: sequences of statuses
    MaxKeys  \* bound on the keys the user presses

Levels == {"OK", "WARN", "STALE", "ERROR"}

\* A name is split at its slashes; a status is its name and its level.
ASSUME ViewAssumption ==
    MaxKeys \in Nat /\ Report \subseteq Seq([path : Seq(STRING) \ {<<>>}, level : Levels])

VARIABLES
    latest,    \* the model: the last report
    snapshot,  \* m_snapshot of the screen
    folded,    \* m_collapsed
    filters,   \* the levels whose filter is checked
    rows,      \* m_visible_items
    selected,  \* m_selected, from 0
    details,   \* what the details show
    keys       \* history: the keys pressed

viewVars == <<latest, snapshot, folded, filters, rows, selected, details, keys>>

-----------------------------------------------------------------------------
(* model::update(): the tree of the names, each node at its worst level.   *)

Nodes(report) ==
    UNION {{SubSeq(report[i].path, 1, n) : n \in DOMAIN report[i].path} : i \in DOMAIN report}
Under(p, report) == {q \in Nodes(report) : IsPrefix(p, q)}
IsGroup(p, report) == \E q \in Nodes(report) : q # p /\ IsPrefix(p, q)

\* The last status of a name stands; a node that only carries others is OK by itself.
Own(p, report) ==
    LET said == {i \in DOMAIN report : report[i].path = p}
    IN  IF said = {} THEN "OK" ELSE report[Max(said)].level

Rank(level) == CASE level = "ERROR" -> 4 [] level = "STALE" -> 3 [] level = "WARN" -> 2 [] level = "OK" -> 1

LevelOf(p, report) ==
    CHOOSE l \in {Own(q, report) : q \in Under(p, report)} :
        \A q \in Under(p, report) : Rank(l) >= Rank(Own(q, report))

\* Children stand in the order in which the report names them first.
First(p, report) == Min({i \in DOMAIN report : IsPrefix(p, report[i].path)})
ChildAt(p, report, i) == SubSeq(report[i].path, 1, Len(p) + 1)
NamesChild(p, report, i) ==
    IsPrefix(p, report[i].path) /\ p # report[i].path /\ First(ChildAt(p, report, i), report) = i

\* rebuild_visible_items(): a group always has its row.
RowsOf(report, closed, accepted) ==
    LET rowsFrom[p \in Nodes(report) \cup {<<>>}] ==
            LET self == IF p # <<>> /\ (LevelOf(p, report) \in accepted \/ IsGroup(p, report)) THEN <<p>> ELSE <<>>
                below == [i \in DOMAIN report |-> IF NamesChild(p, report, i) THEN rowsFrom[ChildAt(p, report, i)]
                                                  ELSE <<>>]
            IN  self \o IF p \in closed THEN <<>> ELSE FlattenSeq(below)
    IN  rowsFrom[<<>>]

-----------------------------------------------------------------------------
(* The screen.                                                             *)

Nowhere == <<>>
Shown(at, list, report) == IF at < Len(list) THEN <<list[at + 1], LevelOf(list[at + 1], report)>> ELSE Nowhere

\* The selection is an index: it stays in range, whatever it now stands at.
Clamped(list) == IF selected < Len(list) THEN selected ELSE IF list = <<>> THEN 0 ELSE Len(list) - 1

\* rebuild_view()
Rebuild(report, closed, accepted) ==
    /\ rows' = RowsOf(report, closed, accepted)
    /\ selected' = Clamped(rows')
    /\ details' = Shown(selected', rows', report)

ViewInit ==
    /\ latest = <<>> /\ snapshot = <<>> /\ folded = {} /\ filters = Levels \ {"OK"}
    /\ rows = <<>> /\ selected = 0 /\ details = Nowhere /\ keys = 0

UpdateModel ==
    /\ latest' \in Report
    /\ UNCHANGED <<snapshot, folded, filters, rows, selected, details, keys>>

Refresh ==
    /\ snapshot' = latest
    /\ Rebuild(latest, folded, filters)
    /\ UNCHANGED <<latest, folded, filters, keys>>

Key == keys < MaxKeys /\ keys' = keys + 1

ToggleFilter ==
    /\ Key
    /\ \E l \in Levels : filters' = IF l \in filters THEN filters \ {l} ELSE filters \cup {l}
    /\ Rebuild(snapshot, folded, filters')
    /\ UNCHANGED <<latest, snapshot, folded>>

\* move_selection(), round the ends, or a press of a row's button.
Select ==
    /\ Key /\ rows # <<>>
    /\ selected' \in 0 .. Len(rows) - 1
    /\ details' = Shown(selected', rows, snapshot)
    /\ UNCHANGED <<latest, snapshot, folded, filters, rows>>

ToggleSelected ==
    /\ Key /\ selected < Len(rows) /\ IsGroup(rows[selected + 1], snapshot)
    /\ LET p == rows[selected + 1]
       IN  folded' = IF p \in folded THEN folded \ {p} ELSE folded \cup {p}
    /\ Rebuild(snapshot, folded', filters)
    /\ UNCHANGED <<latest, snapshot, filters>>

ViewNext == UpdateModel \/ Refresh \/ ToggleFilter \/ Select \/ ToggleSelected

ViewSpec == ViewInit /\ [][ViewNext]_viewVars

-----------------------------------------------------------------------------
(* Properties.                                                             *)

\* The details are those of the selected row, and some row is selected if there is any.
DetailsOfSelected ==
    /\ rows = <<>> => details = Nowhere
    /\ rows # <<>> => selected < Len(rows) /\ details[1] = rows[selected + 1]

\* No status that a checked filter asks for is missing, but below a folded group; and no
\* group looks better than what is below it, STALE being worse than WARN.
NothingHidden ==
    \A i \in DOMAIN snapshot :
        LET s == snapshot[i]
            stands == \A j \in DOMAIN snapshot : snapshot[j].path = s.path => j <= i
            above == {SubSeq(s.path, 1, n) : n \in 1 .. Len(s.path) - 1}
        IN  stands =>
                /\ s.level \in filters /\ above \cap folded = {} => s.path \in ToSet(rows)
                /\ \A p \in above : s.level = "ERROR" => LevelOf(p, snapshot) = "ERROR"
                /\ \A p \in above : s.level = "STALE" => LevelOf(p, snapshot) \in {"STALE", "ERROR"}
                /\ \A p \in above : s.level = "WARN" => LevelOf(p, snapshot) # "OK"

\* What the monitor shows of a snapshot (model::update, diagnostics_screen).
ViewSound == selected \in Nat /\ DetailsOfSelected /\ NothingHidden
=============================================================================
