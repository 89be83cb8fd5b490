---------------------------- MODULE SettingsForm ----------------------------
(***************************************************************************)
(* The settings page of the web front end: a resource that is fetched and  *)
(* fetched again, an edited copy of it, and a save that sends the whole    *)
(* copy and then fetches. The settings change on the server as well, by    *)
(* the terminal or by another page.                                        *)
(***************************************************************************)
EXTENDS Naturals

CONSTANTS
    Field,     \* the leaves of the settings tree
    Value,     \* what a leaf may hold
    DefaultOf, \* [Field -> Value], what a reset puts there
    MaxTyped,  \* bound on the changes of the user
    MaxPuts    \* bound on the saves and the changes of others

ASSUME FormAssumption == DefaultOf \in [Field -> Value]

VARIABLES
    values,    \* the settings on the server
    data,      \* the resource: the tree that was fetched last
    failed,    \* its error, which no later success takes away
    fetch,     \* the fetch that is not cancelled
    copy,      \* edited, the copy that is shown
    touched,   \* editedSinceAdoption
    put,       \* the save under way
    typed, puts, \* history: changes of the user; saves and changes of others
    wishes,    \* history: what the user set and no save has brought to the server
    events     \* history: which of Events have happened

\* Others changed the settings; all was reset before anything was fetched; a save was begun
\* while the fetch of the one before was under way.
Events == {"others", "early", "overlap"}

formVars == <<values, data, failed, fetch, copy, touched, put, typed, puts, wishes, events>>
resourceVars == <<data, failed, fetch>>
formHistory == <<typed, puts, wishes, events>>

NoTree == [f \in {} |-> 0]
Quiet == [phase |-> "quiet"]
Asked == [phase |-> "asked"]

FormInit ==
    /\ values \in [Field -> Value]
    /\ data = NoTree /\ failed = FALSE /\ fetch = Asked
    /\ copy = NoTree /\ touched = FALSE /\ put = Quiet
    /\ typed = 0 /\ puts = 0 /\ wishes = NoTree /\ events = {}

-----------------------------------------------------------------------------
(* useAsyncResource, and the adoption of what it brings.                   *)

ServeSchema ==
    /\ fetch.phase = "asked"
    /\ fetch' = [phase |-> "answered", root |-> values]
    /\ UNCHANGED <<values, data, failed, copy, touched, put, formHistory>>

\* The render that follows takes the answer over, but keeps what was edited since the last.
Adopted(root) == IF touched THEN copy ELSE root

SchemaArrives ==
    /\ fetch.phase = "answered"
    /\ fetch' = Quiet /\ data' = fetch.root
    /\ copy' = Adopted(fetch.root) /\ touched' = FALSE
    /\ UNCHANGED <<values, failed, put, formHistory>>

FetchFails ==
    /\ fetch.phase = "asked"
    /\ fetch' = Quiet /\ failed' = TRUE
    /\ UNCHANGED <<values, data, copy, touched, put, formHistory>>

\* The button of the error, shown in place of the form. A fetch cancels the one before.
RetryFetch ==
    /\ failed /\ fetch = Quiet
    /\ fetch' = Asked
    /\ UNCHANGED <<values, data, failed, copy, touched, put, formHistory>>

-----------------------------------------------------------------------------
(* useSettingsConfig                                                       *)

FormShown == ~failed /\ copy # NoTree

Typing == typed < MaxTyped /\ typed' = typed + 1

Wish(fs, root) == wishes' = [f \in DOMAIN wishes \cup fs |-> IF f \in fs THEN root[f] ELSE wishes[f]]

SetValue ==
    /\ FormShown /\ Typing
    /\ \E f \in Field, v \in Value :
           /\ copy' = [copy EXCEPT ![f] = v]
           /\ Wish({f}, copy')
    /\ touched' = TRUE
    /\ UNCHANGED <<values, resourceVars, put, puts, events>>

ResetField ==
    /\ FormShown /\ Typing
    /\ \E f \in Field : copy' = [copy EXCEPT ![f] = DefaultOf[f]] /\ Wish({f}, copy')
    /\ touched' = TRUE
    /\ UNCHANGED <<values, resourceVars, put, puts, events>>

\* The button is in the header, form or no form.
ResetAll ==
    /\ Typing
    /\ IF copy = NoTree THEN events' = events \cup {"early"} /\ UNCHANGED <<copy, wishes>>
       ELSE copy' = DefaultOf /\ Wish(Field, DefaultOf) /\ UNCHANGED events
    /\ touched' = TRUE
    /\ UNCHANGED <<values, resourceVars, put, puts>>

Saving == put # Quiet
FormDirty == data # NoTree /\ copy # NoTree /\ copy # data

Save ==
    /\ FormDirty /\ ~Saving
    /\ puts < MaxPuts /\ puts' = puts + 1
    /\ put' = [phase |-> "asked", root |-> copy]
    /\ events' = IF fetch = Quiet THEN events ELSE events \cup {"overlap"}
    /\ UNCHANGED <<values, resourceVars, copy, touched, typed, wishes>>

\* The settings plugin may refuse, and its answer may be lost.
ServePut ==
    /\ put.phase = "asked"
    /\ values' = put.root
    /\ \E end \in {"ok", "failed"} : put' = [put EXCEPT !.phase = end]
    /\ UNCHANGED <<resourceVars, copy, touched, formHistory>>

RefusePut ==
    /\ put.phase = "asked"
    /\ put' = [put EXCEPT !.phase = "failed"]
    /\ UNCHANGED <<values, resourceVars, copy, touched, formHistory>>

\* reload() does not wait: the save is over while the fetch is under way.
SaveSucceeds ==
    /\ put.phase = "ok"
    /\ put' = Quiet /\ fetch' = Asked
    /\ wishes' = LET open == {f \in DOMAIN wishes : wishes[f] # put.root[f]} IN [f \in open |-> wishes[f]]
    /\ UNCHANGED <<values, data, failed, copy, touched, typed, puts, events>>

SaveFails ==
    /\ put.phase = "failed"
    /\ put' = Quiet
    /\ UNCHANGED <<values, resourceVars, copy, touched, formHistory>>

OthersSave ==
    /\ puts < MaxPuts /\ puts' = puts + 1
    /\ values' \in [Field -> Value] \ {values}
    /\ events' = events \cup {"others"}
    /\ UNCHANGED <<resourceVars, copy, touched, put, typed, wishes>>

-----------------------------------------------------------------------------

FormNext ==
    \/ ServeSchema \/ SchemaArrives \/ FetchFails \/ RetryFetch \/ SetValue \/ ResetField \/ ResetAll
    \/ Save \/ ServePut \/ RefusePut \/ SaveSucceeds \/ SaveFails \/ OthersSave

FormSpec == FormInit /\ [][FormNext]_formVars

-----------------------------------------------------------------------------
(* Properties.                                                             *)

\* What the user set stays in the form until a save has brought it to the server, saves
\* and fetches under way included; but for a save begun before the fetch of the last one
\* is over, whose answer makes the page forget that it was edited (useSettingsConfig).
EditsKept == FormShown /\ "overlap" \notin events => \A f \in DOMAIN wishes : copy[f] = wishes[f]

\* With nothing left to save or under way, the form shows what the server has, unless
\* others changed it or something else overlapped.
RestShowsServer ==
    FormShown /\ wishes = NoTree /\ ~Saving /\ fetch = Quiet /\ events = {} => copy = values

\* There is a form once the settings are there, unless all was reset before that: what is
\* not there is then kept as edited.
FormThere == data # NoTree => copy # NoTree \/ "early" \in events

FormSound == EditsKept /\ RestShowsServer /\ FormThere
=============================================================================
