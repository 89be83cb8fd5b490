----------------------------- MODULE MapService -----------------------------
(***************************************************************************)
(* The marker map of clover2_map: the server that owns it and its file,    *)
(* the clients that keep a copy, and the HTTP plugin that edits it.        *)
(*                                                                         *)
(* The server keeps one map in memory.  An edit changes it, saves the      *)
(* file, and takes the change back if anything throws; the "map" parameter *)
(* replaces provider, file and map.  Every edit is announced on a latched  *)
(* topic; a client that takes the announcement asks for the map again, if  *)
(* it can see the service.  The server may die at any point, also while it *)
(* writes its file, and is respawned on the file it was launched with.     *)
(*                                                                         *)
(* A marker is an id and a kind, which says what a file makes of it. A map *)
(* is the set of its markers: nothing depends on their order in the        *)
(* vector. Numbers of a marker, such as its pose, are left out.            *)
(***************************************************************************)
EXTENDS Naturals, Sequences

CONSTANTS
    Client,       \* instances of map::client
    Refreshing,   \* those that ask again while they have no map
    EditRequest,  \* edits asked over HTTP
    File, TextFile, \* map files, and those of them in the text format
    Launch,       \* the file the server is launched with
    Id, Kind,     \* marker ids, and the kinds of MarkerKinds that occur
    BrokenFile,   \* what a file holds that does not parse
    MaxVersion,   \* bound on how often the map served may change
    MaxCalls      \* bound on get_map calls of a client under way

\* "fixed" markers have a pose, "framed" ones a name for their frame besides, and "other"
\* ones neither. The rest pass the service but not every file: a "sizeless" one is fixed with
\* a size below zero, an "unknown" one is of a type beyond the three, and a "huge" one is
\* fixed with an id that is negative as an int.
MarkerKinds == {"fixed", "framed", "other", "sizeless", "unknown", "huge"}
Markers == [id: Id, kind: Kind]

ASSUME MapAssumption ==
    /\ Refreshing \subseteq Client
    /\ TextFile \subseteq File
    /\ Launch \in File
    /\ {"fixed", "other"} \subseteq Kind /\ Kind \subseteq MarkerKinds
    /\ MaxVersion \in Nat /\ MaxCalls \in Nat \ {0}
    /\ \A map \in SUBSET Markers : map # BrokenFile

VARIABLES
    disk,        \* what each file holds
    up,          \* the server runs
    file,        \* the file of its provider
    memory,      \* the provider's map
    adopted,     \* history: that file was taken by a parameter that was then
                 \* rejected, and has not been saved since
    version,     \* history: changes of the map served so far
    announced,   \* history: the version at the last map_update
    torn,        \* history: files that somebody else, a death while writing or a
                 \* full disk left cut short, and nobody loaded or saved since
    matched,     \* clients whose subscription sees the server's topic
    ready,       \* clients that see the server's services
    update,      \* clients with a map_update to take
    calls,       \* get_map calls of each client before the server
    answers,     \* their answers before the client, each a version
    cache,       \* the version of each client's copy; 0 is "not valid"
    mapCalls,    \* modify_map calls before the server
    result,      \* their results before the plugin
    web,         \* what each HTTP request was told
    applied      \* history: the edits that were made and written

serverVars == <<up, file, memory, adopted, version, announced>>
fileVars == <<disk, torn>>
clientVars == <<matched, ready, update, calls, answers, cache>>
webVars == <<mapCalls, result, web, applied>>
mapVars == <<disk, up, file, memory, adopted, version, announced, torn, matched, ready,
          update, calls, answers, cache, mapCalls, result, web, applied>>

-----------------------------------------------------------------------------
Operations == {"add", "edit", "delete"}
MapEdits == [request: EditRequest, op: Operations, marker: Markers]

\* What the plugin asks of the server: from_info() refuses what has no size, type or id, and
\* handle_delete() leaves the kind at its default.
Askable ==
    {e \in MapEdits : e.marker.kind \in IF e.op = "delete" THEN {"fixed"}
                                      ELSE {"fixed", "framed", "other"}}

Ids(map) == {m.id : m \in map}

\* The markers a file of f's format has that make load() throw.
Unreadable(f) == IF f \in TextFile THEN {"huge"} ELSE {"sizeless", "unknown"}

Loads(f, content) ==
    /\ content # BrokenFile
    /\ \A m \in content : m.kind \notin Unreadable(f)
    /\ \A m, n \in content : m.id = n.id => m = n

\* What reads back of what save() writes: the text format has no place for a marker without
\* a pose, nor for the name of a frame.
InText(m) == IF m.kind = "framed" THEN [m EXCEPT !.kind = "fixed"] ELSE m
Saved(f, map) ==
    IF f \in TextFile THEN {InText(m) : m \in {n \in map : n.kind \notin {"other", "unknown"}}}
    ELSE map

\* What reads back of a file that was truncated and not written to its end: of lines, those
\* that are there; of yaml, nothing, or the markers before the cut and what it left of one.
CutShort(f, map) ==
    IF f \in TextFile THEN SUBSET Saved(f, map)
    ELSE {BrokenFile}
         \cup {kept \cup last : kept \in SUBSET map,
                               last \in {{}} \cup {{[id |-> i, kind |-> "fixed"]} : i \in Id}}

\* modify_map_callback(): add wants a new id, edit and delete one that is there.
FitsMap(map, e) == (e.op = "add") <=> (e.marker.id \notin Ids(map))

Edited(map, e) ==
    CASE e.op = "add"    -> map \cup {e.marker}
      [] e.op = "edit"   -> {IF m.id = e.marker.id THEN e.marker ELSE m : m \in map}
      [] e.op = "delete" -> {m \in map : m.id # e.marker.id}

MapTypeOK ==
    /\ disk \in [File -> {BrokenFile} \cup SUBSET Markers]
    /\ up \in BOOLEAN
    /\ file \in File
    /\ memory \subseteq Markers
    /\ adopted \in BOOLEAN
    /\ version \in 0 .. MaxVersion /\ announced \in 0 .. version
    /\ torn \subseteq File
    /\ matched \subseteq Client /\ ready \subseteq Client /\ update \subseteq Client
    /\ calls \in [Client -> 0 .. MaxCalls]
    /\ answers \in [Client -> Seq(1 .. MaxVersion)]
    /\ cache \in [Client -> 0 .. MaxVersion]
    /\ mapCalls \in Seq(MapEdits)
    /\ result \in [EditRequest -> {"none", "ok", "failed"}]
    /\ web \in [EditRequest -> {"new", "waiting", "ok", "failed", "timeout"}]
    /\ applied \subseteq EditRequest

MapInit ==
    /\ disk \in [File -> {BrokenFile} \cup {{m} : m \in [id: Id, kind: {"fixed"}]}]
    /\ up = FALSE
    /\ file = Launch
    /\ memory = {}
    /\ adopted = FALSE
    /\ version = 0 /\ announced = 0
    /\ torn = {f \in File : disk[f] = BrokenFile}
    /\ matched = {} /\ ready = {} /\ update = {}
    /\ calls = [c \in Client |-> 0]
    /\ answers = [c \in Client |-> <<>>]
    /\ cache = [c \in Client |-> 0]
    /\ mapCalls = <<>>
    /\ result = [r \in EditRequest |-> "none"]
    /\ web = [r \in EditRequest |-> "new"]
    /\ applied = {}

-----------------------------------------------------------------------------
(* The server.                                                             *)

\* update_map(): every matched subscription gets the announcement.
Announce ==
    /\ announced' = version'
    /\ update' = update \cup matched

\* Launched or respawned: the constructor loads the file, or throws.
StartMap ==
    /\ ~up /\ Loads(Launch, disk[Launch])
    /\ version < MaxVersion
    /\ up' = TRUE
    /\ file' = Launch
    /\ memory' = disk[Launch]
    /\ adopted' = FALSE /\ torn' = torn \ {Launch}
    /\ version' = version + 1
    /\ Announce
    /\ UNCHANGED <<disk, matched, ready, calls, answers, cache, webVars>>

\* Whatever was before the server is lost, and nobody sees it any more.
Gone ==
    /\ up' = FALSE
    /\ mapCalls' = <<>>
    /\ calls' = [c \in Client |-> 0]
    /\ matched' = {} /\ ready' = {}
    /\ UNCHANGED <<file, memory, adopted, version, announced, update, answers, cache,
                   result, web>>

Dies == up /\ Gone /\ UNCHANGED <<fileVars, applied>>

\* The file is written whole, or only its beginning.
WriteFile(map) ==
    /\ disk' = [disk EXCEPT ![file] = Saved(file, map)]
    /\ torn' = torn \ {file}

WriteSomeOfFile(map) ==
    /\ \E rest \in CutShort(file, map) : disk' = [disk EXCEPT ![file] = rest]
    /\ torn' = torn \cup {file}

\* It dies in modify_map_callback(), while it writes the file or before the
\* answer is sent.
DiesSaving ==
    /\ up /\ mapCalls # <<>> /\ FitsMap(memory, Head(mapCalls))
    /\ \/ WriteSomeOfFile(Edited(memory, Head(mapCalls))) /\ UNCHANGED applied
       \/ /\ WriteFile(Edited(memory, Head(mapCalls)))
          /\ applied' = applied \cup {Head(mapCalls).request}
    /\ Gone

\* Somebody mends a file the server cannot load.
Mended(f) ==
    /\ ~up /\ ~Loads(f, disk[f])
    /\ disk' = [disk EXCEPT ![f] = {}]
    /\ torn' = torn \ {f}
    /\ UNCHANGED <<serverVars, clientVars, webVars>>

\* modify_map_callback(): done, saved and announced. The stream is not asked after the
\* file was opened, so that a full disk is not noticed.
Modify(e) ==
    /\ up /\ FitsMap(memory, e)
    /\ version < MaxVersion
    /\ memory' = Edited(memory, e)
    /\ WriteFile(memory') \/ WriteSomeOfFile(memory')
    /\ adopted' = FALSE
    /\ version' = version + 1
    /\ Announce
    /\ UNCHANGED <<up, file, matched, ready, calls, answers, cache, web>>

ModifyServed ==
    /\ mapCalls # <<>> /\ Modify(Head(mapCalls))
    /\ result' = [result EXCEPT ![Head(mapCalls).request] = "ok"]
    /\ applied' = applied \cup {Head(mapCalls).request}
    /\ mapCalls' = Tail(mapCalls)

\* A call of another client of the service, which no plugin looked through.
ModifyForOther ==
    /\ \E e \in MapEdits : Modify(e)
    /\ UNCHANGED <<mapCalls, result, applied>>

\* The id is wrong, or the file cannot be opened for writing: save() throws and
\* the copy made before is put back.
ModifyRefused ==
    /\ up /\ mapCalls # <<>>
    /\ result' = [result EXCEPT ![Head(mapCalls).request] = "failed"]
    /\ mapCalls' = Tail(mapCalls)
    /\ UNCHANGED <<fileVars, serverVars, clientVars, web, applied>>

\* The "map" parameter: the map of another file is served.  Nobody is told.
SetMap(f) ==
    /\ up /\ Loads(f, disk[f])
    /\ version < MaxVersion
    /\ file' = f
    /\ memory' = disk[f]
    /\ adopted' = FALSE /\ torn' = torn \ {f}
    /\ version' = version + 1
    /\ UNCHANGED <<disk, up, announced, clientVars, webVars>>

\* The parameter is rejected because load() throws; by then the provider is the
\* new one, with the markers read so far.
SetMapRejected(f) ==
    /\ up /\ ~Loads(f, disk[f])
    /\ version < MaxVersion
    /\ file' = f
    /\ memory' \in {{}} \cup {{m} : m \in {n \in Markers : n.kind \notin Unreadable(f)}}
    /\ adopted' = TRUE
    /\ version' = version + 1
    /\ UNCHANGED <<fileVars, up, announced, clientVars, webVars>>

\* map_callback()
ServeMap(c) ==
    /\ up /\ calls[c] > 0
    /\ calls' = [calls EXCEPT ![c] = @ - 1]
    /\ answers' = [answers EXCEPT ![c] = Append(@, version)]
    /\ UNCHANGED <<fileVars, serverVars, matched, ready, update, cache, webVars>>

-----------------------------------------------------------------------------
(* A client.                                                               *)

\* The subscription finds the latched topic and gets its last message.
Match(c) ==
    /\ up /\ c \notin matched
    /\ matched' = matched \cup {c}
    /\ update' = update \cup {c}
    /\ UNCHANGED <<fileVars, serverVars, ready, calls, answers, cache, webVars>>

\* The services are found, earlier or later than the topic.
Discover(c) ==
    /\ up /\ c \notin ready
    /\ ready' = ready \cup {c}
    /\ UNCHANGED <<fileVars, serverVars, matched, update, calls, answers, cache, webVars>>

\* update_map() of the client: without the service nothing is asked.
AskMap(c) ==
    /\ calls[c] + Len(answers[c]) < MaxCalls
    /\ calls' = IF c \in ready THEN [calls EXCEPT ![c] = @ + 1] ELSE calls

\* map_update_callback()
TakeUpdate(c) ==
    /\ c \in update
    /\ update' = update \ {c}
    /\ AskMap(c)
    /\ UNCHANGED <<fileVars, serverVars, matched, ready, answers, cache, webVars>>

\* Fault: the plugin stops asking when the topic is found.
RefreshUnmatched(c) ==
    /\ c \in Refreshing \ matched /\ cache[c] = 0
    /\ AskMap(c)
    /\ UNCHANGED <<fileVars, serverVars, matched, ready, update, answers, cache, webVars>>

\* The plugin's timer.
AskAgain(c) ==
    /\ c \in Refreshing /\ cache[c] = 0
    /\ AskMap(c)
    /\ UNCHANGED <<fileVars, serverVars, matched, ready, update, answers, cache, webVars>>

\* update_cached_map()
TakeMap(c) ==
    /\ answers[c] # <<>>
    /\ cache' = [cache EXCEPT ![c] = Head(answers[c])]
    /\ answers' = [answers EXCEPT ![c] = Tail(@)]
    /\ UNCHANGED <<fileVars, serverVars, matched, ready, update, calls, webVars>>

-----------------------------------------------------------------------------
(* The HTTP plugin.                                                        *)

\* handle_add(), handle_edit(), handle_delete(): failed at once, by from_info() or
\* because the service is not there, or sent.
Ask(r) ==
    /\ web[r] = "new"
    /\ \/ web' = [web EXCEPT ![r] = "failed"] /\ UNCHANGED mapCalls
       \/ /\ Refreshing \cap ready # {}
          /\ web' = [web EXCEPT ![r] = "waiting"]
          /\ \E e \in Askable : e.request = r /\ mapCalls' = Append(mapCalls, e)
    /\ UNCHANGED <<fileVars, serverVars, clientVars, result, applied>>

\* Fault: a late result replaces the time-out.
AnswerAgain(r) ==
    /\ result[r] # "none"
    /\ web' = [web EXCEPT ![r] = result[r]]
    /\ result' = [result EXCEPT ![r] = "none"]
    /\ UNCHANGED <<fileVars, serverVars, clientVars, mapCalls, applied>>

\* The result is told unless the request was answered before (send_raw()).
Answer(r) ==
    /\ result[r] # "none"
    /\ web' = [web EXCEPT ![r] = IF @ = "waiting" THEN result[r] ELSE @]
    /\ result' = [result EXCEPT ![r] = "none"]
    /\ UNCHANGED <<fileVars, serverVars, clientVars, mapCalls, applied>>

\* Five seconds have passed.
TimesOut(r) ==
    /\ web[r] = "waiting"
    /\ web' = [web EXCEPT ![r] = "timeout"]
    /\ UNCHANGED <<fileVars, serverVars, clientVars, mapCalls, result, applied>>

-----------------------------------------------------------------------------
MapNext ==
    \/ StartMap \/ Dies \/ DiesSaving
    \/ ModifyServed \/ ModifyRefused \/ ModifyForOther
    \/ \E f \in File : Mended(f) \/ SetMap(f) \/ SetMapRejected(f)
    \/ \E c \in Client : \/ ServeMap(c) \/ Match(c) \/ Discover(c)
                         \/ TakeUpdate(c) \/ AskAgain(c) \/ TakeMap(c)
    \/ \E r \in EditRequest : Ask(r) \/ Answer(r) \/ TimesOut(r)

MapSpec == MapInit /\ [][MapNext]_mapVars

\* The executors run what is before them, topics are matched and services
\* found while the server lives, and timers fire.
MapFairness ==
    /\ \A c \in Client : /\ WF_mapVars(ServeMap(c)) /\ WF_mapVars(TakeMap(c))
                         /\ WF_mapVars(TakeUpdate(c)) /\ WF_mapVars(AskAgain(c))
                         /\ WF_mapVars(Match(c)) /\ WF_mapVars(Discover(c))
    /\ \A r \in EditRequest : WF_mapVars(Answer(r)) /\ WF_mapVars(TimesOut(r))

MapFairSpec == MapSpec /\ MapFairness

-----------------------------------------------------------------------------
(* Properties.                                                             *)

\* The server never serves a map its file does not hold, up to what a text file has no place
\* for: not after an edit that failed half-way, a respawn or a parameter that was accepted
\* (modify_map_callback, the "map" callback). A save that was cut short is excepted: the
\* server does not notice.
MemoryIsFile == up /\ ~adopted /\ file \notin torn => disk[file] = Saved(file, memory)

\* No edit makes a file the server could not be respawned on: only one that is not written to
\* its end does, or a marker that passes the service but not the format, which the HTTP
\* plugin never asks for (modify_map_callback's check of ids, from_info).
EditsKeepFilesLoadable ==
    \A f \in File \ torn :
        Loads(f, disk[f]) \/ \E m \in disk[f] : m.kind \in Unreadable(f)

\* What an HTTP client is told of an edit is what became of it, whatever died, timed out or
\* came late: "ok" only of one that was made and written, "failed" only of one that was not;
\* a time-out leaves it open.
AnswersTrue ==
    \A r \in EditRequest :
        /\ web[r] = "ok" => r \in applied
        /\ web[r] = "failed" => r \notin applied

\* A request is answered once: a late result does not replace a time-out.
AnsweredOnce ==
    [][\A r \in EditRequest : web[r] \notin {"new", "waiting"} => web'[r] = web[r]]_mapVars

\* A client that has an announcement to take, and sees the service from then on, ends up
\* with a map at least as new as any announced. One that takes it before it sees the
\* service of a respawned server keeps its old map: nothing asks again.
UpdateReachesClient ==
    \A c \in Client : c \in update /\ [](c \in ready) ~> cache[c] >= announced

\* The plugin gets a map in the end, although the first announcement may find
\* the service missing (the refresh timer).
RefreshingGetsMap ==
    \A c \in Refreshing : <>[](c \in ready) => []<>(cache[c] > 0)

\* Server, file and HTTP clients agree, whatever fails, dies, times out or comes late.
MapSound ==
    /\ []MapTypeOK /\ []MemoryIsFile /\ []EditsKeepFilesLoadable /\ []AnswersTrue
    /\ AnsweredOnce

\* The clients of the map get it, and the newer one after an edit.
ClientsGetMap == UpdateReachesClient /\ RefreshingGetsMap
=============================================================================
