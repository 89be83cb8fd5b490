---------------------------- MODULE VideoStream ----------------------------
(***************************************************************************)
(* The video page of the web front end: useMseStream() feeds a media       *)
(* source from a stream that does not end, and a watchdog tells a stream   *)
(* that stalls from one that plays. Every attempt is an effect of its own, *)
(* with a closure that callbacks of the browser enter long after the next  *)
(* attempt has begun.                                                      *)
(***************************************************************************)
EXTENDS Naturals

CONSTANT MaxAttempts \* bound on the effects started

ASSUME VideoAssumption == MaxAttempts \in Nat

Attempt == 1 .. MaxAttempts

VARIABLES
    mseStatus, \* what the page shows: "loading", "playing", "error"
    attempt,   \* the effect that is in force, 0 for none
    started,   \* history: effects there have been
    effects    \* what the closure of each holds

videoVars == <<mseStatus, attempt, started, effects>>

\* pump: where pump() waits, "none" before it is called. updating is the source buffer's.
New == [aborted |-> FALSE, pump |-> "none", watchdog |-> FALSE, reader |-> FALSE,
        cancelled |-> FALSE, updating |-> FALSE, appended |-> FALSE]

VideoInit ==
    /\ mseStatus = "loading" /\ attempt = 0 /\ started = 0
    /\ effects = [i \in Attempt |-> New]

\* The function the effect returns.
CleanedUp(e) ==
    [e EXCEPT !.aborted = TRUE, !.watchdog = FALSE, !.reader = FALSE,
              !.cancelled = e.pump # "none"]

Replaced == IF attempt = 0 THEN effects ELSE [effects EXCEPT ![attempt] = CleanedUp(@)]

\* A new effect, for another topic or another try.
StartEffect ==
    /\ started < MaxAttempts
    /\ started' = started + 1 /\ attempt' = started + 1
    /\ effects' = Replaced
    /\ mseStatus' = "loading"

ShowTopic == StartEffect
Retry == attempt # 0 /\ mseStatus = "error" /\ StartEffect

LeavePage ==
    /\ attempt # 0
    /\ attempt' = 0 /\ mseStatus' = "loading"
    /\ effects' = Replaced
    /\ UNCHANGED started

\* stopStreaming()
Stopped(e) == [e EXCEPT !.watchdog = FALSE, !.reader = FALSE, !.cancelled = e.pump # "none"]

\* fail(): only the effect in force may say so on the page.
Fails(i, e) ==
    /\ effects' = [effects EXCEPT ![i] = Stopped(e)]
    /\ mseStatus' = IF e.aborted THEN mseStatus ELSE "error"
    /\ UNCHANGED <<attempt, started>>

Becomes(i, e) == effects' = [effects EXCEPT ![i] = e] /\ UNCHANGED <<mseStatus, attempt, started>>

\* onSourceOpen() and the beginning of pump(). The listener goes with the effect.
SourceOpens(i) ==
    LET e == effects[i]
    IN  /\ i <= started /\ e.pump = "none" /\ ~e.aborted /\ mseStatus # "error"
        /\ \/ Becomes(i, [e EXCEPT !.pump = "fetching", !.watchdog = TRUE])
           \/ Fails(i, e)

\* The answer to fetch(); once aborted there is none but an error.
Fetched(i) ==
    LET e == effects[i]
    IN  /\ e.pump = "fetching"
        /\ \/ /\ ~e.cancelled
              /\ Becomes(i, [e EXCEPT !.pump = "reading", !.reader = TRUE, !.watchdog = TRUE])
           \/ Fails(i, [e EXCEPT !.pump = "over"])

\* appendBuffer() marks the buffer as updating, so that trimBuffer(), which is called next,
\* leaves it alone. A chunk that does not fit throws. A reader that fail() took throws too.
Appends(i, e) ==
    \/ /\ e.reader
       /\ effects' = [effects EXCEPT ![i] = [e EXCEPT !.pump = "reading", !.updating = TRUE,
                                                      !.appended = TRUE]]
       /\ mseStatus' = IF mseStatus = "error" THEN mseStatus ELSE "playing"
       /\ UNCHANGED <<attempt, started>>
    \/ Fails(i, [e EXCEPT !.pump = "over"])

\* A chunk comes: the watchdog starts again whether the buffer is ready or not.
Chunk(i) ==
    LET e == [effects[i] EXCEPT !.watchdog = TRUE]
    IN  /\ e.pump = "reading" /\ e.reader
        /\ IF e.updating THEN Becomes(i, [e EXCEPT !.pump = "updating"]) ELSE Appends(i, e)

\* The stream ends, breaks, or is cancelled under a pending read().
ReadEnds(i) ==
    LET e == effects[i]
    IN  /\ e.pump = "reading"
        /\ Fails(i, [e EXCEPT !.pump = "over"])

\* updateend; pump() may wait for it.
UpdateEnds(i) ==
    LET e == [effects[i] EXCEPT !.updating = FALSE]
    IN  /\ effects[i].updating
        /\ IF e.pump # "updating" THEN Becomes(i, e)
           ELSE IF e.aborted THEN Becomes(i, [e EXCEPT !.pump = "over"])
           ELSE Appends(i, e)

WatchdogFires(i) ==
    /\ effects[i].watchdog
    /\ IF effects[i].aborted THEN Becomes(i, [effects[i] EXCEPT !.watchdog = FALSE])
       ELSE Fails(i, effects[i])

VideoNext ==
    \/ ShowTopic \/ Retry \/ LeavePage
    \/ \E i \in Attempt : SourceOpens(i) \/ Fetched(i) \/ Chunk(i) \/ ReadEnds(i) \/ UpdateEnds(i)
                             \/ WatchdogFires(i)

\* The browser opens the source, and timers fire.
VideoFairness == WF_videoVars(\E i \in Attempt : SourceOpens(i) \/ WatchdogFires(i))

VideoSpec == VideoInit /\ [][VideoNext]_videoVars /\ VideoFairness

-----------------------------------------------------------------------------
(* Properties.                                                             *)

\* The page says what became of the attempt in force and of no other: an error only after
\* it was given up, playing only after it showed something (useMseStream).
StatusOfAttempt ==
    attempt # 0 =>
        /\ mseStatus = "error" => ~effects[attempt].watchdog
        /\ mseStatus = "playing" => effects[attempt].appended

\* As long as the page does not show an error, a stall would be noticed, also while a chunk
\* waits for the buffer (resetWatchdog).
Watched ==
    attempt # 0 /\ mseStatus # "error" /\ effects[attempt].pump # "none" =>
        effects[attempt].watchdog

\* No connection is left behind: of all effects only the one in force still holds a stream
\* (stopStreaming, the cleanup of the effect).
NoStreamLeft ==
    \A i \in 1 .. started :
        i # attempt =>
            /\ ~effects[i].reader
            /\ effects[i].pump \in {"none", "over"} \/ effects[i].cancelled

VideoSound == StatusOfAttempt /\ Watched /\ NoStreamLeft

\* The page does not go on loading.
VideoSettled == attempt = 0 \/ mseStatus # "loading"
=============================================================================
