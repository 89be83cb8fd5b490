------------------------------ MODULE WsSession ------------------------------
(***************************************************************************)
(* One websocket of clover2_http: the session (base_ws_session.cpp) and    *)
(* the topic stream that uses it (ros_support.cpp). Everything that        *)
(* touches the session runs on its strand, a queue of handlers; ROS        *)
(* callbacks and other threads post to it, and operations on the socket    *)
(* put their completion there. A completion already queued is not taken    *)
(* back by a cancel.                                                       *)
(***************************************************************************)
EXTENDS Integers, Sequences

CONSTANTS
    MaxMessages,  \* bound on messages handed to write_text
    IdleTimeout   \* websocket_timeout, in steps of time

ASSUME SessionAssumption ==
    /\ MaxMessages \in Nat \ {0}
    /\ IdleTimeout \in Nat \ {0}

VARIABLES
    stage,       \* what the connection handler made of the session
    strand,      \* handlers queued on m_strand
    closed,      \* m_closed
    queue,       \* m_write_queue
    writing,     \* m_writing
    timer,       \* time left of m_timer, 0 when no wait is pending
    open,        \* m_ws.is_open()
    wire,        \* async_write operations under way
    reads,       \* number of async_read operations under way
    closing,     \* async_close is under way
    subscribed,  \* the topic subscription of the stream exists
    posted,      \* messages handed to write_text so far
    delivered,   \* messages written to the socket
    notified,    \* runs of the close handler
    raced,       \* a write's completion stood on the strand when the session closed
    undefined,   \* pop_front() of an empty queue has run
    peer         \* the client: up, mute (connected but silent) or gone

socket == <<open, wire, reads, closing, delivered>>
user == <<stage, subscribed, posted, notified>>
wsVars == <<stage, strand, closed, queue, writing, timer, open, wire, reads, closing,
          subscribed, posted, delivered, notified, raced, undefined, peer>>

Message == 1 .. MaxMessages
Kinds == {"close", "read", "read_failed", "written", "write_failed", "expired", "closed"}
Handler == [kind : Kinds] \cup [kind : {"write"}, msg : Message]

WsTypeOK ==
    /\ stage \in {"accepting", "refused", "turned_away", "streaming"}
    /\ strand \in Seq(Handler)
    /\ closed \in BOOLEAN
    /\ queue \in Seq(Message)
    /\ writing \in BOOLEAN
    /\ timer \in 0 .. IdleTimeout
    /\ open \in BOOLEAN
    /\ wire \in Seq(Message)
    /\ reads \in Nat
    /\ closing \in BOOLEAN
    /\ subscribed \in BOOLEAN
    /\ posted \in 0 .. MaxMessages
    /\ delivered \in Seq(Message)
    /\ notified \in Nat
    /\ raced \in BOOLEAN
    /\ undefined \in BOOLEAN
    /\ peer \in {"up", "mute", "gone"}

WsInit ==
    /\ stage = "accepting"
    /\ strand = <<>>
    /\ closed = FALSE
    /\ queue = <<>>
    /\ writing = FALSE
    /\ timer = 0
    /\ open = FALSE
    /\ wire = <<>>
    /\ reads = 0
    /\ closing = FALSE
    /\ subscribed = FALSE
    /\ posted = 0
    /\ delivered = <<>>
    /\ notified = 0
    /\ raced = FALSE
    /\ undefined = FALSE
    /\ peer = "up"

-----------------------------------------------------------------------------
(* Closing and reading, as the handlers on the strand do them. "rest" is   *)
(* what the strand still holds.                                            *)

Abort(op, pending) == IF pending THEN <<[kind |-> op]>> ELSE <<>>

\* A completed write waits for its turn: nothing takes it back.
WriteCompleted(rest) == \E i \in DOMAIN rest : rest[i].kind = "written"

\* prepare_close(): the first call drops what is queued, cancels the timer and the
\* operations of the socket, and starts the close handshake.
PrepareClose(rest) ==
    IF closed
    THEN /\ strand' = rest
         /\ UNCHANGED <<closed, queue, writing, timer, open, wire, reads, closing, raced>>
    ELSE /\ closed' = TRUE
         /\ queue' = <<>>
         /\ writing' = FALSE
         /\ timer' = 0
         /\ open' = FALSE
         /\ wire' = <<>>
         /\ reads' = 0
         /\ strand' = rest \o Abort("read_failed", reads > 0)
                           \o Abort("write_failed", wire # <<>>)
         /\ closing' = TRUE
         /\ raced' = WriteCompleted(rest)

\* do_read(), and reset_timer() in it.
Read ==
    /\ reads' = reads + 1
    /\ timer' = IdleTimeout

StrandHas(kind) == ~undefined /\ strand # <<>> /\ Head(strand).kind = kind

-----------------------------------------------------------------------------
(* The connection handler (handle_topic_json_stream), on the strand.       *)

\* The topic is known: subscription, close handler, start_reading().
OpenStream ==
    /\ stage = "accepting"
    /\ stage' = "streaming"
    /\ open' = TRUE
    /\ subscribed' = TRUE
    /\ Read
    /\ UNCHANGED <<strand, closed, queue, writing, wire, closing, posted, delivered, notified,
                   raced, undefined, peer>>

\* The topic is unknown: the error frame is posted, and close() runs at once,
\* since it is dispatched from the strand itself.
TurnAway ==
    /\ stage = "accepting"
    /\ stage' = "turned_away"
    /\ posted' = posted + 1
    /\ PrepareClose(Append(strand, [kind |-> "write", msg |-> posted + 1]))
    /\ UNCHANGED <<subscribed, delivered, notified, undefined, peer>>

\* async_accept fails.
Refuse ==
    /\ stage = "accepting"
    /\ stage' = "refused"
    /\ UNCHANGED <<strand, closed, queue, writing, timer, socket, subscribed, posted, notified,
                   raced, undefined, peer>>

-----------------------------------------------------------------------------
(* Other threads.                                                          *)

\* The subscription's callback, on the ROS executor: write_text() posts. (A
\* message over the rate limit is dropped before.)
TopicMessage ==
    /\ subscribed
    /\ ~undefined
    /\ posted < MaxMessages
    /\ posted' = posted + 1
    /\ strand' = Append(strand, [kind |-> "write", msg |-> posted + 1])
    /\ UNCHANGED <<closed, queue, writing, timer, socket, stage, subscribed, notified,
                   raced, undefined, peer>>

\* close() from another thread; one call waits at a time.
CloseCall ==
    /\ stage = "streaming"
    /\ ~closed
    /\ \A i \in DOMAIN strand : strand[i].kind # "close"
    /\ strand' = Append(strand, [kind |-> "close"])
    /\ UNCHANGED <<closed, queue, writing, timer, socket, user, raced, undefined, peer>>

-----------------------------------------------------------------------------
(* Handlers on the strand.                                                 *)

\* do_write(), unless a write is under way.
StartWrite(queued) ==
    IF writing
    THEN UNCHANGED <<writing, wire>>
    ELSE writing' = TRUE /\ wire' = Append(wire, Head(queued))

\* write_raw(), on the strand.
RunWrite ==
    /\ StrandHas("write")
    /\ strand' = Tail(strand)
    /\ IF closed \/ ~open
       THEN UNCHANGED <<queue, writing, timer, wire>>
       ELSE /\ timer' = IdleTimeout
            /\ queue' = Append(queue, Head(strand).msg)
            /\ StartWrite(Append(queue, Head(strand).msg))
    /\ UNCHANGED <<closed, open, reads, closing, delivered, user, raced, undefined, peer>>

\* Fault: the next message is written before the last one is removed.
NextWriteEarly(queued) ==
    /\ queue' = Tail(queued)
    /\ wire' = IF Tail(queued) = <<>> THEN wire ELSE Append(wire, Head(queued))
    /\ writing' = (Tail(queued) # <<>>)

\* What follows a write: its message leaves the queue, and the next one starts.
NextWrite(queued) ==
    /\ queue' = Tail(queued)
    /\ wire' = IF Tail(queued) = <<>> THEN wire ELSE Append(wire, queued[2])
    /\ writing' = (Tail(queued) # <<>>)

\* Completion of async_write without an error. When a close has emptied the queue
\* since, pop_front() is undefined and nothing more is known of the process.
RunWritten ==
    /\ StrandHas("written")
    /\ strand' = Tail(strand)
    /\ IF queue = <<>>
       THEN undefined' = TRUE /\ UNCHANGED <<queue, wire, writing>>
       ELSE undefined' = FALSE /\ NextWrite(queue)
    /\ UNCHANGED <<closed, timer, open, reads, closing, delivered, user, raced, peer>>

\* Completion of async_write with an error.
RunWriteFailed ==
    /\ StrandHas("write_failed")
    /\ PrepareClose(Tail(strand))
    /\ UNCHANGED <<delivered, user, undefined, peer>>

\* Fault: reading stops after a frame nobody handles.
FrameIgnoredForGood ==
    /\ strand' = Tail(strand)
    /\ UNCHANGED <<reads, timer, closed, queue, writing, open, wire, closing, raced>>

\* on_read() of a frame nobody handles, or whose handler returns.
FrameTaken ==
    /\ strand' = Tail(strand)
    /\ Read
    /\ UNCHANGED <<closed, queue, writing, open, wire, closing, raced>>

\* Its handler throws.
FrameThrows == PrepareClose(Tail(strand))

\* Its handler calls close(), which runs at once, and do_read() follows.
FrameCloses ==
    /\ ~closed
    /\ closed' = TRUE
    /\ queue' = <<>>
    /\ writing' = FALSE
    /\ open' = FALSE
    /\ wire' = <<>>
    /\ strand' = Tail(strand) \o Abort("write_failed", wire # <<>>)
    /\ closing' = TRUE
    /\ raced' = WriteCompleted(Tail(strand))
    /\ Read

RunRead ==
    /\ StrandHas("read")
    /\ FrameTaken \/ FrameThrows \/ FrameCloses
    /\ UNCHANGED <<delivered, user, undefined, peer>>

\* A failed read, an expired timer or a close() from another thread ends the
\* session: on_read(), reset_timer(), close().
RunEnding ==
    /\ StrandHas("read_failed") \/ StrandHas("expired") \/ StrandHas("close")
    /\ PrepareClose(Tail(strand))
    /\ UNCHANGED <<delivered, user, undefined, peer>>

\* Completion of async_close: the close handler drops the subscription.
RunClosed ==
    /\ StrandHas("closed")
    /\ strand' = Tail(strand)
    /\ IF stage = "streaming"
       THEN notified' = notified + 1 /\ subscribed' = FALSE
       ELSE UNCHANGED <<notified, subscribed>>
    /\ UNCHANGED <<closed, queue, writing, timer, socket, stage, posted, raced, undefined, peer>>

-----------------------------------------------------------------------------
(* The socket, the client and time.                                        *)

Complete(kind) == strand' = Append(strand, [kind |-> kind])

\* A frame comes in.
FrameArrives ==
    /\ peer = "up" /\ open /\ reads > 0
    /\ reads' = reads - 1
    /\ Complete("read")
    /\ UNCHANGED <<closed, queue, writing, timer, open, wire, closing, delivered, user,
                   raced, undefined, peer>>

\* The read ends: the client has closed the websocket, it is gone, or the session
\* is closing.
ReadEnds ==
    /\ reads > 0
    /\ peer # "mute" \/ ~open
    /\ reads' = reads - 1
    /\ open' = FALSE
    /\ Complete("read_failed")
    /\ UNCHANGED <<closed, queue, writing, timer, wire, closing, delivered, user, raced, undefined,
                   peer>>

WriteSucceeds ==
    /\ wire # <<>> /\ peer # "gone"
    /\ wire' = Tail(wire)
    /\ delivered' = Append(delivered, Head(wire))
    /\ Complete("written")
    /\ UNCHANGED <<closed, queue, writing, timer, open, reads, closing, user, raced, undefined, peer>>

WriteFails ==
    /\ wire # <<>>
    /\ peer = "gone" \/ ~open
    /\ wire' = Tail(wire)
    /\ open' = FALSE
    /\ Complete("write_failed")
    /\ UNCHANGED <<closed, queue, writing, timer, reads, closing, delivered, user, raced, undefined,
                   peer>>

\* The handshake ends with the client's close frame or an error; a client that is
\* connected and silent never ends it.
CloseEnds ==
    /\ closing /\ peer # "mute"
    /\ closing' = FALSE
    /\ Complete("closed")
    /\ UNCHANGED <<closed, queue, writing, timer, open, wire, reads, delivered, user, raced, undefined,
                   peer>>

PeerChanges ==
    /\ \/ peer = "up" /\ peer' \in {"mute", "gone"}
       \/ peer = "mute" /\ peer' = "gone"
    /\ UNCHANGED <<strand, closed, queue, writing, timer, socket, user, raced, undefined>>

TimePasses ==
    /\ timer > 0 /\ ~undefined
    /\ timer' = timer - 1
    /\ IF timer = 1 THEN Complete("expired") ELSE UNCHANGED strand
    /\ UNCHANGED <<closed, queue, writing, socket, user, raced, undefined, peer>>

-----------------------------------------------------------------------------
Run == RunWrite \/ RunWritten \/ RunWriteFailed \/ RunRead \/ RunEnding \/ RunClosed

WsNext ==
    \/ OpenStream \/ TurnAway \/ Refuse
    \/ TopicMessage \/ CloseCall
    \/ Run
    \/ FrameArrives \/ ReadEnds \/ WriteSucceeds \/ WriteFails \/ CloseEnds
    \/ PeerChanges \/ TimePasses

WsSpec == WsInit /\ [][WsNext]_wsVars

\* The io thread runs the strand, and operations on a dead socket end. A client
\* that stays silent is no dead socket.
WsFairness ==
    /\ WF_wsVars(Run)
    /\ WF_wsVars(ReadEnds /\ (peer = "gone" \/ ~open))
    /\ WF_wsVars(WriteFails)
    /\ WF_wsVars(CloseEnds)

WsFairSpec == WsSpec /\ WsFairness

-----------------------------------------------------------------------------
(* Properties.                                                             *)

\* What reaches the client is the messages in the order they were handed over,
\* none twice and none left out (write_raw, do_write).
DeliveredInOrder == \A i \in DOMAIN delivered : delivered[i] = i

\* The socket never has two writes or two reads under way, which Beast forbids,
\* through any order of writes, failures, closing and late completions.
OneOperationEach == Len(wire) <= 1 /\ reads <= 1

\* While the session is not closed, a completed write finds its message at the
\* front of the queue (the completion of do_write pops it unseen).
WrittenIsFront ==
    ~closed => /\ ~undefined
               /\ \A i \in DOMAIN strand : strand[i].kind = "written" =>
                      queue # <<>> /\ Head(queue) = delivered[Len(delivered)]

\* The close handler runs once at most, and only for a closed session
\* (prepare_close).
NotifiedOnce == notified <= 1 /\ (notified = 1 => closed /\ ~subscribed)

\* An empty queue is popped in one way only: a write had completed, and its handler
\* stood on the strand, when something else closed the session (prepare_close empties
\* the queue, the completion of do_write does not look at m_closed). Nothing that
\* comes after a close makes up another.
UndefinedOnlyByRace == undefined => closed /\ raced

\* Messages, failures, expiries and closing in any order keep an open session in a state
\* Beast and its own queue allow, with nothing lost or told twice. A session closed ahead
\* of a completion that was already queued is not safe: it, and no other, pops an empty
\* queue.
SessionSound ==
    /\ WsTypeOK /\ DeliveredInOrder /\ OneOperationEach /\ WrittenIsFront /\ NotifiedOnce
    /\ UndefinedOnlyByRace

\* The subscription of a stream whose session is closed, or whose client is gone,
\* goes, unless the client stays connected and silent or the process was lost to
\* an undefined pop (handle_topic_json_stream, on_read, prepare_close).
StreamReleased ==
    []<>(subscribed /\ (closed \/ peer = "gone") => undefined \/ peer = "mute")

\* "Errors are sent as a frame" (RosSupport.md, line 70): a client that is turned
\* away and stays up has been told why by the time the handshake is over.
ErrorFrameSent ==
    stage = "turned_away" /\ peer = "up" /\ ~closing => delivered # <<>>
=============================================================================
