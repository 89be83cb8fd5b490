----------------------------- MODULE HttpSession -----------------------------
(***************************************************************************)
(* The HTTP side of clover2_http: the listener, one http_session per       *)
(* connection and the reply objects its handlers hold. The io thread runs  *)
(* every session on its strand, a queue of handlers; operations of the     *)
(* socket, the idle timer and replies from other threads append to it, and *)
(* a cancel does not take back what is already queued.                     *)
(***************************************************************************)
EXTENDS Naturals, Sequences, FiniteSets

CONSTANTS
    Conn,          \* connections a client may open
    MaxRequests,   \* bound on the requests of a connection
    MaxFaults      \* bound on the errors of async_accept

ASSUME HttpAssumption == MaxRequests \in Nat \ {0} /\ MaxFaults \in Nat

VARIABLES
    acceptor,  \* the listener: acceptor open, async_accept, retry timer
    faults,    \* errors of async_accept so far
    session,   \* the http_session of a connection
    client     \* the other end of a connection

httpVars == <<acceptor, faults, session, client>>

\* A request is its number and what it is: an ordinary one, one that ends the
\* connection, an upgrade, one over the body limit, one with a malformed target, or the
\* rest of one whose beginning was read with the request before it.
RequestKind == {"get", "last", "upgrade", "large", "malformed", "torn"}
Request == [n : 1 .. MaxRequests, kind : RequestKind]
NoRequest == [n |-> 0, kind |-> "get"]

\* What the strand may hold: the completion of a read, the expiry of the timer, a
\* posted reply, the completion of a write.
ReadEntry(r) == [kind |-> "read", req |-> r]
ReadFailed == [kind |-> "read_failed", req |-> NoRequest]
Idle == [kind |-> "idle", req |-> NoRequest]
Reply(r) == [kind |-> "reply", req |-> r]
Written == [kind |-> "written", req |-> NoRequest]
WriteFailed == [kind |-> "write_failed", req |-> NoRequest]

HttpTypeOK ==
    /\ acceptor \in [open : BOOLEAN, retry : BOOLEAN,
                     accept : {"none", "pending", "done", "failed", "aborted"}]
    /\ faults \in 0 .. MaxFaults
    /\ session \in [Conn -> [stage : {"none", "open", "upgraded", "closed"},
                             strand : Seq([kind : {"read", "read_failed", "idle", "reply",
                                                   "written", "write_failed"},
                                           req : Request \cup {NoRequest}]),
                             reading : BOOLEAN, timer : BOOLEAN, buffer : Seq(Request),
                             keep : BOOLEAN, held : SUBSET Request,
                             sent : SUBSET (1 .. MaxRequests),
                             writing : Request \cup {NoRequest}]]
    /\ client \in [Conn -> [stage : {"none", "waiting", "up", "deaf", "gone"},
                            pipelines : BOOLEAN, asked : 0 .. MaxRequests,
                            wire : Seq(Request), answers : Seq(Request)]]

HttpInit ==
    /\ acceptor = [open |-> TRUE, accept |-> "pending", retry |-> FALSE]
    /\ faults = 0
    /\ session = [c \in Conn |->
           [stage |-> "none", strand |-> <<>>, reading |-> FALSE, timer |-> FALSE,
            buffer |-> <<>>, keep |-> FALSE, held |-> {}, sent |-> {},
            writing |-> NoRequest]]
    /\ client \in [Conn -> {[stage |-> "none", pipelines |-> p, asked |-> 0, wire |-> <<>>,
                             answers |-> <<>>] : p \in BOOLEAN}]

-----------------------------------------------------------------------------
(* The steps of a session, as functions of its record.                     *)

Posted(s, h) == [s EXCEPT !.strand = Append(@, h)]

\* do_close(): the timer and the operations of the socket are aborted. The socket of an
\* upgraded session has been moved away, and closing what is left does nothing.
Close(s) ==
    LET aborted == (IF s.reading THEN <<ReadFailed>> ELSE <<>>) \o
                   (IF s.writing # NoRequest THEN <<WriteFailed>> ELSE <<>>)
    IN  [s EXCEPT !.timer = FALSE, !.reading = FALSE, !.writing = NoRequest,
                  !.strand = @ \o aborted,
                  !.stage = IF @ = "open" THEN "closed" ELSE @]

BeginRead(s) == IF s.stage = "open" THEN [s EXCEPT !.reading = TRUE] ELSE Posted(s, ReadFailed)

\* Fault: the timer is not started with the read.
StartReadUntimed(s) == BeginRead([s EXCEPT !.buffer = <<>>])

\* do_read(): what the buffer still holds is dropped. On a closed socket the read fails at
\* once.
StartRead(s) == BeginRead([s EXCEPT !.buffer = <<>>, !.timer = TRUE])

\* do_write(): on a closed socket the write fails at once.
StartReply(s, r) ==
    IF s.stage = "open" THEN [s EXCEPT !.writing = r] ELSE Posted(s, WriteFailed)

\* Fault: every call of the reply object sends.
SendAlways(s, r) == Posted([s EXCEPT !.sent = @ \cup {r.n}], Reply(r))

\* send_raw() and the sender handle_request() gave the reply: the first one is posted.
Send(s, r) ==
    IF r.n \in s.sent THEN s ELSE Posted([s EXCEPT !.sent = @ \cup {r.n}], Reply(r))

\* dispatch_http(): the handler, or the router itself, answers before it returns; keeps
\* the reply for another thread; or throws when it has kept it, and the adapter answers.
Handled(s, r) ==
    LET kept == [s EXCEPT !.held = @ \cup {r}]
    IN  {Send(s, r), kept, Send(kept, r)}

\* on_read(), parse_url() and handle_request(): what may become of a request read. The
\* rest of a torn one is no HTTP. An upgrade finds a websocket route or gets a 404.
ReadTaken(s, r) ==
    CASE r.kind = "torn" -> {Close(s)}
      [] r.kind = "large" -> {StartReply([s EXCEPT !.keep = FALSE], r)}
      [] r.kind = "malformed" -> {StartReply([s EXCEPT !.keep = TRUE], r)}
      [] r.kind = "upgrade" -> {[s EXCEPT !.stage = IF @ = "open" THEN "upgraded" ELSE @],
                                StartReply([s EXCEPT !.keep = TRUE], r)}
      [] OTHER -> Handled([s EXCEPT !.keep = (r.kind = "get")], r)

\* on_write() without an error.
AfterWrite(s) == IF s.keep THEN StartRead(s) ELSE Close(s)

-----------------------------------------------------------------------------
(* Handlers on the strand of a session.                                    *)

AtFront(c, kind) == session[c].strand # <<>> /\ Head(session[c].strand).kind = kind
Popped(c) == [session[c] EXCEPT !.strand = Tail(@)]
Becomes(c, s) == session' = [session EXCEPT ![c] = s] /\ UNCHANGED <<acceptor, faults>>

RunHttpRead(c) ==
    /\ AtFront(c, "read")
    /\ \E s \in ReadTaken([Popped(c) EXCEPT !.timer = FALSE], Head(session[c].strand).req) :
           Becomes(c, s)
    /\ UNCHANGED client

\* A failed read, a failed write and an expired timer close the session.
RunHttpEnding(c) ==
    /\ AtFront(c, "read_failed") \/ AtFront(c, "write_failed") \/ AtFront(c, "idle")
    /\ Becomes(c, Close(Popped(c)))
    /\ UNCHANGED client

RunReply(c) ==
    /\ AtFront(c, "reply")
    /\ Becomes(c, StartReply(Popped(c), Head(session[c].strand).req))
    /\ UNCHANGED client

RunHttpWritten(c) ==
    /\ AtFront(c, "written")
    /\ Becomes(c, AfterWrite(Popped(c)))
    /\ UNCHANGED client

RunHttp(c) == RunHttpRead(c) \/ RunHttpEnding(c) \/ RunReply(c) \/ RunHttpWritten(c)

-----------------------------------------------------------------------------
(* Other threads, the timer and the socket.                                *)

\* The thread that keeps the reply answers, or drops it and its destructor answers 500.
HandlerReplies(c, r) ==
    /\ r \in session[c].held
    /\ Becomes(c, [Send(session[c], r) EXCEPT !.held = @ \ {r}])
    /\ UNCHANGED client

TimerExpires(c) ==
    /\ session[c].timer
    /\ Becomes(c, Posted([session[c] EXCEPT !.timer = FALSE], Idle))
    /\ UNCHANGED client

Torn(w) == IF w = <<>> THEN w ELSE <<[Head(w) EXCEPT !.kind = "torn"]>> \o Tail(w)

\* A request has been read, and with it k more, or parts of them, into the buffer.
ReadSucceeds(c) ==
    LET s == session[c]
        bytes == s.buffer \o client[c].wire
    IN  /\ s.reading /\ bytes # <<>>
        /\ \E k \in 1 .. Len(bytes), torn \in BOOLEAN :
               LET left == SubSeq(bytes, k + 1, Len(bytes)) IN
               /\ client' = [client EXCEPT ![c].wire = IF torn THEN Torn(left) ELSE left]
               /\ Becomes(c, Posted([s EXCEPT !.reading = FALSE,
                                              !.buffer = SubSeq(bytes, 2, k)],
                                    ReadEntry(Head(bytes))))

\* The client has closed its end.
ReadFails(c) ==
    /\ session[c].reading
    /\ client[c].stage = "gone" /\ client[c].wire = <<>>
    /\ Becomes(c, Posted([session[c] EXCEPT !.reading = FALSE], ReadFailed))
    /\ UNCHANGED client

ReplySucceeds(c) ==
    /\ session[c].writing # NoRequest /\ client[c].stage = "up"
    /\ client' = [client EXCEPT ![c].answers = Append(@, session[c].writing)]
    /\ Becomes(c, Posted([session[c] EXCEPT !.writing = NoRequest], Written))

ReplyFails(c) ==
    /\ session[c].writing # NoRequest /\ client[c].stage = "gone"
    /\ Becomes(c, Posted([session[c] EXCEPT !.writing = NoRequest], WriteFailed))
    /\ UNCHANGED client

-----------------------------------------------------------------------------
(* The client.                                                             *)

Connect(c) ==
    /\ client[c].stage = "none"
    /\ client' = [client EXCEPT ![c].stage = "waiting"]
    /\ UNCHANGED <<acceptor, faults, session>>

\* A client that does not pipeline asks when its last request was answered.
AskHttp(c, kind) ==
    LET n == client[c].asked + 1 IN
    /\ client[c].stage = "up" /\ n <= MaxRequests
    /\ session[c].stage = "open"
    /\ client[c].pipelines \/ Len(client[c].answers) = client[c].asked
    /\ client' = [client EXCEPT ![c].asked = n,
                                ![c].wire = Append(@, [n |-> n, kind |-> kind])]
    /\ UNCHANGED <<acceptor, faults, session>>

\* A client may stop reading what it is sent, or close its end.
Leave(c) ==
    /\ client[c].stage \in {"up", "deaf"}
    /\ client' \in {[client EXCEPT ![c].stage = s] : s \in {"deaf", "gone"} \ {client[c].stage}}
    /\ UNCHANGED <<acceptor, faults, session>>

-----------------------------------------------------------------------------
(* The listener.                                                           *)

Accept(a) == [a EXCEPT !.accept = IF a.open THEN "pending" ELSE "failed"]

\* async_accept takes a connection from the backlog, but its handler has not run yet.
AcceptSucceeds(c) ==
    /\ acceptor.accept = "pending" /\ client[c].stage = "waiting"
    /\ acceptor' = [acceptor EXCEPT !.accept = "done"]
    /\ client' = [client EXCEPT ![c].stage = "up"]
    /\ UNCHANGED <<faults, session>>

AcceptFails ==
    /\ acceptor.accept = "pending" /\ faults < MaxFaults
    /\ faults' = faults + 1
    /\ acceptor' = [acceptor EXCEPT !.accept = "failed"]
    /\ UNCHANGED <<session, client>>

\* The handler of do_accept() starts a session and accepts again.
RunAccepted(c) ==
    /\ acceptor.accept = "done"
    /\ client[c].stage \in {"up", "deaf", "gone"} /\ session[c].stage = "none"
    /\ acceptor' = Accept(acceptor)
    /\ session' = [session EXCEPT ![c] = StartRead([@ EXCEPT !.stage = "open"])]
    /\ UNCHANGED <<faults, client>>

\* An error is retried later while the acceptor is open.
FailureHandled(a) ==
    [a EXCEPT !.accept = "none", !.retry = (a.accept = "failed" /\ a.open)]

RunAcceptFailed ==
    /\ acceptor.accept \in {"failed", "aborted"}
    /\ acceptor' = FailureHandled(acceptor)
    /\ UNCHANGED <<faults, session, client>>

RunRetry ==
    /\ acceptor.retry
    /\ acceptor' = Accept([acceptor EXCEPT !.retry = FALSE])
    /\ UNCHANGED <<faults, session, client>>

\* stop(), from the thread that destroys the server: what is queued still runs.
Stop ==
    /\ acceptor.open
    /\ acceptor' = [acceptor EXCEPT !.open = FALSE, !.retry = FALSE,
                        !.accept = IF @ = "pending" THEN "aborted" ELSE @]
    /\ UNCHANGED <<faults, session, client>>

-----------------------------------------------------------------------------
HttpNext ==
    \/ AcceptFails \/ RunAcceptFailed \/ RunRetry \/ Stop
    \/ \E c \in Conn :
        \/ AcceptSucceeds(c) \/ RunAccepted(c)
        \/ RunHttp(c)
        \/ \E r \in session[c].held : HandlerReplies(c, r)
        \/ TimerExpires(c)
        \/ ReadSucceeds(c) \/ ReadFails(c) \/ ReplySucceeds(c) \/ ReplyFails(c)
        \/ Connect(c) \/ Leave(c)
        \/ \E kind \in RequestKind \ {"torn"} : AskHttp(c, kind)

HttpSpec == HttpInit /\ [][HttpNext]_httpVars

\* The io thread runs what is queued, the kernel completes what can complete, and time
\* passes. Clients and the threads that keep a reply owe nothing.
HttpFairness ==
    /\ WF_httpVars(RunAcceptFailed \/ RunRetry)
    /\ \A c \in Conn :
        /\ WF_httpVars(AcceptSucceeds(c))
        /\ WF_httpVars(RunAccepted(c))
        /\ WF_httpVars(RunHttp(c))
        /\ WF_httpVars(TimerExpires(c))
        /\ WF_httpVars(ReadSucceeds(c) \/ ReadFails(c))
        /\ WF_httpVars(ReplySucceeds(c) \/ ReplyFails(c))

-----------------------------------------------------------------------------
(* Properties.                                                             *)

CountQueued(c, kinds) == Cardinality({i \in DOMAIN session[c].strand :
                                    session[c].strand[i].kind \in kinds})
Kept(s) == {r \in s.held : r.n \notin s.sent}
One(b) == IF b THEN 1 ELSE 0

\* What will move a session on: a read or a write under way, its completion, a reply that
\* is kept or posted.
Pending(c) ==
    LET s == session[c] IN
    One(s.reading) + One(s.writing # NoRequest) + Cardinality(Kept(s)) +
        CountQueued(c, {"read", "read_failed", "reply", "written", "write_failed"})

\* An open session always has exactly one thing under way that moves it on.
OneStepPending ==
    \A c \in Conn : /\ session[c].stage = "open" => Pending(c) = 1
                    /\ session[c].stage # "open" => Pending(c) <= 1

\* Every answer a client gets is to a request of its own that no later answer precedes; a
\* client that waits for its answers gets them one for one (do_read drops what was read
\* ahead, so a client that pipelines may miss some).
AnswersMatch ==
    \A c \in Conn : LET a == client[c].answers IN
        /\ \A i, j \in DOMAIN a : i < j => a[i].n < a[j].n
        /\ ~client[c].pipelines => \A i \in DOMAIN a : a[i].n = i

\* A connection that was refused a body answers nothing more: the rest of that body would
\* be taken for a request.
LargeIsLast ==
    \A c \in Conn : LET a == client[c].answers IN
        \A i \in DOMAIN a : a[i].kind = "large" => i = Len(a)

\* A session never stalls, never has two reads, two writes or two replies on the way, and
\* answers what it was asked and in that order, whichever way expiries of the timer,
\* replies from other threads, throwing handlers and failures of the socket fall
\* (http_session.cpp, reply_base::send_raw, adapter::invoke).
SessionsAnswerInOrder == HttpTypeOK /\ OneStepPending /\ AnswersMatch /\ LargeIsLast

\* A connection ends or is upgraded unless its client goes on asking, which is bounded
\* here, a handler keeps its reply, or the client does not read: the timer covers the
\* reads alone.
IdleIsClosed ==
    \A c \in Conn : []<>
        (\/ session[c].stage # "open"
         \/ Kept(session[c]) # {}
         \/ client[c].stage = "deaf")

\* A waiting client is taken while the server is not stopped, whatever async_accept
\* failed with before.
WaitingIsAccepted ==
    \A c \in Conn : []<>(client[c].stage # "waiting" \/ ~acceptor.open)

\* Clients are let in and idle ones are let go (do_accept's retry, do_read's timer).
ConnectionsComeAndGo == IdleIsClosed /\ WaitingIsAccepted
=============================================================================
