-------------------------------- MODULE Gateway --------------------------------
(***************************************************************************)
(* internal/broker/gateway/server.go: the websocket proxy between one      *)
(* window's Codex child and the shared app-server, and what it tells the   *)
(* session manager.  A connection has two proxies (up: client to           *)
(* app-server, down: app-server to client), a bounded queue of             *)
(* observations and a dispatcher that hands them to the manager one at a   *)
(* time, off the proxies' path.  proxyFrames inspects every text frame     *)
(* twice, before and after it is written.                                  *)
(*                                                                         *)
(* The connections are the ones of one session: a child that is reloaded   *)
(* opens a new one, and with Overlapping it may do so while the old one    *)
(* is still being torn down.                                               *)
(***************************************************************************)
EXTENDS SessionManager, Sequences

CONSTANTS
    Conns, Threads, NoThread,
    Requests,      \* ids of thread/start, thread/resume and thread/fork requests
    Statuses,      \* thread statuses the app-server announces
    QueueSize,     \* capacity of the observations channel (64 in the code)
    MaxRunning,    \* bound: turns one connection runs at once
    MaxCount,      \* bound: no turn starts at this count; see Emits
    Overlapping

ASSUME ThreadsAssumption == NoThread \notin Threads
ASSUME QueueAssumption == QueueSize \in Nat \ {0} /\ MaxRunning \in Nat /\ MaxCount \in Nat
ASSUME OverlapAssumption == Overlapping \in BOOLEAN

VARIABLES
    conn,      \* handleWebSocket: how far each connection is
    up,        \* the client's proxy: where it is, and the request it sent
    down,      \* the app-server's proxy: where it is, and its last frame
    pending,   \* connState.pending
    fresh,     \* request ids the client has not used yet
    asked,     \* thread requests the app-server has not answered
    queue,     \* the observations channel
    disp,      \* the dispatcher: "wait", "call" (inside a callback) or "done"
    entry,     \* the manager's entry for the session
    thread,    \* active_thread_id of its record
    running,   \* turns the app-server runs for each connection's client
    opened,    \* the thread last opened for a client that was there
    crossed    \* has a request of the app-server taken a noted request?

vars == <<conn, up, down, pending, fresh, asked, queue, disp, entry, thread, running, opened,
          crossed>>
proxied == <<pending, fresh, asked, queue, running, opened, crossed>>

(* A connection is announced ("joining": OnGatewayConnected(true) has not
   returned), "open", "cancelled" once a proxy ended, "leaving" while
   OnGatewayConnected(false) runs, and then closed ("none"). *)
ConnStates == {"none", "joining", "open", "cancelled", "leaving"}

(* pendingThreadRequest: a thread/start names no thread. *)
ThreadRequests == [id : Requests, thread : Threads \cup {NoThread}]

(* Frames of the app-server that an inspection makes something of: its
   notifications, its answers (an error names no thread) and its own requests,
   such as an approval, whose ids are the app-server's to choose. *)
Frames ==
    [kind : {"other", "started", "completed"}]
    \cup [kind : {"status"}, status : Statuses]
    \cup [kind : {"thread"}, thread : Threads]
    \cup [kind : {"response"}, id : Requests, thread : Threads \cup {NoThread}]
    \cup [kind : {"request"}, id : Requests]

Frame(k) == [kind |-> k]

UpAt(at, sent) == [at |-> at, sent |-> sent]
Ended == UpAt("end", {})

Observations == {f \in Frames : f.kind \notin {"other", "response", "request"}}

Init ==
    /\ conn = [c \in Conns |-> "none"]
    /\ up = [c \in Conns |-> Ended]
    /\ down = [c \in Conns |-> [at |-> "end", frame |-> Frame("other")]]
    /\ pending = [c \in Conns |-> {}]
    /\ fresh = [c \in Conns |-> Requests]
    /\ asked = [c \in Conns |-> {}]
    /\ queue = [c \in Conns |-> <<>>]
    /\ disp = [c \in Conns |-> "done"]
    /\ entry = HostRegistered(NoEntry)
    /\ thread = NoThread
    /\ running = [c \in Conns |-> 0]
    /\ opened = [c \in Conns |-> NoThread]
    /\ crossed = [c \in Conns |-> FALSE]
--------------------------------------------------------------------------------
(* A connection begins and ends. *)

(* OnGatewayConnected(true).  Nothing is left of the goroutines of an earlier
   connection that used the same identity. *)
Connect(c) ==
    /\ conn[c] = "none" /\ up[c] = Ended /\ down[c].at = "end"
    /\ Overlapping \/ \A b \in Conns : conn[b] = "none"
    /\ conn' = [conn EXCEPT ![c] = "joining"]
    /\ entry' = GatewaySet(entry, TRUE)
    /\ pending' = [pending EXCEPT ![c] = {}]
    /\ fresh' = [fresh EXCEPT ![c] = Requests]
    /\ asked' = [asked EXCEPT ![c] = {}]
    /\ queue' = [queue EXCEPT ![c] = <<>>]
    /\ running' = [running EXCEPT ![c] = 0]
    /\ opened' = [opened EXCEPT ![c] = NoThread]
    /\ crossed' = [crossed EXCEPT ![c] = FALSE]
    /\ UNCHANGED <<up, down, disp, thread>>

(* It has returned: the dispatcher and the two proxies start. *)
Open(c) ==
    /\ conn[c] = "joining"
    /\ conn' = [conn EXCEPT ![c] = "open"]
    /\ up' = [up EXCEPT ![c] = UpAt("read", {})]
    /\ down' = [down EXCEPT ![c] = [at |-> "read", frame |-> Frame("other")]]
    /\ disp' = [disp EXCEPT ![c] = "wait"]
    /\ UNCHANGED <<proxied, entry, thread>>

(* <-errCh: a proxy has ended, and observerCancel tells the dispatcher. *)
Cancel(c) ==
    /\ conn[c] = "open" /\ (up[c] = Ended \/ down[c].at = "end")
    /\ conn' = [conn EXCEPT ![c] = "cancelled"]
    /\ UNCHANGED <<up, down, proxied, disp, entry, thread>>

(* Teardown that does not wait for the dispatcher. *)
DisconnectEarly(c) ==
    /\ conn[c] = "cancelled"
    /\ conn' = [conn EXCEPT ![c] = "leaving"]
    /\ entry' = GatewaySet(entry, FALSE)
    /\ UNCHANGED <<up, down, proxied, disp, thread>>

(* <-observerDone, then OnGatewayConnected(false). *)
Disconnect(c) ==
    /\ conn[c] = "cancelled" /\ disp[c] = "done"
    /\ conn' = [conn EXCEPT ![c] = "leaving"]
    /\ entry' = GatewaySet(entry, FALSE)
    /\ UNCHANGED <<up, down, proxied, disp, thread>>

(* It has returned: both sockets are closed. *)
Close(c) ==
    /\ conn[c] = "leaving"
    /\ conn' = [conn EXCEPT ![c] = "none"]
    /\ UNCHANGED <<up, down, proxied, disp, entry, thread>>
--------------------------------------------------------------------------------
(* The client's proxy. *)

(* A thread request is noted, written and read by the app-server.  Other
   frames of a client change nothing. *)
ClientRequest(c, r) ==
    /\ up[c].at = "read" /\ conn[c] # "none"
    /\ r.id \in fresh[c]
    /\ fresh' = [fresh EXCEPT ![c] = @ \ {r.id}]
    /\ pending' = [pending EXCEPT ![c] = @ \cup {r}]
    /\ asked' = [asked EXCEPT ![c] = @ \cup {r}]
    /\ up' = [up EXCEPT ![c] = UpAt("inspect", {r})]
    /\ UNCHANGED <<conn, down, queue, disp, entry, thread, running, opened, crossed>>

(* The second inspection notes it again: the answer may have come by now. *)
InspectRequestAgain(c) ==
    /\ up[c].at = "inspect"
    /\ pending' = [pending EXCEPT ![c] = @ \cup up[c].sent]
    /\ up' = [up EXCEPT ![c] = UpAt("read", {})]
    /\ UNCHANGED <<conn, down, fresh, asked, queue, disp, entry, thread, running, opened,
                   crossed>>

(* The child exits, or the socket is closed. *)
UpEnds(c) ==
    /\ up[c].at = "read"
    /\ up' = [up EXCEPT ![c] = Ended]
    /\ UNCHANGED <<conn, down, proxied, disp, entry, thread>>
--------------------------------------------------------------------------------
(* The app-server's proxy. *)

(* A thread opened for a client that has not gone. *)
Opens(c, t) == opened' = IF up[c] = Ended THEN opened ELSE [opened EXCEPT ![c] = t]

(* External: what the app-server may send, and what that says of its turns
   and threads.  MaxCount is above what an open connection can count, and only
   limits how long a cancelled one goes on counting. *)
Emits(c, f) ==
    \/ /\ f.kind \in {"other", "status", "request"}
       /\ UNCHANGED <<asked, running, opened>>
    \/ /\ f.kind = "started" /\ running[c] < MaxRunning /\ entry.turns < MaxCount
       /\ running' = [running EXCEPT ![c] = @ + 1]
       /\ UNCHANGED <<asked, opened>>
    \/ /\ f.kind = "completed" /\ running[c] > 0
       /\ running' = [running EXCEPT ![c] = @ - 1]
       /\ UNCHANGED <<asked, opened>>
    \/ /\ f.kind = "thread"
       /\ Opens(c, f.thread)
       /\ UNCHANGED <<asked, running>>
    \/ /\ f.kind = "response"
       /\ \E r \in asked[c] :
            /\ r.id = f.id
            /\ asked' = [asked EXCEPT ![c] = @ \ {r}]
       /\ IF f.thread = NoThread THEN UNCHANGED opened ELSE Opens(c, f.thread)
       /\ UNCHANGED running

ReadFrame(c, f) ==
    /\ down[c].at = "read" /\ conn[c] # "none"
    /\ Emits(c, f)
    /\ down' = [down EXCEPT ![c] = [at |-> "inspect", frame |-> f]]
    /\ UNCHANGED <<conn, up, pending, fresh, queue, disp, entry, thread, crossed>>

(* trackResponse takes any frame of the app-server that has the id of a noted
   request for its answer: it does not look at the method. *)
Answers(c, f) == {r \in pending[c] : f.kind \in {"response", "request"} /\ r.id = f.id}

(* The thread an answer names, without a look at an error, which has none. *)
NamedEvenByErrors(f, r) ==
    IF f.kind = "request" \/ f.thread = NoThread THEN r.thread ELSE f.thread

(* A request of the app-server has no result and no error: it counts as an
   answer that leaves the thread to the noted request. *)
Named(f, r) == IF f.kind = "request" THEN r.thread ELSE f.thread

(* trackServerMessage: a frame with the id of a noted request is its answer and
   an observation of the thread that names; else the frame is what it says. *)
Observed(c, f) ==
    LET named == {Named(f, r) : r \in Answers(c, f)} \ {NoThread} IN
    IF f.kind \notin {"response", "request"} THEN f
    ELSE IF named # {} THEN [kind |-> "thread", thread |-> CHOOSE t \in named : TRUE]
    ELSE Frame("other")

Crosses(c, f) == f.kind = "request" /\ Answers(c, f) # {}

NextAt == [inspect |-> "write", again |-> "read"]

(* Inspection that cannot be called off while it waits for room. *)
InspectFrameStubbornly(c) ==
    LET f == down[c].frame
        o == Observed(c, f) IN
    /\ down[c].at \in DOMAIN NextAt
    /\ o.kind = "other" \/ Len(queue[c]) < QueueSize
    /\ queue' = IF o.kind = "other" THEN queue ELSE [queue EXCEPT ![c] = Append(@, o)]
    /\ pending' = [pending EXCEPT ![c] = @ \ Answers(c, f)]
    /\ crossed' = [crossed EXCEPT ![c] = @ \/ Crosses(c, f)]
    /\ down' = [down EXCEPT ![c].at = NextAt[@]]
    /\ UNCHANGED <<conn, up, fresh, asked, disp, entry, thread, running, opened>>

(* Inspection that queues without a bound. *)
InspectFrameUnbounded(c) ==
    LET f == down[c].frame
        o == Observed(c, f) IN
    /\ down[c].at \in DOMAIN NextAt
    /\ queue' = IF o.kind = "other" THEN queue ELSE [queue EXCEPT ![c] = Append(@, o)]
    /\ pending' = [pending EXCEPT ![c] = @ \ Answers(c, f)]
    /\ crossed' = [crossed EXCEPT ![c] = @ \/ Crosses(c, f)]
    /\ down' = [down EXCEPT ![c].at = NextAt[@]]
    /\ UNCHANGED <<conn, up, fresh, asked, disp, entry, thread, running, opened>>

(* An observation waits for room in the queue, or for observerCancel; the
   channel is picked at random when both are ready. *)
InspectFrame(c) ==
    LET f == down[c].frame
        o == Observed(c, f) IN
    /\ down[c].at \in DOMAIN NextAt
    /\ \/ o.kind = "other" /\ UNCHANGED queue
       \/ /\ o.kind # "other" /\ Len(queue[c]) < QueueSize
          /\ queue' = [queue EXCEPT ![c] = Append(@, o)]
       \/ /\ o.kind # "other" /\ conn[c] \notin {"joining", "open"}
          /\ UNCHANGED queue
    /\ pending' = [pending EXCEPT ![c] = @ \ Answers(c, f)]
    /\ crossed' = [crossed EXCEPT ![c] = @ \/ Crosses(c, f)]
    /\ down' = [down EXCEPT ![c].at = NextAt[@]]
    /\ UNCHANGED <<conn, up, fresh, asked, disp, entry, thread, running, opened>>

WriteFrame(c) ==
    /\ down[c].at = "write" /\ conn[c] # "none"
    /\ down' = [down EXCEPT ![c].at = "again"]
    /\ UNCHANGED <<conn, up, proxied, disp, entry, thread>>

(* The app-server exits, the child is gone, or the sockets are closed. *)
DownEnds(c) ==
    /\ down[c].at \in {"read", "write"}
    /\ down' = [down EXCEPT ![c].at = "end"]
    /\ UNCHANGED <<conn, up, proxied, disp, entry, thread>>
--------------------------------------------------------------------------------
(* The dispatcher. *)

Counted(e, o) ==
    CASE o.kind = "started" -> TurnNoted(e)
      [] o.kind = "completed" -> TurnDone(e)
      [] o.kind = "status" -> StatusNoted(e, o.status)
      [] o.kind = "thread" -> e

(* dispatchObservation: the manager is told, and then the callback (a thread's
   excepted) tries to reconcile a pending switch, which may wait for switchMu. *)
Dispatch(c) ==
    /\ disp[c] = "wait" /\ queue[c] # <<>>
    /\ LET o == Head(queue[c]) IN
       /\ entry' = Counted(entry, o)
       /\ thread' = IF o.kind = "thread" THEN o.thread ELSE thread
    /\ queue' = [queue EXCEPT ![c] = Tail(@)]
    /\ disp' = [disp EXCEPT ![c] = "call"]
    /\ UNCHANGED <<conn, up, down, pending, fresh, asked, running, opened, crossed>>

CallbackReturns(c) ==
    /\ disp[c] = "call"
    /\ disp' = [disp EXCEPT ![c] = "wait"]
    /\ UNCHANGED <<conn, up, down, proxied, entry, thread>>

(* <-observerCtx.Done(), whatever the queue still holds. *)
DispatcherStops(c) ==
    /\ disp[c] = "wait" /\ conn[c] = "cancelled"
    /\ disp' = [disp EXCEPT ![c] = "done"]
    /\ UNCHANGED <<conn, up, down, proxied, entry, thread>>

Step(c) ==
    \/ Connect(c) \/ Open(c) \/ Cancel(c) \/ Disconnect(c) \/ Close(c)
    \/ \E r \in ThreadRequests : ClientRequest(c, r)
    \/ InspectRequestAgain(c) \/ UpEnds(c)
    \/ \E f \in Frames : ReadFrame(c, f)
    \/ InspectFrame(c) \/ WriteFrame(c) \/ DownEnds(c)
    \/ Dispatch(c) \/ CallbackReturns(c) \/ DispatcherStops(c)

Next == \E c \in Conns : Step(c)

Spec == Init /\ [][Next]_vars

(* Goroutines run, and a select does not pass over a ready case for ever, as it
   picks among them at random; a callback returns, because what holds switchMu is bounded
   by timeouts (AuthRuntime's start waits 8 seconds at most).  Sockets of a
   closed connection fail; an open one may stay idle for ever. *)
Fairness ==
    \A c \in Conns :
        /\ WF_vars(InspectFrame(c)) /\ WF_vars(WriteFrame(c) \/ (down[c].at = "write" /\ DownEnds(c)))
        /\ WF_vars(InspectRequestAgain(c))
        /\ WF_vars(Dispatch(c)) /\ SF_vars(DispatcherStops(c)) /\ WF_vars(CallbackReturns(c))
        /\ WF_vars(Cancel(c)) /\ WF_vars(Disconnect(c)) /\ WF_vars(Close(c))
        /\ WF_vars(conn[c] = "none" /\ (UpEnds(c) \/ DownEnds(c)))

FairSpec == Spec /\ Fairness
--------------------------------------------------------------------------------
(* Properties *)

(* Every variable keeps its type. *)
TypeOK ==
    /\ conn \in [Conns -> ConnStates]
    /\ up \in [Conns -> [at : {"read", "inspect", "end"}, sent : SUBSET ThreadRequests]]
    /\ down \in [Conns -> [at : {"read", "inspect", "write", "again", "end"}, frame : Frames]]
    /\ pending \in [Conns -> SUBSET ThreadRequests]
    /\ fresh \in [Conns -> SUBSET Requests]
    /\ asked \in [Conns -> SUBSET ThreadRequests]
    /\ queue \in [Conns -> Seq(Observations)]
    /\ \A c \in Conns : Len(queue[c]) <= QueueSize
    /\ disp \in [Conns -> {"wait", "call", "done"}]
    /\ entry \in Entries
    /\ thread \in Threads \cup {NoThread}
    /\ running \in [Conns -> Nat]
    /\ opened \in [Conns -> Threads \cup {NoThread}]
    /\ crossed \in [Conns -> BOOLEAN]

(* Everything the app-server has sent a client that is still there is written
   and dispatched. *)
Drained(c) ==
    conn[c] = "open" /\ up[c] # Ended /\ down[c].at = "read" /\ queue[c] = <<>>

(* Once an open connection is drained, a session whose client runs a turn
   counts as busy: whatever was counted twice, floored or repaired, a switch
   sees the turn. *)
RunningTurnCounts ==
    \A c \in Conns : Drained(c) /\ running[c] > 0 => entry.gateway /\ entry.turns > 0

(* Without status announcements the count comes back to zero with the last
   turn, although each frame is inspected twice. *)
IdleSessionIsFree ==
    \A c \in Conns : Drained(c) /\ running[c] = 0 => entry.turns = 0

(* A session without a connection is not counted busy: nothing a torn-down
   connection had queued reaches the manager after its disconnect. *)
NoTurnsAfterTeardown ==
    (\A c \in Conns : conn[c] \in {"none", "leaving"}) =>
        ~entry.gateway /\ entry.turns = 0

(* The recorded thread of a drained connection is the one the app-server
   opened last: failed requests, answers that overtake the second inspection of
   their request and requests noted for nothing leave no other behind, unless a
   request of the app-server was taken for an answer on this connection. *)
RecordedThreadIsOpened ==
    \A c \in Conns :
        Drained(c) /\ opened[c] # NoThread /\ ~crossed[c] => thread = opened[c]

(* A connection that is being torn down is gone in the end, and so are both
   of its proxies: none is left waiting for room in a queue nobody reads. *)
TeardownCompletes ==
    \A c \in Conns :
        conn[c] = "cancelled" ~> up[c] = Ended /\ down[c].at = "end"
================================================================================
