---------------------------------- MODULE Ipc ----------------------------------
(***************************************************************************)
(* One connection of the named pipe between a CAW window and the broker    *)
(* (internal/ipc, client.go and server.go).  Goroutines of the window call *)
(* the broker at the same time, one goroutine of it (readLoop) reads       *)
(* answers and events; at the broker one goroutine (handleConn) serves the *)
(* requests in turn, while handlers of other connections send events.  The *)
(* pipe holds a bounded number of messages in each direction, and the      *)
(* client's mutex guards both the table of pending calls and the writing   *)
(* of requests, so that a caller that waits for room in the pipe keeps     *)
(* readLoop from delivering answers.                                       *)
(***************************************************************************)
EXTENDS Naturals, Sequences

CONSTANTS
    Calls,      \* request ids (uuid.NewString): each is used once
    Deadlined,  \* calls whose context has a deadline
    Refused,    \* calls whose handler returns an error
    Events,     \* events sent by other handlers
    Capacity,   \* messages the pipe holds in each direction
    ReadLoop, Owner, Nobody

Closers == {ReadLoop, Owner}
Messages == Calls \cup Events
Outcome(c) == IF c \in Refused THEN "error" ELSE "ok"

ASSUME NamesAssumption ==
    /\ Calls \cap Events = {} /\ Nobody \notin Calls
    /\ ReadLoop # Owner
ASSUME CapacityAssumption == Capacity \in Nat \ {0}

VARIABLES
    call,       \* call -> where its caller is in Request
    result,     \* call -> what Request returns, or "none"
    answer,     \* call -> what is in its respCh (of capacity 1), or "none"
    pending,    \* calls in c.pending
    mu,         \* caller that writes while it holds c.mu, or Nobody
    reader,     \* readLoop: where it is and the call whose answer it has
    closer,     \* who is where in Close
    closed,     \* c.closed is closed
    crashed,    \* it was closed twice: the window has panicked
    open,       \* ends of the pipe that are open: "window", "broker"
    up, down,   \* messages in the pipe
    server,     \* handleConn: where it is and the call it has
    executed,   \* calls whose handler has returned
    event,      \* event -> where its sender is in SendEvent
    heard       \* events handed to the window's EventHandler

client == <<call, result, answer, pending, mu>>
ending == <<closer, closed, crashed, open>>
broker == <<server, executed, event>>
vars == <<client, reader, ending, up, down, broker, heard>>

Stages == {"new", "send", "write", "wait", "over"}

Broken == open # {"window", "broker"}

Init ==
    /\ call = [c \in Calls |-> "new"]
    /\ result = [c \in Calls |-> "none"]
    /\ answer = [c \in Calls |-> "none"]
    /\ pending = {} /\ mu = Nobody
    /\ reader = [at |-> "read", has |-> Nobody]
    /\ closer = [x \in Closers |-> "no"]
    /\ closed = FALSE /\ crashed = FALSE
    /\ open = {"window", "broker"}
    /\ up = <<>> /\ down = <<>>
    /\ server = [at |-> "read", has |-> Nobody]
    /\ executed = {}
    /\ event = [e \in Events |-> "new"]
    /\ heard = {}
--------------------------------------------------------------------------------
(* Request, in one of the window's goroutines *)

To(c, at) == call' = [call EXCEPT ![c] = at]

Request(c) ==
    /\ call[c] = "new" /\ ~crashed
    /\ To(c, "send")
    /\ UNCHANGED <<result, pending, answer, mu, reader, ending, up, down, broker, heard>>

(* A send that does not lock. *)
SendFreely(c) ==
    /\ call[c] = "send" /\ ~crashed
    /\ pending' = pending \cup {c}
    /\ mu' = c
    /\ To(c, "write")
    /\ UNCHANGED <<result, answer, reader, ending, up, down, broker, heard>>

(* The call is put into the table under the lock, and the lock is taken once
   more to send it, which is one step here: until it is sent, nothing looks a
   call up. *)
Lock(c) ==
    /\ call[c] = "send" /\ mu = Nobody /\ ~crashed
    /\ pending' = pending \cup {c}
    /\ mu' = c
    /\ To(c, "write")
    /\ UNCHANGED <<result, answer, reader, ending, up, down, broker, heard>>

(* The deferred delete waits for the lock too.  Once a call has its result,
   nothing changes it, so that both are one step. *)
Returns(c, what) ==
    /\ To(c, "over")
    /\ result' = [result EXCEPT ![c] = what]
    /\ pending' = pending \ {c}

(* Encodes into the pipe while it holds the lock. *)
Send(c) ==
    /\ call[c] = "write" /\ ~crashed
    /\ \/ /\ Broken
          /\ Returns(c, "failed")
          /\ UNCHANGED up
       \/ /\ ~Broken /\ Len(up) < Capacity
          /\ up' = Append(up, c)
          /\ To(c, "wait")
          /\ UNCHANGED <<result, pending>>
    /\ mu' = Nobody
    /\ UNCHANGED <<answer, reader, ending, down, broker, heard>>

(* The three cases of the select: with several of them ready, any is taken. *)
Waits(c) == call[c] = "wait" /\ mu = Nobody /\ ~crashed

Answered(c) ==
    /\ Waits(c) /\ answer[c] # "none"
    /\ Returns(c, answer[c])
    /\ UNCHANGED <<answer, mu, reader, ending, up, down, broker, heard>>

TimesOut(c) ==
    /\ Waits(c) /\ c \in Deadlined
    /\ Returns(c, "failed")
    /\ UNCHANGED <<answer, mu, reader, ending, up, down, broker, heard>>

SeesClosed(c) ==
    /\ Waits(c) /\ closed
    /\ Returns(c, "failed")
    /\ UNCHANGED <<answer, mu, reader, ending, up, down, broker, heard>>
--------------------------------------------------------------------------------
(* readLoop.  A message is a call with its outcome, or an event. *)

Reader(at, has) == reader' = [at |-> at, has |-> has]

ReadResponse ==
    /\ reader.at = "read" /\ "window" \in open /\ down # <<>> /\ Head(down) \notin Events
    /\ down' = Tail(down)
    /\ Reader("lookup", Head(down))
    /\ UNCHANGED <<client, ending, up, broker, heard>>

(* The window's EventHandler, SignalBuffer.HandleEvent, does not block. *)
ReadEvent ==
    /\ reader.at = "read" /\ "window" \in open /\ down # <<>> /\ Head(down) \in Events
    /\ down' = Tail(down)
    /\ heard' = heard \cup {Head(down)}
    /\ UNCHANGED <<client, reader, ending, up, broker>>

(* A broken pipe may still give what was in it. *)
ReadFails ==
    /\ reader.at = "read" /\ Broken
    /\ Reader("failed", Nobody)
    /\ UNCHANGED <<client, ending, up, down, broker, heard>>

Lookup ==
    /\ reader.at = "lookup" /\ mu = Nobody
    /\ IF reader.has \in pending THEN Reader("deliver", reader.has) ELSE Reader("read", Nobody)
    /\ UNCHANGED <<client, ending, up, down, broker, heard>>

(* A table without request ids: the answer goes to some call that waits. *)
DeliverToAny ==
    /\ reader.at = "deliver"
    /\ \E c \in pending :
         /\ call[c] = "wait" /\ answer[c] = "none"
         /\ answer' = [answer EXCEPT ![c] = Outcome(reader.has)]
    /\ Reader("read", Nobody)
    /\ UNCHANGED <<call, result, pending, mu, ending, up, down, broker, heard>>

(* A respCh without its buffer: delivery waits for the caller. *)
DeliverUnbuffered ==
    /\ reader.at = "deliver" /\ answer[reader.has] = "none" /\ call[reader.has] \in {"send", "write", "wait"}
    /\ answer' = [answer EXCEPT ![reader.has] = Outcome(reader.has)]
    /\ Reader("read", Nobody)
    /\ UNCHANGED <<call, result, pending, mu, ending, up, down, broker, heard>>

(* ch <- env, outside the lock: the caller may have left. *)
Deliver ==
    /\ reader.at = "deliver" /\ answer[reader.has] = "none"
    /\ answer' = [answer EXCEPT ![reader.has] = Outcome(reader.has)]
    /\ Reader("read", Nobody)
    /\ UNCHANGED <<call, result, pending, mu, ending, up, down, broker, heard>>
--------------------------------------------------------------------------------
(* Close, by readLoop after a failed read and by the owner, which may do so at
   any time (homeui's requests outlive its program). *)

Shut(x) == open' = open \ {"window"} /\ closer' = [closer EXCEPT ![x] = "over"]

(* A readLoop that just ends when it cannot read. *)
CheckClosedByOwner(x) ==
    /\ closer[x] = "no" /\ ~crashed /\ x = Owner
    /\ IF closed
       THEN Shut(x)
       ELSE closer' = [closer EXCEPT ![x] = "checked"] /\ UNCHANGED open
    /\ UNCHANGED <<client, reader, closed, crashed, up, down, broker, heard>>

(* select on c.closed *)
CheckClosed(x) ==
    /\ closer[x] = "no" /\ ~crashed
    /\ x = ReadLoop => reader.at = "failed"
    /\ IF closed
       THEN Shut(x)
       ELSE closer' = [closer EXCEPT ![x] = "checked"] /\ UNCHANGED open
    /\ UNCHANGED <<client, reader, closed, crashed, up, down, broker, heard>>

(* close(c.closed) panics when the other one has done it since. *)
CloseChannel(x) ==
    /\ closer[x] = "checked" /\ ~crashed
    /\ closed' = TRUE
    /\ crashed' = closed
    /\ Shut(x)
    /\ UNCHANGED <<client, reader, up, down, broker, heard>>
--------------------------------------------------------------------------------
(* handleConn at the broker *)

Server(at, has) == server' = [at |-> at, has |-> has]

ServerRead ==
    /\ server.at = "read" /\ "broker" \in open /\ up # <<>>
    /\ up' = Tail(up)
    /\ Server("handle", Head(up))
    /\ UNCHANGED <<client, reader, ending, down, executed, event, heard>>

(* The handler: the other modules say what it does. *)
Handle ==
    /\ server.at = "handle" /\ "broker" \in open
    /\ executed' = executed \cup {server.has}
    /\ Server("reply", server.has)
    /\ UNCHANGED <<client, reader, ending, up, down, event, heard>>

(* send, under serverConn.mu: who holds that lock waits only for room in the
   pipe, as all do who want it, so that waiting for both is one step.  An
   answer that cannot be sent is dropped; the next read fails. *)
Reply ==
    /\ server.at = "reply" /\ "broker" \in open
    /\ \/ Broken /\ UNCHANGED down
       \/ ~Broken /\ Len(down) < Capacity /\ down' = Append(down, server.has)
    /\ Server("read", Nobody)
    /\ UNCHANGED <<client, reader, ending, up, executed, event, heard>>

(* The read fails, or the broker ends. *)
ServerEnds ==
    /\ "broker" \in open
    /\ open' = open \ {"broker"}
    /\ UNCHANGED <<client, reader, closer, closed, crashed, up, down, broker, heard>>

(* SendEvent in the handler of another connection: the connection is looked up
   and then written to, under its lock like an answer. *)
FindConn(e) ==
    /\ event[e] = "new"
    /\ event' = [event EXCEPT ![e] = IF "broker" \in open THEN "send" ELSE "over"]
    /\ UNCHANGED <<client, reader, ending, up, down, server, executed, heard>>

SendEvent(e) ==
    /\ event[e] = "send"
    /\ \/ Broken /\ UNCHANGED down
       \/ ~Broken /\ Len(down) < Capacity /\ down' = Append(down, e)
    /\ event' = [event EXCEPT ![e] = "over"]
    /\ UNCHANGED <<client, reader, ending, up, server, executed, heard>>
--------------------------------------------------------------------------------
CallProceeds(c) ==
    Lock(c) \/ Send(c) \/ Answered(c) \/ SeesClosed(c)

ReaderProceeds == ReadResponse \/ ReadEvent \/ ReadFails \/ Lookup \/ Deliver

ServerProceeds == ServerRead \/ Handle \/ Reply

Next ==
    \/ \E c \in Calls : Request(c) \/ CallProceeds(c) \/ TimesOut(c)
    \/ ReaderProceeds
    \/ \E x \in Closers : CheckClosed(x) \/ CloseChannel(x)
    \/ ServerProceeds \/ ServerEnds
    \/ \E e \in Events : FindConn(e) \/ SendEvent(e)

Spec == Init /\ [][Next]_vars

(* Goroutines run, handlers return (all they wait for has a deadline), and a
   mutex is not withheld from one that waits for it.  No deadline has to pass,
   and nobody has to close anything but readLoop after a failed read. *)
Fairness ==
    /\ \A c \in Calls : WF_vars(CallProceeds(c))
    /\ WF_vars(ReaderProceeds)
    /\ WF_vars(CheckClosed(ReadLoop)) /\ \A x \in Closers : WF_vars(CloseChannel(x))
    /\ WF_vars(ServerProceeds)
    /\ \A e \in Events : WF_vars(SendEvent(e))

FairSpec == Spec /\ Fairness
--------------------------------------------------------------------------------
CallTypes ==
    /\ call \in [Calls -> Stages]
    /\ result \in [Calls -> {"none", "ok", "error", "failed"}]
    /\ answer \in [Calls -> {"none", "ok", "error"}]
    /\ pending \subseteq Calls
    /\ mu \in Calls \cup {Nobody}
    /\ \A c \in Calls : call[c] = "write" <=> mu = c

WindowTypes ==
    /\ reader \in [at : {"read", "lookup", "deliver", "failed"}, has : Calls \cup {Nobody}]
    /\ reader.at \in {"lookup", "deliver"} => reader.has \in Calls
    /\ closer \in [Closers -> {"no", "checked", "over"}]
    /\ closed \in BOOLEAN /\ crashed \in BOOLEAN
    /\ heard \subseteq Events

PipeTypes ==
    /\ open \subseteq {"window", "broker"}
    /\ up \in Seq(Calls) /\ down \in Seq(Messages)
    /\ Len(up) <= Capacity /\ Len(down) <= Capacity

BrokerTypes ==
    /\ server \in [at : {"read", "handle", "reply"}, has : Calls \cup {Nobody}]
    /\ server.at # "read" => server.has \in Calls
    /\ executed \subseteq Calls
    /\ event \in [Events -> {"new", "send", "over"}]

(* Types; and one caller at a time writes to the pipe, or two encoders would
   mix their bytes. *)
TypeOK == CallTypes /\ WindowTypes /\ PipeTypes /\ BrokerTypes

(* A call that returns is a call of RemoteCalls that returns: with the outcome
   of its own, single execution, or with a failure, whatever became of earlier
   calls whose answers come late. *)
Abstract == INSTANCE RemoteCalls WITH
    state <- [c \in Calls |->
                CASE call[c] = "new" -> "new"
                  [] call[c] = "over" -> "over"
                  [] OTHER -> "open"],
    returned <- result

ImplementsRemoteCalls == Abstract!Spec

(* Every call returns, the ones without a deadline too: with its answer, or
   because the connection is gone. *)
CallsEnd == \A c \in Calls : call[c] = "send" ~> (call[c] = "over" \/ crashed)

(* An event that a handler of another window sends gets to this window, or the
   connection is gone: no answer, however late, keeps readLoop from reading,
   and with it the handler that sends (which may hold switchMu) from going on. *)
EventsGetThrough ==
    \A e \in Events : event[e] = "send" ~> (e \in heard \/ Broken)
================================================================================
